SPECIFICATION Spec
CONSTANTS
    alice = alice
    bob = bob
    carol = carol
    dave = dave
    erin = erin
    Chats = {c1, c2}
    Decisions = {d1, d2}
    ClientIds = {r1}
    Customers = {alice, bob, erin}
    Invoices <- MCInvoices
    Contracts <- MCContracts
    AutoLimit = 1
    MaxLimit = 2
    Dialect = "postgresql"
INVARIANTS
    TypeOK
    WaitingHasOpenApproval
    CreditAuthorised
    OneCreditPerRequest
    Consistent
    Explained
    KeyCheckIsFinal
    DecisionMailAfterCommit
PROPERTIES
    CreditAndOutcomeTogether
    VerdictsSettle
    EveryCallAnswered

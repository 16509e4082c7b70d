SPECIFICATION Spec
CONSTANTS
    alice = alice
    bob = bob
    carol = carol
    dave = dave
    erin = erin
    Chats = {c1, c2}
    Decisions = {d1, d2}
    ClientIds = {r1}
    Customers = {alice, bob, carol, dave}
    Invoices <- MCInvoices
    Contracts <- MCContracts
    AutoLimit = 1
    MaxLimit = 2
    Dialect = "sqlite"
INVARIANTS
    DuplicatesAnswered409
    AnswersMatchTheDatabase
    Consistent
PROPERTIES
    ImplementsLedger

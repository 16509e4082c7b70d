SPECIFICATION Spec
CONSTANTS
    alice = alice
    bob = bob
    carol = carol
    dave = dave
    erin = erin
    Chats = {c1, c2}
    Decisions = {}
    ClientIds = {r1}
    Customers = {alice}
    Invoices <- MCInvoices
    Contracts <- MCContracts
    AutoLimit = 1
    MaxLimit = 2
    Dialect = "postgresql"
INVARIANTS
    DuplicatesAnswered409

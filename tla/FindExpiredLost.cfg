SPECIFICATION Spec
CONSTANTS
    alice = alice
    bob = bob
    carol = carol
    dave = dave
    erin = erin
    Chats = {c1}
    Decisions = {d1}
    ClientIds = {}
    Customers = {bob}
    Invoices <- MCInvoices
    Contracts <- MCContracts
    AutoLimit = 1
    MaxLimit = 2
    Dialect = "postgresql"
INVARIANTS
    ExpiredIsRecorded

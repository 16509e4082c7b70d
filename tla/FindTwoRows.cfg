SPECIFICATION MetricsSpec
CONSTANTS
    alice = alice
    bob = bob
    erin = erin
    Chats = {c1}
    Decisions = {d1, d2}
    ClientIds = {}
    Customers = {alice, bob, erin}
    Invoices <- MCInvoices
    Contracts <- MCContracts
    AutoLimit = 1
    MaxLimit = 2
    Dialect = "postgresql"
    Attempts = 2
    Threshold = 2
INVARIANTS
    OnePaymentPerRequest

SPECIFICATION MetricsSpec
CONSTANTS
    alice = alice
    bob = bob
    erin = erin
    Chats = {c1}
    Decisions = {d1}
    ClientIds = {}
    Customers = {alice, bob, erin}
    Invoices <- MCInvoices
    Contracts <- MCContracts
    AutoLimit = 1
    MaxLimit = 2
    Dialect = "postgresql"
    Attempts = 1
    Threshold = 2
PROPERTIES
    DecisionsFindWaitingRuns

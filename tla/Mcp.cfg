SPECIFICATION Spec
CONSTANTS
    Requests = {q1, q2, q3}
    Clients = {client}
    ClientOf <- OneForAll
    Attempts = 2
    Threshold = 2
    Cooldown = 1
    MaxClock = 2
INVARIANTS
    TypeOK
    AttemptsBoundRows
    OpenOnFailures
    OpenIsBounded
PROPERTIES
    OpenAfterRepeatedFailures
SYMMETRY RequestsAlike

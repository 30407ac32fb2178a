SPECIFICATION BackendsSpec
CONSTANTS
    Total = 4
    BatchMax = 3
    MaxRetries = 2
    QueryResponses <- MCResponses
INVARIANT
    DefinitiveStops
CHECK_DEADLOCK
    FALSE

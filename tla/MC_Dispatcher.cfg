SPECIFICATION FairBackendsSpec
CONSTANTS
    Total = 4
    BatchMax = 3
    MaxRetries = 2
    QueryResponses <- MCResponses
INVARIANTS
    NoStraggler
    OutcomeIsGenuine
    SystemLosesNothing
    NotGivenUpEarly
PROPERTIES
    ResolveEnds
    ImplementsLookup
    SequentialIsStrict
CHECK_DEADLOCK
    FALSE

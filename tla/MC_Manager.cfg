SPECIFICATION FairManagerSpec
CONSTANTS
    Tasks <- MCTasks
    DomainInterval <- EveryTick
    SubInterval <- Never
    ForceUpdate <- SecondTick
    MinInterval = 1
    MaxLate = 0
    Workers = {w1, w2}
    Kind <- AllAAAA
    AllowLocalLink = {}
    AllowUla = {}
    NoDriver = {"orphan"}
    CandidateLists <- TwoAddresses
    MaxBacklog = 0
INVARIANTS
    DrainedAtReturn
    OnlyPermittedPublished
PROPERTIES
    RunReturns
    Converges

SPECIFICATION FairUpdatesSpec
CONSTANTS
    Threads = {t1, t2, t3}
    Keys = {k}
    Ttl = 1
    MaxTime = 2
    MaxRuns = 2
    Tasks <- MCTasks
    IfAddrs <- MCIfAddrs
    WebAnswers <- MCWebAnswers
    Domain = "d"
    CaBundle = "ca"
    MaxTrouble = 2
INVARIANTS SingleFlight ResultIsCurrent SuccessMeansPublished PublishedFits
PROPERTIES CallsEnd Settles
CHECK_DEADLOCK FALSE

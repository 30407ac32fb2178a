SPECIFICATION UpdatesSpec
CONSTANTS
    Threads = {t1, t2, t3}
    Keys = {k}
    Ttl = 1
    MaxTime = 2
    MaxRuns = 2
    Tasks <- ApexTasks
    IfAddrs <- MCIfAddrs
    WebAnswers <- MCWebAnswers
    Domain = "d"
    CaBundle = "ca"
    MaxTrouble = 2
PROPERTY UnchangedIsSkipped
CHECK_DEADLOCK FALSE

SPECIFICATION FairProcessSpec
CONSTANTS
    MaxSends = 3
    MinUpdateInterval = 2
    Libraries <- MCLibraries
    Faults <- MCFaults
    DriverName <- MCDriverName
    Interfaces <- MCInterfaces
    Configs <- MCConfigs
INVARIANTS KillNeedsThree RunsAsAssumed DriversGoInOrder TestedConfigStarts
PROPERTY ProcessEnds
CHECK_DEADLOCK FALSE

SPECIFICATION Spec
CONSTANTS
    Tasks <- MCTasks
    DomainInterval <- MCDomainInterval
    SubInterval <- MCSubInterval
    ForceUpdate <- MCForceUpdate
    MinInterval = 2
    MaxLate = 2
INVARIANT
    NoLostWakeup

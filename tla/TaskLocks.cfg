SPECIFICATION FairSpec
CONSTANTS
    a = a
    c = c
    Task = {a, c}
    NoTask = NoTask
    Interval <- Intervals
    Priority <- Priorities
    MaxIncidents = 3
INVARIANTS
    LocksTypeOK
    LockExclusion
    WorkerKeepsItsLock
    LockHasOwner
PROPERTIES
    WaitingEnds
    
    ShutdownIsFinal
CHECK_DEADLOCK FALSE

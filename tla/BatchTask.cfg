SPECIFICATION Spec
CONSTANTS
    Task = {a, r}
    AppendTask = {a}
    Slow = {a}
    NoTask = NoTask
    MaxAttempts = 2
    MaxFaults = 2
    MaxCrashes = 1
    MaxShutdowns = 2
INVARIANTS
    TypeOK
    UsedRowHasBlob
    ServedIsUsed
    FailedAppendIsAbsent
    SuccessIsDurable
    AppendedOnce
    NoFenceNoPublication

    
CHECK_DEADLOCK FALSE

SPECIFICATION FairSpec
CONSTANTS
    Task = {a, r}
    AppendTask = {a}
    Slow = {a}
    NoTask = NoTask
    MaxAttempts = 2
    MaxFaults = 1
    MaxCrashes = 0
    MaxShutdowns = 2
PROPERTIES
    TaskTerminates
    RegistryDrains
CHECK_DEADLOCK FALSE

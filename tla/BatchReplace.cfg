SPECIFICATION Spec
CONSTANTS
    Task = {r1, r2, r3}
    AppendTask = {}
    Slow = {r1, r2, r3}
    NoTask = NoTask
    MaxAttempts = 1
    MaxFaults = 0
    MaxCrashes = 0
    MaxShutdowns = 0
INVARIANTS
    ReplaceIsIdempotent
CHECK_DEADLOCK FALSE

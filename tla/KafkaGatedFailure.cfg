SPECIFICATION Spec
CONSTANTS
    p1 = p1
    Partition = {p1}
    Passthrough = 9
    Poison = {}
    UseEarliest = FALSE
    MaxRowsPerSegment = 2
    MaxRecords = 3
    MaxIncidents = 3
INVARIANT
    FailedBatchReconsumed
CHECK_DEADLOCK FALSE

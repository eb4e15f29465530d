SPECIFICATION Spec
CONSTANTS
    p1 = p1
    Partition = {p1}
    Passthrough = 9
    Poison <- PoisonRecords
    UseEarliest = FALSE
    MaxRowsPerSegment = 2
    MaxRecords = 3
    MaxIncidents = 3
INVARIANTS
    KafkaTypeOK
    CommittedIsDurable
    StampHonest
    NothingSkipped
    CleanStopIsComplete
PROPERTIES
    ExactlyOnceUntilDegraded
CHECK_DEADLOCK FALSE

SPECIFICATION Spec
CONSTANTS
    PartitionDuration = 2
    MaxFlushers = 1
    Scenarios <- Modes
INVARIANTS
    Durable HeadIsMemory Held Selects ClosedDurable
PROPERTIES
    DiskImmutable

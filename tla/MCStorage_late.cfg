SPECIFICATION FairSpec
CONSTANTS
    PartitionDuration = 2
    MaxFlushers = 1
    Scenarios <- LateRows
INVARIANTS
    HeldOnce
PROPERTIES
    FlushCompletes CloseReturns ExpiredRemoved

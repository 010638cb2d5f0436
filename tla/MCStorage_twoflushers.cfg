SPECIFICATION Spec
CONSTANTS
    PartitionDuration = 2
    MaxFlushers = 2
    Scenarios <- FourCalls
INVARIANTS
    Durable

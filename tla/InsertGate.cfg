SPECIFICATION FairSpec
CONSTANTS
    None = None
    Callers = {g1, g2, g3}
    Timers = {t1, t2}
    WorkersLimit = 1
    MaxCalls = 4
INVARIANTS
    SlotsExact
    PoolInactive
    OnlyLateTicks
    Graceful
PROPERTIES
    GateReturns

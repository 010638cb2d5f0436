SPECIFICATION Spec
CONSTANTS
    g1 = g1  g2 = g2  g3 = g3
    None = None
    Goroutines = {g1, g2, g3}
    NumOpened = 2
    Exclusive = TRUE
    MinOf <- DistinctMins
INVARIANTS ScanComplete TargetsHit
PROPERTY RefinesSequence

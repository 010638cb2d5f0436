SPECIFICATION FairSpec
CONSTANTS
    g1 = g1  g2 = g2  g3 = g3
    None = None
    Goroutines = {g1, g2, g3}
    NumOpened = 2
    Exclusive = FALSE
    MinOf <- CollidingMins
INVARIANTS
    TypeOK
    Descending
    NoTwins
PROPERTIES
    CallsReturn

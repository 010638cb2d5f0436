SPECIFICATION FairSpec
CONSTANTS
    Settings <- ThroughOrSpilling
    MaxBatch = 2
    MaxRows = 5
    MaxSegments = 4
    MaxCrashes = 2
INVARIANTS
    Readable
    RecoveryKeeps
    NoHoles
PROPERTIES
    OldestFirst
    Recovers

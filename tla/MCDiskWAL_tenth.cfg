SPECIFICATION Spec
CONSTANTS
    Settings <- Through
    MaxBatch = 1
    MaxRows = 0
    MaxSegments = 12
    MaxCrashes = 0
PROPERTIES
    OldestFirst

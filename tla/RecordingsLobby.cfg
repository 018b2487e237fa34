SPECIFICATION RecordingsSpec
CONSTANTS
    MaxTime = 4
    MaxFiles = 3
    MaxMatches = 2
    Tolerance = 1
    Grace = 1
    OrphanCap = 1
    KeepCount = 1
    MaxBytes = 2
    MaxLag = 0
    BufferCap = 1
INVARIANTS
    MatchHasItsVideo
CHECK_DEADLOCK FALSE

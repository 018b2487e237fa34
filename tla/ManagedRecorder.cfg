SPECIFICATION FairSpec
CONSTANTS
    MaxFiles = 3
    MaxSignals = 2
    MaxJobs = 2
    MaxAsked = 2
INVARIANTS
    RowsAreTrue
    ChunkIsTimed
    DownStopsObs
PROPERTIES
    ChainMoves
CHECK_DEADLOCK FALSE

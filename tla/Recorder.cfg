CONSTANTS
  MaxQueue = 2
  MaxStrays = 1
SPECIFICATION FairSpec
INVARIANTS LeavesUsersRecording KnownDebt ConnectedNotDead
PROPERTIES CloseEnds ChainMoves RecordingEnds

SPECIFICATION FairSpec
CONSTANTS
  Files = {"log"}
  LineKinds = {"START", "SHUFFLE_START", "END"}
  MaxLines = 2
  MaxQueue = 1
  MaxGen = 2
  MaxWorkerCrashes = 1
  MaxMainCrashes = 0
  MaxImports = 0
  MaxFailures = 1
INVARIANT CheckpointedMatchAccounted
PROPERTY NoticedMatchStored
CHECK_DEADLOCK FALSE

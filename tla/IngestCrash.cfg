SPECIFICATION Spec
CONSTANTS
  Files = {"log"}
  LineKinds = {"START", "SHUFFLE_START", "END"}
  MaxLines = 4
  MaxQueue = 1
  MaxGen = 1
  MaxWorkerCrashes = 1
  MaxMainCrashes = 1
  MaxImports = 1
  MaxFailures = 1
INVARIANT CheckpointOutsideMatch
INVARIANT CheckpointedMatchAccounted
INVARIANT StoredWhole
PROPERTY StoredOnce
CHECK_DEADLOCK FALSE

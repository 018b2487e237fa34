CONSTANTS
  Logs = {1, 2}
  Bad = {1}
  MaxSize = 2
  MaxGood = 1
  MaxKills = 1
  MaxLost = 1
  MaxSettings = 2
SPECIFICATION FairSpec
INVARIANTS HealthyNotQuarantined WorkerHasLatestConfig AtMostOneAfterStop
PROPERTIES BadIsQuarantined HealthyIsRead
CHECK_DEADLOCK FALSE

CONSTANTS
  Ids = {a, b}
  a = a
  b = b
  MaxStages = 2
  MaxImports = 1
  MaxCrashes = 2
  MaxFaults = 1
  MaxDamages = 1
SPECIFICATION Spec
INVARIANTS WholeIsListed QueuedIsWhole
PROPERTY StoreIsAtomic
CHECK_DEADLOCK FALSE

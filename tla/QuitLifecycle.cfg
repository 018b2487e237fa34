CONSTANTS
  MaxChecks = 2
  MaxClicks = 2
SPECIFICATION QuitFairSpec
INVARIANTS NothingBeforeCleanup OneInstaller
PROPERTIES CleanupEndsOrTells
CHECK_DEADLOCK FALSE

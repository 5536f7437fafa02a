SPECIFICATION Spec
CONSTANTS
  Key = {k1}
  Client = {c1}
  Ops = {"write", "compact"}
  FlushThreshold = 1
  Policy <- MCLeveled
  CacheCap = 1
  MaxWal = 3
  MaxNow = 4
  MaxFlushes = 1
  MaxCrashes = 0
  MaxIoErrors = 0
  Torn = FALSE
INVARIANT NewestWins
CHECK_DEADLOCK FALSE

SPECIFICATION Spec
CONSTANTS
  Key = {k1, k2}
  Client = {c1}
  Ops = {"write"}
  FlushThreshold = 1
  Policy <- MCLeveled
  CacheCap = 1
  MaxWal = 3
  MaxNow = 3
  MaxFlushes = 2
  MaxCrashes = 0
  MaxIoErrors = 0
  Torn = FALSE
INVARIANT KeysStay
CHECK_DEADLOCK FALSE

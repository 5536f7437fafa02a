SPECIFICATION Spec
CONSTANTS
  Key = {k1}
  Client = {c1}
  Ops = {"write", "delete"}
  FlushThreshold = 1
  Policy <- MCLeveled
  CacheCap = 1
  MaxWal = 2
  MaxNow = 2
  MaxFlushes = 1
  MaxCrashes = 1
  MaxIoErrors = 0
  Torn = FALSE
PROPERTY AckedSurvive
CHECK_DEADLOCK FALSE

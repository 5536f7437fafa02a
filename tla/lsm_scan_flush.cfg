SPECIFICATION Spec
CONSTANTS
  Key = {k1}
  Client = {c1}
  Ops = {"write", "scan"}
  FlushThreshold = 1
  Policy <- MCLeveled
  CacheCap = 1
  MaxWal = 2
  MaxNow = 2
  MaxFlushes = 1
  MaxCrashes = 0
  MaxIoErrors = 0
  Torn = FALSE
PROPERTY ReadsCurrent
CHECK_DEADLOCK FALSE

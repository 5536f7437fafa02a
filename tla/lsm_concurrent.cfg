SPECIFICATION ScenarioSpec
CONSTANTS
  Key = {k1}
  Client = {c1, c2}
  Ops = {"write", "scan", "flush", "compact"}
  FlushThreshold = 1
  Policy <- MCLeveled
  CacheCap = 1
  MaxWal = 3
  MaxNow = 5
  MaxFlushes = 1
  MaxCrashes = 1
  MaxIoErrors = 1
  Torn = TRUE
SYMMETRY MCSymmetry
INVARIANTS WriteAhead KeysStay
PROPERTIES CompactionKeepsKeys AckedSurvive
CHECK_DEADLOCK FALSE

SPECIFICATION StorageSpec
CONSTANTS
  Key = {k1, k2}
  Client = {c1}
  Ops = {"write", "delete", "get"}
  FlushThreshold = 1
  Policy <- MCLeveled
  CacheCap = 1
  MaxWal = 3
  MaxNow = 3
  MaxFlushes = 1
  MaxCrashes = 0
  MaxIoErrors = 0
  Torn = FALSE
  VersionKey = {v1}
  ValidTimes <- MCValidTimes
  MaxTime = 3
  MaxTxns = 3
  MaxWrites = 3
  NodeIds = {1, 2, 3}
  VirtualNodes = 2
  Collections = {c1}
  RecordIds = {1, 2, 3}
  RingHash <- MCRingHash
  KeyHash <- MCKeyHash
  ShardHash <- MCShardHash
  Factors = {3}
  MaxShards = 6
  Confidence <- MCConfidence
  Score <- MCScore
  WriteHash <- MCWriteHash
  Limits = {0, 1}
  TopKs = {1, 2}
  OversampleFactor = 1
  MaxConcurrentShards = 2
INVARIANTS TypeOK CacheCoherent
INVARIANTS MvccTypeOK OneCurrent LatestWins SerialHistory
INVARIANTS ShardsOwned GroupsComplete AnswersExact LookupFindsWrite
PROPERTIES ImplementsKvStore FlushDrains
PROPERTIES PastUnchanged ValidHistory
PROPERTIES RingStability MigrationsExact QueryAnswered
CONSTRAINT ServedMaps
CHECK_DEADLOCK FALSE

SPECIFICATION ServerSpec
CONSTANTS
  Idents <- MCIdents
  Ints <- MCInts
  Floats <- MCFloats
  Strings <- MCStrings
  Params <- MCParams
  ValueOf <- MCValueOf
  Spells <- MCSpells
  LongerNames = {}
  Clients = {c1}
  DefaultCollections <- MCDefaults
  ClientQueries <- ConfidenceQueries
  TextOf <- MCTextOf
  CollectionNames <- MCCollections
  Shortcut <- FastPath
  ReadText <- Parse
  Binder <- Bind
  Optimizer <- Optimize
  Executor <- Execute
  Recorder <- RowRecord
  Texts <- NoSamples
  Plans <- NoSamples
  SampleStore <- MCSampleStore
  StatementNames = {"", "s"}
  PortalNames = {"p", "q"}
  SessionQueries = {"q1", "q2"}
  MaxQueries = 2
  MaxRestarts = 0
  MaxFailures = 0
  MaxMessages = 4
  Embeddings <- MCEmbeddings
  Facts = {1, 2, 3}
  EdgeStrengths = {32, 64, 96}
  ClosureDepth = 10
  StabilityOf <- MCStabilityOf
  HotPairs <- MCHotPairs
  MaxCausalEdges = 3
  Subjects = {1, 2, 3}
  Predicates = {"p", "r"}
  NewEdges <- MCNewEdges
  MaxGraphEdges = 3
  Vectors = {1, 2, 3, 4}
  PositionsOf <- MCPositionsOf
  LayerOf <- MCLayerOf
  MaxLinks = 2
  EfConstruction = 2
  MaxIndexCalls = 5
  BlockKeys = {"k1", "k2", "k3"}
  BlockSizes = {1, 2, 4, 6}
  Capacity = 5
  NewMemories <- MCNewMemories
  MaxMemories = 3
  MaxDecays = 1
  NewRecords <- MCNewRecords
  Negations = {"not_x"}
  WindowOptions <- MCWindowOptions
  MaxRecords = 3
  EquationLists <- MCEquationLists
  ScmVars = {1, 2, 3}
  ObservedOf <- MCObservedOf
  DoValue = 3
  PcVars = 4
  TestResults <- MCTestResults
  ArrowSets <- MCArrowSets
  MinSupports = {1, 2, 3}
PROPERTY ConfidenceTurns
CHECK_DEADLOCK FALSE

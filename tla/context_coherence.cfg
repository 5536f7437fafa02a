SPECIFICATION MCContextSpec
CONSTANTS
  Embeddings <- ChainEmbeddings
  NewRecords <- ChainRecords
  Negations = {"not_x"}
  WindowOptions <- ChainOptions
  MaxRecords = 3
INVARIANT CoherenceHeld
CHECK_DEADLOCK FALSE

SPECIFICATION MCDagSpec
CONSTANTS
  Facts = {1, 2, 3}
  EdgeStrengths = {32, 64}
  ClosureDepth = 10
  HotPairs <- MCHotPairs
  MaxCausalEdges = 3
INVARIANT HopsHeld
CHECK_DEADLOCK FALSE

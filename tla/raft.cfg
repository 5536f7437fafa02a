SPECIFICATION MCSpec
CONSTANTS
  Nodes = {n1, n2, n3}
  None = None
  MaxStale = 2
  MaxElections = 2
  MaxEvents = 3
INVARIANTS VotesOnce OneLeaderPerTerm LogMatching
PROPERTIES AckMeansHeld CommitQuorum
SYMMETRY Symmetry
CHECK_DEADLOCK FALSE

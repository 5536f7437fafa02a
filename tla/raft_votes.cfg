SPECIFICATION Spec
CONSTANTS
  Nodes = {n1, n2, n3}
  None = None
  MaxStale = 2
  MaxElections = 3
  MaxEvents = 1
INVARIANTS VotesOnceEver
SYMMETRY Symmetry
CHECK_DEADLOCK FALSE

SPECIFICATION Spec
CONSTANTS
  n1 = n1
  n2 = n2
  n3 = n3
  c1 = c1
  c2 = c2
  Node <- Nodes
  Command <- TwoCommands
  None = None
  Hazards <- NoHazards
  MaxTerm = 2
  MaxElections = 2
  MaxPerTerm = 1
  MaxCalls = 1
  MaxRestarts = 0
VIEW LogView
SYMMETRY Symmetry
CHECK_DEADLOCK FALSE
INVARIANTS TypeOK LogMatching CommittedOnMajority
PROPERTIES ImplementsReplicatedLog LeaderAppendOnly CommitMonotone

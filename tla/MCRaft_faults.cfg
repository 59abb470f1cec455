SPECIFICATION Spec
CONSTANTS
  n1 = n1
  n2 = n2
  n3 = n3
  c1 = c1
  c2 = c2
  Node <- TwoNodes
  Command <- NoCommand
  None = None
  Hazards <- Faults
  MaxTerm = 2
  MaxElections = 3
  MaxPerTerm = 1
  MaxCalls = 1
  MaxRestarts = 1
SYMMETRY TwoNodeSymmetry
CHECK_DEADLOCK FALSE
PROPERTIES TermAndVoteStable

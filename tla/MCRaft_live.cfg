SPECIFICATION FairSpec
CONSTANTS
  n1 = n1
  n2 = n2
  n3 = n3
  c1 = c1
  c2 = c2
  Node <- Nodes
  Command <- OneCommand
  None = None
  Hazards <- NoHazards
  MaxTerm = 1
  MaxElections = 1
  MaxPerTerm = 1
  MaxCalls = 1
  MaxRestarts = 0
CHECK_DEADLOCK FALSE
PROPERTIES EntryReplicated

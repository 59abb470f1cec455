SPECIFICATION FairSpec
CONSTANTS
  n1 = n1
  e1 = e1
  Node <- OneNode
  Edge <- OneEdge
  Ends <- OneEnd
  MaxOps = 4
  MaxCommits = 1
  MaxErrors = 1
  Hazards <- NoHazards
CHECK_DEADLOCK FALSE
INVARIANTS TypeOK ViewIsLast
PROPERTIES  Settles

SPECIFICATION LifecycleSpec
CONSTANTS
  t1 = t1
  t2 = t2
  n1 = n1
  n2 = n2
  e1 = e1
  Tx <- TwoTx
  Node <- TwoNodes
  Edge <- OneEdge
  Ends <- BothEnds
  Labelled <- TwoNodes
  LabelCount = LabelCount
  Old = Old
  None = None
  MaxOps = 4
  MaxCrashes = 1
  Keep = 0
  MaxPrunes = 1
  Hazards <- NoHazards
SYMMETRY MVCCSymmetry
CHECK_DEADLOCK FALSE
INVARIANTS TypeOK NoDanglingEdge  FirstCommitterWins  SnapshotIsWhole SequenceAboveHeads LabelCountExact

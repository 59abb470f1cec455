SPECIFICATION FairSpec
CONSTANTS
  w1 = w1
  w2 = w2
  k1 = k1
  k2 = k2
  v1 = v1
  v2 = v2
  Compactor = Compactor
  None = None
  Writer <- TwoWriters
  Kinds <- Writes
  Key <- TwoKeys
  Value <- OneValue
  Immediate = TRUE
  MaxEntries = 2
  Hazards <- Unsynced
  MaxSequence = 5
  MaxCrashes = 1
CHECK_DEADLOCK FALSE
INVARIANTS Recoverable SequenceAboveSnapshot
PROPERTIES OperationsReturn

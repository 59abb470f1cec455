SPECIFICATION Spec
CONSTANTS
  w1 = w1
  w2 = w2
  k1 = k1
  k2 = k2
  v1 = v1
  v2 = v2
  Compactor = Compactor
  None = None
  Writer <- TwoWriters
  Kinds <- AllKinds
  Key <- OneKey
  Value <- TwoValues
  Immediate = FALSE
  MaxEntries = 2
  Hazards <- NoHazards
  MaxSequence = 4
  MaxCrashes = 2
SYMMETRY Symmetry
CHECK_DEADLOCK FALSE
INVARIANTS TypeOK Recoverable SequenceAboveSnapshot SequencesUnique

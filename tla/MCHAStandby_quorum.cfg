SPECIFICATION Spec
CONSTANTS
  c1 = c1
  c2 = c2
  Client <- TwoClients
  Failing <- NoFailing
  QueueSize = 1
  Hazards <- NoHazards
  Quorum = TRUE
  BatchSize = 2
  MaxInFlight = 2
  MaxFaults = 1
CHECK_DEADLOCK FALSE
SYMMETRY ClientSymmetry
INVARIANTS QuorumWriteApplied

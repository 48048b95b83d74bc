\* Eleven loops of three kinds, two or three inputs each.
CONSTANTS
  Programs <- MCPrograms
  MaxRoot = 2
  Beam = 2
  Evidence = 2
  MaxIterations = 8
SPECIFICATION Spec
INVARIANTS Exact EachPointOnce PoisonStays EvidenceReplays
CHECK_DEADLOCK FALSE

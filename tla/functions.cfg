\* Recursive functions of pointers, one call each, and of an integer.
SPECIFICATION FairSpec
CONSTANTS
  Programs <- MCPrograms
  GivesUp = {}
  Depth = 7
INVARIANTS
  CasesExact
  CallsCovered
  RequestTrue
PROPERTY RunEnds
CHECK_DEADLOCK FALSE

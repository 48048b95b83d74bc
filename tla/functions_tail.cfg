\* A store in the last block, behind the call.
SPECIFICATION FairSpec
CONSTANTS
  Programs <- MCStoreLast
  GivesUp = {}
  Depth = 7
INVARIANTS
  CallsCovered
CHECK_DEADLOCK FALSE

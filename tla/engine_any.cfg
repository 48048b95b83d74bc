SPECIFICATION FairSpec
CONSTANTS
  a = a
  b = b
  g = g
  n1 = n1
  n2 = n2
  n3 = n3
  err = err
  ret = ret
  NoNode = NoNode
  Point <- MCPoint
  Input <- MCInput
  Programs <- AnyPrograms
  Debug = TRUE
  SolverGivesUp = TRUE
  ProbeGivesUp = TRUE
  MaxRuns = 2
INVARIANTS
  EachInputOnce
  UnknownExplained
PROPERTY Terminates

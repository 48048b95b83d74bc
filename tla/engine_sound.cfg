SPECIFICATION Spec
CONSTANTS
  a = a
  b = b
  g = g
  n1 = n1
  n2 = n2
  n3 = n3
  err = err
  ret = ret
  NoNode = NoNode
  Point <- MCPoint
  Input <- MCInput
  Programs <- SoundPrograms
  Debug = TRUE
  SolverGivesUp = TRUE
  ProbeGivesUp = FALSE
  MaxRuns = 1
INVARIANTS
  TypeOK
  Coverage
  PreciseReal
  TrueSound
  FalseSound
  CounterexampleReal
PROPERTY Implements

SPECIFICATION Spec
CHECK_DEADLOCK FALSE
CONSTANTS
  n = n
  m = m
  t = t
  u = u
  y = y
  w = w
  p = p
  q = q
  r = r
  g = g
  Func <- MCFunc
  Name <- MCName
  Val <- MCVal
  Inputs = 2
  Size = 3
  Undef = 99
  Steps = 60
  Width = 8
  Programs <- RightPrograms
INVARIANTS
  FramesSound
  EachPointOnce
  CacheRight
  ResultRight
  SafeIsSafe

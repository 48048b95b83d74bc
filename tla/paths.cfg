\* Six control flow graphs; words of up to seven paths.
CONSTANTS
  in = in
  h = h
  s = s
  t = t
  g = g
  u = u
  out = out
  L = L
  M = M
  None = None
  Programs <- MCPrograms
  MaxRoot = 3
  Beam = 2
  Evidence = 2
  MaxCount = 2
SPECIFICATION Spec
INVARIANTS SymbolsIdentify PrefixExact EvidenceExact MinimumCost
CHECK_DEADLOCK FALSE

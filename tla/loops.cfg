SPECIFICATION Spec
CONSTANTS
  Programs <- MCPrograms
  GivesUp = {"accelerator"}
  MaxIterations = 5
INVARIANTS
  CountersFollow
  RunsContinue
  ResultsReal
  EvidenceCounts
  TransitionsExact
CHECK_DEADLOCK FALSE

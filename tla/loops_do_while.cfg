SPECIFICATION Spec
CONSTANTS
  Programs <- MCDoWhile
  GivesUp = {"accelerator"}
  MaxIterations = 5
CHECK_DEADLOCK FALSE
INVARIANT RunsContinue

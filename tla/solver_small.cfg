\* One request and QUIT fit into a pipe, the other one does not.
CONSTANTS
  r1 = r1
  r2 = r2
  None = None
  IndVar = {n}
  Recurrence = {r1, r2}
  Size <- MCSize
  Capacity = 4
  MaxCalls = 3
SPECIFICATION FairSpec
INVARIANTS TypeOK CleanWhenIdle AnswersInStep AnswerFits NoOrphan FailureIsFresh
PROPERTY ReturnsOrBlocks
CHECK_DEADLOCK FALSE

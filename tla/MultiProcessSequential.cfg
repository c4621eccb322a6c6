SPECIFICATION FairSpec
CONSTANTS
  N = 5
  Pattern = "SEQUENTIAL"
  ExitCodes = {0, 1, 2}
  Expected <- MCExpected
  Permanent = FALSE
  CanStop = TRUE
INVARIANTS
  SequentialOrder
  SequentialResult
PROPERTY
  CompletionFollowsStart
CHECK_DEADLOCK FALSE

SPECIFICATION FairSpec
CONSTANTS
  N = 2
  Pattern = "PARALLEL"
  ExitCodes = {0, 1, 2}
  Expected <- MCExpected
  Permanent = FALSE
  CanStop = FALSE
PROPERTY
  CompletionFollowsStart
CHECK_DEADLOCK FALSE

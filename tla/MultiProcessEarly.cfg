SPECIFICATION Spec
CONSTANTS
  N = 2
  Pattern = "PARALLEL"
  ExitCodes = {0, 1, 2}
  Expected <- MCExpected
  Permanent = TRUE
  CanStop = FALSE
INVARIANT
  CompletionMeansAllFinished
CHECK_DEADLOCK FALSE

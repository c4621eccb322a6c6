SPECIFICATION Spec
CONSTANTS
  N = 1
  Pattern = "SEQUENTIAL"
  ExitCodes = {0, 1, 2}
  Expected <- MCExpected
  Permanent = FALSE
  CanStop = TRUE
INVARIANT
  NeverAborts
CHECK_DEADLOCK FALSE

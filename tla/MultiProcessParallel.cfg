SPECIFICATION Spec
CONSTANTS
  N = 3
  Pattern = "PARALLEL"
  ExitCodes = {0, 1, 2}
  Expected <- MCExpected
  Permanent = FALSE
  CanStop = FALSE
INVARIANTS
  ParallelResultUnlessEarly
CHECK_DEADLOCK FALSE

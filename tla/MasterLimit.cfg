SPECIFICATION Spec
CONSTANTS
  Ids = {i1, i2}
  Slaves = {s1}
  MaxProcessing = 1
  ReuseIds = FALSE
  MaxCalls = 1
  MaxStarts = 1
INVARIANT AtMostMaxProcessing
CHECK_DEADLOCK FALSE

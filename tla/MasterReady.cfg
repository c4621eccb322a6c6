SPECIFICATION Spec
CONSTANTS
  Ids = {i1}
  Slaves = {s1}
  MaxProcessing = 1
  ReuseIds = FALSE
  MaxCalls = 1
  MaxStarts = 1
INVARIANT ReadyIsDistributed
CHECK_DEADLOCK FALSE

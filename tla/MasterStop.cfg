SPECIFICATION Spec
CONSTANTS
  Ids = {i1}
  Slaves = {s1}
  MaxProcessing = 1
  ReuseIds = FALSE
  MaxCalls = 1
  MaxStarts = 2
PROPERTY StopKeepsFiles
CHECK_DEADLOCK FALSE

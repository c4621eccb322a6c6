SPECIFICATION Spec
CONSTANTS
  Slaves = {s1}
  Names = {n1, n2}
  Uris = {u1}
  WildcardUris = {}
  Parallel = 1
  Wrappers = {w1}
  PinGarbage = {1}
  W = 8
  MaxDeleted = 0
  MaxNotes = 2
  MaxProcs = 2
  MaxSlaveStarts = 1
INVARIANT PendingMeansBusy
CHECK_DEADLOCK FALSE

SPECIFICATION Spec
CONSTANTS
  Slaves = {s1}
  Names = {n1}
  Uris = {u1}
  WildcardUris = {u1}
  Parallel = 1
  Wrappers = {w1, w2}
  PinGarbage = {0}
  W = 8
  MaxDeleted = 0
  MaxNotes = 2
  MaxProcs = 2
  MaxSlaveStarts = 1
INVARIANT ErasedMasterFound
CHECK_DEADLOCK FALSE

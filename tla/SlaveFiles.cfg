SPECIFICATION Spec
CONSTANTS
  Slaves = {s1}
  Names = {n1, n2, n3}
  Uris = {u1}
  WildcardUris = {u1}
  Parallel = 2
  Wrappers = {w1, w2}
  PinGarbage = {0, 1, 7}
  W = 8
  MaxDeleted = 1
  MaxNotes = 1
  MaxProcs = 2
  MaxSlaveStarts = 2
SYMMETRY Symmetry
INVARIANTS
  TypeOK
  ParallelLimit
  OneProcessEach
  WorkIsDurable
  PinsCountCalls
PROPERTIES
  ReadyIsFinal
  MastersLive
CHECK_DEADLOCK FALSE

SPECIFICATION Spec
CONSTANTS
  Ids = {i1, i2}
  Slaves = {s1, s2}
  MaxProcessing = 1
  ReuseIds = FALSE
  MaxCalls = 1
  MaxStarts = 2
SYMMETRY Symmetry
INVARIANTS
  TypeOK
  OnePlace
  NothingForgotten
PROPERTIES
  FilesAreKept
CHECK_DEADLOCK FALSE

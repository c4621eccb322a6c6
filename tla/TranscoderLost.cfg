SPECIFICATION FairSpec
CONSTANTS
  Ids = {i1}
  Names = {i1}
  Slaves = {s1}
  MaxProcessing = 1
  ReuseIds = FALSE
  MaxCalls = 1
  MaxStarts = 1
  Uris = {u1}
  WildcardUris = {}
  Parallel = 1
  Wrappers = {w1}
  PinGarbage = {1}
  W = 8
  MaxDeleted = 0
  MaxNotes = 2
  MaxProcs = 1
  MaxSlaveStarts = 1
  MasterUri = u1
  ScpPath <- MCSamePath
PROPERTY OutcomeIsLearned
CHECK_DEADLOCK FALSE

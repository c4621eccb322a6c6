SPECIFICATION FairSpec
CONSTANTS
  Dirs = {d1}
  OutputMs = 1
  MaxDelay = 1
  Lengths = {1, 2}
  LastTs = 5
  MaxTime = 7
  MaxStarts = 3
INVARIANTS
  TypeOK
  NothingIsLost
  ComposedOnce
  RangesAreDisjoint
  ChunksStayApart
PROPERTIES
  EveryPartIsProcessed
CHECK_DEADLOCK FALSE

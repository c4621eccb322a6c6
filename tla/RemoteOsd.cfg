SPECIFICATION Spec
CONSTANTS
  Ids = {"x"}
  Medias = {"dir", "file"}
  Above <- MCAbove
  Addresses = {"p1"}
INVARIANTS
  LateAnswersAreIgnored
CHECK_DEADLOCK FALSE

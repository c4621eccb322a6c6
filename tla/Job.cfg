SPECIFICATION Spec
CONSTANTS
  Slaves = {s1}
  Ids = {i1, i2}
INVARIANT
  ViewIsNeverAhead

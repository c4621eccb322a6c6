SPECIFICATION Spec
CONSTANTS
  Items = 2
  Day = 9
  Second = 3
  MinEosInterval = 2
  MinEosRetry = 4
  UndefinedDuration = 6
  Offsets = {0, 1, 2}
  Durations = {0, 1, 2}
  Defaults = {1, 2}
  MaxTime = 20
  MaxSets = 1
PROPERTY AlarmEndsSilence
CHECK_DEADLOCK FALSE

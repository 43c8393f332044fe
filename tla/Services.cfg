CONSTANTS
  Procs = {p1, p2}
  Keys = {PATH, k1, k2, k3}
  Path = PATH
  Vals = {bin, x}
  Bin = bin
  None = none
  ENV_SLOTS = 3
  HZ = 3
  HOUR = 12
  MINUTE = 4
  IntBits = 7
  Durations = {1, 2, 3}
SYMMETRY Interchangeable
SPECIFICATION MCSpec
INVARIANTS KeysUnique NeverStale EvictsOldest NotEarly
PROPERTY SleepWithinMinuteEnds

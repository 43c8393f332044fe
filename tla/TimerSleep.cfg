CONSTANTS
  HZ = 3
  HOUR = 12
  MINUTE = 4
  IntBits = 7
  Durations = {1, 2, 3}
SPECIFICATION TimerSpec

PROPERTY SleepEnds

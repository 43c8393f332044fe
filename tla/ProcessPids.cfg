CONSTANTS
  MaxPcb = 12
  MAX_PROCESS_COUNT = 8
  IntBits = 4
SPECIFICATION Spec
INVARIANT PidsUpToLimit
CHECK_DEADLOCK FALSE

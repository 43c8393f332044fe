CONSTANTS
  MaxPcb = 12
  MAX_PROCESS_COUNT = 16
  IntBits = 12
SPECIFICATION Spec
INVARIANTS RingIntact OneListEach NoOrphan NeverLost
PROPERTY ImplementsJobChain
CHECK_DEADLOCK FALSE

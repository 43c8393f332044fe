CONSTANTS
  PT = 32
  BITS = 560
  BPP = 1120
  INTS = 2000
  PHYSBASE = 64
  PHYSFREE = 130
  VIDEO = 10
  Smaps <- MCSmaps
  Programs <- MCPrograms
  InitProgram <- MCInit
  FreeLimit = 500
  MaxHeap = 2
  MaxCommands = 2
  MaxDepth = 4
SPECIFICATION Spec
INVARIANT FieldsApart
CHECK_DEADLOCK FALSE

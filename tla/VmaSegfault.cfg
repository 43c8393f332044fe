CONSTANTS
  PAGE_SIZE = 4
  HEAP_ADDR = 24
  HEAP_END = 32
  STACK_ADDR = 36
  STACK_END = 44
  SegStarts = {0, 1, 3, 8, 9, 12, 14}
  SegSizes = {1, 2, 3, 4, 5}
  SegFlags = {"RX", "RW"}
  Sizes = {3, 5}
  Segments <- MCSegments
SPECIFICATION Spec
PROPERTY SegfaultExits

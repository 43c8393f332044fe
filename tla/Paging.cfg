CONSTANTS
  NFrames = 20
  NSpaces = 3
  Frames <- MCFrames
  FreeLimit = 14
  Spaces <- MCSpaces
  Kernel = 0
  StackTop = stack
  HeapBase = heap
  VPages = {stack, heap, more}
  Zero = 0
  Vals = {0, 1, 2}
  Data = {2}
  MaxWritten = 1
  MaxLeaked = 3
  Images = {1}
  Absent = absent
CONSTRAINT FewWritten FewLeaked
SPECIFICATION Spec
INVARIANTS TypeOK NoFreeFrameInUse WritableIsPrivate FreeFramesAreClear TlbCoherent LiveSpaceUsable
PROPERTY ImplementsAddressSpaces
CHECK_DEADLOCK FALSE

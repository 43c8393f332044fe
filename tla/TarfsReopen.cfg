CONSTANTS
  TARFS_HEADER = 4
  Archives <- MCArchives
  Sizes = {0, 1, 4, 9}
  OneCharacter = {"x", "f", "g"}
  Procs = {p1, p2}
  MAX_FD = 2
  ReadSizes = {2}
  MaxTaken = 4
SYMMETRY Interchangeable
SPECIFICATION FsSpec
INVARIANT OpenReadsFromStart

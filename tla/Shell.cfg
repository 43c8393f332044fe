CONSTANTS
  TARFS_HEADER = 4
  Archives <- MCArchives
  Trees <- MCTrees
  Names = {"bin", "usr"}
  Terminal = sh
  Command = cmd
  OneCharacter = {}
  Procs = {sh, cmd}
  MAX_FD = 2
  ReadSizes = {}
  TEXT = 6
  MaxTaken = 12
  Bare <- MCBare
  Operands <- MCOperands
  Scripts <- MCScripts
  Lines <- MCLines
  Newlines <- MCNewlines
  BUFFER = 8
  LineSizes = {8}
SPECIFICATION Spec
INVARIANTS WalkFindsFiles ReadsFollowOn DirectoriesExist LsListsHere CatShowsFile FirstRunComplete
PROPERTY FlatTreeResolves

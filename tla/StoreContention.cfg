SPECIFICATION Spec
CONSTANTS
  Process = {p, q}
  Task = {a, b}
  MaxLog = 3
  None = None
SYMMETRY Symmetry
INVARIANTS
  FilesCiteLog
  FilesFollowTheTable
CHECK_DEADLOCK FALSE

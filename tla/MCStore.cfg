SPECIFICATION Spec
CONSTANTS
  Process = {p}
  Task = {a, b}
  MaxLog = 7
  None = None
SYMMETRY Symmetry
INVARIANT AloneUnharmed
CHECK_DEADLOCK FALSE

SPECIFICATION Spec
CONSTANTS
  MaxPages = 2
  ParallelMinPages = 2
  None = None
INVARIANTS
  OnlySelectedPages
CHECK_DEADLOCK FALSE

SPECIFICATION Spec
CONSTANTS
  MaxPages = 1
  Cap = 2
  MaxCost = 1
  None = None
INVARIANTS
  RangeExits40
CHECK_DEADLOCK FALSE

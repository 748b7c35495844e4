SPECIFICATION Spec
CONSTANTS
  MaxPages = 2
  Cap = 2
  MaxCost = 1
  None = None
INVARIANTS
  ExportListsFiles
CHECK_DEADLOCK FALSE

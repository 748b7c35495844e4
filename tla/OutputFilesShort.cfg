SPECIFICATION Spec
CONSTANTS
  MaxRuns = 1
  MaxCount = 2
  Radix = 2
  MinPad = 2
INVARIANTS
  NoTruncatedFile
CHECK_DEADLOCK FALSE

SPECIFICATION Spec
CONSTANTS
  MaxRuns = 2
  MaxCount = 4
  Radix = 2
  MinPad = 2
INVARIANTS
  TypeOK
  FinalNamesFinished
  CompleteOnSuccess
  FailureListed
  ForeignChunksExplained
  SidecarKeepsUp
CHECK_DEADLOCK FALSE

SPECIFICATION Spec
CONSTANTS
  Selected <- MCSelected
  Verbatim <- MCVerbatim
  Workers = {w1, w2}
  Modes = {"capped", "uncapped", "thread", "serial"}
  BootWarns = {TRUE}
  None = None
  MiB = 1
  MinCap = 2
  FloorBytes = 4
  HardCeiling = 6
  Inflation = 2
  Unset = Unset
  Unreadable = Unreadable
SYMMETRY MCSymmetry
INVARIANTS
  TypeOK
  OutputFaithful
  CapBlameJustified
  BootWarningOnce
  AbortDrains
  WatchdogOutlivesRun
PROPERTIES
  KernelKillClassified
  ImplementsBatch

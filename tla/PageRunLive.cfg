SPECIFICATION FairSpec
CONSTANTS
  Selected <- MCSelected
  Verbatim <- MCVerbatim
  Workers = {w1, w2}
  Modes = {"capped"}
  BootWarns = {FALSE}
  None = None
  MiB = 1
  MinCap = 2
  FloorBytes = 4
  HardCeiling = 6
  Inflation = 2
  Unset = Unset
  Unreadable = Unreadable
PROPERTIES
  Returns

SPECIFICATION Spec
CONSTANTS
  MaxPages = 2
  ParallelMinPages = 2
  None = None
INVARIANTS
  TypeOK
  SignedRewriteConsented
  PreservedUntouched
  VerdictCoversOutput
  DriftListed
  VerbatimListed
  InterlockHolds
CHECK_DEADLOCK FALSE

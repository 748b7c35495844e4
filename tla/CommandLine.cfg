SPECIFICATION Spec
CONSTANTS
  MaxPages = 3
  Cap = 3
  MaxCost = 4
  None = None
INVARIANTS
  TypeOK
  ZeroDelivers
  FailureAccountsForFiles
  CodeTellsCause
  PolicyEitherFormat
  PagesInOrder
  ChunksFull
  FewestChunks
CHECK_DEADLOCK FALSE

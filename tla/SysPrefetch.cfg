SPECIFICATION Spec
CONSTANTS
  NumPairs = 1
  Positions = {0}
  UsePrefetch = TRUE
  UseValueCheck = TRUE
  NoTheta = NoTheta
  Ids <- MCIds
  NumPipeRegs = 0
  FifoDepth = 2
  Words <- MCWords
  NoEntry = NoEntry
  NumIds = 2
  Kinds <- MCRejectedKinds
  Values = {1}
  StaleValue = 0
  NoFetch = NoFetch
  Interrupts = TRUE
  FetchBubbles = TRUE
  SlowMemory = FALSE
  SpacedRotations = FALSE
INVARIANTS AlwaysWritesRd ZeroWbStall NoOrphan
PROPERTY KeepsProtocol

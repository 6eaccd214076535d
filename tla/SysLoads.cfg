SPECIFICATION Spec
CONSTANTS
  NumPairs = 1
  Positions = {0}
  UsePrefetch = TRUE
  UseValueCheck = TRUE
  NoTheta = NoTheta
  Ids <- MCIds
  NumPipeRegs = 0
  FifoDepth = 4
  Words <- MCWords
  NoEntry = NoEntry
  NumIds = 4
  Kinds <- MCLoadRot
  Values = {1}
  StaleValue = 0
  NoFetch = NoFetch
  Interrupts = FALSE
  FetchBubbles = TRUE
  SlowMemory = TRUE
  SpacedRotations = FALSE
INVARIANT OneTransaction

SPECIFICATION Spec
CONSTANTS
  NumPairs = 1
  Positions = {0}
  UsePrefetch = TRUE
  UseValueCheck = TRUE
  NoTheta = NoTheta
  Ids <- MCIds
  NumPipeRegs = 0
  FifoDepth = 2
  Words <- MCWords
  NoEntry = NoEntry
  NumIds = 2
  Kinds <- MCDivKinds
  Values = {1}
  StaleValue = 0
  NoFetch = NoFetch
  Interrupts = FALSE
  FetchBubbles = FALSE
  SlowMemory = FALSE
  SpacedRotations = FALSE
INVARIANT OwnResult

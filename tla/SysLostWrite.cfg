SPECIFICATION Spec
CONSTANTS
  NumPairs = 1
  Positions = {0}
  UsePrefetch = FALSE
  UseValueCheck = TRUE
  NoTheta = NoTheta
  Ids <- MCIds
  NumPipeRegs = 0
  FifoDepth = 4
  Words <- MCWords
  NoEntry = NoEntry
  NumIds = 4
  Kinds <- MCRotOnly
  Values = {1}
  StaleValue = 0
  NoFetch = NoFetch
  Interrupts = FALSE
  FetchBubbles = FALSE
  SlowMemory = FALSE
  SpacedRotations = FALSE
INVARIANT AlwaysWritesRd

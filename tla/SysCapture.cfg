SPECIFICATION FairSpec
CONSTANTS
  NumPairs = 1
  Positions = {0}
  UsePrefetch = FALSE
  UseValueCheck = TRUE
  NoTheta = NoTheta
  Ids <- MCIds
  NumPipeRegs = 0
  FifoDepth = 2
  Words <- MCWords
  NoEntry = NoEntry
  NumIds = 2
  Kinds <- MCOwnKinds
  Values = {1}
  StaleValue = 0
  NoFetch = NoFetch
  Interrupts = TRUE
  FetchBubbles = TRUE
  SlowMemory = FALSE
  SpacedRotations = TRUE
INVARIANT OwnResult
PROPERTIES KeepsProtocol CommitIsFinal RotationRetires InterruptTaken

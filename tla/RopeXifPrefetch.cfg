SPECIFICATION Spec
CONSTANTS
  NumPairs = 2
  Positions = {0, 1}
  UsePrefetch = TRUE
  UseValueCheck = TRUE
  NoTheta = NoTheta
  Ids <- MCTwoIds
  NumPipeRegs = 1
  FifoDepth = 2
  Words = {1}
  NoEntry = NoEntry
  IssuedOps <- MCWalks
  SteadyRequests = TRUE
INVARIANT ThetaCurrent
PROPERTY OffloadSpec

SPECIFICATION Spec
CONSTANTS
  NumPairs = 2
  Positions = {0, 1}
  UsePrefetch = TRUE
  UseValueCheck = TRUE
  NoTheta = NoTheta
  Ids <- MCTwoIds
  NumPipeRegs = 0
  FifoDepth = 2
  Words = {1, 2}
  NoEntry = NoEntry
  IssuedOps <- MCWalks
  SteadyRequests = FALSE
INVARIANT ResultIsOwn

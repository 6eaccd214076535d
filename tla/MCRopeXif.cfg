SPECIFICATION FairSpec
CONSTANTS
  NumPairs = 2
  Positions = {0, 1}
  UsePrefetch = FALSE
  UseValueCheck = TRUE
  NoTheta = NoTheta
  Ids <- MCIds
  NumPipeRegs = 0
  FifoDepth = 2
  Words = {1, 2}
  NoEntry = NoEntry
  IssuedOps <- MCTwoOps
  SteadyRequests = FALSE
INVARIANTS TypeOK CreditExact NoOverflow TagsAligned ResultIsOwn CommitsSeen
PROPERTIES CommittedReturns CreditsComeBack

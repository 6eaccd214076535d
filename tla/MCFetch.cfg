SPECIFICATION FairSpec
CONSTANTS
  NumWords = 3
  Memories <- MCMemories
INVARIANT
  CountIsExact
PROPERTIES
  ImplementsStream
  FetchGoesOn

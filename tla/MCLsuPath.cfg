SPECIFICATION FairSpec
CONSTANTS
  Depth = 2
  Accesses <- MCAccesses
INVARIANTS
  TypeOK
  AnswerIsOwn
  KillsNothingBegun
  FenceDrains
PROPERTIES
  ImplementsDataPort
  RequestHeld
  AccessEnds

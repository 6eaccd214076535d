SPECIFICATION BenchSpec
CONSTANTS
  ExpBits = 4
  ManBits = 2
  LowBits = 6
  MaxBits = 30
  Binades = 5
  DoubleExp = 5
  DoubleMan = 22
  PhaseBits = 8
  LutBits = 2
  PosBits = 7
  NumPairs = 3
  PairIdxBits = 2
  TurnUnits = 1048576
  Turn <- MCTurn
  MaxSteps = 12
  Sine <- MCSine
  SineBits = 16
  Multiplicands <- MCMultiplicands
  Multipliers <- MCMultipliers
  Positions <- MCPositions
  HeadDim = 6
  Value = {0, 1, 2}
  Rotate <- MCRotate
  Cos <- MCCos
  Sin <- MCSin
INVARIANTS
  PhaseIsExact
  RoundingIsNearest
  UnitsRoundOnce
  FmaRoundsOnce
  LutFoldsTheAngle
  InstructionMatches
  QuarterTurnExact
  InPlaceIsGolden
  LayoutsAgree
  HalfSplitIsHuggingFace

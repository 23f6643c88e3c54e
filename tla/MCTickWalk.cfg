CONSTANTS
  Swaps <- MCStarts
  MinTick <- MCMinTick
  MaxTick = 9
  Spacing = 2
  Word = 2
  Unit = 2
  FeeParts = 1
SPECIFICATION Spec
INVARIANTS
  TypeOK
PROPERTIES
  Answers
CHECK_DEADLOCK FALSE

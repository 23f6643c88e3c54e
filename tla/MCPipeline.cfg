CONSTANTS
  Threads = 4
  Capacity = 2
  MaxBlocks = 3
SPECIFICATION FairSpec
INVARIANTS
  TypeOK
  TradedOncePerBlock
PROPERTIES
  HeadersHandled
  WindDown
CHECK_DEADLOCK FALSE

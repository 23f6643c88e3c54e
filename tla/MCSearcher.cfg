CONSTANTS
  uni = uni
  pancake = pancake
  Pools = {uni, pancake}
  Weth <- MCWeth
  Decimals <- MCDecimals
  Fee <- MCFee
  States <- MCStates
  Cycles <- MCCycles
  Amount = 100
  RateScale = 3
  MaxEstimate = 100000
  Slack = 1
  MaxBlocks = 2
SPECIFICATION FairSpec
INVARIANTS
  TypeOK
  CacheFresh
  RatesFresh
  QuotedSinceEvent
  NoProfitMissed
PROPERTIES
  Settles
CHECK_DEADLOCK FALSE

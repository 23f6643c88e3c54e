CONSTANTS
  uni = uni
  pancake = pancake
  Pools = {uni, pancake}
  Weth <- MCWethMix
  Decimals <- MCDecimals
  Fee <- MCFee
  States <- MCStates
  Cycles <- MCCycles
  Amount = 100
  RateScale = 3
  MaxEstimate = 100000
  Slack = 1
  MaxBlocks = 1
SPECIFICATION Spec
INVARIANT RateOfToken
CHECK_DEADLOCK FALSE

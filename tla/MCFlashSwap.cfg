CONSTANTS
  weth = weth
  usdc = usdc
  uni = uni
  other = other
  slip = slip
  Tokens = {weth, usdc}
  WETH = weth
  Pools = {uni, other, slip}
  Token0 <- MCToken0
  Token1 <- MCToken1
  IsV3 = {slip}
  PoolFee <- MCPoolFee
  Depth <- MCDepth
  QuoterFee <- MCListedFee
  FactoryFee <- MCListedFee
  PremiumRate = 1000
  Paths <- MCPaths
  Amounts = {1, 10, 40}
  Funds = 100
  Reserves <- MCReserves
  MaxTxs = 2
  MaxTrades = 1
SPECIFICATION Spec
INVARIANTS
  TypeOK
  WethForwarded
PROPERTIES
  QuoteKept
  NoTokenSpent
CHECK_DEADLOCK FALSE

CONSTANTS
  pair = pair
  v3 = v3
  pairOfUsdc = pairOfUsdc
  pairOfShares = pairOfShares
  weth = weth
  usdc = usdc
  eoa = eoa
  flashQuoter = flashQuoter
  pairCode = pairCode
  poolCode = poolCode
  tokenCode = tokenCode
  quoterCode = quoterCode
  V2Pools = {pair, pairOfUsdc, pairOfShares}
  V3Pools = {v3}
  Tokens = {weth, usdc, pair}
  BalanceSlot <- MCBalanceSlot
  Account = eoa
  Quoter = flashQuoter
  Token0 <- MCToken0
  Token1 <- MCToken1
  Word <- MCWord
  Spacing <- MCSpacing
  PoolStates <- MCPoolStates
  Code <- MCCode
  QuoterCode = quoterCode
  EmptyCode = emptyCode
  NoCode = noCode
  Reserve = 4
  Price = 4
  Tick = 4
  Liquidity = 4
  MaxSpacing = 100
  MaxBlocks = 4
SPECIFICATION Spec
INVARIANTS
  TypeOK
  PoolsRead
  CodeKnown
  QuoterFunded
  UpdatesReachPools
CHECK_DEADLOCK FALSE

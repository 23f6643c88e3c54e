CONSTANTS
  weth = weth
  usdc = usdc
  dai = dai
  uni = uni
  uniB = uniB
  side = side
  curve = curve
  balancer = balancer
  Pools = {uni, uniB, side, curve, balancer}
  PoolTokens <- MCPoolTokens
  PoolType <- MCPoolType
  Balance <- MCBalance
  WETH = weth
  Hops = {2, 3}
SPECIFICATION Spec
INVARIANTS
  TypeOK
  PathsAreCycles
  AllCyclesFound
  FoundOnce
CHECK_DEADLOCK FALSE

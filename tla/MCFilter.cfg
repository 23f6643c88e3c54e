CONSTANTS
  weth = weth
  usdc = usdc
  deg = deg
  scam = scam
  odd = odd
  void = void
  impl = impl
  k1 = k1
  k2 = k2
  s1 = s1
  s2 = s2
  Tokens = {weth, usdc, deg, scam, odd, void}
  WETH = weth
  Blacklist = {scam}
  Pools <- MCPools
  Info <- MCInfo
  AccessList <- MCAccessList
  Implementation = impl
  KnownSlots <- MCKnownSlots
  BalanceSlot <- MCBalanceSlot
  Rankings <- MCRankings
  NumResults = 3
  PageSize = 2
  Amount = 100
  MaxStarts = 3
  MaxMoves = 1
SPECIFICATION Spec
INVARIANTS
  TypeOK
  SelectedAlone
  DepthTested
  RestartKeepsPools
CHECK_DEADLOCK FALSE

----------------------------- MODULE MCFlashSwap -----------------------------
\* Two V2 pools and a V3 pool of WETH against one token, the two-step paths over
\* them and the empty one.  The V3 pool runs out of liquidity for the larger input.
EXTENDS FlashSwap, TLC

CONSTANTS weth, usdc, uni, other, slip

MCToken0 == [x \in Pools |-> IF x = other THEN usdc ELSE weth]
MCToken1 == [x \in Pools |-> IF x = other THEN weth ELSE usdc]
MCPoolFee == uni :> 30 @@ other :> 16 @@ slip :> 30
MCDepth == [x \in Pools |-> 30]
MCListedFee == uni :> 9970 @@ other :> 9984 @@ slip :> 9970
MCReserves ==
  uni   :> {<<100, 100>>, <<100, 180>>} @@
  other :> {<<100, 100>>, <<100, 300>>} @@
  slip  :> {<<100, 100>>, <<180, 100>>}
MCPaths == {<<>>} \cup ({<<x, y>> : x, y \in Pools} \ {<<x, x>> : x \in Pools})

=============================================================================

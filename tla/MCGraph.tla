------------------------------ MODULE MCGraph ------------------------------
\* Pools of WETH, USDC and DAI: two of one type, another of it that closes the
\* triangle, a Curve pool, and a Balancer pool that has run out of a token.
EXTENDS Graph, TLC

CONSTANTS weth, usdc, dai, uni, uniB, side, curve, balancer

MCPoolTokens ==
  uni :> {usdc, weth} @@ uniB :> {weth, usdc} @@
  side :> {dai, usdc} @@ curve :> {usdc, dai, weth} @@ balancer :> {dai, weth, usdc}
MCPoolType ==
  uni :> "UniswapV2" @@ uniB :> "UniswapV2" @@
  side :> "UniswapV2" @@ curve :> "CurveTriCrypto" @@ balancer :> "BalancerV2"
MCBalance == [p \in Pools |-> [t \in PoolTokens[p] |->
                                 IF p = balancer /\ t = usdc THEN 0 ELSE 1]]

=============================================================================

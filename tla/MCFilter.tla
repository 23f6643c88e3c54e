------------------------------ MODULE MCFilter ------------------------------
\* Pools of every router type over six tokens: deep, shallow and empty ones, either
\* token first, two that differ in their tick spacing alone, and tokens whose
\* balance slot is found by each rule, wrongly, or not at all.
EXTENDS Filter, TLC

CONSTANTS weth, usdc, deg, scam, odd, void, impl, k1, k2, s1, s2

V(a, b, ty, key, r0, r1) ==
  [t0 |-> a, t1 |-> b, type |-> ty, key |-> key, reserve |-> <<r0, r1>>, fee |-> 3]
K(fee, stable, spacing) == [fee |-> fee, stable |-> stable, tick_spacing |-> spacing]

MCPools == {"uni", "thin", "aero", "slip1", "slip60", "sushi", "odd", "void", "scam", "dry"}
MCInfo ==
  "uni"    :> V(weth, usdc, "UniswapV2",  K(0, 0, 0),   9000, 4000) @@
  "thin"   :> V(usdc, weth, "SushiSwapV2", K(0, 0, 0),  9000, 2000) @@
  "aero"   :> V(deg, usdc,  "Aerodrome",  K(0, 1, 0),   9000, 9000) @@
  "slip1"  :> V(weth, usdc, "Slipstream", K(5, 0, 1),   9000, 9000) @@
  "slip60" :> V(weth, usdc, "Slipstream", K(5, 0, 60),  1000, 1000) @@
  "sushi"  :> V(deg, weth,  "SushiSwapV3", K(30, 0, 60), 20000, 9000) @@
  "dry"    :> V(deg, usdc,  "Aerodrome",  K(0, 0, 0),   0, 0) @@
  "odd"    :> V(odd, weth,  "UniswapV3",  K(30, 0, 60), 9000, 9000) @@
  "void"   :> V(void, weth, "UniswapV3",  K(5, 0, 10),  9000, 9000) @@
  "scam"   :> V(scam, weth, "UniswapV3",  K(5, 0, 10),  9000, 9000)

Item(address, keys) == [address |-> address, storage_keys |-> keys]
MCAccessList ==
  weth :> <<Item(weth, <<s1>>)>> @@
  usdc :> <<Item(deg, <<k2>>), Item(usdc, <<impl, s1, k2, k1>>)>> @@
  deg  :> <<Item(deg, <<impl, s2, s1>>)>> @@
  scam :> <<Item(scam, <<k1>>)>> @@
  odd  :> <<Item(odd, <<s1, k2>>)>> @@
  void :> <<Item(void, <<impl>>)>>
MCBalanceSlot ==
  weth :> s1 @@ usdc :> k1 @@ deg :> s2 @@ scam :> k1 @@ odd :> s1 @@ void :> s2
MCKnownSlots == <<k1, k2>>
\* Two pages of two tokens are asked for.
MCRankings ==
  {<<weth, usdc, deg, odd, scam, void>>, <<usdc, deg, weth, void, odd, scam>>,
   <<weth, scam, usdc, odd, deg, void>>}

=============================================================================

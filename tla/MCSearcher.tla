----------------------------- MODULE MCSearcher -----------------------------
\* Two pools of WETH against one token, as in a cycle of generate_cycles: a
\* Uniswap V2 pool and a PancakeSwap V2 pool.
EXTENDS Searcher, TLC

CONSTANTS uni, pancake

MCWeth     == [x \in Pools |-> 0]
MCWethMix  == [x \in Pools |-> IF x = uni THEN 0 ELSE 1]
MCDecimals == [x \in Pools |-> [t \in {0, 1} |-> 2]]
MCFee      == uni :> 9970 @@ pancake :> 9975
MCStates ==
  uni     :> {<<500, 500>>, <<500, 900>>, <<500, 1000>>} @@
  pancake :> {<<500, 500>>, <<500, 450>>}

Out(x)  == [pool |-> x, token_in |-> Weth[x]]
Back(x) == [pool |-> x, token_in |-> 1 - Weth[x]]
MCCycles == {<<Out(uni), Back(pancake)>>, <<Out(pancake), Back(uni)>>}

\* What the proof of NoProfitMissed takes as given holds of these pools for a slack of
\* four; TLC finds that one is enough for them.
ASSUME WethFirst == (\A x \in Pools : Weth[x] = 0) => TwoHops /\ RoundingWithin(4)

=============================================================================

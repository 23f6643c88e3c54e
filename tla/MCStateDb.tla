----------------------------- MODULE MCStateDb -----------------------------
\* A V2 pool and a V3 pool with the same first token, in words of a few bits: ticks
\* and net liquidity of either sign, a price field next to other fields of slot0.
\* Two more V2 pools do not change: one has a first token that keeps its balances
\* elsewhere, the other the shares of the first pool.
EXTENDS StateDb

CONSTANTS pair, v3, pairOfUsdc, pairOfShares, weth, usdc, eoa, flashQuoter,
          pairCode, poolCode, tokenCode, quoterCode

MCToken0 == pair :> weth @@ v3 :> weth @@ pairOfUsdc :> usdc @@ pairOfShares :> pair
MCToken1 == pair :> usdc @@ v3 :> usdc @@ pairOfUsdc :> weth @@ pairOfShares :> weth
MCBalanceSlot == weth :> 3 @@ usdc :> 9 @@ pair :> 1
MCWord == weth :> 1 @@ usdc :> 2 @@ pair :> 3
MCSpacing == [p \in V3Pools |-> 6]
MCCode == [a \in V2Pools |-> pairCode] @@ v3 :> poolCode @@
          weth :> tokenCode @@ usdc :> tokenCode @@
          eoa :> EmptyCode @@ flashQuoter :> EmptyCode

V2State(r0, r1, ts) == [r0 |-> r0, r1 |-> r1, timestamp |-> ts]
V3State(price, tick, fields, net, gross, bitmap, observation) ==
  [price |-> price, tick |-> tick, fields |-> fields, liquidity |-> 3, net |-> net,
   gross |-> gross, bitmap |-> bitmap, observation |-> observation]
MCPoolStates ==
  pair :> {V2State(3, 1, 1), V2State(1, 3, 2), V2State(2, 2, 3)} @@
  v3 :> {V3State(3, -1, 9, 0, 0, 0, 0), V3State(1, 1, 10, -2, 2, 1, 0),
         V3State(2, -2, 11, 1, 3, 1, 5)} @@
  [p \in {pairOfUsdc, pairOfShares} |-> {V2State(1, 1, 1)}]

=============================================================================

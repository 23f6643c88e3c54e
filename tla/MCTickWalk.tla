----------------------------- MODULE MCTickWalk -----------------------------
\* Pools with ticks on both sides of zero, next to each other and words apart, and
\* with a stretch that has no liquidity; from prices all over, on a tick from
\* either side too, and with a liquidity that does not agree with the ticks, and runs out.
EXTENDS TickWalk, TLC

MCMinTick == -9

MCPools ==
  { -8 :> 2 @@ -2 :> 1 @@ 0 :> -2 @@ 6 :> -1,
    -4 :> 3 @@ -2 :> -3 @@ 4 :> 2 @@ 8 :> -2,
    -6 :> 1 @@ 6 :> -1 }

At(pool, t) == MapThenSumSet(LAMBDA i : pool[i], {i \in DOMAIN pool : i <= t})

\* A price on a tick has been reached from above or from below.
MCTicks(p) == {p \div 2} \union (IF p % 2 = 0 THEN {p \div 2 - 1} ELSE {})

MCStarts ==
  {[pool |-> x[1], price |-> x[2], tick |-> x[3], liquidity |-> IF x[4] THEN 0 ELSE At(x[1], x[3]),
    amount |-> x[5], zero_to_one |-> x[6]] :
     x \in {y \in MCPools \X {-13, -8, -5, -4, 0, 3, 9, 16} \X (-9 .. 9) \X BOOLEAN
                 \X {1, 7, 24, 90} \X BOOLEAN : y[3] \in MCTicks(y[2])}}

=============================================================================

--------------------------- MODULE MCMarketState ---------------------------
\* An instance of MarketState for TLC: a tracked pool with a slot the pool sync
\* knew and one it did not, and a token nobody tracks.
EXTENDS MarketState, TLC

CONSTANTS r, tick, bal, poolA, token

MCCells == {r, tick, bal}
MCOwner == (r :> poolA) @@ (tick :> poolA) @@ (bal :> token)
MCGenesis == [c \in MCCells |-> 1]

\* They alternate: the first applies at genesis, the second after it, and so on.
\* Single transactions may be missing from their traces.
MCBodies ==
  { <<(r :> 2), (tick :> 2 @@ bal :> 2)>>,
    <<(r :> 0), (r :> 1 @@ tick :> 0 @@ bal :> 1)>> }

=============================================================================

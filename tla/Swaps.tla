------------------------------- MODULE Swaps -------------------------------
(***************************************************************************)
(* The swap steps that FlashSwap.sol and FlashQuoter.sol have in common:   *)
(* _swapV2, _swapV3 and uniswapV3SwapCallback, one path after another on   *)
(* the pools' reserves and the contract's own tokens.  The pools are       *)
(* external contracts, modelled by what the code relies on.                *)
(*                                                                         *)
(* A run of the loop over a path is a record w:                            *)
(*   w.reserve  for each pool, what it holds of each token                 *)
(*   w.held     what the contract holds of each token                      *)
(*   w.token    currentTokenIn                                             *)
(*   w.amounts  the array of amounts, as far as it is filled               *)
(***************************************************************************)
EXTENDS Integers, Sequences

CONSTANTS
  Tokens,    \* the tokens
  WETH,      \* one of them, in which paths start and end
  Pools,     \* the pools
  Token0,    \* for each pool, its first token
  Token1,    \* for each pool, its second token
  IsV3,      \* the pools that are Uniswap V3 pools
  PoolFee,   \* for each pool, what it keeps of the input, of PRECISION
  Depth      \* for each V3 pool, the input that exhausts its liquidity

PRECISION == 10000

ASSUME TokenAssumption ==
  /\ WETH \in Tokens
  /\ Token0 \in [Pools -> Tokens] /\ Token1 \in [Pools -> Tokens]
  /\ \A p \in Pools : Token0[p] # Token1[p]
ASSUME SwapAssumption ==
  /\ IsV3 \subseteq Pools
  /\ PoolFee \in [Pools -> 0 .. PRECISION - 1]
  /\ Depth \in [Pools -> Nat \ {0}]

World == [reserve : [Pools -> [Tokens -> Nat]], held : [Tokens -> Nat],
          token : Tokens, amounts : Seq(Nat)]

AmountInFirst(w) == w.amounts[1]   \* mutant: the input again
\* The amount that goes into the next pool.
AmountIn(w) == w.amounts[Len(w.amounts)]

ZeroForOne(w, p) == w.token = Token0[p]
TokenIn(w, p)    == IF ZeroForOne(w, p) THEN Token0[p] ELSE Token1[p]
TokenOut(w, p)   == IF ZeroForOne(w, p) THEN Token1[p] ELSE Token0[p]

\* The constant product formula, with fee out of PRECISION going into the pool.
Output(amount, reserve_in, reserve_out, fee) ==
  (amount * fee * reserve_out) \div (reserve_in * PRECISION + amount * fee)

\* n of token t is added to the holdings h, and m of token u taken from them.
Moved(h, t, n, u, m) == [h EXCEPT ![t] = @ + n, ![u] = @ - m]

\* amount of token t goes into pool p and out of token u comes back.
Exchange(w, p, t, amount, u, out) ==
  [reserve |-> [w.reserve EXCEPT ![p] = Moved(w.reserve[p], t, amount, u, out)],
   held    |-> Moved(w.held, u, out, t, amount),
   token   |-> w.token, amounts |-> w.amounts]

OnwardToken1(w, p, out) ==   \* mutant: does not look at the direction
  [w EXCEPT !.token = Token1[p], !.amounts = Append(@, out)]
\* The next round of the loop.
Onward(w, p, out) ==
  [reserve |-> w.reserve, held |-> w.held,
   token |-> TokenOut(w, p), amounts |-> Append(w.amounts, out)]

-----------------------------------------------------------------------------
(* V2 pools. *)

\* _swapV2: the output it asks the pair for, by the fee the contract knows.
V2Output(w, p, fee) ==
  Output(AmountIn(w), w.reserve[p][TokenIn(w, p)], w.reserve[p][TokenOut(w, p)], fee)

\* The pair lets the contract have out for amount: it refuses an output of nothing
\* or of everything, and one that lowers the product of the reserves after its fee.
PairAccepts(amount, reserve_in, reserve_out, out, fee) ==
  /\ out > 0 /\ out < reserve_out
  /\ (reserve_in * PRECISION + amount * (PRECISION - fee)) * (reserve_out - out)
       >= reserve_in * reserve_out * PRECISION

\* The division is by more than zero, the token lets the contract pay, and the pair
\* accepts.
V2Succeeds(w, p, fee) ==
  /\ w.reserve[p][TokenIn(w, p)] > 0 \/ AmountIn(w) * fee > 0
  /\ w.held[TokenIn(w, p)] >= AmountIn(w)
  /\ PairAccepts(AmountIn(w), w.reserve[p][TokenIn(w, p)], w.reserve[p][TokenOut(w, p)],
                 V2Output(w, p, fee), PoolFee[p])

SwapV2(w, p, fee) ==
  LET out == V2Output(w, p, fee)
  IN  Onward(Exchange(w, p, TokenIn(w, p), AmountIn(w), TokenOut(w, p), out), p, out)

-----------------------------------------------------------------------------
(* V3 pools: the pool pays its output first, then calls back for its input. *)

\* The pool takes what its liquidity can.  There is no price limit to stop it
\* earlier: the contract passes the last price there is.
V3Input(w, p) == IF AmountIn(w) < Depth[p] THEN AmountIn(w) ELSE Depth[p]
V3Output(w, p) ==
  Output(V3Input(w, p), w.reserve[p][TokenIn(w, p)], w.reserve[p][TokenOut(w, p)],
         PRECISION - PoolFee[p])

\* swap: refused for an input of nothing.
V3Starts(w, p) == AmountIn(w) > 0
V3Sends(w, p) == Exchange(w, p, TokenIn(w, p), 0, TokenOut(w, p), V3Output(w, p))

\* uniswapV3SwapCallback pays delta of the token in; the pool sees to it that it
\* has been paid.
CallbackSucceeds(w, delta) == w.held[w.token] >= delta
Callback(w, p, delta) == Exchange(w, p, TokenIn(w, p), delta, TokenOut(w, p), 0)

=============================================================================

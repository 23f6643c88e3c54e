-------------------------- MODULE FlashSwapProofs --------------------------
(***************************************************************************)
(* Proofs about FlashSwap: its type invariant, WethForwarded, NoTokenSpent *)
(* and QuoteKept, for every set of pools and paths, any fees, loans and    *)
(* premiums, and any trades, callbacks and loans of others in between.     *)
(***************************************************************************)
EXTENDS FlashSwap, WellFoundedInduction, TLAPS

(***************************************************************************)
(* The parts of the inductive invariants.                                  *)
(***************************************************************************)

\* What a revert goes back to is a state between transactions.
Restorable ==
  /\ before.w.held[WETH] = 0 /\ before.allowance = 0
  /\ before.w.amounts = <<>> /\ before.w.token = WETH

\* Once the caller has been paid, the contract holds and has approved what it owes.
Settled ==
  IF pc = "collect" THEN Balance = AmountToRepay /\ allowance = AmountToRepay
                    ELSE allowance = 0

\* With a loan of another token there is no WETH for the first pool: the loop gets
\* nowhere.
Elsewhere ==
  pc # "idle" /\ loan.asset # WETH =>
    /\ w.held[WETH] = 0 /\ w.token = WETH /\ Len(w.amounts) = 1
    /\ pc = "callback" => owed.in > 0

IndInv == TypeOK /\ WethForwarded /\ Restorable /\ Settled /\ Elsewhere

\* What of token t is the transaction's own: the amount for the next pool or, while a
\* V3 pool calls back, what that is to get and what it has sent.
InHand(t) ==
  IF pc = "swap" /\ t = w.token THEN AmountIn(w)
  ELSE IF pc = "callback" /\ t = w.token THEN owed.in
  ELSE IF pc = "callback" /\ t = TokenOut(w, Pool) THEN owed.out
  ELSE 0

\* Beyond it there is what a transaction on a loan of WETH found.
Kept ==
  pc # "idle" /\ loan.asset = WETH =>
    \A t \in Tokens \ {WETH} : w.held[t] >= before.w.held[t] + InHand(t)

\* Division does not exceed what it is bounded by before it.
LEMMA DivBound ==
  ASSUME NEW x \in Nat, NEW d \in Nat \ {0}, NEW b \in Nat, x <= d * b
  PROVE  x \div d \in 0 .. b
<1>1. x \div d \in Nat /\ (x \div d) * d <= x
  BY SMT
<1>2. (x \div d) * d <= b * d
  BY <1>1, SMT
<1> QED BY <1>1, <1>2, SMT

\* The constant product formula pays no more than the pool has.
LEMMA OutputBound ==
  ASSUME NEW amount \in Nat, NEW reserve_in \in Nat, NEW reserve_out \in Nat,
         NEW fee \in Nat, reserve_in > 0 \/ amount * fee > 0
  PROVE  Output(amount, reserve_in, reserve_out, fee) \in 0 .. reserve_out
<1> DEFINE af == amount * fee
           d  == reserve_in * PRECISION + af
<1>1. af \in Nat /\ d \in Nat /\ d >= af
  BY SMT DEF PRECISION
<1>2. d > 0
  BY SMT DEF PRECISION
<1>3. af * reserve_out <= d * reserve_out /\ af * reserve_out \in Nat
  BY <1>1, SMT
<1>4. (af * reserve_out) \div d \in 0 .. reserve_out
  BY <1>1, <1>2, <1>3, DivBound
<1> QED BY <1>4 DEF Output

\* Moving what is there leaves holdings.
LEMMA MovedHoldings ==
  ASSUME NEW h \in [Tokens -> Nat], NEW t \in Tokens, NEW u \in Tokens, t # u,
         NEW n \in Nat, NEW m \in Nat, m <= h[u]
  PROVE  Moved(h, t, n, u, m) \in [Tokens -> Nat]
BY DEF Moved

\* An exchange that the contract and the pool can pay makes a world of a world.
LEMMA ExchangeWorld ==
  ASSUME NEW v \in World, NEW p \in Pools, NEW t \in Tokens, NEW u \in Tokens, t # u,
         NEW a \in Nat, NEW o \in Nat, a <= v.held[t], o <= v.reserve[p][u]
  PROVE  /\ Exchange(v, p, t, a, u, o) \in World
         /\ Exchange(v, p, t, a, u, o).token = v.token
         /\ Exchange(v, p, t, a, u, o).amounts = v.amounts
<1>1. /\ v.reserve \in [Pools -> [Tokens -> Nat]] /\ v.held \in [Tokens -> Nat]
      /\ v.token \in Tokens /\ v.amounts \in Seq(Nat)
  BY DEF World
<1>2. Moved(v.reserve[p], t, a, u, o) \in [Tokens -> Nat]
  BY <1>1, MovedHoldings
<1>3. Moved(v.held, u, o, t, a) \in [Tokens -> Nat]
  BY <1>1, MovedHoldings
<1>4. [v.reserve EXCEPT ![p] = Moved(v.reserve[p], t, a, u, o)] \in [Pools -> [Tokens -> Nat]]
  BY <1>1, <1>2
<1> QED BY <1>1, <1>3, <1>4 DEF Exchange, World

\* A round appends its output and goes on with the pool's other token.
LEMMA OnwardWorld ==
  ASSUME NEW v \in World, NEW p \in Pools, NEW o \in Nat
  PROVE  /\ Onward(v, p, o) \in World
         /\ Len(Onward(v, p, o).amounts) = Len(v.amounts) + 1
         /\ Onward(v, p, o).token = TokenOut(v, p)
<1>1. TokenOut(v, p) \in Tokens
  BY TokenAssumption DEF TokenOut
<1>2. Append(v.amounts, o) \in Seq(Nat) /\ Len(Append(v.amounts, o)) = Len(v.amounts) + 1
  BY DEF World
<1> QED BY <1>1, <1>2 DEF Onward, World

\* The token of the route at a pool is one of the pool's, and the next is the other.
LEMMA OnRoute ==
  ASSUME NEW v \in World, NEW path \in Seq(Pools), NEW t \in Routes(path),
         NEW i \in 1 .. Len(path), v.token = t[i]
  PROVE  LET p == path[i]
         IN  /\ p \in Pools
             /\ TokenIn(v, p) = v.token /\ TokenOut(v, p) = t[i + 1]
             /\ TokenIn(v, p) \in Tokens /\ TokenOut(v, p) \in Tokens
             /\ TokenIn(v, p) # TokenOut(v, p)
<1>1. path[i] \in Pools
  OBVIOUS
<1>2. {t[i], t[i + 1]} = {Token0[path[i]], Token1[path[i]]}
  BY DEF Routes
<1>3. /\ Token0[path[i]] \in Tokens /\ Token1[path[i]] \in Tokens
      /\ Token0[path[i]] # Token1[path[i]]
  BY <1>1, TokenAssumption
<1> QED BY <1>1, <1>2, <1>3 DEF TokenIn, TokenOut, ZeroForOne

\* A debt is a natural number.
LEMMA RepayType ==
  ASSUME NEW a \in Nat
  PROVE  a + Premium(a) \in Nat
<1>1. a * PremiumRate + PRECISION \div 2 \in Nat
  BY FlashAssumption, SMT DEF PRECISION
<1> QED BY <1>1, SMT DEF Premium, PRECISION

\* What a pool may hold are holdings.
LEMMA HoldingType ==
  ASSUME NEW p \in Pools, NEW r \in Reserves[p]
  PROVE  Holding(p, r) \in [Tokens -> Nat]
<1>1. r \in Nat \X Nat
  BY FlashAssumption
<1>2. r[1] \in Nat /\ r[2] \in Nat
  BY <1>1
<1> QED BY <1>2 DEF Holding

\* At the start the invariant holds.
LEMMA InitIndInv == Init => IndInv
<1> SUFFICES ASSUME Init PROVE IndInv
  OBVIOUS
<1>1. PICK r \in [Pools -> UNION {Reserves[p] : p \in Pools}] :
        /\ \A p \in Pools : r[p] \in Reserves[p]
        /\ w = [reserve |-> [p \in Pools |-> Holding(p, r[p])],
                held |-> [t \in Tokens |-> 0], token |-> WETH, amounts |-> <<>>]
  BY DEF Init
<1>2. \A p \in Pools : Holding(p, r[p]) \in [Tokens -> Nat]
  BY <1>1, HoldingType
<1>3. w \in World /\ w.held[WETH] = 0 /\ w.amounts = <<>> /\ w.token = WETH
  BY <1>1, <1>2, TokenAssumption DEF World
<1>4. /\ before.w = w /\ before.allowance = 0
      /\ before \in [w : World, allowance : Nat, vault : [Tokens -> Nat],
                     wallet : [Tokens -> Nat]]
  BY <1>3, FlashAssumption DEF Init, State
<1>5. /\ arb \in [pools : Paths \cup {<<>>}, amountIn : Amounts \cup {0}]
      /\ loan \in [asset : Tokens, amount : Amounts \cup {0}]
  BY TokenAssumption DEF Init, NoArb, NoLoan
<1>6. txs \in Seq(BOOLEAN) /\ owed \in [in : Nat, out : Nat] /\ trades \in 0 .. MaxTrades
  BY FlashAssumption DEF Init, NoDebt
<1>7. TypeOK
  BY <1>3, <1>4, <1>5, <1>6, FlashAssumption DEF Init, TypeOK
<1> QED
  BY <1>3, <1>4, <1>7 DEF Init, IndInv, WethForwarded, Restorable, Settled, Elsewhere

\* Where the loop is: the pool it comes to is one of the path's, and the amount that
\* goes into it is a number.
LEMMA InLoopFacts ==
  ASSUME TypeOK, pc # "idle", Len(w.amounts) <= Len(arb.pools)
  PROVE  /\ arb.pools \in Seq(Pools) /\ Len(w.amounts) \in 1 .. Len(arb.pools)
         /\ Pool \in Pools /\ AmountIn(w) \in Nat
         /\ \E t \in Routes(arb.pools) :
              /\ TokenIn(w, Pool) = w.token /\ TokenOut(w, Pool) = t[Len(w.amounts) + 1]
              /\ TokenIn(w, Pool) \in Tokens /\ TokenOut(w, Pool) \in Tokens
              /\ TokenIn(w, Pool) # TokenOut(w, Pool)
<1>1. arb.pools \in Seq(Pools)
  BY PathAssumption DEF TypeOK
<1>2. w \in World /\ Len(w.amounts) \in 1 .. Len(arb.pools)
  BY <1>1 DEF TypeOK
<1>3. AmountIn(w) \in Nat
  BY <1>2 DEF AmountIn, World
<1>4. PICK t \in Routes(arb.pools) : w.token = t[Len(w.amounts)]
  BY DEF TypeOK
<1>5. /\ Pool \in Pools
      /\ TokenIn(w, Pool) = w.token /\ TokenOut(w, Pool) = t[Len(w.amounts) + 1]
      /\ TokenIn(w, Pool) \in Tokens /\ TokenOut(w, Pool) \in Tokens
      /\ TokenIn(w, Pool) # TokenOut(w, Pool)
  BY <1>1, <1>2, <1>4, OnRoute DEF Pool
<1> QED BY <1>1, <1>2, <1>3, <1>4, <1>5

\* The contract's loop, reset, and what it has of the asset make a world.
LEMMA ContractWorld ==
  ASSUME w \in World, NEW asset \in Tokens, NEW n \in Nat, NEW t \in Tokens, NEW s \in Seq(Nat)
  PROVE  /\ Contract(asset, n, t, s) \in World
         /\ Contract(asset, n, t, s).held[asset] = n
         /\ \A x \in Tokens \ {asset} : Contract(asset, n, t, s).held[x] = w.held[x]
         /\ Contract(asset, n, t, s).token = t /\ Contract(asset, n, t, s).amounts = s
         /\ Contract(asset, n, t, s).reserve = w.reserve
<1>1. w.held \in [Tokens -> Nat] /\ w.reserve \in [Pools -> [Tokens -> Nat]]
  BY DEF World
<1>2. /\ [w.held EXCEPT ![asset] = n] \in [Tokens -> Nat]
      /\ [w.held EXCEPT ![asset] = n][asset] = n
      /\ \A x \in Tokens \ {asset} : [w.held EXCEPT ![asset] = n][x] = w.held[x]
  BY <1>1
<1> QED BY <1>1, <1>2 DEF Contract, World

\* What remains to be shown of a step that goes on to the next pool.
LEMMA Advances ==
  ASSUME IndInv, pc \in {"swap", "callback"}, Len(w.amounts) <= Len(arb.pools),
         NEW v \in World, NEW o \in Nat,
         v.token = w.token, v.amounts = w.amounts,
         w' = Onward(v, Pool, o), pc' = "swap", owed' \in [in : Nat, out : Nat],
         loan.asset = WETH,
         UNCHANGED <<arb, loan, allowance, vault, wallet, before, txs, trades>>
  PROVE  IndInv'
<1>1. PICK t \in Routes(arb.pools) : TokenOut(w, Pool) = t[Len(w.amounts) + 1]
  BY InLoopFacts DEF IndInv
<1>2. Len(w.amounts) \in 1 .. Len(arb.pools) /\ Len(arb.pools) \in Nat /\ Pool \in Pools
  BY InLoopFacts DEF IndInv
<1>3. TokenOut(v, Pool) = TokenOut(w, Pool)
  BY DEF TokenOut, ZeroForOne
<1>4. w' \in World /\ Len(w'.amounts) = Len(w.amounts) + 1 /\ w'.token = TokenOut(w, Pool)
  BY <1>2, <1>3, OnwardWorld
<1>5. Len(w'.amounts) \in 1 .. Len(arb.pools') + 1 /\ w'.token = t[Len(w'.amounts)]
  BY <1>1, <1>2, <1>4
<1>6. TypeOK'
  BY <1>1, <1>4, <1>5 DEF IndInv, TypeOK
<1> QED
  BY <1>6 DEF IndInv, WethForwarded, Restorable, Settled, Elsewhere

\* With a loan of another token there is no WETH to swap: a V2 pool is paid nothing, for
\* which it gives nothing and refuses, and a V3 pool is not paid.
LEMMA NoWethNoSwap ==
  ASSUME IndInv, SwapV2Pool \/ UniswapV3SwapCallback
  PROVE  loan.asset = WETH
<1> SUFFICES ASSUME loan.asset # WETH PROVE FALSE
  OBVIOUS
<1>1. pc # "idle" /\ w.held[WETH] = 0 /\ w.token = WETH /\ (pc = "callback" => owed.in > 0)
  BY DEF IndInv, Elsewhere, SwapV2Pool, UniswapV3SwapCallback, InLoop
<1>2. TypeOK /\ w \in World
  BY DEF IndInv, TypeOK
<1>3. CASE UniswapV3SwapCallback
  BY <1>1, <1>2, <1>3 DEF UniswapV3SwapCallback, CallbackSucceeds, TypeOK
<1>4. CASE SwapV2Pool
  <2>1. Len(w.amounts) <= Len(arb.pools) /\ V2Succeeds(w, Pool, FactoryFee[Pool])
    BY <1>4 DEF SwapV2Pool, InLoop
  <2>2. /\ Pool \in Pools /\ AmountIn(w) \in Nat /\ TokenIn(w, Pool) = WETH
        /\ TokenIn(w, Pool) \in Tokens /\ TokenOut(w, Pool) \in Tokens
    BY <1>1, <1>2, <2>1, InLoopFacts
  <2>3. AmountIn(w) = 0
    BY <1>1, <2>1, <2>2 DEF V2Succeeds
  <2> DEFINE fee == FactoryFee[Pool]
             rin == w.reserve[Pool][TokenIn(w, Pool)]
             rout == w.reserve[Pool][TokenOut(w, Pool)]
  <2>4. fee \in Nat /\ rin \in Nat /\ rout \in Nat
    BY <1>2, <2>2, FlashAssumption DEF World
  <2>5. rin > 0 \/ AmountIn(w) * fee > 0
    BY <2>1 DEF V2Succeeds
  <2>6. V2Output(w, Pool, fee) = (AmountIn(w) * fee * rout) \div (rin * PRECISION + AmountIn(w) * fee)
    BY DEF V2Output, Output
  <2>7. V2Output(w, Pool, fee) > 0
    BY <2>1 DEF V2Succeeds, PairAccepts
  <2> HIDE DEF fee, rin, rout
  <2>8. AmountIn(w) * fee = 0
    BY <2>3, <2>4
  <2>9. AmountIn(w) * fee * rout = 0
    BY <2>4, <2>8
  <2>10. rin * PRECISION + AmountIn(w) * fee > 0
    BY <2>4, <2>5, <2>8 DEF PRECISION
  <2>11. \A d \in Nat : d > 0 => 0 \div d = 0
    OBVIOUS
  <2>12. rin * PRECISION + AmountIn(w) * fee \in Nat
    BY <2>4, <2>8 DEF PRECISION
  <2> QED BY <2>6, <2>7, <2>9, <2>10, <2>11, <2>12
<1> QED BY <1>3, <1>4

\* A loan sets the transaction out.
LEMMA OperationStarts ==
  ASSUME IndInv, NEW asset \in Tokens, NEW amount \in Amounts, NEW path \in Paths,
         NEW amountIn \in Amounts, ExecuteOperation(asset, amount, path, amountIn)
  PROVE  /\ IndInv'
         /\ w'.reserve = w.reserve /\ w'.token = WETH /\ w'.amounts = <<amountIn>>
         /\ w'.held[asset] = w.held[asset] + amount
         /\ \A x \in Tokens \ {asset} : w'.held[x] = w.held[x]
<1>1. /\ pc = "idle" /\ pc' = "swap" /\ vault[asset] >= amount
      /\ vault' = [vault EXCEPT ![asset] = @ - amount]
      /\ arb' = [pools |-> path, amountIn |-> amountIn]
      /\ loan' = [asset |-> asset, amount |-> amount]
      /\ w' = Contract(asset, w.held[asset] + amount, WETH, <<amountIn>>)
      /\ before' = State
      /\ UNCHANGED <<owed, allowance, wallet, txs, trades>>
  BY DEF ExecuteOperation
<1>2. /\ TypeOK /\ w \in World /\ w.held \in [Tokens -> Nat] /\ vault \in [Tokens -> Nat]
      /\ WethForwarded
  BY DEF IndInv, TypeOK, World
<1>3. amount \in Nat /\ amountIn \in Nat /\ path \in Seq(Pools) /\ WETH \in Tokens
  BY FlashAssumption, PathAssumption, TokenAssumption
<1>4. PICK t \in Routes(path) : t[1] = WETH
  BY PathAssumption DEF Routes
<1>5. w.held[asset] + amount \in Nat /\ <<amountIn>> \in Seq(Nat)
  BY <1>2, <1>3
<1>6. /\ w' \in World /\ w'.reserve = w.reserve /\ w'.token = WETH /\ w'.amounts = <<amountIn>>
      /\ w'.held[asset] = w.held[asset] + amount
      /\ \A x \in Tokens \ {asset} : w'.held[x] = w.held[x]
  <2> DEFINE n == w.held[asset] + amount
             s == <<amountIn>>
             c == Contract(asset, n, WETH, s)
  <2>1. w \in World /\ asset \in Tokens /\ n \in Nat /\ WETH \in Tokens /\ s \in Seq(Nat)
    BY <1>2, <1>3, <1>5
  <2>0. w' = c
    BY <1>1
  <2> HIDE DEF n, s
  <2>2. /\ c \in World /\ c.reserve = w.reserve /\ c.token = WETH /\ c.amounts = s
        /\ c.held[asset] = n /\ \A x \in Tokens \ {asset} : c.held[x] = w.held[x]
    BY ONLY <2>1, ContractWorld DEF c
  <2> HIDE DEF c
  <2> QED BY <2>0, <2>2 DEF n, s
<1>7. before' \in [w : World, allowance : Nat, vault : [Tokens -> Nat], wallet : [Tokens -> Nat]]
  BY <1>1, <1>2 DEF State, TypeOK
<1>8. vault' \in [Tokens -> Nat]
  BY <1>1, <1>2, <1>3
<1>9. Len(w'.amounts) = 1 /\ 1 \in 1 .. Len(arb'.pools) + 1 /\ t \in Routes(arb'.pools)
  <2>1. Len(path) \in Nat /\ arb'.pools = path
    BY <1>1, <1>3
  <2> QED BY <1>4, <1>6, <2>1
<1>10. /\ arb' \in [pools : Paths \cup {<<>>}, amountIn : Amounts \cup {0}]
       /\ loan' \in [asset : Tokens, amount : Amounts \cup {0}]
  BY <1>1
<1>11. TypeOK'
  BY <1>1, <1>2, <1>4, <1>6, <1>7, <1>8, <1>9, <1>10 DEF TypeOK
<1>12. Restorable' /\ WethForwarded' /\ Settled'
  BY <1>1, <1>2 DEF IndInv, TypeOK, WethForwarded, Restorable, Settled, State
<1>13. Elsewhere'
  BY <1>1, <1>2, <1>3, <1>6, <1>9 DEF WethForwarded, Elsewhere
<1> QED BY <1>6, <1>11, <1>12, <1>13 DEF IndInv

\* What others have the callback pay out leaves holdings.
LEMMA CallbackInv == IndInv /\ CallbackByAnyone => IndInv'
<1> SUFFICES ASSUME IndInv, CallbackByAnyone PROVE IndInv'
  OBVIOUS
<1>1. PICK t \in Tokens : \E n \in 1 .. w.held[t] : w' = [w EXCEPT !.held[t] = @ - n]
  BY DEF CallbackByAnyone
<1>2. PICK n \in 1 .. w.held[t] : w' = [w EXCEPT !.held[t] = @ - n]
  BY <1>1
<1>3. /\ TypeOK /\ w \in World /\ w.held \in [Tokens -> Nat] /\ WETH \in Tokens
      /\ pc = "idle" /\ w.held[WETH] = 0
  BY TokenAssumption DEF IndInv, TypeOK, World, WethForwarded, CallbackByAnyone
<1>4. w.held[t] - n \in Nat /\ t # WETH
  BY <1>2, <1>3
<1>5. /\ w' \in World /\ w'.held[WETH] = 0
      /\ w'.token = w.token /\ w'.amounts = w.amounts
  <2>1. /\ [w.held EXCEPT ![t] = w.held[t] - n] \in [Tokens -> Nat]
        /\ [w.held EXCEPT ![t] = w.held[t] - n][WETH] = 0
    BY <1>3, <1>4
  <2>2. w' = [w EXCEPT !.held = [w.held EXCEPT ![t] = w.held[t] - n]]
    BY <1>2, <1>3 DEF World
  <2> QED BY <1>3, <2>1, <2>2 DEF World
<1>6. trades' \in 0 .. MaxTrades
  <2>1. trades \in 0 .. MaxTrades /\ trades < MaxTrades /\ trades' = trades + 1
    BY <1>3 DEF TypeOK, CallbackByAnyone
  <2> QED BY <2>1, FlashAssumption
<1>7. TypeOK'
  BY <1>3, <1>5, <1>6 DEF TypeOK, CallbackByAnyone
<1> QED
  BY <1>3, <1>5, <1>7 DEF IndInv, WethForwarded, Restorable, Settled, Elsewhere, CallbackByAnyone

\* Every step keeps the invariant.
LEMMA NextIndInv == IndInv /\ [Next]_vars => IndInv'
<1> SUFFICES ASSUME IndInv, [Next]_vars PROVE IndInv'
  OBVIOUS
<1>t. /\ TypeOK /\ w \in World /\ arb.pools \in Seq(Pools)
      /\ loan.asset \in Tokens /\ loan.amount \in Nat
  <2>1. TypeOK /\ w \in World
    BY DEF IndInv, TypeOK
  <2>2. /\ arb.pools \in Paths \cup {<<>>}
        /\ loan.asset \in Tokens /\ loan.amount \in Amounts \cup {0}
    BY <2>1 DEF TypeOK
  <2>3. arb.pools \in Seq(Pools)
    <3>1. CASE arb.pools \in Paths
      BY <3>1, PathAssumption
    <3>2. CASE arb.pools = <<>>
      BY <3>2
    <3> QED BY <2>2, <3>1, <3>2
  <2>4. loan.amount \in Nat
    <3>1. Amounts \cup {0} \subseteq Nat
      BY FlashAssumption
    <3> QED BY <2>2, <3>1, Zenon
  <2> QED BY <2>1, <2>2, <2>3, <2>4
<1>r. AmountToRepay \in Nat
  BY <1>t, RepayType DEF AmountToRepay
<1>1. CASE Trade
  <2>1. PICK p \in Pools : \E r \in Reserves[p] : w' = [w EXCEPT !.reserve[p] = Holding(p, r)]
    BY <1>1 DEF Trade
  <2>2. w' \in World /\ w'.held = w.held /\ w'.amounts = w.amounts /\ w'.token = w.token
    <3>1. PICK h \in [Tokens -> Nat] : w' = [w EXCEPT !.reserve[p] = h]
      BY <2>1, HoldingType
    <3> QED BY <1>t, <3>1 DEF World
  <2>3. trades' \in 0 .. MaxTrades
    <3>1. trades \in 0 .. MaxTrades /\ trades < MaxTrades /\ trades' = trades + 1
      BY <1>1, <1>t DEF TypeOK, Trade
    <3>2. MaxTrades \in Nat
      BY FlashAssumption
    <3> QED BY <3>1, <3>2
  <2>4. TypeOK'
    BY <1>1, <1>t, <2>2, <2>3 DEF TypeOK, Trade
  <2> QED
    BY <1>1, <2>2, <2>4 DEF IndInv, WethForwarded, Restorable, Settled, Elsewhere, Trade
<1>2. CASE ExecuteArbitrage \/ LoanByAnyone
  <2>1. PICK asset \in Tokens, amount \in Amounts, path \in Paths, amountIn \in Amounts :
          ExecuteOperation(asset, amount, path, amountIn)
    BY <1>2, TokenAssumption DEF ExecuteArbitrage, LoanByAnyone
  <2> QED BY <2>1, OperationStarts
<1>0. CASE CallbackByAnyone
  BY <1>0, CallbackInv
<1>3. CASE SwapV2Pool
  <2> DEFINE out == V2Output(w, Pool, FactoryFee[Pool])
             v   == Exchange(w, Pool, TokenIn(w, Pool), AmountIn(w), TokenOut(w, Pool), out)
  <2>1. Len(w.amounts) <= Len(arb.pools) /\ pc = "swap"
    BY <1>3 DEF SwapV2Pool, InLoop
  <2>2. /\ Pool \in Pools /\ AmountIn(w) \in Nat
        /\ TokenIn(w, Pool) \in Tokens /\ TokenOut(w, Pool) \in Tokens
        /\ TokenIn(w, Pool) # TokenOut(w, Pool)
    BY <1>t, <2>1, InLoopFacts
  <2>3. V2Succeeds(w, Pool, FactoryFee[Pool])
    BY <1>3 DEF SwapV2Pool
  <2>4. /\ w.reserve[Pool][TokenIn(w, Pool)] \in Nat
        /\ w.reserve[Pool][TokenOut(w, Pool)] \in Nat
        /\ FactoryFee[Pool] \in Nat
    BY <1>t, <2>2, FlashAssumption DEF World
  <2>5. out \in 0 .. w.reserve[Pool][TokenOut(w, Pool)]
    BY <2>2, <2>3, <2>4, OutputBound DEF V2Succeeds, V2Output
  <2>6. AmountIn(w) <= w.held[TokenIn(w, Pool)]
    BY <1>t, <2>2, <2>3 DEF V2Succeeds, World
  <2>7. v \in World /\ v.token = w.token /\ v.amounts = w.amounts
    BY <1>t, <2>2, <2>5, <2>6, ExchangeWorld
  <2>8. w' = Onward(v, Pool, out) /\ owed' \in [in : Nat, out : Nat]
    BY <1>3, <1>t DEF SwapV2Pool, SwapV2, TypeOK
  <2> HIDE DEF v, out
  <2> QED BY <1>3, <2>1, <2>5, <2>7, <2>8, NoWethNoSwap, Advances DEF SwapV2Pool
<1>4. CASE SwapV3Pool
  <2>1. Len(w.amounts) <= Len(arb.pools) /\ pc = "swap" /\ AmountIn(w) > 0
    BY <1>4 DEF SwapV3Pool, InLoop, V3Starts
  <2>2. /\ Pool \in Pools /\ AmountIn(w) \in Nat
        /\ TokenIn(w, Pool) \in Tokens /\ TokenOut(w, Pool) \in Tokens
        /\ TokenIn(w, Pool) # TokenOut(w, Pool)
    BY <1>t, <2>1, InLoopFacts
  <2>3. V3Input(w, Pool) \in Nat \ {0} /\ PRECISION - PoolFee[Pool] \in Nat \ {0}
    <3>1. Depth[Pool] \in Nat \ {0} /\ PoolFee[Pool] \in 0 .. PRECISION - 1
      BY <2>2, SwapAssumption
    <3>2. AmountIn(w) \in Nat \ {0}
      BY <2>1, <2>2
    <3>3. V3Input(w, Pool) \in {AmountIn(w), Depth[Pool]}
      BY DEF V3Input
    <3>4. V3Input(w, Pool) \in Nat \ {0}
      BY <3>1, <3>2, <3>3
    <3>5. \A f \in 0 .. PRECISION - 1 : PRECISION - f \in Nat \ {0}
      BY DEF PRECISION
    <3> QED BY <3>1, <3>4, <3>5
  <2>4. V3Input(w, Pool) * (PRECISION - PoolFee[Pool]) > 0
    BY <2>3, SMT
  <2>5. /\ w.reserve[Pool][TokenIn(w, Pool)] \in Nat
        /\ w.reserve[Pool][TokenOut(w, Pool)] \in Nat /\ w.held[TokenIn(w, Pool)] \in Nat
    BY <1>t, <2>2 DEF World
  <2>6. V3Output(w, Pool) \in 0 .. w.reserve[Pool][TokenOut(w, Pool)]
    BY <2>3, <2>4, <2>5, OutputBound DEF V3Output
  <2>7. w' \in World /\ w'.token = w.token /\ w'.amounts = w.amounts
    BY <1>4, <1>t, <2>2, <2>5, <2>6, ExchangeWorld DEF SwapV3Pool, V3Sends
  <2>8. owed' \in [in : Nat, out : Nat]
    BY <1>4, <2>3, <2>6 DEF SwapV3Pool
  <2>9. TypeOK'
    BY <1>4, <1>t, <2>1, <2>7, <2>8 DEF TypeOK, SwapV3Pool
  <2>10. Elsewhere'
    <3> SUFFICES ASSUME loan.asset # WETH
                 PROVE  w'.held[WETH] = 0 /\ w'.token = WETH /\ Len(w'.amounts) = 1 /\ owed'.in > 0
      BY <1>4 DEF Elsewhere, SwapV3Pool
    <3>1. w.held[WETH] = 0 /\ w.token = WETH /\ Len(w.amounts) = 1
      BY <2>1 DEF IndInv, Elsewhere
    <3>2. TokenIn(w, Pool) = WETH /\ w.held \in [Tokens -> Nat]
      BY <1>t, <2>1, <3>1, InLoopFacts DEF World
    <3>3. w'.held = Moved(w.held, TokenOut(w, Pool), V3Output(w, Pool), TokenIn(w, Pool), 0)
      BY <1>4 DEF SwapV3Pool, V3Sends, Exchange
    <3>4. w'.held[WETH] = 0
      BY <2>2, <3>1, <3>2, <3>3 DEF Moved
    <3>5. owed'.in = V3Input(w, Pool)
      BY <1>4 DEF SwapV3Pool
    <3> QED BY <2>3, <2>7, <3>1, <3>4, <3>5
  <2> QED
    BY <1>4, <2>1, <2>9, <2>10 DEF IndInv, WethForwarded, Restorable, Settled, SwapV3Pool
<1>5. CASE UniswapV3SwapCallback
  <2> DEFINE v == Callback(w, Pool, owed.in)
  <2>1. Len(w.amounts) <= Len(arb.pools) /\ pc = "callback" /\ owed.in \in Nat /\ owed.out \in Nat
    BY <1>5, <1>t DEF UniswapV3SwapCallback, TypeOK
  <2>2. /\ Pool \in Pools /\ TokenIn(w, Pool) = w.token
        /\ TokenIn(w, Pool) \in Tokens /\ TokenOut(w, Pool) \in Tokens
        /\ TokenIn(w, Pool) # TokenOut(w, Pool)
    BY <1>t, <2>1, InLoopFacts
  <2>3. w.reserve[Pool][TokenOut(w, Pool)] \in Nat /\ w.held[w.token] \in Nat
    BY <1>t, <2>2 DEF World
  <2>4. owed.in <= w.held[TokenIn(w, Pool)]
    BY <1>5, <2>1, <2>2, <2>3 DEF UniswapV3SwapCallback, CallbackSucceeds
  <2>5. v \in World /\ v.token = w.token /\ v.amounts = w.amounts
    BY <1>t, <2>1, <2>2, <2>3, <2>4, ExchangeWorld DEF Callback
  <2>6. w' = Onward(v, Pool, owed.out) /\ owed' \in [in : Nat, out : Nat]
    BY <1>5 DEF UniswapV3SwapCallback, NoDebt
  <2> HIDE DEF v
  <2> QED BY <1>5, <2>1, <2>5, <2>6, NoWethNoSwap, Advances DEF UniswapV3SwapCallback
<1>6. CASE RepayFromBalance
  <2>1. /\ w' \in World /\ w'.amounts = w.amounts /\ w'.token = w.token
        /\ w'.held[loan.asset] = AmountToRepay
        /\ \A x \in Tokens \ {loan.asset} : w'.held[x] = w.held[x]
    <3>1. w' = Contract(loan.asset, AmountToRepay, w.token, w.amounts)
      BY <1>6 DEF RepayFromBalance
    <3>2. w.token \in Tokens /\ w.amounts \in Seq(Nat)
      BY <1>t DEF World
    <3> QED BY <1>t, <1>r, <3>1, <3>2, ContractWorld
  <2>2. wallet' \in [Tokens -> Nat]
    <3>1. w.held[loan.asset] \in Nat /\ wallet \in [Tokens -> Nat]
      BY <1>t DEF World, TypeOK
    <3>2. w.held[loan.asset] - AmountToRepay \in Nat
      BY <1>6, <1>r, <3>1 DEF RepayFromBalance, Balance
    <3> QED BY <1>6, <1>t, <3>1, <3>2 DEF RepayFromBalance, Balance
  <2>3. TypeOK'
    BY <1>6, <1>t, <1>r, <2>1, <2>2 DEF TypeOK, RepayFromBalance, LoopOver
  <2>4. Elsewhere'
    BY <1>6, <2>1, TokenAssumption DEF IndInv, Elsewhere, RepayFromBalance, LoopOver
  <2>5. AmountToRepay' = AmountToRepay /\ Balance' = AmountToRepay
    BY <1>6, <2>1 DEF RepayFromBalance, AmountToRepay, Balance
  <2> QED
    BY <1>6, <2>3, <2>4, <2>5 DEF IndInv, WethForwarded, Restorable, Settled, RepayFromBalance
<1>7. CASE Collect
  <2>1. Balance = AmountToRepay /\ allowance = AmountToRepay /\ pc = "collect"
    BY <1>7 DEF Collect, IndInv, Settled
  <2>2. /\ w' \in World /\ w'.amounts = <<>> /\ w'.token = WETH /\ w'.held[loan.asset] = 0
        /\ \A x \in Tokens \ {loan.asset} : w'.held[x] = w.held[x]
    <3>1. AmountToRepay - AmountToRepay = 0
      <4>1. \A n \in Nat : n - n = 0
        OBVIOUS
      <4> QED BY <1>r, <4>1, Zenon
    <3> DEFINE n == 0
               s == <<>>
    <3>2. n = 0 /\ s = <<>>
      OBVIOUS
    <3>3. w \in World /\ loan.asset \in Tokens /\ n \in Nat /\ WETH \in Tokens /\ s \in Seq(Nat)
      BY <1>t, TokenAssumption
    <3> HIDE DEF n, s
    <3>4. w' = Contract(loan.asset, n, WETH, s)
      BY <1>7, <2>1, <3>1, <3>2 DEF Collect
    <3> DEFINE c == Contract(loan.asset, n, WETH, s)
    <3>5. /\ c \in World /\ c.token = WETH /\ c.amounts = s /\ c.held[loan.asset] = n
          /\ \A x \in Tokens \ {loan.asset} : c.held[x] = w.held[x]
      BY ONLY <3>3, ContractWorld DEF c
    <3> HIDE DEF c
    <3>6. w' = c
      BY <3>4 DEF c
    <3> QED BY <3>2, <3>5, <3>6
  <2>3. w'.held[WETH] = 0
    BY <2>1, <2>2, TokenAssumption DEF IndInv, Elsewhere
  <2>4. allowance' = 0 /\ vault' \in [Tokens -> Nat]
    BY <1>7, <1>t, <1>r, <2>1 DEF Collect, TypeOK
  <2>5. TypeOK'
    <3>1. txs' \in Seq(BOOLEAN)
      BY <1>7, <1>t DEF TypeOK, Collect
    <3>2. pc' = "idle" /\ UNCHANGED <<arb, loan, owed, wallet, before, trades>>
      BY <1>7 DEF Collect
    <3> QED BY <1>t, <2>2, <2>4, <3>1, <3>2 DEF TypeOK
  <2> QED
    BY <1>7, <2>3, <2>4, <2>5
       DEF IndInv, WethForwarded, Restorable, Settled, Elsewhere, Collect
<1>8. CASE Revert
  <2>1. before.w \in World /\ before.w.amounts = <<>> /\ before.w.token = WETH
    BY <1>t DEF IndInv, TypeOK, Restorable
  <2>2. TypeOK'
    BY <1>8, <1>t, <2>1 DEF TypeOK, Revert, NoDebt
  <2> QED BY <1>8, <2>2 DEF IndInv, WethForwarded, Restorable, Settled, Elsewhere, Revert
<1>9. CASE UNCHANGED vars
  <2>1. TypeOK'
    BY <1>9, <1>t DEF TypeOK, vars
  <2> QED
    BY <1>9, <2>1
       DEF vars, IndInv, WethForwarded, Restorable, Settled, Elsewhere, AmountToRepay, Balance
<1> QED
  BY <1>0, <1>1, <1>2, <1>3, <1>4, <1>5, <1>6, <1>7, <1>8, <1>9 DEF Next

\* The type invariant: no call of the transaction leaves a token in a negative amount,
\* and the swaps follow a route from WETH to WETH.
THEOREM TypeCorrect == Spec => []TypeOK
<1>1. IndInv => TypeOK
  BY DEF IndInv
<1> QED BY <1>1, InitIndInv, NextIndInv, PTL DEF Spec

\* Between transactions the contract keeps neither WETH nor a debt it has approved,
\* whatever the pools, the path, the loan and the trades in between were.
THEOREM NothingKept == Spec => []WethForwarded
<1>1. IndInv => WethForwarded
  BY DEF IndInv
<1> QED BY <1>1, InitIndInv, NextIndInv, PTL DEF Spec


(***************************************************************************)
(* What earlier transactions left in the contract stays there.             *)
(***************************************************************************)

\* What an exchange does to the contract's tokens.
LEMMA ExchangeHeld ==
  ASSUME NEW v \in World, NEW p \in Pools, NEW t \in Tokens, NEW u \in Tokens, t # u,
         NEW a \in Nat, NEW o \in Nat
  PROVE  /\ Exchange(v, p, t, a, u, o).held[t] = v.held[t] - a
         /\ Exchange(v, p, t, a, u, o).held[u] = v.held[u] + o
         /\ \A x \in Tokens \ {t, u} : Exchange(v, p, t, a, u, o).held[x] = v.held[x]
<1>1. v.held \in [Tokens -> Nat]
  BY DEF World
<1>2. Exchange(v, p, t, a, u, o).held = Moved(v.held, u, o, t, a)
  BY DEF Exchange
<1> QED BY <1>1, <1>2 DEF Moved

\* What a round does to the loop, and that it leaves the tokens alone.
LEMMA OnwardGives ==
  ASSUME NEW v \in World, NEW p \in Pools, NEW o \in Nat
  PROVE  /\ Onward(v, p, o).held = v.held /\ Onward(v, p, o).token = TokenOut(v, p)
         /\ AmountIn(Onward(v, p, o)) = o
<1>1. Append(v.amounts, o)[Len(Append(v.amounts, o))] = o
  BY DEF World
<1> QED BY <1>1 DEF Onward, AmountIn

\* Every step keeps what a transaction on a loan of WETH found, and it ends with it.
LEMMA KeptStep ==
  IndInv /\ Kept /\ [Next]_vars
    => /\ Kept'
       /\ Len(txs') > Len(txs) /\ loan.asset = WETH
            => \A t \in Tokens \ {WETH} : w'.held[t] >= before.w.held[t]
<1> SUFFICES ASSUME IndInv, Kept, [Next]_vars
             PROVE  /\ Kept'
                    /\ Len(txs') > Len(txs) /\ loan.asset = WETH
                         => \A t \in Tokens \ {WETH} : w'.held[t] >= before.w.held[t]
  OBVIOUS
<1>t. /\ TypeOK /\ w \in World /\ w.held \in [Tokens -> Nat]
      /\ before.w \in World /\ before.w.held \in [Tokens -> Nat]
      /\ Len(txs) \in Nat /\ WETH \in Tokens
  <2>1. TypeOK
    BY DEF IndInv
  <2>2. w \in World /\ before.w \in World /\ Len(txs) \in Nat
    BY <2>1 DEF TypeOK
  <2> QED BY <2>1, <2>2, TokenAssumption DEF World
<1>u. txs' = txs => ~(Len(txs') > Len(txs))
  BY <1>t
<1>w. \A n, t, s : /\ Contract(WETH, n, t, s).token = t
                   /\ \A x \in Tokens \ {WETH} : Contract(WETH, n, t, s).held[x] = w.held[x]
  BY <1>t DEF Contract
<1>0. CASE loan.asset # WETH /\ loan' = loan
  BY <1>0 DEF Kept
<1>1. CASE Trade \/ CallbackByAnyone
  BY <1>1, <1>u DEF Trade, CallbackByAnyone, Kept
<1>2. CASE ExecuteArbitrage \/ LoanByAnyone
  <2>1. PICK asset \in Tokens, amount \in Amounts, path \in Paths, amountIn \in Amounts :
          ExecuteOperation(asset, amount, path, amountIn)
    BY <1>2, <1>t DEF ExecuteArbitrage, LoanByAnyone
  <2>2. /\ pc' = "swap" /\ before'.w = w /\ txs' = txs
        /\ loan' = [asset |-> asset, amount |-> amount]
    BY <2>1 DEF ExecuteOperation, State
  <2>3. w'.token = WETH /\ \A x \in Tokens \ {asset} : w'.held[x] = w.held[x]
    BY <2>1, OperationStarts
  <2>4. ASSUME asset = WETH, NEW x \in Tokens \ {WETH}
        PROVE  w'.held[x] >= before'.w.held[x] + InHand(x)'
    <3>1. w'.held[x] = w.held[x] /\ x # w'.token /\ w.held[x] \in Nat
      BY <1>t, <2>3, <2>4
    <3>2. InHand(x)' = 0
      BY <2>2, <3>1 DEF InHand
    <3> QED BY <2>2, <3>1, <3>2
  <2> QED BY <1>u, <2>2, <2>4 DEF Kept
<1>3. CASE loan.asset = WETH /\ SwapV2Pool
  <2> DEFINE t == TokenIn(w, Pool)
             u == TokenOut(w, Pool)
             a == AmountIn(w)
             o == V2Output(w, Pool, FactoryFee[Pool])
             v == Exchange(w, Pool, t, a, u, o)
  <2>1. Len(w.amounts) <= Len(arb.pools) /\ pc = "swap"
    BY <1>3 DEF SwapV2Pool, InLoop
  <2>2. Pool \in Pools /\ a \in Nat /\ t = w.token /\ t \in Tokens /\ u \in Tokens /\ t # u
    BY <1>t, <2>1, InLoopFacts
  <2>3. o \in 0 .. w.reserve[Pool][u] /\ w.reserve[Pool][u] \in Nat /\ a <= w.held[t]
    <3>1. V2Succeeds(w, Pool, FactoryFee[Pool])
      BY <1>3 DEF SwapV2Pool
    <3>2. /\ w.reserve[Pool][t] \in Nat /\ w.reserve[Pool][u] \in Nat
          /\ FactoryFee[Pool] \in Nat /\ w.held[t] \in Nat
      BY <1>t, <2>2, FlashAssumption DEF World
    <3>3. o \in 0 .. w.reserve[Pool][u]
      BY <2>2, <3>1, <3>2, OutputBound DEF V2Succeeds, V2Output
    <3>4. a <= w.held[t]
      BY <2>2, <3>1, <3>2 DEF V2Succeeds
    <3> QED BY <3>2, <3>3, <3>4
  <2> HIDE DEF o
  <2>4. o \in Nat /\ v \in World /\ v.token = w.token
    <3> HIDE DEF t, u, a
    <3>1. w \in World /\ o \in Nat /\ o <= w.reserve[Pool][u]
      BY <1>t, <2>3
    <3> QED BY ONLY <3>1, <2>2, <2>3, ExchangeWorld DEF v
  <2>5. /\ v.held[t] = w.held[t] - a /\ v.held[u] = w.held[u] + o
        /\ \A x \in Tokens \ {t, u} : v.held[x] = w.held[x]
    <3> HIDE DEF t, u, a
    <3>1. w \in World /\ o \in Nat
      BY <1>t, <2>4
    <3> QED BY ONLY <3>1, <2>2, ExchangeHeld DEF v
  <2>6. w' = Onward(v, Pool, o) /\ pc' = pc /\ before' = before /\ txs' = txs
    BY <1>3 DEF SwapV2Pool, SwapV2, o
  <2> HIDE DEF v
  <2>7. w'.held = v.held /\ w'.token = u /\ AmountIn(w') = o
    <3>1. TokenOut(v, Pool) = u
      BY <2>4 DEF TokenOut, ZeroForOne
    <3> QED BY <2>2, <2>4, <2>6, <3>1, OnwardGives
  <2> HIDE DEF t, u, a
  <2>8. ASSUME NEW x \in Tokens \ {WETH} PROVE w'.held[x] >= before'.w.held[x] + InHand(x)'
    <3>1. w.held[x] >= before.w.held[x] + (IF x = t THEN a ELSE 0)
      <4>1. w.held[x] >= before.w.held[x] + InHand(x)
        BY <1>3, <2>1, <2>8 DEF Kept
      <4>2. InHand(x) = IF x = t THEN a ELSE 0
        BY <2>1, <2>2 DEF InHand, a
      <4> QED BY <4>1, <4>2
    <3>2. v.held[x] >= before.w.held[x] + (IF x = u THEN o ELSE 0)
      <4>1. w.held[x] \in Nat /\ before.w.held[x] \in Nat /\ a \in Nat /\ o \in Nat
        BY <1>t, <2>2, <2>4, <2>8
      <4>2. CASE x = t
        BY <2>2, <2>5, <3>1, <4>1, <4>2
      <4>3. CASE x = u
        BY <2>2, <2>5, <3>1, <4>1, <4>3
      <4>4. CASE x \notin {t, u}
        BY <2>5, <2>8, <3>1, <4>1, <4>4
      <4> QED BY <4>2, <4>3, <4>4
    <3>3. InHand(x)' = IF x = u THEN o ELSE 0
      BY <2>1, <2>6, <2>7 DEF InHand
    <3> QED BY <2>6, <2>7, <3>2, <3>3
  <2> QED BY <1>u, <2>6, <2>8 DEF Kept
<1>4. CASE loan.asset = WETH /\ SwapV3Pool
  <2> DEFINE t == TokenIn(w, Pool)
             u == TokenOut(w, Pool)
             a == V3Input(w, Pool)
             o == V3Output(w, Pool)
             v == Exchange(w, Pool, t, 0, u, o)
  <2>1. Len(w.amounts) <= Len(arb.pools) /\ pc = "swap"
    BY <1>4 DEF SwapV3Pool, InLoop
  <2>2. Pool \in Pools /\ t = w.token /\ t \in Tokens /\ u \in Tokens /\ t # u
    BY <1>t, <2>1, InLoopFacts
  <2>3. /\ w' = v /\ pc' = "callback" /\ before' = before /\ txs' = txs /\ arb' = arb
        /\ owed' = [in |-> a, out |-> o]
    BY <1>4 DEF SwapV3Pool, V3Sends
  <2>4. owed' \in [in : Nat, out : Nat]
    BY NextIndInv DEF IndInv, TypeOK
  <2>5. a \in Nat /\ o \in Nat /\ a <= AmountIn(w)
    <3>1. a \in Nat /\ o \in Nat
      BY <2>3, <2>4
    <3>2. AmountIn(w) \in Nat /\ Depth[Pool] \in Nat
      BY <1>t, <2>1, <2>2, InLoopFacts, SwapAssumption
    <3> QED BY <3>1, <3>2 DEF V3Input
  <2> HIDE DEF a, o
  <2>6. v.held[u] = w.held[u] + o /\ \A x \in Tokens \ {u} : v.held[x] = w.held[x]
    <3>1. /\ v.held[t] = w.held[t] - 0 /\ v.held[u] = w.held[u] + o
          /\ \A x \in Tokens \ {t, u} : v.held[x] = w.held[x]
      <4> HIDE DEF t, u
      <4>1. w \in World
        BY <1>t
      <4> QED BY ONLY <4>1, <2>2, <2>5, ExchangeHeld DEF v
    <3>2. w.held[t] - 0 = w.held[t]
      BY <1>t, <2>2
    <3> QED BY <3>1, <3>2
  <2>7. w'.token = t /\ TokenOut(w, Pool)' = u
    <3>1. v.token = w.token /\ v.amounts = w.amounts
      BY DEF Exchange
    <3>2. Pool' = Pool
      BY <2>3, <3>1 DEF Pool
    <3> QED BY <2>2, <2>3, <3>1, <3>2 DEF TokenOut, ZeroForOne
  <2> HIDE DEF v, t, u
  <2>8. ASSUME NEW x \in Tokens \ {WETH} PROVE w'.held[x] >= before'.w.held[x] + InHand(x)'
    <3>1. w.held[x] >= before.w.held[x] + (IF x = t THEN AmountIn(w) ELSE 0)
      <4>1. w.held[x] >= before.w.held[x] + InHand(x)
        BY <1>4, <2>1, <2>8 DEF Kept
      <4>2. InHand(x) = IF x = t THEN AmountIn(w) ELSE 0
        BY <2>1, <2>2 DEF InHand
      <4> QED BY <4>1, <4>2
    <3>2. InHand(x)' = IF x = t THEN a ELSE IF x = u THEN o ELSE 0
      BY <2>3, <2>7 DEF InHand
    <3>3. v.held[x] >= before.w.held[x] + (IF x = t THEN a ELSE IF x = u THEN o ELSE 0)
      <4>1. w.held[x] \in Nat /\ before.w.held[x] \in Nat /\ AmountIn(w) \in Nat
        BY <1>t, <2>1, <2>8, InLoopFacts
      <4>2. CASE x = t
        BY <2>2, <2>5, <2>6, <3>1, <4>1, <4>2
      <4>3. CASE x = u
        BY <2>2, <2>5, <2>6, <3>1, <4>1, <4>3
      <4>4. CASE x \notin {t, u}
        BY <2>6, <2>8, <3>1, <4>1, <4>4
      <4> QED BY <4>2, <4>3, <4>4
    <3> QED BY <2>3, <3>2, <3>3
  <2> QED BY <1>u, <2>3, <2>8 DEF Kept
<1>5. CASE loan.asset = WETH /\ UniswapV3SwapCallback
  <2> DEFINE t == TokenIn(w, Pool)
             u == TokenOut(w, Pool)
             a == owed.in
             o == owed.out
             v == Exchange(w, Pool, t, a, u, 0)
  <2>1. Len(w.amounts) <= Len(arb.pools) /\ pc = "callback" /\ a \in Nat /\ o \in Nat
    BY <1>5, <1>t DEF UniswapV3SwapCallback, TypeOK
  <2>2. Pool \in Pools /\ t = w.token /\ t \in Tokens /\ u \in Tokens /\ t # u
    BY <1>t, <2>1, InLoopFacts
  <2>3. a <= w.held[t] /\ w.held[t] \in Nat /\ w.reserve[Pool][u] \in Nat
    <3>1. w.held[w.token] \in Nat /\ w.held[w.token] >= a /\ w.reserve[Pool][u] \in Nat
      BY <1>5, <1>t, <2>2 DEF UniswapV3SwapCallback, CallbackSucceeds, World
    <3> QED BY <2>1, <2>2, <3>1
  <2>4. v \in World /\ v.token = w.token
    <3>1. w \in World /\ a \in Nat
      BY <1>t, <2>1
    <3> DEFINE n == 0
    <3>2. n \in Nat /\ n = 0 /\ n <= w.reserve[Pool][u]
      BY <2>3
    <3> HIDE DEF n, t, u, a
    <3>3. /\ Exchange(w, Pool, t, a, u, n) \in World
          /\ Exchange(w, Pool, t, a, u, n).token = w.token
      BY ONLY <3>1, <3>2, <2>2, <2>3, ExchangeWorld
    <3> QED BY <3>2, <3>3 DEF v
  <2>5. /\ v.held[t] = w.held[t] - a /\ v.held[u] = w.held[u] + 0
        /\ \A x \in Tokens \ {t, u} : v.held[x] = w.held[x]
    <3> HIDE DEF t, u, a
    <3>1. w \in World /\ a \in Nat /\ 0 \in Nat
      BY <1>t, <2>1
    <3> DEFINE n == 0
    <3>2. n \in Nat /\ n = 0
      OBVIOUS
    <3> HIDE DEF n
    <3>3. /\ Exchange(w, Pool, t, a, u, n).held[t] = w.held[t] - a
          /\ Exchange(w, Pool, t, a, u, n).held[u] = w.held[u] + n
          /\ \A x \in Tokens \ {t, u} : Exchange(w, Pool, t, a, u, n).held[x] = w.held[x]
      BY ONLY <3>1, <3>2, <2>2, ExchangeHeld
    <3> QED BY <3>2, <3>3 DEF v
  <2>6. w' = Onward(v, Pool, o) /\ pc' = "swap" /\ before' = before /\ txs' = txs
    BY <1>5 DEF UniswapV3SwapCallback, Callback
  <2> HIDE DEF v
  <2>7. w'.held = v.held /\ w'.token = u /\ AmountIn(w') = o
    <3>1. TokenOut(v, Pool) = u
      BY <2>4 DEF TokenOut, ZeroForOne
    <3> QED BY <2>1, <2>2, <2>4, <2>6, <3>1, OnwardGives
  <2>8. ASSUME NEW x \in Tokens \ {WETH} PROVE w'.held[x] >= before'.w.held[x] + InHand(x)'
    <3>1. w.held[x] >= before.w.held[x] + (IF x = t THEN a ELSE IF x = u THEN o ELSE 0)
      <4>1. w.held[x] >= before.w.held[x] + InHand(x)
        BY <1>5, <2>1, <2>8 DEF Kept
      <4>2. InHand(x) = IF x = t THEN a ELSE IF x = u THEN o ELSE 0
        BY <2>1, <2>2 DEF InHand
      <4> QED BY <4>1, <4>2
    <3> HIDE DEF t, u, a, o
    <3>2. v.held[x] >= before.w.held[x] + (IF x = u THEN o ELSE 0)
      <4>1. w.held[x] \in Nat /\ before.w.held[x] \in Nat
        BY <1>t, <2>8
      <4>2. CASE x = t
        BY <2>1, <2>2, <2>5, <3>1, <4>1, <4>2
      <4>3. CASE x = u
        BY <2>1, <2>2, <2>5, <3>1, <4>1, <4>3
      <4>4. CASE x \notin {t, u}
        BY <2>5, <2>8, <3>1, <4>1, <4>4
      <4> QED BY <4>2, <4>3, <4>4
    <3>3. InHand(x)' = IF x = u THEN o ELSE 0
      BY <2>6, <2>7 DEF InHand
    <3> QED BY <2>6, <2>7, <3>2, <3>3
  <2> QED BY <1>u, <2>6, <2>8 DEF Kept
<1>6. CASE loan.asset = WETH /\ RepayFromBalance
  <2>1. pc = "swap" /\ pc' = "collect" /\ before' = before /\ txs' = txs
    BY <1>6 DEF RepayFromBalance, LoopOver
  <2>2. ASSUME NEW x \in Tokens \ {WETH} PROVE w'.held[x] >= before'.w.held[x] + InHand(x)'
    <3>1. w'.held[x] = w.held[x]
      BY <1>6, <1>w, <2>2 DEF RepayFromBalance
    <3>2. InHand(x)' = 0
      BY <2>1 DEF InHand
    <3>3. w.held[x] >= before.w.held[x] + InHand(x)
      BY <1>6, <2>1, <2>2 DEF Kept
    <3>4. InHand(x) = 0
      <4>1. Len(w.amounts) = Len(arb.pools) + 1
        <5>1. Len(w.amounts) > Len(arb.pools)
          BY <1>6 DEF RepayFromBalance, LoopOver
        <5>2. Len(w.amounts) \in 1 .. Len(arb.pools) + 1
          BY <1>t, <2>1 DEF TypeOK
        <5> QED BY <5>1, <5>2
      <4>2. w.token = WETH
        BY <1>t, <2>1, <4>1 DEF TypeOK, Routes
      <4> QED BY <2>1, <2>2, <4>2 DEF InHand
    <3> QED BY <2>1, <3>1, <3>2, <3>3, <3>4
  <2> QED BY <1>u, <2>1, <2>2 DEF Kept
<1>7. CASE loan.asset = WETH /\ Collect
  <2>1. pc = "collect" /\ pc' = "idle"
    BY <1>7 DEF Collect
  <2>2. ASSUME NEW x \in Tokens \ {WETH} PROVE w'.held[x] >= before.w.held[x]
    <3>1. w'.held[x] = w.held[x]
      BY <1>7, <1>w, <2>2 DEF Collect
    <3>2. w.held[x] >= before.w.held[x] + InHand(x) /\ InHand(x) = 0
      BY <1>7, <2>1, <2>2 DEF Kept, InHand
    <3> QED BY <1>t, <2>2, <3>1, <3>2
  <2> QED BY <1>7, <2>1, <2>2 DEF Kept
<1>8. CASE loan.asset = WETH /\ Revert
  <2>1. pc' = "idle" /\ w' = before.w
    BY <1>8 DEF Revert
  <2>2. \A x \in Tokens : before.w.held[x] >= before.w.held[x]
    BY <1>t
  <2> QED BY <2>1, <2>2 DEF Kept
<1>f. SwapV2Pool \/ SwapV3Pool \/ UniswapV3SwapCallback \/ RepayFromBalance \/ Collect \/ Revert
        => loan' = loan
  BY DEF SwapV2Pool, SwapV3Pool, UniswapV3SwapCallback, RepayFromBalance, Collect, Revert
<1>9. CASE UNCHANGED vars
  <2>1. txs' = txs /\ Kept'
    BY <1>9 DEF vars, Kept, InHand, Pool
  <2> QED BY <1>u, <2>1
<1> QED
  BY <1>0, <1>1, <1>2, <1>3, <1>4, <1>5, <1>6, <1>7, <1>8, <1>9, <1>f DEF Next

\* What a transaction on a loan of WETH finds of any other token is still there when it
\* has ended, whether or not it succeeded: executeArbitrage's own, or one on a loan that
\* somebody else took out.
THEOREM LeftAlone == Spec => NoTokenSpent
<1>1. Init => Kept
  BY DEF Init, Kept
<1>2. IndInv /\ Kept /\ [Next]_vars
        => [Len(txs') > Len(txs) /\ loan.asset = WETH
              => \A t \in Tokens \ {WETH} : w'.held[t] >= before.w.held[t]]_vars
  BY KeptStep
<1> QED BY <1>1, <1>2, InitIndInv, NextIndInv, KeptStep, PTL DEF Spec, NoTokenSpent


(***************************************************************************)
(* What the quoter promises, the transaction keeps.                        *)
(***************************************************************************)

\* A nonempty set of natural numbers has a least element.
LEMMA NatMin ==
  ASSUME NEW T \in SUBSET Nat, T # {}
  PROVE  \E x \in T : \A y \in T : x <= y
<1> DEFINE R == {ss \in Nat \X Nat : ss[1] < ss[2]}
<1>1. PICK x \in T : \A y \in T : ~ (<<y, x>> \in R)
  <2>1. IsWellFoundedOn(R, Nat)
    BY NatLessThanWellFounded DEF OpToRel
  <2> HIDE DEF R
  <2> QED BY <2>1, WFMin
<1>2. ASSUME NEW y \in T PROVE x <= y
  <2>1. <<y, x>> \in Nat \X Nat
    OBVIOUS
  <2> QED BY <1>1, <2>1
<1> QED BY <1>2

\* f tells where the quoter's loop is after each of its first m rounds.
RunTo(reserve, path, amount, m, f) ==
  f = [n \in 0 .. m |-> IF n = 0 THEN {QuoteStart(reserve, amount)}
                                 ELSE UNION {QuoteStep(v, path[n]) : v \in f[n - 1]}]

\* There is such a table for any number of rounds.
LEMMA RunExists ==
  ASSUME NEW reserve, NEW path, NEW amount
  PROVE  \A m \in Nat : \E f : RunTo(reserve, path, amount, m, f)
<1> DEFINE T == {m \in Nat : ~ \E f : RunTo(reserve, path, amount, m, f)}
<1>1. SUFFICES ASSUME T # {} PROVE FALSE
  OBVIOUS
<1>2. PICK x \in T : \A y \in T : x <= y
  <2>1. T \in SUBSET Nat
    OBVIOUS
  <2> HIDE DEF T
  <2> QED BY <1>1, <2>1, NatMin
<1>3. x # 0
  <2> DEFINE g == [n \in 0 .. 0 |-> {QuoteStart(reserve, amount)}]
  <2>1. RunTo(reserve, path, amount, 0, g)
    BY DEF RunTo
  <2> HIDE DEF g
  <2> QED BY <1>2, <2>1
<1>4. x - 1 \in Nat /\ ~ (x <= x - 1) /\ x \in Nat
  BY <1>2, <1>3
<1>5. PICK f : RunTo(reserve, path, amount, x - 1, f)
  BY <1>2, <1>4
<1> DEFINE g == [n \in 0 .. x |-> IF n = x THEN UNION {QuoteStep(v, path[x]) : v \in f[x - 1]}
                                          ELSE f[n]]
<1>6. RunTo(reserve, path, amount, x, g)
  <2>1. ASSUME NEW n \in 0 .. x
        PROVE  g[n] = IF n = 0 THEN {QuoteStart(reserve, amount)}
                               ELSE UNION {QuoteStep(v, path[n]) : v \in g[n - 1]}
    <3>1. CASE n = 0
      <4>1. n \in 0 .. x - 1 /\ g[n] = f[n]
        BY <1>3, <1>4, <3>1
      <4> QED BY <1>5, <3>1, <4>1 DEF RunTo
    <3>2. CASE n # 0
      <4>1. n - 1 \in 0 .. x /\ g[n - 1] = f[n - 1]
        BY <1>4, <3>2
      <4>2. CASE n = x
        BY <1>4, <3>2, <4>1, <4>2
      <4>3. CASE n # x
        <5>1. n \in 0 .. x - 1 /\ g[n] = f[n]
          BY <1>4, <4>3
        <5>2. f[n] = UNION {QuoteStep(v, path[n]) : v \in f[n - 1]}
          BY <1>5, <3>2, <5>1 DEF RunTo
        <5> HIDE DEF g
        <5> QED BY <3>2, <4>1, <5>1, <5>2
      <4> QED BY <4>2, <4>3
    <3> QED BY <3>1, <3>2
  <2>2. g = [n \in 0 .. x |-> g[n]]
    OBVIOUS
  <2> HIDE DEF g
  <2> QED BY <2>1, <2>2 DEF RunTo
<1> QED BY <1>2, <1>6

\* The quoter's loop goes from round to round.
LEMMA RunSteps ==
  ASSUME NEW reserve, NEW path \in Seq(Pools), NEW amount
  PROVE  /\ QuoteRun(reserve, path, amount)[0] = {QuoteStart(reserve, amount)}
         /\ \A n \in 1 .. Len(path) : \A y :
              y \in QuoteRun(reserve, path, amount)[n] <=>
                \E v \in QuoteRun(reserve, path, amount)[n - 1] : y \in QuoteStep(v, path[n])
<1> DEFINE R == QuoteRun(reserve, path, amount)
           Def(f) == f = [n \in 0 .. Len(path) |->
                            IF n = 0 THEN {QuoteStart(reserve, amount)}
                                     ELSE UNION {QuoteStep(v, path[n]) : v \in f[n - 1]}]
<1>1. \E f : Def(f)
  <2>1. Len(path) \in Nat
    OBVIOUS
  <2>2. \E f : RunTo(reserve, path, amount, Len(path), f)
    BY <2>1, RunExists
  <2> QED BY <2>2, Zenon DEF RunTo
<1>2. R = CHOOSE f : Def(f)
  BY DEF QuoteRun
<1>3. Def(R)
  <2> HIDE DEF R, Def
  <2> QED BY <1>1, <1>2
<1>4. R[0] = {QuoteStart(reserve, amount)}
  <2>1. 0 \in 0 .. Len(path)
    OBVIOUS
  <2> HIDE DEF R
  <2> QED BY <1>3, <2>1
<1>5. ASSUME NEW n \in 1 .. Len(path), NEW y
      PROVE  y \in R[n] <=> \E v \in R[n - 1] : y \in QuoteStep(v, path[n])
  <2>1. n \in 0 .. Len(path) /\ n # 0
    OBVIOUS
  <2> HIDE DEF R
  <2>2. R[n] = UNION {QuoteStep(v, path[n]) : v \in R[n - 1]}
    BY <1>3, <2>1
  <2> QED BY <2>2
<1> QED BY <1>4, <1>5

\* A quote that comes to the end has come through every round.
LEMMA RunGoesOn ==
  ASSUME NEW reserve, NEW path \in Seq(Pools), NEW amount,
         QuoteRun(reserve, path, amount)[Len(path)] # {},
         NEW n \in 0 .. Len(path)
  PROVE  QuoteRun(reserve, path, amount)[n] # {}
<1> DEFINE R == QuoteRun(reserve, path, amount)
           T == {m \in Nat : m <= Len(path) /\ R[Len(path) - m] = {}}
<1>1. SUFFICES ASSUME T # {} PROVE FALSE
  <2>1. Len(path) - n \in Nat /\ Len(path) - n <= Len(path) /\ Len(path) - (Len(path) - n) = n
    OBVIOUS
  <2> HIDE DEF R
  <2>2. R[n] = {} => Len(path) - n \in T
    BY <2>1
  <2> QED BY <2>2 DEF R
<1>2. PICK x \in T : \A y \in T : x <= y
  <2>1. T \in SUBSET Nat
    OBVIOUS
  <2> HIDE DEF T
  <2> QED BY <1>1, <2>1, NatMin
<1> HIDE DEF R
<1>3. x # 0
  <2>1. Len(path) - 0 = Len(path)
    OBVIOUS
  <2> QED BY <1>2, <2>1 DEF R
<1>4. /\ x - 1 \in Nat /\ ~ (x <= x - 1) /\ x - 1 <= Len(path) /\ x \in Nat
      /\ Len(path) - (x - 1) \in 1 .. Len(path)
      /\ (Len(path) - (x - 1)) - 1 = Len(path) - x
  BY <1>2, <1>3
<1> DEFINE k == Len(path) - (x - 1)
<1>5. k \in 1 .. Len(path) /\ R[k] # {} /\ R[k - 1] = {}
  BY <1>2, <1>4
<1> HIDE DEF k
<1>6. PICK y : y \in R[k]
  BY <1>5
<1>7. \E v \in R[k - 1] : y \in QuoteStep(v, path[k])
  BY <1>5, <1>6, RunSteps DEF R
<1> QED BY <1>5, <1>7

\* The two know the same fee of every V2 pool.
FeesAgree == \A p \in Pools \ IsV3 : FactoryFee[p] = QuoterFee[p]

\* Where a call of the quoter comes to that finds what the transaction found.
Quoted == QuoteRun(before.w.reserve, arb.pools, arb.amountIn)

\* x has come as far as v with the same pools, and has no less of any token.
Ahead(x, v) ==
  /\ v \in World
  /\ x.reserve = v.reserve /\ x.token = v.token /\ x.amounts = v.amounts
  /\ \A t \in Tokens : x.held[t] >= v.held[t]

\* The transaction is ahead of the quote until the caller has been paid; then what it
\* has given the caller is no less than what the quote leaves.
Follows ==
  /\ pc \in {"swap", "callback"} => wallet = before.wallet
  /\ pc = "swap" =>
       \A v \in Quoted[Len(w.amounts) - 1] : Ahead(w, v) /\ v.held[v.token] >= AmountIn(v)
  /\ pc = "callback" =>
       /\ Pool \in IsV3
       /\ \A v \in Quoted[Len(w.amounts) - 1] :
            /\ v \in World /\ v.token = w.token /\ v.amounts = w.amounts
            /\ Ahead(w, V3Sends(v, Pool))
            /\ owed = [in |-> V3Input(v, Pool), out |-> V3Output(v, Pool)]
  /\ pc = "collect" =>
       \A v \in Quoted[Len(arb.pools)] :
         wallet[WETH] - before.wallet[WETH] >= AmountIn(v) - AmountToRepay

\* The quoter begins with a world in which it holds the input.
LEMMA QuoteStartWorld ==
  ASSUME NEW reserve \in [Pools -> [Tokens -> Nat]], NEW amount \in Nat
  PROVE  /\ QuoteStart(reserve, amount) \in World
         /\ QuoteStart(reserve, amount).reserve = reserve
         /\ QuoteStart(reserve, amount).token = WETH
         /\ QuoteStart(reserve, amount).amounts = <<amount>>
         /\ QuoteStart(reserve, amount).held[WETH] = amount
         /\ \A t \in Tokens \ {WETH} : QuoteStart(reserve, amount).held[t] = 0
<1>1. WETH \in Tokens /\ <<amount>> \in Seq(Nat)
  BY TokenAssumption
<1> QED BY <1>1 DEF QuoteStart, World

\* The same exchange leaves the one ahead of the other.
LEMMA ExchangeAhead ==
  ASSUME NEW x \in World, NEW v, Ahead(x, v),
         NEW p \in Pools, NEW t \in Tokens, NEW u \in Tokens, t # u,
         NEW a \in Nat, NEW o \in Nat, a <= v.held[t], o <= v.reserve[p][u]
  PROVE  Ahead(Exchange(x, p, t, a, u, o), Exchange(v, p, t, a, u, o))
<1> DEFINE X == Exchange(x, p, t, a, u, o)
           V == Exchange(v, p, t, a, u, o)
<1>1. v \in World /\ x.held \in [Tokens -> Nat] /\ v.held \in [Tokens -> Nat]
  BY DEF Ahead, World
<1>2. V \in World
  BY <1>1, ExchangeWorld
<1>3. X.reserve = V.reserve /\ X.token = V.token /\ X.amounts = V.amounts
  BY DEF Ahead, Exchange
<1>4. ASSUME NEW z \in Tokens PROVE X.held[z] >= V.held[z]
  <2>1. X.held[t] = x.held[t] - a /\ X.held[u] = x.held[u] + o
        /\ \A s \in Tokens \ {t, u} : X.held[s] = x.held[s]
    BY ExchangeHeld
  <2>2. V.held[t] = v.held[t] - a /\ V.held[u] = v.held[u] + o
        /\ \A s \in Tokens \ {t, u} : V.held[s] = v.held[s]
    <3>1. v \in World
      BY <1>1
    <3> QED BY <3>1, ExchangeHeld
  <2> HIDE DEF X, V
  <2>3. /\ x.held[z] >= v.held[z] /\ x.held[z] \in Nat /\ v.held[z] \in Nat
    BY <1>1 DEF Ahead
  <2>4. CASE z = t
    BY <2>1, <2>2, <2>3, <2>4
  <2>5. CASE z = u
    BY <2>1, <2>2, <2>3, <2>5
  <2>6. CASE z \notin {t, u}
    BY <2>1, <2>2, <2>3, <2>6
  <2> QED BY <2>4, <2>5, <2>6
<1> HIDE DEF X, V
<1>5. Ahead(X, V)
  BY <1>2, <1>3, <1>4 DEF Ahead
<1> QED BY <1>5 DEF X, V

\* So does the end of a round.
LEMMA OnwardAhead ==
  ASSUME NEW x, NEW v, Ahead(x, v), NEW p \in Pools, NEW o \in Nat
  PROVE  Ahead(Onward(x, p, o), Onward(v, p, o))
<1>1. Onward(v, p, o) \in World
  BY OnwardWorld DEF Ahead
<1>2. TokenOut(x, p) = TokenOut(v, p)
  BY DEF Ahead, TokenOut, ZeroForOne
<1> QED BY <1>1, <1>2 DEF Ahead, Onward

\* The two see the same pool, from the same side and with the same input.
LEMMA SameView ==
  ASSUME NEW x, NEW v, Ahead(x, v), NEW p
  PROVE  /\ AmountIn(x) = AmountIn(v)
         /\ TokenIn(x, p) = TokenIn(v, p) /\ TokenOut(x, p) = TokenOut(v, p)
         /\ V3Input(x, p) = V3Input(v, p) /\ V3Output(x, p) = V3Output(v, p)
         /\ V3Starts(x, p) = V3Starts(v, p)
         /\ \A fee : V2Output(x, p, fee) = V2Output(v, p, fee)
<1>1. AmountIn(x) = AmountIn(v)
  BY DEF Ahead, AmountIn
<1>2. TokenIn(x, p) = TokenIn(v, p) /\ TokenOut(x, p) = TokenOut(v, p)
  BY DEF Ahead, TokenIn, TokenOut, ZeroForOne
<1>3. x.reserve = v.reserve
  BY DEF Ahead
<1>4. V3Input(x, p) = V3Input(v, p)
  BY <1>1 DEF V3Input
<1>5. V3Output(x, p) = V3Output(v, p)
  BY <1>2, <1>3, <1>4 DEF V3Output
<1>6. V3Starts(x, p) = V3Starts(v, p)
  BY <1>1 DEF V3Starts
<1>7. \A fee : V2Output(x, p, fee) = V2Output(v, p, fee)
  BY <1>1, <1>2, <1>3 DEF V2Output
<1> QED BY <1>1, <1>2, <1>4, <1>5, <1>6, <1>7

\* A swap with a V2 pool that works for the quoter works for the transaction.
LEMMA V2Round ==
  ASSUME IndInv, InLoop, Pool \notin IsV3, FactoryFee[Pool] = QuoterFee[Pool],
         NEW v, Ahead(w, v), NEW y \in QuoteStep(v, Pool)
  PROVE  /\ V2Succeeds(w, Pool, FactoryFee[Pool])
         /\ Ahead(SwapV2(w, Pool, FactoryFee[Pool]), y) /\ y.held[y.token] >= AmountIn(y)
<1> DEFINE f == FactoryFee[Pool]
           t == TokenIn(v, Pool)
           u == TokenOut(v, Pool)
           a == AmountIn(v)
           o == V2Output(v, Pool, f)
           V == Exchange(v, Pool, t, a, u, o)
           W == Exchange(w, Pool, t, a, u, o)
<1>1. V2Succeeds(v, Pool, f) /\ y = SwapV2(v, Pool, f)
  BY DEF QuoteStep
<1>2. /\ AmountIn(w) = a /\ TokenIn(w, Pool) = t /\ TokenOut(w, Pool) = u
      /\ V2Output(w, Pool, f) = o
  BY SameView
<1>3. /\ w \in World /\ v \in World /\ w.reserve = v.reserve
      /\ \A z \in Tokens : w.held[z] >= v.held[z]
  BY DEF Ahead, IndInv, TypeOK
<1>4. /\ Pool \in Pools /\ a \in Nat /\ t \in Tokens /\ u \in Tokens /\ t # u
  BY <1>2, InLoopFacts DEF IndInv, InLoop
<1>5. /\ v.reserve[Pool][t] \in Nat /\ v.reserve[Pool][u] \in Nat /\ f \in Nat
      /\ v.held[t] \in Nat /\ w.held[t] \in Nat /\ v.held[u] \in Nat
  <2>1. /\ v.reserve \in [Pools -> [Tokens -> Nat]]
        /\ v.held \in [Tokens -> Nat] /\ w.held \in [Tokens -> Nat]
    BY <1>3 DEF World
  <2>2. f \in Nat
    <3>1. \A n \in 0 .. PRECISION : n \in Nat
      BY DEF PRECISION
    <3> QED BY <1>4, <3>1, FlashAssumption
  <2> HIDE DEF f, t, u
  <2> QED BY <1>4, <2>1, <2>2
<1>6. o \in 0 .. v.reserve[Pool][u]
  BY <1>1, <1>4, <1>5, OutputBound DEF V2Succeeds, V2Output
<1>7. a <= v.held[t] /\ w.held[t] >= a
  BY <1>1, <1>3, <1>4, <1>5 DEF V2Succeeds
<1>8. V2Succeeds(w, Pool, f)
  BY <1>1, <1>2, <1>3, <1>7 DEF V2Succeeds
<1>9. SwapV2(w, Pool, f) = Onward(W, Pool, o) /\ y = Onward(V, Pool, o)
  BY <1>1, <1>2 DEF SwapV2
<1> HIDE DEF f, t, u, a, o
<1>o. o \in Nat /\ o <= v.reserve[Pool][u]
  BY <1>5, <1>6
<1>10. Ahead(W, V)
  BY <1>3, <1>4, <1>7, <1>o, ExchangeAhead
<1>11. V \in World /\ V.token = v.token /\ V.held[u] = v.held[u] + o
  BY <1>3, <1>4, <1>7, <1>o, ExchangeWorld, ExchangeHeld
<1> HIDE DEF V, W
<1>12. Ahead(Onward(W, Pool, o), Onward(V, Pool, o))
  BY <1>4, <1>o, <1>10, OnwardAhead
<1>13. TokenOut(V, Pool) = u
  BY <1>11 DEF TokenOut, ZeroForOne, u
<1>14. y.held = V.held /\ y.token = u /\ AmountIn(y) = o
  BY <1>4, <1>9, <1>11, <1>13, <1>o, OnwardGives
<1>15. y.held[y.token] >= AmountIn(y)
  BY <1>5, <1>11, <1>14, <1>o
<1> QED BY <1>8, <1>9, <1>12, <1>15 DEF f

\* The output that a V3 pool sends is there.
LEMMA V3OutputBound ==
  ASSUME NEW v \in World, NEW p \in Pools, V3Starts(v, p), AmountIn(v) \in Nat,
         TokenIn(v, p) \in Tokens, TokenOut(v, p) \in Tokens
  PROVE  /\ V3Input(v, p) \in Nat /\ V3Input(v, p) <= AmountIn(v)
         /\ V3Output(v, p) \in 0 .. v.reserve[p][TokenOut(v, p)]
<1>1. Depth[p] \in Nat \ {0} /\ PoolFee[p] \in 0 .. PRECISION - 1
  BY SwapAssumption
<1>2. AmountIn(v) \in Nat \ {0}
  BY DEF V3Starts
<1>3. V3Input(v, p) \in Nat \ {0} /\ V3Input(v, p) <= AmountIn(v)
  BY <1>1, <1>2 DEF V3Input
<1>4. PRECISION - PoolFee[p] \in Nat \ {0}
  <2>1. \A f \in 0 .. PRECISION - 1 : PRECISION - f \in Nat \ {0}
    BY DEF PRECISION
  <2> QED BY <1>1, <2>1
<1>5. V3Input(v, p) * (PRECISION - PoolFee[p]) > 0
  BY <1>3, <1>4, SMT
<1>6. v.reserve[p][TokenIn(v, p)] \in Nat /\ v.reserve[p][TokenOut(v, p)] \in Nat
  BY DEF World
<1>7. V3Output(v, p) \in 0 .. v.reserve[p][TokenOut(v, p)]
  BY <1>3, <1>4, <1>5, <1>6, OutputBound DEF V3Output
<1> QED BY <1>3, <1>7

\* The pool sends the two the same and wants the same of them.
LEMMA V3RoundStarts ==
  ASSUME IndInv, InLoop, Pool \in IsV3, V3Starts(w, Pool), NEW v, Ahead(w, v)
  PROVE  /\ Ahead(V3Sends(w, Pool), V3Sends(v, Pool))
         /\ V3Input(w, Pool) = V3Input(v, Pool) /\ V3Output(w, Pool) = V3Output(v, Pool)
<1> DEFINE t == TokenIn(v, Pool)
           u == TokenOut(v, Pool)
           o == V3Output(v, Pool)
<1>1. /\ AmountIn(w) = AmountIn(v) /\ TokenIn(w, Pool) = t /\ TokenOut(w, Pool) = u
      /\ V3Input(w, Pool) = V3Input(v, Pool) /\ V3Output(w, Pool) = o
      /\ V3Starts(v, Pool)
  BY SameView
<1>2. w \in World /\ v \in World
  BY DEF Ahead, IndInv, TypeOK
<1>3. Pool \in Pools /\ AmountIn(v) \in Nat /\ t \in Tokens /\ u \in Tokens /\ t # u
  BY <1>1, InLoopFacts DEF IndInv, InLoop
<1>4. o \in 0 .. v.reserve[Pool][u] /\ v.reserve[Pool][u] \in Nat /\ v.held[t] \in Nat
  BY <1>1, <1>2, <1>3, V3OutputBound DEF World
<1>5. /\ V3Sends(w, Pool) = Exchange(w, Pool, t, 0, u, o)
      /\ V3Sends(v, Pool) = Exchange(v, Pool, t, 0, u, o)
  BY <1>1 DEF V3Sends
<1> DEFINE n == 0
<1>6. n \in Nat /\ n <= v.held[t] /\ n = 0
  BY <1>4
<1> HIDE DEF t, u, o, n
<1>7. o \in Nat /\ o <= v.reserve[Pool][u]
  BY <1>4
<1>8. Ahead(Exchange(w, Pool, t, n, u, o), Exchange(v, Pool, t, n, u, o))
  BY <1>2, <1>3, <1>6, <1>7, ExchangeAhead
<1>9. Ahead(Exchange(w, Pool, t, 0, u, o), Exchange(v, Pool, t, 0, u, o))
  BY <1>6, <1>8
<1> QED BY <1>1, <1>5, <1>9 DEF o

\* If the quoter could pay then, so can the transaction.
LEMMA V3RoundEnds ==
  ASSUME IndInv, pc = "callback", Pool \in IsV3,
         NEW v \in World, v.token = w.token, v.amounts = w.amounts,
         Ahead(w, V3Sends(v, Pool)),
         owed = [in |-> V3Input(v, Pool), out |-> V3Output(v, Pool)],
         NEW y \in QuoteStep(v, Pool)
  PROVE  /\ CallbackSucceeds(w, owed.in)
         /\ Ahead(Onward(Callback(w, Pool, owed.in), Pool, owed.out), y)
         /\ y.held[y.token] >= AmountIn(y)
<1> DEFINE t == TokenIn(v, Pool)
           u == TokenOut(v, Pool)
           a == V3Input(v, Pool)
           o == V3Output(v, Pool)
           s == V3Sends(v, Pool)
           S == Exchange(s, Pool, t, a, u, 0)
           W == Exchange(w, Pool, t, a, u, 0)
<1>1. /\ V3Starts(v, Pool) /\ CallbackSucceeds(s, a)
      /\ y = Onward(Callback(s, Pool, a), Pool, o)
  BY DEF QuoteStep
<1>2. /\ TokenIn(w, Pool) = t /\ TokenOut(w, Pool) = u /\ AmountIn(w) = AmountIn(v)
      /\ s.token = v.token /\ TokenIn(s, Pool) = t /\ TokenOut(s, Pool) = u
  BY DEF TokenIn, TokenOut, ZeroForOne, AmountIn, V3Sends, Exchange
<1>3. /\ Len(w.amounts) <= Len(arb.pools) /\ pc # "idle" /\ TypeOK
  BY DEF IndInv, TypeOK
<1>4. /\ Pool \in Pools /\ AmountIn(v) \in Nat /\ t \in Tokens /\ u \in Tokens /\ t # u
      /\ t = v.token
  BY <1>2, <1>3, InLoopFacts
<1>5. /\ w \in World /\ s \in World /\ s.held \in [Tokens -> Nat]
      /\ w.held \in [Tokens -> Nat] /\ \A z \in Tokens : w.held[z] >= s.held[z]
      /\ s.reserve[Pool][u] \in Nat
  <2>1. Ahead(w, s) /\ w \in World
    BY <1>3 DEF TypeOK
  <2> HIDE DEF s, t, u
  <2>2. s \in World /\ \A z \in Tokens : w.held[z] >= s.held[z]
    BY <2>1 DEF Ahead
  <2> QED BY <1>4, <2>1, <2>2 DEF World
<1>6. a \in Nat /\ o \in Nat
  <2>1. /\ V3Input(v, Pool) \in Nat
        /\ V3Output(v, Pool) \in 0 .. v.reserve[Pool][TokenOut(v, Pool)]
    BY <1>1, <1>4, V3OutputBound
  <2> QED BY <2>1
<1>7. a <= s.held[t] /\ CallbackSucceeds(w, owed.in)
  BY <1>1, <1>2, <1>4, <1>5, <1>6 DEF CallbackSucceeds
<1>8. v.held[u] \in Nat /\ s.held[u] = v.held[u] + o
  <2>1. v.held[u] \in Nat
    BY <1>4 DEF World
  <2> DEFINE n == 0
  <2>2. n \in Nat /\ n = 0
    OBVIOUS
  <2>3. s = Exchange(v, Pool, t, n, u, o)
    BY DEF V3Sends
  <2> HIDE DEF n, t, u, o
  <2>4. Exchange(v, Pool, t, n, u, o).held[u] = v.held[u] + o
    BY <1>4, <1>6, <2>2, ExchangeHeld
  <2> HIDE DEF s
  <2> QED BY <2>1, <2>3, <2>4
<1>9. /\ Callback(s, Pool, a) = S /\ Callback(w, Pool, owed.in) = W
  BY <1>2 DEF Callback
<1> HIDE DEF t, u, a, o, s
<1> DEFINE n == 0
<1>10. n \in Nat /\ n = 0 /\ n <= s.reserve[Pool][u]
  BY <1>5
<1> HIDE DEF n
<1>11. /\ Ahead(Exchange(w, Pool, t, a, u, n), Exchange(s, Pool, t, a, u, n))
       /\ Exchange(s, Pool, t, a, u, n) \in World
       /\ Exchange(s, Pool, t, a, u, n).token = s.token
       /\ Exchange(s, Pool, t, a, u, n).held[u] = s.held[u] + n
  <2>1. Ahead(w, s)
    BY DEF s
  <2>2. Ahead(Exchange(w, Pool, t, a, u, n), Exchange(s, Pool, t, a, u, n))
    BY <1>4, <1>5, <1>6, <1>7, <1>10, <2>1, ExchangeAhead
  <2>3. /\ Exchange(s, Pool, t, a, u, n) \in World
        /\ Exchange(s, Pool, t, a, u, n).token = s.token
    BY <1>4, <1>5, <1>6, <1>7, <1>10, ExchangeWorld
  <2>4. Exchange(s, Pool, t, a, u, n).held[u] = s.held[u] + n
    <3>1. s \in World /\ a \in Nat /\ n \in Nat
      BY <1>5, <1>6, <1>10
    <3>2. Exchange(s, Pool, t, a, u, n).held = [s.held EXCEPT ![u] = @ + n, ![t] = @ - a]
      BY DEF Exchange, Moved
    <3>3. [s.held EXCEPT ![u] = @ + n, ![t] = @ - a][u] = s.held[u] + n
      BY <1>4, <1>5
    <3> QED BY <3>2, <3>3
  <2> QED BY <2>2, <2>3, <2>4
<1>12. Ahead(W, S) /\ S \in World /\ S.token = s.token /\ S.held[u] = s.held[u] + 0
  BY <1>10, <1>11
<1> HIDE DEF S, W
<1>13. Ahead(Onward(W, Pool, o), Onward(S, Pool, o))
  BY <1>4, <1>6, <1>12, OnwardAhead
<1>14. TokenOut(S, Pool) = u
  BY <1>2, <1>12 DEF TokenOut, ZeroForOne, u, s
<1>15. y = Onward(S, Pool, o)
  BY <1>1, <1>9
<1>16. y.held = S.held /\ y.token = u /\ AmountIn(y) = o
  BY <1>4, <1>6, <1>12, <1>14, <1>15, OnwardGives
<1>17. y.held[y.token] >= AmountIn(y)
  BY <1>6, <1>8, <1>12, <1>16
<1>18. owed.out = o
  BY DEF o
<1> QED BY <1>7, <1>9, <1>13, <1>15, <1>17, <1>18

\* A transaction that borrows what it sends along the path starts where a quote would.
LEMMA FollowsStart ==
  ASSUME IndInv, ExecuteArbitrage \/ LoanByAnyone, Borrowed'
  PROVE  Follows'
<1>0. PICK asset \in Tokens, lent \in Amounts, path \in Paths, amount \in Amounts :
        ExecuteOperation(asset, lent, path, amount)
  BY TokenAssumption DEF ExecuteArbitrage, LoanByAnyone
<1>1. /\ arb' = [pools |-> path, amountIn |-> amount] /\ asset = WETH /\ lent = amount
      /\ pc' = "swap" /\ before' = State /\ wallet' = wallet
  BY <1>0 DEF ExecuteOperation, Borrowed
<1>2. before'.w = w /\ before'.wallet = wallet
  BY <1>1 DEF State
<1>3. /\ amount \in Nat /\ path \in Seq(Pools) /\ WETH \in Tokens
      /\ w \in World /\ w.reserve \in [Pools -> [Tokens -> Nat]] /\ w.held \in [Tokens -> Nat]
  BY FlashAssumption, PathAssumption, TokenAssumption DEF IndInv, TypeOK, World
<1> DEFINE q == QuoteStart(w.reserve, amount)
<1>4. Quoted'[0] = {q}
  <2>1. QuoteRun(w.reserve, path, amount)[0] = {q}
    BY <1>3, RunSteps
  <2>2. Quoted' = QuoteRun(w.reserve, path, amount)
    BY <1>1, <1>2 DEF Quoted
  <2> QED BY <2>1, <2>2
<1>5. /\ q \in World /\ q.reserve = w.reserve /\ q.token = WETH /\ q.amounts = <<amount>>
      /\ q.held[WETH] = amount /\ \A t \in Tokens \ {WETH} : q.held[t] = 0
  <2> DEFINE reserve == w.reserve
  <2>1. reserve \in [Pools -> [Tokens -> Nat]] /\ amount \in Nat
    BY <1>3
  <2> HIDE DEF reserve
  <2>2. /\ QuoteStart(reserve, amount) \in World /\ QuoteStart(reserve, amount).reserve = reserve
        /\ QuoteStart(reserve, amount).token = WETH
        /\ QuoteStart(reserve, amount).amounts = <<amount>>
        /\ QuoteStart(reserve, amount).held[WETH] = amount
        /\ \A t \in Tokens \ {WETH} : QuoteStart(reserve, amount).held[t] = 0
    BY ONLY <2>1, QuoteStartWorld
  <2> QED BY <2>2 DEF reserve
<1>6. /\ w'.reserve = w.reserve /\ w'.token = WETH /\ w'.amounts = <<amount>>
      /\ w'.held[WETH] = w.held[WETH] + amount
      /\ \A t \in Tokens \ {WETH} : w'.held[t] = w.held[t]
  BY <1>0, <1>1, OperationStarts
<1> HIDE DEF q
<1>7. Ahead(w', q)
  <2>1. ASSUME NEW t \in Tokens PROVE w'.held[t] >= q.held[t]
    <3>1. w.held[t] \in Nat
      BY <1>3
    <3>2. CASE t = WETH
      BY <1>3, <1>5, <1>6, <3>1, <3>2
    <3>3. CASE t # WETH
      <4>1. w'.held[t] = w.held[t] /\ q.held[t] = 0
        BY <1>5, <1>6, <3>3
      <4> QED BY <3>1, <4>1
    <3> QED BY <3>2, <3>3
  <2> QED BY <1>5, <1>6, <2>1 DEF Ahead
<1>8. q.held[q.token] >= AmountIn(q)
  BY <1>3, <1>5 DEF AmountIn
<1>9. Len(w'.amounts) - 1 = 0
  BY <1>6
<1>10. \A v \in Quoted'[Len(w'.amounts) - 1] : Ahead(w', v) /\ v.held[v.token] >= AmountIn(v)
  BY <1>4, <1>7, <1>8, <1>9
<1>11. wallet' = before'.wallet
  BY <1>1, <1>2
<1> QED BY <1>1, <1>10, <1>11 DEF Follows, Ahead

\* Where the loop is in the path, and what the quoter's next round comes from.
LEMMA NextRound ==
  ASSUME IndInv, pc # "idle", Len(w.amounts) <= Len(arb.pools)
  PROVE  /\ Len(w.amounts) \in 1 .. Len(arb.pools)
         /\ \A y \in Quoted[Len(w.amounts)] :
              \E v \in Quoted[Len(w.amounts) - 1] : y \in QuoteStep(v, Pool)
<1>1. arb.pools \in Seq(Pools) /\ Len(w.amounts) \in 1 .. Len(arb.pools)
  BY InLoopFacts DEF IndInv
<1>2. \A y \in Quoted[Len(w.amounts)] :
        \E v \in Quoted[Len(w.amounts) - 1] : y \in QuoteStep(v, Pool)
  BY <1>1, RunSteps DEF Quoted, Pool
<1> QED BY <1>1, <1>2

\* A round of the loop is one of the quoter's.
LEMMA FollowsSwaps ==
  ASSUME FeesAgree, IndInv, Follows,
         SwapV2Pool \/ SwapV3Pool \/ UniswapV3SwapCallback
  PROVE  Follows'
<1>t. /\ pc \in {"swap", "callback"} /\ Len(w.amounts) <= Len(arb.pools) /\ w \in World
      /\ UNCHANGED <<arb, before, wallet>> /\ wallet = before.wallet
  BY DEF Follows, IndInv, TypeOK, SwapV2Pool, SwapV3Pool, UniswapV3SwapCallback, InLoop
<1>n. /\ Len(w.amounts) \in 1 .. Len(arb.pools) /\ Pool \in Pools
      /\ \A y \in Quoted[Len(w.amounts)] :
           \E v \in Quoted[Len(w.amounts) - 1] : y \in QuoteStep(v, Pool)
  BY <1>t, NextRound, InLoopFacts DEF IndInv
<1>q. Quoted' = Quoted
  BY <1>t DEF Quoted
<1>1. CASE SwapV2Pool
  <2>1. /\ InLoop /\ pc = "swap" /\ pc' = "swap" /\ Pool \notin IsV3
        /\ w' = SwapV2(w, Pool, FactoryFee[Pool])
    BY <1>1 DEF SwapV2Pool, InLoop
  <2>2. FactoryFee[Pool] = QuoterFee[Pool]
    BY <1>n, <2>1 DEF FeesAgree
  <2>3. Len(w'.amounts) - 1 = Len(w.amounts)
    BY <1>t, <2>1 DEF SwapV2, Onward, Exchange, World
  <2>4. ASSUME NEW y \in Quoted[Len(w.amounts)]
        PROVE  Ahead(w', y) /\ y.held[y.token] >= AmountIn(y)
    <3>1. PICK v \in Quoted[Len(w.amounts) - 1] : y \in QuoteStep(v, Pool)
      BY <1>n
    <3>2. Ahead(w, v)
      BY <2>1, <3>1 DEF Follows
    <3> QED BY <2>1, <2>2, <3>1, <3>2, V2Round
  <2> QED BY <1>t, <1>q, <2>1, <2>3, <2>4 DEF Follows, Ahead
<1>2. CASE SwapV3Pool
  <2>1. /\ InLoop /\ pc = "swap" /\ pc' = "callback" /\ Pool \in IsV3
        /\ V3Starts(w, Pool) /\ w' = V3Sends(w, Pool)
        /\ owed' = [in |-> V3Input(w, Pool), out |-> V3Output(w, Pool)]
    BY <1>2 DEF SwapV3Pool, InLoop
  <2>2. w'.amounts = w.amounts /\ w'.token = w.token /\ Pool' = Pool
    BY <1>t, <2>1 DEF V3Sends, Exchange, Pool
  <2>3. ASSUME NEW v \in Quoted[Len(w.amounts) - 1]
        PROVE  /\ v \in World /\ v.token = w'.token /\ v.amounts = w'.amounts
               /\ Ahead(w', V3Sends(v, Pool))
               /\ owed' = [in |-> V3Input(v, Pool), out |-> V3Output(v, Pool)]
    <3>1. Ahead(w, v)
      BY <2>1 DEF Follows
    <3> QED BY <2>1, <2>2, <3>1, V3RoundStarts DEF Ahead
  <2> QED BY <1>t, <1>q, <2>1, <2>2, <2>3 DEF Follows, Ahead
<1>3. CASE UniswapV3SwapCallback
  <2>1. /\ pc = "callback" /\ pc' = "swap"
        /\ w' = Onward(Callback(w, Pool, owed.in), Pool, owed.out)
    BY <1>3 DEF UniswapV3SwapCallback
  <2>2. Len(w'.amounts) - 1 = Len(w.amounts)
    BY <1>t, <2>1 DEF Callback, Onward, Exchange, World
  <2>3. ASSUME NEW y \in Quoted[Len(w.amounts)]
        PROVE  Ahead(w', y) /\ y.held[y.token] >= AmountIn(y)
    <3>1. PICK v \in Quoted[Len(w.amounts) - 1] : y \in QuoteStep(v, Pool)
      BY <1>n
    <3>2. /\ Pool \in IsV3 /\ v \in World /\ v.token = w.token /\ v.amounts = w.amounts
          /\ Ahead(w, V3Sends(v, Pool))
          /\ owed = [in |-> V3Input(v, Pool), out |-> V3Output(v, Pool)]
      BY <2>1, <3>1 DEF Follows
    <3> QED BY <2>1, <3>1, <3>2, V3RoundEnds
  <2> QED BY <1>t, <1>q, <2>1, <2>2, <2>3 DEF Follows, Ahead
<1> QED BY <1>1, <1>2, <1>3

\* Types that the steps below need.
LEMMA DebtType ==
  ASSUME TypeOK
  PROVE  arb.pools \in Seq(Pools) /\ arb.amountIn \in Nat /\ AmountToRepay \in Nat
<1>1. /\ arb.pools \in Paths \cup {<<>>} /\ arb.amountIn \in Amounts \cup {0}
      /\ loan.amount \in Amounts \cup {0}
  BY DEF TypeOK
<1>2. arb.pools \in Seq(Pools)
  <2>1. CASE arb.pools \in Paths
    BY <2>1, PathAssumption
  <2>2. CASE arb.pools = <<>>
    BY <2>2
  <2> QED BY <1>1, <2>1, <2>2
<1>3. arb.amountIn \in Nat /\ loan.amount \in Nat
  <2>1. Amounts \cup {0} \subseteq Nat
    BY FlashAssumption
  <2> QED BY <1>1, <2>1, Zenon
<1> QED BY <1>2, <1>3, RepayType DEF AmountToRepay

\* The loop ends in WETH.
LEMMA LoopEnds ==
  ASSUME TypeOK, LoopOver
  PROVE  w.token = WETH /\ Len(w.amounts) = Len(arb.pools) + 1 /\ AmountIn(w) \in Nat
<1>1. /\ w \in World /\ arb.pools \in Seq(Pools)
      /\ Len(w.amounts) \in 1 .. Len(arb.pools) + 1 /\ Len(w.amounts) > Len(arb.pools)
  BY DebtType DEF TypeOK, LoopOver
<1>2. PICK t \in Routes(arb.pools) : w.token = t[Len(w.amounts)]
  BY DEF TypeOK, LoopOver
<1>3. Len(w.amounts) = Len(arb.pools) + 1
  BY <1>1
<1>4. w.token = WETH
  BY <1>2, <1>3 DEF Routes
<1>5. AmountIn(w) \in Nat
  BY <1>1 DEF AmountIn, World
<1> QED BY <1>3, <1>4, <1>5

\* What the loop ends with in WETH pays the caller what the quote leaves.
LEMMA FollowsRepays ==
  ASSUME IndInv, Borrowed, Follows, RepayFromBalance
  PROVE  Follows'
<1> DEFINE paid == w.held[WETH] - AmountToRepay
<1>1. /\ LoopOver /\ pc = "swap" /\ pc' = "collect" /\ UNCHANGED <<arb, loan, before>>
      /\ wallet' = [wallet EXCEPT ![WETH] = @ + paid] /\ wallet = before.wallet
  BY DEF Follows, Borrowed, Balance, RepayFromBalance, LoopOver
<1>2. /\ TypeOK /\ w \in World /\ wallet \in [Tokens -> Nat] /\ WETH \in Tokens
      /\ AmountToRepay \in Nat /\ arb.pools \in Seq(Pools)
  BY DebtType, TokenAssumption DEF IndInv, TypeOK
<1>3. w.token = WETH /\ Len(w.amounts) - 1 = Len(arb.pools) /\ AmountIn(w) \in Nat
  BY <1>1, <1>2, LoopEnds
<1>w. /\ wallet'[WETH] = wallet[WETH] + paid /\ before.wallet[WETH] = wallet[WETH]
      /\ wallet[WETH] \in Nat
  BY <1>1, <1>2
<1>4. ASSUME NEW v \in Quoted[Len(arb.pools)]
      PROVE  wallet'[WETH] - before.wallet[WETH] >= AmountIn(v) - AmountToRepay
  <2>1. Ahead(w, v) /\ v.held[v.token] >= AmountIn(v)
    BY <1>1, <1>3 DEF Follows
  <2>2. /\ w.held[WETH] >= v.held[WETH] /\ v.held[WETH] \in Nat /\ v.token = WETH
        /\ AmountIn(v) \in Nat /\ w.held[WETH] \in Nat
    BY <1>2, <1>3, <2>1, SameView DEF Ahead, World
  <2>3. v.held[WETH] >= AmountIn(v)
    BY <2>1, <2>2
  <2> QED BY <1>2, <1>w, <2>2, <2>3
<1>5. Quoted' = Quoted /\ AmountToRepay' = AmountToRepay
  BY <1>1 DEF Quoted, AmountToRepay
<1> QED BY <1>1, <1>4, <1>5 DEF Follows

\* No call fails that did not fail for the quoter.
LEMMA QuotedSucceeds ==
  ASSUME FeesAgree, IndInv, Borrowed, Follows, Revert,
         NEW q \in Quoted[Len(arb.pools)], AmountIn(q) >= AmountToRepay
  PROVE  FALSE
<1>t. /\ TypeOK /\ arb.pools \in Seq(Pools) /\ w \in World /\ WETH \in Tokens
      /\ AmountToRepay \in Nat
  BY DebtType, TokenAssumption DEF IndInv, TypeOK
<1>1. ASSUME pc # "idle", Len(w.amounts) <= Len(arb.pools)
      PROVE  /\ Pool \in Pools
             /\ \E v \in Quoted[Len(w.amounts) - 1] : \E y : y \in QuoteStep(v, Pool)
  <2>1. /\ Len(w.amounts) \in 1 .. Len(arb.pools) /\ Pool \in Pools
        /\ \A y \in Quoted[Len(w.amounts)] :
             \E v \in Quoted[Len(w.amounts) - 1] : y \in QuoteStep(v, Pool)
    BY <1>1, NextRound, InLoopFacts DEF IndInv
  <2>2. Quoted[Len(w.amounts)] # {}
    <3>1. Quoted[Len(arb.pools)] # {} /\ Len(w.amounts) \in 0 .. Len(arb.pools)
      BY <2>1
    <3> QED BY <1>t, <3>1, RunGoesOn DEF Quoted
  <2> QED BY <2>1, <2>2
<1>2. ~ (InLoop /\ Pool \notin IsV3 /\ ~V2Succeeds(w, Pool, FactoryFee[Pool]))
  <2> SUFFICES ASSUME InLoop, Pool \notin IsV3 PROVE V2Succeeds(w, Pool, FactoryFee[Pool])
    OBVIOUS
  <2>1. PICK v \in Quoted[Len(w.amounts) - 1] : \E y : y \in QuoteStep(v, Pool)
    BY <1>1 DEF InLoop
  <2>2. Ahead(w, v)
    BY <2>1 DEF Follows, InLoop
  <2>3. FactoryFee[Pool] = QuoterFee[Pool]
    BY <1>1 DEF FeesAgree, InLoop
  <2> QED BY <2>1, <2>2, <2>3, V2Round
<1>3. ~ (InLoop /\ Pool \in IsV3 /\ ~V3Starts(w, Pool))
  <2> SUFFICES ASSUME InLoop, Pool \in IsV3 PROVE V3Starts(w, Pool)
    OBVIOUS
  <2>1. PICK v \in Quoted[Len(w.amounts) - 1] : \E y : y \in QuoteStep(v, Pool)
    BY <1>1 DEF InLoop
  <2>2. Ahead(w, v)
    BY <2>1 DEF Follows, InLoop
  <2>3. V3Starts(v, Pool)
    BY <2>1 DEF QuoteStep
  <2> QED BY <2>2, <2>3, SameView
<1>4. ~ (pc = "callback" /\ ~CallbackSucceeds(w, owed.in))
  <2> SUFFICES ASSUME pc = "callback" PROVE CallbackSucceeds(w, owed.in)
    OBVIOUS
  <2>1. Len(w.amounts) <= Len(arb.pools)
    BY <1>t DEF TypeOK
  <2>2. PICK v \in Quoted[Len(w.amounts) - 1] : \E y : y \in QuoteStep(v, Pool)
    BY <1>1, <2>1
  <2>3. /\ Pool \in IsV3 /\ v \in World /\ v.token = w.token /\ v.amounts = w.amounts
        /\ Ahead(w, V3Sends(v, Pool))
        /\ owed = [in |-> V3Input(v, Pool), out |-> V3Output(v, Pool)]
    BY <2>2 DEF Follows
  <2> QED BY <2>2, <2>3, V3RoundEnds
<1>5. ~ (LoopOver /\ Balance < AmountToRepay)
  <2> SUFFICES ASSUME LoopOver PROVE ~ (w.held[WETH] < AmountToRepay)
    BY DEF Balance, Borrowed
  <2>1. w.token = WETH /\ Len(w.amounts) - 1 = Len(arb.pools) /\ AmountIn(w) \in Nat
    BY <1>t, LoopEnds
  <2>2. Ahead(w, q) /\ q.held[q.token] >= AmountIn(q)
    BY <2>1 DEF Follows, LoopOver
  <2>3. /\ w.held[WETH] >= q.held[WETH] /\ q.held[WETH] \in Nat /\ q.token = WETH
        /\ AmountIn(q) \in Nat /\ w.held[WETH] \in Nat
    BY <1>t, <2>1, <2>2, SameView DEF Ahead, World
  <2> QED BY <1>t, <2>2, <2>3
<1>6. ~ (pc = "collect" /\ ~Collectable)
  <2>1. \A n \in Nat : n >= n
    OBVIOUS
  <2> QED BY <1>t, <2>1 DEF IndInv, Settled, Collectable
<1> QED BY <1>2, <1>3, <1>4, <1>5, <1>6 DEF Revert, Fails

\* Every step keeps to the quote, and a transaction ends as it promises.
LEMMA FollowsStep ==
  FeesAgree /\ IndInv /\ (Borrowed => Follows) /\ [Next]_vars
    => /\ (Borrowed => Follows)'
       /\ \A q \in Quotes(before.w.reserve, arb.pools, arb.amountIn) :
            Borrowed /\ Len(txs') > Len(txs) /\ q[Len(q)] >= AmountToRepay
              => /\ txs'[Len(txs')]
                 /\ wallet'[WETH] - before.wallet[WETH] >= q[Len(q)] - AmountToRepay
<1> SUFFICES ASSUME FeesAgree, IndInv, Borrowed => Follows, [Next]_vars
             PROVE  /\ (Borrowed => Follows)'
                    /\ \A q \in Quotes(before.w.reserve, arb.pools, arb.amountIn) :
                         Borrowed /\ Len(txs') > Len(txs) /\ q[Len(q)] >= AmountToRepay
                           => /\ txs'[Len(txs')]
                              /\ wallet'[WETH] - before.wallet[WETH]
                                   >= q[Len(q)] - AmountToRepay
  OBVIOUS
<1>t. txs \in Seq(BOOLEAN) /\ (txs' = txs => ~(Len(txs') > Len(txs)))
  <2>1. txs \in Seq(BOOLEAN)
    BY DEF IndInv, TypeOK
  <2> QED BY <2>1
<1>q. \A q \in Quotes(before.w.reserve, arb.pools, arb.amountIn) :
        \E v \in Quoted[Len(arb.pools)] : q = v.amounts /\ q[Len(q)] = AmountIn(v)
  BY DEF Quotes, Quoted, AmountIn
<1>0. CASE ~Borrowed /\ arb' = arb /\ loan' = loan
  BY <1>0 DEF Borrowed
<1>1. CASE Trade \/ CallbackByAnyone
  <2>1. pc' = "idle" /\ txs' = txs
    BY <1>1 DEF Trade, CallbackByAnyone
  <2> QED BY <1>t, <2>1 DEF Follows
<1>2. CASE ExecuteArbitrage \/ LoanByAnyone
  <2>1. txs' = txs
    BY <1>2 DEF ExecuteArbitrage, LoanByAnyone, ExecuteOperation
  <2> QED BY <1>2, <1>t, <2>1, FollowsStart
<1>3. CASE Borrowed /\ (SwapV2Pool \/ SwapV3Pool \/ UniswapV3SwapCallback)
  <2>1. txs' = txs
    BY <1>3 DEF SwapV2Pool, SwapV3Pool, UniswapV3SwapCallback
  <2> QED BY <1>3, <1>t, <2>1, FollowsSwaps
<1>4. CASE Borrowed /\ RepayFromBalance
  <2>1. txs' = txs
    BY <1>4 DEF RepayFromBalance
  <2> QED BY <1>4, <1>t, <2>1, FollowsRepays
<1>5. CASE Borrowed /\ Collect
  <2>1. pc = "collect" /\ pc' = "idle" /\ wallet' = wallet /\ txs' = Append(txs, TRUE)
    BY <1>5 DEF Collect
  <2>2. txs'[Len(txs')]
    <3>1. Append(txs, TRUE)[Len(Append(txs, TRUE))] = TRUE
      BY <1>t
    <3> QED BY <2>1, <3>1
  <2>3. \A v \in Quoted[Len(arb.pools)] :
          wallet[WETH] - before.wallet[WETH] >= AmountIn(v) - AmountToRepay
    BY <1>5, <2>1 DEF Follows
  <2> QED BY <1>q, <2>1, <2>2, <2>3 DEF Follows
<1>6. CASE Borrowed /\ Revert
  <2>1. pc' = "idle"
    BY <1>6 DEF Revert
  <2> QED BY <1>6, <1>q, <2>1, QuotedSucceeds DEF Follows
<1>f. SwapV2Pool \/ SwapV3Pool \/ UniswapV3SwapCallback \/ RepayFromBalance \/ Collect \/ Revert
        => arb' = arb /\ loan' = loan
  BY DEF SwapV2Pool, SwapV3Pool, UniswapV3SwapCallback, RepayFromBalance, Collect, Revert
<1>7. CASE UNCHANGED vars
  <2>1. Quoted' = Quoted /\ Pool' = Pool /\ AmountToRepay' = AmountToRepay /\ Borrowed' = Borrowed
    BY <1>7 DEF vars, Quoted, Pool, AmountToRepay, Borrowed
  <2>2. (Borrowed => Follows)'
    BY <1>7, <2>1 DEF vars, Follows, Ahead
  <2> QED BY <1>7, <1>t, <2>2 DEF vars
<1> QED
  BY <1>0, <1>1, <1>2, <1>3, <1>4, <1>5, <1>6, <1>7, <1>f DEF Next

\* If the quoter and the contract know the same fees of V2 pools, then a transaction
\* that is lent what it sends, and finds the pools as they were quoted, succeeds whenever
\* the quote covers the loan and its premium, and gives the caller what the quote leaves
\* or more: over V2 and V3 pools, V3 pools that cannot take all of the input and pools
\* that refuse.
THEOREM PromiseKept == FeesAgree => (Spec => QuoteKept)
<1> SUFFICES ASSUME FeesAgree PROVE Spec => QuoteKept
  OBVIOUS
<1> DEFINE J == Borrowed => Follows
<1>1. Init => J
  BY DEF Init, Follows
<1>2. IndInv /\ J /\ [Next]_vars
        => [\A q \in Quotes(before.w.reserve, arb.pools, arb.amountIn) :
              Borrowed /\ Len(txs') > Len(txs) /\ q[Len(q)] >= AmountToRepay
                => /\ txs'[Len(txs')]
                   /\ wallet'[WETH] - before.wallet[WETH] >= q[Len(q)] - AmountToRepay]_vars
  BY FollowsStep
<1>3. IndInv /\ J /\ [Next]_vars => J'
  BY FollowsStep
<1> QED BY <1>1, <1>2, <1>3, InitIndInv, NextIndInv, PTL DEF Spec, QuoteKept
=============================================================================

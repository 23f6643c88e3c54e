----------------------------- MODULE FlashSwap -----------------------------
(***************************************************************************)
(* FlashSwap.sol: the arbitrage transaction that the sender posts.  It     *)
(* borrows WETH from the Aave pool, swaps along the path, repays the loan  *)
(* with its premium and gives the caller what is left.  A transaction runs *)
(* on its own, one call after another, and a call that fails undoes it.    *)
(* The contract does not ask who calls: anybody's flash loan of any token  *)
(* may come to executeOperation, and anybody may call the swap callback.   *)
(* Between transactions anybody may trade with the pools.                  *)
(***************************************************************************)
EXTENDS FlashQuoter

CONSTANTS
  Paths,      \* the paths: sequences of pools, from WETH to WETH, or empty
  Amounts,    \* the inputs a path is sent with, and the amounts lent
  FactoryFee, \* for each pool, the factoryFees entry of its factory
  PremiumRate, \* what the lender charges for a loan, of PRECISION
  Funds,      \* what the lender has of each token at first
  Reserves,   \* for each pool, the pairs <<token0, token1>> it may hold
  MaxTxs,     \* bound: transactions in a behaviour
  MaxTrades   \* bound: trades and callbacks by others

\* The tokens a path goes through, from WETH to WETH.
Routes(path) ==
  {t \in [1 .. Len(path) + 1 -> Tokens] :
     /\ t[1] = WETH /\ t[Len(path) + 1] = WETH
     /\ \A i \in 1 .. Len(path) : {t[i], t[i + 1]} = {Token0[path[i]], Token1[path[i]]}}

ASSUME PathAssumption == \A path \in Paths : path \in Seq(Pools) /\ Routes(path) # {}
ASSUME FlashAssumption ==
  /\ Amounts \subseteq Nat
  /\ FactoryFee \in [Pools -> 0 .. PRECISION]
  /\ PremiumRate \in Nat /\ Funds \in Nat /\ MaxTxs \in Nat /\ MaxTrades \in Nat
  /\ Reserves \in [Pools -> SUBSET (Nat \X Nat)]

VARIABLES
  w,         \* the pools, the contract's tokens and the loop (see Swaps)
  pc,        \* "idle", or where the transaction is: "swap", "callback", "collect"
  arb,       \* the transaction's SwapParams
  loan,      \* asset and amount, as the lender passes them to executeOperation
  owed,      \* what a V3 pool has sent, and what it is to get for it
  allowance, \* what the lender may take of the asset from the contract
  vault,     \* the lender's tokens
  wallet,    \* what the contract has paid out of each token
  before,    \* the state as the transaction found it
  txs,       \* history: of every transaction, whether it succeeded
  trades     \* trades and callbacks by others so far

vars == <<w, pc, arb, loan, owed, allowance, vault, wallet, before, txs, trades>>

NoArb  == [pools |-> <<>>, amountIn |-> 0]
NoLoan == [asset |-> WETH, amount |-> 0]
NoDebt == [in |-> 0, out |-> 0]
State  == [w |-> w, allowance |-> allowance, vault |-> vault, wallet |-> wallet]

\* The lender rounds to the nearest.
Premium(amount) == (amount * PremiumRate + PRECISION \div 2) \div PRECISION
AmountToRepay   == loan.amount + Premium(loan.amount)
Balance         == w.held[loan.asset]

\* The contract holds asset in the amount n, and its loop has come to token and amounts.
Contract(asset, n, token, amounts) ==
  [reserve |-> w.reserve, held |-> [w.held EXCEPT ![asset] = n],
   token |-> token, amounts |-> amounts]

\* A pool holding r[1] of its first token and r[2] of its second.
Holding(p, r) == [t \in Tokens |-> IF t = Token0[p] THEN r[1]
                                   ELSE IF t = Token1[p] THEN r[2] ELSE 0]

Init ==
  /\ \E r \in [Pools -> UNION {Reserves[p] : p \in Pools}] :
       /\ \A p \in Pools : r[p] \in Reserves[p]
       /\ w = [reserve |-> [p \in Pools |-> Holding(p, r[p])],
               held |-> [t \in Tokens |-> 0], token |-> WETH, amounts |-> <<>>]
  /\ pc = "idle" /\ arb = NoArb /\ loan = NoLoan /\ owed = NoDebt
  /\ allowance = 0
  /\ vault = [t \in Tokens |-> Funds] /\ wallet = [t \in Tokens |-> 0]
  /\ before = State
  /\ txs = <<>> /\ trades = 0

\* Another transaction changes a pool.
Trade ==
  /\ pc = "idle" /\ trades < MaxTrades
  /\ \E p \in Pools : \E r \in Reserves[p] :
       w' = [w EXCEPT !.reserve[p] = Holding(p, r)]
  /\ trades' = trades + 1
  /\ UNCHANGED <<pc, arb, loan, owed, allowance, vault, wallet, before, txs>>

\* uniswapV3SwapCallback tests neither its caller nor its time: in a transaction of its
\* own it pays out what the contract holds, to whom it is told.
CallbackByAnyone ==
  /\ pc = "idle" /\ trades < MaxTrades
  /\ \E t \in Tokens : \E n \in 1 .. w.held[t] : w' = [w EXCEPT !.held[t] = @ - n]
  /\ trades' = trades + 1
  /\ UNCHANGED <<pc, arb, loan, owed, allowance, vault, wallet, before, txs>>

-----------------------------------------------------------------------------
(* The transaction. *)

\* flashLoanSimple: the lender pays out the loan and calls executeOperation, which
\* sets out in WETH, whatever was lent.  (The allowance that the loop then gives each
\* pool is left out: no pool makes use of it, V2 pools are paid by transfer and V3
\* pools in the callback.)
ExecuteOperation(asset, amount, path, amountIn) ==
  /\ pc = "idle" /\ Len(txs) < MaxTxs
  /\ vault[asset] >= amount
  /\ vault' = [vault EXCEPT ![asset] = @ - amount]
  /\ arb' = [pools |-> path, amountIn |-> amountIn]
  /\ loan' = [asset |-> asset, amount |-> amount]
  /\ w' = Contract(asset, w.held[asset] + amount, WETH, <<amountIn>>)
  /\ before' = State
  /\ pc' = "swap"
  /\ UNCHANGED <<owed, allowance, wallet, txs, trades>>

\* executeArbitrage takes out the loan itself ...
ExecuteArbitrage ==
  \E path \in Paths, amount \in Amounts : ExecuteOperation(WETH, amount, path, amount)

\* ... but the initiator is ignored: anybody may have the lender make the call, with a
\* loan of another token or amount.
LoanByAnyone ==
  \E asset \in Tokens, amount \in Amounts, path \in Paths, amountIn \in Amounts :
    ExecuteOperation(asset, amount, path, amountIn)

InLoop   == pc = "swap" /\ Len(w.amounts) <= Len(arb.pools)
LoopOver == pc = "swap" /\ Len(w.amounts) > Len(arb.pools)
Pool     == arb.pools[Len(w.amounts)]

SwapV2Pool ==
  /\ InLoop /\ Pool \notin IsV3
  /\ V2Succeeds(w, Pool, FactoryFee[Pool])
  /\ w' = SwapV2(w, Pool, FactoryFee[Pool])
  /\ UNCHANGED <<pc, arb, loan, owed, allowance, vault, wallet, before, txs, trades>>

\* The V3 pool sends the output and calls back ...
SwapV3Pool ==
  /\ InLoop /\ Pool \in IsV3
  /\ V3Starts(w, Pool)
  /\ w' = V3Sends(w, Pool)
  /\ owed' = [in |-> V3Input(w, Pool), out |-> V3Output(w, Pool)]
  /\ pc' = "callback"
  /\ UNCHANGED <<arb, loan, allowance, vault, wallet, before, txs, trades>>

\* ... and the contract pays.
UniswapV3SwapCallback ==
  /\ pc = "callback"
  /\ CallbackSucceeds(w, owed.in)
  /\ w' = Onward(Callback(w, Pool, owed.in), Pool, owed.out)
  /\ owed' = NoDebt
  /\ pc' = "swap"
  /\ UNCHANGED <<arb, loan, allowance, vault, wallet, before, txs, trades>>

\* The end of executeOperation: what is there of the asset beyond the debt goes to the
\* caller, and the lender is allowed to take the debt.
RepayProfitOnly ==   \* mutant: pays out by the amounts, not by the balance
  /\ LoopOver
  /\ AmountIn(w) >= AmountToRepay /\ Balance >= AmountIn(w)
  /\ allowance' = AmountToRepay
  /\ wallet' = [wallet EXCEPT ![loan.asset] = @ + (AmountIn(w) - AmountToRepay)]
  /\ w' = Contract(loan.asset, Balance - (AmountIn(w) - AmountToRepay), w.token, w.amounts)
  /\ pc' = "collect"
  /\ UNCHANGED <<arb, loan, owed, vault, before, txs, trades>>
RepayApprovesLoan ==   \* mutant: the premium is not approved
  /\ LoopOver
  /\ Balance >= AmountToRepay
  /\ allowance' = loan.amount
  /\ wallet' = [wallet EXCEPT ![loan.asset] = @ + (Balance - AmountToRepay)]
  /\ w' = Contract(loan.asset, AmountToRepay, w.token, w.amounts)
  /\ pc' = "collect"
  /\ UNCHANGED <<arb, loan, owed, vault, before, txs, trades>>
RepayFromBalance ==
  /\ LoopOver
  /\ Balance >= AmountToRepay
  /\ allowance' = AmountToRepay
  /\ wallet' = [wallet EXCEPT ![loan.asset] = @ + (Balance - AmountToRepay)]
  /\ w' = Contract(loan.asset, AmountToRepay, w.token, w.amounts)
  /\ pc' = "collect"
  /\ UNCHANGED <<arb, loan, owed, vault, before, txs, trades>>

\* The lender takes its due, and the transaction is done.
Collectable == allowance >= AmountToRepay /\ Balance >= AmountToRepay
Collect ==
  /\ pc = "collect" /\ Collectable
  /\ vault' = [vault EXCEPT ![loan.asset] = @ + AmountToRepay]
  /\ allowance' = allowance - AmountToRepay
  /\ w' = Contract(loan.asset, Balance - AmountToRepay, WETH, <<>>)
  /\ txs' = Append(txs, TRUE)
  /\ pc' = "idle"
  /\ UNCHANGED <<arb, loan, owed, wallet, before, trades>>

\* A call fails and takes the transaction with it.
Fails ==
  \/ InLoop /\ Pool \notin IsV3 /\ ~V2Succeeds(w, Pool, FactoryFee[Pool])
  \/ InLoop /\ Pool \in IsV3 /\ ~V3Starts(w, Pool)
  \/ pc = "callback" /\ ~CallbackSucceeds(w, owed.in)
  \/ LoopOver /\ Balance < AmountToRepay
  \/ pc = "collect" /\ ~Collectable
Revert ==
  /\ Fails
  /\ w' = before.w
  /\ allowance' = before.allowance /\ vault' = before.vault /\ wallet' = before.wallet
  /\ txs' = Append(txs, FALSE)
  /\ owed' = NoDebt
  /\ pc' = "idle"
  /\ UNCHANGED <<arb, loan, before, trades>>

Next == \/ Trade \/ CallbackByAnyone \/ ExecuteArbitrage \/ LoanByAnyone
        \/ SwapV2Pool \/ SwapV3Pool \/ UniswapV3SwapCallback
        \/ RepayFromBalance \/ Collect \/ Revert

Spec == Init /\ [][Next]_vars

-----------------------------------------------------------------------------
(* Properties. *)

\* Type invariant: no token is held or owed in a negative amount at any point of a
\* transaction, and currentTokenIn follows the path, so that the loop ends in WETH.
TypeOK ==
  /\ w \in World
  /\ pc \in {"idle", "swap", "callback", "collect"}
  /\ arb \in [pools : Paths \cup {<<>>}, amountIn : Amounts \cup {0}]
  /\ loan \in [asset : Tokens, amount : Amounts \cup {0}]
  /\ owed \in [in : Nat, out : Nat]
  /\ allowance \in Nat /\ vault \in [Tokens -> Nat] /\ wallet \in [Tokens -> Nat]
  /\ before \in [w : World, allowance : Nat, vault : [Tokens -> Nat], wallet : [Tokens -> Nat]]
  /\ txs \in Seq(BOOLEAN)
  /\ trades \in 0 .. MaxTrades
  /\ IF pc = "idle"
       THEN w.amounts = <<>> /\ w.token = WETH
       ELSE /\ Len(w.amounts) \in 1 .. Len(arb.pools) + 1
            /\ \E t \in Routes(arb.pools) : w.token = t[Len(w.amounts)]
  /\ pc = "callback" => Len(w.amounts) <= Len(arb.pools)

\* Between transactions the contract has neither WETH nor a debt it has approved: the
\* profit, and any input that a V3 pool would not take, are the caller's.  Neither a
\* loan of another token, which meets a loop that sets out in WETH, nor one of another
\* amount than the path is sent with may leave any there, for anybody could take it.
WethForwarded == pc = "idle" => w.held[WETH] = 0 /\ allowance = 0

\* What is lent is what the path is sent with, as executeArbitrage has it.
Borrowed == loan = [asset |-> WETH, amount |-> arb.amountIn]

\* What a quote promises, the transaction keeps if the pools are as quoted: if the
\* last amount of the quote covers the loan and its premium then the transaction
\* succeeds, and the caller gets at least the difference.  quoter.rs quotes to
\* "confirm that our offchain calculations are reasonable and make sure we can
\* swap the tokens".
QuoteKept ==
  [][\A q \in Quotes(before.w.reserve, arb.pools, arb.amountIn) :
       Borrowed /\ Len(txs') > Len(txs) /\ q[Len(q)] >= AmountToRepay
         => /\ txs'[Len(txs')]
            /\ wallet'[WETH] - before.wallet[WETH] >= q[Len(q)] - AmountToRepay]_vars

\* An arbitrage pays its way with its own WETH alone: what earlier transactions left in
\* the contract of other tokens (what a V3 pool at the end of its liquidity would not
\* take) makes up for nothing that it lacks.  Such tokens are not kept for anybody:
\* a callback or a loan of another token may take them in between.
NoTokenSpent ==
  [][Len(txs') > Len(txs) /\ loan.asset = WETH =>
       \A t \in Tokens \ {WETH} : w'.held[t] >= before.w.held[t]]_vars

=============================================================================

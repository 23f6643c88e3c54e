------------------------------ MODULE Searcher ------------------------------
(***************************************************************************)
(* The searcher thread (searcher.rs) with the calculator and its cache     *)
(* (calculator.rs, cache.rs) and the estimator's rates, fed by the updater *)
(* task of market_state.rs: blocks change pools in the shared database,    *)
(* and an event per block tells the searcher which ones.                   *)
(*                                                                         *)
(* The updater here is the streaming half of MarketState, pool by pool: a  *)
(* write of the database under its lock, then the event.  Every pool       *)
(* trades WETH, as the pools of the two-step cycles do.                    *)
(***************************************************************************)
EXTENDS Amounts, Sequences

CONSTANTS
  Pools,       \* the pools of the cycles
  Weth,        \* for each pool, which of its tokens is WETH
  Decimals,    \* for each pool, the decimals of its two tokens
  Fee,         \* for each pool, its fee factor
  States,      \* for each pool, the reserves it may have
  Cycles,      \* the swap paths: sequences of steps [pool, token_in]
  Amount,      \* AMOUNT, the input of every arbitrage
  MaxEstimate, \* estimates from here on are not believed (1e18)
  Slack,       \* what rounding may take off an estimate, for NoProfitMissed
  MaxBlocks    \* bound: blocks applied in a behaviour

Steps == [pool : Pools, token_in : {0, 1}]

\* The states the pools of P may be in.
StatesOf(P) ==
  {s \in [P -> UNION {States[p] : p \in P}] : \A p \in P : s[p] \in States[p]}

ASSUME PoolAssumption ==
  /\ Weth \in [Pools -> {0, 1}]
  /\ Decimals \in [Pools -> [{0, 1} -> Nat]]
  /\ Fee \in [Pools -> 1 .. FeeBase]
  /\ States \in [Pools -> SUBSET ((Nat \ {0}) \X (Nat \ {0}))]
ASSUME CyclesAssumption == Cycles \subseteq Seq(Steps)
ASSUME AmountAssumption ==
  /\ Amount \in Nat \ {0} /\ MaxEstimate \in Nat /\ Slack \in Nat /\ MaxBlocks \in Nat

VARIABLES
  db,         \* the pools' reserves in the shared database
  upc,        \* the updater: "idle", "notify" or "stopped"
  touched,    \* the pools of the block it is processing
  address_tx, \* the channel of PoolsTouched events
  spc,        \* where the searcher thread is
  event,      \* the event it is processing
  todo,       \* pools whose rates are still to be updated
  quoted,     \* the first quote of the pool whose rates are being updated
  rates,      \* the estimator's rates
  cache,      \* the calculator's cache: (pool, amount in) to amount out
  path,       \* the path being calculated
  trail,      \* the amounts calculated along it so far
  output,     \* an amount computed and not yet cached
  paths_tx,   \* history: the ArbPath events sent to the simulator
  versions    \* history: the database at first and after each block

updaterVars == <<db, upc, touched, versions>>
vars == <<db, upc, touched, address_tx, spc, event, todo, quoted, rates, cache, path,
          trail, output, paths_tx, versions>>

NoQuote  == <<>>
NoOutput == -1
NoEvent == [pools |-> {}, block |-> 0]

FlashLoanFee == (Amount * 9) \div 10000
MinProfit == Amount + FlashLoanFee + Amount \div 100

Quote(p, t, s, amount) == AmountOut(s, t, Fee[p], amount)
Rates(p, out, back) == EthPoolRates(Weth[p], Decimals[p], Amount, out, back)

\* estimate_output_amount: follow the path at the stored rates.
Estimate(c) ==
  LET amount[n \in 0 .. Len(c)] ==
        IF n = 0 THEN Amount
        ELSE (amount[n - 1] * rates[c[n].pool][c[n].token_in]) \div PowTen[RateScale]
  IN  amount[Len(c)]

PoolsOf(c) == {c[i].pool : i \in DOMAIN c}

-----------------------------------------------------------------------------
\* The thread starts once main has computed the rates of all pools.
Init ==
  /\ db \in StatesOf(Pools)
  /\ upc = "idle" /\ touched = {}
  /\ address_tx = <<>>
  /\ spc = "rates" /\ event = NoEvent /\ todo = Pools /\ quoted = NoQuote
  /\ rates = [p \in Pools |-> [t \in {0, 1} |-> 0]]
  /\ cache = <<>>
  /\ path = <<>> /\ trail = <<>> /\ output = NoOutput
  /\ paths_tx = <<>>
  /\ versions = <<db>>

-----------------------------------------------------------------------------
(* The updater task. *)

Applied == Len(versions) - 1    \* blocks applied

\* update_state of the next block, under the write lock.
ApplyBlock ==
  /\ upc = "idle" /\ Applied < MaxBlocks
  /\ \E P \in SUBSET Pools : \E s \in StatesOf(P) :
       /\ db' = [p \in Pools |-> IF p \in P THEN s[p] ELSE db[p]]
       /\ touched' = P
  /\ versions' = Append(versions, db')
  /\ upc' = "notify"
  /\ UNCHANGED <<address_tx, spc, event, todo, quoted, rates, cache, path, trail, output, paths_tx>>

SendTouched ==
  /\ upc = "notify"
  /\ address_tx' = Append(address_tx, [pools |-> touched, block |-> Applied])
  /\ touched' = {}
  /\ upc' = "idle"
  /\ UNCHANGED <<db, versions, spc, event, todo, quoted, rates, cache, path, trail, output, paths_tx>>

\* The task ends: its sender is dropped.
UpdaterStops ==
  /\ upc = "idle"
  /\ upc' = "stopped"
  /\ UNCHANGED <<db, touched, versions, address_tx, spc, event, todo, quoted, rates,
                 cache, path, trail, output, paths_tx>>

-----------------------------------------------------------------------------
(* The searcher thread: search_paths. *)

ReceiveKeepsCache ==   \* mutant: the cache is not invalidated
  /\ spc = "recv" /\ address_tx # <<>>
  /\ event' = Head(address_tx)
  /\ address_tx' = Tail(address_tx)
  /\ todo' = event'.pools
  /\ spc' = "rates"
  /\ UNCHANGED <<updaterVars, quoted, rates, cache, path, trail, output, paths_tx>>
ReceiveKeepsRates ==   \* mutant: update_rates is left out
  /\ spc = "recv" /\ address_tx # <<>>
  /\ event' = Head(address_tx)
  /\ address_tx' = Tail(address_tx)
  /\ cache' = [k \in {j \in DOMAIN cache : j[1] \notin event'.pools} |-> cache[k]]
  /\ spc' = "rates"
  /\ UNCHANGED <<updaterVars, todo, quoted, rates, path, trail, output, paths_tx>>
\* Receive an event and drop the cache entries of its pools.
Receive ==
  /\ spc = "recv" /\ address_tx # <<>>
  /\ event' = Head(address_tx)
  /\ address_tx' = Tail(address_tx)
  /\ cache' = [k \in {j \in DOMAIN cache : j[1] \notin event'.pools} |-> cache[k]]
  /\ todo' = event'.pools
  /\ spc' = "rates"
  /\ UNCHANGED <<updaterVars, quoted, rates, path, trail, output, paths_tx>>

\* update_rates: for each pool a quote of the input out of WETH, then a quote of
\* what it gave back into WETH.  Each takes the read lock anew.
QuoteOut ==
  /\ spc = "rates"
  /\ \E p \in todo :
       quoted' = [pool |-> p, out |-> Quote(p, Weth[p], db[p], Amount)]
  /\ spc' = "back"
  /\ UNCHANGED <<updaterVars, address_tx, event, todo, rates, cache, path, trail,
                 output, paths_tx>>

QuoteBack ==
  /\ spc = "back"
  /\ LET p == quoted.pool
     IN  /\ rates' = [rates EXCEPT ![p] =
                        Rates(p, quoted.out, Quote(p, 1 - Weth[p], db[p], quoted.out))]
         /\ todo' = todo \ {p}
  /\ quoted' = NoQuote
  /\ spc' = "rates"
  /\ UNCHANGED <<updaterVars, address_tx, event, cache, path, trail, output, paths_tx>>

\* The paths through a touched pool whose estimate is believable and in profit.
Candidates ==
  {c \in Cycles : /\ PoolsOf(c) \cap event.pools # {}
                  /\ Estimate(c) >= MinProfit /\ Estimate(c) < MaxEstimate}

\* Choose a best one, or none.
Choose ==
  /\ spc = "rates" /\ todo = {}
  /\ IF Candidates = {}
       THEN spc' = "recv" /\ UNCHANGED <<path, trail>>
       ELSE /\ \E c \in Candidates :
                 /\ \A d \in Candidates : Estimate(d) <= Estimate(c)
                 /\ path' = c
            /\ trail' = <<Amount>>
            /\ spc' = "calc"
  /\ UNCHANGED <<updaterVars, address_tx, event, todo, quoted, rates, cache, output, paths_tx>>

\* calculate_output, one step: the amount so far goes into the next pool.  A
\* zero amount ends the path.
Step     == path[Len(trail)]
AmountIn == trail[Len(trail)]
Key      == <<Step.pool, AmountIn>>
Finished == Len(trail) > Len(path) \/ (Len(trail) > 1 /\ AmountIn = 0)

CacheHit ==
  /\ spc = "calc" /\ ~Finished
  /\ Key \in DOMAIN cache
  /\ trail' = Append(trail, cache[Key])
  /\ UNCHANGED <<updaterVars, address_tx, spc, event, todo, quoted, rates, cache, path,
                 output, paths_tx>>

\* A miss computes the output under the read lock, and caches it after.
Compute ==
  /\ spc = "calc" /\ ~Finished
  /\ Key \notin DOMAIN cache
  /\ output' = Quote(Step.pool, Step.token_in, db[Step.pool], AmountIn)
  /\ spc' = "store"
  /\ UNCHANGED <<updaterVars, address_tx, event, todo, quoted, rates, cache, path, trail, paths_tx>>

Store ==
  /\ spc = "store"
  /\ cache' = [k \in DOMAIN cache \cup {Key} |-> IF k = Key THEN output ELSE cache[k]]
  /\ trail' = Append(trail, output)
  /\ output' = NoOutput
  /\ spc' = "calc"
  /\ UNCHANGED <<updaterVars, address_tx, event, todo, quoted, rates, path, paths_tx>>

ReportKeepsPath ==   \* mutant: the path is not dropped
  /\ spc = "calc" /\ Finished
  /\ paths_tx' = IF AmountIn >= MinProfit
                   THEN Append(paths_tx, [path |-> path, trail |-> trail, block |-> event.block])
                   ELSE paths_tx
  /\ spc' = "recv"
  /\ UNCHANGED <<updaterVars, address_tx, event, todo, quoted, rates, cache, path, trail, output>>
\* Send the path if it is still in profit, then wait for the next event.
Report ==
  /\ spc = "calc" /\ Finished
  /\ paths_tx' = IF AmountIn >= MinProfit
                   THEN Append(paths_tx, [path |-> path, trail |-> trail, block |-> event.block])
                   ELSE paths_tx
  /\ path' = <<>> /\ trail' = <<>>
  /\ spc' = "recv"
  /\ UNCHANGED <<updaterVars, address_tx, event, todo, quoted, rates, cache, output>>

\* The channel is empty and its sender gone: the thread ends.
Disconnected ==
  /\ spc = "recv" /\ address_tx = <<>> /\ upc = "stopped"
  /\ spc' = "stopped"
  /\ UNCHANGED <<updaterVars, address_tx, event, todo, quoted, rates, cache, path, trail,
                 output, paths_tx>>

\* A task panicked with the write lock in its hands: read().unwrap() ends the
\* thread where it next takes the lock, its locals as they are.
LockPoisoned ==
  /\ \/ spc \in {"rates", "back"}
     \/ spc = "calc" /\ ~Finished /\ Key \notin DOMAIN cache
  /\ spc' = "dead"
  /\ UNCHANGED <<updaterVars, address_tx, event, todo, quoted, rates, cache, path, trail,
                 output, paths_tx>>

Search == \/ Receive \/ QuoteOut \/ QuoteBack \/ Choose \/ CacheHit \/ Compute \/ Store
          \/ Report \/ Disconnected

Next == \/ ApplyBlock \/ SendTouched \/ UpdaterStops
        \/ Receive \/ QuoteOut \/ QuoteBack \/ Choose \/ CacheHit \/ Compute \/ Store
        \/ Report \/ Disconnected \/ LockPoisoned

Spec == Init /\ [][Next]_vars

\* The searcher has a thread of its own, and the updater has nothing to wait
\* for between the write and the event.
FairSpec == Spec /\ WF_vars(Search) /\ WF_vars(SendTouched)

-----------------------------------------------------------------------------
(* Properties. *)

Event == [pools : SUBSET Pools, block : 0 .. MaxBlocks]

\* Type invariant: every variable holds what the code's types allow, and the
\* locals of one iteration of search_paths are empty between iterations.
Types ==
  /\ db \in StatesOf(Pools)
  /\ upc \in {"idle", "notify", "stopped"}
  /\ touched \subseteq Pools
  /\ upc # "notify" => touched = {}
  /\ address_tx \in Seq(Event)
  /\ spc \in {"recv", "rates", "back", "calc", "store", "stopped", "dead"}
  /\ event \in Event
  /\ todo \subseteq Pools
  /\ spc \notin {"rates", "back", "dead"} => todo = {}
  /\ spc = "back" => quoted \in [pool : todo, out : Nat]
  /\ DOMAIN rates = Pools
  /\ DOMAIN cache \subseteq Pools \X Nat
  /\ \A k \in DOMAIN cache : cache[k] \in Nat
  /\ spc \in {"calc", "store"} => path \in Cycles /\ trail # <<>>
  /\ spc \notin {"calc", "store", "dead"} => path = <<>> /\ trail = <<>>
  /\ spc = "store" => Len(trail) <= Len(path)
  /\ trail \in Seq(Nat)
  /\ IF spc = "store" THEN output \in Nat ELSE output = NoOutput
  /\ paths_tx \in Seq([path : Cycles, trail : Seq(Nat), block : 0 .. MaxBlocks])
  /\ versions \in Seq(StatesOf(Pools)) /\ Applied \in 0 .. MaxBlocks

TypeOK == Types /\ rates \in [Pools -> [{0, 1} -> Nat]]

\* The pools whose last change the searcher has not been told of, or has been
\* told of by an event it has not received.
Pending == touched \cup UNION {address_tx[i].pools : i \in DOMAIN address_tx}

\* Once a pool's changes have been announced, the cache holds no output from
\* before them: every cached output is what the pool gives now, for one of its
\* two directions (the key does not say which).  calculator.rs calls this an "up
\* to date cache"; searcher.rs invalidates before it calculates.
CacheFresh ==
  \A k \in DOMAIN cache :
    k[1] \notin Pending => \E t \in {0, 1} : cache[k] = Quote(k[1], t, db[k[1]], k[2])

\* The rates the pool would have if it were quoted now.
CurrentRates(p) ==
  LET out == Quote(p, Weth[p], db[p], Amount)
  IN  Rates(p, out, Quote(p, 1 - Weth[p], db[p], out))

\* The estimator's rates belong to one state of the pool, the current one, unless
\* a change is pending: rates made of two quotes with a block between them, or
\* left from before a block, are always redone.
RatesFresh ==
  \A p \in Pools : p \in Pending \cup todo \/ rates[p] = CurrentRates(p)

\* out is what pool p gave for amount, in one direction, at block b or after it.
GaveSince(p, amount, out, b) ==
  \E v \in b .. Applied : \E t \in {0, 1} : out = Quote(p, t, versions[v + 1][p], amount)

\* No path is sent to the simulator on an outdated quote: each of its amounts is
\* what its pool gives, in one direction, in the database as the event's block or
\* a later one left it.
QuotedSinceEvent ==
  \A i \in DOMAIN paths_tx :
    LET e == paths_tx[i]
    IN  /\ Len(e.trail) = Len(e.path) + 1
        /\ \A n \in DOMAIN e.path :
             GaveSince(e.path[n].pool, e.trail[n], e.trail[n + 1], e.block)

\* What a path gives when no block comes in between.
ActualOutput(c) ==
  LET amount[n \in 0 .. Len(c)] ==
        IF n = 0 THEN Amount
        ELSE Quote(c[n].pool, c[n].token_in, db[c[n].pool], amount[n - 1])
  IN  amount[Len(c)]

\* The estimator throws away no path that is in profit.  It takes each pool's
\* rates at the amount the pool itself gives for the input, not at the amount
\* that arrives there; that the real output is never the better one rests on the
\* pools' curves, and on nothing being stale.
NoProfitMissed ==
  spc = "rates" /\ todo = {} /\ Pending = {} =>
    \A c \in Cycles :
      PoolsOf(c) \cap event.pools # {} /\ ActualOutput(c) >= MinProfit + Slack
        => c \in Candidates

\* The cycles for which NoProfitMissed is proved: out of WETH and back into it, where
\* WETH is the first token of both pools, and nothing is cut off to scale to a rate.
TwoHops ==
  \A c \in Cycles : \E p, q \in Pools :
    /\ c = <<[pool |-> p, token_in |-> 0], [pool |-> q, token_in |-> 1]>>
    /\ Weth[p] = 0 /\ Weth[q] = 0
    /\ Decimals[p] = Decimals[q]
    /\ Decimals[p][0] <= RateScale /\ Decimals[p][1] <= RateScale

\* In no state of the pools of a cycle do its four divisions, of z into the rate at y
\* and of x through it, cost more than n, nor does its estimate reach MaxEstimate.
RoundingWithin(n) ==
  /\ n > 0
  /\ \A c \in Cycles : \A s \in States[c[1].pool], u \in States[c[2].pool] :
       LET q == c[2].pool
           x == Quote(c[1].pool, 0, s, Amount)
           y == Quote(q, 0, u, Amount)
           z == Quote(q, 1, u, y)
           T == PowTen[RateScale]
           L == PowTen[RateScale - Decimals[q][0]]
           K == PowTen[RateScale - Decimals[q][1]]
       IN  x > 0 /\ y <= x =>
             /\ n * (y * K * T * L) >= x * y * K * K + z * (T + Amount) * L * L + x * K * T * L
             /\ x * z < MaxEstimate * y

\* The rate stored for a token is the rate of swaps that put that token in, as
\* estimate_output_amount takes it to be.
RateOfToken ==
  \A p \in Pools \ (Pending \cup todo) :
    LET out  == Quote(p, Weth[p], db[p], Amount)
    IN  rates[p][Weth[p]] = CalculateRate(Amount, out, Decimals[p][Weth[p]], Decimals[p][1 - Weth[p]])

\* When blocks stop coming, the estimator comes to agree with the database for
\* good, no matter how the last blocks met the calculations, unless the thread died.
Settles == <>[](spc = "dead" \/ \A p \in Pools : rates[p] = CurrentRates(p))

=============================================================================

--------------------------- MODULE SearcherProofs ---------------------------
(***************************************************************************)
(* Proofs about the searcher: the calculator's cache and the estimator's   *)
(* rates stay fresh up to the events on their way, for any pools, reserves,*)
(* cycles and amounts; and a cycle of two hops in profit is not estimated  *)
(* away, by the shape of the pools' curve.                                 *)
(***************************************************************************)
EXTENDS Searcher, SequenceTheorems, WellFoundedInduction, TLAPS

(***************************************************************************)
(* The parts of the inductive invariants.                                  *)
(***************************************************************************)

\* An output on its way to the cache is as fresh as one that is in it.
StoreFresh ==
  spc = "store" =>
    \/ Step.pool \in Pending
    \/ \E t \in {0, 1} : output = Quote(Step.pool, t, db[Step.pool], AmountIn)

\* So is the first of the two quotes that rates are made of.
BackFresh ==
  spc = "back" =>
    \/ quoted.pool \in Pending
    \/ quoted.out = Quote(quoted.pool, Weth[quoted.pool], db[quoted.pool], Amount)

\* The events number the blocks: the one being processed, those on their way, and
\* the one still to be sent, in order and without a gap.
EventsNumbered ==
  /\ Applied = event.block + Len(address_tx) + (IF upc = "notify" THEN 1 ELSE 0)
  /\ \A i \in DOMAIN address_tx : address_tx[i].block = event.block + i

\* An event names every pool its block changed, and so does the one still to be sent.
EventsComplete ==
  /\ db = versions[Applied + 1]
  /\ \A i \in DOMAIN address_tx : \A p \in Pools \ address_tx[i].pools :
       versions[event.block + i + 1][p] = versions[event.block + i][p]
  /\ upc = "notify" => \A p \in Pools \ touched :
                         versions[Applied + 1][p] = versions[Applied][p]

\* Nothing that the calculation uses is older than the event it answers: not the
\* cache, not an output on its way to it, not the amounts along the path.
CalculatedSinceEvent ==
  /\ \A k \in DOMAIN cache : GaveSince(k[1], k[2], cache[k], event.block)
  /\ spc = "store" => GaveSince(Step.pool, AmountIn, output, event.block)
  /\ spc \in {"calc", "store"} =>
       /\ Len(trail) <= Len(path) + 1
       /\ \A n \in 1 .. Len(trail) - 1 :
            GaveSince(path[n].pool, trail[n], trail[n + 1], event.block)

QuoteInv ==
  Types /\ EventsNumbered /\ EventsComplete /\ CalculatedSinceEvent /\ QuotedSinceEvent

IndInv == Types /\ CacheFresh /\ RatesFresh /\ StoreFresh /\ BackFresh

(***************************************************************************)
(* Quotes.                                                                 *)
(***************************************************************************)

\* What a pool with some reserves gives is a natural number: the division of
\* uniswap_v2_out is by a positive one.
LEMMA V2OutType ==
  ASSUME NEW a \in Nat, NEW ri \in Nat \ {0}, NEW ro \in Nat, NEW f \in Nat
  PROVE  V2Out(a, ri, ro, f) \in Nat
<1>1. a * f \in Nat
  OBVIOUS
<1>2. (a * f) * ro \in Nat
  BY <1>1
<1>3. ri * FeeBase + a * f \in Nat \ {0}
  BY <1>1 DEF FeeBase
<1>4. \A x \in Nat, y \in Nat \ {0} : x \div y \in Nat
  OBVIOUS
<1> QED BY <1>2, <1>3, <1>4 DEF V2Out

\* A pool of the database is in one of its states.
LEMMA DbType ==
  ASSUME NEW s \in StatesOf(Pools), NEW p \in Pools PROVE s[p] \in States[p]
  BY DEF StatesOf
\* A block leaves every pool in one of its states.
LEMMA BlockStates ==
  ASSUME NEW d \in StatesOf(Pools), NEW P \in SUBSET Pools, NEW s \in StatesOf(P)
  PROVE  [p \in Pools |-> IF p \in P THEN s[p] ELSE d[p]] \in StatesOf(Pools)
<1> DEFINE e == [p \in Pools |-> IF p \in P THEN s[p] ELSE d[p]]
<1>1. \A p \in Pools : e[p] \in States[p]
  BY DEF StatesOf
<1>2. e \in [Pools -> UNION {States[p] : p \in Pools}]
  BY <1>1
<1> QED BY <1>1, <1>2 DEF StatesOf

\* So is the quote of any pool in any of its states.
LEMMA QuoteType ==
  ASSUME NEW p \in Pools, NEW t \in {0, 1}, NEW s \in States[p], NEW a \in Nat
  PROVE  Quote(p, t, s, a) \in Nat
<1>1. Fee[p] \in Nat
  <2>1. Fee \in [Pools -> 1 .. FeeBase]
    BY PoolAssumption
  <2>2. \A n \in 1 .. FeeBase : n \in Nat
    BY DEF FeeBase
  <2> QED BY <2>1, <2>2
<1>2. s \in (Nat \ {0}) \X (Nat \ {0})
  BY PoolAssumption
<1>3. s[1] \in Nat \ {0} /\ s[2] \in Nat \ {0}
  BY <1>2
<1> QED BY <1>1, <1>3, V2OutType DEF Quote, AmountOut

\* The step being calculated is a step of the path, and the amount going into it
\* a natural number.
LEMMA StepType ==
  ASSUME Types, spc \in {"calc", "store"}, Len(trail) <= Len(path)
  PROVE  Step \in Steps /\ AmountIn \in Nat
<1>1. path \in Seq(Steps) /\ trail \in Seq(Nat) /\ trail # <<>>
  BY CyclesAssumption DEF Types
<1>2. Len(trail) \in 1 .. Len(trail) /\ Len(trail) \in 1 .. Len(path)
  BY <1>1
<1> QED BY <1>1, <1>2 DEF Step, AmountIn

\* So does applying a block to the database.
LEMMA BlockType ==
  ASSUME db \in StatesOf(Pools), ApplyBlock
  PROVE  db' \in StatesOf(Pools)
<1>1. PICK P \in SUBSET Pools : \E s \in StatesOf(P) :
        db' = [p \in Pools |-> IF p \in P THEN s[p] ELSE db[p]]
  BY DEF ApplyBlock
<1> QED BY <1>1, BlockStates

(***************************************************************************)
(* Powers of ten and rates.                                                *)
(***************************************************************************)

\* A nonempty set of natural numbers has a least element.
LEMMA NatMin ==
  ASSUME NEW T \in SUBSET Nat, T # {}
  PROVE  \E x \in T : \A y \in T : x <= y
<1> DEFINE R == {ss \in Nat \X Nat : ss[1] < ss[2]}
<1>1. PICK x \in T : \A y \in T : ~ (<<y, x>> \in R)
  <2>1. IsWellFoundedOn(R, Nat)
    BY NatLessThanWellFounded DEF OpToRel
  <2> HIDE DEF R
  <2> QED BY <2>1, WFMin
<1>2. ASSUME NEW y \in T PROVE x <= y
  <2>1. <<y, x>> \in Nat \X Nat
    OBVIOUS
  <2> QED BY <1>1, <2>1
<1> QED BY <1>2

\* f holds the powers of ten up to the n-th.
PowersTo(n, f) ==
  /\ f \in [0 .. n -> Nat]
  /\ f[0] = 1
  /\ \A i \in 1 .. n : f[i] = 10 * f[i - 1]

\* Tables of powers of ten agree as far as both go.
LEMMA PowersAgree ==
  ASSUME NEW n \in Nat, NEW m \in Nat, n <= m,
         NEW f, NEW g, PowersTo(n, f), PowersTo(m, g), NEW k \in 0 .. n
  PROVE  f[k] = g[k]
<1> DEFINE T == {i \in 0 .. n : f[i] # g[i]}
<1>1. SUFFICES ASSUME T # {} PROVE FALSE
  OBVIOUS
<1>2. PICK x \in T : \A y \in T : x <= y
  <2>1. T \in SUBSET Nat
    OBVIOUS
  <2> HIDE DEF T
  <2> QED BY <1>1, <2>1, NatMin
<1>3. x # 0
  BY <1>2 DEF PowersTo
<1>4. x \in 1 .. n /\ x \in 1 .. m /\ x - 1 \in 0 .. n /\ ~ (x <= x - 1)
  BY <1>2, <1>3
<1>5. f[x - 1] = g[x - 1]
  BY <1>2, <1>4
<1> QED BY <1>2, <1>4, <1>5 DEF PowersTo

\* There is a table of any length.
LEMMA PowersExist == \A n \in Nat : \E f : PowersTo(n, f)
<1> DEFINE T == {n \in Nat : ~ \E f : PowersTo(n, f)}
<1>1. SUFFICES ASSUME T # {} PROVE FALSE
  OBVIOUS
<1>2. PICK x \in T : \A y \in T : x <= y
  <2>1. T \in SUBSET Nat
    OBVIOUS
  <2> HIDE DEF T
  <2> QED BY <1>1, <2>1, NatMin
<1>3. x # 0
  <2>1. PowersTo(0, [i \in 0 .. 0 |-> 1])
    BY DEF PowersTo
  <2> QED BY <1>2, <2>1
<1>4. x - 1 \in Nat /\ ~ (x <= x - 1) /\ x \in Nat
  BY <1>2, <1>3
<1>5. PICK f : PowersTo(x - 1, f)
  BY <1>2, <1>4
<1> DEFINE g == [i \in 0 .. x |-> IF i = x THEN 10 * f[x - 1] ELSE f[i]]
<1>6. PowersTo(x, g)
  <2>1. f \in [0 .. x - 1 -> Nat] /\ f[0] = 1 /\ \A i \in 1 .. x - 1 : f[i] = 10 * f[i - 1]
    BY <1>5 DEF PowersTo
  <2>2. f[x - 1] \in Nat
    BY <1>4, <2>1
  <2>3. g \in [0 .. x -> Nat]
    BY <1>4, <2>1, <2>2
  <2>4. g[0] = 1
    BY <1>3, <1>4, <2>1
  <2>5. ASSUME NEW i \in 1 .. x PROVE g[i] = 10 * g[i - 1]
    <3>1. i - 1 \in 0 .. x /\ i - 1 # x /\ g[i - 1] = f[i - 1]
      BY <1>4
    <3>2. CASE i = x
      BY <1>4, <3>1, <3>2
    <3>3. CASE i # x
      BY <1>4, <2>1, <3>1, <3>3
    <3> QED BY <3>2, <3>3
  <2> QED BY <2>3, <2>4, <2>5 DEF PowersTo
<1> QED BY <1>2, <1>6

\* A power of ten is a positive number, ten times the one before.
LEMMA PowTenType == \A n \in Nat : PowTen[n] \in Nat \ {0}
<1> DEFINE F(n) == CHOOSE f : PowersTo(n, f)
           P == [n \in Nat |-> F(n)[n]]
           Def(f) == f = [n \in Nat |-> IF n = 0 THEN 1 ELSE 10 * f[n - 1]]
<1>1. \A n \in Nat : PowersTo(n, F(n))
  BY PowersExist
<1>2. Def(P)
  <2>1. ASSUME NEW n \in Nat PROVE P[n] = IF n = 0 THEN 1 ELSE 10 * P[n - 1]
    <3>1. CASE n = 0
      BY <1>1, <3>1 DEF PowersTo
    <3>2. CASE n # 0
      <4>1. n - 1 \in Nat /\ n \in 1 .. n /\ n - 1 \in 0 .. n - 1 /\ n - 1 <= n
        BY <3>2
      <4>2. F(n)[n] = 10 * F(n)[n - 1]
        BY <1>1, <4>1 DEF PowersTo
      <4>3. F(n - 1)[n - 1] = F(n)[n - 1]
        <5>1. PowersTo(n - 1, F(n - 1)) /\ PowersTo(n, F(n))
          BY <1>1, <4>1
        <5> HIDE DEF F
        <5> QED BY <4>1, <5>1, PowersAgree
      <4> QED BY <3>2, <4>1, <4>2, <4>3
    <3> QED BY <3>1, <3>2
  <2> HIDE DEF F
  <2> QED BY <2>1
<1>3. Def(PowTen)
  <2>1. PowTen = CHOOSE f : Def(f)
    BY DEF PowTen
  <2> HIDE DEF P, Def
  <2> QED BY <1>2, <2>1
<1>4. PowTen[0] = 1 /\ \A n \in Nat : n # 0 => PowTen[n] = 10 * PowTen[n - 1]
  BY <1>3
<1> DEFINE T == {n \in Nat : PowTen[n] \notin Nat \ {0}}
<1>5. SUFFICES ASSUME T # {} PROVE FALSE
  OBVIOUS
<1>6. PICK x \in T : \A y \in T : x <= y
  <2>1. T \in SUBSET Nat
    OBVIOUS
  <2> HIDE DEF T
  <2> QED BY <1>5, <2>1, NatMin
<1>7. x # 0
  BY <1>4, <1>6
<1>8. x \in Nat /\ x - 1 \in Nat /\ ~ (x <= x - 1)
  BY <1>6, <1>7
<1>9. PowTen[x - 1] \in Nat \ {0}
  BY <1>6, <1>8
<1> QED BY <1>4, <1>6, <1>7, <1>8, <1>9

\* A rate is a natural number: no division of calculate_rate is by zero.
LEMMA RateType ==
  ASSUME NEW input \in Nat, NEW out \in Nat, NEW d \in Nat, NEW e \in Nat
  PROVE  CalculateRate(input, out, d, e) \in Nat
<1>1. \A x \in Nat, y \in Nat \ {0} : x \div y \in Nat /\ x * y \in Nat
  OBVIOUS
<1>2. ASSUME NEW a \in Nat, NEW k \in Nat PROVE ScaleToRate(a, k) \in Nat
  <2>1. CASE k <= RateScale
    <3>1. RateScale - k \in Nat
      BY <2>1, ScaleAssumption
    <3> QED BY <1>1, <2>1, <3>1, PowTenType DEF ScaleToRate
  <2>2. CASE ~ (k <= RateScale)
    <3>1. k - RateScale \in Nat
      BY <2>2, ScaleAssumption
    <3> QED BY <1>1, <2>2, <3>1, PowTenType DEF ScaleToRate
  <2> QED BY <2>1, <2>2
<1> DEFINE in == ScaleToRate(input, d)
           back == ScaleToRate(out, e)
<1>3. in \in Nat /\ back \in Nat
  BY <1>2
<1>4. back * PowTen[RateScale] \in Nat
  BY <1>1, <1>3, ScaleAssumption, PowTenType
<1>5. in # 0 => (back * PowTen[RateScale]) \div in \in Nat
  BY <1>1, <1>3, <1>4
<1> QED BY <1>5 DEF CalculateRate

(***************************************************************************)
(* Types.                                                                  *)
(***************************************************************************)

\* A sequence of numbers with one more is one, and is not empty.
LEMMA AppendNat ==
  ASSUME NEW s \in Seq(Nat), NEW n \in Nat
  PROVE  Append(s, n) \in Seq(Nat) /\ Append(s, n) # <<>>
<1>1. Append(s, n) \in Seq(Nat) /\ Len(Append(s, n)) = Len(s) + 1 /\ Len(s) \in Nat
  OBVIOUS
<1>2. Len(Append(s, n)) # 0
  BY <1>1
<1>3. Append(s, n) # <<>>
  BY <1>2
<1> QED BY <1>1, <1>3

\* A sequence over a set with one more of its elements is one.
LEMMA AppendOver ==
  ASSUME NEW S, NEW s \in Seq(S), NEW e \in S
  PROVE  Append(s, e) \in Seq(S)
OBVIOUS

\* At the start every variable has its type.
LEMMA InitTypes == Init => Types
<1> SUFFICES ASSUME Init PROVE Types
  OBVIOUS
<1>1. versions \in Seq(StatesOf(Pools)) /\ Len(versions) = 1
  BY DEF Init
<1> QED
  BY <1>1, AmountAssumption DEF Init, Types, Event, NoEvent, NoOutput, Applied

\* Every step keeps the types.
LEMMA TypesStep == Types /\ [Next]_vars => Types'
<1> SUFFICES ASSUME Types, [Next]_vars PROVE Types'
  OBVIOUS
<1> USE DEF Types
<1>1. CASE ApplyBlock
  <2>1. db' \in StatesOf(Pools)
    BY <1>1, BlockType
  <2>2. versions' \in Seq(StatesOf(Pools)) /\ Len(versions') = Len(versions) + 1
    BY <1>1, <2>1 DEF ApplyBlock
  <2>3. Applied' \in 0 .. MaxBlocks
    BY <1>1, <2>2, AmountAssumption DEF ApplyBlock, Applied
  <2> QED BY <1>1, <2>1, <2>2, <2>3 DEF ApplyBlock
<1>2. CASE SendTouched
  <2>1. [pools |-> touched, block |-> Applied] \in Event
    BY DEF Event
  <2>2. address_tx' \in Seq(Event)
    BY <1>2, <2>1 DEF SendTouched
  <2> QED BY <1>2, <2>2 DEF SendTouched, Applied
<1>3. CASE UpdaterStops
  BY <1>3 DEF UpdaterStops, Applied
<1>4. CASE Receive
  <2>1. event' \in Event /\ address_tx' \in Seq(Event)
    BY <1>4 DEF Receive
  <2>2. todo' \subseteq Pools
    BY <1>4, <2>1 DEF Receive, Event
  <2>3. DOMAIN cache' \subseteq DOMAIN cache /\ \A k \in DOMAIN cache' : cache'[k] = cache[k]
    BY <1>4 DEF Receive
  <2> QED BY <1>4, <2>1, <2>2, <2>3 DEF Receive, updaterVars, Applied
<1>5. CASE QuoteOut
  <2>1. PICK p \in todo : quoted' = [pool |-> p, out |-> Quote(p, Weth[p], db[p], Amount)]
    BY <1>5 DEF QuoteOut
  <2>2. Quote(p, Weth[p], db[p], Amount) \in Nat
    BY QuoteType, DbType, PoolAssumption, AmountAssumption
  <2> QED BY <1>5, <2>1, <2>2 DEF QuoteOut, updaterVars, Applied
<1>6. CASE QuoteBack
  BY <1>6 DEF QuoteBack, updaterVars, Applied
<1>7. CASE Choose
  <2>1. CASE Candidates = {}
    BY <1>7, <2>1 DEF Choose, updaterVars, Applied
  <2>2. CASE Candidates # {}
    <3>1. Candidates \subseteq Cycles
      BY DEF Candidates
    <3>2. path' \in Candidates /\ trail' = <<Amount>> /\ spc' = "calc"
      BY <1>7, <2>2 DEF Choose
    <3>3. trail' \in Seq(Nat) /\ trail' # <<>>
      BY <3>2, AmountAssumption
    <3> QED BY <1>7, <3>1, <3>2, <3>3 DEF Choose, updaterVars, Applied
  <2> QED BY <2>1, <2>2
<1>8. CASE CacheHit
  <2>1. trail' \in Seq(Nat) /\ trail' # <<>>
    <3>1. \E n \in Nat : trail' = Append(trail, n)
      BY <1>8 DEF CacheHit
    <3> QED BY <3>1, AppendNat DEF Types
  <2> QED BY <1>8, <2>1 DEF CacheHit, updaterVars, Applied
<1>9. CASE Compute
  <2>1. path \in Seq(Steps)
    BY <1>9, CyclesAssumption DEF Compute
  <2>2. Len(trail) <= Len(path)
    BY <1>9, <2>1 DEF Compute, Finished
  <2>3. output' \in Nat
    BY <1>9, <2>2, StepType, QuoteType, DbType DEF Compute, Steps
  <2> QED BY <1>9, <2>2, <2>3 DEF Compute, updaterVars, Applied
<1>10. CASE Store
  <2>1. Key \in Pools \X Nat
    BY <1>10, StepType DEF Store, Key, Steps
  <2>2. trail' \in Seq(Nat) /\ trail' # <<>>
    <3>1. \E n \in Nat : trail' = Append(trail, n)
      BY <1>10 DEF Store
    <3> QED BY <3>1, AppendNat DEF Types
  <2> QED BY <1>10, <2>1, <2>2 DEF Store, updaterVars, Applied
<1>11. CASE Report
  <2> DEFINE R == [path : Cycles, trail : Seq(Nat), block : 0 .. MaxBlocks]
             r == [path |-> path, trail |-> trail, block |-> event.block]
  <2>1. r \in R /\ paths_tx \in Seq(R)
    BY <1>11 DEF Report, Event
  <2>2. paths_tx' = paths_tx \/ paths_tx' = Append(paths_tx, r)
    BY <1>11 DEF Report
  <2>3. paths_tx' \in Seq(R)
    <3> HIDE DEF r, R
    <3>1. Append(paths_tx, r) \in Seq(R)
      BY <2>1, AppendOver
    <3> QED BY <2>1, <2>2, <3>1
  <2> QED BY <1>11, <2>3 DEF Report, updaterVars, Applied
<1>12. CASE Disconnected
  BY <1>12 DEF Disconnected, updaterVars, Applied
<1>13. CASE LockPoisoned
  BY <1>13 DEF LockPoisoned, updaterVars, Applied
<1>14. CASE UNCHANGED vars
  BY <1>14 DEF vars, Applied
<1> QED
  BY <1>1, <1>2, <1>3, <1>4, <1>5, <1>6, <1>7, <1>8, <1>9, <1>10, <1>11, <1>12, <1>13,
     <1>14 DEF Next

\* Every rate the estimator holds is a number.
RatesType == rates \in [Pools -> [{0, 1} -> Nat]]

\* Every step stores numbers as rates.
LEMMA RatesTypeStep == Types /\ RatesType /\ [Next]_vars => RatesType'
<1> SUFFICES ASSUME Types, RatesType, [Next]_vars PROVE RatesType'
  OBVIOUS
<1>1. CASE QuoteBack
  <2> DEFINE p == quoted.pool
             back == Quote(p, 1 - Weth[p], db[p], quoted.out)
  <2>1. p \in Pools /\ quoted.out \in Nat
    BY <1>1 DEF QuoteBack, Types
  <2>2. Weth[p] \in {0, 1} /\ 1 - Weth[p] \in {0, 1} /\ db[p] \in States[p]
        /\ Decimals[p] \in [{0, 1} -> Nat]
    <3>1. Weth[p] \in {0, 1} /\ Decimals[p] \in [{0, 1} -> Nat]
      BY <2>1, PoolAssumption
    <3>2. db[p] \in States[p]
      <4>1. db \in StatesOf(Pools)
        BY DEF Types
      <4> QED BY <2>1, <4>1, DbType
    <3> QED BY <3>1, <3>2
  <2>3. back \in Nat
    BY <2>1, <2>2, QuoteType
  <2>4. Rates(p, quoted.out, back) \in [{0, 1} -> Nat]
    <3> HIDE DEF p, back
    <3>1. Decimals[p][Weth[p]] \in Nat /\ Decimals[p][1 - Weth[p]] \in Nat
      BY <2>2
    <3>2. /\ CalculateRate(Amount, quoted.out, Decimals[p][Weth[p]],
                           Decimals[p][1 - Weth[p]]) \in Nat
          /\ CalculateRate(quoted.out, back, Decimals[p][1 - Weth[p]],
                           Decimals[p][Weth[p]]) \in Nat
      BY <2>1, <2>3, <3>1, RateType, AmountAssumption
    <3> QED BY <3>2 DEF Rates, EthPoolRates
  <2>5. rates' = [rates EXCEPT ![p] = Rates(p, quoted.out, back)]
    BY <1>1 DEF QuoteBack
  <2> HIDE DEF p, back
  <2> QED BY <2>1, <2>4, <2>5 DEF RatesType
<1>2. CASE UNCHANGED rates
  BY <1>2 DEF RatesType
<1> QED
  BY <1>1, <1>2 DEF Next, vars, ApplyBlock, SendTouched, UpdaterStops, Receive, QuoteOut,
     Choose, CacheHit, Compute, Store, Report, Disconnected, LockPoisoned

\* Every reachable state has the types the code gives its state.
THEOREM TypeCorrect == Spec => []TypeOK
<1>1. Init => Types /\ RatesType
  BY InitTypes DEF Init, RatesType
<1>2. Types /\ RatesType /\ [Next]_vars => Types' /\ RatesType'
  BY TypesStep, RatesTypeStep
<1>3. Types /\ RatesType => TypeOK
  BY DEF TypeOK, RatesType
<1> QED BY <1>1, <1>2, <1>3, PTL DEF Spec

(***************************************************************************)
(* Freshness.                                                              *)
(***************************************************************************)

\* A block leaves alone every pool that it does not make pending, and what is
\* pending before it stays so.
LEMMA BlockPends ==
  ASSUME Types, ApplyBlock
  PROVE  /\ Pending \subseteq Pending'
         /\ \A p \in Pools \ Pending' : db'[p] = db[p]
<1>1. touched = {} /\ address_tx' = address_tx
  BY DEF Types, ApplyBlock
<1>2. PICK P \in SUBSET Pools : touched' = P /\ \A p \in Pools \ P : db'[p] = db[p]
  BY DEF ApplyBlock
<1> QED BY <1>1, <1>2 DEF Pending

\* Sending the event moves its pools from one half of what is pending to the other.
LEMMA SendPends ==
  ASSUME Types, SendTouched
  PROVE  Pending' = Pending
<1> DEFINE e == [pools |-> touched, block |-> Applied]
<1>1. address_tx \in Seq(Event) /\ e \in Event
  BY DEF Types, Event
<1>2. /\ DOMAIN address_tx' = DOMAIN address_tx \cup {Len(address_tx) + 1}
      /\ \A i \in DOMAIN address_tx : address_tx'[i] = address_tx[i]
      /\ address_tx'[Len(address_tx) + 1] = e
  BY <1>1 DEF SendTouched
<1>3. touched' = {}
  BY DEF SendTouched
<1>4. e.pools = touched
  OBVIOUS
<1> HIDE DEF e
<1> QED BY <1>2, <1>3, <1>4 DEF Pending

\* Receiving an event takes from what is pending no more than its pools.
LEMMA ReceivePends ==
  ASSUME Types, Receive
  PROVE  Pending \subseteq Pending' \cup event'.pools
<1>1. address_tx \in Seq(Event) /\ address_tx # <<>>
  BY DEF Types, Receive
<1>2. event' = address_tx[1] /\ address_tx' = Tail(address_tx) /\ touched' = touched
  BY <1>1 DEF Receive, updaterVars
<1>3. ASSUME NEW i \in DOMAIN address_tx
      PROVE  address_tx[i].pools \subseteq Pending' \cup event'.pools
  <2>1. CASE i = 1
    BY <1>2, <2>1
  <2>2. CASE i # 1
    <3>1. i - 1 \in DOMAIN address_tx' /\ address_tx'[i - 1] = address_tx[i]
      BY <1>1, <1>2, <2>2
    <3> QED BY <3>1 DEF Pending
  <2> QED BY <2>1, <2>2
<1> QED BY <1>2, <1>3 DEF Pending

\* At the start nothing is cached and every pool's rates are to be computed.
LEMMA InitFresh == Init => CacheFresh /\ RatesFresh /\ StoreFresh /\ BackFresh
  BY DEF Init, CacheFresh, RatesFresh, StoreFresh, BackFresh

\* A step other than the updater's leaves the database and the queue alone, unless
\* it receives an event.
LEMMA QuietStep ==
  ASSUME \/ QuoteOut \/ QuoteBack \/ Choose \/ CacheHit \/ Compute \/ Store
         \/ Report \/ Disconnected \/ LockPoisoned \/ UpdaterStops \/ UNCHANGED vars
  PROVE  db' = db /\ Pending' = Pending
  BY DEF QuoteOut, QuoteBack, Choose, CacheHit, Compute, Store, Report,
         Disconnected, LockPoisoned, UpdaterStops, vars, updaterVars, Pending

\* Every step keeps the cache fresh.
LEMMA CacheFreshStep == IndInv /\ [Next]_vars => CacheFresh'
<1> SUFFICES ASSUME IndInv, [Next]_vars,
                    NEW k \in DOMAIN cache', k[1] \notin Pending'
             PROVE  \E t \in {0, 1} : cache'[k] = Quote(k[1], t, db'[k[1]], k[2])
  BY DEF CacheFresh, Quote
<1> USE DEF IndInv
<1>1. CASE ApplyBlock
  <2>1. cache' = cache /\ k[1] \in Pools
    BY <1>1 DEF ApplyBlock, Types
  <2> QED BY <1>1, <2>1, BlockPends DEF CacheFresh
<1>2. CASE SendTouched
  <2>1. cache' = cache /\ db' = db
    BY <1>2 DEF SendTouched
  <2> QED BY <1>2, <2>1, SendPends DEF CacheFresh
<1>3. CASE Receive
  <2>1. k \in DOMAIN cache /\ cache'[k] = cache[k] /\ k[1] \notin event'.pools /\ db' = db
    BY <1>3 DEF Receive, updaterVars
  <2> QED BY <1>3, <2>1, ReceivePends DEF CacheFresh
<1>4. CASE Store
  <2>1. db' = db /\ Pending' = Pending
    BY <1>4, QuietStep
  <2>2. CASE k = Key
    BY <1>4, <2>1, <2>2 DEF Store, Key, StoreFresh
  <2>3. CASE k # Key
    BY <1>4, <2>1, <2>3 DEF Store, CacheFresh
  <2> QED BY <2>2, <2>3
<1>5. CASE \/ QuoteOut \/ QuoteBack \/ Choose \/ CacheHit \/ Compute
           \/ Report \/ Disconnected \/ LockPoisoned \/ UpdaterStops \/ UNCHANGED vars
  <2>1. cache' = cache
    BY <1>5 DEF QuoteOut, QuoteBack, Choose, CacheHit, Compute, Report,
                Disconnected, LockPoisoned, UpdaterStops, vars
  <2> QED BY <1>5, <2>1, QuietStep DEF CacheFresh
<1> QED BY <1>1, <1>2, <1>3, <1>4, <1>5 DEF Next

\* Every step keeps the rates fresh.
LEMMA RatesFreshStep == IndInv /\ [Next]_vars => RatesFresh'
<1> SUFFICES ASSUME IndInv, [Next]_vars,
                    NEW p \in Pools, p \notin Pending', p \notin todo'
             PROVE  rates'[p] = CurrentRates(p)'
  BY DEF RatesFresh
<1> USE DEF IndInv
<1>1. CASE ApplyBlock
  <2>1. rates' = rates /\ todo' = todo
    BY <1>1 DEF ApplyBlock
  <2>2. p \notin Pending /\ db'[p] = db[p]
    BY <1>1, BlockPends
  <2>3. CurrentRates(p)' = CurrentRates(p)
    BY <2>2 DEF CurrentRates
  <2> QED BY <2>1, <2>2, <2>3 DEF RatesFresh
<1>2. CASE SendTouched
  <2>1. rates' = rates /\ todo' = todo /\ db' = db
    BY <1>2 DEF SendTouched
  <2>2. CurrentRates(p)' = CurrentRates(p)
    BY <2>1 DEF CurrentRates
  <2> QED BY <1>2, <2>1, <2>2, SendPends DEF RatesFresh
<1>3. CASE Receive
  <2>1. rates' = rates /\ todo' = event'.pools /\ db' = db /\ todo = {}
    BY <1>3 DEF Receive, updaterVars, Types
  <2>2. CurrentRates(p)' = CurrentRates(p)
    BY <2>1 DEF CurrentRates
  <2> QED BY <1>3, <2>1, <2>2, ReceivePends DEF RatesFresh
<1>4. CASE QuoteBack
  <2>1. db' = db /\ Pending' = Pending
    BY <1>4, QuietStep
  <2>2. CurrentRates(p)' = CurrentRates(p)
    BY <2>1 DEF CurrentRates
  <2>3. CASE p = quoted.pool
    <3>1. quoted.out = Quote(p, Weth[p], db[p], Amount)
      BY <1>4, <2>1, <2>3 DEF QuoteBack, BackFresh
    <3>2. rates'[p] = Rates(p, quoted.out, Quote(p, 1 - Weth[p], db[p], quoted.out))
      BY <1>4, <2>3 DEF QuoteBack, Types
    <3> QED BY <2>2, <3>1, <3>2 DEF CurrentRates
  <2>4. CASE p # quoted.pool
    <3>1. rates'[p] = rates[p] /\ p \notin todo
      BY <1>4, <2>4 DEF QuoteBack
    <3> QED BY <2>1, <2>2, <3>1 DEF RatesFresh
  <2> QED BY <2>3, <2>4
<1>5. CASE \/ QuoteOut \/ Choose \/ CacheHit \/ Compute \/ Store
           \/ Report \/ Disconnected \/ LockPoisoned \/ UpdaterStops \/ UNCHANGED vars
  <2>1. rates' = rates /\ todo' = todo
    BY <1>5 DEF QuoteOut, Choose, CacheHit, Compute, Store, Report,
                Disconnected, LockPoisoned, UpdaterStops, vars
  <2>2. db' = db /\ Pending' = Pending
    BY <1>5, QuietStep
  <2>3. CurrentRates(p)' = CurrentRates(p)
    BY <2>2 DEF CurrentRates
  <2> QED BY <2>1, <2>2, <2>3 DEF RatesFresh
<1> QED BY <1>1, <1>2, <1>3, <1>4, <1>5 DEF Next

\* Every step keeps the outputs and quotes in flight as fresh as those stored.
LEMMA InFlightStep == IndInv /\ [Next]_vars => StoreFresh' /\ BackFresh'
<1> SUFFICES ASSUME IndInv, [Next]_vars PROVE StoreFresh' /\ BackFresh'
  OBVIOUS
<1> USE DEF IndInv
<1>1. CASE ApplyBlock
  <2>1. UNCHANGED <<spc, quoted, path, trail, output, todo>>
    BY <1>1 DEF ApplyBlock
  <2>2. StoreFresh'
    <3>1. SUFFICES ASSUME spc = "store", Step.pool \notin Pending'
                   PROVE  \E t \in {0, 1} : output = Quote(Step.pool, t, db'[Step.pool], AmountIn)
      BY <2>1 DEF StoreFresh, Step, AmountIn, Quote
    <3>2. Step.pool \in Pools
      BY <3>1, StepType DEF Types, Steps
    <3>3. Step.pool \notin Pending /\ db'[Step.pool] = db[Step.pool]
      BY <1>1, <3>1, <3>2, BlockPends
    <3> QED BY <3>1, <3>3 DEF StoreFresh
  <2>3. BackFresh'
    <3>1. SUFFICES ASSUME spc = "back", quoted.pool \notin Pending'
                   PROVE  quoted.out = Quote(quoted.pool, Weth[quoted.pool], db'[quoted.pool], Amount)
      BY <2>1 DEF BackFresh, Quote
    <3>2. quoted.pool \in Pools
      BY <3>1 DEF Types
    <3>3. quoted.pool \notin Pending /\ db'[quoted.pool] = db[quoted.pool]
      BY <1>1, <3>1, <3>2, BlockPends
    <3> QED BY <3>1, <3>3 DEF BackFresh
  <2> QED BY <2>2, <2>3
<1>2. CASE SendTouched
  <2>1. UNCHANGED <<db, spc, quoted, path, trail, output>>
    BY <1>2 DEF SendTouched
  <2>2. Pending' = Pending
    BY <1>2, SendPends
  <2> QED BY <2>1, <2>2 DEF StoreFresh, BackFresh, Step, AmountIn, Quote
<1>3. CASE QuoteOut
  <2>1. db' = db /\ Pending' = Pending /\ spc' = "back"
    BY <1>3, QuietStep DEF QuoteOut
  <2>2. PICK p \in todo : quoted' = [pool |-> p, out |-> Quote(p, Weth[p], db[p], Amount)]
    BY <1>3 DEF QuoteOut
  <2>3. quoted'.pool = p /\ quoted'.out = Quote(p, Weth[p], db[p], Amount)
    BY <2>2
  <2> QED BY <2>1, <2>3 DEF StoreFresh, BackFresh, Quote
<1>4. CASE Compute
  <2>1. db' = db /\ Pending' = Pending /\ spc' = "store" /\ path' = path /\ trail' = trail
    BY <1>4, QuietStep DEF Compute
  <2>2. Step.pool \in Pools /\ Step.token_in \in {0, 1}
    <3>1. path \in Seq(Steps)
      BY <1>4, CyclesAssumption DEF Compute, Types
    <3>2. Len(trail) <= Len(path)
      BY <1>4, <3>1 DEF Compute, Finished, Types
    <3> QED BY <1>4, <3>2, StepType DEF Compute, Steps
  <2>3. output' = Quote(Step.pool, Step.token_in, db[Step.pool], AmountIn)
    BY <1>4 DEF Compute
  <2> QED BY <2>1, <2>2, <2>3 DEF StoreFresh, BackFresh, Step, AmountIn, Quote
<1>5. CASE Receive \/ QuoteBack \/ Choose \/ CacheHit \/ Store \/ Report \/ Disconnected
           \/ LockPoisoned
  <2>1. spc' \in {"rates", "recv", "calc", "stopped", "dead"}
    BY <1>5 DEF Receive, QuoteBack, Choose, CacheHit, Store, Report, Disconnected, LockPoisoned
  <2> QED BY <2>1 DEF StoreFresh, BackFresh
<1>6. CASE UpdaterStops \/ UNCHANGED vars
  <2>1. UNCHANGED <<db, spc, quoted, path, trail, output>> /\ Pending' = Pending
    BY <1>6, QuietStep DEF UpdaterStops, vars
  <2> QED BY <2>1 DEF StoreFresh, BackFresh, Step, AmountIn, Quote
<1> QED BY <1>1, <1>2, <1>3, <1>4, <1>5, <1>6 DEF Next

\* The parts together are inductive.
LEMMA Inductive == Spec => []IndInv
<1>1. Init => IndInv
  BY InitTypes, InitFresh DEF IndInv
<1>2. IndInv /\ [Next]_vars => IndInv'
  BY TypesStep, CacheFreshStep, RatesFreshStep, InFlightStep DEF IndInv
<1> QED BY <1>1, <1>2, PTL DEF Spec

(***************************************************************************)
(* Quotes are no older than the event they answer.                         *)
(***************************************************************************)

\* A block adds a version to the database's history.
LEMMA AppliedGrows ==
  ASSUME Types, ApplyBlock
  PROVE  /\ Applied \in Nat /\ Applied' = Applied + 1
         /\ \A v \in 0 .. Applied : versions'[v + 1] = versions[v + 1]
         /\ versions'[Applied + 2] = db'
<1>1. versions \in Seq(StatesOf(Pools)) /\ db' \in StatesOf(Pools)
  BY BlockType DEF Types
<1>2. /\ Len(versions') = Len(versions) + 1 /\ versions'[Len(versions) + 1] = db'
      /\ \A i \in 1 .. Len(versions) : versions'[i] = versions[i]
  BY <1>1, AppendProperties DEF ApplyBlock
<1>3. Applied \in Nat /\ Len(versions) = Applied + 1
  BY <1>1 DEF Types, Applied
<1>4. Applied' = Applied + 1
  BY <1>2, <1>3 DEF Applied
<1>5. \A v \in 0 .. Applied : v + 1 \in 1 .. Len(versions)
  BY <1>3
<1>6. Len(versions) + 1 = Applied + 2
  BY <1>3
<1> QED BY <1>2, <1>3, <1>4, <1>5, <1>6

\* GaveSince of a history of versions: the form to use where versions change.
Gave(vs, p, amount, out, b) ==
  \E v \in b .. Len(vs) - 1 : \E t \in {0, 1} : out = Quote(p, t, vs[v + 1][p], amount)

LEMMA GaveIsSince ==
  ASSUME NEW p, NEW amount, NEW out, NEW b
  PROVE  GaveSince(p, amount, out, b) <=> Gave(versions, p, amount, out, b)
BY DEF GaveSince, Gave, Applied

\* A quote that was given since a block stays one, whatever happens.
LEMMA GaveKept ==
  ASSUME Types, [Next]_vars,
         NEW p, NEW amount, NEW out, NEW b \in Nat, Gave(versions, p, amount, out, b)
  PROVE  Gave(versions', p, amount, out, b)
<1>1. CASE ApplyBlock
  <2>1. PICK v \in b .. Applied, t \in {0, 1} :
          out = Quote(p, t, versions[v + 1][p], amount)
    BY DEF Gave, Applied
  <2>2. v \in b .. Applied' /\ versions'[v + 1] = versions[v + 1]
    BY <1>1, AppliedGrows
  <2> QED BY <2>1, <2>2 DEF Gave, Applied
<1>2. CASE UNCHANGED versions
  BY <1>2
<1> QED
  BY <1>1, <1>2 DEF Next, vars, updaterVars, SendTouched, UpdaterStops, Receive, QuoteOut,
     QuoteBack, Choose, CacheHit, Compute, Store, Report, Disconnected, LockPoisoned

\* At the start there are no events, no quotes and one version.
LEMMA InitQuotes ==
  Init => EventsNumbered /\ EventsComplete /\ CalculatedSinceEvent /\ QuotedSinceEvent
<1> SUFFICES ASSUME Init
             PROVE  /\ EventsNumbered /\ EventsComplete
                    /\ CalculatedSinceEvent /\ QuotedSinceEvent
  OBVIOUS
<1>1. Len(versions) = 1 /\ versions[1] = db /\ Len(address_tx) = 0
  BY DEF Init
<1>2. Applied = 0 /\ Applied + 1 = 1
  BY <1>1 DEF Applied
<1> QED
  BY <1>1, <1>2 DEF Init, NoEvent, EventsNumbered, EventsComplete, CalculatedSinceEvent,
     QuotedSinceEvent

\* Receiving moves the event's block on by one and leaves the others numbered.
LEMMA ReceiveNumbers ==
  ASSUME Types, EventsNumbered, Receive
  PROVE  /\ event.block \in Nat /\ event'.block = event.block + 1
         /\ event' = address_tx[1] /\ 1 \in DOMAIN address_tx
         /\ Len(address_tx') = Len(address_tx) - 1
         /\ DOMAIN address_tx' = 1 .. Len(address_tx) - 1
         /\ \A i \in DOMAIN address_tx' :
              i + 1 \in DOMAIN address_tx /\ address_tx'[i] = address_tx[i + 1]
<1>1. address_tx \in Seq(Event) /\ address_tx # <<>> /\ event \in Event
  BY DEF Types, Receive
<1>2. event' = address_tx[1] /\ address_tx' = Tail(address_tx)
  BY <1>1 DEF Receive
<1>3. /\ 1 \in DOMAIN address_tx /\ Len(address_tx') = Len(address_tx) - 1
      /\ DOMAIN address_tx' = 1 .. Len(address_tx) - 1
      /\ \A i \in DOMAIN address_tx' :
           i + 1 \in DOMAIN address_tx /\ address_tx'[i] = address_tx[i + 1]
  BY <1>1, <1>2
<1>4. event.block \in Nat
  BY <1>1, AmountAssumption DEF Event
<1> QED BY <1>2, <1>3, <1>4 DEF EventsNumbered

\* Every step keeps the events numbered and complete.
LEMMA EventsStep ==
  Types /\ EventsNumbered /\ EventsComplete /\ [Next]_vars
  => EventsNumbered' /\ EventsComplete'
<1> SUFFICES ASSUME Types, EventsNumbered, EventsComplete, [Next]_vars
             PROVE  EventsNumbered' /\ EventsComplete'
  OBVIOUS
<1> DEFINE n == Len(address_tx)
<1>0. /\ address_tx \in Seq(Event) /\ n \in Nat /\ DOMAIN address_tx = 1 .. n
      /\ event.block \in Nat /\ Applied \in Nat
  BY AmountAssumption DEF Types, Event
<1>1. CASE ApplyBlock
  <2>1. /\ UNCHANGED <<address_tx, event>> /\ upc = "idle" /\ upc' = "notify"
        /\ \A p \in Pools \ touched' : db'[p] = db[p]
    BY <1>1 DEF ApplyBlock
  <2>2. /\ Applied' = Applied + 1 /\ versions'[Applied' + 1] = db'
        /\ \A v \in 0 .. Applied : versions'[v + 1] = versions[v + 1]
    BY <1>1, AppliedGrows
  <2>3. EventsNumbered'
    BY <1>0, <2>1, <2>2 DEF EventsNumbered
  <2>4. ASSUME NEW i \in DOMAIN address_tx, NEW p \in Pools \ address_tx[i].pools
        PROVE  versions'[event.block + i + 1][p] = versions'[event.block + i][p]
    <3>1. /\ event.block + i \in 0 .. Applied /\ event.block + i - 1 \in 0 .. Applied
          /\ (event.block + i - 1) + 1 = event.block + i
      BY <1>0, <2>1 DEF EventsNumbered
    <3>2. /\ versions'[event.block + i + 1] = versions[event.block + i + 1]
          /\ versions'[event.block + i] = versions[event.block + i]
      BY <2>2, <3>1
    <3> QED BY <2>4, <3>2 DEF EventsComplete
  <2>5. \A p \in Pools \ touched' : versions'[Applied' + 1][p] = versions'[Applied'][p]
    <3>1. versions'[Applied'] = versions[Applied + 1]
      BY <1>0, <2>2
    <3> QED BY <2>1, <2>2, <3>1 DEF EventsComplete
  <2>6. EventsComplete'
    BY <2>1, <2>2, <2>4, <2>5 DEF EventsComplete
  <2> QED BY <2>3, <2>6
<1>2. CASE SendTouched
  <2> DEFINE e == [pools |-> touched, block |-> Applied]
  <2>1. /\ UNCHANGED <<db, versions, event>> /\ upc = "notify" /\ upc' = "idle"
        /\ address_tx' = Append(address_tx, e) /\ Applied' = Applied
    BY <1>2 DEF SendTouched, Applied
  <2>2. e \in Event /\ e.pools = touched /\ e.block = Applied
    BY DEF Types, Event
  <2> HIDE DEF e
  <2>3. /\ Len(address_tx') = n + 1 /\ address_tx'[n + 1] = e
        /\ DOMAIN address_tx' = 1 .. n + 1
        /\ \A i \in 1 .. n : address_tx'[i] = address_tx[i]
    BY <1>0, <2>1, <2>2, AppendProperties
  <2>4. Applied = event.block + (n + 1)
    <3>1. Applied = event.block + n + 1
      BY <2>1 DEF EventsNumbered
    <3> QED BY <1>0, <3>1
  <2>5. EventsNumbered'
    BY <1>0, <2>1, <2>2, <2>3, <2>4 DEF EventsNumbered
  <2>6. ASSUME NEW i \in 1 .. n + 1, NEW p \in Pools \ address_tx'[i].pools
        PROVE  versions[event.block + i + 1][p] = versions[event.block + i][p]
    <3>1. CASE i \in 1 .. n
      BY <1>0, <2>3, <2>6, <3>1 DEF EventsComplete
    <3>2. CASE i = n + 1
      BY <2>1, <2>2, <2>3, <2>4, <2>6, <3>2 DEF EventsComplete
    <3> QED BY <1>0, <3>1, <3>2
  <2>7. EventsComplete'
    BY <2>1, <2>3, <2>6 DEF EventsComplete
  <2> QED BY <2>5, <2>7
<1>3. CASE UpdaterStops
  BY <1>3 DEF UpdaterStops, EventsNumbered, EventsComplete, Applied
<1>4. CASE Receive
  <2>1. /\ event'.block = event.block + 1 /\ Len(address_tx') = n - 1
        /\ 1 \in DOMAIN address_tx
        /\ DOMAIN address_tx' = 1 .. n - 1
        /\ \A i \in DOMAIN address_tx' :
             i + 1 \in DOMAIN address_tx /\ address_tx'[i] = address_tx[i + 1]
    BY <1>4, ReceiveNumbers
  <2>2. UNCHANGED <<db, versions, upc, touched>> /\ Applied' = Applied
    BY <1>4 DEF Receive, updaterVars, Applied
  <2>3. \A i \in DOMAIN address_tx' : event'.block + i = event.block + (i + 1)
    BY <1>0, <2>1
  <2>4. EventsNumbered'
    BY <1>0, <2>1, <2>2, <2>3 DEF EventsNumbered
  <2>5. EventsComplete'
    BY <2>1, <2>2, <2>3 DEF EventsComplete
  <2> QED BY <2>4, <2>5
<1>5. CASE UNCHANGED <<updaterVars, address_tx, event>>
  BY <1>5 DEF updaterVars, EventsNumbered, EventsComplete, Applied
<1> QED
  BY <1>1, <1>2, <1>3, <1>4, <1>5 DEF Next, vars, updaterVars, QuoteOut, QuoteBack,
     Choose, CacheHit, Compute, Store, Report, Disconnected, LockPoisoned

\* A pool that the received event does not name is, since its block, what it was
\* since the block before.
LEMMA GaveShifts ==
  ASSUME Types, EventsNumbered, EventsComplete, Receive,
         NEW p \in Pools, p \notin event'.pools, NEW amount, NEW out,
         Gave(versions, p, amount, out, event.block)
  PROVE  Gave(versions', p, amount, out, event'.block)
<1> DEFINE b == event.block
<1>1. /\ b \in Nat /\ event'.block = b + 1
      /\ event' = address_tx[1] /\ 1 \in DOMAIN address_tx /\ Len(address_tx) \in Nat
      /\ Len(address_tx) >= 1
  <2>1. Len(address_tx) \in Nat /\ address_tx # <<>> /\ address_tx \in Seq(Event)
    BY DEF Types, Receive
  <2>2. Len(address_tx) >= 1
    BY <2>1
  <2> QED BY <2>1, <2>2, ReceiveNumbers
<1>2. PICK v \in b .. Applied, t \in {0, 1} :
        out = Quote(p, t, versions[v + 1][p], amount)
  BY DEF Gave, Applied
<1>3. versions' = versions /\ Applied \in Nat /\ b + 1 <= Applied
  <2>1. versions' = versions /\ Applied \in Nat
    BY DEF Receive, updaterVars, Types
  <2> QED BY <1>1, <2>1 DEF EventsNumbered
<1>4. versions[b + 2][p] = versions[b + 1][p]
  <2>1. b + 1 + 1 = b + 2
    BY <1>1
  <2> QED BY <1>1, <2>1 DEF EventsComplete
<1>5. \E w \in b + 1 .. Applied : out = Quote(p, t, versions[w + 1][p], amount)
  <2>1. CASE v = b
    <3>1. b + 1 \in b + 1 .. Applied /\ (b + 1) + 1 = b + 2
      BY <1>1, <1>3
    <3> QED BY <1>2, <1>4, <2>1, <3>1
  <2>2. CASE v # b
    BY <1>1, <1>2, <1>3, <2>2
  <2> QED BY <2>1, <2>2
<1> QED BY <1>1, <1>3, <1>5 DEF Gave, Applied

\* What is computed from the database is what its latest version gives.
LEMMA GaveNow ==
  ASSUME Types, EventsNumbered, EventsComplete,
         NEW p \in Pools, NEW t \in {0, 1}, NEW amount
  PROVE  Gave(versions, p, amount, Quote(p, t, db[p], amount), event.block)
<1>1. event.block \in Nat /\ Len(address_tx) \in Nat /\ Applied \in Nat
  BY AmountAssumption DEF Types, Event
<1>2. Applied \in event.block .. Applied
  BY <1>1 DEF EventsNumbered
<1> QED BY <1>2 DEF Gave, Applied, EventsComplete

\* Every step keeps the calculation no older than the event it answers.
LEMMA CalculatedStep ==
  Types /\ EventsNumbered /\ EventsComplete /\ CalculatedSinceEvent /\ [Next]_vars
  => CalculatedSinceEvent'
<1> SUFFICES ASSUME Types, EventsNumbered, EventsComplete, CalculatedSinceEvent,
                    [Next]_vars
             PROVE  CalculatedSinceEvent'
  OBVIOUS
<1>0. event.block \in Nat
  BY AmountAssumption DEF Types, Event
<1>1. /\ \A k \in DOMAIN cache : Gave(versions, k[1], k[2], cache[k], event.block)
      /\ spc = "store" => Gave(versions, Step.pool, AmountIn, output, event.block)
      /\ spc \in {"calc", "store"} =>
           /\ Len(trail) <= Len(path) + 1
           /\ \A n \in 1 .. Len(trail) - 1 :
                Gave(versions, path[n].pool, trail[n], trail[n + 1], event.block)
  BY DEF CalculatedSinceEvent, GaveSince, Gave, Applied
<1>2. SUFFICES
        /\ \A k \in DOMAIN cache' : Gave(versions', k[1], k[2], cache'[k], event'.block)
        /\ spc' = "store" => Gave(versions', Step'.pool, AmountIn', output', event'.block)
        /\ spc' \in {"calc", "store"} =>
             /\ Len(trail') <= Len(path') + 1
             /\ \A n \in 1 .. Len(trail') - 1 :
                  Gave(versions', path'[n].pool, trail'[n], trail'[n + 1], event'.block)
  BY DEF CalculatedSinceEvent, GaveSince, Gave, Applied, Quote
<1>3. \A p, amount, out : Gave(versions, p, amount, out, event.block)
                            => Gave(versions', p, amount, out, event.block)
  BY <1>0, GaveKept
<1>4. CASE UNCHANGED <<spc, event, cache, path, trail, output>>
  BY <1>1, <1>3, <1>4 DEF Step, AmountIn
<1>5. CASE Receive
  <2>1. ASSUME NEW k \in DOMAIN cache'
        PROVE  Gave(versions', k[1], k[2], cache'[k], event'.block)
    <3>1. k \in DOMAIN cache /\ cache'[k] = cache[k] /\ k[1] \notin event'.pools
      BY <1>5 DEF Receive
    <3>2. k[1] \in Pools
      BY <3>1 DEF Types
    <3> QED BY <1>1, <1>5, <3>1, <3>2, GaveShifts
  <2>2. spc' = "rates"
    BY <1>5 DEF Receive
  <2> QED BY <2>1, <2>2
<1>6. CASE Choose
  <2>1. UNCHANGED <<event, cache>> /\ spc' \in {"recv", "calc"}
    BY <1>6 DEF Choose
  <2>2. ASSUME spc' = "calc" PROVE Len(trail') = 1 /\ path' \in Seq(Steps)
    BY <1>6, <2>2, CyclesAssumption DEF Choose, Candidates
  <2>3. ASSUME spc' = "calc"
        PROVE  Len(trail') <= Len(path') + 1 /\ 1 .. Len(trail') - 1 = {}
    <3>1. Len(trail') = 1 /\ Len(path') \in Nat
      BY <2>2, <2>3
    <3> QED BY <3>1
  <2> QED BY <1>1, <1>3, <2>1, <2>3
<1>7. CASE Compute
  <2>1. UNCHANGED <<event, cache, path, trail, versions>> /\ spc = "calc"
    BY <1>7 DEF Compute, updaterVars
  <2>2. Len(trail) <= Len(path)
    <3>1. path \in Seq(Steps) /\ Len(trail) \in Nat
      BY <2>1, CyclesAssumption DEF Types
    <3> QED BY <1>7, <3>1 DEF Compute, Finished
  <2>3. Step \in Steps
    BY <2>1, <2>2, StepType
  <2>4. Gave(versions, Step.pool, AmountIn, output', event.block)
    BY <1>7, <2>3, GaveNow DEF Compute, Steps
  <2>5. Step' = Step /\ AmountIn' = AmountIn
    BY <2>1 DEF Step, AmountIn
  <2> QED BY <1>1, <2>1, <2>4, <2>5
<1>8. \* a step along the path
      ASSUME NEW out \in Nat, spc \in {"calc", "store"}, spc' = "calc",
             Len(trail) <= Len(path), UNCHANGED <<event, path, versions>>,
             trail' = Append(trail, out),
             Gave(versions, Step.pool, AmountIn, out, event.block)
      PROVE  /\ Len(trail') <= Len(path') + 1
             /\ \A n \in 1 .. Len(trail') - 1 :
                  Gave(versions', path'[n].pool, trail'[n], trail'[n + 1], event'.block)
  <2> DEFINE m == Len(trail)
  <2>1. trail \in Seq(Nat) /\ m \in Nat /\ path \in Seq(Steps) /\ Len(path) \in Nat
        /\ m >= 1
    <3>1. trail \in Seq(Nat) /\ trail # <<>> /\ path \in Seq(Steps)
      BY <1>8, CyclesAssumption DEF Types
    <3> QED BY <3>1
  <2>2. /\ Len(trail') = m + 1 /\ trail'[m + 1] = out
        /\ \A i \in 1 .. m : trail'[i] = trail[i]
    BY <1>8, <2>1, AppendProperties
  <2>3. ASSUME NEW n \in 1 .. m
        PROVE  Gave(versions, path[n].pool, trail'[n], trail'[n + 1], event.block)
    <3>1. CASE n = m
      BY <1>8, <2>1, <2>2, <3>1 DEF Step, AmountIn
    <3>2. CASE n # m
      <4>1. n \in 1 .. m - 1 /\ n + 1 \in 1 .. m
        BY <2>1, <3>2
      <4> QED BY <1>1, <1>8, <2>2, <4>1
    <3> QED BY <3>1, <3>2
  <2> QED BY <1>8, <2>1, <2>2, <2>3
<1>9. CASE CacheHit
  <2>1. UNCHANGED <<event, cache, path, versions, spc>> /\ spc = "calc"
        /\ trail' = Append(trail, cache[Key]) /\ Key \in DOMAIN cache
    BY <1>9 DEF CacheHit, updaterVars
  <2>2. Len(trail) <= Len(path)
    <3>1. path \in Seq(Steps) /\ Len(trail) \in Nat
      BY <2>1, CyclesAssumption DEF Types
    <3> QED BY <1>9, <3>1 DEF CacheHit, Finished
  <2>3. cache[Key] \in Nat
    BY <2>1 DEF Types
  <2>4. Gave(versions, Step.pool, AmountIn, cache[Key], event.block)
    <3>1. Key[1] = Step.pool /\ Key[2] = AmountIn
      BY DEF Key
    <3> QED BY <1>1, <2>1, <3>1
  <2> QED BY <1>1, <1>8, <2>1, <2>2, <2>3, <2>4
<1>10. CASE Store
  <2>1. UNCHANGED <<event, path, versions>> /\ spc = "store" /\ spc' = "calc"
        /\ trail' = Append(trail, output)
    BY <1>10 DEF Store, updaterVars
  <2>2. output \in Nat /\ Len(trail) <= Len(path)
    BY <2>1 DEF Types
  <2>3. Gave(versions, Step.pool, AmountIn, output, event.block)
    BY <1>1, <2>1
  <2>4. ASSUME NEW k \in DOMAIN cache'
        PROVE  Gave(versions, k[1], k[2], cache'[k], event.block)
    <3>1. CASE k = Key
      <4>1. k[1] = Step.pool /\ k[2] = AmountIn /\ cache'[k] = output
        BY <1>10, <3>1 DEF Key, Store
      <4> QED BY <2>3, <4>1
    <3>2. CASE k # Key
      <4>1. k \in DOMAIN cache /\ cache'[k] = cache[k]
        BY <1>10, <3>2 DEF Store
      <4> QED BY <1>1, <4>1
    <3> QED BY <3>1, <3>2
  <2> QED BY <1>8, <2>1, <2>2, <2>3, <2>4
<1>11. CASE QuoteOut \/ QuoteBack \/ Report \/ Disconnected \/ LockPoisoned
  <2>1. UNCHANGED <<event, cache>> /\ spc' \in {"back", "rates", "recv", "stopped", "dead"}
    BY <1>11 DEF QuoteOut, QuoteBack, Report, Disconnected, LockPoisoned
  <2> QED BY <1>1, <1>3, <2>1
<1> QED
  BY <1>4, <1>5, <1>6, <1>7, <1>9, <1>10, <1>11 DEF Next, vars, updaterVars,
     ApplyBlock, SendTouched, UpdaterStops

\* Every step keeps the reported paths complete and quoted since their events.
LEMMA QuotedStep ==
  Types /\ CalculatedSinceEvent /\ QuotedSinceEvent /\ [Next]_vars => QuotedSinceEvent'
<1> SUFFICES ASSUME Types, CalculatedSinceEvent, QuotedSinceEvent, [Next]_vars
             PROVE  QuotedSinceEvent'
  OBVIOUS
<1> DEFINE Good(vs, e) ==
             /\ Len(e.trail) = Len(e.path) + 1
             /\ \A n \in DOMAIN e.path :
                  Gave(vs, e.path[n].pool, e.trail[n], e.trail[n + 1], e.block)
<1>1. \A i \in DOMAIN paths_tx : Good(versions, paths_tx[i])
  BY DEF QuotedSinceEvent, GaveSince, Gave, Applied
<1>2. SUFFICES \A i \in DOMAIN paths_tx' : Good(versions', paths_tx'[i])
  BY DEF QuotedSinceEvent, GaveSince, Gave, Applied, Quote
<1>3. ASSUME NEW i \in DOMAIN paths_tx PROVE Good(versions', paths_tx[i])
  <2>1. paths_tx[i].block \in Nat
    <3> DEFINE R == [path : Cycles, trail : Seq(Nat), block : 0 .. MaxBlocks]
    <3>1. paths_tx \in Seq(R) /\ \A r \in R : r.block \in Nat
      BY AmountAssumption DEF Types
    <3> HIDE DEF R
    <3> QED BY <3>1, ElementOfSeq
  <2> QED BY <1>1, <2>1, GaveKept
<1>4. CASE UNCHANGED paths_tx
  BY <1>3, <1>4
<1>5. CASE Report
  <2> DEFINE r == [path |-> path, trail |-> trail, block |-> event.block]
             R == [path : Cycles, trail : Seq(Nat), block : 0 .. MaxBlocks]
  <2>1. CASE ~ (AmountIn >= MinProfit)
    BY <1>3, <1>5, <2>1 DEF Report
  <2>2. CASE AmountIn >= MinProfit
    <3>1. paths_tx' = Append(paths_tx, r) /\ versions' = versions
          /\ spc = "calc" /\ Finished
      BY <1>5, <2>2 DEF Report, updaterVars
    <3>2. Len(trail) = Len(path) + 1 /\ DOMAIN path = 1 .. Len(trail) - 1
      <4>1. path \in Seq(Steps) /\ Len(trail) \in Nat /\ Len(path) \in Nat
            /\ DOMAIN path = 1 .. Len(path)
        BY <3>1, CyclesAssumption DEF Types
      <4>2. AmountIn # 0
        BY <2>2, AmountAssumption DEF MinProfit, FlashLoanFee
      <4>3. Len(trail) > Len(path) /\ Len(trail) <= Len(path) + 1
        BY <3>1, <4>2 DEF Finished, CalculatedSinceEvent
      <4> QED BY <4>1, <4>3
    <3>3. Good(versions', r)
      <4>1. \A n \in 1 .. Len(trail) - 1 :
              Gave(versions, path[n].pool, trail[n], trail[n + 1], event.block)
        BY <3>1 DEF CalculatedSinceEvent, GaveSince, Gave, Applied
      <4> QED BY <3>1, <3>2, <4>1
    <3>4. r \in R /\ paths_tx \in Seq(R)
      BY <3>1 DEF Types, Event
    <3> HIDE DEF r, R, Good
    <3>5. /\ DOMAIN paths_tx' = 1 .. Len(paths_tx) + 1 /\ DOMAIN paths_tx = 1 .. Len(paths_tx)
          /\ Len(paths_tx) \in Nat
          /\ paths_tx'[Len(paths_tx) + 1] = r
          /\ \A i \in 1 .. Len(paths_tx) : paths_tx'[i] = paths_tx[i]
      BY <3>1, <3>4, AppendProperties
    <3>6. \A i \in DOMAIN paths_tx' : i \in DOMAIN paths_tx \/ i = Len(paths_tx) + 1
      BY <3>5
    <3> QED BY <1>3, <3>3, <3>5, <3>6
  <2> QED BY <2>1, <2>2
<1> QED
  BY <1>4, <1>5 DEF Next, vars, ApplyBlock, SendTouched, UpdaterStops, Receive, QuoteOut,
     QuoteBack, Choose, CacheHit, Compute, Store, Disconnected, LockPoisoned

(***************************************************************************)
(* The theorems.                                                           *)
(***************************************************************************)

\* The cache never holds an output from before a change that the searcher has
\* received the event of, however blocks interleave with calculations: entries
\* computed between a block and its event, and entries stored after it, included.
THEOREM CacheStaysFresh == Spec => []CacheFresh
<1>1. IndInv => CacheFresh
  BY DEF IndInv
<1> QED BY <1>1, Inductive, PTL

\* The estimator's rates are those of a pool's current state unless a change of it
\* is on its way, although the two quotes of a pair take the lock separately.
THEOREM RatesStayFresh == Spec => []RatesFresh
<1>1. IndInv => RatesFresh
  BY DEF IndInv
<1> QED BY <1>1, Inductive, PTL

\* Every path sent to the simulator was followed to its end, and each amount on it
\* is what its pool gave at the event's block or later, whatever blocks came
\* between its steps and whichever of them were answered from the cache.
THEOREM PathsQuotedSinceEvent == Spec => []QuotedSinceEvent
<1>1. Init => QuoteInv
  BY InitTypes, InitQuotes DEF QuoteInv
<1>2. QuoteInv /\ [Next]_vars => QuoteInv'
  BY TypesStep, EventsStep, CalculatedStep, QuotedStep DEF QuoteInv
<1>3. QuoteInv => QuotedSinceEvent
  BY DEF QuoteInv
<1> QED BY <1>1, <1>2, <1>3, PTL DEF Spec



(***************************************************************************)
(* No path in profit is estimated away.                                    *)
(***************************************************************************)

\* What a division gives, without the division.
LEMMA DivGives ==
  ASSUME NEW a \in Nat, NEW b \in Nat \ {0}
  PROVE  /\ a \div b \in Nat
         /\ (a \div b) * b <= a
         /\ a < (a \div b) * b + b
OBVIOUS

\* Products are monotone, and a positive factor cancels.
LEMMA TimesMonotone ==
  ASSUME NEW a \in Nat, NEW b \in Nat, NEW c \in Nat, a <= b
  PROVE  a * c <= b * c
OBVIOUS
LEMMA TimesStrict ==
  ASSUME NEW a \in Nat, NEW b \in Nat, NEW c \in Nat \ {0}, a < b
  PROVE  a * c < b * c
OBVIOUS
LEMMA TimesCancels ==
  ASSUME NEW a \in Nat, NEW b \in Nat, NEW c \in Nat \ {0}, a * c <= b * c
  PROVE  a <= b
OBVIOUS
LEMMA TimesNat ==
  ASSUME NEW a \in Nat, NEW b \in Nat
  PROVE  a * b \in Nat /\ a * b = b * a /\ (a # 0 /\ b # 0 => a * b # 0)
OBVIOUS

\* Of two inputs the larger gets no better rate: a pool's curve is concave.
LEMMA Concave ==
  ASSUME NEW x \in Nat, NEW y \in Nat, y <= x, NEW g \in Nat,
         NEW i \in Nat \ {0}, NEW o \in Nat \ {0}
  PROVE  V2Out(x, i, o, g) * y <= x * (V2Out(y, i, o, g) + 1)
<1> DEFINE D == i * FeeBase + y * g
           E == i * FeeBase + x * g
           N == x * g * o
           M == y * g * o
           act == V2Out(x, i, o, g)
           z == V2Out(y, i, o, g)
<1>1. D \in Nat \ {0} /\ E \in Nat \ {0} /\ D <= E
  <2>1. x * g \in Nat /\ y * g \in Nat /\ y * g <= x * g
    BY TimesMonotone, TimesNat
  <2> QED BY <2>1 DEF FeeBase
<1>2. N \in Nat /\ M \in Nat
  BY TimesNat
<1>3. act = N \div E /\ z = M \div D
  BY DEF V2Out
<1>4. N * y = M * x
  OBVIOUS
<1> HIDE DEF D, E, N, M, act, z
<1>5. act \in Nat /\ act * E <= N /\ z \in Nat /\ M < z * D + D
  BY <1>1, <1>2, <1>3, DivGives
<1>6. act * D <= N
  <2>1. D * act <= E * act
    BY <1>1, <1>5, TimesMonotone
  <2> QED BY <1>1, <1>2, <1>5, <2>1, TimesNat
<1>7. (act * D) * y <= N * y
  <2>1. act * D \in Nat
    BY <1>1, <1>5, TimesNat
  <2> QED BY <1>2, <1>6, <2>1, TimesMonotone
<1>8. M * x <= (z * D + D) * x
  <2>1. z * D + D \in Nat
    BY <1>1, <1>5, TimesNat
  <2> QED BY <1>2, <1>5, <2>1, TimesMonotone
<1>9. (act * y) * D <= (x * (z + 1)) * D
  <2>1. (act * D) * y = (act * y) * D
    BY <1>1, <1>5
  <2>2. (z * D + D) * x = (x * (z + 1)) * D
    BY <1>1, <1>5
  <2>3. (act * D) * y \in Nat /\ (z * D + D) * x \in Nat /\ N * y \in Nat
    BY <1>1, <1>2, <1>5, TimesNat
  <2> QED BY <1>4, <1>7, <1>8, <2>1, <2>2, <2>3
<1>10. act * y <= x * (z + 1)
  <2>1. act * y \in Nat /\ x * (z + 1) \in Nat
    BY <1>5, TimesNat
  <2> QED BY <1>1, <1>9, <2>1, TimesCancels
<1> QED BY <1>10 DEF act, z

\* Nor does less going in bring more out.
LEMMA Monotone ==
  ASSUME NEW x \in Nat, NEW y \in Nat, x <= y, NEW g \in Nat,
         NEW i \in Nat \ {0}, NEW o \in Nat \ {0}
  PROVE  V2Out(x, i, o, g) <= V2Out(y, i, o, g)
<1> DEFINE I == i * FeeBase
           p == x * g
           r == y * g
           act == V2Out(x, i, o, g)
           z == V2Out(y, i, o, g)
<1>1. I \in Nat \ {0} /\ p \in Nat /\ r \in Nat /\ p <= r
  <2>1. p \in Nat /\ r \in Nat /\ p <= r
    BY TimesMonotone, TimesNat
  <2> QED BY <2>1 DEF FeeBase
<1>2. act = (p * o) \div (I + p) /\ z = (r * o) \div (I + r)
  BY DEF V2Out
<1> HIDE DEF I, p, r, act, z
<1>3. p * o \in Nat /\ r * o \in Nat /\ I + p \in Nat \ {0} /\ I + r \in Nat \ {0}
  BY <1>1, TimesNat
<1>4. /\ act \in Nat /\ act * (I + p) <= p * o
      /\ z \in Nat /\ r * o < z * (I + r) + (I + r)
  BY <1>2, <1>3, DivGives
<1>5. act * (I + p) = act * I + act * p /\ act * I \in Nat /\ act * p \in Nat
  BY <1>1, <1>4
<1>6. act <= o
  <2>1. SUFFICES ASSUME o < act PROVE FALSE
    BY <1>4
  <2>2. o * p <= act * p
    BY <1>1, <1>4, <2>1, TimesMonotone
  <2>3. o * p = p * o
    BY <1>1
  <2>4. act * I = 0
    BY <1>3, <1>4, <1>5, <2>2, <2>3
  <2> QED BY <1>1, <1>4, <2>1, <2>4, TimesNat
<1>7. act * (I + r) <= r * o
  <2> DEFINE n == o - act
  <2>1. n \in Nat /\ o = act + n
    BY <1>4, <1>6
  <2>2. p * n <= r * n
    BY <1>1, <2>1, TimesMonotone
  <2> HIDE DEF n
  <2>3. p * o = act * p + p * n /\ r * o = act * r + r * n /\ act * (I + r) = act * I + act * r
    BY <1>1, <1>4, <2>1
  <2>4. p * n \in Nat /\ r * n \in Nat /\ act * r \in Nat
    BY <1>1, <1>4, <2>1, TimesNat
  <2> QED BY <1>4, <1>5, <2>2, <2>3, <2>4
<1>8. z * (I + r) + (I + r) = (z + 1) * (I + r)
  BY <1>1, <1>4
<1>9. ~ (z + 1 <= act)
  <2>1. SUFFICES ASSUME z + 1 <= act PROVE FALSE
    OBVIOUS
  <2>2. (z + 1) * (I + r) <= act * (I + r)
    BY <1>1, <1>4, <2>1, TimesMonotone
  <2>3. act * (I + r) \in Nat /\ (z + 1) * (I + r) \in Nat
    BY <1>1, <1>4, TimesNat
  <2> QED BY <1>3, <1>4, <1>7, <1>8, <2>2, <2>3
<1>10. act <= z
  BY <1>4, <1>9
<1> QED BY <1>10 DEF act, z

\* A pool gives back no more than went in.
LEMMA ThereAndBack ==
  ASSUME NEW a \in Nat, NEW g \in 1 .. FeeBase,
         NEW i \in Nat \ {0}, NEW o \in Nat \ {0}
  PROVE  V2Out(V2Out(a, i, o, g), o, i, g) <= a
<1> DEFINE y == V2Out(a, i, o, g)
           z == V2Out(y, o, i, g)
           f == a * g
           b == y * g
           I == i * FeeBase
           O == o * FeeBase
<1>1. g \in Nat /\ FeeBase \in Nat \ {0} /\ g <= FeeBase
  BY DEF FeeBase
<1>2. f \in Nat /\ I \in Nat \ {0} /\ O \in Nat \ {0}
  BY <1>1, TimesNat
<1>3. y = (f * o) \div (I + f) /\ y \in Nat
  BY <1>1, V2OutType DEF V2Out
<1> HIDE DEF y
<1>4. b \in Nat /\ z = (b * i) \div (O + b) /\ z \in Nat
  BY <1>1, <1>3, V2OutType, TimesNat DEF V2Out
<1> HIDE DEF z, f, b, I, O
<1>5. y * (I + f) <= f * o
  <2>1. f * o \in Nat /\ I + f \in Nat \ {0}
    BY <1>2, TimesNat
  <2> QED BY <1>3, <2>1, DivGives
<1>6. z * (O + b) <= b * i
  <2>1. b * i \in Nat /\ O + b \in Nat \ {0}
    BY <1>2, <1>4, TimesNat
  <2> QED BY <1>4, <2>1, DivGives
<1>7. y * I <= f * o
  <2>1. y * (I + f) = y * I + y * f /\ y * f \in Nat /\ y * I \in Nat /\ f * o \in Nat
    BY <1>2, <1>3, TimesNat
  <2> QED BY <1>5, <2>1
<1>8. z * O <= b * i
  <2>1. z * (O + b) = z * O + z * b /\ z * b \in Nat /\ z * O \in Nat /\ b * i \in Nat
    BY <1>2, <1>4, TimesNat
  <2> QED BY <1>6, <2>1
<1>9. b * i <= y * I
  <2>1. g * (y * i) <= FeeBase * (y * i)
    <3>1. y * i \in Nat
      BY <1>3, TimesNat
    <3> QED BY <1>1, <3>1, TimesMonotone
  <2>2. b * i = g * (y * i) /\ y * I = FeeBase * (y * i)
    BY <1>1, <1>3 DEF b, I
  <2> QED BY <2>1, <2>2
<1>10. f * o <= a * O
  <2>1. g * (a * o) <= FeeBase * (a * o)
    <3>1. a * o \in Nat
      BY TimesNat
    <3> QED BY <1>1, <3>1, TimesMonotone
  <2>2. f * o = g * (a * o) /\ a * O = FeeBase * (a * o)
    BY <1>1 DEF f, O
  <2> QED BY <2>1, <2>2
<1>11. z * O <= a * O
  <2>1. /\ z * O \in Nat /\ b * i \in Nat /\ y * I \in Nat /\ f * o \in Nat /\ a * O \in Nat
    BY <1>2, <1>3, <1>4, TimesNat
  <2> QED BY <1>7, <1>8, <1>9, <1>10, <2>1
<1>12. z <= a
  BY <1>2, <1>4, <1>11, TimesCancels
<1> QED BY <1>12 DEF z, y

\* Two rates multiplied, each rounded down, and what that can cost.  x is what the first
\* pool gives for A, y and z what the second gives for A and takes for that; x goes
\* through at the rate of z to y.  T scales the rates, K and L scale to them.
LEMMA EstimateCovers ==
  ASSUME NEW A \in Nat \ {0}, NEW T \in Nat \ {0}, NEW K \in Nat \ {0}, NEW L \in Nat \ {0},
         NEW x \in Nat, NEW y \in Nat \ {0}, NEW z \in Nat, NEW act \in Nat, NEW n \in Nat,
         act * y <= x * (z + 1),
         n * (y * K * T * L) >= x * y * K * K + z * (T + A) * L * L + x * K * T * L
  PROVE  LET r == (x * K * T) \div (A * L)
             a == (A * r) \div T
             s == (z * L * T) \div (y * K)
             e == (a * s) \div T
         IN  act <= e + n /\ e * y <= x * z
<1> DEFINE r == (x * K * T) \div (A * L)
           a == (A * r) \div T
           s == (z * L * T) \div (y * K)
           e == (a * s) \div T
           AL == A * L
           yK == y * K
           xKT == x * K * T
           zLT == z * L * T
<1>1. AL \in Nat \ {0} /\ yK \in Nat \ {0} /\ xKT \in Nat /\ zLT \in Nat
  BY TimesNat
<1>2. r = xKT \div AL /\ s = zLT \div yK
  OBVIOUS
<1> HIDE DEF AL, yK, xKT, zLT, r, s
<1>3. r \in Nat /\ r * AL <= xKT /\ xKT < r * AL + AL
  BY <1>1, <1>2, DivGives
<1>4. s \in Nat /\ s * yK <= zLT /\ zLT < s * yK + yK
  BY <1>1, <1>2, DivGives
<1>5. a \in Nat /\ a * T <= A * r /\ A * r < a * T + T
  <2>1. A * r \in Nat
    BY <1>3, TimesNat
  <2> QED BY <2>1, DivGives
<1> HIDE DEF a
<1>6. e \in Nat /\ e * T <= a * s /\ a * s < e * T + T
  <2>1. a * s \in Nat
    BY <1>4, <1>5, TimesNat
  <2> QED BY <2>1, DivGives
<1> HIDE DEF e
<1>p. r * AL = (A * r) * L /\ A * r \in Nat /\ a * T \in Nat /\ a * s \in Nat /\ e * T \in Nat
  <2>1. r * AL = (A * r) * L
    BY <1>3 DEF AL
  <2> QED BY <1>3, <1>4, <1>5, <1>6, <2>1, TimesNat
\* The first hop, from above and from below.
<1>7. a * L <= x * K
  <2>1. (a * T) * L <= (A * r) * L
    BY <1>p, <1>5, TimesMonotone
  <2>2. (a * T) * L = (a * L) * T /\ xKT = (x * K) * T
    BY <1>5 DEF xKT
  <2>3. (a * L) * T <= (x * K) * T
    <3>1. (a * T) * L \in Nat /\ (A * r) * L \in Nat
      BY <1>p, TimesNat
    <3> QED BY <1>1, <1>3, <1>p, <2>1, <2>2, <3>1
  <2>4. a * L \in Nat /\ x * K \in Nat
    BY <1>5, TimesNat
  <2> QED BY <2>3, <2>4, TimesCancels
<1>8. xKT < (a * T + T) * L + AL
  <2>1. (A * r) * L <= (a * T + T) * L
    <3>1. a * T + T \in Nat
      BY <1>p
    <3> QED BY <1>p, <1>5, <3>1, TimesMonotone
  <2>2. (a * T + T) * L \in Nat /\ (A * r) * L \in Nat
    BY <1>p, TimesNat
  <2> QED BY <1>1, <1>3, <1>p, <2>1, <2>2
\* The second hop.
<1>9. a * zLT <= (a * s) * yK + a * yK
  <2>1. zLT * a <= (s * yK + yK) * a
    <3>1. s * yK + yK \in Nat
      BY <1>1, <1>4, TimesNat
    <3> QED BY <1>1, <1>4, <1>5, <3>1, TimesMonotone
  <2>2. zLT * a = a * zLT /\ (s * yK + yK) * a = (a * s) * yK + a * yK
    BY <1>1, <1>4, <1>5
  <2> QED BY <2>1, <2>2
<1>10. (a * s) * yK < (e * T + T) * yK
  <2>1. e * T + T \in Nat
    BY <1>p
  <2> QED BY <1>1, <1>6, <1>p, <2>1, TimesStrict
<1>11. a * zLT < (e * T + T) * yK + a * yK
  <2>1. (a * s) * yK \in Nat /\ (e * T + T) * yK \in Nat /\ a * yK \in Nat /\ a * zLT \in Nat
    BY <1>1, <1>5, <1>p, TimesNat
  <2> QED BY <1>9, <1>10, <2>1
\* Together: what the path gives, against the estimate and what rounding took off it.
<1>12. xKT * z <= a * zLT + z * (T * L) + z * AL
  <2>1. xKT * z <= ((a * T + T) * L + AL) * z
    <3>1. (a * T + T) * L + AL \in Nat
      BY <1>1, <1>p, TimesNat
    <3> QED BY <1>1, <1>8, <3>1, TimesMonotone
  <2>2. ((a * T + T) * L + AL) * z = a * zLT + z * (T * L) + z * AL
    <3>1. ((a * T + T) * L) * z = a * (z * L * T) + z * (T * L)
      BY <1>5
    <3>2. ((a * T + T) * L + AL) * z = ((a * T + T) * L) * z + z * AL
      <4>1. (a * T + T) * L \in Nat
        BY <1>p, TimesNat
      <4> QED BY <1>1, <4>1
    <3> QED BY <3>1, <3>2 DEF zLT
  <2> QED BY <2>1, <2>2
<1>13. (act * y) * (K * T) <= xKT * z + xKT
  <2>1. (act * y) * (K * T) <= (x * (z + 1)) * (K * T)
    <3>1. act * y \in Nat /\ x * (z + 1) \in Nat /\ K * T \in Nat
      BY TimesNat
    <3> QED BY <3>1, TimesMonotone
  <2>2. (x * (z + 1)) * (K * T) = xKT * z + xKT
    BY DEF xKT
  <2> QED BY <2>1, <2>2
<1> DEFINE lost == a * yK + z * (T * L) + z * AL + xKT
           U == yK * T
<1>14. act * U < (e + 1) * U + lost
  <2>1. act * U = (act * y) * (K * T)
    BY DEF yK
  <2>2. (e * T + T) * yK = (e + 1) * U
    BY <1>1, <1>6
  <2>3. /\ act * U \in Nat /\ (e + 1) * U \in Nat /\ a * zLT \in Nat /\ z * (T * L) \in Nat
        /\ z * AL \in Nat /\ a * yK \in Nat /\ xKT * z \in Nat
    <3>1. U \in Nat /\ T * L \in Nat
      BY <1>1, TimesNat
    <3> QED BY <1>1, <1>5, <1>6, <3>1, TimesNat
  <2> HIDE DEF U
  <2> QED BY <1>1, <1>11, <1>12, <1>13, <2>1, <2>2, <2>3
\* The slack covers it.
<1>15. lost <= n * U
  <2>1. (a * yK) * L <= x * y * K * K
    <3>1. (a * L) * yK <= (x * K) * yK
      <4>1. a * L \in Nat /\ x * K \in Nat
        BY <1>5, TimesNat
      <4> QED BY <1>1, <1>7, <4>1, TimesMonotone
    <3>2. (a * L) * yK = (a * yK) * L
      BY <1>1, <1>5
    <3>3. (x * K) * yK = x * y * K * K
      BY DEF yK
    <3> QED BY <3>1, <3>2, <3>3
  <2>2. lost * L = (a * yK) * L + z * (T + A) * L * L + x * K * T * L
    <3>1. lost * L = (a * yK) * L + (z * (T * L)) * L + (z * AL) * L + xKT * L
      <4>1. a * yK \in Nat /\ z * (T * L) \in Nat /\ z * AL \in Nat
        BY <1>1, <1>5, TimesNat
      <4> QED BY <1>1, <4>1
    <3>2. (z * (T * L)) * L + (z * AL) * L = z * (T + A) * L * L
      BY DEF AL
    <3>3. xKT * L = x * K * T * L
      BY DEF xKT
    <3>4. /\ (z * (T * L)) * L \in Nat /\ (z * AL) * L \in Nat /\ xKT * L \in Nat
          /\ (a * yK) * L \in Nat
      <4>1. a * yK \in Nat /\ z * (T * L) \in Nat /\ z * AL \in Nat
        BY <1>1, <1>5, TimesNat
      <4> QED BY <1>1, <4>1, TimesNat
    <3> HIDE DEF lost
    <3> QED BY <3>1, <3>2, <3>3, <3>4
  <2>3. (n * U) * L = n * (y * K * T * L)
    BY DEF yK
  <2>4. lost * L <= (n * U) * L
    <3>1. z * (T + A) * L * L \in Nat /\ x * K * T * L \in Nat /\ x * y * K * K \in Nat
      <4>1. z * (T + A) \in Nat /\ x * K \in Nat /\ x * y \in Nat
        BY TimesNat
      <4>2. z * (T + A) * L \in Nat /\ x * K * T \in Nat /\ x * y * K \in Nat
        BY <4>1, TimesNat
      <4> QED BY <4>2, TimesNat
    <3>2. (a * yK) * L \in Nat /\ n * (y * K * T * L) \in Nat
      <4>1. a * yK \in Nat /\ y * K \in Nat
        BY <1>1, <1>5, TimesNat
      <4>2. y * K * T \in Nat
        BY <4>1, TimesNat
      <4>3. y * K * T * L \in Nat
        BY <4>2, TimesNat
      <4> QED BY <4>1, <4>3, TimesNat
    <3> HIDE DEF lost, U
    <3> QED BY <2>1, <2>2, <2>3, <3>1, <3>2
  <2>5. lost \in Nat /\ n * U \in Nat
    <3>1. a * yK \in Nat /\ z * (T * L) \in Nat /\ z * AL \in Nat /\ U \in Nat
      BY <1>1, <1>5, TimesNat
    <3> QED BY <1>1, <3>1, TimesNat
  <2> HIDE DEF lost, U
  <2> QED BY <2>4, <2>5, TimesCancels
<1>16. act <= e + n
  <2>1. SUFFICES ASSUME e + 1 + n <= act PROVE FALSE
    BY <1>6
  <2>2. U \in Nat
    BY <1>1, TimesNat
  <2>3. lost \in Nat
    <3>1. a * yK \in Nat /\ z * (T * L) \in Nat /\ z * AL \in Nat
      BY <1>1, <1>5, TimesNat
    <3> QED BY <1>1, <3>1
  <2> HIDE DEF U, lost
  <2>4. (e + 1 + n) * U <= act * U
    <3>1. e + 1 + n \in Nat
      BY <1>6
    <3> QED BY <2>1, <2>2, <3>1, TimesMonotone
  <2>5. (e + 1 + n) * U = (e + 1) * U + n * U
    BY <1>6, <2>2
  <2>6. act * U \in Nat /\ (e + 1) * U \in Nat /\ n * U \in Nat
    BY <1>6, <2>2, TimesNat
  <2> QED BY <1>14, <1>15, <2>3, <2>4, <2>5, <2>6
\* And the estimate is not above the product of the two rates.
<1>17. e * y <= x * z
  <2>1. (e * T) * (yK * L) <= (x * z) * (K * L * T)
    <3>1. (e * T) * (yK * L) <= (a * s) * (yK * L)
      <4>1. yK * L \in Nat
        BY <1>1, TimesNat
      <4> QED BY <1>6, <1>p, <4>1, TimesMonotone
    <3>2. (a * s) * (yK * L) = (s * yK) * (a * L)
      BY <1>1, <1>4, <1>5
    <3>3. (s * yK) * (a * L) <= zLT * (a * L)
      <4>1. s * yK \in Nat /\ a * L \in Nat
        BY <1>1, <1>4, <1>5, TimesNat
      <4> QED BY <1>1, <1>4, <4>1, TimesMonotone
    <3>4. (a * L) * zLT <= (x * K) * zLT
      <4>1. a * L \in Nat /\ x * K \in Nat
        BY <1>5, TimesNat
      <4> QED BY <1>1, <1>7, <4>1, TimesMonotone
    <3>5. zLT * (a * L) = (a * L) * zLT
      BY <1>1, <1>5
    <3>6. (x * K) * zLT = (x * z) * (K * L * T)
      BY DEF zLT
    <3>7. /\ (e * T) * (yK * L) \in Nat /\ (s * yK) * (a * L) \in Nat
          /\ (a * L) * zLT \in Nat /\ (x * K) * zLT \in Nat
      <4>1. /\ e * T \in Nat /\ yK * L \in Nat /\ s * yK \in Nat /\ a * L \in Nat
            /\ x * K \in Nat
        BY <1>1, <1>4, <1>5, <1>6, TimesNat
      <4> QED BY <1>1, <4>1, TimesNat
    <3> QED BY <3>1, <3>2, <3>3, <3>4, <3>5, <3>6, <3>7
  <2>2. (e * T) * (yK * L) = (e * y) * (K * L * T)
    BY <1>6 DEF yK
  <2>3. K * L * T \in Nat \ {0} /\ e * y \in Nat /\ x * z \in Nat
    <3>1. K * L \in Nat /\ K * L # 0
      BY TimesNat
    <3> QED BY <1>6, <3>1, TimesNat
  <2> QED BY <2>1, <2>2, <2>3, TimesCancels
<1>18. act <= e + n /\ e * y <= x * z
  BY <1>16, <1>17
<1> QED BY <1>18 DEF e, a, s, r

\* The estimate of a path of two hops.
LEMMA EstimateOfTwo ==
  ASSUME NEW c, Len(c) = 2
  PROVE  Estimate(c) =
           (((Amount * rates[c[1].pool][c[1].token_in]) \div PowTen[RateScale])
              * rates[c[2].pool][c[2].token_in]) \div PowTen[RateScale]
<1> DEFINE r(n) == rates[c[n].pool][c[n].token_in]
           Def(f) == f = [n \in 0 .. Len(c) |->
                            IF n = 0 THEN Amount
                            ELSE (f[n - 1] * rates[c[n].pool][c[n].token_in]) \div PowTen[RateScale]]
           R == CHOOSE f : Def(f)
           a1 == (Amount * r(1)) \div PowTen[RateScale]
           a2 == (a1 * r(2)) \div PowTen[RateScale]
           g == [n \in 0 .. 2 |-> IF n = 0 THEN Amount ELSE IF n = 1 THEN a1 ELSE a2]
<1>1. Estimate(c) = R[2]
  BY Zenon DEF Estimate
<1>2. Def(g)
  <2>1. 0 .. 2 = {0, 1, 2}
    OBVIOUS
  <2>2. g[0] = Amount /\ g[1] = a1 /\ g[2] = a2
    OBVIOUS
  <2>3. ASSUME NEW n \in 0 .. 2
        PROVE  g[n] = IF n = 0 THEN Amount ELSE (g[n - 1] * r(n)) \div PowTen[RateScale]
    <3> HIDE DEF g
    <3>1. CASE n = 0
      BY <2>2, <3>1
    <3>2. CASE n = 1
      BY <2>2, <3>2
    <3>3. CASE n = 2
      BY <2>2, <3>3
    <3> QED BY <2>1, <3>1, <3>2, <3>3
  <2>4. g = [n \in 0 .. 2 |-> g[n]]
    OBVIOUS
  <2> HIDE DEF g
  <2> QED BY <2>3, <2>4
<1>3. Def(R)
  <2> HIDE DEF g, Def
  <2> QED BY <1>2
<1> HIDE DEF g, R
<1>4. R[0] = Amount /\ R[1] = a1
  <2>1. 0 \in 0 .. Len(c) /\ 1 \in 0 .. Len(c) /\ 1 # 0 /\ 1 - 1 = 0
    OBVIOUS
  <2>2. R[0] = Amount
    BY <1>3, <2>1
  <2> QED BY <1>3, <2>1, <2>2
<1>5. R[2] = a2
  <2>1. 2 \in 0 .. Len(c) /\ 2 # 0 /\ 2 - 1 = 1
    OBVIOUS
  <2>2. R[2] = (R[1] * r(2)) \div PowTen[RateScale]
    BY <1>3, <2>1
  <2> QED BY <1>4, <2>2
<1> QED BY <1>1, <1>5

\* What a path of two hops gives.
LEMMA OutputOfTwo ==
  ASSUME NEW c, Len(c) = 2
  PROVE  ActualOutput(c) =
           Quote(c[2].pool, c[2].token_in, db[c[2].pool],
                 Quote(c[1].pool, c[1].token_in, db[c[1].pool], Amount))
<1> DEFINE Def(f) == f = [n \in 0 .. Len(c) |->
                            IF n = 0 THEN Amount
                            ELSE Quote(c[n].pool, c[n].token_in, db[c[n].pool], f[n - 1])]
           R == CHOOSE f : Def(f)
           a1 == Quote(c[1].pool, c[1].token_in, db[c[1].pool], Amount)
           a2 == Quote(c[2].pool, c[2].token_in, db[c[2].pool], a1)
           g == [n \in 0 .. 2 |-> IF n = 0 THEN Amount ELSE IF n = 1 THEN a1 ELSE a2]
<1>1. ActualOutput(c) = R[2]
  BY Zenon DEF ActualOutput
<1>2. Def(g)
  <2>1. 0 .. 2 = {0, 1, 2}
    OBVIOUS
  <2>2. g[0] = Amount /\ g[1] = a1 /\ g[2] = a2
    OBVIOUS
  <2>3. ASSUME NEW n \in 0 .. 2
        PROVE  g[n] = IF n = 0 THEN Amount
                      ELSE Quote(c[n].pool, c[n].token_in, db[c[n].pool], g[n - 1])
    <3> HIDE DEF g
    <3>1. CASE n = 0
      BY <2>2, <3>1
    <3>2. CASE n = 1
      BY <2>2, <3>2
    <3>3. CASE n = 2
      BY <2>2, <3>3
    <3> QED BY <2>1, <3>1, <3>2, <3>3
  <2>4. g = [n \in 0 .. 2 |-> g[n]]
    OBVIOUS
  <2> HIDE DEF g
  <2> QED BY <2>3, <2>4
<1>3. Def(R)
  <2> HIDE DEF g, Def
  <2> QED BY <1>2
<1> HIDE DEF g, R
<1>4. R[0] = Amount /\ R[1] = a1
  <2>1. 0 \in 0 .. Len(c) /\ 1 \in 0 .. Len(c) /\ 1 # 0 /\ 1 - 1 = 0
    OBVIOUS
  <2>2. R[0] = Amount
    BY <1>3, <2>1
  <2> QED BY <1>3, <2>1, <2>2
<1>5. R[2] = a2
  <2>1. 2 \in 0 .. Len(c) /\ 2 # 0 /\ 2 - 1 = 1
    OBVIOUS
  <2>2. R[2] = Quote(c[2].pool, c[2].token_in, db[c[2].pool], R[1])
    BY <1>3, <2>1
  <2> QED BY <1>4, <2>2
<1> QED BY <1>1, <1>5

\* What RoundingWithin says of one pair of states.
Bounded(x, y, z, T, L, K) ==
  /\ Slack * (y * K * T * L) >= x * y * K * K + z * (T + Amount) * L * L + x * K * T * L
  /\ x * z < MaxEstimate * y

\* What rounding takes off the estimate of a cycle, put without LET.
LEMMA RoundingOf ==
  ASSUME RoundingWithin(Slack), NEW c \in Cycles,
         NEW s \in States[c[1].pool], NEW u \in States[c[2].pool],
         Quote(c[1].pool, 0, s, Amount) > 0,
         Quote(c[2].pool, 0, u, Amount) <= Quote(c[1].pool, 0, s, Amount)
  PROVE  Bounded(Quote(c[1].pool, 0, s, Amount), Quote(c[2].pool, 0, u, Amount),
                 Quote(c[2].pool, 1, u, Quote(c[2].pool, 0, u, Amount)),
                 PowTen[RateScale], PowTen[RateScale - Decimals[c[2].pool][0]],
                 PowTen[RateScale - Decimals[c[2].pool][1]])
BY Zenon DEF RoundingWithin, Bounded

\* A cycle in profit is not estimated away, nor is its estimate past belief.
LEMMA CycleKept ==
  ASSUME IndInv, spc = "rates", todo = {}, Pending = {}, TwoHops, RoundingWithin(Slack),
         NEW c \in Cycles, ActualOutput(c) >= MinProfit + Slack
  PROVE  Estimate(c) >= MinProfit /\ Estimate(c) < MaxEstimate
<1>1. PICK p \in Pools, q \in Pools :
        /\ c = <<[pool |-> p, token_in |-> 0], [pool |-> q, token_in |-> 1]>>
        /\ Weth[p] = 0 /\ Weth[q] = 0
        /\ Decimals[p] = Decimals[q]
        /\ Decimals[p][0] <= RateScale /\ Decimals[p][1] <= RateScale
  BY DEF TwoHops
<1>2. /\ Len(c) = 2 /\ c[1].pool = p /\ c[1].token_in = 0 /\ c[2].pool = q /\ c[2].token_in = 1
  BY <1>1
<1> DEFINE s   == db[p]
           u   == db[q]
           x   == Quote(p, 0, s, Amount)
           y   == Quote(q, 0, u, Amount)
           z   == Quote(q, 1, u, y)
           act == Quote(q, 1, u, x)
           T   == PowTen[RateScale]
           L   == PowTen[RateScale - Decimals[q][0]]
           K   == PowTen[RateScale - Decimals[q][1]]
<1>3. /\ s \in States[p] /\ u \in States[q]
      /\ s[1] \in Nat \ {0} /\ s[2] \in Nat \ {0} /\ u[1] \in Nat \ {0} /\ u[2] \in Nat \ {0}
      /\ Fee[p] \in 1 .. FeeBase /\ Fee[q] \in 1 .. FeeBase
      /\ Amount \in Nat \ {0} /\ MaxEstimate \in Nat /\ Slack \in Nat
  <2>1. s \in States[p] /\ u \in States[q]
    BY DbType DEF IndInv, Types
  <2>2. s \in (Nat \ {0}) \X (Nat \ {0}) /\ u \in (Nat \ {0}) \X (Nat \ {0})
    BY <2>1, PoolAssumption
  <2> QED BY <2>1, <2>2, PoolAssumption, AmountAssumption
<1>4. /\ x = V2Out(Amount, s[1], s[2], Fee[p]) /\ y = V2Out(Amount, u[1], u[2], Fee[q])
      /\ z = V2Out(y, u[2], u[1], Fee[q]) /\ act = V2Out(x, u[2], u[1], Fee[q])
  BY DEF Quote, AmountOut
<1>5. /\ Decimals[q][0] \in Nat /\ Decimals[q][1] \in Nat
      /\ T \in Nat \ {0} /\ L \in Nat \ {0} /\ K \in Nat \ {0}
  <2>1. Decimals[q][0] \in Nat /\ Decimals[q][1] \in Nat
    BY PoolAssumption
  <2>2. RateScale \in Nat /\ RateScale - Decimals[q][0] \in Nat /\ RateScale - Decimals[q][1] \in Nat
    BY <1>1, <2>1, ScaleAssumption
  <2> QED BY <2>1, <2>2, PowTenType
<1>6. act = ActualOutput(c)
  BY <1>2, OutputOfTwo
<1>7. /\ rates[p][0] = CalculateRate(Amount, x, Decimals[q][0], Decimals[q][1])
      /\ rates[q][1] = CalculateRate(y, z, Decimals[q][1], Decimals[q][0])
  <2>1. rates[p] = CurrentRates(p) /\ rates[q] = CurrentRates(q)
    BY DEF IndInv, RatesFresh
  <2>2. /\ CurrentRates(p) = EthPoolRates(0, Decimals[p], Amount, x, Quote(p, 1, s, x))
        /\ CurrentRates(q) = EthPoolRates(0, Decimals[q], Amount, y, z)
    BY <1>1 DEF CurrentRates, Rates
  <2> HIDE DEF x, y, z
  <2> QED BY <1>1, <2>1, <2>2 DEF EthPoolRates
<1>e. /\ x = Quote(p, 0, s, Amount) /\ y = Quote(q, 0, u, Amount) /\ z = Quote(q, 1, u, y)
      /\ T = PowTen[RateScale] /\ L = PowTen[RateScale - Decimals[q][0]]
      /\ K = PowTen[RateScale - Decimals[q][1]]
  OBVIOUS
<1> HIDE DEF s, u, x, y, z, act, T, L, K
<1>f. Fee[p] \in Nat /\ Fee[q] \in Nat
  <2>1. \A f \in 1 .. FeeBase : f \in Nat
    BY DEF FeeBase
  <2> QED BY <1>3, <2>1
<1>8. x \in Nat /\ y \in Nat /\ z \in Nat /\ act \in Nat
  <2>1. x \in Nat /\ y \in Nat
    BY <1>3, <1>4, <1>f, V2OutType
  <2>2. z \in Nat
    BY <1>3, <1>4, <1>f, <2>1, V2OutType
  <2>3. act \in Nat
    BY <1>3, <1>4, <1>f, <2>1, V2OutType
  <2> QED BY <2>1, <2>2, <2>3
<1>9. /\ MinProfit \in Nat /\ Amount <= MinProfit /\ act >= MinProfit + Slack
  <2>1. (Amount * 9) \div 10000 \in Nat /\ Amount \div 100 \in Nat
    BY <1>3
  <2> QED BY <1>3, <1>6, <2>1 DEF MinProfit, FlashLoanFee
<1>s. Slack > 0
  BY DEF RoundingWithin
<1>10. x > 0
  <2>1. SUFFICES ASSUME x = 0 PROVE FALSE
    BY <1>8
  <2>2. act = 0
    <3>1. \A i \in Nat \ {0}, o, f \in Nat : V2Out(0, i, o, f) = 0
      <4>1. ASSUME NEW i \in Nat \ {0}, NEW o \in Nat, NEW f \in Nat PROVE V2Out(0, i, o, f) = 0
        <5>1. 0 * f * o = 0 /\ i * FeeBase + 0 * f \in Nat \ {0}
          BY DEF FeeBase
        <5>2. \A d \in Nat \ {0} : 0 \div d = 0
          OBVIOUS
        <5> QED BY <5>1, <5>2 DEF V2Out
      <4> QED BY <4>1
    <3> QED BY <1>3, <1>4, <2>1, <3>1
  <2> QED BY <1>3, <1>9, <1>s, <2>2
<1>11. y <= x
  <2>1. SUFFICES ASSUME x <= y PROVE act <= Amount
    BY <1>3, <1>8, <1>9, <1>s
  <2>2. act <= z
    BY <1>3, <1>4, <1>8, <1>f, <2>1, Monotone
  <2>3. z <= Amount
    BY <1>3, <1>4, ThereAndBack
  <2> QED BY <1>3, <1>8, <2>2, <2>3
<1>12. /\ Slack * (y * K * T * L) >= x * y * K * K + z * (T + Amount) * L * L + x * K * T * L
       /\ x * z < MaxEstimate * y
  <2>1. p = c[1].pool /\ q = c[2].pool /\ s \in States[p] /\ u \in States[q]
    BY <1>2, <1>3
  <2>2. /\ Quote(c[1].pool, 0, s, Amount) > 0
        /\ Quote(c[2].pool, 0, u, Amount) <= Quote(c[1].pool, 0, s, Amount)
    BY <1>e, <1>10, <1>11, <2>1
  <2>3. Bounded(Quote(c[1].pool, 0, s, Amount), Quote(c[2].pool, 0, u, Amount),
                Quote(c[2].pool, 1, u, Quote(c[2].pool, 0, u, Amount)),
                PowTen[RateScale], PowTen[RateScale - Decimals[c[2].pool][0]],
                PowTen[RateScale - Decimals[c[2].pool][1]])
    BY <2>1, <2>2, RoundingOf
  <2>4. Bounded(x, y, z, T, L, K)
    BY <1>e, <2>1, <2>3
  <2> QED BY <2>4 DEF Bounded
<1>13. y \in Nat \ {0}
  BY <1>3, <1>8, <1>12
<1>14. act * y <= x * (z + 1)
  BY <1>3, <1>4, <1>8, <1>11, <1>f, Concave
<1>15. /\ rates[p][0] = (x * K * T) \div (Amount * L)
       /\ rates[q][1] = (z * L * T) \div (y * K)
  <2>1. /\ \A m : ScaleToRate(m, Decimals[q][0]) = m * L
        /\ \A m : ScaleToRate(m, Decimals[q][1]) = m * K
    BY <1>1 DEF ScaleToRate, L, K
  <2>2. Amount * L # 0 /\ y * K # 0
    BY <1>3, <1>5, <1>13, TimesNat
  <2> QED BY <1>7, <2>1, <2>2 DEF CalculateRate, T
<1> DEFINE r  == (x * K * T) \div (Amount * L)
           a  == (Amount * r) \div T
           s2 == (z * L * T) \div (y * K)
           e  == (a * s2) \div T
<1>16. Estimate(c) = e
  BY <1>2, <1>15, EstimateOfTwo DEF T
<1>17. act <= e + Slack /\ e * y <= x * z
  BY <1>3, <1>5, <1>8, <1>12, <1>13, <1>14, EstimateCovers
<1>18. e \in Nat
  <2>1. r \in Nat /\ s2 \in Nat
    <3>1. x * K * T \in Nat /\ z * L * T \in Nat
      <4>1. x * K \in Nat /\ z * L \in Nat
        BY <1>5, <1>8, TimesNat
      <4> QED BY <1>5, <4>1, TimesNat
    <3>2. Amount * L \in Nat \ {0} /\ y * K \in Nat \ {0}
      BY <1>3, <1>5, <1>13, TimesNat
    <3> QED BY <3>1, <3>2, DivGives
  <2> HIDE DEF r, s2
  <2>2. a \in Nat
    <3>1. Amount * r \in Nat
      BY <1>3, <2>1, TimesNat
    <3> QED BY <1>5, <3>1, DivGives
  <2> HIDE DEF a
  <2>3. a * s2 \in Nat
    BY <2>1, <2>2, TimesNat
  <2> QED BY <1>5, <2>3, DivGives
<1> HIDE DEF e
<1>19. e < MaxEstimate
  <2>1. SUFFICES ASSUME MaxEstimate <= e PROVE FALSE
    BY <1>3, <1>18
  <2>2. MaxEstimate * y <= e * y
    BY <1>3, <1>13, <1>18, <2>1, TimesMonotone
  <2>3. MaxEstimate * y \in Nat /\ e * y \in Nat /\ x * z \in Nat
    BY <1>3, <1>8, <1>13, <1>18, TimesNat
  <2> QED BY <1>12, <1>17, <2>2, <2>3
<1>20. e >= MinProfit
  BY <1>3, <1>8, <1>9, <1>17, <1>18
<1> QED BY <1>16, <1>19, <1>20

\* For cycles of two hops from WETH, pools with any reserves and fees and tokens with any
\* decimals: whenever the estimator has caught up with the database it keeps every path
\* through a touched pool that is in profit by more than rounding may cost.  It rates a
\* pool at another amount than the one that arrives there; that this never hides a profit
\* is because the curve is concave (Concave), because an amount below the one the rate was
\* taken at earns nothing (Monotone, ThereAndBack), and because no rate is stale.
THEOREM ProfitNotMissed == TwoHops /\ RoundingWithin(Slack) => (Spec => []NoProfitMissed)
<1> SUFFICES ASSUME TwoHops, RoundingWithin(Slack) PROVE Spec => []NoProfitMissed
  OBVIOUS
<1>1. IndInv => NoProfitMissed
  BY CycleKept DEF NoProfitMissed, Candidates
<1> QED BY <1>1, Inductive, PTL
=============================================================================

---------------------------- MODULE FilterProofs ----------------------------
(***************************************************************************)
(* Proofs about the pool filter, for any tokens, pools, rankings, slots    *)
(* and amounts that AMOUNT may be: pools pass for themselves, those that   *)
(* pass are deep, and a restart works with the same ones.                  *)
(***************************************************************************)
EXTENDS Filter, TLAPS

(***************************************************************************)
(* The inductive invariant.                                                *)
(***************************************************************************)

\* The cells written are balance slots that the code found; those of a pool's tokens,
\* and the approvals, are there between its two swaps.
DatabaseInv ==
  /\ \A c \in nodedb.cell : \E t \in Tokens : \E s \in SlotOf(t) : c = <<t, s>>
  /\ pc \in {"next", "back"} =>
       \A x \in pools : \A t \in Of(x) : t \in DOMAIN slot_map /\ slot_map[t] = SlotOf(t)
  /\ \A tried \in trial : \A t \in Of(tried.pool) :
       /\ \A s \in SlotOf(t) : <<t, s>> \in nodedb.cell
       /\ <<t, Info[tried.pool].type>> \in nodedb.allowance

\* The pool being tried has given what its own reserves say.
TrialInv ==
  \A tried \in trial :
    LET x == tried.pool
    IN  /\ tried.amt = Out(x, Info[x].reserve, TokenIn(x), Amount)
        /\ Info[x].reserve[1] > 0 /\ Info[x].reserve[2] > 0
        /\ LET t == IF ZeroToOne(x) THEN Info[x].t0 ELSE Info[x].t1
           IN  BalanceSlot[t] \in SlotOf(t)

\* Of the pools that are dealt with, those that pass have been kept.
SelectInv ==
  /\ pc \in {"start", "fetch", "write", "match", "panicked"} => filtered_pools = {}
  /\ pc \in {"start", "fetch", "write", "match"} => pools = Pools
  /\ pc \in {"next", "back", "done"} =>
       filtered_pools = Selection(top_volume_tokens) \ pools
  /\ pc \in {"next", "back", "done"} => \A x \in pools : Matches(x, top_volume_tokens)
  /\ pc = "done" => pools = {}

\* What was chosen once is what the file, which stays as it is, leads to, unless it is
\* cut short: then the start that left it so was the first to choose and is the last.
ChosenInv ==
  /\ pc = "fetch" => disk = Absent
  /\ pc \in {"write", "match", "next", "back"} /\ disk = Torn => chosen = {}
  /\ chosen # {} => disk = Torn \/ (disk = Whole(disk.list) /\ chosen = {Selection(disk.list)})
  /\ pc = "done" => chosen = {Selection(top_volume_tokens)}

IndInv == TypeOK /\ DatabaseInv /\ TrialInv /\ SelectInv /\ ChosenInv

(***************************************************************************)
(* What a swap there and back says of a pool.                              *)
(***************************************************************************)

LEMMA DivGives ==
  ASSUME NEW a \in Nat, NEW b \in Nat, b > 0
  PROVE  a \div b \in Nat /\ (a \div b) * b <= a
OBVIOUS

LEMMA ProductNat ==
  ASSUME NEW a \in Nat, NEW b \in Nat
  PROVE  a * b \in Nat
OBVIOUS

LEMMA Monotone ==
  ASSUME NEW a \in Int, NEW b \in Int, NEW c \in Nat, a <= b
  PROVE  a * c <= b * c
OBVIOUS

LEMMA Cancel ==
  ASSUME NEW a \in Int, NEW b \in Int, NEW c \in Nat, c > 0, a * c <= b * c
  PROVE  a <= b
OBVIOUS

\* 95 percent of AMOUNT, without a remainder.
LEMMA LowerBoundGives ==
  /\ Amount \in Nat /\ Amount > 0
  /\ LowerBound \in Nat /\ LowerBound * 20 = Amount * 19
<1>1. \A a \in Nat : a % 20 = 0 => (a * 95) \div 100 \in Nat /\ ((a * 95) \div 100) * 20 = a * 19
  OBVIOUS
<1> QED BY <1>1, AmountAssumption DEF LowerBound

\* A swap of a that gives o, and one of o back that gives l, on the same reserves: 95
\* percent come back only if the reserve of what goes in first is 38 times a.
LEMMA RoundTrip ==
  ASSUME NEW a \in Nat, a > 0, NEW f \in Nat, f > 0, f <= 1000,
         NEW r \in Nat, r > 0, NEW s \in Nat, s > 0, NEW o \in Nat, NEW l \in Nat,
         o * (r * 1000 + a * f) <= (a * f) * s,
         l * (s * 1000 + o * f) <= (o * f) * r,
         l * 20 >= a * 19
  PROVE  r >= 38 * a
<1> DEFINE e == r - l
<1>1. e \in Int /\ l > 0 /\ r = e + l
  OBVIOUS
<1> HIDE DEF e
<1>2. (l * s) * 1000 <= (o * f) * e
  BY <1>1
<1>3. /\ o * f \in Nat /\ l * s \in Nat /\ l * s > 0 /\ a * f \in Nat /\ r * 1000 + a * f \in Nat
      /\ f * a \in Nat /\ f * f \in Nat
  <2>1. o * f \in Nat /\ l * s \in Nat /\ a * f \in Nat /\ f * a \in Nat /\ f * f \in Nat
    BY ProductNat
  <2>2. l * s > 0
    BY <1>1
  <2>3. r * 1000 + a * f \in Nat
    BY <2>1
  <2> QED BY <2>1, <2>2, <2>3
<1>4. e > 0 /\ e \in Nat /\ f * e \in Nat
  <2>1. (o * f) * e > 0
    BY <1>1, <1>2, <1>3
  <2>2. e > 0
    <3>1. \A x \in Nat, y \in Int : x * y > 0 => y > 0
      OBVIOUS
    <3> QED BY <1>1, <1>3, <2>1, <3>1
  <2>3. e \in Nat
    BY <1>1, <2>2
  <2> QED BY <2>2, <2>3, ProductNat
<1>5. ((l * 1000) * (r * 1000 + a * f)) * s <= ((f * f) * (a * e)) * s
  <2> DEFINE d == r * 1000 + a * f
  <2>1. ((l * s) * 1000) * d <= ((o * f) * e) * d
    <3>1. (l * s) * 1000 \in Int /\ (o * f) * e \in Int /\ d \in Nat
      BY <1>3, <1>4
    <3> HIDE DEF d
    <3> QED BY <1>2, <3>1, Monotone
  <2>2. (o * d) * (f * e) <= ((a * f) * s) * (f * e)
    <3>1. o * d \in Int /\ (a * f) * s \in Int
      BY <1>3
    <3>2. o * d <= (a * f) * s
      OBVIOUS
    <3> HIDE DEF d
    <3> QED BY <1>4, <3>1, <3>2, Monotone
  <2>3. d \in Int
    BY <1>3
  <2> HIDE DEF d
  <2>4. ((l * s) * 1000) * d = ((l * 1000) * d) * s
    BY <2>3
  <2>5. ((o * f) * e) * d = (o * d) * (f * e)
    BY <1>1, <2>3
  <2>6. ((a * f) * s) * (f * e) = ((f * f) * (a * e)) * s
    BY <1>1
  <2>7. \A w, x, y, z \in Int : w <= x /\ x = y /\ y <= z => w <= z
    OBVIOUS
  <2>8. /\ ((l * s) * 1000) * d \in Int /\ ((o * f) * e) * d \in Int /\ (o * d) * (f * e) \in Int
        /\ ((a * f) * s) * (f * e) \in Int
    BY <1>1, <2>3
  <2>9. ((l * s) * 1000) * d <= ((a * f) * s) * (f * e)
    BY <2>1, <2>2, <2>5, <2>7, <2>8
  <2> QED BY <2>4, <2>6, <2>9 DEF d
<1>6. (l * 1000) * (r * 1000 + a * f) <= (f * f) * (a * e)
  <2>1. (l * 1000) * (r * 1000 + a * f) \in Int /\ (f * f) * (a * e) \in Int
    BY <1>1
  <2> QED BY <1>5, <2>1, Cancel
<1>7. (l * (r + a)) * (1000 * f) <= (f * (a * e)) * f
  <2>1. (l * r) * f <= (l * r) * 1000
    <3>1. l * r \in Nat
      BY ProductNat
    <3> QED BY <3>1
  <2>2. (l * (r + a)) * (1000 * f) = ((l * r) * f) * 1000 + (l * 1000) * (a * f)
    OBVIOUS
  <2>3. (l * 1000) * (r * 1000 + a * f) = ((l * r) * 1000) * 1000 + (l * 1000) * (a * f)
    OBVIOUS
  <2>4. (f * f) * (a * e) = (f * (a * e)) * f
    BY <1>1
  <2>5. \A w, x, y \in Int : w <= x => w * 1000 + y <= x * 1000 + y
    OBVIOUS
  <2>6. (l * r) * f \in Int /\ (l * r) * 1000 \in Int /\ (l * 1000) * (a * f) \in Int
    OBVIOUS
  <2>7. ((l * r) * f) * 1000 + (l * 1000) * (a * f) <= ((l * r) * 1000) * 1000 + (l * 1000) * (a * f)
    BY <2>1, <2>5, <2>6
  <2>8. \A w, x, y \in Int : w <= x /\ x <= y => w <= y
    OBVIOUS
  <2>9. /\ ((l * r) * f) * 1000 + (l * 1000) * (a * f) \in Int
        /\ ((l * r) * 1000) * 1000 + (l * 1000) * (a * f) \in Int
        /\ (f * (a * e)) * f \in Int
    BY <1>1
  <2> QED BY <1>6, <2>2, <2>3, <2>4, <2>7, <2>8, <2>9
<1>8. (l * (r + a)) * 1000 <= f * (a * e)
  <2>1. (l * (r + a)) * (1000 * f) = ((l * (r + a)) * 1000) * f
    OBVIOUS
  <2>2. (l * (r + a)) * 1000 \in Int /\ f * (a * e) \in Int
    BY <1>1
  <2> QED BY <1>7, <2>1, <2>2, Cancel
<1>9. l * (r + a) <= a * e
  <2>1. a * e \in Nat
    BY <1>4, ProductNat
  <2>2. f * (a * e) <= 1000 * (a * e)
    BY <2>1
  <2>3. l * (r + a) \in Int
    OBVIOUS
  <2>4. \A w, x, y \in Int : w * 1000 <= y /\ y <= 1000 * x => w <= x
    OBVIOUS
  <2>5. f * (a * e) \in Int /\ a * e \in Int
    BY <2>1
  <2> QED BY <1>8, <2>2, <2>3, <2>4, <2>5
<1>10. (a * 19) * (r + a + a) <= (r * 20) * a
  <2>1. (a * 19) * (r + a + a) <= (l * 20) * (r + a + a)
    <3>1. r + a + a \in Nat /\ a * 19 \in Int /\ l * 20 \in Int /\ a * 19 <= l * 20
      OBVIOUS
    <3> QED BY <3>1, Monotone
  <2>2. l * (r + a + a) <= a * r
    <3>1. l * (r + a + a) = l * (r + a) + l * a
      OBVIOUS
    <3>2. a * e = a * r - l * a
      BY <1>1
    <3>3. l * (r + a) \in Int /\ l * a \in Int /\ a * r \in Int
      OBVIOUS
    <3> QED BY <1>9, <3>1, <3>2, <3>3
  <2>3. (l * 20) * (r + a + a) = (l * (r + a + a)) * 20
    OBVIOUS
  <2>4. (r * 20) * a = (a * r) * 20
    OBVIOUS
  <2>5. l * (r + a + a) \in Int /\ a * r \in Int /\ (a * 19) * (r + a + a) \in Int
    OBVIOUS
  <2>6. \A w, x, y \in Int : w <= x * 20 /\ x <= y => w <= y * 20
    OBVIOUS
  <2> QED BY <2>1, <2>2, <2>3, <2>4, <2>5, <2>6
<1>11. (r + a + a) * 19 <= r * 20
  <2>1. (a * 19) * (r + a + a) = ((r + a + a) * 19) * a
    OBVIOUS
  <2>2. (r + a + a) * 19 \in Int /\ r * 20 \in Int
    OBVIOUS
  <2> QED BY <1>10, <2>1, <2>2, Cancel
<1> QED BY <1>11

\* What a pool gives is a natural number, and keeps to the curve.
LEMMA OutGives ==
  ASSUME NEW x \in Pools, NEW side \in {0, 1}, NEW amount \in Nat,
         Info[x].reserve[1] > 0, Info[x].reserve[2] > 0
  PROVE  LET r == Info[x].reserve[1 + side]
             s == Info[x].reserve[2 - side]
             f == 1000 - Info[x].fee
             o == Out(x, Info[x].reserve, side, amount)
         IN  /\ r \in Nat /\ r > 0 /\ s \in Nat /\ s > 0 /\ f \in Nat /\ f > 0 /\ f <= 1000
             /\ o \in Nat /\ o * (r * 1000 + amount * f) <= (amount * f) * s
<1> DEFINE r == Info[x].reserve[1 + side]
           s == Info[x].reserve[2 - side]
           f == 1000 - Info[x].fee
           o == Out(x, Info[x].reserve, side, amount)
<1>1. Info[x].reserve \in [1 .. 2 -> Nat] /\ Info[x].fee \in 0 .. 999
  <2>1. x \in Pools
    OBVIOUS
  <2> QED BY ONLY <2>1, PoolAssumption
<1>2. r \in Nat /\ r > 0 /\ s \in Nat /\ s > 0
  <2>1. Info[x].reserve[1] \in Nat /\ Info[x].reserve[2] \in Nat
    BY <1>1
  <2>2. CASE side = 0
    BY <2>1, <2>2
  <2>3. CASE side = 1
    BY <2>1, <2>3
  <2> QED BY <2>2, <2>3
<1>3. f \in Nat /\ f > 0 /\ f <= 1000
  <2>1. \A fee \in 0 .. 999 : 1000 - fee \in Nat /\ 1000 - fee > 0 /\ 1000 - fee <= 1000
    OBVIOUS
  <2>2. Info[x].fee \in 0 .. 999
    BY <1>1
  <2> DEFINE fee == Info[x].fee
  <2> HIDE DEF fee
  <2>3. fee \in 0 .. 999 /\ f = 1000 - fee
    BY <2>2 DEF fee
  <2> HIDE DEF f
  <2> QED BY <2>1, <2>3
<1>4. o = ((amount * f) * s) \div (r * 1000 + amount * f)
  BY DEF Out
<1> HIDE DEF r, s, f, o
<1>5. amount * f \in Nat /\ (amount * f) * s \in Nat
  <2>1. amount * f \in Nat
    BY <1>3, ProductNat
  <2> QED BY <1>2, <2>1, ProductNat
<1>6. r * 1000 + amount * f \in Nat /\ r * 1000 + amount * f > 0
  BY <1>2, <1>5
<1>7. o \in Nat /\ o * (r * 1000 + amount * f) <= (amount * f) * s
  BY <1>4, <1>5, <1>6, DivGives
<1> QED BY <1>2, <1>3, <1>7 DEF r, s, f, o

\* A pool that gives 95 percent back is deep.
LEMMA Deep ==
  ASSUME NEW x \in Pools, GivesBack(x)
  PROVE  Info[x].reserve[TokenIn(x) + 1] >= 38 * Amount
<1> DEFINE side == TokenIn(x)
           r == Info[x].reserve[1 + side]
           s == Info[x].reserve[2 - side]
           f == 1000 - Info[x].fee
           o == Out(x, Info[x].reserve, side, Amount)
           l == Out(x, Info[x].reserve, 1 - side, o)
<1>1. /\ Info[x].reserve[1] > 0 /\ Info[x].reserve[2] > 0 /\ l >= LowerBound
      /\ Amount \in Nat /\ Amount > 0 /\ LowerBound \in Nat /\ LowerBound * 20 = Amount * 19
  BY LowerBoundGives DEF GivesBack
<1>2. side \in {0, 1} /\ 1 - side \in {0, 1} /\ 1 + (1 - side) = 2 - side /\ 2 - (1 - side) = 1 + side
  BY DEF TokenIn
<1> HIDE DEF side
<1>3. /\ r \in Nat /\ r > 0 /\ s \in Nat /\ s > 0 /\ f \in Nat /\ f > 0 /\ f <= 1000
      /\ o \in Nat /\ o * (r * 1000 + Amount * f) <= (Amount * f) * s
  BY <1>1, <1>2, OutGives
<1> HIDE DEF o
<1>4. /\ l \in Nat
      /\ l * (Info[x].reserve[1 + (1 - side)] * 1000 + o * f)
           <= (o * f) * Info[x].reserve[2 - (1 - side)]
  BY <1>1, <1>2, <1>3, OutGives
<1>5. l * (s * 1000 + o * f) <= (o * f) * r
  BY <1>2, <1>4
<1> HIDE DEF r, s, f, l
<1>6. l * 20 >= Amount * 19
  BY <1>1, <1>4
<1>7. r >= 38 * Amount
  BY <1>1, <1>3, <1>4, <1>5, <1>6, RoundTrip
<1>8. r = Info[x].reserve[TokenIn(x) + 1]
  <2>1. 1 + side = side + 1
    BY <1>2
  <2> QED BY <2>1 DEF r, side
<1> QED BY <1>7, <1>8

(***************************************************************************)
(* What a simulated swap does.                                             *)
(***************************************************************************)

\* The call reaches the pool that it is meant for: the code asks each router with what
\* its factory tells pools apart by.
LEMMA CallFinds ==
  ASSUME NEW x \in Pools, NEW amount, NEW z \in BOOLEAN
  PROVE  Found(Calldata(x, amount, z)) = {x}
<1>1. Info[x].type \in PoolTypes /\ Info[x].t0 # Info[x].t1
  BY PoolAssumption
<1>2. Key(x) = FactoryKey(x)
  BY <1>1 DEF Key, FactoryKey, PoolTypes, V2Basic, V3Basic, V3Deadline
<1> DEFINE call == Calldata(x, amount, z)
<1>3. call.router = Info[x].type /\ call.key = FactoryKey(x) /\ {call.in, call.out} = Of(x)
  BY <1>2 DEF Calldata, Of
<1> HIDE DEF call
<1>4. x \in Found(call)
  BY <1>3 DEF Found
<1>5. \A y \in Found(call) : y = x
  BY <1>3, FactoryAssumption DEF Found
<1> QED BY <1>4, <1>5 DEF call

\* The swap succeeds with balance, approval and liquidity, and gives what the pool's own
\* reserves say.
LEMMA SwapGives ==
  ASSUME NEW x \in Pools, NEW db, db.reserve = OnChain.reserve, NEW amount, NEW z \in BOOLEAN
  PROVE  LET t == IF z THEN Info[x].t0 ELSE Info[x].t1
             result == Swap(db, Calldata(x, amount, z))
         IN  /\ result.success \in BOOLEAN
             /\ result.success <=> /\ <<t, BalanceSlot[t]>> \in db.cell
                                   /\ <<t, Info[x].type>> \in db.allowance
                                   /\ Info[x].reserve[1] > 0 /\ Info[x].reserve[2] > 0
             /\ result.success =>
                  Decode(x, result.output)
                    = Out(x, Info[x].reserve, IF z THEN 0 ELSE 1, amount)
<1> DEFINE t == IF z THEN Info[x].t0 ELSE Info[x].t1
           call == Calldata(x, amount, z)
           result == Swap(db, call)
           side == IF z THEN 0 ELSE 1
           o == Out(x, Info[x].reserve, side, amount)
           can == /\ <<t, BalanceSlot[t]>> \in db.cell
                  /\ <<t, Info[x].type>> \in db.allowance
                  /\ Info[x].reserve[1] > 0 /\ Info[x].reserve[2] > 0
<1>1. Found(call) = {x} /\ (CHOOSE y \in Found(call) : TRUE) = x
  BY CallFinds
<1>2. db.reserve[x] = Info[x].reserve
  BY DEF OnChain
<1>3. call.router = Info[x].type /\ call.amount = amount /\ call.in = t
  BY DEF Calldata
<1>4. (IF call.in = Info[x].t0 THEN 0 ELSE 1) = side
  BY <1>3, PoolAssumption
<1>5. /\ result.success = can
      /\ can => result.output = IF Info[x].type \in V2Basic \union {"Aerodrome"}
                                  THEN <<amount, o>> ELSE <<o>>
  <2> HIDE DEF call, t, side
  <2>1. CASE can
    BY <1>1, <1>2, <1>3, <1>4, <2>1 DEF Swap
  <2>2. CASE ~can
    BY <1>1, <1>2, <1>3, <1>4, <2>2 DEF Swap
  <2> QED BY <2>1, <2>2
<1> HIDE DEF o, result, call, can
<1>6. can => Decode(x, result.output) = o
  BY <1>5 DEF Decode, Last
<1> QED BY <1>5, <1>6 DEF o, can, result, call

(***************************************************************************)
(* The invariant.                                                          *)
(***************************************************************************)

LEMMA Consequences == IndInv => SelectedAlone /\ DepthTested /\ RestartKeepsPools
<1> SUFFICES ASSUME IndInv PROVE SelectedAlone /\ DepthTested /\ RestartKeepsPools
  OBVIOUS
<1>1. SelectedAlone
  BY DEF IndInv, SelectInv, SelectedAlone
<1>2. DepthTested
  <2>1. \A x \in filtered_pools : x \in Selection(top_volume_tokens)
    <3>1. pc \in {"start", "fetch", "write", "match", "panicked"}
          \/ pc \in {"next", "back", "done"}
      BY DEF IndInv, TypeOK
    <3> QED BY <3>1 DEF IndInv, SelectInv
  <2> QED BY <2>1, Deep DEF DepthTested, Selection
<1>3. RestartKeepsPools
  <2> SUFFICES ASSUME pc = "done" PROVE chosen = {filtered_pools}
    BY DEF RestartKeepsPools
  <2> QED BY <1>1 DEF IndInv, ChosenInv, SelectedAlone
<1> QED BY <1>1, <1>2, <1>3

\* A file says which it is.
LEMMA Files ==
  ASSUME NEW list
  PROVE  /\ Whole(list).list = list /\ Whole(list) # Torn /\ Whole(list) # Absent
         /\ Torn # Absent /\ Torn.list = {} /\ Absent.list = {}
BY DEF Whole, Torn, Absent

LEMMA InitInv == Init => IndInv
<1> SUFFICES ASSUME Init PROVE IndInv
  OBVIOUS
<1>1. TypeOK
  BY Files DEF Init, TypeOK, OnChain
<1>2. DatabaseInv
  BY DEF Init, DatabaseInv, OnChain
<1>3. TrialInv /\ SelectInv /\ ChosenInv
  BY DEF Init, TrialInv, SelectInv, ChosenInv
<1> QED BY <1>1, <1>2, <1>3 DEF IndInv

LEMMA RerankInv == IndInv /\ Rerank => IndInv'
<1> SUFFICES ASSUME IndInv, Rerank PROVE IndInv'
  OBVIOUS
<1>1. /\ ranking' \in Rankings /\ disk' = disk /\ pc' = pc /\ top_volume_tokens' = top_volume_tokens
      /\ pools' = pools /\ slot_map' = slot_map /\ nodedb' = nodedb /\ trial' = trial
      /\ filtered_pools' = filtered_pools /\ chosen' = chosen
  BY DEF Rerank
<1>2. TypeOK'
  BY <1>1 DEF IndInv, TypeOK
<1>3. DatabaseInv'
  BY <1>1 DEF IndInv, DatabaseInv
<1>4. TrialInv' /\ SelectInv' /\ ChosenInv'
  BY <1>1 DEF IndInv, TrialInv, SelectInv, ChosenInv
<1> QED BY <1>2, <1>3, <1>4 DEF IndInv

\* What a start finds is the file.
LEMMA RestartInv == IndInv /\ Restart => IndInv'
<1> SUFFICES ASSUME IndInv, Restart PROVE IndInv'
  OBVIOUS
<1>1. /\ ranking' = ranking /\ disk' = disk /\ pc' = "start" /\ top_volume_tokens' = {}
      /\ pools' = Pools /\ nodedb' = OnChain /\ trial' = {}
      /\ filtered_pools' = {} /\ chosen' = chosen
  BY DEF Restart
<1>2. TypeOK'
  BY <1>1 DEF IndInv, TypeOK, OnChain
<1>3. DatabaseInv'
  BY <1>1 DEF DatabaseInv, OnChain
<1>4. TrialInv' /\ SelectInv' /\ ChosenInv'
  BY <1>1 DEF IndInv, TrialInv, SelectInv, ChosenInv
<1> QED BY <1>2, <1>3, <1>4 DEF IndInv

(***************************************************************************)
(* The tokens.                                                             *)
(***************************************************************************)

\* Up to the match no pool has been tried.
LEMMA FetchStep ==
  ASSUME IndInv, pc \in {"start", "fetch", "write"},
         pc' \in {"start", "fetch", "write", "match", "panicked"},
         UNCHANGED <<ranking, pools, nodedb, trial, filtered_pools, chosen>>,
         disk' \in {Absent, Torn, Whole(disk'.list)}, disk'.list \subseteq Tokens,
         top_volume_tokens' \subseteq Tokens,
         pc' = "match" => disk' = Whole(top_volume_tokens') \/ (disk' = Torn /\ chosen = {}),
         pc' = "write" => disk' = Torn /\ chosen = {}, pc' = "fetch" => disk' = Absent,
         chosen # {} => disk' = disk
  PROVE  IndInv'
<1>1. /\ ranking' = ranking /\ pools' = pools /\ nodedb' = nodedb /\ trial' = trial
      /\ filtered_pools' = filtered_pools /\ chosen' = chosen
  OBVIOUS
<1>2. TypeOK /\ trial = {} /\ pools = Pools /\ filtered_pools = {}
  BY DEF IndInv, TypeOK, SelectInv
<1>3. TypeOK'
  BY <1>1, <1>2 DEF TypeOK
<1>4. DatabaseInv'
  BY <1>1, <1>2 DEF IndInv, DatabaseInv
<1>5. TrialInv' /\ SelectInv'
  BY <1>1, <1>2 DEF IndInv, TrialInv, SelectInv
<1>6. ChosenInv'
  BY <1>1, <1>2, Files DEF IndInv, ChosenInv
<1> QED BY <1>3, <1>4, <1>5, <1>6 DEF IndInv

LEMMA ReadAddressesInv == IndInv /\ ReadAddresses => IndInv'
<1> SUFFICES ASSUME IndInv, ReadAddresses PROVE IndInv'
  OBVIOUS
<1>1. TypeOK /\ pc = "start" /\ disk # Absent /\ disk' = disk
      /\ UNCHANGED <<ranking, pools, nodedb, trial, filtered_pools, chosen>>
  BY DEF IndInv, ReadAddresses
<1>2. CASE disk = Torn
  <2>1. pc' = "panicked" /\ top_volume_tokens' = top_volume_tokens
    BY <1>2 DEF ReadAddresses
  <2> QED BY <1>1, <2>1, FetchStep DEF TypeOK
<1>3. CASE disk # Torn
  <2>1. pc' = "match" /\ top_volume_tokens' = disk.list
    BY <1>3 DEF ReadAddresses
  <2>2. disk = Whole(disk.list) /\ disk.list \subseteq Tokens
    BY <1>1, <1>3 DEF TypeOK
  <2> QED BY <1>1, <2>1, <2>2, FetchStep
<1> QED BY <1>2, <1>3

LEMMA StartFetchInv == IndInv /\ StartFetch => IndInv'
<1> SUFFICES ASSUME IndInv, StartFetch PROVE IndInv'
  OBVIOUS
<1>1. TypeOK /\ pc = "start" /\ pc' = "fetch" /\ disk = Absent /\ disk' = disk
      /\ top_volume_tokens' = top_volume_tokens
      /\ UNCHANGED <<ranking, pools, nodedb, trial, filtered_pools, chosen>>
  BY DEF IndInv, StartFetch
<1> QED BY <1>1, FetchStep DEF TypeOK

LEMMA FetchPageInv == IndInv /\ FetchPage => IndInv'
<1> SUFFICES ASSUME IndInv, FetchPage PROVE IndInv'
  OBVIOUS
<1> DEFINE q == Head(queries)
           page == {ranking[i] : i \in {j \in 1 .. Len(ranking) :
                                          q.offset < j /\ j <= q.offset + q.limit}}
<1>1. /\ TypeOK /\ pc = "fetch" /\ pc' \in {"fetch", "panicked"} /\ disk = Absent /\ disk' = disk
      /\ top_volume_tokens' \in {top_volume_tokens \union page, top_volume_tokens}
      /\ UNCHANGED <<ranking, pools, nodedb, trial, filtered_pools, chosen>>
  BY DEF IndInv, ChosenInv, FetchPage
<1>2. page \subseteq Tokens
  <2>1. ranking \in Seq(Tokens)
    BY <1>1, FetchAssumption DEF TypeOK
  <2>2. \A i \in 1 .. Len(ranking) : ranking[i] \in Tokens
    BY <2>1
  <2> QED BY <2>2
<1> HIDE DEF page
<1>3. top_volume_tokens' \subseteq Tokens
  BY <1>1, <1>2 DEF TypeOK
<1> QED BY <1>1, <1>3, FetchStep DEF TypeOK

\* The file is created only by a start that found none, and so before any is chosen.
LEMMA CreateFileInv == IndInv /\ CreateFile => IndInv'
<1> SUFFICES ASSUME IndInv, CreateFile PROVE IndInv'
  OBVIOUS
<1>1. /\ TypeOK /\ pc = "fetch" /\ pc' = "write" /\ disk = Absent /\ disk' = Torn
      /\ top_volume_tokens' = top_volume_tokens
      /\ UNCHANGED <<ranking, pools, nodedb, trial, filtered_pools, chosen>>
  BY DEF IndInv, ChosenInv, CreateFile
<1>2. chosen = {}
  BY <1>1, Files DEF IndInv, ChosenInv
<1> QED BY <1>1, <1>2, Files, FetchStep DEF TypeOK

LEMMA WriteAddressesInv == IndInv /\ WriteAddresses => IndInv'
<1> SUFFICES ASSUME IndInv, WriteAddresses PROVE IndInv'
  OBVIOUS
<1>1. /\ TypeOK /\ pc = "write" /\ disk = Torn
      /\ \/ disk' = Whole(top_volume_tokens) /\ pc' = "match"
         \/ disk' = disk /\ pc' \in {"match", "panicked"}
      /\ top_volume_tokens' = top_volume_tokens
      /\ UNCHANGED <<ranking, pools, nodedb, trial, filtered_pools, chosen>>
  BY DEF IndInv, TypeOK, WriteAddresses
<1>2. chosen = {}
  BY <1>1, Files DEF IndInv, ChosenInv
<1>3. CASE disk' = Whole(top_volume_tokens) /\ pc' = "match"
  <2>1. disk'.list = top_volume_tokens /\ top_volume_tokens \subseteq Tokens
    BY <1>1, <1>3, Files DEF TypeOK
  <2> QED BY <1>1, <1>2, <1>3, <2>1, FetchStep
<1>4. CASE disk' = disk /\ pc' \in {"match", "panicked"}
  BY <1>1, <1>2, <1>4, FetchStep DEF TypeOK
<1> QED BY <1>1, <1>3, <1>4

(***************************************************************************)
(* The pools.                                                              *)
(***************************************************************************)

LEMMA MatchPoolsInv == IndInv /\ MatchPools => IndInv'
<1> SUFFICES ASSUME IndInv, MatchPools PROVE IndInv'
  OBVIOUS
<1>1. /\ pc = "match" /\ pc' = "next" /\ ranking' = ranking /\ disk' = disk
      /\ top_volume_tokens' = top_volume_tokens /\ nodedb' = nodedb /\ trial' = trial
      /\ filtered_pools' = filtered_pools /\ chosen' = chosen
      /\ pools' = {x \in pools : Matches(x, top_volume_tokens)}
      /\ slot_map' = [t \in UNION {Of(x) : x \in pools'} |-> SlotOf(t)]
  BY DEF MatchPools
<1>2. TypeOK /\ trial = {} /\ pools = Pools /\ filtered_pools = {}
  BY <1>1 DEF IndInv, TypeOK, SelectInv
<1>3. TypeOK'
  BY <1>1, <1>2 DEF TypeOK
<1>4. DatabaseInv'
  <2>1. \A x \in pools' : \A t \in Of(x) : t \in DOMAIN slot_map' /\ slot_map'[t] = SlotOf(t)
    BY <1>1
  <2> QED BY <1>1, <1>2, <2>1 DEF IndInv, DatabaseInv
<1>5. SelectInv'
  BY <1>1, <1>2 DEF SelectInv, Selection
<1>6. TrialInv' /\ ChosenInv'
  BY <1>1, <1>2 DEF IndInv, TrialInv, ChosenInv
<1> QED BY <1>3, <1>4, <1>5, <1>6 DEF IndInv

\* A pool that does not pass is dropped; what is in the database may grow by balances in
\* slots that the code found.
LEMMA DropPool ==
  ASSUME IndInv, NEW x \in pools, pc \in {"next", "back"}, pc' = "next",
         x \notin Selection(top_volume_tokens), pools' = pools \ {x}, trial' = {},
         UNCHANGED <<ranking, disk, top_volume_tokens, slot_map, filtered_pools, chosen>>,
         nodedb'.reserve = OnChain.reserve,
         \A c \in nodedb'.cell : \E t \in Tokens : \E s \in SlotOf(t) : c = <<t, s>>
  PROVE  IndInv'
<1>1. /\ ranking' = ranking /\ disk' = disk /\ top_volume_tokens' = top_volume_tokens
      /\ slot_map' = slot_map /\ filtered_pools' = filtered_pools /\ chosen' = chosen
  OBVIOUS
<1>2. TypeOK'
  BY <1>1 DEF IndInv, TypeOK
<1>3. DatabaseInv'
  BY <1>1 DEF IndInv, DatabaseInv
<1>4. SelectInv'
  BY <1>1 DEF IndInv, SelectInv
<1>5. TrialInv' /\ ChosenInv'
  BY <1>1 DEF IndInv, TrialInv, ChosenInv
<1> QED BY <1>2, <1>3, <1>4, <1>5 DEF IndInv

LEMMA SkipUnknownSlotInv == IndInv /\ SkipUnknownSlot => IndInv'
<1> SUFFICES ASSUME IndInv, SkipUnknownSlot PROVE IndInv'
  OBVIOUS
<1>1. /\ pc = "next" /\ pc' = pc /\ nodedb' = nodedb /\ trial' = trial
      /\ UNCHANGED <<ranking, disk, top_volume_tokens, slot_map, filtered_pools, chosen>>
  BY DEF SkipUnknownSlot
<1>2. PICK x \in pools : (\E t \in Of(x) : slot_map[t] = {}) /\ pools' = pools \ {x}
  BY DEF SkipUnknownSlot
<1>3. x \notin Selection(top_volume_tokens)
  BY <1>1, <1>2 DEF IndInv, DatabaseInv, Selection
<1>4. /\ trial = {} /\ nodedb.reserve = OnChain.reserve
      /\ \A c \in nodedb.cell : \E t \in Tokens : \E s \in SlotOf(t) : c = <<t, s>>
  BY <1>1 DEF IndInv, TypeOK, DatabaseInv
<1> QED BY <1>1, <1>2, <1>3, <1>4, DropPool

\* With both balances and approvals given, the swaps are up to the pool and to whether
\* the slots are the right ones.
LEMMA ProvideGives ==
  ASSUME IndInv, NEW x \in pools, pc = "next"
  PROVE  LET db == Provide(nodedb, x)
         IN  /\ db.reserve = OnChain.reserve
             /\ \A c \in db.cell : \E t \in Tokens : \E s \in SlotOf(t) : c = <<t, s>>
             /\ \A t \in Of(x) : /\ \A s \in SlotOf(t) : <<t, s>> \in db.cell
                                 /\ <<t, Info[x].type>> \in db.allowance
             /\ \A t \in Of(x) : <<t, BalanceSlot[t]>> \in db.cell <=> BalanceSlot[t] \in SlotOf(t)
<1> DEFINE db == Provide(nodedb, x)
<1>1. /\ db.cell = nodedb.cell \union UNION {{t} \X slot_map[t] : t \in Of(x)}
      /\ db.allowance = nodedb.allowance \union (Of(x) \X {Info[x].type})
      /\ db.reserve = nodedb.reserve
  BY DEF Provide
<1>2. /\ \A t \in Of(x) : slot_map[t] = SlotOf(t) /\ t \in Tokens
      /\ nodedb.reserve = OnChain.reserve
      /\ \A c \in nodedb.cell : \E t \in Tokens : \E s \in SlotOf(t) : c = <<t, s>>
  BY PoolAssumption DEF IndInv, TypeOK, DatabaseInv
<1> HIDE DEF db
<1>3. ASSUME NEW c \in db.cell
      PROVE  \E t \in Tokens : \E s \in SlotOf(t) : c = <<t, s>>
  <2>1. CASE c \in nodedb.cell
    BY <1>2, <2>1
  <2>2. CASE c \notin nodedb.cell
    <3>1. PICK t \in Of(x) : c \in {t} \X slot_map[t]
      BY <1>1, <2>2
    <3>2. PICK s \in SlotOf(t) : c = <<t, s>>
      BY <1>2, <3>1
    <3> QED BY <1>2, <3>2
  <2> QED BY <2>1, <2>2
<1>4. ASSUME NEW t \in Of(x), NEW s \in SlotOf(t)
      PROVE  <<t, s>> \in db.cell
  <2>1. <<t, s>> \in {t} \X slot_map[t]
    BY <1>2
  <2> QED BY <1>1, <2>1
<1>5. \A t \in Of(x) : <<t, Info[x].type>> \in db.allowance
  BY <1>1
<1>6. ASSUME NEW t \in Of(x)
      PROVE  <<t, BalanceSlot[t]>> \in db.cell <=> BalanceSlot[t] \in SlotOf(t)
  <2>1. ASSUME <<t, BalanceSlot[t]>> \in db.cell PROVE BalanceSlot[t] \in SlotOf(t)
    BY <1>3, <2>1
  <2> QED BY <1>4, <2>1
<1> QED BY <1>1, <1>2, <1>3, <1>4, <1>5, <1>6 DEF db

LEMMA FirstSwapInv == IndInv /\ FirstSwap => IndInv'
<1> SUFFICES ASSUME IndInv, FirstSwap PROVE IndInv'
  OBVIOUS
<1>1. PICK x \in pools :
        /\ nodedb' = Provide(nodedb, x)
        /\ LET result == Swap(nodedb', Calldata(x, Amount, ZeroToOne(x)))
           IN  IF result.success
                 THEN /\ trial' = {[pool |-> x, amt |-> Decode(x, result.output)]}
                      /\ pc' = "back" /\ UNCHANGED pools
                 ELSE pools' = pools \ {x} /\ UNCHANGED <<trial, pc>>
  BY DEF FirstSwap
<1>2. /\ pc = "next" /\ ranking' = ranking /\ disk' = disk
      /\ top_volume_tokens' = top_volume_tokens /\ slot_map' = slot_map
      /\ filtered_pools' = filtered_pools /\ chosen' = chosen
  BY DEF FirstSwap
<1>3. TypeOK /\ trial = {} /\ x \in Pools
  BY <1>2 DEF IndInv, TypeOK
<1>4. /\ nodedb'.reserve = OnChain.reserve
      /\ \A c \in nodedb'.cell : \E t \in Tokens : \E s \in SlotOf(t) : c = <<t, s>>
      /\ \A t \in Of(x) : /\ \A s \in SlotOf(t) : <<t, s>> \in nodedb'.cell
                          /\ <<t, Info[x].type>> \in nodedb'.allowance
      /\ \A t \in Of(x) : <<t, BalanceSlot[t]>> \in nodedb'.cell <=> BalanceSlot[t] \in SlotOf(t)
  BY <1>1, <1>2, ProvideGives
<1> DEFINE z == ZeroToOne(x)
           in == IF z THEN Info[x].t0 ELSE Info[x].t1
           result == Swap(nodedb', Calldata(x, Amount, z))
           o == Out(x, Info[x].reserve, TokenIn(x), Amount)
           liquid == Info[x].reserve[1] > 0 /\ Info[x].reserve[2] > 0
<1>5. z \in BOOLEAN /\ in \in Of(x) /\ TokenIn(x) = IF z THEN 0 ELSE 1
  BY DEF ZeroToOne, Of, TokenIn
<1>6. /\ result.success \in BOOLEAN
      /\ result.success <=> BalanceSlot[in] \in SlotOf(in) /\ liquid
      /\ result.success => Decode(x, result.output) = o
  <2> HIDE DEF z
  <2>1. /\ result.success \in BOOLEAN
        /\ result.success <=> /\ <<in, BalanceSlot[in]>> \in nodedb'.cell
                              /\ <<in, Info[x].type>> \in nodedb'.allowance
                              /\ liquid
        /\ result.success => Decode(x, result.output) = o
    BY <1>3, <1>4, <1>5, SwapGives
  <2> QED BY <1>4, <1>5, <2>1
<1>7. CASE result.success
  <2>1. trial' = {[pool |-> x, amt |-> o]} /\ pc' = "back" /\ pools' = pools
    BY <1>1, <1>6, <1>7
  <2>2. liquid /\ BalanceSlot[in] \in SlotOf(in)
    BY <1>6, <1>7
  <2>3. o \in Nat
    <3>1. TokenIn(x) \in {0, 1} /\ Amount \in Nat
      BY AmountAssumption DEF TokenIn
    <3> QED BY <1>3, <2>2, <3>1, OutGives
  <2> HIDE DEF o, z, result
  <2>4. TypeOK'
    BY <1>2, <1>3, <1>4, <2>1, <2>3 DEF TypeOK
  <2>5. DatabaseInv'
    <3>1. \A y \in pools : \A t \in Of(y) : t \in DOMAIN slot_map /\ slot_map[t] = SlotOf(t)
      BY <1>2 DEF IndInv, DatabaseInv
    <3> QED BY <1>2, <1>4, <2>1, <3>1 DEF DatabaseInv
  <2>6. TrialInv'
    BY <2>1, <2>2 DEF TrialInv, o, z
  <2>7. SelectInv' /\ ChosenInv'
    BY <1>2, <2>1 DEF IndInv, SelectInv, ChosenInv
  <2> QED BY <2>4, <2>5, <2>6, <2>7 DEF IndInv
<1>8. CASE ~result.success
  <2>1. pools' = pools \ {x} /\ trial' = trial /\ pc' = pc
    BY <1>1, <1>8
  <2>2. ~(BalanceSlot[in] \in SlotOf(in) /\ liquid)
    BY <1>6, <1>8
  <2>3. x \notin Selection(top_volume_tokens)
    BY <1>5, <2>2 DEF Selection, GivesBack
  <2> QED BY <1>2, <1>3, <1>4, <2>1, <2>3, DropPool
<1> QED BY <1>7, <1>8

LEMMA SecondSwapInv == IndInv /\ SecondSwap => IndInv'
<1> SUFFICES ASSUME IndInv, SecondSwap PROVE IndInv'
  OBVIOUS
<1>1. PICK tried \in trial :
        LET x      == tried.pool
            result == Swap(nodedb, Calldata(x, tried.amt, ~ZeroToOne(x)))
        IN  /\ filtered_pools' =
                 IF result.success /\ Decode(x, result.output) >= LowerBound
                   THEN filtered_pools \union {x} ELSE filtered_pools
            /\ pools' = pools \ {x}
  BY DEF SecondSwap
<1>2. /\ pc = "back" /\ pc' = "next" /\ trial' = {} /\ ranking' = ranking /\ disk' = disk
      /\ top_volume_tokens' = top_volume_tokens /\ slot_map' = slot_map /\ nodedb' = nodedb
      /\ chosen' = chosen
  BY DEF SecondSwap
<1> DEFINE x == tried.pool
           z == ZeroToOne(x)
           in == IF z THEN Info[x].t0 ELSE Info[x].t1
           out == IF ~z THEN Info[x].t0 ELSE Info[x].t1
           result == Swap(nodedb, Calldata(x, tried.amt, ~z))
           o == Out(x, Info[x].reserve, TokenIn(x), Amount)
           back == Out(x, Info[x].reserve, 1 - TokenIn(x), o)
<1>3. /\ TypeOK /\ x \in pools /\ x \in Pools /\ tried.amt \in Nat
      /\ nodedb.reserve = OnChain.reserve
  BY DEF IndInv, TypeOK
<1>4. /\ tried.amt = o /\ Info[x].reserve[1] > 0 /\ Info[x].reserve[2] > 0
      /\ BalanceSlot[in] \in SlotOf(in)
  BY DEF IndInv, TrialInv
<1>5. /\ \A c \in nodedb.cell : \E t \in Tokens : \E s \in SlotOf(t) : c = <<t, s>>
      /\ \A t \in Of(x) : /\ \A s \in SlotOf(t) : <<t, s>> \in nodedb.cell
                          /\ <<t, Info[x].type>> \in nodedb.allowance
  BY DEF IndInv, DatabaseInv
<1>6. /\ z \in BOOLEAN /\ (~z) \in BOOLEAN /\ Of(x) = {in, out}
      /\ (IF ~z THEN 0 ELSE 1) = 1 - TokenIn(x)
  <2>1. z \in BOOLEAN
    BY DEF ZeroToOne
  <2>2. TokenIn(x) = IF z THEN 0 ELSE 1
    BY DEF TokenIn
  <2> HIDE DEF z
  <2>3. (IF ~z THEN 0 ELSE 1) = 1 - TokenIn(x)
    BY <2>1, <2>2
  <2>4. Of(x) = {in, out}
    BY <2>1 DEF Of
  <2>5. (~z) \in BOOLEAN
    BY Zenon
  <2> QED BY <2>1, <2>3, <2>4, <2>5, Zenon
<1>7. /\ result.success \in BOOLEAN
      /\ result.success <=> BalanceSlot[out] \in SlotOf(out)
      /\ result.success => Decode(x, result.output) = back
  <2> HIDE DEF z, x, o
  <2>1. /\ result.success \in BOOLEAN
        /\ result.success <=> /\ <<out, BalanceSlot[out]>> \in nodedb.cell
                              /\ <<out, Info[x].type>> \in nodedb.allowance
                              /\ Info[x].reserve[1] > 0 /\ Info[x].reserve[2] > 0
        /\ result.success =>
             Decode(x, result.output) = Out(x, Info[x].reserve, IF ~z THEN 0 ELSE 1, tried.amt)
    BY <1>3, <1>6, SwapGives
  <2>2. <<out, BalanceSlot[out]>> \in nodedb.cell <=> BalanceSlot[out] \in SlotOf(out)
    BY <1>5, <1>6
  <2>3. <<out, Info[x].type>> \in nodedb.allowance
    BY <1>5, <1>6
  <2> QED BY <1>4, <1>6, <2>1, <2>2, <2>3
<1>8. x \in Selection(top_volume_tokens)
        <=> result.success /\ Decode(x, result.output) >= LowerBound
  <2>1. Matches(x, top_volume_tokens)
    BY <1>2, <1>3 DEF IndInv, SelectInv
  <2>2. GivesBack(x) <=> back >= LowerBound
    BY <1>4 DEF GivesBack
  <2>3. (\A t \in Of(x) : BalanceSlot[t] \in SlotOf(t)) <=> BalanceSlot[out] \in SlotOf(out)
    BY <1>4, <1>6
  <2> HIDE DEF x, back, result, out
  <2> QED BY <1>3, <1>7, <2>1, <2>2, <2>3 DEF Selection
<1> HIDE DEF result
<1>9. CASE x \in Selection(top_volume_tokens)
  <2>1. filtered_pools' = filtered_pools \union {x} /\ pools' = pools \ {x}
    BY <1>1, <1>8, <1>9 DEF result
  <2>2. TypeOK'
    BY <1>2, <1>3, <2>1 DEF TypeOK
  <2>3. DatabaseInv'
    BY <1>2, <2>1 DEF IndInv, DatabaseInv
  <2>4. SelectInv'
    <3>1. filtered_pools = Selection(top_volume_tokens) \ pools
      BY <1>2 DEF IndInv, SelectInv
    <3>2. filtered_pools' = Selection(top_volume_tokens) \ pools'
      BY <1>9, <2>1, <3>1
    <3> QED BY <1>2, <2>1, <3>2 DEF IndInv, SelectInv
  <2>5. TrialInv' /\ ChosenInv'
    BY <1>2 DEF IndInv, TrialInv, ChosenInv
  <2> QED BY <2>2, <2>3, <2>4, <2>5 DEF IndInv
<1>10. CASE x \notin Selection(top_volume_tokens)
  <2>1. filtered_pools' = filtered_pools /\ pools' = pools \ {x}
    BY <1>1, <1>8, <1>10 DEF result
  <2> QED BY <1>2, <1>3, <1>5, <1>10, <2>1, DropPool
<1> QED BY <1>9, <1>10

\* What is returned is a function of the list in use, and that is the one in the file
\* unless this start is the first to choose.
LEMMA ReturnInv == IndInv /\ Return => IndInv'
<1> SUFFICES ASSUME IndInv, Return PROVE IndInv'
  OBVIOUS
<1>1. /\ pc = "next" /\ pc' = "done" /\ pools = {} /\ ranking' = ranking /\ disk' = disk
      /\ top_volume_tokens' = top_volume_tokens /\ pools' = pools /\ nodedb' = nodedb
      /\ trial' = trial /\ filtered_pools' = filtered_pools
      /\ chosen' = IF chosen = {} THEN {filtered_pools} ELSE chosen
  BY DEF Return
<1>2. TypeOK' /\ DatabaseInv' /\ TrialInv' /\ SelectInv'
  BY <1>1 DEF IndInv, TypeOK, DatabaseInv, TrialInv, SelectInv
<1>3. filtered_pools = Selection(top_volume_tokens)
  BY <1>1 DEF IndInv, SelectInv
<1>4. ASSUME disk # Torn
      PROVE  disk = Whole(top_volume_tokens) /\ disk.list = top_volume_tokens
  <2>1. disk = Whole(top_volume_tokens)
    BY <1>1, <1>4 DEF IndInv, TypeOK
  <2> QED BY <2>1, Files
<1>5. chosen' = {Selection(top_volume_tokens)}
  <2>1. CASE chosen = {}
    BY <1>1, <1>3, <2>1
  <2>2. CASE chosen # {}
    <3>1. disk # Torn /\ chosen = {Selection(disk.list)}
      BY <1>1, <2>2 DEF IndInv, ChosenInv
    <3> QED BY <1>1, <1>4, <2>2, <3>1
  <2> QED BY <2>1, <2>2
<1>6. ChosenInv'
  BY <1>1, <1>4, <1>5, Files DEF ChosenInv
<1> QED BY <1>2, <1>6 DEF IndInv

LEMMA StutterInv == IndInv /\ UNCHANGED vars => IndInv'
<1> SUFFICES ASSUME IndInv, UNCHANGED vars PROVE IndInv'
  OBVIOUS
<1>1. /\ ranking' = ranking /\ disk' = disk /\ pc' = pc /\ top_volume_tokens' = top_volume_tokens
      /\ pools' = pools /\ slot_map' = slot_map /\ nodedb' = nodedb /\ trial' = trial
      /\ filtered_pools' = filtered_pools /\ chosen' = chosen
  BY DEF vars
<1>2. TypeOK' /\ DatabaseInv' /\ TrialInv' /\ SelectInv' /\ ChosenInv'
  BY <1>1 DEF IndInv, TypeOK, DatabaseInv, TrialInv, SelectInv, ChosenInv
<1> QED BY <1>2 DEF IndInv

LEMMA Invariance == Spec => []IndInv
<1>1. IndInv /\ [Next]_vars => IndInv'
  BY RerankInv, RestartInv, ReadAddressesInv, StartFetchInv, FetchPageInv, CreateFileInv,
     WriteAddressesInv, MatchPoolsInv, SkipUnknownSlotInv, FirstSwapInv, SecondSwapInv,
     ReturnInv, StutterInv
     DEF Next
<1> QED BY InitInv, <1>1, PTL DEF Spec

(***************************************************************************)
(* The theorems.                                                           *)
(***************************************************************************)

\* filter_pools works from the match on with the list that is in the file, unless that
\* was cut short as it was written, and on the node's state without a swap in it.
THEOREM TypeCorrect == Spec => []TypeOK
<1>1. IndInv => TypeOK
  BY DEF IndInv
<1> QED BY Invariance, <1>1, PTL

\* A pool passes the two swaps, or does not, for itself: the balances and approvals that
\* the pools tried before it left behind, and their order, decide nothing.
THEOREM PoolsPassAlone == Spec => []SelectedAlone
<1> QED BY Invariance, Consequences, PTL

\* What passes has 38 times AMOUNT of the token that goes in first, whatever its fee and
\* however its curve rounds.
THEOREM PassingIsDeep == Spec => []DepthTested
<1> QED BY Invariance, Consequences, PTL

\* Kills at any point, moves of the ranking, failed requests and writes do not change
\* what later starts return, if they return.
THEOREM SamePoolsAfterRestart == Spec => []RestartKeepsPools
<1> QED BY Invariance, Consequences, PTL
=============================================================================

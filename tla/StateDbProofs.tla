--------------------------- MODULE StateDbProofs ---------------------------
(***************************************************************************)
(* Proofs about the state database, for any pools, tokens, states, widths  *)
(* of the packed fields and number of blocks.                              *)
(***************************************************************************)
EXTENDS StateDb, SequenceTheorems, TLAPS

(***************************************************************************)
(* The inductive invariant.                                                *)
(***************************************************************************)

\* Blocks are made of states of the pools and clear no cell.
ChainInv ==
  /\ chain \in Seq([Pools -> UNION {PoolStates[p] : p \in Pools}])
  /\ \A b \in 2 .. Tip : \A p \in Pools :
       DOMAIN Cells(p, chain[b - 1][p]) \subseteq DOMAIN Cells(p, chain[b][p])

\* None of a pool's own cells are there before it is added (the pool may have an account,
\* as a token), and no block is applied before all pools are.
Bare(d, p) == \A s \in PoolSlots(p) : ~HasSlot(d, p, s)
StartInv ==
  /\ phase = "warm up" => \A p \in Pools : Bare(db, p)
  /\ phase = "populate" => \A p \in todo : Bare(db, p)
  /\ phase # "run" => synced = 1

\* The code is with the account, or has moved to the contracts under its hash.
CodeAt(a) == IF a = Quoter THEN QuoterCode ELSE Code[a]
CodeInv(d) ==
  /\ Has(d, Quoter)
  /\ EmptyCode \in DOMAIN d.contracts /\ \A c \in DOMAIN d.contracts : d.contracts[c] = c
  /\ \A a \in DOMAIN d.accounts :
       LET info == d.accounts[a].info
       IN  /\ info.hash = CodeAt(a) /\ info.code \in {CodeAt(a), NoCode}
           /\ info.code = NoCode => info.hash \in DOMAIN d.contracts

\* x holds the fields of the cell y that the readers take from slot s.
SameFields(p, s, x, y) ==
  /\ s = ReservesSlot => /\ x % Reserve = y % Reserve
                         /\ (x \div Reserve) % Reserve = (y \div Reserve) % Reserve
  /\ s = Slot0 => /\ x % Price = y % Price
                  /\ (x \div Price) % Tick = (y \div Price) % Tick
  /\ s = Ticks => x \div Liquidity = y \div Liquidity
  /\ s = SpacingSlot => (y = 0 => x = Spacing[p])
  /\ s \notin {ReservesSlot, Slot0, Ticks, SpacingSlot} => x = y

\* What is cached of a tracked pool is, to the readers, what the chain held at the last
\* applied block or at a later one; and the cells that are read without a fallback are
\* there.
CellsInv ==
  \A p \in db.pools : Has(db, p) =>
    LET storage == db.accounts[p].storage
    IN  /\ \A s \in DOMAIN storage \cap PoolSlots(p) : \E v \in synced .. Tip :
             SameFields(p, s, storage[s], CellOf(p, chain[v][p], s))
        /\ p \in V3Pools => {Slot0, LiquiditySlot, SpacingSlot} \subseteq DOMAIN storage

IndInv == /\ TypeOK /\ ChainInv /\ StartInv /\ CodeInv(db)
          /\ CellsInv /\ QuoterFunded /\ UpdatesReachPools

(***************************************************************************)
(* Maps and databases.                                                     *)
(***************************************************************************)

\* What laying one map over another gives.
LEMMA Over ==
  ASSUME NEW f, NEW g
  PROVE  /\ DOMAIN (f @@ g) = DOMAIN f \cup DOMAIN g
         /\ \A x \in DOMAIN f : (f @@ g)[x] = f[x]
         /\ \A x \in DOMAIN g \ DOMAIN f : (f @@ g)[x] = g[x]
BY DEF @@

\* A map of one entry.
LEMMA Single ==
  ASSUME NEW k, NEW v PROVE DOMAIN (k :> v) = {k} /\ (k :> v)[k] = v
BY DEF :>

\* Maps from some of D to V.
Maps(D, V) == UNION {[C -> V] : C \in SUBSET D}

LEMMA OverType ==
  ASSUME NEW D, NEW V, NEW f \in Maps(D, V), NEW g \in Maps(D, V)
  PROVE  f @@ g \in Maps(D, V)
<1>1. PICK A \in SUBSET D : f \in [A -> V]
  BY DEF Maps
<1>2. PICK B \in SUBSET D : g \in [B -> V]
  BY DEF Maps
<1>3. f @@ g \in [A \cup B -> V]
  BY <1>1, <1>2 DEF @@
<1> QED BY <1>3 DEF Maps

LEMMA SingleType ==
  ASSUME NEW D, NEW V, NEW k \in D, NEW v \in V PROVE k :> v \in Maps(D, V)
<1>1. k :> v \in [{k} -> V]
  BY DEF :>
<1> QED BY <1>1 DEF Maps

LEMMA EmptyType ==
  ASSUME NEW D, NEW V PROVE <<>> \in Maps(D, V)
<1>1. <<>> \in [{} -> V]
  OBVIOUS
<1> QED BY <1>1 DEF Maps

Slots     == UNION {SlotsOf(a) : a \in Addresses}
Infos     == [code : Codes \cup {NoCode}, hash : Codes]
Accounts  == [info : Infos, storage : Maps(Slots, Nat)]
Databases ==
  {d \in [pools : SUBSET Pools, accounts : Maps(Addresses, Accounts),
          contracts : Maps(Codes, Codes)] :
     \A a \in DOMAIN d.accounts : d.accounts[a].storage \in Maps(SlotsOf(a), Nat)}

\* The cells of an account are cells of some account.
LEMMA SlotsType ==
  ASSUME NEW a \in Addresses, NEW m \in Maps(SlotsOf(a), Nat)
  PROVE  m \in Maps(Slots, Nat) /\ DOMAIN m \subseteq SlotsOf(a)
         /\ \A s \in DOMAIN m : m[s] \in Nat
<1>1. PICK C \in SUBSET SlotsOf(a) : m \in [C -> Nat]
  BY DEF Maps
<1>2. C \in SUBSET Slots
  BY DEF Slots
<1> QED BY <1>1, <1>2 DEF Maps

\* The parts of a database.
LEMMA DatabaseParts ==
  ASSUME NEW d \in Databases
  PROVE  /\ d.pools \subseteq Pools
         /\ DOMAIN d.accounts \subseteq Addresses
         /\ d.accounts \in [DOMAIN d.accounts -> Accounts]
         /\ \A a \in DOMAIN d.accounts :
              /\ d.accounts[a] \in Accounts
              /\ d.accounts[a].storage \in Maps(SlotsOf(a), Nat)
         /\ d.contracts \in Maps(Codes, Codes)
         /\ d.contracts \in [DOMAIN d.contracts -> Codes] /\ DOMAIN d.contracts \subseteq Codes
<1>1. PICK A \in SUBSET Addresses : d.accounts \in [A -> Accounts]
  BY DEF Databases, Maps
<1>2. PICK C \in SUBSET Codes : d.contracts \in [C -> Codes]
  BY DEF Databases, Maps
<1> QED BY <1>1, <1>2 DEF Databases

\* A database whose accounts are replaced is one if they are accounts.
LEMMA AccountsPut ==
  ASSUME NEW d \in Databases, NEW A \in SUBSET Addresses, NEW accounts \in [A -> Accounts],
         \A a \in A : accounts[a].storage \in Maps(SlotsOf(a), Nat)
  PROVE  [d EXCEPT !.accounts = accounts] \in Databases
BY DEF Databases, Maps

\* put_slots: the cells of one account change, nothing else does.
LEMMA PutSlotsGives ==
  ASSUME NEW d \in Databases, NEW a \in DOMAIN d.accounts, NEW m \in Maps(SlotsOf(a), Nat)
  PROVE  LET e == PutSlots(d, a, m)
         IN  /\ e \in Databases
             /\ e.pools = d.pools /\ e.contracts = d.contracts
             /\ DOMAIN e.accounts = DOMAIN d.accounts
             /\ e.accounts[a].info = d.accounts[a].info
             /\ e.accounts[a].storage = m @@ d.accounts[a].storage
             /\ \A b \in DOMAIN d.accounts : b # a => e.accounts[b] = d.accounts[b]
<1> DEFINE new == m @@ d.accounts[a].storage
           acc == [d.accounts EXCEPT ![a].storage = new]
           A == DOMAIN d.accounts
<1>1. /\ A \subseteq Addresses /\ d.accounts \in [A -> Accounts]
      /\ \A b \in A : d.accounts[b].storage \in Maps(SlotsOf(b), Nat)
  BY DatabaseParts
<1>2. new \in Maps(SlotsOf(a), Nat) /\ new \in Maps(Slots, Nat)
  BY <1>1, OverType, SlotsType
<1>3. PutSlots(d, a, m) = [d EXCEPT !.accounts = acc]
  BY DEF PutSlots
<1> HIDE DEF new
<1>4. acc \in [A -> Accounts] /\ acc[a].storage = new /\ acc[a].info = d.accounts[a].info
      /\ \A b \in A : b # a => acc[b] = d.accounts[b]
  BY <1>1, <1>2 DEF Accounts
<1>5. \A b \in A : acc[b].storage \in Maps(SlotsOf(b), Nat)
  BY <1>1, <1>2, <1>4
<1> HIDE DEF acc
<1>6. [d EXCEPT !.accounts = acc] \in Databases
  BY <1>1, <1>4, <1>5, AccountsPut
<1>7. /\ [d EXCEPT !.accounts = acc].accounts = acc
      /\ [d EXCEPT !.accounts = acc].pools = d.pools
      /\ [d EXCEPT !.accounts = acc].contracts = d.contracts
  BY DEF Databases
<1> QED BY <1>3, <1>4, <1>6, <1>7 DEF new

\* insert_account_info: an account without cells, in place of any there was.
LEMMA InsertGives ==
  ASSUME NEW d \in Databases, NEW a \in Addresses, NEW info \in Infos
  PROVE  LET e == InsertAccountInfo(d, a, info)
         IN  /\ e \in Databases
             /\ e.pools = d.pools /\ e.contracts = d.contracts
             /\ DOMAIN e.accounts = DOMAIN d.accounts \cup {a}
             /\ e.accounts[a] = [info |-> info, storage |-> <<>>]
             /\ \A b \in DOMAIN d.accounts : b # a => e.accounts[b] = d.accounts[b]
<1> DEFINE new == [info |-> info, storage |-> <<>>]
           acc == (a :> new) @@ d.accounts
           A == DOMAIN d.accounts
<1>1. /\ A \subseteq Addresses /\ d.accounts \in [A -> Accounts]
      /\ \A b \in A : d.accounts[b].storage \in Maps(SlotsOf(b), Nat)
  BY DatabaseParts
<1>2. new \in Accounts /\ new.storage \in Maps(SlotsOf(a), Nat)
  BY EmptyType DEF Accounts
<1>3. InsertAccountInfo(d, a, info) = [d EXCEPT !.accounts = acc]
  BY DEF InsertAccountInfo
<1> HIDE DEF new
<1>4. acc \in [A \cup {a} -> Accounts] /\ acc[a] = new
      /\ \A b \in A : b # a => acc[b] = d.accounts[b]
  BY <1>1, <1>2 DEF @@, :>
<1>5. \A b \in A \cup {a} : acc[b].storage \in Maps(SlotsOf(b), Nat)
  BY <1>1, <1>2, <1>4
<1> HIDE DEF acc
<1>6. [d EXCEPT !.accounts = acc] \in Databases
  BY <1>1, <1>4, <1>5, AccountsPut
<1>7. /\ [d EXCEPT !.accounts = acc].accounts = acc
      /\ [d EXCEPT !.accounts = acc].pools = d.pools
      /\ [d EXCEPT !.accounts = acc].contracts = d.contracts
  BY DEF Databases
<1> QED BY <1>3, <1>4, <1>6, <1>7 DEF new

(***************************************************************************)
(* Loading.                                                                *)
(***************************************************************************)

\* The code at every address is one of the codes.
LEMMA CodesType ==
  /\ \A a \in Addresses : CodeAt(a) \in Codes /\ Code[a] \in Codes
  /\ EmptyCode \in Codes /\ QuoterCode \in Codes /\ NoCode \notin Codes
BY AddressAssumption DEF CodeAt, Codes

\* e is d after account a, and cells of S, have been loaded: nothing that was there
\* has changed, and what is new is what the chain holds.
Loads(d, e, a, S) ==
  /\ e \in Databases /\ CodeInv(e) /\ e.pools = d.pools
  /\ DOMAIN e.accounts = DOMAIN d.accounts \cup {a}
  /\ \A b, s : HasSlot(d, b, s) => HasSlot(e, b, s)
  /\ \A b, s : HasSlot(e, b, s) => HasSlot(d, b, s) \/ s \in S
  /\ \A b, s : HasSlot(e, b, s) =>
       e.accounts[b].storage[s] = IF HasSlot(d, b, s) THEN d.accounts[b].storage[s]
                                                      ELSE ChainSlot(b, s)

LEMMA LoadsTransitive ==
  ASSUME NEW d, NEW e, NEW f, NEW a, NEW S, Loads(d, e, a, S), Loads(e, f, a, S)
  PROVE  Loads(d, f, a, S)
BY DEF Loads

LEMMA BasicLoads ==
  ASSUME NEW d \in Databases, CodeInv(d), NEW a \in Addresses, NEW S
  PROVE  Loads(d, Basic(d, a), a, S)
<1>1. CASE Has(d, a)
  BY <1>1 DEF Basic, Loads, Has
<1>2. CASE ~Has(d, a)
  <2> DEFINE e == InsertAccountInfo(d, a, BasicRef(a))
  <2>1. BasicRef(a) \in Infos /\ BasicRef(a).code = CodeAt(a) /\ BasicRef(a).hash = CodeAt(a)
    BY <1>2, CodesType DEF BasicRef, Infos, CodeInv, CodeAt
  <2>2. /\ e \in Databases
        /\ e.pools = d.pools /\ e.contracts = d.contracts
        /\ DOMAIN e.accounts = DOMAIN d.accounts \cup {a}
        /\ e.accounts[a] = [info |-> BasicRef(a), storage |-> <<>>]
        /\ \A b \in DOMAIN d.accounts : b # a => e.accounts[b] = d.accounts[b]
    BY <2>1, InsertGives
  <2> HIDE DEF e
  <2>3. e.accounts[a].info = BasicRef(a) /\ DOMAIN e.accounts[a].storage = {}
    BY <2>2
  <2>4. CodeInv(e)
    <3>1. Has(e, Quoter) /\ EmptyCode \in DOMAIN e.contracts
          /\ \A c \in DOMAIN e.contracts : e.contracts[c] = c
      BY <2>2 DEF CodeInv, Has
    <3>2. ASSUME NEW b \in DOMAIN e.accounts
          PROVE  /\ e.accounts[b].info.hash = CodeAt(b)
                 /\ e.accounts[b].info.code \in {CodeAt(b), NoCode}
                 /\ e.accounts[b].info.code = NoCode
                      => e.accounts[b].info.hash \in DOMAIN e.contracts
      <4>1. CASE b = a
        BY <2>1, <2>3, <4>1, CodesType
      <4>2. CASE b # a
        BY <2>2, <4>2 DEF CodeInv
      <4> QED BY <4>1, <4>2
    <3> QED BY <3>1, <3>2 DEF CodeInv
  <2>5. ASSUME NEW b, NEW s
        PROVE  HasSlot(e, b, s) <=> HasSlot(d, b, s)
    BY <1>2, <2>2, <2>3 DEF HasSlot, Has
  <2>6. ASSUME NEW b, NEW s, HasSlot(d, b, s)
        PROVE  e.accounts[b].storage[s] = d.accounts[b].storage[s]
    BY <1>2, <2>2, <2>6 DEF HasSlot, Has
  <2>7. Basic(d, a) = e
    BY <1>2 DEF Basic, e
  <2> QED BY <2>2, <2>4, <2>5, <2>6, <2>7 DEF Loads
<1> QED BY <1>1, <1>2

\* With its hash known, loading an account finds its code and adds no contract.
LEMMA LoadAccountLoads ==
  ASSUME NEW d \in Databases, CodeInv(d), NEW a \in Addresses, NEW S
  PROVE  Loads(d, LoadAccount(d, a), a, S)
<1>1. Loads(d, Basic(d, a), a, S)
  BY BasicLoads
<1>2. LoadAccount(d, a) = Basic(d, a)
  BY <1>1 DEF Loads, LoadAccount, CodeInv, CodeByHash
<1> QED BY <1>1, <1>2

\* The code found at an address is its code.
LEMMA CodeFound ==
  ASSUME NEW d \in Databases, CodeInv(d), NEW a \in DOMAIN d.accounts
  PROVE  CodeOf(d, a) = CodeAt(a)
<1>1. a \in Addresses
  BY DatabaseParts
<1> QED BY <1>1, CodesType DEF CodeInv, CodeOf

\* Writing a cell keeps the code where it is.
LEMMA PutKeepsCode ==
  ASSUME NEW d \in Databases, CodeInv(d), NEW a \in DOMAIN d.accounts,
         NEW m \in Maps(SlotsOf(a), Nat)
  PROVE  CodeInv(PutSlots(d, a, m))
<1> DEFINE e == PutSlots(d, a, m)
<1>1. /\ e.contracts = d.contracts /\ DOMAIN e.accounts = DOMAIN d.accounts
      /\ \A b \in DOMAIN d.accounts : e.accounts[b].info = d.accounts[b].info
  BY PutSlotsGives
<1> HIDE DEF e
<1>2. CodeInv(e)
  BY <1>1 DEF CodeInv, Has
<1> QED BY <1>2 DEF e

LEMMA StorageLoads ==
  ASSUME NEW d \in Databases, CodeInv(d), NEW a \in Addresses, NEW s \in SlotsOf(a),
         ChainSlot(a, s) \in Nat, Has(d, a)
  PROVE  Loads(d, Storage(d, a, s), a, {s})
<1>1. CASE HasSlot(d, a, s)
  BY <1>1 DEF Storage, Loads, Has
<1>2. CASE ~HasSlot(d, a, s)
  <2> DEFINE m == s :> ChainSlot(a, s)
             f == PutSlots(d, a, m)
  <2>1. m \in Maps(SlotsOf(a), Nat) /\ DOMAIN m = {s} /\ m[s] = ChainSlot(a, s)
    BY SingleType, Single
  <2>2. Storage(d, a, s) = f
    BY <1>2 DEF Storage, Basic
  <2> HIDE DEF m
  <2>3. /\ f \in Databases /\ f.pools = d.pools
        /\ DOMAIN f.accounts = DOMAIN d.accounts
        /\ f.accounts[a].storage = m @@ d.accounts[a].storage
        /\ \A b \in DOMAIN d.accounts : b # a => f.accounts[b] = d.accounts[b]
    BY <2>1, PutSlotsGives DEF Has
  <2>4. CodeInv(f)
    BY <2>1, PutKeepsCode DEF Has
  <2> HIDE DEF f
  <2>5. /\ DOMAIN f.accounts[a].storage = {s} \cup DOMAIN d.accounts[a].storage
        /\ f.accounts[a].storage[s] = ChainSlot(a, s)
        /\ \A t \in DOMAIN d.accounts[a].storage :
             t # s => f.accounts[a].storage[t] = d.accounts[a].storage[t]
    <3> DEFINE g == d.accounts[a].storage
    <3>1. /\ DOMAIN (m @@ g) = {s} \cup DOMAIN g /\ (m @@ g)[s] = ChainSlot(a, s)
          /\ \A t \in DOMAIN g : t # s => (m @@ g)[t] = g[t]
      <4> HIDE DEF g
      <4>1. /\ DOMAIN (m @@ g) = DOMAIN m \cup DOMAIN g
            /\ \A x \in DOMAIN m : (m @@ g)[x] = m[x]
            /\ \A x \in DOMAIN g \ DOMAIN m : (m @@ g)[x] = g[x]
        BY Over
      <4> QED BY <2>1, <4>1
    <3> QED BY <2>3, <3>1
  <2>6. ASSUME NEW b, NEW t
        PROVE  /\ HasSlot(d, b, t) => HasSlot(f, b, t)
               /\ HasSlot(f, b, t) => HasSlot(d, b, t) \/ t = s
               /\ HasSlot(f, b, t) =>
                    f.accounts[b].storage[t] = IF HasSlot(d, b, t) THEN d.accounts[b].storage[t]
                                                                   ELSE ChainSlot(b, t)
    <3>1. CASE b = a
      BY <1>2, <2>3, <2>5, <3>1 DEF HasSlot, Has
    <3>2. CASE b # a
      BY <2>3, <3>2 DEF HasSlot, Has
    <3> QED BY <3>1, <3>2
  <2> QED BY <2>2, <2>3, <2>4, <2>6 DEF Loads, Has
<1> QED BY <1>1, <1>2

LEMMA LoadSlotLoads ==
  ASSUME NEW d \in Databases, CodeInv(d), NEW a \in Addresses, NEW s \in SlotsOf(a),
         ChainSlot(a, s) \in Nat
  PROVE  Loads(d, LoadSlot(d, a, s), a, {s})
<1>1. Loads(d, LoadAccount(d, a), a, {s})
  BY LoadAccountLoads
<1>2. Loads(LoadAccount(d, a), Storage(LoadAccount(d, a), a, s), a, {s})
  BY <1>1, StorageLoads DEF Loads, Has
<1> QED BY <1>1, <1>2, LoadsTransitive DEF LoadSlot

(***************************************************************************)
(* Cells and their fields.                                                 *)
(***************************************************************************)

\* A field put above the lowest width is read back by division, the one below it
\* by the remainder.
LEMMA Fields ==
  ASSUME NEW w \in Nat \ {0}, NEW low \in 0 .. w - 1, NEW high \in Nat
  PROVE  (low + high * w) % w = low /\ (low + high * w) \div w = high
         /\ low + high * w \in Nat
OBVIOUS

LEMMA UnsignedType ==
  ASSUME NEW w \in Nat \ {0}, NEW n \in Int
  PROVE  Unsigned(n, w) \in 0 .. w - 1
BY DEF Unsigned

\* A signed number of an even width is read back from its unsigned form.
LEMMA SignedUnsigned ==
  ASSUME NEW w \in Nat \ {0}, w % 2 = 0, NEW n \in -(w \div 2) .. w \div 2 - 1
  PROVE  Signed(Unsigned(n, w), w) = n
<1>1. CASE n >= 0
  <2>1. n \in 0 .. w - 1
    BY <1>1
  <2>2. n % w = n
    BY <2>1
  <2> QED BY <1>1, <2>2 DEF Signed, Unsigned
<1>2. CASE n < 0
  <2>1. n + w \in 0 .. w - 1 /\ n + w >= w \div 2
    BY <1>2
  <2>2. n % w = n + w
    BY <1>2, <2>1
  <2> QED BY <2>1, <2>2 DEF Signed, Unsigned
<1> QED BY <1>1, <1>2

\* The cells of a V2 pool.
LEMMA V2Cells ==
  ASSUME NEW p \in V2Pools, NEW st \in PoolStates[p]
  PROVE  /\ st.r0 \in 0 .. Reserve - 1 /\ st.r1 \in 0 .. Reserve - 1 /\ st.timestamp \in Nat
         /\ DOMAIN Cells(p, st) \subseteq PoolSlots(p)
         /\ CellOf(p, st, ReservesSlot)
              = st.r0 + st.r1 * Reserve + st.timestamp * Reserve * Reserve
         /\ CellOf(p, st, Token0Slot) = Word[Token0[p]]
         /\ CellOf(p, st, Token1Slot) = Word[Token1[p]]
         /\ Word[Token0[p]] \in Nat /\ Word[Token1[p]] \in Nat
<1>1. st \in [r0 : 0 .. Reserve - 1, r1 : 0 .. Reserve - 1, timestamp : Nat]
  BY StatesAssumption
<1>2. Word[Token0[p]] \in Nat /\ Word[Token1[p]] \in Nat
  BY AddressAssumption DEF Pools
<1> DEFINE x == st.r0 + st.r1 * Reserve + st.timestamp * Reserve * Reserve
           all == ReservesSlot :> x @@
                  Token0Slot :> Word[Token0[p]] @@ Token1Slot :> Word[Token1[p]]
<1>3. Cells(p, st) = [s \in {c \in DOMAIN all : all[c] # 0} |-> all[s]]
  BY DEF Cells
<1> HIDE DEF x
<1>4. /\ DOMAIN all = {ReservesSlot, Token0Slot, Token1Slot} /\ all[ReservesSlot] = x
      /\ all[Token0Slot] = Word[Token0[p]] /\ all[Token1Slot] = Word[Token1[p]]
  BY DEF @@, :>, ReservesSlot, Token0Slot, Token1Slot
<1> HIDE DEF all
<1>5. DOMAIN Cells(p, st) \subseteq PoolSlots(p)
  BY <1>3, <1>4 DEF PoolSlots
<1>6. \A s \in DOMAIN all : CellOf(p, st, s) = all[s]
  BY <1>3 DEF CellOf
<1> QED BY <1>1, <1>2, <1>4, <1>5, <1>6 DEF x

\* The cells of a V3 pool.
LEMMA V3Cells ==
  ASSUME NEW p \in V3Pools, NEW st \in PoolStates[p]
  PROVE  /\ st \in [price : 0 .. Price - 1, tick : -(Tick \div 2) .. Tick \div 2 - 1,
                    fields : Nat, liquidity : 0 .. Liquidity - 1,
                    gross : 0 .. Liquidity - 1,
                    net : -(Liquidity \div 2) .. Liquidity \div 2 - 1,
                    bitmap : Nat, observation : Nat]
         /\ DOMAIN Cells(p, st) \subseteq PoolSlots(p)
         /\ CellOf(p, st, Slot0)
              = st.price + Unsigned(st.tick, Tick) * Price + st.fields * Price * Tick
         /\ CellOf(p, st, LiquiditySlot) = st.liquidity
         /\ CellOf(p, st, Ticks) = st.gross + Unsigned(st.net, Liquidity) * Liquidity
         /\ CellOf(p, st, TickBitmap) = st.bitmap
         /\ CellOf(p, st, SpacingSlot) = st.observation
<1>1. st \in [price : 0 .. Price - 1, tick : -(Tick \div 2) .. Tick \div 2 - 1,
              fields : Nat, liquidity : 0 .. Liquidity - 1,
              gross : 0 .. Liquidity - 1,
              net : -(Liquidity \div 2) .. Liquidity \div 2 - 1,
              bitmap : Nat, observation : Nat]
  BY StatesAssumption
<1>2. p \notin V2Pools
  BY AddressAssumption
<1> DEFINE x == st.price + Unsigned(st.tick, Tick) * Price + st.fields * Price * Tick
           y == st.gross + Unsigned(st.net, Liquidity) * Liquidity
           a == Slot0 :> x
           b == a @@ LiquiditySlot :> st.liquidity
           c == b @@ Ticks :> y
           d == c @@ TickBitmap :> st.bitmap
           all == d @@ SpacingSlot :> st.observation
<1>3. Cells(p, st) = [s \in {t \in DOMAIN all : all[t] # 0} |-> all[s]]
  BY <1>2 DEF Cells
<1> HIDE DEF x, y
<1>4. /\ DOMAIN all = {Slot0, LiquiditySlot, Ticks, TickBitmap, SpacingSlot}
      /\ all[Slot0] = x /\ all[LiquiditySlot] = st.liquidity /\ all[Ticks] = y
      /\ all[TickBitmap] = st.bitmap /\ all[SpacingSlot] = st.observation
  <2>1. DOMAIN a = {Slot0} /\ a[Slot0] = x
    BY Single
  <2> HIDE DEF a
  <2>2. DOMAIN b = {Slot0, LiquiditySlot} /\ b[Slot0] = x /\ b[LiquiditySlot] = st.liquidity
    BY <2>1 DEF @@, :>, Slot0, LiquiditySlot
  <2> HIDE DEF b
  <2>3. /\ DOMAIN c = {Slot0, LiquiditySlot, Ticks}
        /\ c[Slot0] = x /\ c[LiquiditySlot] = st.liquidity /\ c[Ticks] = y
    BY <2>2 DEF @@, :>, Slot0, LiquiditySlot, Ticks
  <2> HIDE DEF c
  <2>4. /\ DOMAIN d = {Slot0, LiquiditySlot, Ticks, TickBitmap}
        /\ d[Slot0] = x /\ d[LiquiditySlot] = st.liquidity /\ d[Ticks] = y
        /\ d[TickBitmap] = st.bitmap
    BY <2>3 DEF @@, :>, Slot0, LiquiditySlot, Ticks, TickBitmap
  <2> HIDE DEF d
  <2> QED BY <2>4 DEF @@, :>, Slot0, LiquiditySlot, Ticks, TickBitmap, SpacingSlot
<1> HIDE DEF all, a, b, c, d
<1>5. DOMAIN Cells(p, st) \subseteq PoolSlots(p)
  BY <1>2, <1>3, <1>4 DEF PoolSlots
<1>6. \A s \in DOMAIN all : CellOf(p, st, s) = all[s]
  BY <1>3 DEF CellOf
<1> QED BY <1>1, <1>4, <1>5, <1>6 DEF x, y

\* The fields of a V2 pool's cells.
LEMMA V2Fields ==
  ASSUME NEW p \in V2Pools, NEW st \in PoolStates[p]
  PROVE  LET y == CellOf(p, st, ReservesSlot)
         IN  y \in Nat /\ y % Reserve = st.r0 /\ (y \div Reserve) % Reserve = st.r1
<1> DEFINE high == st.r1 + st.timestamp * Reserve
<1>1. Reserve \in Nat \ {0} /\ st.r0 \in 0 .. Reserve - 1 /\ st.r1 \in 0 .. Reserve - 1
      /\ st.timestamp \in Nat
  BY V2Cells, WidthAssumption
<1>2. high \in Nat /\ high % Reserve = st.r1
  BY <1>1, Fields
<1>3. CellOf(p, st, ReservesSlot) = st.r0 + high * Reserve
  <2>1. CellOf(p, st, ReservesSlot)
          = st.r0 + st.r1 * Reserve + st.timestamp * Reserve * Reserve
    BY V2Cells
  <2>2. \A r0, r1, ts, w \in Nat :
          r0 + r1 * w + ts * w * w = r0 + (r1 + ts * w) * w
    OBVIOUS
  <2> QED BY <1>1, <2>1, <2>2
<1> DEFINE low == st.r0
           y == CellOf(p, st, ReservesSlot)
<1>4. low \in 0 .. Reserve - 1 /\ y = low + high * Reserve
  BY <1>1, <1>3
<1> HIDE DEF high, low, y
<1>5. y \in Nat /\ y % Reserve = low /\ y \div Reserve = high
  BY <1>1, <1>2, <1>4, Fields
<1> QED BY <1>2, <1>5 DEF low, y

\* The fields of a V3 pool's cells.
LEMMA V3Fields ==
  ASSUME NEW p \in V3Pools, NEW st \in PoolStates[p]
  PROVE  /\ LET y == CellOf(p, st, Slot0)
            IN  /\ y \in Nat /\ y % Price = st.price
                /\ (y \div Price) % Tick = Unsigned(st.tick, Tick)
         /\ LET y == CellOf(p, st, Ticks)
            IN  y \in Nat /\ y \div Liquidity = Unsigned(st.net, Liquidity)
<1>1. /\ {Price, Tick, Liquidity} \subseteq Nat \ {0}
      /\ st.price \in 0 .. Price - 1 /\ st.fields \in Nat /\ st.gross \in 0 .. Liquidity - 1
      /\ st.tick \in Int /\ st.net \in Int
  BY V3Cells, WidthAssumption
<1> DEFINE t == Unsigned(st.tick, Tick)
           n == Unsigned(st.net, Liquidity)
           high == t + st.fields * Tick
<1>2. t \in 0 .. Tick - 1 /\ n \in 0 .. Liquidity - 1
  BY <1>1, UnsignedType
<1> HIDE DEF t, n
<1>3. high \in Nat /\ high % Tick = t
  BY <1>1, <1>2, Fields
<1>4. CellOf(p, st, Slot0) = st.price + high * Price
  <2>1. CellOf(p, st, Slot0) = st.price + t * Price + st.fields * Price * Tick
    BY V3Cells DEF t
  <2>2. \A a, b, c, v, w \in Nat : a + b * v + c * v * w = a + (b + c * w) * v
    OBVIOUS
  <2>3. st.price \in Nat /\ t \in Nat /\ Price \in Nat /\ Tick \in Nat /\ st.fields \in Nat
    BY <1>1, <1>2
  <2> QED BY <2>1, <2>2, <2>3
<1>5. CellOf(p, st, Ticks) = st.gross + n * Liquidity
  BY V3Cells DEF n
<1> DEFINE price == st.price
           gross == st.gross
           y == CellOf(p, st, Slot0)
           z == CellOf(p, st, Ticks)
<1>6. /\ price \in 0 .. Price - 1 /\ y = price + high * Price
      /\ gross \in 0 .. Liquidity - 1 /\ z = gross + n * Liquidity /\ n \in Nat
  BY <1>1, <1>2, <1>4, <1>5
<1> HIDE DEF high, price, gross, y, z
<1>7. y \in Nat /\ y % Price = price /\ y \div Price = high
  BY <1>1, <1>3, <1>6, Fields
<1>8. z \in Nat /\ z \div Liquidity = n
  BY <1>1, <1>6, Fields
<1> QED BY <1>3, <1>7, <1>8 DEF t, n, price, y, z

\* Every cell of a pool in one of its states is a number; those it does not have are 0.
LEMMA CellType ==
  ASSUME NEW p \in Pools, NEW st \in PoolStates[p], NEW s
  PROVE  /\ CellOf(p, st, s) \in Nat
         /\ Cells(p, st) \in Maps(SlotsOf(p), Nat)
         /\ \A c \in DOMAIN Cells(p, st) : Cells(p, st)[c] = CellOf(p, st, c)
<1>1. DOMAIN Cells(p, st) \subseteq PoolSlots(p)
  BY V2Cells, V3Cells DEF Pools
<1>2. \A c \in PoolSlots(p) : CellOf(p, st, c) \in Nat
  <2>1. CASE p \in V2Pools
    BY <2>1, V2Cells, V2Fields DEF PoolSlots
  <2>2. CASE p \in V3Pools
    BY <2>2, V3Cells, V3Fields, AddressAssumption DEF PoolSlots
  <2> QED BY <2>1, <2>2 DEF Pools
<1>3. \A c \in DOMAIN Cells(p, st) : Cells(p, st)[c] = CellOf(p, st, c)
  BY DEF CellOf
<1>4. Cells(p, st) \in [DOMAIN Cells(p, st) -> Nat]
  <2>1. Cells(p, st) = [c \in DOMAIN Cells(p, st) |-> Cells(p, st)[c]]
    BY DEF Cells
  <2> QED BY <1>1, <1>2, <1>3, <2>1
<1>5. Cells(p, st) \in Maps(SlotsOf(p), Nat)
  BY <1>1, <1>4 DEF Maps, SlotsOf
<1>6. CellOf(p, st, s) \in Nat
  BY <1>1, <1>2 DEF CellOf
<1> QED BY <1>3, <1>5, <1>6

\* The cells are different ones.
LEMMA SlotsDiffer ==
  /\ ReservesSlot \notin {Slot0, Ticks, SpacingSlot}
  /\ Slot0 \notin {Ticks, SpacingSlot} /\ Ticks # SpacingSlot
  /\ {LiquiditySlot, TickBitmap, Token0Slot, Token1Slot}
       \cap {ReservesSlot, Slot0, Ticks, SpacingSlot} = {}
BY DEF ReservesSlot, Slot0, Ticks, SpacingSlot, LiquiditySlot, TickBitmap, Token0Slot,
       Token1Slot

\* What insert_v2 and insert_v3 write are cells of the pool, and their fields are
\* those of the cells of the contract.
LEMMA Inserted ==
  ASSUME NEW p \in Pools, NEW st \in PoolStates[p]
  PROVE  /\ InsertedCells(p, st) \in Maps(SlotsOf(p), Nat)
         /\ \A s \in DOMAIN InsertedCells(p, st) :
              SameFields(p, s, InsertedCells(p, st)[s], CellOf(p, st, s))
         /\ p \in V3Pools =>
              {Slot0, LiquiditySlot, SpacingSlot} \subseteq DOMAIN InsertedCells(p, st)
<1>1. CASE p \in V2Pools
  <2> DEFINE x == PackedReserves(st.r0, st.r1)
             all == ReservesSlot :> x @@
                    Token0Slot :> Word[Token0[p]] @@ Token1Slot :> Word[Token1[p]]
  <2>1. InsertedCells(p, st) = all
    BY <1>1 DEF InsertedCells
  <2>2. x \in Nat /\ x % Reserve = st.r0 /\ (x \div Reserve) % Reserve = st.r1
    <3>1. Reserve \in Nat \ {0} /\ st.r0 \in 0 .. Reserve - 1 /\ st.r1 \in 0 .. Reserve - 1
      BY <1>1, V2Cells, WidthAssumption
    <3>2. x = st.r0 + st.r1 * Reserve
      BY <3>1 DEF PackedReserves
    <3>3. x \in Nat /\ x % Reserve = st.r0 /\ x \div Reserve = st.r1
      <4> DEFINE low == st.r0
                 high == st.r1
      <4>1. low \in 0 .. Reserve - 1 /\ high \in Nat /\ x = low + high * Reserve
        BY <3>1, <3>2
      <4> HIDE DEF x, low, high
      <4>2. x \in Nat /\ x % Reserve = low /\ x \div Reserve = high
        BY <3>1, <4>1, Fields
      <4> QED BY <4>2 DEF low, high
    <3>4. st.r1 % Reserve = st.r1
      BY <3>1
    <3> QED BY <3>3, <3>4
  <2> HIDE DEF x
  <2>3. /\ DOMAIN all = {ReservesSlot, Token0Slot, Token1Slot} /\ all[ReservesSlot] = x
        /\ all[Token0Slot] = Word[Token0[p]] /\ all[Token1Slot] = Word[Token1[p]]
        /\ all = [s \in DOMAIN all |-> all[s]]
    BY DEF @@, :>, ReservesSlot, Token0Slot, Token1Slot
  <2> HIDE DEF all
  <2>4. all \in Maps(SlotsOf(p), Nat)
    <3>1. all \in [DOMAIN all -> Nat]
      BY <1>1, <2>2, <2>3, V2Cells
    <3> QED BY <1>1, <2>3, <3>1 DEF Maps, SlotsOf, PoolSlots
  <2>5. SameFields(p, ReservesSlot, x, CellOf(p, st, ReservesSlot))
    <3> DEFINE y == CellOf(p, st, ReservesSlot)
    <3>1. y % Reserve = st.r0 /\ (y \div Reserve) % Reserve = st.r1
      BY <1>1, V2Fields
    <3> HIDE DEF y
    <3>2. SameFields(p, ReservesSlot, x, y)
      BY <2>2, <3>1, SlotsDiffer DEF SameFields
    <3> QED BY <3>2 DEF y
  <2>6. \A s \in {Token0Slot, Token1Slot} : SameFields(p, s, all[s], CellOf(p, st, s))
    BY <1>1, <2>3, V2Cells, SlotsDiffer DEF SameFields
  <2> QED BY <1>1, <2>1, <2>3, <2>4, <2>5, <2>6, AddressAssumption
<1>2. CASE p \in V3Pools
  <2> DEFINE x == PackedSlot0(st.price, st.tick)
             y == PackedNet(st.net)
             ticks == IF st.gross # 0 THEN Ticks :> y ELSE <<>>
             bits == IF st.bitmap # 0 THEN TickBitmap :> st.bitmap ELSE <<>>
             all == Slot0 :> x @@ LiquiditySlot :> st.liquidity @@
                    SpacingSlot :> Spacing[p] @@ ticks @@ bits
  <2>0. /\ p \notin V2Pools /\ {Price, Tick, Liquidity} \subseteq Nat \ {0}
        /\ st.price \in 0 .. Price - 1 /\ st.tick \in Int /\ st.net \in Int
        /\ st.liquidity \in Nat /\ st.bitmap \in Nat /\ Spacing[p] \in Nat
    BY <1>2, V3Cells, AddressAssumption, WidthAssumption, StatesAssumption
  <2>1. InsertedCells(p, st) = all
    BY <2>0 DEF InsertedCells
  <2>2. x \in Nat /\ x % Price = st.price /\ (x \div Price) % Tick = Unsigned(st.tick, Tick)
    <3> DEFINE t == Unsigned(st.tick, Tick)
               price == st.price
               high == t + Unlocked * Tick
    <3>1. t \in 0 .. Tick - 1 /\ price \in 0 .. Price - 1 /\ Price \in Nat \ {0}
          /\ Tick \in Nat \ {0}
      BY <2>0, UnsignedType
    <3>2. x = price + t * Price + Unlocked * Price * Tick
      BY DEF PackedSlot0
    <3> HIDE DEF t, price, x
    <3>3. high \in Nat /\ high % Tick = t
      BY <3>1, Fields DEF Unlocked
    <3>4. x = price + high * Price
      <4>1. \A a, b, c, v, w \in Nat : a + b * v + c * v * w = a + (b + c * w) * v
        OBVIOUS
      <4>2. price \in Nat /\ t \in Nat /\ Price \in Nat /\ Tick \in Nat /\ Unlocked \in Nat
        BY <3>1 DEF Unlocked
      <4> QED BY <3>2, <4>1, <4>2
    <3> HIDE DEF high
    <3>5. x \in Nat /\ x % Price = price /\ x \div Price = high
      BY <3>1, <3>3, <3>4, Fields
    <3> QED BY <3>3, <3>5 DEF t, price
  <2>3. y \in Nat /\ y \div Liquidity = Unsigned(st.net, Liquidity)
    <3> DEFINE n == Unsigned(st.net, Liquidity)
    <3>1. n \in Nat /\ Liquidity \in Nat \ {0} /\ 0 \in 0 .. Liquidity - 1
      BY <2>0, UnsignedType
    <3>2. y = 0 + n * Liquidity
      BY <3>1 DEF PackedNet
    <3> HIDE DEF n, y
    <3>3. y \in Nat /\ y \div Liquidity = n
      BY <3>1, <3>2, Fields
    <3> QED BY <3>3 DEF n
  <2> HIDE DEF x, y
  <2>4. /\ {Slot0, LiquiditySlot, SpacingSlot} \subseteq DOMAIN all
        /\ DOMAIN all \subseteq PoolSlots(p)
        /\ all[Slot0] = x /\ all[LiquiditySlot] = st.liquidity /\ all[SpacingSlot] = Spacing[p]
        /\ Ticks \in DOMAIN all => all[Ticks] = y
        /\ TickBitmap \in DOMAIN all => all[TickBitmap] = st.bitmap
        /\ all = [s \in DOMAIN all |-> all[s]]
    <3> DEFINE three == Slot0 :> x @@ LiquiditySlot :> st.liquidity @@
                        SpacingSlot :> Spacing[p]
    <3>1. /\ DOMAIN ticks \subseteq {Ticks}
          /\ Ticks \in DOMAIN ticks => ticks[Ticks] = y
      BY DEF :>
    <3>2. /\ DOMAIN bits \subseteq {TickBitmap}
          /\ TickBitmap \in DOMAIN bits => bits[TickBitmap] = st.bitmap
      BY DEF :>
    <3> HIDE DEF ticks, bits
    <3>3. /\ DOMAIN three = {Slot0, LiquiditySlot, SpacingSlot}
          /\ three[Slot0] = x /\ three[LiquiditySlot] = st.liquidity
          /\ three[SpacingSlot] = Spacing[p]
      BY DEF @@, :>, Slot0, LiquiditySlot, SpacingSlot
    <3> DEFINE four == three @@ ticks
    <3>4. /\ DOMAIN four = DOMAIN three \cup DOMAIN ticks
          /\ \A s \in DOMAIN three : four[s] = three[s]
          /\ \A s \in DOMAIN ticks \ DOMAIN three : four[s] = ticks[s]
      <4> HIDE DEF three
      <4> QED BY Over
    <3>5. /\ DOMAIN all = DOMAIN four \cup DOMAIN bits
          /\ \A s \in DOMAIN four : all[s] = four[s]
          /\ \A s \in DOMAIN bits \ DOMAIN four : all[s] = bits[s]
          /\ all = [s \in DOMAIN all |-> all[s]]
      <4>1. all = four @@ bits
        OBVIOUS
      <4> HIDE DEF four, all
      <4>2. (four @@ bits) = [s \in DOMAIN (four @@ bits) |-> (four @@ bits)[s]]
        BY DEF @@
      <4>3. /\ DOMAIN (four @@ bits) = DOMAIN four \cup DOMAIN bits
            /\ \A s \in DOMAIN four : (four @@ bits)[s] = four[s]
            /\ \A s \in DOMAIN bits \ DOMAIN four : (four @@ bits)[s] = bits[s]
        BY Over
      <4> QED BY <4>1, <4>2, <4>3
    <3> HIDE DEF three, four, all
    <3>6. Ticks # Slot0 /\ Ticks # LiquiditySlot /\ Ticks # SpacingSlot /\ Ticks # TickBitmap
          /\ TickBitmap # Slot0 /\ TickBitmap # LiquiditySlot /\ TickBitmap # SpacingSlot
      BY DEF Slot0, LiquiditySlot, SpacingSlot, Ticks, TickBitmap
    <3>7. PoolSlots(p) = {Slot0, LiquiditySlot, Ticks, TickBitmap, SpacingSlot}
      BY <1>2, <2>0 DEF PoolSlots
    <3> QED BY <3>1, <3>2, <3>3, <3>4, <3>5, <3>6, <3>7
  <2> HIDE DEF all
  <2>5. ASSUME NEW s \in DOMAIN all
        PROVE  all[s] \in Nat /\ SameFields(p, s, all[s], CellOf(p, st, s))
    <3>1. CASE s = Slot0
      <4> DEFINE c == CellOf(p, st, Slot0)
      <4>1. c % Price = st.price /\ (c \div Price) % Tick = Unsigned(st.tick, Tick)
        BY <1>2, V3Fields
      <4> HIDE DEF c
      <4>2. SameFields(p, Slot0, x, c)
        BY <2>2, <4>1, SlotsDiffer DEF SameFields
      <4> QED BY <2>2, <2>4, <3>1, <4>2 DEF c
    <3>2. CASE s = Ticks
      <4> DEFINE c == CellOf(p, st, Ticks)
      <4>1. c \div Liquidity = Unsigned(st.net, Liquidity)
        BY <1>2, V3Fields
      <4> HIDE DEF c
      <4>2. SameFields(p, Ticks, y, c)
        BY <2>3, <4>1, SlotsDiffer DEF SameFields
      <4> QED BY <2>3, <2>4, <3>2, <4>2 DEF c
    <3>3. CASE s \in {LiquiditySlot, TickBitmap, SpacingSlot}
      BY <1>2, <2>0, <2>4, <3>3, V3Cells, SlotsDiffer DEF SameFields
    <3> QED BY <1>2, <2>0, <2>4, <3>1, <3>2, <3>3 DEF PoolSlots
  <2>6. all \in Maps(SlotsOf(p), Nat)
    <3>1. all \in [DOMAIN all -> Nat]
      BY <2>4, <2>5
    <3> QED BY <2>4, <3>1 DEF Maps, SlotsOf
  <2> QED BY <2>1, <2>4, <2>5, <2>6
<1> QED BY <1>1, <1>2 DEF Pools


(***************************************************************************)
(* Start-up.                                                               *)
(***************************************************************************)

\* The approval's transaction touches the account and the token, and writes the
\* allowance.
LEMMA ApprovalParts ==
  ASSUME NEW d, NEW token \in Tokens
  PROVE  LET ch == ApproveChanges(d, token)
         IN  /\ DOMAIN ch = {Account, token} /\ Account # token
             /\ \A a \in {Account, token} :
                  /\ ch[a].touched /\ ~ch[a].created /\ ~ch[a].destroyed
                  /\ ch[a].info.code = CodeOf(d, a) /\ ch[a].info.hash = d.accounts[a].info.hash
             /\ ch[Account].storage = <<>>
             /\ ch[token].storage = AllowanceSlot :> Approved
BY AddressAssumption DEF ApproveChanges, @@, :>

\* Its commit takes the code of both away from their accounts and keeps it, and writes
\* nothing but the allowance.
LEMMA CommitApproval ==
  ASSUME NEW d \in Databases, CodeInv(d), NEW token \in Tokens, Has(d, token), Has(d, Account)
  PROVE  LET e == Commit(d, ApproveChanges(d, token))
         IN  /\ e \in Databases /\ CodeInv(e) /\ e.pools = d.pools
             /\ DOMAIN e.accounts = DOMAIN d.accounts
             /\ e.accounts[token].storage
                  = (AllowanceSlot :> Approved) @@ d.accounts[token].storage
             /\ e.accounts[Account].storage = <<>> @@ d.accounts[Account].storage
             /\ \A b \in DOMAIN d.accounts \ {Account, token} : e.accounts[b] = d.accounts[b]
<1> DEFINE ch == ApproveChanges(d, token)
           T == {Account, token}
           code == {CodeAt(a) : a \in T} \ {EmptyCode, NoCode}
           New(a) == [info |-> [code |-> NoCode, hash |-> CodeAt(a)],
                      storage |-> ch[a].storage @@ d.accounts[a].storage]
           acc == [a \in T |-> New(a)] @@ d.accounts
           con == [c \in code |-> c] @@ d.contracts
           e == [pools |-> d.pools, contracts |-> con, accounts |-> acc]
           A == DOMAIN d.accounts
<1>1. /\ DOMAIN ch = T /\ Account # token
      /\ \A a \in T : /\ ch[a].touched /\ ~ch[a].created /\ ~ch[a].destroyed
                      /\ ch[a].info.code = CodeOf(d, a)
                      /\ ch[a].info.hash = d.accounts[a].info.hash
      /\ ch[Account].storage = <<>> /\ ch[token].storage = AllowanceSlot :> Approved
  BY ApprovalParts
<1> HIDE DEF ch
<1>2. \A a \in T : /\ Has(d, a) /\ a \in A /\ CodeOf(d, a) = CodeAt(a)
                   /\ d.accounts[a].info.hash = CodeAt(a)
  <2>1. T \subseteq A
    BY DEF Has
  <2> QED BY <2>1, CodeFound DEF Has, CodeInv
<1>3. Commit(d, ch) = e
  <2> DEFINE touched == {a \in DOMAIN ch : ch[a].touched}
             destroyed == {a \in touched : ch[a].destroyed}
  <2>1. touched = T /\ destroyed = {} /\ touched \ destroyed = T
    BY <1>1
  <2>2. {ch[a].info.code : a \in T} \ {EmptyCode, NoCode} = code
    BY <1>1, <1>2
  <2>3. [a \in T |->
           IF a \in {}
             THEN [info |-> [code |-> NoCode, hash |-> EmptyCode], storage |-> <<>>]
             ELSE [info |-> [code |-> NoCode, hash |-> ch[a].info.hash],
                   storage |-> ch[a].storage @@
                     (IF Has(d, a) /\ ~ch[a].created THEN d.accounts[a].storage ELSE <<>>)]]
        = [a \in T |-> New(a)]
    BY <1>1, <1>2
  <2> QED BY <2>1, <2>2, <2>3 DEF Commit
<1>4. /\ A \subseteq Addresses /\ d.accounts \in [A -> Accounts] /\ d.pools \in SUBSET Pools
      /\ \A b \in A : d.accounts[b].storage \in Maps(SlotsOf(b), Nat)
      /\ d.contracts \in Maps(Codes, Codes)
  BY DatabaseParts
<1>5. con \in Maps(Codes, Codes) /\ DOMAIN con = code \cup DOMAIN d.contracts
      /\ \A c \in DOMAIN con : con[c] = c
  <2> DEFINE own == [c \in code |-> c]
  <2>1. code \in SUBSET Codes
    BY <1>2, <1>4, CodesType
  <2> HIDE DEF code
  <2>2. own \in [code -> Codes] /\ DOMAIN own = code /\ \A c \in code : own[c] = c
    BY <2>1
  <2>3. own \in Maps(Codes, Codes)
    BY <2>1, <2>2 DEF Maps
  <2> HIDE DEF own
  <2>4. own @@ d.contracts \in Maps(Codes, Codes)
    BY <1>4, <2>3, OverType
  <2>5. /\ DOMAIN (own @@ d.contracts) = DOMAIN own \cup DOMAIN d.contracts
        /\ \A x \in DOMAIN own : (own @@ d.contracts)[x] = own[x]
        /\ \A x \in DOMAIN d.contracts \ DOMAIN own : (own @@ d.contracts)[x] = d.contracts[x]
    BY Over
  <2>6. \A c \in DOMAIN d.contracts : d.contracts[c] = c
    BY DEF CodeInv
  <2> QED BY <2>2, <2>4, <2>5, <2>6 DEF own
<1>6. \A a \in T : /\ New(a) \in Accounts
                   /\ New(a).storage \in Maps(SlotsOf(a), Nat)
  <2> SUFFICES ASSUME NEW a \in T
               PROVE  New(a) \in Accounts /\ New(a).storage \in Maps(SlotsOf(a), Nat)
    OBVIOUS
  <2> DEFINE st == ch[a].storage @@ d.accounts[a].storage
  <2>1. a \in Addresses /\ CodeAt(a) \in Codes
    BY <1>2, <1>4, CodesType
  <2>2. ch[a].storage \in Maps(SlotsOf(a), Nat)
    <3>1. CASE a = Account
      BY <1>1, <3>1, EmptyType
    <3>2. CASE a = token
      <4>1. AllowanceSlot \in SlotsOf(token) /\ Approved \in Nat
        BY DEF SlotsOf, TokenSlots, Approved
      <4> QED BY <1>1, <3>2, <4>1, SingleType
    <3> QED BY <3>1, <3>2
  <2>3. st \in Maps(SlotsOf(a), Nat)
    BY <1>2, <1>4, <2>2, OverType
  <2>4. st \in Maps(Slots, Nat)
    BY <2>1, <2>3, SlotsType
  <2> HIDE DEF st
  <2>5. [info |-> [code |-> NoCode, hash |-> CodeAt(a)], storage |-> st] \in Accounts
    BY <2>1, <2>4 DEF Accounts, Infos
  <2> QED BY <2>3, <2>5 DEF st
<1>7. /\ acc \in [A -> Accounts] /\ \A a \in T : acc[a] = New(a)
      /\ \A b \in A \ T : acc[b] = d.accounts[b]
  <2> HIDE DEF New
  <2>1. T \subseteq A
    BY <1>2
  <2> QED BY <1>4, <1>6, <2>1 DEF @@
<1>8. \A a \in T : New(a).storage = ch[a].storage @@ d.accounts[a].storage
                   /\ New(a).info.code = NoCode /\ New(a).info.hash = CodeAt(a)
  OBVIOUS
<1> HIDE DEF New, acc, con
<1>9. e \in Databases
  <2>1. \A b \in A : acc[b].storage \in Maps(SlotsOf(b), Nat)
    BY <1>4, <1>6, <1>7
  <2>2. acc \in Maps(Addresses, Accounts) /\ DOMAIN acc = A
    BY <1>4, <1>7 DEF Maps
  <2> QED BY <1>4, <1>5, <2>1, <2>2 DEF Databases
<1>10. CodeInv(e)
  <2>1. e.contracts = con /\ e.accounts = acc /\ DOMAIN acc = A
    BY <1>7
  <2> HIDE DEF e
  <2>2. Has(e, Quoter) /\ EmptyCode \in DOMAIN e.contracts
        /\ \A c \in DOMAIN e.contracts : e.contracts[c] = c
    BY <1>5, <2>1 DEF CodeInv, Has
  <2>3. ASSUME NEW b \in A
        PROVE  /\ acc[b].info.hash = CodeAt(b)
               /\ acc[b].info.code \in {CodeAt(b), NoCode}
               /\ acc[b].info.code = NoCode => acc[b].info.hash \in DOMAIN con
    <3>1. CASE b \in T
      <4>1. CodeAt(b) \in DOMAIN con
        BY <1>4, <1>5, <3>1, CodesType DEF CodeInv
      <4> QED BY <1>7, <1>8, <3>1, <4>1
    <3>2. CASE b \notin T
      <4>1. acc[b] = d.accounts[b]
        BY <1>7, <3>2
      <4> HIDE DEF code
      <4> QED BY <1>5, <4>1 DEF CodeInv
    <3> QED BY <3>1, <3>2
  <2> QED BY <2>1, <2>2, <2>3 DEF CodeInv
<1> QED BY <1>1, <1>3, <1>7, <1>8, <1>9, <1>10 DEF ch

\* Setting a cell, of an account that is loaded if need be.
LEMMA InsertStorageGives ==
  ASSUME NEW d \in Databases, CodeInv(d), NEW a \in Addresses, NEW s \in SlotsOf(a),
         NEW value \in Nat
  PROVE  LET e == InsertAccountStorage(d, a, s, value)
         IN  /\ e \in Databases /\ CodeInv(e) /\ e.pools = d.pools
             /\ DOMAIN e.accounts = DOMAIN d.accounts \cup {a}
             /\ HasSlot(e, a, s) /\ e.accounts[a].storage[s] = value
             /\ \A b, t : HasSlot(d, b, t) => HasSlot(e, b, t)
             /\ \A b, t : HasSlot(e, b, t) => HasSlot(d, b, t) \/ t = s
             /\ \A b, t : HasSlot(d, b, t) /\ ~(b = a /\ t = s) =>
                  e.accounts[b].storage[t] = d.accounts[b].storage[t]
<1> DEFINE c == Basic(d, a)
           m == s :> value
           e == PutSlots(c, a, m)
<1>1. Loads(d, c, a, {s})
  BY BasicLoads
<1>2. c \in Databases /\ CodeInv(c) /\ a \in DOMAIN c.accounts
  BY <1>1 DEF Loads
<1>3. m \in Maps(SlotsOf(a), Nat) /\ DOMAIN m = {s} /\ m[s] = value
  BY SingleType, Single
<1>4. InsertAccountStorage(d, a, s, value) = e
  BY DEF InsertAccountStorage
<1> HIDE DEF c, m
<1>5. CodeInv(e)
  BY <1>2, <1>3, PutKeepsCode
<1>6. /\ e \in Databases /\ e.pools = c.pools /\ DOMAIN e.accounts = DOMAIN c.accounts
      /\ e.accounts[a].storage = m @@ c.accounts[a].storage
      /\ \A b \in DOMAIN c.accounts : b # a => e.accounts[b] = c.accounts[b]
  BY <1>2, <1>3, PutSlotsGives
<1> HIDE DEF e
<1> DEFINE g == c.accounts[a].storage
<1>7. /\ DOMAIN (m @@ g) = {s} \cup DOMAIN g /\ (m @@ g)[s] = value
      /\ \A t \in DOMAIN g : t # s => (m @@ g)[t] = g[t]
  <2> HIDE DEF g
  <2>1. /\ DOMAIN (m @@ g) = DOMAIN m \cup DOMAIN g
        /\ \A x \in DOMAIN m : (m @@ g)[x] = m[x]
        /\ \A x \in DOMAIN g \ DOMAIN m : (m @@ g)[x] = g[x]
    BY Over
  <2> QED BY <1>3, <2>1
<1>8. HasSlot(e, a, s) /\ e.accounts[a].storage[s] = value
  BY <1>2, <1>6, <1>7 DEF HasSlot, Has
<1>9. ASSUME NEW b, NEW t, HasSlot(d, b, t)
      PROVE  /\ HasSlot(e, b, t)
             /\ ~(b = a /\ t = s) => e.accounts[b].storage[t] = d.accounts[b].storage[t]
  <2>1. HasSlot(c, b, t) /\ c.accounts[b].storage[t] = d.accounts[b].storage[t]
    BY <1>1, <1>9 DEF Loads
  <2>2. CASE b = a
    BY <1>6, <1>7, <2>1, <2>2 DEF HasSlot, Has
  <2>3. CASE b # a
    BY <1>6, <2>1, <2>3 DEF HasSlot, Has
  <2> QED BY <2>2, <2>3
<1>10. DOMAIN e.accounts = DOMAIN d.accounts \cup {a} /\ e.pools = d.pools
  BY <1>1, <1>6 DEF Loads
<1>11. ASSUME NEW b, NEW t, HasSlot(e, b, t), t # s PROVE HasSlot(d, b, t)
  <2>1. HasSlot(c, b, t)
    BY <1>6, <1>7, <1>11 DEF HasSlot, Has
  <2> QED BY <1>1, <1>11, <2>1 DEF Loads
<1> QED BY <1>4, <1>5, <1>6, <1>8, <1>9, <1>10, <1>11

\* One pool's warm-up: its first token and the account are there, the account has a
\* balance and the quoter an allowance, and no other cell has changed.
Warmed(d, token) ==
  Commit(LoadSlot(LoadAccount(InsertAccountStorage(d, token, balance_slot, TenUnits), Account),
                  token, AllowanceSlot),
         ApproveChanges(
           LoadSlot(LoadAccount(InsertAccountStorage(d, token, balance_slot, TenUnits), Account),
                    token, AllowanceSlot), token))

LEMMA WarmedGives ==
  ASSUME NEW d \in Databases, CodeInv(d), NEW token \in Tokens,
         ChainSlot(token, AllowanceSlot) \in Nat
  PROVE  LET e == Warmed(d, token)
         IN  /\ e \in Databases /\ CodeInv(e) /\ e.pools = d.pools
             /\ DOMAIN e.accounts = DOMAIN d.accounts \cup {token, Account}
             /\ HasSlot(e, token, balance_slot) /\ HasSlot(e, token, AllowanceSlot)
             /\ e.accounts[token].storage[balance_slot] = TenUnits
             /\ e.accounts[token].storage[AllowanceSlot] = Approved
             /\ \A b \in Addresses \ {token} : \A t : HasSlot(d, b, t) =>
                  HasSlot(e, b, t) /\ e.accounts[b].storage[t] = d.accounts[b].storage[t]
             /\ \A b, t : HasSlot(e, b, t) =>
                  HasSlot(d, b, t) \/ t \in {balance_slot, AllowanceSlot}
<1> DEFINE funded == InsertAccountStorage(d, token, balance_slot, TenUnits)
           asked == LoadAccount(funded, Account)
           loaded == LoadSlot(asked, token, AllowanceSlot)
           e == Commit(loaded, ApproveChanges(loaded, token))
<1>1. /\ token \in Addresses /\ Account \in Addresses /\ Account # token
      /\ {balance_slot, AllowanceSlot} \subseteq SlotsOf(token) /\ balance_slot # AllowanceSlot
      /\ TenUnits \in Nat
  BY AddressAssumption
  DEF Addresses, SlotsOf, TokenSlots, TenUnits, balance_slot, AllowanceSlot
<1>2. ChainSlot(token, AllowanceSlot) \in Nat
  OBVIOUS
<1>3. e = Warmed(d, token)
  BY DEF Warmed
<1>4. /\ funded \in Databases /\ CodeInv(funded) /\ funded.pools = d.pools
      /\ DOMAIN funded.accounts = DOMAIN d.accounts \cup {token}
      /\ HasSlot(funded, token, balance_slot)
      /\ funded.accounts[token].storage[balance_slot] = TenUnits
      /\ \A b, t : HasSlot(d, b, t) => HasSlot(funded, b, t)
      /\ \A b, t : HasSlot(funded, b, t) => HasSlot(d, b, t) \/ t = balance_slot
      /\ \A b, t : HasSlot(d, b, t) /\ ~(b = token /\ t = balance_slot) =>
           funded.accounts[b].storage[t] = d.accounts[b].storage[t]
  <2>1. balance_slot \in SlotsOf(token)
    BY <1>1
  <2> QED BY <1>1, <2>1, InsertStorageGives
<1> HIDE DEF funded
<1>5. Loads(funded, asked, Account, {})
  BY <1>1, <1>4, LoadAccountLoads
<1> HIDE DEF asked
<1>6. Loads(asked, loaded, token, {AllowanceSlot})
  <2>1. asked \in Databases /\ CodeInv(asked) /\ AllowanceSlot \in SlotsOf(token)
    BY <1>1, <1>5 DEF Loads
  <2> QED BY <1>1, <1>2, <2>1, LoadSlotLoads
<1> HIDE DEF loaded
<1>7. /\ loaded \in Databases /\ CodeInv(loaded) /\ loaded.pools = d.pools
      /\ DOMAIN loaded.accounts = DOMAIN d.accounts \cup {token, Account}
      /\ \A b, t : HasSlot(funded, b, t) =>
           HasSlot(loaded, b, t)
           /\ loaded.accounts[b].storage[t] = funded.accounts[b].storage[t]
      /\ \A b, t : HasSlot(loaded, b, t) => HasSlot(funded, b, t) \/ t = AllowanceSlot
  BY <1>4, <1>5, <1>6 DEF Loads
<1>8. /\ e \in Databases /\ CodeInv(e) /\ e.pools = loaded.pools
      /\ DOMAIN e.accounts = DOMAIN loaded.accounts
      /\ e.accounts[token].storage = (AllowanceSlot :> Approved) @@ loaded.accounts[token].storage
      /\ e.accounts[Account].storage = <<>> @@ loaded.accounts[Account].storage
      /\ \A b \in DOMAIN loaded.accounts \ {Account, token} : e.accounts[b] = loaded.accounts[b]
  <2>1. Has(loaded, token) /\ Has(loaded, Account)
    BY <1>7 DEF Has
  <2> QED BY <1>7, <2>1, CommitApproval
<1> HIDE DEF e
<1> DEFINE g == loaded.accounts[token].storage
           m == AllowanceSlot :> Approved
           f == loaded.accounts[Account].storage
<1>9. /\ DOMAIN (m @@ g) = {AllowanceSlot} \cup DOMAIN g /\ (m @@ g)[AllowanceSlot] = Approved
      /\ \A t \in DOMAIN g : t # AllowanceSlot => (m @@ g)[t] = g[t]
  <2>1. DOMAIN m = {AllowanceSlot} /\ m[AllowanceSlot] = Approved
    BY Single
  <2> HIDE DEF g, m
  <2>2. /\ DOMAIN (m @@ g) = DOMAIN m \cup DOMAIN g
        /\ \A x \in DOMAIN m : (m @@ g)[x] = m[x]
        /\ \A x \in DOMAIN g \ DOMAIN m : (m @@ g)[x] = g[x]
    BY Over
  <2> QED BY <2>1, <2>2
<1>10. DOMAIN (<<>> @@ f) = DOMAIN f /\ \A t \in DOMAIN f : (<<>> @@ f)[t] = f[t]
  <2> HIDE DEF f
  <2>1. DOMAIN (<<>> @@ f) = DOMAIN <<>> \cup DOMAIN f
        /\ \A x \in DOMAIN f \ DOMAIN <<>> : (<<>> @@ f)[x] = f[x]
    BY Over
  <2> QED BY <2>1
<1>11. /\ HasSlot(e, token, balance_slot) /\ HasSlot(e, token, AllowanceSlot)
       /\ e.accounts[token].storage[balance_slot] = TenUnits
       /\ e.accounts[token].storage[AllowanceSlot] = Approved
  <2>1. HasSlot(loaded, token, balance_slot)
        /\ loaded.accounts[token].storage[balance_slot] = TenUnits
    BY <1>4, <1>7
  <2>2. Has(e, token)
    BY <1>7, <1>8 DEF Has
  <2> QED BY <1>1, <1>8, <1>9, <2>1, <2>2 DEF HasSlot
<1>12. ASSUME NEW b \in Addresses \ {token}, NEW t, HasSlot(d, b, t)
       PROVE  HasSlot(e, b, t) /\ e.accounts[b].storage[t] = d.accounts[b].storage[t]
  <2>1. HasSlot(loaded, b, t) /\ loaded.accounts[b].storage[t] = d.accounts[b].storage[t]
    BY <1>4, <1>7, <1>12
  <2>2. CASE b = Account
    BY <1>8, <1>10, <2>1, <2>2 DEF HasSlot, Has
  <2>3. CASE b # Account
    BY <1>8, <2>1, <2>3 DEF HasSlot, Has
  <2> QED BY <2>2, <2>3
<1>13. ASSUME NEW b, NEW t, HasSlot(e, b, t), t # AllowanceSlot PROVE HasSlot(loaded, b, t)
  <2>1. CASE b = token
    BY <1>1, <1>7, <1>8, <1>9, <1>13, <2>1 DEF HasSlot, Has
  <2>2. CASE b = Account
    BY <1>7, <1>8, <1>10, <1>13, <2>2 DEF HasSlot, Has
  <2>3. CASE b \notin {Account, token}
    BY <1>8, <1>13, <2>3 DEF HasSlot, Has
  <2> QED BY <2>1, <2>2, <2>3
<1>14. ASSUME NEW b, NEW t, HasSlot(e, b, t)
       PROVE  HasSlot(d, b, t) \/ t \in {balance_slot, AllowanceSlot}
  BY <1>4, <1>7, <1>13, <1>14
<1> QED BY <1>3, <1>7, <1>8, <1>11, <1>12, <1>14

(***************************************************************************)
(* The inductive invariant.                                                *)
(***************************************************************************)

Inv == db \in Databases /\ IndInv

\* What TypeOK says of the database.
LEMMA DatabaseOK ==
  ASSUME NEW d \in Databases
  PROVE  /\ d.pools \subseteq Pools
         /\ DOMAIN d.accounts \subseteq Addresses
         /\ \A a \in DOMAIN d.accounts : AnAccount(a, d.accounts[a])
         /\ DOMAIN d.contracts \subseteq Codes
         /\ \A c \in DOMAIN d.contracts : d.contracts[c] \in Codes
<1>1. \A a \in DOMAIN d.accounts : AnAccount(a, d.accounts[a])
  BY DatabaseParts, SlotsType DEF AnAccount, Accounts, Infos
<1> QED BY <1>1, DatabaseParts

\* A cell of an account is a number on the chain.
LEMMA ChainSlotType ==
  ASSUME TypeOK, NEW a, NEW s PROVE ChainSlot(a, s) \in Nat
<1>1. CASE a \in Pools
  <2>1. Tip \in 1 .. Tip
    <3>1. Tip \in 1 .. MaxBlocks
      BY DEF TypeOK
    <3> QED BY <3>1
  <2>2. chain[Tip][a] \in PoolStates[a]
    BY <1>1, <2>1 DEF TypeOK
  <2> QED BY <1>1, <2>2, CellType DEF ChainSlot
<1>2. CASE a \notin Pools
  BY <1>2 DEF ChainSlot
<1> QED BY <1>1, <1>2

\* What warm-up wrote stays if the cells of the tokens that are no pools stay.
LEMMA FundsKept ==
  ASSUME QuoterFunded, WarmedUp' \subseteq WarmedUp,
         \A t \in Tokens \ Pools : \A s : HasSlot(db, t, s) =>
           HasSlot(db', t, s) /\ db'.accounts[t].storage[s] = db.accounts[t].storage[s]
  PROVE  QuoterFunded'
<1> SUFFICES ASSUME NEW p \in WarmedUp', Token0[p] \notin Pools,
                    BalanceSlot[Token0[p]] = balance_slot
             PROVE  /\ HasSlot(db', Token0[p], balance_slot)
                    /\ HasSlot(db', Token0[p], AllowanceSlot)
                    /\ db'.accounts[Token0[p]].storage[balance_slot] = TenUnits
                    /\ db'.accounts[Token0[p]].storage[AllowanceSlot] = Approved
  BY DEF QuoterFunded
<1>1. p \in WarmedUp /\ p \in Pools
  BY DEF WarmedUp
<1>2. Token0[p] \in Tokens \ Pools
  BY <1>1, AddressAssumption
<1>3. /\ HasSlot(db, Token0[p], balance_slot) /\ HasSlot(db, Token0[p], AllowanceSlot)
      /\ db.accounts[Token0[p]].storage[balance_slot] = TenUnits
      /\ db.accounts[Token0[p]].storage[AllowanceSlot] = Approved
  BY <1>1, <1>2 DEF QuoterFunded
<1> QED BY <1>2, <1>3

LEMMA InitInv == Init => Inv
<1> SUFFICES ASSUME Init PROVE Inv
  OBVIOUS
<1> DEFINE info == [code |-> QuoterCode, hash |-> QuoterCode]
<1>1. NewDb \in Databases /\ DOMAIN NewDb.accounts = {} /\ NewDb.pools = {}
      /\ DOMAIN NewDb.contracts = {EmptyCode} /\ NewDb.contracts[EmptyCode] = EmptyCode
  <2>1. <<>> \in Maps(Addresses, Accounts)
    BY EmptyType
  <2> DEFINE con == EmptyCode :> EmptyCode
  <2>2. con \in Maps(Codes, Codes) /\ DOMAIN con = {EmptyCode} /\ con[EmptyCode] = EmptyCode
    BY SingleType, Single, CodesType
  <2>3. NewDb = [pools |-> {}, accounts |-> <<>>, contracts |-> con]
    BY DEF NewDb
  <2> HIDE DEF con
  <2>4. DOMAIN <<>> = {}
    OBVIOUS
  <2> QED BY <2>1, <2>2, <2>3, <2>4 DEF Databases
<1>2. info \in Infos /\ Quoter \in Addresses
  BY CodesType DEF Infos, Addresses
<1>3. /\ db \in Databases /\ db.pools = {} /\ db.contracts = NewDb.contracts
      /\ DOMAIN db.accounts = {Quoter}
      /\ db.accounts[Quoter] = [info |-> info, storage |-> <<>>]
  <2>1. db = InsertAccountInfo(NewDb, Quoter, info)
    BY DEF Init
  <2> QED BY <1>1, <1>2, <2>1, InsertGives
<1>4. CodeInv(db)
  <2>1. /\ db.accounts[Quoter].info.hash = CodeAt(Quoter)
        /\ db.accounts[Quoter].info.code = CodeAt(Quoter)
        /\ CodeAt(Quoter) # NoCode
    BY <1>2, <1>3, CodesType DEF CodeAt
  <2>2. /\ Has(db, Quoter) /\ EmptyCode \in DOMAIN db.contracts
        /\ \A c \in DOMAIN db.contracts : db.contracts[c] = c
    BY <1>1, <1>3 DEF Has
  <2> QED BY <1>3, <2>1, <2>2 DEF CodeInv
<1>5. /\ Tip = 1 /\ chain \in Seq([Pools -> UNION {PoolStates[p] : p \in Pools}])
      /\ \A p \in Pools : chain[1][p] \in PoolStates[p]
  <2>1. PICK st \in [Pools -> UNION {PoolStates[p] : p \in Pools}] :
          (\A p \in Pools : st[p] \in PoolStates[p]) /\ chain = <<st>>
    BY DEF Init
  <2> DEFINE S == [Pools -> UNION {PoolStates[p] : p \in Pools}]
  <2>2. st \in S /\ chain = <<st>>
    BY <2>1
  <2> HIDE DEF S
  <2>3. Len(chain) = 1 /\ chain[1] = st /\ chain \in Seq(S)
    BY <2>2
  <2> QED BY <2>1, <2>3 DEF S, Tip
<1>6. synced = 1 /\ phase = "warm up" /\ todo = Pools /\ MaxBlocks \in Nat \ {0}
  BY WidthAssumption DEF Init
<1>7. Pools # {}
  BY AddressAssumption
<1>8. TypeOK
  <2>1. /\ Tip \in 1 .. MaxBlocks /\ synced \in 1 .. Tip
        /\ \A b \in 1 .. Tip : \A p \in Pools : chain[b][p] \in PoolStates[p]
    <3>0. MaxBlocks \in Nat \ {0}
      BY WidthAssumption
    <3>1. Tip = 1
      BY <1>5
    <3>3. synced = 1
      BY <1>6
    <3>4. 1 \in 1 .. MaxBlocks
      BY <3>0
    <3>2. \A b \in 1 .. Tip : b = 1
      BY <3>1
    <3> QED BY <1>5, <3>1, <3>2, <3>3, <3>4
  <2>2. /\ phase \in {"warm up", "populate", "run", "panicked"} /\ todo \subseteq Pools
        /\ phase = "warm up"  => todo # {} /\ db.pools = {}
        /\ phase = "populate" => todo # {} /\ db.pools = Pools \ todo
        /\ phase = "run"      => todo = {} /\ db.pools = Pools
    BY <1>3, <1>6, <1>7
  <2>3. /\ db.pools \subseteq Pools
        /\ DOMAIN db.accounts \subseteq Addresses
        /\ \A a \in DOMAIN db.accounts : AnAccount(a, db.accounts[a])
        /\ DOMAIN db.contracts \subseteq Codes
        /\ \A c \in DOMAIN db.contracts : db.contracts[c] \in Codes
    BY <1>3, DatabaseOK
  <2> QED BY <2>1, <2>2, <2>3 DEF TypeOK
<1>9. ChainInv
  BY <1>5 DEF ChainInv
<1>10. StartInv
  BY <1>3, <1>6, AddressAssumption DEF StartInv, Bare, HasSlot, Has, Pools
<1>11. CellsInv /\ UpdatesReachPools
  BY <1>3 DEF CellsInv, UpdatesReachPools
<1>12. QuoterFunded
  BY <1>6 DEF QuoterFunded, WarmedUp
<1> QED BY <1>3, <1>4, <1>8, <1>9, <1>10, <1>11, <1>12 DEF Inv, IndInv

\* A block: one more state of each pool, and nothing applied yet.
LEMMA BlockInv == Inv /\ Block => Inv'
<1> SUFFICES ASSUME Inv, Block PROVE Inv'
  OBVIOUS
<1> DEFINE S == [Pools -> UNION {PoolStates[p] : p \in Pools}]
<1>0. PICK p \in Pools : \E st \in PoolStates[p] :
        /\ DOMAIN Cells(p, chain[Tip][p]) \subseteq DOMAIN Cells(p, st)
        /\ chain' = Append(chain, [chain[Tip] EXCEPT ![p] = st])
  BY DEF Block
<1>1. PICK st \in PoolStates[p] :
        /\ DOMAIN Cells(p, chain[Tip][p]) \subseteq DOMAIN Cells(p, st)
        /\ chain' = Append(chain, [chain[Tip] EXCEPT ![p] = st])
  BY <1>0
<1>2. /\ Tip < MaxBlocks /\ db' = db /\ synced' = synced /\ phase' = phase /\ todo' = todo
      /\ db \in Databases /\ CodeInv(db)
  BY DEF Block, Inv, IndInv
<1>3. /\ chain \in Seq(S) /\ Tip \in 1 .. MaxBlocks /\ synced \in 1 .. Tip
      /\ \A b \in 1 .. Tip : \A q \in Pools : chain[b][q] \in PoolStates[q]
  BY DEF Inv, IndInv, TypeOK, ChainInv
<1>20. Tip \in 1 .. Tip /\ Tip \in Nat
  <2>1. Tip \in 1 .. MaxBlocks
    BY DEF Inv, IndInv, TypeOK
  <2> QED BY <2>1
<1> DEFINE new == [chain[Tip] EXCEPT ![p] = st]
<1>4. chain[Tip] \in S
  BY <1>3 DEF Tip
<1>5. new \in S /\ \A q \in Pools : new[q] = IF q = p THEN st ELSE chain[Tip][q]
  BY <1>4
<1> HIDE DEF new
<1>6. /\ chain' \in Seq(S) /\ Tip' = Tip + 1 /\ chain'[Tip + 1] = new
      /\ \A b \in 1 .. Tip : chain'[b] = chain[b]
  <2> HIDE DEF S
  <2>1. chain' = Append(chain, new)
    BY <1>1 DEF new
  <2> QED BY <1>3, <1>5, <2>1 DEF Tip
<1>7. MaxBlocks \in Nat
  BY WidthAssumption
<1>8. /\ Tip' \in 1 .. MaxBlocks /\ synced' \in 1 .. Tip'
      /\ \A b \in 1 .. Tip' : b \in 1 .. Tip \/ b = Tip + 1
  BY <1>2, <1>3, <1>6, <1>7
<1>9. TypeOK'
  <2>1. \A b \in 1 .. Tip' : \A q \in Pools : chain'[b][q] \in PoolStates[q]
    <3> SUFFICES ASSUME NEW b \in 1 .. Tip', NEW q \in Pools
                 PROVE  chain'[b][q] \in PoolStates[q]
      OBVIOUS
    <3>1. CASE b \in 1 .. Tip
      BY <1>3, <1>6, <3>1
    <3>2. CASE b = Tip + 1
      <4>1. new[q] \in PoolStates[q]
        <5>1. chain[Tip][q] \in PoolStates[q]
          BY <1>3, <1>20
        <5> QED BY <1>5, <5>1
      <4> QED BY <1>6, <3>2, <4>1
    <3> QED BY <1>8, <3>1, <3>2
  <2>2. TypeOK
    BY DEF Inv, IndInv
  <2> QED BY <1>2, <1>8, <2>1, <2>2 DEF TypeOK
<1>10. ChainInv'
  <2>1. ASSUME NEW b \in 2 .. Tip', NEW q \in Pools
        PROVE  DOMAIN Cells(q, chain'[b - 1][q]) \subseteq DOMAIN Cells(q, chain'[b][q])
    <3>1. CASE b = Tip + 1
      <4>1. b - 1 = Tip /\ chain'[b - 1] = chain[Tip] /\ chain'[b] = new
        <5>1. b - 1 = Tip
          BY <1>20, <3>1
        <5> QED BY <1>6, <1>20, <3>1, <5>1
      <4> QED BY <1>1, <1>5, <4>1
    <3>2. CASE b # Tip + 1
      <4>1. b \in 2 .. Tip /\ b - 1 \in 1 .. Tip /\ b \in 1 .. Tip
        BY <1>3, <1>6, <3>2
      <4>2. DOMAIN Cells(q, chain[b - 1][q]) \subseteq DOMAIN Cells(q, chain[b][q])
        BY <4>1 DEF Inv, IndInv, ChainInv
      <4> QED BY <1>6, <4>1, <4>2
    <3> QED BY <3>1, <3>2
  <2> QED BY <1>6, <2>1 DEF ChainInv
<1>11. CellsInv'
  <2>1. ASSUME NEW q \in db.pools, Has(db, q),
               NEW s \in DOMAIN db.accounts[q].storage \cap PoolSlots(q)
        PROVE  \E v \in synced .. Tip' :
                 SameFields(q, s, db.accounts[q].storage[s], CellOf(q, chain'[v][q], s))
    <3>1. PICK v \in synced .. Tip :
            SameFields(q, s, db.accounts[q].storage[s], CellOf(q, chain[v][q], s))
      BY <2>1 DEF Inv, IndInv, CellsInv
    <3>2. v \in 1 .. Tip /\ v \in synced .. Tip + 1
      <4>1. synced \in 1 .. Tip /\ Tip \in Nat
        BY <1>3
      <4>2. \A n \in Nat : \A m \in 1 .. n : \A k \in m .. n : k \in 1 .. n /\ k \in m .. n + 1
        OBVIOUS
      <4> HIDE DEF Tip
      <4> QED BY <4>1, <4>2
    <3>3. v \in synced .. Tip' /\ chain'[v] = chain[v]
      BY <1>6, <3>2
    <3> QED BY <3>1, <3>3
  <2>2. ASSUME NEW q \in db.pools, Has(db, q), q \in V3Pools
        PROVE  {Slot0, LiquiditySlot, SpacingSlot} \subseteq DOMAIN db.accounts[q].storage
    BY <2>2 DEF Inv, IndInv, CellsInv
  <2> QED BY <1>2, <2>1, <2>2 DEF CellsInv
<1>12. StartInv' /\ QuoterFunded' /\ UpdatesReachPools' /\ CodeInv(db)'
  <2>1. StartInv /\ QuoterFunded /\ UpdatesReachPools
    BY DEF Inv, IndInv
  <2> QED BY <1>2, <2>1 DEF StartInv, QuoterFunded, WarmedUp, UpdatesReachPools
<1> QED BY <1>2, <1>9, <1>10, <1>11, <1>12 DEF Inv, IndInv

\* Giving up leaves the database as it is.
LEMMA WarmUpPanicsInv == Inv /\ WarmUpPanics => Inv'
<1> SUFFICES ASSUME Inv, WarmUpPanics PROVE Inv'
  OBVIOUS
<1>1. /\ db' = db /\ chain' = chain /\ synced' = synced /\ todo' = todo /\ Tip' = Tip
      /\ phase = "warm up" /\ phase' = "panicked"
  BY DEF WarmUpPanics, Tip
<1>2. TypeOK /\ ChainInv /\ StartInv /\ CodeInv(db) /\ CellsInv /\ db \in Databases
  BY DEF Inv, IndInv
<1>3. TypeOK'
  BY <1>1, <1>2 DEF TypeOK
<1>4. ChainInv' /\ StartInv' /\ CodeInv(db)'
  BY <1>1, <1>2 DEF ChainInv, StartInv
<1>5. CellsInv'
  BY <1>1, <1>2 DEF CellsInv
<1>6. QuoterFunded' /\ UpdatesReachPools'
  BY <1>1 DEF QuoterFunded, WarmedUp, UpdatesReachPools
<1> QED BY <1>1, <1>2, <1>3, <1>4, <1>5, <1>6 DEF Inv, IndInv

\* Warming up one pool.
LEMMA WarmUpInv == Inv /\ WarmUp => Inv'
<1> SUFFICES ASSUME Inv, WarmUp PROVE Inv'
  OBVIOUS
<1>1. PICK p \in todo :
        /\ db' = Warmed(db, Token0[p])
        /\ IF todo = {p} THEN phase' = "populate" /\ todo' = Pools
                         ELSE phase' = phase /\ todo' = todo \ {p}
  BY DEF WarmUp, Warmed
<1>2. phase = "warm up" /\ chain' = chain /\ synced' = synced /\ Tip' = Tip
  BY DEF WarmUp, Tip
<1>3. /\ TypeOK /\ ChainInv /\ StartInv /\ CodeInv(db) /\ QuoterFunded /\ db \in Databases
      /\ todo \subseteq Pools /\ db.pools = {}
  BY <1>2 DEF Inv, IndInv, TypeOK
<1> DEFINE t == Token0[p]
<1>4. t \in Tokens /\ Pools # {} /\ \A q \in Pools : Token0[q] \in Tokens
  BY <1>3, AddressAssumption
<1>5. /\ db' \in Databases /\ CodeInv(db') /\ db'.pools = {}
      /\ DOMAIN db'.accounts = DOMAIN db.accounts \cup {t, Account}
      /\ HasSlot(db', t, balance_slot) /\ HasSlot(db', t, AllowanceSlot)
      /\ db'.accounts[t].storage[balance_slot] = TenUnits
      /\ db'.accounts[t].storage[AllowanceSlot] = Approved
      /\ \A b \in Addresses \ {t} : \A s : HasSlot(db, b, s) =>
           HasSlot(db', b, s) /\ db'.accounts[b].storage[s] = db.accounts[b].storage[s]
      /\ \A b, s : HasSlot(db', b, s) =>
           HasSlot(db, b, s) \/ s \in {balance_slot, AllowanceSlot}
  BY <1>1, <1>3, <1>4, ChainSlotType, WarmedGives
<1>6. \A q \in Pools : Bare(db', q)
  <2>1. \A q \in Pools : {balance_slot, AllowanceSlot} \cap PoolSlots(q) = {}
    BY DEF PoolSlots, balance_slot, AllowanceSlot, Slot0, LiquiditySlot, Ticks, Token0Slot,
           Token1Slot, ReservesSlot, SpacingSlot, TickBitmap
  <2> QED BY <1>2, <1>3, <1>5, <2>1 DEF StartInv, Bare
<1>7. /\ phase' \in {"warm up", "populate"} /\ todo' \subseteq Pools /\ todo' # {}
      /\ phase' = "populate" => todo' = Pools
      /\ phase' = "warm up" => Pools \ todo' = (Pools \ todo) \cup {p}
  BY <1>1, <1>2, <1>3, <1>4
<1>8. TypeOK'
  <2>1. /\ DOMAIN db'.accounts \subseteq Addresses
        /\ \A a \in DOMAIN db'.accounts : AnAccount(a, db'.accounts[a])
        /\ DOMAIN db'.contracts \subseteq Codes
        /\ \A c \in DOMAIN db'.contracts : db'.contracts[c] \in Codes
    BY <1>5, DatabaseOK
  <2> QED BY <1>2, <1>3, <1>5, <1>7, <2>1 DEF TypeOK
<1>9. ChainInv' /\ StartInv' /\ CodeInv(db)'
  <2>1. ChainInv'
    BY <1>2, <1>3 DEF ChainInv
  <2>2. StartInv'
    BY <1>2, <1>3, <1>6, <1>7 DEF StartInv
  <2> QED BY <1>5, <2>1, <2>2
<1>10. CellsInv' /\ UpdatesReachPools'
  BY <1>5 DEF CellsInv, UpdatesReachPools
<1>11. QuoterFunded'
  <2> SUFFICES ASSUME NEW q \in Pools, q \in (Pools \ todo) \cup {p} \/ todo = {p},
                      Token0[q] \notin Pools, BalanceSlot[Token0[q]] = balance_slot
               PROVE  /\ HasSlot(db', Token0[q], balance_slot)
                      /\ HasSlot(db', Token0[q], AllowanceSlot)
                      /\ db'.accounts[Token0[q]].storage[balance_slot] = TenUnits
                      /\ db'.accounts[Token0[q]].storage[AllowanceSlot] = Approved
    <3>1. \A q \in WarmedUp' : q \in Pools /\ (q \in (Pools \ todo) \cup {p} \/ todo = {p})
      BY <1>1, <1>2, <1>7 DEF WarmedUp
    <3> QED BY <3>1 DEF QuoterFunded
  <2>1. CASE Token0[q] = t
    BY <1>5, <2>1
  <2>2. CASE Token0[q] # t
    <3>1. q \in Pools \ todo /\ q \in WarmedUp
      BY <1>2, <2>2 DEF WarmedUp
    <3>2. /\ HasSlot(db, Token0[q], balance_slot)
          /\ HasSlot(db, Token0[q], AllowanceSlot)
          /\ db.accounts[Token0[q]].storage[balance_slot] = TenUnits
          /\ db.accounts[Token0[q]].storage[AllowanceSlot] = Approved
      BY <1>3, <3>1 DEF QuoterFunded
    <3>3. Token0[q] \in Addresses \ {t}
      BY <1>4, <2>2 DEF Addresses
    <3> QED BY <1>5, <3>2, <3>3
  <2> QED BY <2>1, <2>2
<1> QED BY <1>5, <1>8, <1>9, <1>10, <1>11 DEF Inv, IndInv

\* An account without cells is put in the place of a pool's.
LEMMA PoolInserted ==
  ASSUME NEW d \in Databases, CodeInv(d), NEW p \in Pools
  PROVE  LET e == InsertAccountInfo(d, p, BasicRef(p))
         IN  /\ e \in Databases /\ CodeInv(e) /\ e.pools = d.pools
             /\ DOMAIN e.accounts = DOMAIN d.accounts \cup {p} /\ Bare(e, p)
             /\ \A b \in DOMAIN d.accounts : b # p => e.accounts[b] = d.accounts[b]
<1> DEFINE e == InsertAccountInfo(d, p, BasicRef(p))
<1>1. p \in Addresses /\ p # Quoter
  BY AddressAssumption DEF Addresses
<1>2. BasicRef(p) \in Infos /\ BasicRef(p).code = CodeAt(p) /\ BasicRef(p).hash = CodeAt(p)
  BY <1>1, CodesType DEF BasicRef, Infos, CodeAt
<1>3. /\ e \in Databases /\ e.pools = d.pools /\ e.contracts = d.contracts
      /\ DOMAIN e.accounts = DOMAIN d.accounts \cup {p}
      /\ e.accounts[p] = [info |-> BasicRef(p), storage |-> <<>>]
      /\ \A b \in DOMAIN d.accounts : b # p => e.accounts[b] = d.accounts[b]
  BY <1>1, <1>2, InsertGives
<1> HIDE DEF e
<1>4. e.accounts[p].info = BasicRef(p) /\ DOMAIN e.accounts[p].storage = {}
  BY <1>3
<1>5. CodeInv(e)
  <2>1. /\ Has(e, Quoter) /\ EmptyCode \in DOMAIN e.contracts
        /\ \A c \in DOMAIN e.contracts : e.contracts[c] = c
    BY <1>3 DEF CodeInv, Has
  <2>2. ASSUME NEW b \in DOMAIN e.accounts
        PROVE  /\ e.accounts[b].info.hash = CodeAt(b)
               /\ e.accounts[b].info.code \in {CodeAt(b), NoCode}
               /\ e.accounts[b].info.code = NoCode
                    => e.accounts[b].info.hash \in DOMAIN e.contracts
    <3>1. CASE b = p
      BY <1>1, <1>2, <1>4, <3>1, CodesType
    <3>2. CASE b # p
      BY <1>3, <3>2 DEF CodeInv
    <3> QED BY <3>1, <3>2
  <2> QED BY <2>1, <2>2 DEF CodeInv
<1>6. Bare(e, p)
  BY <1>4 DEF Bare, HasSlot
<1> QED BY <1>3, <1>5, <1>6 DEF e

\* Adding a pool, with the cells of the snapshot or without an account.
LEMMA PopulateInv == Inv /\ Populate => Inv'
<1> SUFFICES ASSUME Inv, Populate PROVE Inv'
  OBVIOUS
<1>1. PICK p \in todo, answered \in BOOLEAN :
        LET added == AddPool(db, p, answered)
        IN  IF Has(added, p)
              THEN /\ db' = PutSlots(added, p, InsertedCells(p, chain[1][p]))
                   /\ todo' = todo \ {p}
                   /\ phase' = IF todo = {p} THEN "run" ELSE phase
              ELSE db' = added /\ phase' = "panicked" /\ todo' = todo
  BY DEF Populate
<1>2. phase = "populate" /\ chain' = chain /\ synced' = synced /\ Tip' = Tip
  BY DEF Populate, Tip
<1>3. /\ TypeOK /\ ChainInv /\ StartInv /\ CodeInv(db) /\ QuoterFunded /\ CellsInv
      /\ UpdatesReachPools /\ db \in Databases
      /\ todo \subseteq Pools /\ db.pools = Pools \ todo /\ synced = 1 /\ Tip \in Nat \ {0}
      /\ chain[1][p] \in PoolStates[p] /\ Bare(db, p)
  <2>1. TypeOK /\ ChainInv /\ StartInv /\ CodeInv(db) /\ QuoterFunded /\ CellsInv
        /\ UpdatesReachPools /\ db \in Databases
    BY DEF Inv, IndInv
  <2>2. todo \subseteq Pools /\ db.pools = Pools \ todo /\ synced = 1 /\ Tip \in 1 .. MaxBlocks
        /\ Bare(db, p)
    BY <1>2, <2>1 DEF TypeOK, StartInv
  <2>3. Tip \in Nat \ {0} /\ 1 \in 1 .. Tip
    BY <2>2
  <2>4. chain[1][p] \in PoolStates[p]
    BY <2>1, <2>2, <2>3 DEF TypeOK
  <2> QED BY <2>1, <2>2, <2>3, <2>4
<1> DEFINE tracked == [db EXCEPT !.pools = @ \cup {p}]
           added == AddPool(db, p, answered)
<1>4. /\ tracked \in Databases /\ tracked.accounts = db.accounts
      /\ tracked.contracts = db.contracts /\ tracked.pools = db.pools \cup {p}
  BY <1>3 DEF Databases
<1> HIDE DEF tracked
<1>5. p \in Pools /\ p \in Addresses /\ p # Quoter
  BY <1>3, AddressAssumption DEF Addresses
<1>6. ASSUME db' \in Databases,
             phase' \in {"populate", "run", "panicked"}, todo' \subseteq Pools,
             phase' = "populate" => todo' # {} /\ db'.pools = Pools \ todo',
             phase' = "run" => todo' = {} /\ db'.pools = Pools
      PROVE  TypeOK'
  <2>1. /\ db'.pools \subseteq Pools
        /\ DOMAIN db'.accounts \subseteq Addresses
        /\ \A a \in DOMAIN db'.accounts : AnAccount(a, db'.accounts[a])
        /\ DOMAIN db'.contracts \subseteq Codes
        /\ \A c \in DOMAIN db'.contracts : db'.contracts[c] \in Codes
    BY <1>6, DatabaseOK
  <2> QED BY <1>2, <1>3, <1>6, <2>1 DEF TypeOK
<1>7. ChainInv'
  BY <1>2, <1>3 DEF ChainInv
<1>8. CASE ~Has(added, p)
  <2>1. ~answered /\ added = tracked
    BY <1>4, <1>8 DEF AddPool, InsertAccountInfo, tracked, Has, @@, :>
  <2>2. db' = tracked /\ phase' = "panicked" /\ todo' = todo
    BY <1>1, <1>8, <2>1
  <2>3. TypeOK'
    BY <1>3, <1>4, <1>6, <2>2
  <2>4. StartInv' /\ CodeInv(db)' /\ QuoterFunded' /\ UpdatesReachPools'
    BY <1>2, <1>3, <1>4, <2>2
    DEF StartInv, CodeInv, QuoterFunded, WarmedUp, UpdatesReachPools, Has
  <2>5. CellsInv'
    <3>1. \A q \in db'.pools : Has(db', q) => q \in db.pools /\ Has(db, q)
      BY <1>4, <1>8, <2>1, <2>2 DEF Has
    <3> QED BY <1>2, <1>3, <1>4, <2>2, <3>1 DEF CellsInv
  <2> QED BY <1>4, <1>7, <2>2, <2>3, <2>4, <2>5 DEF Inv, IndInv
<1>9. CASE Has(added, p)
  <2> DEFINE m == InsertedCells(p, chain[1][p])
             f == PutSlots(added, p, m)
  <2>1. /\ added \in Databases /\ CodeInv(added) /\ added.pools = db.pools \cup {p}
        /\ DOMAIN added.accounts = DOMAIN db.accounts \cup {p} /\ Bare(added, p)
        /\ \A b \in DOMAIN db.accounts : b # p => added.accounts[b] = db.accounts[b]
    <3>1. CASE answered
      <4>1. added = InsertAccountInfo(tracked, p, BasicRef(p))
        BY <3>1 DEF AddPool, tracked
      <4>2. CodeInv(tracked)
        BY <1>3, <1>4 DEF CodeInv, Has
      <4> HIDE DEF added
      <4> QED BY <1>4, <1>5, <4>1, <4>2, PoolInserted
    <3>2. CASE ~answered
      <4>1. added = tracked
        BY <3>2 DEF AddPool, tracked
      <4> HIDE DEF added
      <4> QED BY <1>3, <1>4, <1>9, <4>1 DEF CodeInv, Bare, HasSlot, Has
    <3> QED BY <3>1, <3>2
  <2> HIDE DEF added
  <2>5. /\ db' = f /\ todo' = todo \ {p} /\ phase' = IF todo = {p} THEN "run" ELSE phase
    BY <1>1, <1>9 DEF added
  <2>6. /\ m \in Maps(SlotsOf(p), Nat)
        /\ \A s \in DOMAIN m : SameFields(p, s, m[s], CellOf(p, chain[1][p], s))
        /\ p \in V3Pools => {Slot0, LiquiditySlot, SpacingSlot} \subseteq DOMAIN m
    BY <1>3, <1>5, Inserted
  <2> HIDE DEF m
  <2> DEFINE old == added.accounts[p].storage
             g == m @@ old
  <2>8. /\ f \in Databases /\ CodeInv(f) /\ f.pools = db.pools \cup {p}
        /\ DOMAIN f.accounts = DOMAIN db.accounts \cup {p}
        /\ f.accounts[p].storage = g
        /\ \A b \in DOMAIN db.accounts : b # p => f.accounts[b] = db.accounts[b]
    <3>1. /\ f \in Databases /\ f.pools = added.pools
          /\ DOMAIN f.accounts = DOMAIN added.accounts /\ f.accounts[p].storage = g
          /\ \A b \in DOMAIN added.accounts : b # p => f.accounts[b] = added.accounts[b]
      BY <2>1, <2>6, PutSlotsGives
    <3>2. CodeInv(f)
      BY <2>1, <2>6, PutKeepsCode
    <3> HIDE DEF f, g
    <3> QED BY <2>1, <3>1, <3>2
  <2> HIDE DEF f
  <2>9. /\ DOMAIN m \subseteq DOMAIN g /\ \A s \in DOMAIN m : g[s] = m[s]
        /\ DOMAIN g \cap PoolSlots(p) \subseteq DOMAIN m
    <3>1. DOMAIN old \cap PoolSlots(p) = {}
      BY <1>9, <2>1 DEF Bare, HasSlot
    <3> HIDE DEF old
    <3>2. DOMAIN (m @@ old) = DOMAIN m \cup DOMAIN old
          /\ \A x \in DOMAIN m : (m @@ old)[x] = m[x]
      BY Over
    <3> QED BY <3>1, <3>2
  <2> HIDE DEF g
  <2>11. /\ phase' \in {"populate", "run"} /\ todo' \subseteq Pools
         /\ phase' = "populate" => todo' # {}
         /\ phase' = "run" => todo' = {}
         /\ f.pools = Pools \ todo'
    BY <1>2, <1>3, <1>5, <2>5, <2>8
  <2>12. TypeOK'
    BY <1>6, <2>5, <2>8, <2>11
  <2>13. StartInv'
    <3>1. synced' = 1 /\ phase' # "warm up"
      BY <1>2, <1>3, <2>11
    <3>2. ASSUME NEW q \in todo'
          PROVE  Bare(f, q)
      <4>1. q \in todo /\ q # p /\ Bare(db, q)
        BY <1>2, <1>3, <2>5 DEF StartInv
      <4> QED BY <2>8, <4>1 DEF Bare, HasSlot, Has
    <3> QED BY <2>5, <3>1, <3>2 DEF StartInv
  <2>14. UpdatesReachPools'
    BY <1>2, <1>3, <2>5, <2>8 DEF UpdatesReachPools, Has
  <2>15. QuoterFunded'
    <3>1. WarmedUp' \subseteq WarmedUp
      BY <1>2, <2>11 DEF WarmedUp
    <3>2. \A t \in Tokens \ Pools : \A s : HasSlot(db, t, s) =>
            HasSlot(f, t, s) /\ f.accounts[t].storage[s] = db.accounts[t].storage[s]
      BY <1>5, <2>8 DEF HasSlot, Has
    <3> QED BY <1>3, <2>5, <3>1, <3>2, FundsKept
  <2>16. CellsInv'
    <3> SUFFICES ASSUME NEW q \in f.pools, Has(f, q)
                 PROVE  /\ \A s \in DOMAIN f.accounts[q].storage \cap PoolSlots(q) :
                             \E v \in synced .. Tip :
                               SameFields(q, s, f.accounts[q].storage[s], CellOf(q, chain[v][q], s))
                        /\ q \in V3Pools =>
                             {Slot0, LiquiditySlot, SpacingSlot} \subseteq DOMAIN f.accounts[q].storage
      BY <1>2, <2>5 DEF CellsInv
    <3>1. CASE q = p
      <4>1. synced \in synced .. Tip /\ synced = 1
        BY <1>3
      <4> QED BY <2>6, <2>8, <2>9, <3>1, <4>1
    <3>2. CASE q # p
      <4>1. q \in db.pools /\ Has(db, q) /\ f.accounts[q] = db.accounts[q]
        BY <2>8, <3>2 DEF Has
      <4> QED BY <1>3, <4>1 DEF CellsInv
    <3> QED BY <3>1, <3>2
  <2> QED BY <1>7, <2>5, <2>8, <2>12, <2>13, <2>14, <2>15, <2>16 DEF Inv, IndInv
<1> QED BY <1>8, <1>9

\* A cell holds what it holds, and never 0.
LEMMA CellsNonzero ==
  ASSUME NEW p \in Pools, NEW st, NEW c \in DOMAIN Cells(p, st)
  PROVE  Cells(p, st)[c] # 0
BY DEF Cells

\* A trace has the cells of the new state that are not as they were.
LEMMA TraceGives ==
  ASSUME Inv, NEW b \in 2 .. Tip, NEW p \in Pools
  PROVE  /\ DOMAIN Trace(b) \subseteq Pools
         /\ p \in DOMAIN Trace(b) =>
              /\ Trace(b)[p] \in Maps(SlotsOf(p), Nat)
              /\ \A s \in DOMAIN Trace(b)[p] :
                   Trace(b)[p][s] = CellOf(p, chain[b][p], s) /\ Trace(b)[p][s] # 0
         /\ \A s : ~(p \in DOMAIN Trace(b) /\ s \in DOMAIN Trace(b)[p]) =>
              CellOf(p, chain[b][p], s) = CellOf(p, chain[b - 1][p], s)
<1> DEFINE now == Cells(p, chain[b][p])
           was == Cells(p, chain[b - 1][p])
           C == {c \in DOMAIN now : c \notin DOMAIN was \/ now[c] # was[c]}
           m == [s \in C |-> now[s]]
<1>1. chain[b][p] \in PoolStates[p] /\ DOMAIN was \subseteq DOMAIN now
  <2>1. b \in 1 .. Tip
    OBVIOUS
  <2> QED BY <2>1 DEF Inv, IndInv, TypeOK, ChainInv
<1>2. DOMAIN Trace(b) = {q \in Pools : chain[b][q] # chain[b - 1][q]}
  BY DEF Trace
<1>3. p \in DOMAIN Trace(b) => Trace(b)[p] = m
  BY DEF Trace
<1>4. now \in Maps(SlotsOf(p), Nat) /\ \A c \in DOMAIN now : now[c] = CellOf(p, chain[b][p], c)
  BY <1>1, CellType
<1>5. \A c \in DOMAIN now : now[c] # 0
  BY CellsNonzero
<1>7. \A s : CellOf(p, chain[b][p], s) = IF s \in DOMAIN now THEN now[s] ELSE 0
  BY DEF CellOf
<1>8. \A s : CellOf(p, chain[b - 1][p], s) = IF s \in DOMAIN was THEN was[s] ELSE 0
  BY DEF CellOf
<1> HIDE DEF now, was
<1>9. m \in Maps(SlotsOf(p), Nat)
  <2>1. PICK D \in SUBSET SlotsOf(p) : now \in [D -> Nat]
    BY <1>4 DEF Maps
  <2>2. C \in SUBSET SlotsOf(p) /\ m \in [C -> Nat]
    BY <2>1
  <2> QED BY <2>2 DEF Maps
<1>10. ASSUME NEW s, ~(p \in DOMAIN Trace(b) /\ s \in DOMAIN Trace(b)[p])
       PROVE  CellOf(p, chain[b][p], s) = CellOf(p, chain[b - 1][p], s)
  <2>1. CASE p \notin DOMAIN Trace(b)
    BY <1>2, <2>1
  <2>2. CASE s \notin C
    BY <1>1, <1>7, <1>8, <2>2
  <2>3. p \in DOMAIN Trace(b) => DOMAIN Trace(b)[p] = C
    BY <1>3
  <2> QED BY <1>10, <2>1, <2>2, <2>3
<1> QED BY <1>2, <1>3, <1>4, <1>5, <1>9, <1>10

\* Applying the next block: a cell that its trace does not have is as it was, and one
\* that it has holds what the chain holds.
LEMMA UpdateStateInv == Inv /\ UpdateState => Inv'
<1> SUFFICES ASSUME Inv, UpdateState PROVE Inv'
  OBVIOUS
<1> DEFINE b == synced + 1
           trace == Trace(b)
           A == DOMAIN db.accounts
           acc == [a \in A |-> IF a \in db.pools \cap DOMAIN trace
                                 THEN UpdateAllSlots(db, a, trace[a]).accounts[a]
                                 ELSE db.accounts[a]]
<1>1. /\ phase = "run" /\ synced < Tip /\ db' = [db EXCEPT !.accounts = acc] /\ synced' = b
      /\ chain' = chain /\ phase' = phase /\ todo' = todo /\ Tip' = Tip
  BY DEF UpdateState, Tip
<1>2. /\ TypeOK /\ ChainInv /\ StartInv /\ CodeInv(db) /\ QuoterFunded /\ CellsInv
      /\ UpdatesReachPools /\ db \in Databases
  BY DEF Inv, IndInv
<1>3. /\ Tip \in Nat /\ synced \in 1 .. Tip /\ b \in 2 .. Tip /\ b - 1 = synced
      /\ db.pools = Pools
  <2>1. Tip \in 1 .. MaxBlocks /\ synced \in 1 .. Tip /\ db.pools = Pools
    BY <1>1, <1>2 DEF TypeOK
  <2> QED BY <1>1, <2>1
<1> HIDE DEF trace, b
<1>4. /\ A \subseteq Addresses /\ db.accounts \in [A -> Accounts]
      /\ \A a \in A : db.accounts[a].storage \in Maps(SlotsOf(a), Nat)
  BY <1>2, DatabaseParts
<1>5. ASSUME NEW p \in Pools
      PROVE  /\ p \in DOMAIN trace =>
                  /\ trace[p] \in Maps(SlotsOf(p), Nat)
                  /\ \A s \in DOMAIN trace[p] :
                       trace[p][s] = CellOf(p, chain[b][p], s) /\ trace[p][s] # 0
             /\ \A s : ~(p \in DOMAIN trace /\ s \in DOMAIN trace[p]) =>
                  CellOf(p, chain[b][p], s) = CellOf(p, chain[synced][p], s)
  BY <1>3, TraceGives DEF trace
<1>6. ASSUME NEW p \in A, p \in Pools, p \in DOMAIN trace
      PROVE  /\ acc[p] \in Accounts /\ acc[p].info = db.accounts[p].info
             /\ acc[p].storage \in Maps(SlotsOf(p), Nat)
             /\ acc[p].storage = trace[p] @@ db.accounts[p].storage
  <2> DEFINE e == PutSlots(db, p, trace[p])
  <2>1. acc[p] = e.accounts[p]
    BY <1>3, <1>6 DEF UpdateAllSlots, Has
  <2> HIDE DEF acc
  <2>2. trace[p] \in Maps(SlotsOf(p), Nat)
    BY <1>5, <1>6
  <2>3. /\ e \in Databases /\ DOMAIN e.accounts = A
        /\ e.accounts[p].info = db.accounts[p].info
        /\ e.accounts[p].storage = trace[p] @@ db.accounts[p].storage
    BY <1>2, <2>2, PutSlotsGives
  <2> HIDE DEF e
  <2>4. e.accounts[p] \in Accounts /\ e.accounts[p].storage \in Maps(SlotsOf(p), Nat)
    BY <2>3, DatabaseParts
  <2> QED BY <2>1, <2>3, <2>4
<1>7. \A a \in A : ~(a \in Pools /\ a \in DOMAIN trace) => acc[a] = db.accounts[a]
  BY <1>3
<1>8. acc = [a \in A |-> acc[a]]
  OBVIOUS
<1> HIDE DEF acc
<1>9. /\ acc \in [A -> Accounts] /\ DOMAIN acc = A
      /\ \A a \in A : /\ acc[a].info = db.accounts[a].info
                      /\ acc[a].storage \in Maps(SlotsOf(a), Nat)
  <2>1. \A a \in A : /\ acc[a] \in Accounts /\ acc[a].info = db.accounts[a].info
                     /\ acc[a].storage \in Maps(SlotsOf(a), Nat)
    BY <1>4, <1>6, <1>7
  <2> QED BY <1>8, <2>1
<1>10. /\ db' \in Databases /\ db'.accounts = acc /\ db'.pools = Pools
       /\ db'.contracts = db.contracts
  <2>1. db' \in Databases
    BY <1>1, <1>2, <1>4, <1>9, AccountsPut
  <2> QED BY <1>1, <1>2, <1>3, <2>1 DEF Databases
<1>11. TypeOK'
  <2>1. /\ db'.pools \subseteq Pools
        /\ DOMAIN db'.accounts \subseteq Addresses
        /\ \A a \in DOMAIN db'.accounts : AnAccount(a, db'.accounts[a])
        /\ DOMAIN db'.contracts \subseteq Codes
        /\ \A c \in DOMAIN db'.contracts : db'.contracts[c] \in Codes
    BY <1>10, DatabaseOK
  <2>2. synced' \in 1 .. Tip
    BY <1>1, <1>3
  <2> QED BY <1>1, <1>2, <1>10, <2>1, <2>2 DEF TypeOK
<1>12. ChainInv' /\ StartInv'
  BY <1>1, <1>2 DEF ChainInv, StartInv
<1>13. CodeInv(db')
  BY <1>2, <1>9, <1>10 DEF CodeInv, Has
<1>14. UpdatesReachPools'
  BY <1>1, <1>2, <1>3, <1>9, <1>10 DEF UpdatesReachPools, Has
<1>15. QuoterFunded'
  <2>1. \A t \in A \ Pools : acc[t] = db.accounts[t]
    BY <1>7
  <2>2. WarmedUp' = WarmedUp
    BY <1>1 DEF WarmedUp
  <2> QED BY <1>2, <1>9, <1>10, <2>1, <2>2, FundsKept DEF HasSlot, Has
<1>16. CellsInv'
  <2> SUFFICES ASSUME NEW p \in Pools, p \in A
               PROVE  /\ \A s \in DOMAIN acc[p].storage \cap PoolSlots(p) : \E v \in b .. Tip :
                           SameFields(p, s, acc[p].storage[s], CellOf(p, chain[v][p], s))
                      /\ p \in V3Pools =>
                           {Slot0, LiquiditySlot, SpacingSlot} \subseteq DOMAIN acc[p].storage
    BY <1>1, <1>9, <1>10 DEF CellsInv, Has
  <2> DEFINE old == db.accounts[p].storage
             new == acc[p].storage
             Traced(s) == p \in DOMAIN trace /\ s \in DOMAIN trace[p]
  <2>1. /\ DOMAIN old \subseteq DOMAIN new
        /\ \A s \in DOMAIN new : IF Traced(s) THEN new[s] = trace[p][s]
                                 ELSE s \in DOMAIN old /\ new[s] = old[s]
    <3>1. CASE p \in DOMAIN trace
      <4> DEFINE m == trace[p]
      <4>1. new = m @@ old
        BY <1>6, <3>1
      <4> HIDE DEF m, old, new
      <4>2. /\ DOMAIN (m @@ old) = DOMAIN m \cup DOMAIN old
            /\ \A x \in DOMAIN m : (m @@ old)[x] = m[x]
            /\ \A x \in DOMAIN old \ DOMAIN m : (m @@ old)[x] = old[x]
        BY Over
      <4> QED BY <3>1, <4>1, <4>2 DEF m
    <3>2. CASE p \notin DOMAIN trace
      BY <1>7, <3>2
    <3> QED BY <3>1, <3>2
  <2>2. /\ \A s \in DOMAIN old \cap PoolSlots(p) : \E v \in synced .. Tip :
             SameFields(p, s, old[s], CellOf(p, chain[v][p], s))
        /\ p \in V3Pools => {Slot0, LiquiditySlot, SpacingSlot} \subseteq DOMAIN old
    BY <1>2, <1>3 DEF CellsInv, Has
  <2> HIDE DEF old, new
  <2>3. ASSUME NEW s \in DOMAIN new \cap PoolSlots(p)
        PROVE  \E v \in b .. Tip : SameFields(p, s, new[s], CellOf(p, chain[v][p], s))
    <3>1. CASE Traced(s)
      <4> DEFINE x == CellOf(p, chain[b][p], s)
      <4>1. new[s] = x /\ x # 0
        BY <1>5, <2>1, <3>1
      <4> HIDE DEF x
      <4>2. SameFields(p, s, x, x)
        BY <4>1 DEF SameFields
      <4>3. b \in b .. Tip
        BY <1>3
      <4> QED BY <4>1, <4>2, <4>3 DEF x
    <3>2. CASE ~Traced(s)
      <4>1. s \in DOMAIN old /\ new[s] = old[s]
        BY <2>1, <3>2
      <4>2. PICK v \in synced .. Tip : SameFields(p, s, old[s], CellOf(p, chain[v][p], s))
        BY <2>2, <4>1
      <4>3. CASE v = synced
        <5>1. CellOf(p, chain[b][p], s) = CellOf(p, chain[v][p], s)
          BY <1>5, <3>2, <4>3
        <5>2. b \in b .. Tip
          BY <1>3
        <5> QED BY <4>1, <4>2, <5>1, <5>2
      <4>4. CASE v # synced
        <5>1. v \in b .. Tip
          BY <1>3, <4>4
        <5> QED BY <4>1, <4>2, <5>1
      <4> QED BY <4>3, <4>4
    <3> QED BY <3>1, <3>2
  <2> QED BY <2>1, <2>2, <2>3 DEF new
<1> QED BY <1>10, <1>11, <1>12, <1>13, <1>14, <1>15, <1>16 DEF Inv, IndInv

\* What a quote loads of a pool is what the chain holds now.
LEMMA LoadsInv ==
  ASSUME Inv, phase = "run", NEW a \in Addresses, NEW S, Loads(db, db', a, S),
         UNCHANGED <<chain, synced, phase, todo>>
  PROVE  Inv'
<1>1. /\ chain' = chain /\ synced' = synced /\ phase' = phase /\ todo' = todo /\ Tip' = Tip
  BY DEF Tip
<1>2. /\ TypeOK /\ ChainInv /\ StartInv /\ CodeInv(db) /\ QuoterFunded /\ CellsInv
      /\ UpdatesReachPools /\ db \in Databases
  BY DEF Inv, IndInv
<1>3. Tip \in 1 .. MaxBlocks /\ synced \in 1 .. Tip /\ db.pools = Pools
  BY <1>2 DEF TypeOK
<1>4. /\ db' \in Databases /\ CodeInv(db') /\ db'.pools = Pools
      /\ DOMAIN db.accounts \subseteq DOMAIN db'.accounts
      /\ \A b, s : HasSlot(db, b, s) => HasSlot(db', b, s)
      /\ \A b, s : HasSlot(db', b, s) =>
           db'.accounts[b].storage[s] = IF HasSlot(db, b, s) THEN db.accounts[b].storage[s]
                                                             ELSE ChainSlot(b, s)
  BY <1>3 DEF Loads
<1>5. TypeOK'
  <2>1. /\ db'.pools \subseteq Pools
        /\ DOMAIN db'.accounts \subseteq Addresses
        /\ \A b \in DOMAIN db'.accounts : AnAccount(b, db'.accounts[b])
        /\ DOMAIN db'.contracts \subseteq Codes
        /\ \A c \in DOMAIN db'.contracts : db'.contracts[c] \in Codes
    BY <1>4, DatabaseOK
  <2> QED BY <1>1, <1>2, <1>3, <1>4, <2>1 DEF TypeOK
<1>6. ChainInv' /\ StartInv'
  BY <1>1, <1>2 DEF ChainInv, StartInv
<1>7. UpdatesReachPools'
  BY <1>1, <1>2, <1>3, <1>4 DEF UpdatesReachPools, Has
<1>8. QuoterFunded'
  <2>1. WarmedUp' = WarmedUp
    BY <1>1 DEF WarmedUp
  <2> QED BY <1>2, <1>4, <2>1, FundsKept
<1>9. CellsInv'
  <2> SUFFICES ASSUME NEW p \in Pools, Has(db', p)
               PROVE  /\ \A s \in DOMAIN db'.accounts[p].storage \cap PoolSlots(p) : \E v \in synced .. Tip :
                           SameFields(p, s, db'.accounts[p].storage[s], CellOf(p, chain[v][p], s))
                      /\ p \in V3Pools =>
                           {Slot0, LiquiditySlot, SpacingSlot} \subseteq DOMAIN db'.accounts[p].storage
    BY <1>1, <1>4 DEF CellsInv
  <2>1. /\ Has(db, p)
        /\ \A s \in DOMAIN db.accounts[p].storage \cap PoolSlots(p) : \E v \in synced .. Tip :
             SameFields(p, s, db.accounts[p].storage[s], CellOf(p, chain[v][p], s))
        /\ p \in V3Pools =>
             {Slot0, LiquiditySlot, SpacingSlot} \subseteq DOMAIN db.accounts[p].storage
    BY <1>2, <1>3 DEF UpdatesReachPools, CellsInv
  <2>2. p \in V3Pools =>
          {Slot0, LiquiditySlot, SpacingSlot} \subseteq DOMAIN db'.accounts[p].storage
    BY <1>4, <2>1 DEF HasSlot
  <2>3. ASSUME NEW s \in DOMAIN db'.accounts[p].storage \cap PoolSlots(p)
        PROVE  \E v \in synced .. Tip :
                 SameFields(p, s, db'.accounts[p].storage[s], CellOf(p, chain[v][p], s))
    <3>1. HasSlot(db', p, s)
      BY DEF HasSlot
    <3>2. CASE HasSlot(db, p, s)
      <4>1. db'.accounts[p].storage[s] = db.accounts[p].storage[s]
        BY <1>4, <3>1, <3>2
      <4> QED BY <2>1, <3>2, <4>1 DEF HasSlot
    <3>3. CASE ~HasSlot(db, p, s)
      <4> DEFINE x == CellOf(p, chain[Tip][p], s)
      <4>1. db'.accounts[p].storage[s] = x
        BY <1>4, <3>1, <3>3 DEF ChainSlot
      <4>2. s # SpacingSlot
        <5>1. CASE p \in V3Pools
          BY <2>1, <3>3, <5>1 DEF HasSlot
        <5>2. CASE p \in V2Pools
          BY <2>3, <5>2 DEF PoolSlots, SpacingSlot, Token0Slot, Token1Slot, ReservesSlot
        <5> QED BY <5>1, <5>2 DEF Pools
      <4> HIDE DEF x
      <4>3. SameFields(p, s, x, x)
        BY <4>2 DEF SameFields
      <4>4. Tip \in synced .. Tip
        BY <1>3
      <4> QED BY <4>1, <4>3, <4>4 DEF x
    <3> QED BY <3>2, <3>3
  <2> QED BY <2>2, <2>3
<1> QED BY <1>4, <1>5, <1>6, <1>7, <1>8, <1>9 DEF Inv, IndInv

LEMMA QuoteLoadsInv == Inv /\ QuoteLoads => Inv'
<1> SUFFICES ASSUME Inv, QuoteLoads PROVE Inv'
  OBVIOUS
<1>1. phase = "run" /\ UNCHANGED <<chain, synced, phase, todo>>
  BY DEF QuoteLoads
<1>2. PICK a \in Addresses :
        db' = LoadAccount(db, a) \/ \E s \in SlotsOf(a) : db' = LoadSlot(db, a, s)
  BY DEF QuoteLoads
<1>3. db \in Databases /\ CodeInv(db) /\ TypeOK
  BY DEF Inv, IndInv
<1>4. \A s : ChainSlot(a, s) \in Nat
  BY <1>3, ChainSlotType
<1>5. \E S : Loads(db, db', a, S)
  BY <1>2, <1>3, <1>4, LoadAccountLoads, LoadSlotLoads
<1> QED BY <1>1, <1>5, LoadsInv

LEMMA StutterInv == Inv /\ UNCHANGED vars => Inv'
<1> SUFFICES ASSUME Inv, UNCHANGED vars PROVE Inv'
  OBVIOUS
<1>1. /\ db' = db /\ chain' = chain /\ synced' = synced /\ phase' = phase /\ todo' = todo
      /\ Tip' = Tip
  BY DEF vars, Tip
<1>2. /\ TypeOK /\ ChainInv /\ StartInv /\ CodeInv(db) /\ QuoterFunded /\ CellsInv
      /\ UpdatesReachPools /\ db \in Databases
  BY DEF Inv, IndInv
<1>3. TypeOK' /\ ChainInv' /\ StartInv'
  BY <1>1, <1>2 DEF TypeOK, ChainInv, StartInv
<1>4. CodeInv(db') /\ QuoterFunded' /\ CellsInv' /\ UpdatesReachPools'
  BY <1>1, <1>2 DEF QuoterFunded, WarmedUp, CellsInv, UpdatesReachPools
<1> QED BY <1>1, <1>2, <1>3, <1>4 DEF Inv, IndInv

LEMMA Invariance == Spec => []Inv
<1>1. Inv /\ [Next]_vars => Inv'
  BY BlockInv, WarmUpInv, WarmUpPanicsInv, PopulateInv, UpdateStateInv, QuoteLoadsInv,
     StutterInv DEF Next
<1> QED BY InitInv, <1>1, PTL DEF Spec

(***************************************************************************)
(* What the invariant gives.                                               *)
(***************************************************************************)

\* The cells that the calculators read are the pool's own.
LEMMA ReadSlots ==
  ASSUME NEW p \in Pools
  PROVE  /\ p \in V2Pools => {Token0Slot, Token1Slot, ReservesSlot} \subseteq PoolSlots(p)
         /\ p \in V3Pools => {Slot0, LiquiditySlot, Ticks, TickBitmap, SpacingSlot}
                               \subseteq PoolSlots(p)
BY AddressAssumption DEF PoolSlots

\* A cell that is read, from the database or else from the node, has the fields of the
\* chain's once all blocks are applied.
LEMMA CellRead ==
  ASSUME Inv, phase = "run", synced = Tip, NEW p \in Pools,
         NEW s \in PoolSlots(p)
  PROVE  LET x == StorageRef(db, p, s)
             y == CellOf(p, chain[Tip][p], s)
         IN  (~HasSlot(db, p, s) /\ x = y) \/ SameFields(p, s, x, y)
<1>1. TypeOK /\ CellsInv /\ UpdatesReachPools
  BY DEF Inv, IndInv
<1>2. Tip \in 1 .. MaxBlocks /\ db.pools = Pools /\ Has(db, p)
  BY <1>1 DEF TypeOK, UpdatesReachPools
<1>3. CASE HasSlot(db, p, s)
  <2>1. PICK v \in synced .. Tip :
          SameFields(p, s, db.accounts[p].storage[s], CellOf(p, chain[v][p], s))
    BY <1>1, <1>2, <1>3 DEF CellsInv, HasSlot
  <2>2. v = Tip
    BY <1>2
  <2> QED BY <1>3, <2>1, <2>2 DEF StorageRef
<1>4. CASE ~HasSlot(db, p, s)
  BY <1>4 DEF StorageRef, ChainSlot
<1> QED BY <1>3, <1>4

LEMMA V2ReadHolds ==
  ASSUME Inv, phase = "run", synced = Tip, NEW p \in V2Pools
  PROVE  V2Read(p, chain[Tip][p])
<1> DEFINE st == chain[Tip][p]
           x == StorageRef(db, p, ReservesSlot)
           y == CellOf(p, st, ReservesSlot)
<1>1. p \in Pools /\ st \in PoolStates[p]
  <2>1. Tip \in 1 .. Tip
    <3>1. Tip \in 1 .. MaxBlocks
      BY DEF Inv, IndInv, TypeOK
    <3> QED BY <3>1
  <2> QED BY <2>1 DEF Inv, IndInv, TypeOK, Pools
<1>2. y % Reserve = st.r0 /\ (y \div Reserve) % Reserve = st.r1
  BY <1>1, V2Fields
<1>3. x = y \/ SameFields(p, ReservesSlot, x, y)
  BY <1>1, ReadSlots, CellRead
<1>4. StorageRef(db, p, Token0Slot) = Word[Token0[p]]
      /\ StorageRef(db, p, Token1Slot) = Word[Token1[p]]
  <2>1. /\ CellOf(p, st, Token0Slot) = Word[Token0[p]]
        /\ CellOf(p, st, Token1Slot) = Word[Token1[p]]
    BY <1>1, V2Cells
  <2>2. {Token0Slot, Token1Slot} \cap {ReservesSlot, Slot0, Ticks, SpacingSlot} = {}
    BY SlotsDiffer
  <2> HIDE DEF st
  <2>3. \A s \in {Token0Slot, Token1Slot} : StorageRef(db, p, s) = CellOf(p, st, s)
    <3>1. ASSUME NEW s \in {Token0Slot, Token1Slot}
          PROVE  StorageRef(db, p, s) = CellOf(p, st, s)
      <4>1. s \notin {ReservesSlot, Slot0, Ticks, SpacingSlot}
        BY <2>2, <3>1
      <4>2. StorageRef(db, p, s) = CellOf(p, st, s)
            \/ SameFields(p, s, StorageRef(db, p, s), CellOf(p, st, s))
        BY <1>1, ReadSlots, CellRead DEF st
      <4> QED BY <4>1, <4>2 DEF SameFields
    <3> QED BY <3>1
  <2> QED BY <2>1, <2>3
<1> HIDE DEF st, x, y
<1>5. x % Reserve = st.r0 /\ (x \div Reserve) % Reserve = st.r1
  BY <1>2, <1>3 DEF SameFields
<1>6. GetReserves(db, p) = <<st.r0, st.r1>>
  BY <1>5 DEF GetReserves, x
<1> QED BY <1>4, <1>6 DEF V2Read, st

LEMMA V3ReadHolds ==
  ASSUME Inv, phase = "run", synced = Tip, NEW p \in V3Pools
  PROVE  V3Read(p, chain[Tip][p])
<1> DEFINE st == chain[Tip][p]
           Cell(s) == StorageRef(db, p, s)
           slot == Cell(Slot0)
           ticks == Cell(Ticks)
           slotNow == CellOf(p, st, Slot0)
           ticksNow == CellOf(p, st, Ticks)
<1>1. p \in Pools /\ st \in PoolStates[p]
  <2>1. Tip \in 1 .. Tip
    <3>1. Tip \in 1 .. MaxBlocks
      BY DEF Inv, IndInv, TypeOK
    <3> QED BY <3>1
  <2> QED BY <2>1 DEF Inv, IndInv, TypeOK, Pools
<1>2. /\ slotNow % Price = st.price
      /\ (slotNow \div Price) % Tick = Unsigned(st.tick, Tick)
      /\ ticksNow \div Liquidity = Unsigned(st.net, Liquidity)
  BY <1>1, V3Fields
<1>3. /\ {Slot0, LiquiditySlot, SpacingSlot} \subseteq DOMAIN db.accounts[p].storage
      /\ Has(db, p)
  BY <1>1 DEF Inv, IndInv, CellsInv, UpdatesReachPools, TypeOK
<1>4. /\ db.accounts[p].storage[Slot0] = slot
      /\ db.accounts[p].storage[LiquiditySlot] = Cell(LiquiditySlot)
      /\ db.accounts[p].storage[SpacingSlot] = Cell(SpacingSlot)
  BY <1>3 DEF StorageRef, HasSlot
<1>5. /\ slot = slotNow \/ SameFields(p, Slot0, slot, slotNow)
      /\ ticks = ticksNow \/ SameFields(p, Ticks, ticks, ticksNow)
  BY <1>1, ReadSlots, CellRead
<1>6. Cell(LiquiditySlot) = st.liquidity /\ Cell(TickBitmap) = st.bitmap
  <2>1. CellOf(p, st, LiquiditySlot) = st.liquidity /\ CellOf(p, st, TickBitmap) = st.bitmap
    BY <1>1, V3Cells
  <2>2. {LiquiditySlot, TickBitmap} \cap {ReservesSlot, Slot0, Ticks, SpacingSlot} = {}
    BY SlotsDiffer
  <2> HIDE DEF st, slot, ticks, slotNow, ticksNow
  <2>3. ASSUME NEW s \in {LiquiditySlot, TickBitmap} PROVE Cell(s) = CellOf(p, st, s)
    <3>1. s \notin {ReservesSlot, Slot0, Ticks, SpacingSlot}
      BY <2>2, <2>3
    <3>2. Cell(s) = CellOf(p, st, s) \/ SameFields(p, s, Cell(s), CellOf(p, st, s))
      BY <1>1, ReadSlots, CellRead DEF st
    <3> QED BY <3>1, <3>2 DEF SameFields
  <2> QED BY <2>1, <2>3
<1>7. /\ st.liquidity \in 0 .. Liquidity - 1 /\ Liquidity \in Nat \ {0} /\ Tick \in Nat \ {0}
      /\ Tick % 2 = 0 /\ Liquidity % 2 = 0
      /\ st.tick \in -(Tick \div 2) .. Tick \div 2 - 1
      /\ st.net \in -(Liquidity \div 2) .. Liquidity \div 2 - 1
      /\ Spacing[p] \in 0 .. MaxSpacing /\ MaxSpacing \in Nat
  BY <1>1, V3Cells, WidthAssumption, StatesAssumption
<1>8. GetLiquidity(db, p) = st.liquidity
  <2>1. Saturated(st.liquidity, Liquidity - 1) = st.liquidity
    BY <1>7 DEF Saturated
  <2> QED BY <1>4, <1>6, <2>1 DEF GetLiquidity
<1>9. st.observation = 0 => GetTickSpacing(db, p) = Spacing[p]
  <2>1. HasSlot(db, p, SpacingSlot)
    BY <1>3 DEF HasSlot
  <2>2. SameFields(p, SpacingSlot, Cell(SpacingSlot), CellOf(p, st, SpacingSlot))
    BY <1>1, <2>1, ReadSlots, CellRead
  <2>3. CellOf(p, st, SpacingSlot) = st.observation
    BY <1>1, V3Cells
  <2>4. st.observation = 0 => Cell(SpacingSlot) = Spacing[p]
    BY <2>2, <2>3 DEF SameFields
  <2>5. Saturated(Spacing[p], MaxSpacing) = Spacing[p]
    BY <1>7 DEF Saturated
  <2> QED BY <1>4, <2>4, <2>5 DEF GetTickSpacing
<1>10. /\ Signed(Unsigned(st.tick, Tick), Tick) = st.tick
       /\ Signed(Unsigned(st.net, Liquidity), Liquidity) = st.net
  BY <1>7, SignedUnsigned
<1> HIDE DEF st, Cell, slot, ticks, slotNow, ticksNow
<1>11. slot % Price = st.price /\ (slot \div Price) % Tick = Unsigned(st.tick, Tick)
  BY <1>2, <1>5 DEF SameFields
<1>12. ticks \div Liquidity = Unsigned(st.net, Liquidity)
  BY <1>2, <1>5 DEF SameFields
<1>13. GetSlot0(db, p) = [price |-> st.price, tick |-> st.tick]
  BY <1>4, <1>10, <1>11 DEF GetSlot0
<1>14. TicksLiquidityNet(db, p) = st.net
  BY <1>10, <1>12 DEF TicksLiquidityNet, ticks, Cell
<1> QED BY <1>6, <1>8, <1>9, <1>13, <1>14 DEF V3Read, st, Cell

(***************************************************************************)
(* The theorems.                                                           *)
(***************************************************************************)

\* The database has the accounts, codes and cells it may have, and the tracked pools
\* are those that start-up has gone through.
THEOREM TypeCorrect == Spec => []TypeOK
<1>1. Inv => TypeOK
  BY DEF Inv, IndInv
<1> QED BY <1>1, Invariance, PTL

\* When the updater has caught up, get_reserves, slot0, liquidity, tick_spacing,
\* ticks_liquidity_net and the words of the tick bitmap read each pool's state on the
\* chain, whichever of snapshot, traces and node its cells come from.
THEOREM ReadsAreCurrent == Spec => []PoolsRead
<1>1. Inv => PoolsRead
  BY V2ReadHolds, V3ReadHolds DEF PoolsRead
<1> QED BY <1>1, Invariance, PTL

\* commit moves code from accounts to contracts and never loses it.
THEOREM CodeIsKept == Spec => []CodeKnown
<1>1. Inv => CodeKnown
  BY CodeFound DEF Inv, IndInv, CodeKnown, CodeAt
<1> QED BY <1>1, Invariance, PTL

\* The balance and the approval of warm-up outlive population, updates and quotes, of the
\* tokens that are no pools and keep balances in the cell that the program writes.
THEOREM FundsStay == Spec => []QuoterFunded
<1>1. Inv => QuoterFunded
  BY DEF Inv, IndInv
<1> QED BY <1>1, Invariance, PTL

\* No tracked pool is out of reach of update_all_slots.
THEOREM TrackedPoolsUpdated == Spec => []UpdatesReachPools
<1>1. Inv => UpdatesReachPools
  BY DEF Inv, IndInv
<1> QED BY <1>1, Invariance, PTL
=============================================================================

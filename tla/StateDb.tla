------------------------------ MODULE StateDb ------------------------------
(***************************************************************************)
(* BlockStateDB (blockstate_db.rs, v2_db.rs, v3_db.rs): the accounts, code *)
(* and storage cells the bot simulates on, from start-up (warm_up_database *)
(* and populate_db_with_pools of market_state.rs) to block updates and the *)
(* reads of the EVM.  MarketState follows single cells through the block   *)
(* stream; here a pool's state goes through its cells and comes back.      *)
(*                                                                         *)
(* Left out because nothing reads them: insertion types, account states,   *)
(* nonces and balances of accounts, block hashes.  A hash is the code.  Of *)
(* the tokens only the cells that start-up writes or means to write are    *)
(* here; on the chain they are zero.  A pool may itself be a token: a V2   *)
(* pair is one, of its shares.                                             *)
(***************************************************************************)
EXTENDS Integers, Sequences

CONSTANTS
  V2Pools, V3Pools, \* the pools
  Tokens,     \* the token contracts, pools among them
  BalanceSlot, \* for each token, the cell where it really keeps Account's balance
  Account,    \* the account that quotes are made from
  Quoter,     \* the address that the quoter's code is put at
  Token0,     \* for each pool, its first token
  Token1,     \* for each pool, its second token
  Word,       \* a token's address, as a cell holds it
  Spacing,    \* for each V3 pool, its tick spacing
  PoolStates, \* for each pool, the states it may have (see Cells)
  Code,       \* for each address, its code on the chain
  QuoterCode, \* FlashQuoter's
  EmptyCode,  \* the code of an address without code
  NoCode,     \* the code of an account of which only the hash is kept
  Reserve,    \* 2^112: reserves are below
  Price,      \* 2^160: prices are below
  Tick,       \* 2^24: ticks are signed numbers of this width
  Liquidity,  \* 2^128: liquidity is below, net liquidity signed of this width
  MaxSpacing, \* the largest i32
  MaxBlocks   \* bound: blocks of the chain

Pools     == V2Pools \cup V3Pools
Addresses == Pools \cup Tokens \cup {Account, Quoter}
Codes     == {Code[a] : a \in Addresses} \cup {QuoterCode, EmptyCode}
TenUnits  == 10   \* ten_units
Approved  == 1    \* the quoter's allowance
Unlocked  == 8    \* the fields of slot0 above the tick, with unlocked alone set

\* The storage cells.  Mappings are hashed: Ticks and TickBitmap stand for the cell of
\* one key of theirs, AllowanceSlot for Account's.  balance_slot is the one cell that the
\* program writes for every token: Account's in the mapping at slot 3, which is the
\* token's balances or is not.
Slot0         == 0
LiquiditySlot == 4
Ticks         == 5
Token0Slot    == 6
Token1Slot    == 7
ReservesSlot  == 8
SpacingSlot   == 14
TickBitmap    == 16
balance_slot  == 3
AllowanceSlot == 13
PoolSlots(a)  == IF a \in V2Pools THEN {Token0Slot, Token1Slot, ReservesSlot}
                 ELSE IF a \in V3Pools
                   THEN {Slot0, LiquiditySlot, Ticks, TickBitmap, SpacingSlot} ELSE {}
TokenSlots(a) == IF a \in Tokens THEN {balance_slot, BalanceSlot[a], AllowanceSlot} ELSE {}
SlotsOf(a)    == PoolSlots(a) \cup TokenSlots(a)

ASSUME AddressAssumption ==
  /\ Pools # {} /\ V2Pools \cap V3Pools = {}
  /\ BalanceSlot \in [Tokens -> Nat \ {AllowanceSlot}]
  /\ Token0 \in [Pools -> Tokens] /\ Token1 \in [Pools -> Tokens] /\ Word \in [Tokens -> Nat]
  /\ Account \notin Pools \cup Tokens /\ Code[Account] = EmptyCode
  /\ Quoter \notin Pools \cup Tokens \cup {Account}
  /\ NoCode \notin Codes
ASSUME WidthAssumption ==
  /\ {Reserve, Price, Tick, Liquidity, MaxSpacing} \subseteq Nat \ {0}
  /\ Tick % 2 = 0 /\ Liquidity % 2 = 0 /\ MaxBlocks \in Nat \ {0}

\* What a pool's contract can hold: fields within their widths, and no net liquidity
\* at a tick that no position refers to.
ASSUME StatesAssumption ==
  /\ Spacing \in [V3Pools -> 0 .. MaxSpacing]
  /\ \A p \in V2Pools : PoolStates[p] \subseteq
       [r0 : 0 .. Reserve - 1, r1 : 0 .. Reserve - 1, timestamp : Nat]
  /\ \A p \in V3Pools : PoolStates[p] \subseteq
       [price : 0 .. Price - 1, tick : -(Tick \div 2) .. Tick \div 2 - 1, fields : Nat,
        liquidity : 0 .. Liquidity - 1, gross : 0 .. Liquidity - 1,
        net : -(Liquidity \div 2) .. Liquidity \div 2 - 1, bitmap : Nat, observation : Nat]
  /\ \A p \in V3Pools : \A st \in PoolStates[p] : st.gross = 0 => st.net = 0

VARIABLES
  db,     \* the BlockStateDB: its pools, accounts and contracts
  chain,  \* for each block since the snapshot, the states of the pools
  synced, \* the last block applied to db, of chain
  phase,  \* "warm up", "populate", "run" or "panicked"
  todo    \* the pools the phase has still to go through

vars == <<db, chain, synced, phase, todo>>

Tip == Len(chain)

\* Maps, as in the module TLC: one entry, and the entries of f laid over those of g.
k :> v == [x \in {k} |-> v]
f @@ g == [x \in DOMAIN f \cup DOMAIN g |-> IF x \in DOMAIN f THEN f[x] ELSE g[x]]

-----------------------------------------------------------------------------
(* How a pool's state is laid out in cells: on the chain, *)

Unsigned(n, width) == n % width

\* The contracts' own layout.  A cell of zero is no cell.  The seventh observation of a
\* V3 pool lies where the database keeps the tick spacing.
Cells(p, st) ==
  LET all == IF p \in V2Pools
               THEN ReservesSlot :> st.r0 + st.r1 * Reserve + st.timestamp * Reserve * Reserve @@
                    Token0Slot :> Word[Token0[p]] @@ Token1Slot :> Word[Token1[p]]
               ELSE Slot0 :> st.price + Unsigned(st.tick, Tick) * Price + st.fields * Price * Tick @@
                    LiquiditySlot :> st.liquidity @@
                    Ticks :> st.gross + Unsigned(st.net, Liquidity) * Liquidity @@
                    TickBitmap :> st.bitmap @@ SpacingSlot :> st.observation
  IN  [s \in {c \in DOMAIN all : all[c] # 0} |-> all[s]]
CellOf(p, st, s) == IF s \in DOMAIN Cells(p, st) THEN Cells(p, st)[s] ELSE 0

(* and as insert_v2 and insert_v3 write them from the snapshot of pool_sync. *)

PackedReserves(r0, r1) == r1 * Reserve + r0
PackedSlot0(price, tick) ==
  price + Unsigned(tick, Tick) * Price + Unlocked * Price * Tick
PackedNet(net) == Unsigned(net, Liquidity) * Liquidity

InsertedCells(p, st) ==
  IF p \in V2Pools
    THEN ReservesSlot :> PackedReserves(st.r0, st.r1) @@
         Token0Slot :> Word[Token0[p]] @@ Token1Slot :> Word[Token1[p]]
    ELSE Slot0 :> PackedSlot0(st.price, st.tick) @@
         LiquiditySlot :> st.liquidity @@ SpacingSlot :> Spacing[p] @@
         (IF st.gross # 0 THEN Ticks :> PackedNet(st.net) ELSE <<>>) @@
         (IF st.bitmap # 0 THEN TickBitmap :> st.bitmap ELSE <<>>)

-----------------------------------------------------------------------------
(* The operations of BlockStateDB, from database to database.  A request that  *)
(* fails returns before it has changed anything, except where noted.           *)

\* What the node answers, as of its latest block.
BasicRef(a)     == [code |-> Code[a], hash |-> Code[a]]
ChainSlot(a, s) == IF a \in Pools THEN CellOf(a, chain[Tip][a], s) ELSE 0

Has(d, a)        == a \in DOMAIN d.accounts
HasSlot(d, a, s) == Has(d, a) /\ s \in DOMAIN d.accounts[a].storage
PutSlots(d, a, slots) == [d EXCEPT !.accounts[a].storage = slots @@ @]

InsertAccountInfo(d, a, info) ==
  [d EXCEPT !.accounts = (a :> [info |-> info, storage |-> <<>>]) @@ @]

\* basic, when the node answers.
Basic(d, a) == IF Has(d, a) THEN d ELSE InsertAccountInfo(d, a, BasicRef(a))

\* code_by_hash: unknown code is empty code from then on.
CodeByHash(d, hash) ==
  IF hash \in DOMAIN d.contracts THEN d ELSE [d EXCEPT !.contracts = (hash :> EmptyCode) @@ @]

StorageRef(d, a, s) ==
  IF HasSlot(d, a, s) THEN d.accounts[a].storage[s] ELSE ChainSlot(a, s)

StorageRefetched(d, a, s) ==   \* mutant: does not look into the cache
  PutSlots(Basic(d, a), a, s :> ChainSlot(a, s))
Storage(d, a, s) ==
  IF HasSlot(d, a, s) THEN d ELSE PutSlots(Basic(d, a), a, s :> ChainSlot(a, s))

InsertAccountStorage(d, a, s, value) == PutSlots(Basic(d, a), a, s :> value)

UpdateAllSlots(d, a, slots) == IF Has(d, a) THEN PutSlots(d, a, slots) ELSE d

\* add_pool tracks the pool even if the node does not answer.
AddPoolUntracked(d, p, answered) ==   \* mutant: an account like any other
  IF answered THEN InsertAccountInfo(d, p, BasicRef(p)) ELSE d
AddPool(d, p, answered) ==
  LET tracked == [d EXCEPT !.pools = @ \cup {p}]
  IN  IF answered THEN InsertAccountInfo(tracked, p, BasicRef(p)) ELSE tracked

\* commit: changes gives, for each account a transaction has loaded, what became of
\* it.  The code moves from the account to contracts.
CommitDropsCode(d, changes) ==   \* mutant: the code is taken and not kept
  LET touched == {a \in DOMAIN changes : changes[a].touched}
  IN  [pools |-> d.pools, contracts |-> d.contracts,
       accounts |-> [a \in touched |->
         [info    |-> [code |-> NoCode, hash |-> changes[a].info.hash],
          storage |-> changes[a].storage @@ (IF Has(d, a) THEN d.accounts[a].storage ELSE <<>>)]]
         @@ d.accounts]
Commit(d, changes) ==
  LET touched   == {a \in DOMAIN changes : changes[a].touched}
      destroyed == {a \in touched : changes[a].destroyed}
      code      == {changes[a].info.code : a \in touched \ destroyed} \ {EmptyCode, NoCode}
      Kept(a)   == IF Has(d, a) /\ ~changes[a].created THEN d.accounts[a].storage ELSE <<>>
  IN  [pools     |-> d.pools,
       contracts |-> [c \in code |-> c] @@ d.contracts,
       accounts  |->
         [a \in touched |->
            IF a \in destroyed
              THEN [info |-> [code |-> NoCode, hash |-> EmptyCode], storage |-> <<>>]
              ELSE [info |-> [code |-> NoCode, hash |-> changes[a].info.hash],
                    storage |-> changes[a].storage @@ Kept(a)]] @@ d.accounts]

\* How the EVM sees an account: by its info, and by hash if that has no code.
CodeOf(d, a) ==
  LET info == d.accounts[a].info
  IN  IF info.code # NoCode THEN info.code
      ELSE IF info.hash \in DOMAIN d.contracts THEN d.contracts[info.hash] ELSE EmptyCode
LoadAccount(d, a) ==
  LET e == Basic(d, a)
  IN  IF e.accounts[a].info.code = NoCode THEN CodeByHash(e, e.accounts[a].info.hash) ELSE e
LoadSlot(d, a, s) == Storage(LoadAccount(d, a), a, s)

-----------------------------------------------------------------------------
(* The readers of v2_db.rs and v3_db.rs. *)

GetReserves(d, p) ==
  LET v == StorageRef(d, p, ReservesSlot)
  IN  <<v % Reserve, (v \div Reserve) % Reserve>>

SignedAsIs(n, width) == n   \* mutant: the sign is lost
Signed(n, width) == IF n >= width \div 2 THEN n - width ELSE n

GetSlot0(d, p) ==
  LET cell == d.accounts[p].storage[Slot0]
  IN  [price |-> cell % Price, tick |-> Signed((cell \div Price) % Tick, Tick)]

\* u128 and i32 saturate.
Saturated(n, largest) == IF n > largest THEN largest ELSE n
GetLiquidity(d, p)      == Saturated(d.accounts[p].storage[LiquiditySlot], Liquidity - 1)
GetTickSpacing(d, p)    == Saturated(d.accounts[p].storage[SpacingSlot], MaxSpacing)
TicksLiquidityNet(d, p) == Signed(StorageRef(d, p, Ticks) \div Liquidity, Liquidity)

-----------------------------------------------------------------------------
(* The program. *)

NewDb == [pools |-> {}, accounts |-> <<>>, contracts |-> EmptyCode :> EmptyCode]

Init ==
  /\ db = InsertAccountInfo(NewDb, Quoter, [code |-> QuoterCode, hash |-> QuoterCode])
  /\ \E st \in [Pools -> UNION {PoolStates[p] : p \in Pools}] :
       /\ \A p \in Pools : st[p] \in PoolStates[p]
       /\ chain = <<st>>
  /\ synced = 1
  /\ phase = "warm up" /\ todo = Pools

\* A block changes a pool.  (A cell that is cleared does not show up in a trace: see
\* AllChangesApplied in MarketState.)
Block ==
  /\ Tip < MaxBlocks
  /\ \E p \in Pools : \E st \in PoolStates[p] :
       /\ DOMAIN Cells(p, chain[Tip][p]) \subseteq DOMAIN Cells(p, st)
       /\ chain' = Append(chain, [chain[Tip] EXCEPT ![p] = st])
  /\ UNCHANGED <<db, synced, phase, todo>>

\* The transaction that approves the quoter, by what it loads and what it changes.
ApproveChanges(d, token) ==
  LET Change(a, slots) == [touched |-> TRUE, created |-> FALSE, destroyed |-> FALSE,
                           info |-> [code |-> CodeOf(d, a), hash |-> d.accounts[a].info.hash],
                           storage |-> slots]
  IN  Account :> Change(Account, <<>>) @@ token :> Change(token, AllowanceSlot :> Approved)

\* warm_up_database for one pool: a balance for the account, and its approval.  (The
\* quote that follows is encoded twice over, so that the quoter has no function for it:
\* it loads nothing but the quoter, which is there.)
WarmUp ==
  /\ phase = "warm up"
  /\ \E p \in todo :
       LET funded == InsertAccountStorage(db, Token0[p], balance_slot, TenUnits)
           loaded == LoadSlot(LoadAccount(funded, Account), Token0[p], AllowanceSlot)
       IN  /\ db' = Commit(loaded, ApproveChanges(loaded, Token0[p]))
           /\ IF todo = {p} THEN phase' = "populate" /\ todo' = Pools
                            ELSE phase' = phase /\ todo' = todo \ {p}
  /\ UNCHANGED <<chain, synced>>

\* populate_db_with_pools for one pool, whose account add_pool puts in the place of what
\* there is of it.  The insertions unwrap the account.
PopulateAnyway ==   \* mutant: goes on without the account
  /\ phase = "populate"
  /\ \E p \in todo, answered \in BOOLEAN :
       /\ db' = UpdateAllSlots(AddPool(db, p, answered), p, InsertedCells(p, chain[1][p]))
       /\ todo' = todo \ {p}
       /\ phase' = IF todo = {p} THEN "run" ELSE phase
  /\ UNCHANGED <<chain, synced>>
Populate ==
  /\ phase = "populate"
  /\ \E p \in todo, answered \in BOOLEAN :
       LET added == AddPool(db, p, answered)
       IN  IF Has(added, p)
             THEN /\ db' = PutSlots(added, p, InsertedCells(p, chain[1][p]))
                  /\ todo' = todo \ {p}
                  /\ phase' = IF todo = {p} THEN "run" ELSE phase
             ELSE db' = added /\ phase' = "panicked" /\ UNCHANGED todo
  /\ UNCHANGED <<chain, synced>>

\* A request fails during warm-up.
WarmUpPanics ==
  /\ phase = "warm up"
  /\ phase' = "panicked"
  /\ UNCHANGED <<db, chain, synced, todo>>

\* The updater applies the trace of the next block: the cells that it changed, of
\* the pools that are tracked.  Each frame writes to the account of its own pool.
Trace(b) ==
  [p \in {q \in Pools : chain[b][q] # chain[b - 1][q]} |->
     LET now == Cells(p, chain[b][p])
         was == Cells(p, chain[b - 1][p])
     IN  [s \in {c \in DOMAIN now : c \notin DOMAIN was \/ now[c] # was[c]} |-> now[s]]]
UpdateState ==
  /\ phase = "run" /\ synced < Tip
  /\ LET trace == Trace(synced + 1)
     IN  db' = [db EXCEPT !.accounts =
                  [a \in DOMAIN db.accounts |->
                     IF a \in db.pools \cap DOMAIN trace
                       THEN UpdateAllSlots(db, a, trace[a]).accounts[a] ELSE db.accounts[a]]]
  /\ synced' = synced + 1
  /\ UNCHANGED <<chain, phase, todo>>

\* A quote, which is never committed, loads an account and, unless the request for
\* it fails, a cell.
QuoteLoads ==
  /\ phase = "run"
  /\ \E a \in Addresses :
       db' = LoadAccount(db, a) \/ \E s \in SlotsOf(a) : db' = LoadSlot(db, a, s)
  /\ UNCHANGED <<chain, synced, phase, todo>>

Next == \/ Block \/ WarmUp \/ WarmUpPanics \/ Populate \/ UpdateState \/ QuoteLoads

Spec == Init /\ [][Next]_vars

-----------------------------------------------------------------------------
(* Properties. *)

AnAccount(a, account) ==
  /\ account.info \in [code : Codes \cup {NoCode}, hash : Codes]
  /\ DOMAIN account.storage \subseteq SlotsOf(a)
  /\ \A s \in DOMAIN account.storage : account.storage[s] \in Nat

\* Type invariant: the tracked pools are those that start-up has gone through.
TypeOK ==
  /\ db.pools \subseteq Pools
  /\ DOMAIN db.accounts \subseteq Addresses
  /\ \A a \in DOMAIN db.accounts : AnAccount(a, db.accounts[a])
  /\ DOMAIN db.contracts \subseteq Codes
  /\ \A c \in DOMAIN db.contracts : db.contracts[c] \in Codes
  /\ Tip \in 1 .. MaxBlocks /\ synced \in 1 .. Tip
  /\ \A b \in 1 .. Tip : \A p \in Pools : chain[b][p] \in PoolStates[p]
  /\ phase \in {"warm up", "populate", "run", "panicked"}
  /\ todo \subseteq Pools
  /\ phase = "warm up"  => todo # {} /\ db.pools = {}
  /\ phase = "populate" => todo # {} /\ db.pools = Pools \ todo
  /\ phase = "run"      => todo = {} /\ db.pools = Pools

\* With all blocks applied, what the calculators read of a pool is its state on the
\* chain, whether the cells come from the snapshot, from traces or from the node, and
\* whatever else their words hold.
V2Read(p, st) ==
  /\ GetReserves(db, p) = <<st.r0, st.r1>>
  /\ StorageRef(db, p, Token0Slot) = Word[Token0[p]]
  /\ StorageRef(db, p, Token1Slot) = Word[Token1[p]]
V3Read(p, st) ==
  /\ GetSlot0(db, p) = [price |-> st.price, tick |-> st.tick]
  /\ GetLiquidity(db, p) = st.liquidity
  /\ TicksLiquidityNet(db, p) = st.net
  /\ StorageRef(db, p, TickBitmap) = st.bitmap
  /\ st.observation = 0 => GetTickSpacing(db, p) = Spacing[p]
PoolsRead ==
  phase = "run" /\ synced = Tip =>
    /\ \A p \in V2Pools : V2Read(p, chain[Tip][p])
    /\ \A p \in V3Pools : V3Read(p, chain[Tip][p])

\* The EVM finds the code of every account, after commits have moved it away from the
\* accounts: a token without code would answer any call, and any quote.
CodeKnown ==
  \A a \in DOMAIN db.accounts : CodeOf(db, a) = IF a = Quoter THEN QuoterCode ELSE Code[a]

\* A quote begins with the quoter taking WETH from the account.  What warm-up wrote for
\* that, a balance and an allowance in the first token of every pool, is still there
\* when the pools have been added, whatever is loaded or updated later.  It is not so of
\* every token: one that keeps its balances elsewhere than in the mapping at slot 3,
\* where WETH has them, never gets the balance, and one that is
\* itself a pool loses both when add_pool replaces its account.
WarmedUp == IF phase = "warm up" THEN Pools \ todo
            ELSE IF phase = "panicked" THEN {} ELSE Pools
QuoterFunded ==
  \A t \in {Token0[p] : p \in WarmedUp} \ Pools :
    BalanceSlot[t] = balance_slot =>
      /\ HasSlot(db, t, BalanceSlot[t]) /\ HasSlot(db, t, AllowanceSlot)
      /\ db.accounts[t].storage[BalanceSlot[t]] = TenUnits
      /\ db.accounts[t].storage[AllowanceSlot] = Approved

\* A pool that is tracked has an account to be updated: update_all_slots says nothing
\* when there is none, and the pool would be announced as touched all the same.
UpdatesReachPools == phase # "panicked" => \A p \in db.pools : Has(db, p)

=============================================================================

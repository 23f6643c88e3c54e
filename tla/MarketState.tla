---------------------------- MODULE MarketState ----------------------------
(***************************************************************************)
(* The market state of the bot (market_state.rs), the block stream that    *)
(* feeds it (stream.rs, ignition.rs) and the database it keeps             *)
(* (state_db/blockstate_db.rs).                                            *)
(*                                                                         *)
(* A storage slot of an account is a "cell", and its value the fields of   *)
(* the slot that the pool sync knows.  The database caches cells;          *)
(* the updater task overwrites the cells of tracked pools from the traces  *)
(* of new blocks, every other reader fills a missing cell from the node at *)
(* its latest block.  Block 0 is the block the pools were synced to before *)
(* the workers start (last_synced_block of start_workers).                 *)
(***************************************************************************)
EXTENDS Integers, Sequences

CONSTANTS
  Cells,        \* the (account, slot) pairs
  Owner,        \* the account of each cell
  Pools,        \* the accounts tracked by the database
  Populated,    \* the cells insert_v2 / insert_v3 write at start-up
  Values,       \* values of a slot
  Zero,         \* the value of a cleared slot
  None,         \* a cell the database does not hold
  Genesis,      \* the chain's cells at block 0
  Bodies,       \* the bodies a block may have: sequences of transaction diffs
  MaxBlocks,    \* bound: blocks mined in a behaviour
  Capacity,     \* slots of the broadcast channel
  TraceFaults   \* whether the node may fail to trace single transactions

Diffs == UNION {[D -> Values] : D \in SUBSET Cells}

TrackedAll == Cells                    \* mutant: no tracking_pool test
Tracked == {c \in Cells : Owner[c] \in Pools}

ASSUME CellsAssumption ==
  /\ Populated \subseteq Tracked
  /\ Zero \in Values
  /\ None \notin Values
  /\ Genesis \in [Cells -> Values]
ASSUME BodiesAssumption == Bodies \subseteq Seq(Diffs)
ASSUME BoundsAssumption ==
  /\ MaxBlocks \in Nat
  /\ Capacity \in Nat \ {0}
  /\ TraceFaults \in BOOLEAN

VARIABLES
  chain,          \* the mined blocks: their diffs and the state after them
  stream,         \* state of the stream_new_blocks task
  next_header,    \* number of the next header its subscription delivers
  feed,           \* headers sent on the broadcast channel
  pos,            \* how many of them the updater's receiver has consumed
  pc,             \* where the updater task is
  last_synced,    \* last_synced_block
  current_block,  \* the head last read by the catch-up loop
  block,          \* block being processed (block_num, block_number)
  updated_pools,  \* result of update_state, until it is sent
  db,             \* the cached cells
  caught_up,      \* the flag main spins on
  main,           \* "spin" until main sees the flag
  address_tx,     \* history: the PoolsTouched events sent to the searcher
  applied         \* history: blocks applied to the database, and the
                  \* transactions whose traces were

chainVars == <<chain, stream, next_header, feed>>
loopVars  == <<last_synced, current_block, block>>
dbVars    == <<db, applied, updated_pools>>
startVars  == <<caught_up, main>>
vars == <<chain, stream, next_header, feed, pc, pos, last_synced, current_block,
          block, updated_pools, db, caught_up, main, address_tx, applied>>

Tip == Len(chain)

-----------------------------------------------------------------------------
(* State diffs. *)

\* The transactions among txs of which the diff holds cell c.
Writers(txs, among, c) == {i \in among : c \in DOMAIN txs[i]}

Latest(S) == CHOOSE i \in S : \A j \in S : j <= i

\* The diffs of the transactions in "among", laid over base in their order.
Overlay(base, txs, among) ==
  [c \in Cells |-> LET W == Writers(txs, among, c)
                   IN  IF W = {} THEN base[c] ELSE txs[Latest(W)][c]]

\* The cells of the chain after block b.
StateAt(b) == IF b = 0 THEN Genesis ELSE chain[b].post

\* What the pre-state tracer reports of a transaction: the post frame of a
\* diff has no entry for a slot that was cleared.
Post(diff) == [c \in {d \in DOMAIN diff : diff[d] # Zero} |-> diff[c]]
PostFrames(b) == [i \in DOMAIN chain[b].txs |-> Post(chain[b].txs[i])]

-----------------------------------------------------------------------------
Init ==
  /\ chain = <<>>
  /\ stream = "connecting" /\ next_header = 0
  /\ feed = <<>> /\ pos = 0
  /\ pc = "init"
  /\ last_synced = 0 /\ current_block = 0 /\ block = 0
  /\ updated_pools = {}
  /\ db = [c \in Cells |-> None]
  /\ caught_up = FALSE /\ main = "spin"
  /\ address_tx = <<>>
  /\ applied = <<>>

-----------------------------------------------------------------------------
(* The chain and the block stream. *)

\* A diff records the cells a transaction changed, never a write that left
\* the cell as it was.
Mine ==
  /\ Tip < MaxBlocks
  /\ \E txs \in Bodies :
       /\ \A i \in DOMAIN txs : \A c \in DOMAIN txs[i] :
            txs[i][c] # Overlay(StateAt(Tip), txs, 1 .. i - 1)[c]
       /\ chain' = Append(chain,
            [txs |-> txs, post |-> Overlay(StateAt(Tip), txs, DOMAIN txs)])
  /\ UNCHANGED <<stream, next_header, feed, pc, pos, loopVars, dbVars,
                 startVars, address_tx>>

\* The subscription delivers the blocks mined after it is established.
Subscribe ==
  /\ stream = "connecting"
  /\ stream' = "live"
  /\ next_header' = Tip + 1
  /\ UNCHANGED <<chain, feed, pc, pos, loopVars, dbVars, startVars, address_tx>>

ForwardHeader ==
  /\ stream = "live"
  /\ next_header <= Tip
  /\ feed' = Append(feed, next_header)
  /\ next_header' = next_header + 1
  /\ UNCHANGED <<chain, stream, pc, pos, loopVars, dbVars, startVars, address_tx>>

\* The connection fails (unwrap) or the subscription ends: block_sender is dropped.
StreamEnds ==
  /\ stream \in {"connecting", "live"}
  /\ stream' = "ended"
  /\ UNCHANGED <<chain, next_header, feed, pc, pos, loopVars, dbVars,
                 startVars, address_tx>>

-----------------------------------------------------------------------------
(* The database. *)

\* Database::storage: a missing cell is fetched at the latest block and kept.
\* Readers are the warm-up and, once main runs, the simulations.
ReadThrough(c) ==
  /\ pc = "init" \/ main = "running"
  /\ db[c] = None
  /\ db' = [db EXCEPT ![c] = StateAt(Tip)[c]]
  /\ UNCHANGED <<chainVars, pc, pos, loopVars, applied, updated_pools,
                 startVars, address_tx>>

\* add_pool replaces the account of every pool by one without storage, unless it
\* fails to fetch the account anew, then insert_v2 / insert_v3 write what the pool
\* sync knew of it.
PopulateDb ==
  /\ pc = "init"
  /\ \E failed \in SUBSET Pools :
       db' = [c \in Cells |->
                CASE c \in Populated                              -> Genesis[c]
                  [] c \in Tracked \ Populated /\ Owner[c] \notin failed -> None
                  [] OTHER                                        -> db[c]]
  /\ pc' = "head"
  /\ UNCHANGED <<chainVars, pos, loopVars, applied, updated_pools,
                 startVars, address_tx>>

\* update_all_slots for the tracked pools of each frame, in order.
UpdateSlotsMissing(frames, ok) ==      \* mutant: keeps slots it already holds
  [c \in Cells |-> IF c \in Tracked /\ db[c] = None THEN Overlay(db, frames, ok)[c]
                                                    ELSE db[c]]
UpdateSlots(frames, ok) ==
  [c \in Cells |-> IF c \in Tracked THEN Overlay(db, frames, ok)[c] ELSE db[c]]

UpdateStateHeld(b) ==                  \* mutant: slots that were not held do not count
  \E ok \in IF TraceFaults THEN SUBSET DOMAIN chain[b].txs
                           ELSE {DOMAIN chain[b].txs} :
    /\ db' = UpdateSlots(PostFrames(b), ok)
    /\ updated_pools' = {Owner[c] : c \in {d \in Tracked : /\ db[d] # None
                                                         /\ Writers(chain[b].txs, ok, d) # {}}}
    /\ applied' = Append(applied, [block |-> b, ok |-> ok])
\* update_state: trace block b, then, holding the write lock, write every slot
\* traced for a tracked pool, transaction by transaction.  The traces of
\* transactions that failed to trace are left out.  A pool of which a slot was
\* cleared is in the post frame, without that slot, and counts as updated.
UpdateState(b) ==
  \E ok \in IF TraceFaults THEN SUBSET DOMAIN chain[b].txs
                           ELSE {DOMAIN chain[b].txs} :
    /\ db' = UpdateSlots(PostFrames(b), ok)
    /\ updated_pools' = {Owner[c] : c \in {d \in Tracked : Writers(chain[b].txs, ok, d) # {}}}
    /\ applied' = Append(applied, [block |-> b, ok |-> ok])

-----------------------------------------------------------------------------
(* The updater task: state_updater. *)

\* get_block_number, and the loop test.
ReadHeadSilent ==                      \* mutant: the flag is set inside the loop
  /\ pc = "head"
  /\ current_block' = Tip
  /\ IF last_synced < Tip
       THEN pc' = "catchup" /\ block' = last_synced + 1 /\ caught_up' = TRUE
       ELSE pc' = "recv" /\ UNCHANGED <<block, caught_up>>
  /\ UNCHANGED <<chainVars, pos, last_synced, dbVars, main, address_tx>>
ReadHead ==
  /\ pc = "head"
  /\ current_block' = Tip
  /\ IF last_synced < Tip
       THEN /\ pc' = "catchup"
            /\ block' = last_synced + 1
            /\ UNCHANGED caught_up
       ELSE /\ pc' = "recv"
            /\ caught_up' = TRUE
            /\ UNCHANGED block
  /\ UNCHANGED <<chainVars, pos, last_synced, dbVars, main, address_tx>>

\* One iteration of the for loop; the touched pools are discarded.
CatchUp ==
  /\ pc = "catchup"
  /\ UpdateState(block)
  /\ IF block < current_block
       THEN /\ block' = block + 1
            /\ UNCHANGED <<pc, last_synced>>
       ELSE /\ last_synced' = current_block
            /\ pc' = "head"
            /\ UNCHANGED block
  /\ UNCHANGED <<chainVars, pos, current_block, startVars, address_tx>>

\* The receiver was overtaken by more headers than the channel holds.
Lagged == Len(feed) - pos > Capacity

NewBlockOrLast(n) == n >= last_synced  \* mutant: off by one
NewBlockLater(n) == n > last_synced + 1 \* mutant: off by one the other way
NewBlock(n) == n > last_synced

\* A header that catch-up already covered is skipped.
SkipHeader ==
  /\ pc = "recv" /\ ~Lagged /\ pos < Len(feed)
  /\ ~NewBlock(feed[pos + 1])
  /\ pos' = pos + 1
  /\ UNCHANGED <<chainVars, pc, loopVars, dbVars, startVars, address_tx>>

ProcessHeader ==
  /\ pc = "recv" /\ ~Lagged /\ pos < Len(feed)
  /\ NewBlock(feed[pos + 1])
  /\ pos' = pos + 1
  /\ block' = feed[pos + 1]
  /\ UpdateState(feed[pos + 1])
  /\ pc' = "notify"
  /\ UNCHANGED <<chainVars, last_synced, current_block, startVars, address_tx>>

\* Send the touched pools, then move on; a failed send is only logged.
Notify ==
  /\ pc = "notify"
  /\ address_tx' = Append(address_tx, [pools |-> updated_pools, block |-> block])
  /\ last_synced' = block
  /\ pc' = "recv"
  /\ UNCHANGED <<chainVars, pos, current_block, block, dbVars, startVars>>

\* recv returns an error, Lagged or Closed: the loop and the task end.
RecvFails ==
  /\ pc = "recv"
  /\ Lagged \/ (stream = "ended" /\ pos = Len(feed))
  /\ pc' = "stopped"
  /\ UNCHANGED <<chainVars, pos, loopVars, dbVars, startVars, address_tx>>

\* get_block_number or the trace of a block fails, or another task has left the
\* lock poisoned: unwrap panics in the task.
RpcPanic ==
  /\ \/ pc \in {"head", "catchup"}
     \/ pc = "recv" /\ ~Lagged /\ pos < Len(feed) /\ NewBlock(feed[pos + 1])
  /\ pc' = "stopped"
  /\ UNCHANGED <<chainVars, pos, loopVars, dbVars, startVars, address_tx>>

\* main leaves its spin loop and starts the searcher and the simulator.
LeaveSpin ==
  /\ main = "spin"
  /\ caught_up
  /\ main' = "running"
  /\ UNCHANGED <<chainVars, pc, pos, loopVars, dbVars, caught_up, address_tx>>

Updater == ReadHead \/ CatchUp \/ SkipHeader \/ ProcessHeader \/ Notify \/ RecvFails

Next ==
  \/ Mine \/ Subscribe \/ ForwardHeader \/ StreamEnds
  \/ \E c \in Cells : ReadThrough(c)
  \/ PopulateDb
  \/ ReadHead \/ CatchUp \/ SkipHeader \/ ProcessHeader \/ Notify
  \/ RecvFails \/ RpcPanic
  \/ LeaveSpin

Spec == Init /\ [][Next]_vars

\* Each task runs whenever it can: the stream task once connected, the updater
\* task, and main.  Nothing obliges the chain to grow, the connection to be
\* established or to end, a reader to read or a request to fail.
Fairness ==
  /\ WF_vars(ForwardHeader)
  /\ WF_vars(PopulateDb)
  /\ WF_vars(Updater)
  /\ WF_vars(LeaveSpin)

FairSpec == Spec /\ Fairness

-----------------------------------------------------------------------------
(* Properties. *)

Heights == 0 .. MaxBlocks

\* The last block applied to the database.
Done == IF applied = <<>> THEN 0 ELSE applied[Len(applied)].block

\* Types of the variables.
TypeOK ==
  /\ chain \in Seq([txs : Bodies, post : [Cells -> Values]]) /\ Len(chain) <= MaxBlocks
  /\ stream \in {"connecting", "live", "ended"} /\ next_header \in Nat
  /\ feed \in Seq(Nat) /\ pos \in 0 .. Len(feed)
  /\ pc \in {"init", "head", "catchup", "recv", "notify", "stopped"}
  /\ last_synced \in 0 .. Tip /\ current_block \in 0 .. Tip /\ block \in 0 .. Tip
  /\ updated_pools \subseteq Pools
  /\ db \in [Cells -> Values \cup {None}]
  /\ caught_up \in BOOLEAN /\ main \in {"spin", "running"}
  /\ address_tx \in Seq([pools : SUBSET Pools, block : Nat])
  /\ applied \in Seq([block : Nat, ok : SUBSET Nat])

Applied(b) == \E i \in DOMAIN applied : applied[i].block = b

\* Transaction i of block k wrote cell c, and no later one up to block b did.
FinalWrite(k, i, c, b) ==
  /\ k \in 1 .. b
  /\ i \in Writers(chain[k].txs, DOMAIN chain[k].txs, c)
  /\ \A j \in Writers(chain[k].txs, DOMAIN chain[k].txs, c) : j <= i
  /\ \A l \in k + 1 .. b : Writers(chain[l].txs, DOMAIN chain[l].txs, c) = {}

\* The database got the value transaction i of block k gave to c.
Captured(k, i, c) ==
  /\ chain[k].txs[i][c] # Zero
  /\ \E a \in DOMAIN applied : applied[a].block = k /\ i \in applied[a].ok

\* The last write of c up to block b, if there is one, reached the database.
FinalWriteCaptured(c, b) ==
  \A k \in 1 .. b : \A i \in DOMAIN chain[k].txs :
    FinalWrite(k, i, c, b) => Captured(k, i, c)

\* The market state follows the chain, cell by cell: a cached cell of a tracked
\* pool whose last write reached the database has the value the chain gave it
\* at the last processed block or at a later one.  Reads that run ahead of the
\* updater, blocks processed twice or out of order, lost blocks that a later
\* write repairs: none may leave such a cell with any other value
\* (market_state.rs:52, "Internal representation of the current state").
Coherence ==
  \A c \in Tracked :
    db[c] # None /\ FinalWriteCaptured(c, Done) =>
      \E v \in Done .. Tip : db[c] = StateAt(v)[c]

\* No block is applied twice or after a later one, across the catch-up loop and
\* the stream, which overlap (market_state.rs:139 "make sure we dont reprocess
\* blocks we caught up with").
AppliedInOrder ==
  \A i, j \in DOMAIN applied : i < j => applied[i].block < applied[j].block

\* The blocks a subscriber of the searcher hears of are the blocks applied since
\* the updater caught up, each once, in order, none kept back between blocks.
EveryStreamedBlockAnnounced ==
  LET n == Len(address_tx) IN
    /\ n <= Len(applied)
    /\ \A i \in 1 .. n :
         address_tx[i].block = applied[Len(applied) - n + i
                                         - (IF pc = "notify" THEN 1 ELSE 0)].block

\* The market state as the search thread relies on it: once it has caught up, what
\* is cached of a pool changes with an announced block that names the pool, and with
\* nothing else, whatever is read, cleared, left out of a trace or caught up before
\* (searcher.rs:79 acts on the pools of the event alone).
Touched == INSTANCE PoolsTouched WITH
  held    <- [p \in Pools |->
                [c \in {d \in Cells : Owner[d] = p /\ db[d] # None} |-> db[c]]],
  started <- caught_up,
  last    <- Done,
  owed    <- IF pc = "notify" THEN {[pools |-> updated_pools, block |-> block]} ELSE {},
  events  <- address_tx
ImplementsPoolsTouched == Touched!Spec

\* Once the chain stops growing, the database ends at its tip: the updater has
\* processed the last block and holds that block's value of every cell whose last
\* write it was shown.  Headers that queue up behind a slow trace, that overlap
\* with the catch-up or that come after the one sent last before the connection
\* ended may not leave it behind (market_state.rs:135-151), short of stopping it.
\* Only where the subscription delivered nothing may it end at an older block, the
\* head that its catch-up read last: what is mined between that and the
\* subscription is lost (NoBlockMissed).
EventuallyCurrent ==
  <>[](\/ pc = "stopped"
       \/ feed = <<>> /\ Done = current_block
       \/ /\ Done = Tip
          /\ \A c \in Tracked : db[c] # None /\ FinalWriteCaptured(c, Tip)
                               => db[c] = StateAt(Tip)[c])

\* main leaves the spin loop of ignition.rs:74, unless the updater died before
\* it caught up.
SpinEnds == <>(main = "running" \/ pc = "stopped")

-----------------------------------------------------------------------------
(* What comments of the source say and the code does not do. *)

\* ignition.rs:34 "start the block stream so we don't miss any blocks" and
\* market_state.rs:115 "catch up to the head to we are not missing any state":
\* every block up to the last one synced was applied.
NoBlockMissed == \A b \in 1 .. Done : Applied(b)

\* market_state.rs:176 "trace the block to get all post state changes": once a
\* block is applied, a cached cell of a tracked pool that it wrote has the value
\* the block, or a later one, gave it.
AllChangesApplied ==
  \A c \in Tracked :
    LET b == Done IN
      (b > 0 /\ Applied(b) /\ db[c] # None
         /\ Writers(chain[b].txs, DOMAIN chain[b].txs, c) # {})
      => \E v \in b .. Tip : db[c] = StateAt(v)[c]

=============================================================================

------------------------- MODULE MarketStateProofs -------------------------
(***************************************************************************)
(* Proofs about MarketState, for any cells, pools, blocks and bounds.      *)
(***************************************************************************)
EXTENDS MarketState, SequenceTheorems, WellFoundedInduction, TLAPS

(***************************************************************************)
(* The inductive invariants.                                               *)
(***************************************************************************)

\* The state after a block is the state before it with the diffs of the block.
ChainInv ==
  \A b \in 1 .. Tip :
    chain[b].post = Overlay(StateAt(b - 1), chain[b].txs, DOMAIN chain[b].txs)

\* Headers announce mined blocks; the updater moves through blocks that exist,
\* past the last one applied.
ProgressInv ==
  /\ next_header <= Tip + 1
  /\ \A i \in DOMAIN feed : feed[i] <= Tip
  /\ \A i \in DOMAIN applied : applied[i].block \in 1 .. Tip
  /\ pc \in {"init", "head", "recv"} => Done = last_synced
  /\ pc = "init" => last_synced = 0
  /\ pc = "catchup" => /\ Done = block - 1
                       /\ last_synced < block /\ block <= current_block
  /\ pc = "notify" => Done = block

IndInv == TypeOK /\ ChainInv /\ ProgressInv /\ AppliedInOrder /\ Coherence

\* The block applied last is announced unless its event is still to be sent.
Unsent == IF pc = "notify" THEN 1 ELSE 0

\* Nothing is announced before the updater has caught up, and it never falls
\* back to the catch-up loop, where blocks are applied in silence.
StreamInv ==
  /\ pc \in {"init", "head", "catchup"} => address_tx = <<>>
  /\ Len(address_tx) + Unsent <= Len(applied)

\* A nonempty set of natural numbers has a least element.
LEMMA NatMin ==
  ASSUME NEW T \in SUBSET Nat, T # {}
  PROVE  \E x \in T : \A y \in T : x <= y
<1> DEFINE R == {ss \in Nat \X Nat : ss[1] < ss[2]}
<1>1. IsWellFoundedOn(R, Nat)
  BY NatLessThanWellFounded DEF OpToRel
<1>2. PICK x \in T : \A y \in T : ~ (<<y, x>> \in R)
  <2> HIDE DEF R
  <2> QED BY <1>1, WFMin
<1>3. ASSUME NEW y \in T PROVE x <= y
  <2>1. <<y, x>> \in Nat \X Nat
    OBVIOUS
  <2>2. ~ (y < x)
    BY <1>2, <2>1
  <2> QED BY <2>2
<1> QED BY <1>3

\* Latest picks the greatest number of a nonempty set of transaction indices.
LEMMA LatestIsMax ==
  ASSUME NEW n \in Nat, NEW W \in SUBSET (1 .. n), W # {}
  PROVE  Latest(W) \in W /\ \A j \in W : j <= Latest(W)
<1> DEFINE T == {n - i : i \in W}
<1>1. T \in SUBSET Nat /\ T # {}
  <2>1. ASSUME NEW i \in W PROVE n - i \in Nat
    OBVIOUS
  <2>2. PICK i \in W : TRUE
    OBVIOUS
  <2>3. n - i \in T
    OBVIOUS
  <2> QED BY <2>1, <2>3
<1>2. PICK x \in T : \A y \in T : x <= y
  <2> HIDE DEF T
  <2> QED BY <1>1, NatMin
<1>3. PICK i \in W : x = n - i
  BY <1>2
<1>4. \A j \in W : j <= i
  BY <1>2, <1>3
<1> QED
  BY <1>4 DEF Latest

(***************************************************************************)
(* State diffs.                                                            *)
(***************************************************************************)

\* Laying diffs with values in S over a state with values in S gives one.
LEMMA OverlayType ==
  ASSUME NEW S, NEW base \in [Cells -> S], NEW n \in Nat,
         NEW txs, NEW among \in SUBSET (1 .. n),
         \A i \in among : \A c \in DOMAIN txs[i] : txs[i][c] \in S
  PROVE  Overlay(base, txs, among) \in [Cells -> S]
<1>1. ASSUME NEW c \in Cells, Writers(txs, among, c) # {}
      PROVE  txs[Latest(Writers(txs, among, c))][c] \in S
  <2>1. Writers(txs, among, c) \in SUBSET (1 .. n)
    BY DEF Writers
  <2>2. Latest(Writers(txs, among, c)) \in Writers(txs, among, c)
    BY <1>1, <2>1, LatestIsMax
  <2> QED BY <2>2 DEF Writers
<1> QED BY <1>1 DEF Overlay

\* S holds indices of some sequence.
Bounded(S) == \E n \in Nat : S \subseteq 1 .. n

\* A cell that none of the diffs holds keeps its value.
LEMMA OverlayKeeps ==
  ASSUME NEW base, NEW txs, NEW among, NEW c \in Cells, Writers(txs, among, c) = {}
  PROVE  Overlay(base, txs, among)[c] = base[c]
BY DEF Overlay

\* A cell that some diff holds takes its value from the last that does.
LEMMA OverlayTakesLast ==
  ASSUME NEW base, NEW txs, NEW among, Bounded(among), NEW c \in Cells,
         NEW i \in Writers(txs, among, c), \A j \in Writers(txs, among, c) : j <= i
  PROVE  Overlay(base, txs, among)[c] = txs[i][c]
<1> DEFINE W == Writers(txs, among, c)
<1>1. PICK n \in Nat : among \subseteq 1 .. n
  BY DEF Bounded
<1>2. W \in SUBSET (1 .. n) /\ i \in W /\ \A j \in W : j <= i
  BY <1>1 DEF Writers
<1>3. Overlay(base, txs, among)[c] = txs[Latest(W)][c]
  BY <1>2 DEF Overlay
<1> HIDE DEF W
<1>4. Latest(W) \in W /\ i <= Latest(W)
  BY <1>2, LatestIsMax
<1>5. Latest(W) <= i
  BY <1>2, <1>4
<1>6. i \in 1 .. n /\ Latest(W) \in 1 .. n
  BY <1>2, <1>4
<1>7. Latest(W) = i
  BY <1>4, <1>5, <1>6
<1> QED BY <1>3, <1>7

\* The diffs of a block body map cells to slot values.
LEMMA DiffValues ==
  ASSUME NEW txs \in Bodies
  PROVE  /\ Len(txs) \in Nat /\ DOMAIN txs = 1 .. Len(txs)
         /\ \A i \in DOMAIN txs : \A c \in DOMAIN txs[i] : txs[i][c] \in Values
<1>1. txs \in Seq(Diffs)
  BY BodiesAssumption
<1>2. ASSUME NEW i \in DOMAIN txs, NEW c \in DOMAIN txs[i]
      PROVE  txs[i][c] \in Values
  BY <1>1 DEF Diffs
<1> QED BY <1>1, <1>2

(***************************************************************************)
(* Type correctness.                                                       *)
(***************************************************************************)

\* A mined block has a body and a state.
LEMMA BlockType ==
  ASSUME TypeOK, NEW b \in 1 .. Tip
  PROVE  chain[b].txs \in Bodies /\ chain[b].post \in [Cells -> Values]
<1>1. chain \in Seq([txs : Bodies, post : [Cells -> Values]]) /\ Tip = Len(chain)
  BY DEF TypeOK, Tip
<1>2. chain[b] \in [txs : Bodies, post : [Cells -> Values]]
  BY <1>1, ElementOfSeq
<1> QED BY <1>2

\* The state of the chain at any height it has reached gives every cell a value.
LEMMA StateType ==
  ASSUME TypeOK, NEW b \in 0 .. Tip
  PROVE  StateAt(b) \in [Cells -> Values]
<1>1. CASE b = 0
  BY <1>1, CellsAssumption DEF StateAt
<1>2. CASE b # 0
  <2>1. Tip \in Nat
    BY DEF TypeOK, Tip
  <2>2. b \in 1 .. Tip
    BY <1>2, <2>1
  <2> QED BY <1>2, <2>2, BlockType DEF StateAt
<1> QED BY <1>1, <1>2

\* A post frame is its diff without the slots that were cleared.
LEMMA FramesType ==
  ASSUME TypeOK, NEW b \in 1 .. Tip
  PROVE  /\ DOMAIN PostFrames(b) = DOMAIN chain[b].txs
         /\ \A i \in DOMAIN chain[b].txs :
              /\ DOMAIN PostFrames(b)[i]
                   = {c \in DOMAIN chain[b].txs[i] : chain[b].txs[i][c] # Zero}
              /\ \A c \in DOMAIN PostFrames(b)[i] :
                   PostFrames(b)[i][c] = chain[b].txs[i][c]
BY DEF PostFrames, Post

\* update_state keeps the types of the variables it writes.
LEMMA UpdateType ==
  ASSUME TypeOK, NEW b \in 1 .. Tip, UpdateState(b)
  PROVE  /\ db' \in [Cells -> Values \cup {None}]
         /\ updated_pools' \subseteq Pools
         /\ applied' \in Seq([block : Nat, ok : SUBSET Nat])
<1> DEFINE txs == chain[b].txs
<1>1. PICK ok \in SUBSET DOMAIN txs :
        /\ db' = [c \in Cells |-> IF c \in Tracked
                    THEN Overlay(db, PostFrames(b), ok)[c] ELSE db[c]]
        /\ updated_pools' = {Owner[c] : c \in {d \in Tracked : Writers(txs, ok, d) # {}}}
        /\ applied' = Append(applied, [block |-> b, ok |-> ok])
  BY DEF UpdateState, UpdateSlots
<1>2. txs \in Bodies /\ Len(txs) \in Nat /\ DOMAIN txs = 1 .. Len(txs)
      /\ \A i \in DOMAIN txs : \A c \in DOMAIN txs[i] : txs[i][c] \in Values
  BY BlockType, DiffValues
<1>3. db \in [Cells -> Values \cup {None}]
  BY DEF TypeOK
<1>4. \A i \in ok : \A c \in DOMAIN PostFrames(b)[i] :
        PostFrames(b)[i][c] \in Values \cup {None}
  BY <1>2, FramesType
<1>5. Overlay(db, PostFrames(b), ok) \in [Cells -> Values \cup {None}]
  BY <1>2, <1>3, <1>4, OverlayType
<1>6. db' \in [Cells -> Values \cup {None}]
  BY <1>1, <1>3, <1>5
<1>7. updated_pools' \subseteq Pools
  BY <1>1 DEF Tracked
<1>8. [block |-> b, ok |-> ok] \in [block : Nat, ok : SUBSET Nat]
  BY <1>2
<1>9. applied' \in Seq([block : Nat, ok : SUBSET Nat])
  BY <1>1, <1>8 DEF TypeOK
<1> QED BY <1>6, <1>7, <1>9

\* At the start every variable has its type.
LEMMA InitType == Init => TypeOK
<1> SUFFICES ASSUME Init PROVE TypeOK
  OBVIOUS
<1>1. \A S : <<>> \in Seq(S) /\ Len(<<>>) = 0
  OBVIOUS
<1>2. Tip = 0
  BY <1>1 DEF Init, Tip
<1>3. db \in [Cells -> Values \cup {None}]
  BY DEF Init
<1>4. /\ chain \in Seq([txs : Bodies, post : [Cells -> Values]]) /\ Len(chain) = 0
      /\ feed \in Seq(Nat) /\ Len(feed) = 0
      /\ address_tx \in Seq([pools : SUBSET Pools, block : Nat])
      /\ applied \in Seq([block : Nat, ok : SUBSET Nat])
  BY <1>1 DEF Init
<1>5. /\ Len(chain) <= MaxBlocks
      /\ pos \in 0 .. Len(feed) /\ last_synced \in 0 .. Tip
      /\ current_block \in 0 .. Tip /\ block \in 0 .. Tip
  BY <1>2, <1>4, BoundsAssumption DEF Init
<1>6. /\ stream \in {"connecting", "live", "ended"} /\ next_header \in Nat
      /\ pc \in {"init", "head", "catchup", "recv", "notify", "stopped"}
      /\ updated_pools \subseteq Pools
      /\ caught_up \in BOOLEAN /\ main \in {"spin", "running"}
  BY DEF Init
<1> QED
  BY <1>3, <1>4, <1>5, <1>6 DEF TypeOK

\* What mining adds is a block with a body and the state after it.
LEMMA MineType ==
  ASSUME TypeOK, Mine
  PROVE  /\ chain' \in Seq([txs : Bodies, post : [Cells -> Values]])
         /\ Tip' = Tip + 1 /\ Tip \in Nat /\ Tip' <= MaxBlocks
         /\ \A b \in 1 .. Tip : chain'[b] = chain[b]
         /\ chain'[Tip'].post
              = Overlay(StateAt(Tip), chain'[Tip'].txs, DOMAIN chain'[Tip'].txs)
<1>1. chain \in Seq([txs : Bodies, post : [Cells -> Values]]) /\ Tip = Len(chain)
      /\ Tip \in Nat /\ MaxBlocks \in Nat
  BY BoundsAssumption DEF TypeOK, Tip
<1>2. PICK txs \in Bodies :
        chain' = Append(chain,
          [txs |-> txs, post |-> Overlay(StateAt(Tip), txs, DOMAIN txs)])
  BY DEF Mine
<1> DEFINE new == [txs |-> txs, post |-> Overlay(StateAt(Tip), txs, DOMAIN txs)]
<1>3. Len(txs) \in Nat /\ DOMAIN txs = 1 .. Len(txs)
      /\ \A i \in DOMAIN txs : \A c \in DOMAIN txs[i] : txs[i][c] \in Values
  BY DiffValues
<1>4. StateAt(Tip) \in [Cells -> Values]
  BY <1>1, StateType
<1>5. Overlay(StateAt(Tip), txs, DOMAIN txs) \in [Cells -> Values]
  BY <1>3, <1>4, OverlayType
<1>6. new \in [txs : Bodies, post : [Cells -> Values]]
  BY <1>5
<1>7. /\ new.txs = txs
      /\ new.post = Overlay(StateAt(Tip), txs, DOMAIN txs)
  OBVIOUS
<1> HIDE DEF new
<1>8. /\ Append(chain, new) \in Seq([txs : Bodies, post : [Cells -> Values]])
      /\ Len(Append(chain, new)) = Len(chain) + 1
      /\ Append(chain, new)[Len(chain) + 1] = new
      /\ \A b \in 1 .. Len(chain) : Append(chain, new)[b] = chain[b]
  BY <1>1, <1>6, AppendProperties
<1>9. chain' = Append(chain, new) /\ Tip' = Len(chain') /\ Tip < MaxBlocks
  BY <1>2 DEF new, Tip, Mine
<1> QED BY <1>1, <1>7, <1>8, <1>9

\* Every step keeps the types.
LEMMA TypeStep == TypeOK /\ ProgressInv /\ [Next]_vars => TypeOK'
<1> SUFFICES ASSUME TypeOK, ProgressInv, [Next]_vars PROVE TypeOK'
  OBVIOUS
<1>0. Tip \in Nat /\ Len(feed) \in Nat
  BY DEF TypeOK, Tip
<1> USE DEF chainVars, loopVars, dbVars, startVars
<1>1. CASE Mine
  BY <1>0, <1>1, MineType DEF TypeOK, Mine, Tip
<1>2. CASE Subscribe
  BY <1>0, <1>2 DEF TypeOK, Subscribe, Tip
<1>3. CASE ForwardHeader
  <2>1. feed \in Seq(Nat) /\ next_header \in Nat
    BY DEF TypeOK
  <2>2. feed' \in Seq(Nat) /\ Len(feed') = Len(feed) + 1
    BY <1>3, <2>1, AppendProperties DEF ForwardHeader
  <2> QED BY <1>0, <1>3, <2>1, <2>2 DEF TypeOK, ForwardHeader, Tip
<1>4. CASE StreamEnds
  BY <1>4 DEF TypeOK, StreamEnds, Tip
<1>5. ASSUME NEW c \in Cells, ReadThrough(c) PROVE TypeOK'
  <2>1. StateAt(Tip)[c] \in Values
    BY <1>0, StateType
  <2> QED BY <1>5, <2>1 DEF TypeOK, ReadThrough, Tip
<1>6. CASE PopulateDb
  <2>1. db' \in [Cells -> Values \cup {None}]
    BY <1>6, CellsAssumption DEF TypeOK, PopulateDb
  <2> QED BY <1>6, <2>1 DEF TypeOK, PopulateDb, Tip
<1>7. CASE ReadHead
  <2>0. last_synced \in 0 .. Tip /\ block \in 0 .. Tip /\ caught_up \in BOOLEAN
    BY DEF TypeOK
  <2>1. /\ current_block' = Tip /\ block' \in 0 .. Tip
        /\ pc' \in {"catchup", "recv"} /\ caught_up' \in BOOLEAN
    <3>1. CASE last_synced < Tip
      BY <1>0, <1>7, <2>0, <3>1 DEF ReadHead
    <3>2. CASE ~(last_synced < Tip)
      BY <1>7, <2>0, <3>2 DEF ReadHead
    <3> QED BY <3>1, <3>2
  <2>2. UNCHANGED <<chainVars, pos, last_synced, dbVars, main, address_tx>>
    BY <1>7 DEF ReadHead
  <2> QED BY <1>0, <2>1, <2>2 DEF TypeOK, Tip
<1>8. CASE CatchUp
  <2>1. block \in 1 .. Tip /\ current_block \in 0 .. Tip /\ block <= current_block
    BY <1>8 DEF CatchUp, ProgressInv, TypeOK
  <2>2. /\ db' \in [Cells -> Values \cup {None}]
        /\ updated_pools' \subseteq Pools
        /\ applied' \in Seq([block : Nat, ok : SUBSET Nat])
    BY <1>8, <2>1, UpdateType DEF CatchUp
  <2>3. block' \in 0 .. Tip /\ last_synced' \in 0 .. Tip
        /\ pc' \in {"catchup", "head"}
    <3>1. CASE block < current_block
      <4>1. block + 1 \in 0 .. Tip
        BY <1>0, <2>1, <3>1
      <4> QED BY <1>8, <3>1, <4>1 DEF CatchUp, TypeOK
    <3>2. CASE ~(block < current_block)
      BY <1>8, <2>1, <3>2 DEF CatchUp, TypeOK
    <3> QED BY <3>1, <3>2
  <2> QED BY <1>8, <2>2, <2>3 DEF TypeOK, CatchUp, Tip
<1>9. CASE SkipHeader
  <2>1. pos' \in 0 .. Len(feed)
    BY <1>0, <1>9 DEF TypeOK, SkipHeader
  <2>2. UNCHANGED <<chain, stream, next_header, feed, pc, last_synced, current_block, block,
                    updated_pools, db, caught_up, main, address_tx, applied>>
    BY <1>9 DEF SkipHeader, loopVars
  <2> QED BY <2>1, <2>2 DEF TypeOK, Tip
<1>10. CASE ProcessHeader
  <2>1. feed[pos + 1] \in 1 .. Tip /\ pos + 1 \in 0 .. Len(feed)
    <3>1. feed \in Seq(Nat) /\ pos \in 0 .. Len(feed)
      BY DEF TypeOK
    <3>2. pos < Len(feed) /\ NewBlock(feed[pos + 1])
      BY <1>10 DEF ProcessHeader
    <3>3. pos + 1 \in 1 .. Len(feed) /\ pos + 1 \in 0 .. Len(feed)
      BY <3>1, <3>2
    <3>4. feed[pos + 1] \in Nat /\ feed[pos + 1] <= Tip
      BY <3>1, <3>3 DEF ProgressInv
    <3>5. last_synced \in Nat /\ feed[pos + 1] > last_synced
      BY <3>2 DEF NewBlock, TypeOK
    <3> QED BY <1>0, <3>3, <3>4, <3>5
  <2>2. /\ db' \in [Cells -> Values \cup {None}]
        /\ updated_pools' \subseteq Pools
        /\ applied' \in Seq([block : Nat, ok : SUBSET Nat])
    BY <1>10, <2>1, UpdateType DEF ProcessHeader
  <2> QED BY <1>10, <2>1, <2>2 DEF TypeOK, ProcessHeader, Tip
<1>11. CASE Notify
  <2>1. [pools |-> updated_pools, block |-> block] \in [pools : SUBSET Pools, block : Nat]
    BY <1>0 DEF TypeOK
  <2>2. address_tx' \in Seq([pools : SUBSET Pools, block : Nat])
    BY <1>11, <2>1, AppendProperties DEF Notify, TypeOK
  <2> QED BY <1>11, <2>2 DEF TypeOK, Notify, Tip
<1>12. CASE RecvFails
  BY <1>12 DEF TypeOK, RecvFails, Tip
<1>13. CASE RpcPanic
  <2>1. pc' = "stopped" /\ UNCHANGED <<chainVars, pos, loopVars, dbVars, startVars, address_tx>>
    BY <1>13 DEF RpcPanic
  <2> QED BY <2>1 DEF TypeOK, Tip
<1>14. CASE LeaveSpin
  BY <1>14 DEF TypeOK, LeaveSpin, Tip
<1>15. CASE UNCHANGED vars
  BY <1>15 DEF TypeOK, vars, Tip
<1> QED
  BY <1>1, <1>2, <1>3, <1>4, <1>5, <1>6, <1>7, <1>8, <1>9, <1>10, <1>11, <1>12,
     <1>13, <1>14, <1>15 DEF Next

(***************************************************************************)
(* Blocks are applied in order.                                            *)
(***************************************************************************)

\* In an ordered history no block is later than the last one.
LEMMA DoneIsLast ==
  ASSUME TypeOK, ProgressInv, AppliedInOrder
  PROVE  /\ Done \in 0 .. Tip
         /\ \A i \in DOMAIN applied : applied[i].block \in 1 .. Done
<1>1. /\ Len(applied) \in Nat /\ DOMAIN applied = 1 .. Len(applied)
      /\ applied # <<>> => Len(applied) \in DOMAIN applied
      /\ applied = <<>> => DOMAIN applied = {}
  BY EmptySeq DEF TypeOK
<1>2. Tip \in Nat
  BY DEF TypeOK, Tip
<1>3. CASE applied = <<>>
  BY <1>1, <1>2, <1>3 DEF Done
<1>4. CASE applied # <<>>
  <2>1. Done = applied[Len(applied)].block /\ Done \in 1 .. Tip
    BY <1>1, <1>4 DEF Done, ProgressInv
  <2>2. ASSUME NEW i \in DOMAIN applied PROVE applied[i].block \in 1 .. Done
    <3>1. applied[i].block \in 1 .. Tip
      BY DEF ProgressInv
    <3>2. i = Len(applied) \/ i < Len(applied)
      BY <1>1
    <3>3. i < Len(applied) => applied[i].block < Done
      BY <1>1, <1>4, <2>1 DEF AppliedInOrder
    <3> QED BY <1>2, <2>1, <3>1, <3>2, <3>3
  <2> QED BY <1>2, <2>1, <2>2
<1> QED BY <1>3, <1>4

\* update_state on a block after the last one applied extends the history.
LEMMA UpdateHistory ==
  ASSUME TypeOK, ProgressInv, AppliedInOrder,
         NEW b \in Done + 1 .. Tip, UpdateState(b)
  PROVE  /\ AppliedInOrder' /\ Done' = b
         /\ Len(applied') = Len(applied) + 1 /\ Len(applied) \in Nat
         /\ DOMAIN applied' = 1 .. Len(applied) + 1
         /\ \A i \in DOMAIN applied' : applied'[i].block \in 1 .. Tip
         /\ \A i \in DOMAIN applied : applied'[i] = applied[i] /\ i \in DOMAIN applied'
         /\ applied'[Len(applied) + 1].block = b
<1>1. Done \in 0 .. Tip /\ \A i \in DOMAIN applied : applied[i].block \in 1 .. Done
  BY DoneIsLast
<1>2. PICK ok \in SUBSET DOMAIN chain[b].txs :
        applied' = Append(applied, [block |-> b, ok |-> ok])
  BY DEF UpdateState, UpdateSlots
<1> DEFINE new == [block |-> b, ok |-> ok]
<1>3. applied \in Seq([block : Nat, ok : SUBSET Nat])
  BY DEF TypeOK
<1>4. /\ Len(applied) \in Nat /\ DOMAIN applied = 1 .. Len(applied)
      /\ Len(applied') = Len(applied) + 1
      /\ DOMAIN applied' = 1 .. Len(applied) + 1
      /\ applied'[Len(applied) + 1] = new
      /\ \A i \in 1 .. Len(applied) : applied'[i] = applied[i]
  <2>1. b \in 1 .. Tip
    BY <1>1
  <2>2. DOMAIN chain[b].txs \subseteq Nat
    BY <2>1, BlockType, DiffValues
  <2>3. new \in [block : Nat, ok : SUBSET Nat]
    BY <2>1, <2>2
  <2> HIDE DEF new
  <2>4. applied' = Append(applied, new)
    BY <1>2 DEF new
  <2> QED BY <1>3, <2>3, <2>4, AppendProperties
<1>5. new.block = b
  OBVIOUS
<1> HIDE DEF new
<1>6. applied' # <<>> /\ Done' = b
  <2>1. applied' # <<>>
    BY <1>4, EmptySeq
  <2> QED BY <2>1, <1>4, <1>5 DEF Done
<1>7. Tip \in Nat
  BY DEF TypeOK, Tip
<1>8. ASSUME NEW i \in DOMAIN applied' PROVE applied'[i].block \in 1 .. Tip
  <2>1. CASE i \in DOMAIN applied
    BY <1>1, <1>4, <1>7, <2>1
  <2>2. CASE i = Len(applied) + 1
    BY <1>1, <1>4, <1>5, <1>7, <2>2
  <2> QED BY <1>4, <2>1, <2>2
<1>9. ASSUME NEW i \in DOMAIN applied', NEW j \in DOMAIN applied', i < j
      PROVE  applied'[i].block < applied'[j].block
  <2>1. i \in DOMAIN applied
    BY <1>4, <1>9
  <2>2. CASE j \in DOMAIN applied
    BY <1>4, <1>9, <2>1, <2>2 DEF AppliedInOrder
  <2>3. CASE j = Len(applied) + 1
    <3>1. applied'[i].block \in 1 .. Done /\ applied'[j].block = b
      BY <1>1, <1>4, <1>5, <2>1, <2>3
    <3> QED BY <1>1, <1>7, <3>1
  <2> QED BY <1>4, <2>2, <2>3
<1>10. AppliedInOrder'
  BY <1>9 DEF AppliedInOrder
<1> QED BY <1>4, <1>5, <1>6, <1>8, <1>10

\* At the start no block has been announced or applied.
LEMMA InitProgress == Init => ProgressInv /\ AppliedInOrder
<1> SUFFICES ASSUME Init PROVE ProgressInv /\ AppliedInOrder
  OBVIOUS
<1>1. DOMAIN feed = {} /\ DOMAIN applied = {} /\ Tip = 0 /\ Done = 0
  BY DEF Init, Tip, Done
<1> QED BY <1>1 DEF Init, ProgressInv, AppliedInOrder

\* Every step keeps the updater moving forward, past the last block applied.
LEMMA ProgressStep ==
  TypeOK /\ ProgressInv /\ AppliedInOrder /\ [Next]_vars
  => ProgressInv' /\ AppliedInOrder'
<1> SUFFICES ASSUME TypeOK, ProgressInv, AppliedInOrder, [Next]_vars
             PROVE  ProgressInv' /\ AppliedInOrder'
  OBVIOUS
<1>0. /\ Tip \in Nat /\ Len(feed) \in Nat /\ DOMAIN feed = 1 .. Len(feed)
      /\ next_header \in Nat /\ feed \in Seq(Nat)
      /\ last_synced \in 0 .. Tip /\ current_block \in 0 .. Tip /\ block \in 0 .. Tip
      /\ Done \in 0 .. Tip
  BY DoneIsLast DEF TypeOK, Tip
<1> USE DEF chainVars, loopVars, dbVars, startVars
<1>1. CASE Mine
  <2>1. Tip' = Tip + 1
    BY <1>1, MineType
  <2>2. UNCHANGED <<next_header, feed, pc, loopVars, applied>>
    BY <1>1 DEF Mine
  <2>3. \A i \in DOMAIN applied : applied[i].block \in 1 .. Tip + 1
    BY <1>0 DEF ProgressInv
  <2>4. \A i \in DOMAIN feed : feed[i] <= Tip + 1
    BY <1>0 DEF ProgressInv
  <2> QED BY <1>0, <2>1, <2>2, <2>3, <2>4 DEF ProgressInv, AppliedInOrder, Done
<1>2. CASE Subscribe
  BY <1>0, <1>2 DEF Subscribe, ProgressInv, AppliedInOrder, Done, Tip
<1>3. CASE ForwardHeader
  <2>1. /\ Len(feed') = Len(feed) + 1 /\ feed'[Len(feed) + 1] = next_header
        /\ \A i \in 1 .. Len(feed) : feed'[i] = feed[i]
        /\ DOMAIN feed' = 1 .. Len(feed) + 1
    BY <1>0, <1>3, AppendProperties DEF ForwardHeader
  <2>2. \A i \in DOMAIN feed' : feed'[i] <= Tip
    BY <1>0, <1>3, <2>1 DEF ForwardHeader, ProgressInv
  <2>3. next_header' <= Tip + 1
    BY <1>0, <1>3 DEF ForwardHeader
  <2> QED BY <1>3, <2>2, <2>3 DEF ForwardHeader, ProgressInv, AppliedInOrder, Done, Tip
<1>4. CASE StreamEnds
  BY <1>4 DEF StreamEnds, ProgressInv, AppliedInOrder, Done, Tip
<1>5. CASE \E c \in Cells : ReadThrough(c)
  BY <1>5 DEF ReadThrough, ProgressInv, AppliedInOrder, Done, Tip
<1>6. CASE PopulateDb
  BY <1>6 DEF PopulateDb, ProgressInv, AppliedInOrder, Done, Tip
<1>7. CASE ReadHead
  <2>1. CASE last_synced < Tip
    BY <1>0, <1>7, <2>1 DEF ReadHead, ProgressInv, AppliedInOrder, Done, Tip
  <2>2. CASE ~(last_synced < Tip)
    BY <1>0, <1>7, <2>2 DEF ReadHead, ProgressInv, AppliedInOrder, Done, Tip
  <2> QED BY <2>1, <2>2
<1>8. CASE CatchUp
  <2>1. block \in Done + 1 .. Tip /\ block <= current_block /\ last_synced < block
    BY <1>0, <1>8 DEF CatchUp, ProgressInv
  <2>2. /\ AppliedInOrder' /\ Done' = block
        /\ \A i \in DOMAIN applied' : applied'[i].block \in 1 .. Tip
    BY <1>8, <2>1, UpdateHistory DEF CatchUp
  <2>3. UNCHANGED <<chain, next_header, feed, current_block>>
    BY <1>8 DEF CatchUp
  <2>4. CASE block < current_block
    BY <1>0, <1>8, <2>1, <2>2, <2>3, <2>4 DEF CatchUp, ProgressInv, Tip
  <2>5. CASE ~(block < current_block)
    BY <1>0, <1>8, <2>1, <2>2, <2>3, <2>5 DEF CatchUp, ProgressInv, Tip
  <2> QED BY <2>4, <2>5
<1>9. CASE SkipHeader
  BY <1>9 DEF SkipHeader, ProgressInv, AppliedInOrder, Done, Tip
<1>10. CASE ProcessHeader
  <2>0. pos + 1 \in 1 .. Len(feed) /\ feed[pos + 1] > last_synced /\ Done = last_synced
    BY <1>0, <1>10 DEF ProcessHeader, NewBlock, ProgressInv, TypeOK
  <2>1. feed[pos + 1] \in Nat /\ feed[pos + 1] \in Done + 1 .. Tip
    BY <1>0, <2>0 DEF ProgressInv
  <2>2. /\ AppliedInOrder' /\ Done' = feed[pos + 1]
        /\ \A i \in DOMAIN applied' : applied'[i].block \in 1 .. Tip
    BY <1>10, <2>1, UpdateHistory DEF ProcessHeader
  <2> QED BY <1>10, <2>1, <2>2 DEF ProcessHeader, NewBlock, ProgressInv, Tip
<1>11. CASE Notify
  BY <1>11 DEF Notify, ProgressInv, AppliedInOrder, Done, Tip
<1>12. CASE RecvFails
  BY <1>12 DEF RecvFails, ProgressInv, AppliedInOrder, Done, Tip
<1>13. CASE RpcPanic
  <2>1. pc' = "stopped" /\ UNCHANGED <<chainVars, pos, loopVars, dbVars, startVars, address_tx>>
    BY <1>13 DEF RpcPanic
  <2> QED BY <2>1 DEF ProgressInv, AppliedInOrder, Done, Tip
<1>14. CASE LeaveSpin
  BY <1>14 DEF LeaveSpin, ProgressInv, AppliedInOrder, Done, Tip
<1>15. CASE UNCHANGED vars
  BY <1>15 DEF vars, ProgressInv, AppliedInOrder, Done, Tip
<1> QED
  BY <1>1, <1>2, <1>3, <1>4, <1>5, <1>6, <1>7, <1>8, <1>9, <1>10, <1>11, <1>12,
     <1>13, <1>14, <1>15 DEF Next

\* Every reachable state has the types the code gives its state.
THEOREM TypeCorrect == Spec => []TypeOK
<1>1. Init => TypeOK /\ ProgressInv /\ AppliedInOrder
  BY InitType, InitProgress
<1>2. TypeOK /\ ProgressInv /\ AppliedInOrder /\ [Next]_vars
        => TypeOK' /\ ProgressInv' /\ AppliedInOrder'
  BY TypeStep, ProgressStep
<1> QED BY <1>1, <1>2, PTL DEF Spec

\* No block is applied twice or after a later one, whatever the interleaving of
\* catch-up and stream and however many blocks are mined meanwhile.
THEOREM BlocksInOrder == Spec => []AppliedInOrder
<1>1. Init => TypeOK /\ ProgressInv /\ AppliedInOrder
  BY InitType, InitProgress
<1>2. TypeOK /\ ProgressInv /\ AppliedInOrder /\ [Next]_vars
        => TypeOK' /\ ProgressInv' /\ AppliedInOrder'
  BY TypeStep, ProgressStep
<1> QED BY <1>1, <1>2, PTL DEF Spec

(***************************************************************************)
(* Coherence of the database with the chain.                               *)
(***************************************************************************)

\* The transactions of block b that write c.
WritersOf(b, c) == Writers(chain[b].txs, DOMAIN chain[b].txs, c)

\* A cell no block of a + 1 .. b writes is the same after block a and block b.
LEMMA NoWriteNoChange ==
  ASSUME TypeOK, ChainInv, NEW c \in Cells, NEW a \in 0 .. Tip, NEW b \in a .. Tip,
         \A l \in a + 1 .. b : WritersOf(l, c) = {}
  PROVE  StateAt(b)[c] = StateAt(a)[c]
<1> DEFINE T == {k \in a .. b : StateAt(k)[c] # StateAt(a)[c]}
<1>1. Tip \in Nat
  BY DEF TypeOK, Tip
<1>2. SUFFICES ASSUME T # {} PROVE FALSE
  BY <1>1
<1>3. PICK x \in T : \A y \in T : x <= y
  <2>1. T \in SUBSET Nat
    BY <1>1
  <2> HIDE DEF T
  <2> QED BY <1>2, <2>1, NatMin
<1>4. x \in a + 1 .. b /\ StateAt(x)[c] # StateAt(a)[c]
  BY <1>1, <1>3
<1>5. StateAt(x - 1)[c] = StateAt(a)[c]
  <2>1. x - 1 \in a .. b /\ ~ (x <= x - 1)
    BY <1>1, <1>4
  <2>2. x - 1 \notin T
    BY <1>3, <2>1
  <2> QED BY <2>1, <2>2
<1>6. StateAt(x)[c] = StateAt(x - 1)[c]
  <2>1. x \in 1 .. Tip /\ x # 0
    BY <1>1, <1>4
  <2>2. StateAt(x) = Overlay(StateAt(x - 1), chain[x].txs, DOMAIN chain[x].txs)
    BY <2>1 DEF StateAt, ChainInv
  <2>4. Writers(chain[x].txs, DOMAIN chain[x].txs, c) = {}
    BY <1>4 DEF WritersOf
  <2> QED BY <2>2, <2>4, OverlayKeeps
<1> QED BY <1>4, <1>5, <1>6

\* The value block b gives a cell it writes is the one of the last transaction
\* that writes it.
LEMMA WriteIsLast ==
  ASSUME TypeOK, ChainInv, NEW c \in Cells, NEW b \in 1 .. Tip,
         NEW i \in WritersOf(b, c), \A j \in WritersOf(b, c) : j <= i
  PROVE  StateAt(b)[c] = chain[b].txs[i][c]
<1>1. b # 0 /\ Tip \in Nat
  BY DEF TypeOK, Tip
<1>2. StateAt(b) = Overlay(StateAt(b - 1), chain[b].txs, DOMAIN chain[b].txs)
  BY <1>1 DEF StateAt, ChainInv
<1>3. Len(chain[b].txs) \in Nat /\ DOMAIN chain[b].txs = 1 .. Len(chain[b].txs)
  BY BlockType, DiffValues
<1>4. Bounded(DOMAIN chain[b].txs)
  BY <1>3 DEF Bounded
<1> QED BY <1>2, <1>4, OverlayTakesLast DEF WritersOf

\* Every step keeps each block's state the one before it with its diffs laid over.
LEMMA ChainStep == TypeOK /\ ChainInv /\ [Next]_vars => ChainInv'
<1> SUFFICES ASSUME TypeOK, ChainInv, [Next]_vars PROVE ChainInv'
  OBVIOUS
<1>1. CASE Mine
  <2>1. /\ Tip' = Tip + 1 /\ Tip \in Nat
        /\ \A b \in 1 .. Tip : chain'[b] = chain[b]
        /\ chain'[Tip'].post
             = Overlay(StateAt(Tip), chain'[Tip'].txs, DOMAIN chain'[Tip'].txs)
    BY <1>1, MineType
  <2>2. \A b \in 0 .. Tip : StateAt(b)' = StateAt(b)
    BY <2>1 DEF StateAt
  <2>3. ASSUME NEW b \in 1 .. Tip'
        PROVE  chain'[b].post
                 = Overlay(StateAt(b - 1)', chain'[b].txs, DOMAIN chain'[b].txs)
    <3>1. CASE b = Tip + 1
      <4>1. b - 1 = Tip /\ StateAt(b - 1)' = StateAt(Tip)
        BY <2>1, <2>2, <3>1
      <4> QED BY <2>1, <3>1, <4>1
    <3>2. CASE b \in 1 .. Tip
      <4>1. chain'[b] = chain[b] /\ StateAt(b - 1)' = StateAt(b - 1)
        BY <2>1, <2>2, <3>2
      <4> QED BY <3>2, <4>1 DEF ChainInv
    <3> QED BY <2>1, <3>1, <3>2
  <2> QED BY <2>3 DEF ChainInv, Overlay, Writers, Latest
<1>2. CASE UNCHANGED chain
  BY <1>2 DEF ChainInv, StateAt, Tip
<1> QED
  BY <1>1, <1>2 DEF Next, vars, chainVars, Subscribe, ForwardHeader, StreamEnds,
     ReadThrough, PopulateDb, ReadHead, CatchUp, SkipHeader, ProcessHeader, Notify,
     RecvFails, RpcPanic, LeaveSpin

\* A growing chain changes nothing of what was written up to an earlier block.
LEMMA FinalWriteStable ==
  ASSUME TypeOK, Mine, NEW c \in Cells, NEW b \in 0 .. Tip,
         FinalWriteCaptured(c, b)'
  PROVE  FinalWriteCaptured(c, b)
<1>1. /\ Tip' = Tip + 1 /\ Tip \in Nat
      /\ \A k \in 1 .. Tip : chain'[k] = chain[k]
  BY MineType
<1>2. applied' = applied
  BY DEF Mine, dbVars
<1>3. ASSUME NEW k \in 1 .. b, NEW i \in DOMAIN chain[k].txs, FinalWrite(k, i, c, b)
      PROVE  Captured(k, i, c)
  <2>1. k \in 1 .. Tip /\ chain'[k] = chain[k]
    BY <1>1
  <2>2. \A l \in k + 1 .. b : chain'[l] = chain[l]
    BY <1>1, <2>1
  <2>3. FinalWrite(k, i, c, b)'
    BY <1>3, <2>1, <2>2 DEF FinalWrite, Writers
  <2>4. Captured(k, i, c)'
    BY <2>1, <2>3 DEF FinalWriteCaptured
  <2> QED BY <1>2, <2>1, <2>4 DEF Captured
<1> QED BY <1>3 DEF FinalWriteCaptured

\* Applying a block leaves coherent every cell whose last write was shown.
LEMMA UpdateCoherent ==
  ASSUME IndInv, chain' = chain,
         NEW b \in Done + 1 .. Tip, UpdateState(b), NEW c \in Tracked,
         db'[c] # None, FinalWriteCaptured(c, b)'
  PROVE  \E v \in b .. Tip : db'[c] = StateAt(v)[c]
<1>0. /\ TypeOK /\ ChainInv /\ ProgressInv /\ AppliedInOrder /\ Coherence
      /\ Tip \in Nat /\ Done \in 0 .. Tip /\ b \in 1 .. Tip /\ c \in Cells
      /\ \A i \in DOMAIN applied : applied[i].block \in 1 .. Done
  BY DoneIsLast DEF IndInv, TypeOK, Tip, Tracked
<1> DEFINE txs == chain[b].txs
           n == Len(txs)
<1>1. n \in Nat /\ DOMAIN txs = 1 .. n /\ txs \in Bodies
  BY <1>0, BlockType, DiffValues
<1>2. PICK ok \in SUBSET DOMAIN txs :
        /\ db' = [d \in Cells |-> IF d \in Tracked
                    THEN Overlay(db, PostFrames(b), ok)[d] ELSE db[d]]
        /\ applied' = Append(applied, [block |-> b, ok |-> ok])
  BY DEF UpdateState, UpdateSlots
<1>3. db'[c] = Overlay(db, PostFrames(b), ok)[c]
  BY <1>0, <1>2
<1>4. \* what was shown of block b, and of the blocks before
      /\ \A k \in 1 .. Tip : \A i : Captured(k, i, c)' /\ k # b => Captured(k, i, c)
      /\ \A i : Captured(b, i, c)' => i \in ok /\ txs[i][c] # Zero
      /\ \A k \in Done + 1 .. b - 1 : \A i : ~ Captured(k, i, c)'
  <2>1. /\ DOMAIN applied' = 1 .. Len(applied) + 1 /\ Len(applied) \in Nat
        /\ \A i \in DOMAIN applied : applied'[i] = applied[i]
        /\ applied'[Len(applied) + 1].block = b
        /\ DOMAIN applied = 1 .. Len(applied)
    BY <1>0, UpdateHistory DEF TypeOK
  <2>2. applied'[Len(applied) + 1].ok = ok
    BY <1>0, <1>2 DEF TypeOK
  <2>3. \A i \in DOMAIN applied' : i \in DOMAIN applied \/ i = Len(applied) + 1
    BY <2>1
  <2>4. \A i \in DOMAIN applied : applied[i].block # b
    BY <1>0
  <2>5. \A k \in Done + 1 .. b - 1 : k # b /\ \A i \in DOMAIN applied : applied[i].block # k
    BY <1>0
  <2> QED BY <2>1, <2>2, <2>3, <2>4, <2>5 DEF Captured
<1>5. CASE WritersOf(b, c) # {}
  <2>1. PICK i \in WritersOf(b, c) : \A j \in WritersOf(b, c) : j <= i
    <3>1. WritersOf(b, c) \in SUBSET (1 .. n)
      BY <1>1 DEF WritersOf, Writers
    <3> QED BY <1>1, <1>5, <3>1, LatestIsMax
  <2>2. FinalWrite(b, i, c, b)' /\ i \in DOMAIN txs /\ c \in DOMAIN txs[i]
    BY <1>0, <2>1 DEF FinalWrite, WritersOf, Writers
  <2>3. i \in ok /\ txs[i][c] # Zero
    BY <1>0, <1>4, <2>2 DEF FinalWriteCaptured
  <2> DEFINE frames == PostFrames(b)
             W == Writers(frames, ok, c)
  <2>4. i \in W /\ frames[i][c] = txs[i][c] /\ \A j \in W : j <= i
    <3>1. c \in DOMAIN frames[i] /\ frames[i][c] = txs[i][c]
      BY <1>0, <2>2, <2>3, FramesType
    <3>2. \A j \in W : j \in WritersOf(b, c)
      BY <1>0, FramesType DEF Writers, WritersOf
    <3> QED BY <2>1, <2>3, <3>1, <3>2 DEF Writers
  <2>5. db'[c] = txs[i][c]
    <3>1. Bounded(ok)
      BY <1>1 DEF Bounded
    <3> HIDE DEF frames
    <3>2. Overlay(db, frames, ok)[c] = frames[i][c]
      BY <1>0, <2>4, <3>1, OverlayTakesLast
    <3> QED BY <1>3, <2>4, <3>2 DEF frames
  <2>6. StateAt(b)[c] = txs[i][c]
    BY <1>0, <2>1, WriteIsLast
  <2> QED BY <1>0, <2>5, <2>6
<1>6. CASE WritersOf(b, c) = {}
  <2>1. db'[c] = db[c]
    <3>1. Writers(PostFrames(b), ok, c) = {}
      BY <1>0, <1>6, FramesType DEF Writers, WritersOf
    <3> QED BY <1>0, <1>3, <3>1, OverlayKeeps
  <2>2. \A l \in Done + 1 .. b : WritersOf(l, c) = {}
    <3> DEFINE G == {l \in Done + 1 .. b - 1 : WritersOf(l, c) # {}}
    <3>1. SUFFICES ASSUME G # {} PROVE FALSE
      BY <1>0, <1>6
    <3>2. PICK l \in G : \A m \in G : m <= l
      <4>1. G \in SUBSET (1 .. Tip)
        BY <1>0
      <4> HIDE DEF G
      <4> QED BY <1>0, <3>1, <4>1, LatestIsMax
    <3>3. l \in 1 .. Tip /\ l \in Done + 1 .. b - 1
      BY <1>0, <3>2
    <3>4. PICK i \in WritersOf(l, c) : \A j \in WritersOf(l, c) : j <= i
      <4> DEFINE m == Len(chain[l].txs)
      <4>1. m \in Nat /\ DOMAIN chain[l].txs = 1 .. m
        BY <1>0, <3>3, BlockType, DiffValues
      <4>2. WritersOf(l, c) \in SUBSET (1 .. m) /\ WritersOf(l, c) # {}
        BY <3>2, <4>1 DEF WritersOf, Writers
      <4> HIDE DEF m
      <4> QED BY <4>1, <4>2, LatestIsMax
    <3>5. \A m \in l + 1 .. b : WritersOf(m, c) = {}
      <4>1. ASSUME NEW m \in l + 1 .. b PROVE WritersOf(m, c) = {}
        <5>1. m = b \/ (m \in Done + 1 .. b - 1 /\ ~ (m <= l))
          BY <1>0, <3>3
        <5> QED BY <1>6, <3>2, <5>1
      <4> QED BY <4>1
    <3>6. FinalWrite(l, i, c, b)' /\ i \in DOMAIN chain[l].txs /\ l \in 1 .. b
      BY <1>0, <3>3, <3>4, <3>5 DEF FinalWrite, WritersOf, Writers
    <3>7. Captured(l, i, c)'
      BY <3>6 DEF FinalWriteCaptured
    <3> QED BY <1>4, <3>3, <3>7
  <2>3. FinalWriteCaptured(c, Done)
    <3>1. ASSUME NEW k \in 1 .. Done, NEW i \in DOMAIN chain[k].txs,
                 FinalWrite(k, i, c, Done)
          PROVE  Captured(k, i, c)
      <4>1. k \in 1 .. b /\ k # b /\ k \in 1 .. Tip
        BY <1>0
      <4>2. \A l \in k + 1 .. b : l \in k + 1 .. Done \/ l \in Done + 1 .. b
        BY <1>0
      <4>3. FinalWrite(k, i, c, b)'
        BY <2>2, <3>1, <4>1, <4>2 DEF FinalWrite, WritersOf
      <4>4. Captured(k, i, c)'
        BY <4>1, <4>3 DEF FinalWriteCaptured
      <4> QED BY <1>4, <4>1, <4>4
    <3> QED BY <3>1 DEF FinalWriteCaptured
  <2>4. PICK v \in Done .. Tip : db[c] = StateAt(v)[c]
    BY <1>0, <2>1, <2>3 DEF Coherence
  <2>5. CASE v \in b .. Tip
    BY <2>1, <2>4, <2>5
  <2>6. CASE v \in Done .. b
    <3>1. v \in 0 .. Tip /\ b \in v .. Tip
      BY <1>0, <2>4, <2>6
    <3>2. \A l \in v + 1 .. b : WritersOf(l, c) = {}
      BY <1>0, <2>2, <2>6
    <3>3. StateAt(b)[c] = StateAt(v)[c]
      BY <1>0, <3>1, <3>2, NoWriteNoChange
    <3> QED BY <1>0, <2>1, <2>4, <3>3
  <2> QED BY <1>0, <2>4, <2>5, <2>6
<1> QED BY <1>5, <1>6

\* Every step keeps the database coherent.
LEMMA CoherenceStep == IndInv /\ [Next]_vars => Coherence'
<1> SUFFICES ASSUME IndInv, [Next]_vars PROVE Coherence'
  OBVIOUS
<1>0. /\ TypeOK /\ ChainInv /\ ProgressInv /\ AppliedInOrder /\ Coherence
      /\ Tip \in Nat /\ Done \in 0 .. Tip /\ Tracked \subseteq Cells
      /\ \A i \in DOMAIN applied : applied[i].block \in 1 .. Done
  BY DoneIsLast DEF IndInv, TypeOK, Tip, Tracked
<1> USE DEF chainVars, loopVars, dbVars, startVars
<1>1. CASE UNCHANGED <<chain, db, applied>>
  <2>1. Tip' = Tip /\ Done' = Done /\ \A v \in Nat : StateAt(v)' = StateAt(v)
    BY <1>1 DEF Tip, Done, StateAt
  <2>2. \A c \in Tracked : FinalWriteCaptured(c, Done)' => FinalWriteCaptured(c, Done)
    BY <1>1, <2>1 DEF FinalWriteCaptured, FinalWrite, Captured, Writers
  <2> QED BY <1>0, <1>1, <2>1, <2>2 DEF Coherence
<1>2. CASE Mine
  <2>1. Tip' = Tip + 1 /\ Done' = Done /\ UNCHANGED <<pc, db>>
    BY <1>0, <1>2, MineType DEF Mine, Done
  <2>2. \A v \in 0 .. Tip : StateAt(v)' = StateAt(v)
    BY <1>0, <1>2, MineType DEF StateAt
  <2>3. SUFFICES ASSUME NEW c \in Tracked, db[c] # None,
                        FinalWriteCaptured(c, Done)'
                 PROVE  \E v \in Done .. Tip + 1 : db[c] = StateAt(v)'[c]
    BY <2>1 DEF Coherence
  <2>4. FinalWriteCaptured(c, Done)
    <3> DEFINE d == Done
    <3>1. FinalWriteCaptured(c, d)' /\ d \in 0 .. Tip /\ d' = d
      BY <1>0, <2>1, <2>3
    <3> QED BY <1>0, <1>2, <2>1, <2>3, <3>1, FinalWriteStable DEF FinalWriteCaptured
  <2>5. PICK v \in Done .. Tip : db[c] = StateAt(v)[c]
    BY <1>0, <2>3, <2>4 DEF Coherence
  <2>6. v \in 0 .. Tip /\ v \in Done .. Tip + 1
    BY <1>0, <2>5
  <2> QED BY <2>2, <2>5, <2>6
<1>3. ASSUME NEW d \in Cells, ReadThrough(d) PROVE Coherence'
  <2>1. UNCHANGED <<chain, applied, pc>> /\ db' = [db EXCEPT ![d] = StateAt(Tip)[d]]
    BY <1>3 DEF ReadThrough
  <2>2. Tip' = Tip /\ Done' = Done /\ \A v \in Nat : StateAt(v)' = StateAt(v)
    BY <2>1 DEF Tip, Done, StateAt
  <2>3. \A c \in Tracked : FinalWriteCaptured(c, Done)' => FinalWriteCaptured(c, Done)
    BY <2>1, <2>2 DEF FinalWriteCaptured, FinalWrite, Captured, Writers
  <2>4. ASSUME NEW c \in Tracked, db'[c] # None, FinalWriteCaptured(c, Done)'
        PROVE  \E v \in Done .. Tip : db'[c] = StateAt(v)[c]
    <3>1. CASE c = d
      <4>1. db'[c] = StateAt(Tip)[c] /\ Tip \in Done .. Tip
        BY <1>0, <2>1, <3>1 DEF TypeOK
      <4> QED BY <4>1
    <3>2. CASE c # d
      <4>1. db'[c] = db[c]
        BY <1>0, <2>1, <3>2 DEF TypeOK
      <4> QED BY <1>0, <2>3, <2>4, <4>1 DEF Coherence
    <3> QED BY <3>1, <3>2
  <2> QED BY <1>0, <2>1, <2>2, <2>4 DEF Coherence
<1>4. CASE PopulateDb
  <2>1. Done = 0 /\ Done' = 0 /\ Tip' = Tip /\ \A v \in Nat : StateAt(v)' = StateAt(v)
    BY <1>0, <1>4 DEF PopulateDb, ProgressInv, Done, Tip, StateAt
  <2>2. ASSUME NEW c \in Tracked, db'[c] # None
        PROVE  \E v \in 0 .. Tip : db'[c] = StateAt(v)[c]
    <3>1. c \in Cells /\ (db'[c] = Genesis[c] \/ db'[c] = db[c])
      BY <1>0, <1>4, <2>2 DEF PopulateDb
    <3>2. CASE db'[c] = Genesis[c]
      <4>1. 0 \in 0 .. Tip /\ StateAt(0) = Genesis
        BY <1>0 DEF StateAt
      <4> QED BY <3>2, <4>1
    <3>3. CASE db'[c] = db[c]
      <4>1. FinalWriteCaptured(c, Done)
        BY <2>1 DEF FinalWriteCaptured
      <4> QED BY <1>0, <2>1, <2>2, <3>3, <4>1 DEF Coherence
    <3> QED BY <3>1, <3>2, <3>3
  <2> QED BY <1>0, <2>1, <2>2 DEF Coherence
<1>5. ASSUME NEW b \in Done + 1 .. Tip, UpdateState(b), chain' = chain
      PROVE  Coherence'
  <2>1. Done' = b /\ Tip' = Tip
    BY <1>0, <1>5, UpdateHistory DEF Tip
  <2>2. \A v \in Nat : StateAt(v)' = StateAt(v)
    BY <1>5 DEF StateAt
  <2>3. ASSUME NEW c \in Tracked, db'[c] # None, FinalWriteCaptured(c, Done)'
        PROVE  \E v \in b .. Tip : db'[c] = StateAt(v)[c]
    <3>1. FinalWriteCaptured(c, b)'
      BY <2>1, <2>3 DEF FinalWriteCaptured, FinalWrite
    <3> QED BY <1>5, <2>3, <3>1, UpdateCoherent
  <2>4. \A v \in b .. Tip : v \in Nat
    BY <1>0
  <2> QED BY <2>1, <2>2, <2>3, <2>4 DEF Coherence
<1>6. CASE CatchUp
  <2>1. block \in Done + 1 .. Tip /\ UpdateState(block) /\ chain' = chain
    BY <1>0, <1>6 DEF CatchUp, ProgressInv, TypeOK
  <2> QED BY <1>5, <2>1
<1>7. CASE ProcessHeader
  <2>1. /\ Len(feed) \in Nat /\ pos \in 0 .. Len(feed) /\ DOMAIN feed = 1 .. Len(feed)
        /\ feed \in Seq(Nat) /\ last_synced \in Nat
    BY <1>0 DEF TypeOK
  <2>2. pos + 1 \in 1 .. Len(feed) /\ feed[pos + 1] > last_synced /\ Done = last_synced
    BY <1>0, <1>7, <2>1 DEF ProcessHeader, NewBlock, ProgressInv
  <2>3. feed[pos + 1] \in Done + 1 .. Tip
    BY <1>0, <2>1, <2>2 DEF ProgressInv
  <2>4. UpdateState(feed[pos + 1]) /\ chain' = chain
    BY <1>7 DEF ProcessHeader
  <2> QED BY <1>5, <2>3, <2>4
<1> QED
  BY <1>1, <1>2, <1>3, <1>4, <1>6, <1>7 DEF Next, vars, Subscribe, ForwardHeader,
     StreamEnds, ReadHead, SkipHeader, Notify, RecvFails, RpcPanic, LeaveSpin

\* The parts together are inductive.
LEMMA Inductive ==
  /\ Init => IndInv
  /\ IndInv /\ [Next]_vars => IndInv'
<1>1. Init => IndInv
  <2> SUFFICES ASSUME Init PROVE IndInv
    OBVIOUS
  <2>1. Tip = 0 /\ \A c \in Cells : db[c] = None
    BY DEF Init, Tip
  <2>2. ChainInv /\ Coherence
    BY <2>1 DEF ChainInv, Coherence, Tracked
  <2> QED BY <2>2, InitType, InitProgress DEF IndInv
<1>2. IndInv /\ [Next]_vars => IndInv'
  BY TypeStep, ProgressStep, ChainStep, CoherenceStep DEF IndInv
<1> QED BY <1>1, <1>2

\* The database follows the chain: whatever the number of blocks, accounts and
\* slots, however catch-up, stream and read-through interleave and whichever
\* headers, traces or slots are lost, a cached cell of a tracked pool is out of
\* date only if its last write was never shown to the bot.
THEOREM DatabaseCoherent == Spec => []Coherence
<1>1. Spec => []IndInv
  BY Inductive, PTL DEF Spec
<1>2. IndInv => Coherence
  BY DEF IndInv
<1> QED BY <1>1, <1>2, PTL

(***************************************************************************)
(* Every block applied from the stream is announced.                       *)
(***************************************************************************)

\* At the start nothing is applied, so nothing is to be announced.
LEMMA InitStream == Init => StreamInv /\ EveryStreamedBlockAnnounced
<1> SUFFICES ASSUME Init PROVE StreamInv /\ EveryStreamedBlockAnnounced
  OBVIOUS
<1>1. Len(address_tx) = 0 /\ Len(applied) = 0 /\ Unsent = 0
  BY EmptySeq DEF Init, Unsent
<1> QED BY <1>1 DEF Init, StreamInv, EveryStreamedBlockAnnounced

\* Every step keeps the announced blocks the last ones applied.
LEMMA StreamStep ==
  /\ TypeOK /\ ProgressInv /\ AppliedInOrder /\ StreamInv
  /\ EveryStreamedBlockAnnounced /\ [Next]_vars
  => StreamInv' /\ EveryStreamedBlockAnnounced'
<1> SUFFICES ASSUME TypeOK, ProgressInv, AppliedInOrder, StreamInv,
                    EveryStreamedBlockAnnounced, [Next]_vars
             PROVE  StreamInv' /\ EveryStreamedBlockAnnounced'
  OBVIOUS
<1> DEFINE m == Len(applied)
           n == Len(address_tx)
<1>0. /\ m \in Nat /\ n \in Nat /\ DOMAIN applied = 1 .. m
      /\ address_tx \in Seq([pools : SUBSET Pools, block : Nat])
      /\ n + Unsent <= m
      /\ \A i \in 1 .. n : address_tx[i].block = applied[m - n + i - Unsent].block
  BY DEF TypeOK, StreamInv, EveryStreamedBlockAnnounced, Unsent
<1> USE DEF chainVars, loopVars, dbVars, startVars
<1>1. \* steps that apply and announce nothing
      ASSUME UNCHANGED <<applied, address_tx>>, pc # "notify", pc' # "notify",
             pc' \in {"init", "head", "catchup"} => pc \in {"init", "head", "catchup"}
      PROVE  StreamInv' /\ EveryStreamedBlockAnnounced'
  BY <1>1 DEF StreamInv, EveryStreamedBlockAnnounced, Unsent
<1>2. CASE UNCHANGED <<applied, address_tx, pc>>
  BY <1>2 DEF StreamInv, EveryStreamedBlockAnnounced, Unsent
<1>3. CASE CatchUp
  <2>1. block \in Done + 1 .. Tip /\ UpdateState(block) /\ n = 0
    <3>1. Tip \in Nat /\ current_block \in 0 .. Tip /\ block \in 0 .. Tip
      BY DEF TypeOK, Tip
    <3>2. Done = block - 1 /\ block <= current_block /\ UpdateState(block)
      BY <1>3 DEF CatchUp, ProgressInv
    <3>3. n = 0
      BY <1>3, EmptySeq DEF CatchUp, StreamInv
    <3>4. Done \in 0 .. Tip
      BY DoneIsLast
    <3> HIDE DEF n
    <3>5. block \in Done + 1 .. Tip
      BY <3>1, <3>2, <3>4
    <3> QED BY <3>2, <3>3, <3>5
  <2>2. Len(applied') = m + 1
    BY <2>1, UpdateHistory
  <2>3. pc' \in {"catchup", "head"} /\ address_tx' = address_tx /\ address_tx = <<>>
    BY <1>3 DEF CatchUp, StreamInv
  <2> QED BY <1>0, <2>1, <2>2, <2>3 DEF StreamInv, EveryStreamedBlockAnnounced, Unsent
<1>4. CASE ProcessHeader
  <2>0. /\ pos + 1 \in 1 .. Len(feed) /\ Len(feed) \in Nat /\ feed \in Seq(Nat)
        /\ DOMAIN feed = 1 .. Len(feed) /\ last_synced \in Nat /\ Tip \in Nat
    <3>1. feed \in Seq(Nat) /\ pos \in 0 .. Len(feed) /\ last_synced \in Nat /\ Tip \in Nat
      BY DEF TypeOK, Tip
    <3>2. pos < Len(feed)
      BY <1>4 DEF ProcessHeader
    <3> QED BY <3>1, <3>2
  <2>1. feed[pos + 1] \in Done + 1 .. Tip /\ UpdateState(feed[pos + 1])
    BY <1>4, <2>0 DEF ProcessHeader, NewBlock, ProgressInv
  <2>2. Len(applied') = m + 1 /\ \A i \in DOMAIN applied : applied'[i] = applied[i]
    BY <2>1, UpdateHistory
  <2>3. address_tx' = address_tx /\ pc = "recv" /\ pc' = "notify"
    BY <1>4 DEF ProcessHeader
  <2>4. ASSUME NEW i \in 1 .. n
        PROVE  address_tx[i].block = applied'[(m + 1) - n + i - 1].block
    <3>1. m - n + i \in DOMAIN applied /\ (m + 1) - n + i - 1 = m - n + i
      BY <1>0, <2>3 DEF Unsent
    <3>2. address_tx[i].block = applied[m - n + i - Unsent].block /\ Unsent = 0
      BY <1>0, <2>3 DEF Unsent
    <3>3. m - n + i - 0 = m - n + i
      BY <1>0
    <3> QED BY <2>2, <3>1, <3>2, <3>3
  <2> QED
    BY <1>0, <2>2, <2>3, <2>4 DEF StreamInv, EveryStreamedBlockAnnounced, Unsent
<1>5. CASE Notify
  <2> DEFINE e == [pools |-> updated_pools, block |-> block]
  <2>1. applied' = applied /\ pc = "notify" /\ pc' = "recv" /\ Done = block
        /\ address_tx' = Append(address_tx, e)
    BY <1>5 DEF Notify, ProgressInv
  <2>2. e \in [pools : SUBSET Pools, block : Nat] /\ e.block = block
    BY DEF TypeOK, Tip
  <2> HIDE DEF e
  <2>3. /\ Len(address_tx') = n + 1 /\ address_tx'[n + 1] = e
        /\ \A i \in 1 .. n : address_tx'[i] = address_tx[i]
    BY <1>0, <2>1, <2>2, AppendProperties
  <2>4. m >= 1 /\ n + 1 <= m /\ applied[m].block = block
    BY <1>0, <2>1, EmptySeq DEF Done, Unsent
  <2>5. ASSUME NEW i \in 1 .. n + 1
        PROVE  address_tx'[i].block = applied[m - (n + 1) + i].block
    <3>1. CASE i \in 1 .. n
      <4>1. m - n + i - Unsent = m - (n + 1) + i
        BY <1>0, <2>1 DEF Unsent
      <4> QED BY <1>0, <2>3, <3>1, <4>1
    <3>2. CASE i = n + 1
      <4>1. m - (n + 1) + i = m
        BY <1>0, <3>2
      <4> QED BY <2>2, <2>3, <2>4, <3>2, <4>1
    <3> QED BY <1>0, <3>1, <3>2
  <2>6. \A i \in 1 .. n + 1 : m - (n + 1) + i - 0 = m - (n + 1) + i
    BY <1>0
  <2> QED
    BY <1>0, <2>1, <2>3, <2>4, <2>5, <2>6
    DEF StreamInv, EveryStreamedBlockAnnounced, Unsent
<1>6. CASE ReadHead
  BY <1>1, <1>6 DEF ReadHead
<1>7. CASE PopulateDb
  BY <1>1, <1>7 DEF PopulateDb
<1>8. CASE RecvFails \/ RpcPanic
  BY <1>1, <1>8 DEF RecvFails, RpcPanic
<1> QED
  BY <1>2, <1>3, <1>4, <1>5, <1>6, <1>7, <1>8 DEF Next, vars, Mine, Subscribe,
     ForwardHeader, StreamEnds, ReadThrough, SkipHeader, LeaveSpin

\* The searcher hears of every block the updater took from the stream, once, in
\* the order the blocks were applied, however many catch-up applied before.
THEOREM BlocksAnnounced == Spec => []EveryStreamedBlockAnnounced
<1> DEFINE Inv == TypeOK /\ ProgressInv /\ AppliedInOrder
                  /\ StreamInv /\ EveryStreamedBlockAnnounced
<1>1. Init => Inv
  BY InitType, InitProgress, InitStream
<1>2. Inv /\ [Next]_vars => Inv'
  BY TypeStep, ProgressStep, StreamStep
<1> QED BY <1>1, <1>2, PTL DEF Spec

(***************************************************************************)
(* What the search thread is promised.                                     *)
(***************************************************************************)

\* The flag that main waits for says where the updater is.
FlagInv ==
  /\ pc \in {"init", "head", "catchup"} => ~caught_up
  /\ pc \in {"recv", "notify"} => caught_up

\* The flag is set on the way out of the catch-up, to which the updater never returns.
LEMMA FlagStep == TypeOK /\ FlagInv /\ [Next]_vars => FlagInv'
<1> USE DEF FlagInv
<1>1. CASE Mine \/ Subscribe \/ ForwardHeader \/ StreamEnds \/ SkipHeader \/ LeaveSpin \/ UNCHANGED vars
  BY <1>1 DEF Mine, Subscribe, ForwardHeader, StreamEnds, SkipHeader, LeaveSpin, vars, startVars
<1>2. CASE (\E c \in Cells : ReadThrough(c)) \/ PopulateDb
  BY <1>2 DEF ReadThrough, PopulateDb, startVars
<1>3. CASE ReadHead
  BY <1>3 DEF ReadHead
<1>4. CASE CatchUp
  BY <1>4 DEF CatchUp, startVars
<1>5. CASE ProcessHeader \/ Notify
  BY <1>5 DEF ProcessHeader, Notify, startVars
<1>6. CASE RecvFails \/ RpcPanic
  BY <1>6 DEF RecvFails, RpcPanic, startVars
<1> QED
  BY <1>1, <1>2, <1>3, <1>4, <1>5, <1>6 DEF Next

\* A pool that update_state does not return has kept all of its cells.
LEMMA UnnamedUntouched ==
  ASSUME TypeOK, NEW b \in 1 .. Tip, UpdateState(b),
         NEW p \in Pools \ updated_pools', NEW c \in Cells, Owner[c] = p
  PROVE  db'[c] = db[c]
<1>1. PICK ok \in SUBSET DOMAIN chain[b].txs :
        /\ db' = UpdateSlots(PostFrames(b), ok)
        /\ updated_pools' = {Owner[d] : d \in {e \in Tracked : Writers(chain[b].txs, ok, e) # {}}}
  BY DEF UpdateState
<1>2. c \in Tracked
  BY DEF Tracked
<1>3. Writers(chain[b].txs, ok, c) = {}
  BY <1>1, <1>2
<1>4. Writers(PostFrames(b), ok, c) = {}
  <2>1. \A i \in ok : DOMAIN PostFrames(b)[i] \subseteq DOMAIN chain[b].txs[i]
    BY <1>1 DEF PostFrames, Post
  <2> QED BY <1>3, <2>1 DEF Writers
<1>5. Overlay(db, PostFrames(b), ok)[c] = db[c]
  BY <1>4, OverlayKeeps
<1> QED BY <1>1, <1>2, <1>5 DEF UpdateSlots

\* What is held of a pool of which no cell has changed is what was.
LEMMA HeldUnchanged ==
  ASSUME NEW p, \A c \in Cells : Owner[c] = p => db'[c] = db[c]
  PROVE  [c \in {d \in Cells : Owner[d] = p /\ db'[d] # None} |-> db'[c]]
         = [c \in {d \in Cells : Owner[d] = p /\ db[d] # None} |-> db[c]]
<1>1. {d \in Cells : Owner[d] = p /\ db'[d] # None} = {d \in Cells : Owner[d] = p /\ db[d] # None}
  OBVIOUS
<1> QED BY <1>1

\* Every step of the market state is one of what the search thread is promised, or none.
LEMMA TouchedStep ==
  TypeOK /\ ProgressInv /\ AppliedInOrder /\ FlagInv /\ [Next]_vars
    => [Touched!Next]_(Touched!vars)
<1> SUFFICES ASSUME TypeOK, ProgressInv, AppliedInOrder, FlagInv, [Next]_vars
             PROVE  [Touched!Next]_(Touched!vars)
  OBVIOUS
<1> DEFINE Held(p)  == [c \in {d \in Cells : Owner[d] = p /\ db[d] # None} |-> db[c]]
           Owed     == IF pc = "notify" THEN {[pools |-> updated_pools, block |-> block]}
                       ELSE {}
<1>0. Tip \in Nat /\ Done \in 0 .. Tip /\ caught_up \in BOOLEAN
  BY DoneIsLast DEF TypeOK, Tip
<1> USE DEF chainVars, loopVars, dbVars, startVars
<1>1. \* steps that touch neither database nor events
      ASSUME UNCHANGED <<db, caught_up, applied, address_tx>>, Owed' = Owed
      PROVE  UNCHANGED Touched!vars
  BY <1>1 DEF Touched!vars, Done
<1>2. CASE Mine \/ Subscribe \/ ForwardHeader \/ StreamEnds \/ SkipHeader \/ LeaveSpin \/ UNCHANGED vars
  <2>1. UNCHANGED <<db, caught_up, applied, address_tx, pc, updated_pools, block>>
    BY <1>2 DEF Mine, Subscribe, ForwardHeader, StreamEnds, SkipHeader, LeaveSpin, vars
  <2> QED BY <1>1, <2>1
<1>3. CASE RecvFails \/ RpcPanic
  <2>1. UNCHANGED <<db, caught_up, applied, address_tx>> /\ pc # "notify" /\ pc' # "notify"
    BY <1>3 DEF RecvFails, RpcPanic
  <2> QED BY <1>1, <2>1
<1>4. \* what may be done before the search starts
      ASSUME ~caught_up, caught_up' \in BOOLEAN, Done' \in Nat, Done' >= Done,
             pc # "notify", pc' # "notify", address_tx' = address_tx
      PROVE  Touched!Prepare
  BY <1>4 DEF Touched!Prepare
<1>5. ASSUME NEW x \in Cells, ReadThrough(x)
      PROVE  Touched!Load \/ Touched!Prepare
  <2>1. /\ UNCHANGED <<caught_up, applied, address_tx, pc, updated_pools, block>>
        /\ db[x] = None /\ db' = [db EXCEPT ![x] = StateAt(Tip)[x]]
    BY <1>5 DEF ReadThrough
  <2>2. Done' = Done
    BY <2>1 DEF Done
  <2>3. CASE ~caught_up
    BY <1>0, <1>4, <2>1, <2>2, <2>3 DEF FlagInv
  <2>4. CASE caught_up
    <3>1. StateAt(Tip)[x] # None
      BY <1>0, StateType, CellsAssumption
    <3>2. ASSUME NEW c \in Cells, db[c] # None PROVE db'[c] = db[c] /\ db'[c] # None
      BY <2>1, <3>2 DEF TypeOK
    <3> QED BY <2>1, <2>2, <2>4, <3>2 DEF Touched!Load
  <2> QED BY <2>3, <2>4
<1>6. CASE PopulateDb \/ ReadHead
  <2>1. /\ ~caught_up /\ caught_up' \in BOOLEAN /\ applied' = applied
        /\ pc # "notify" /\ pc' # "notify" /\ address_tx' = address_tx
    BY <1>0, <1>6 DEF PopulateDb, ReadHead, FlagInv
  <2> QED BY <1>0, <1>4, <2>1 DEF Done, Touched!Next
<1>7. CASE CatchUp
  <2>1. /\ ~caught_up /\ caught_up' = caught_up
        /\ pc # "notify" /\ pc' # "notify" /\ address_tx' = address_tx
    BY <1>7 DEF CatchUp, FlagInv
  <2>2. block \in Done + 1 .. Tip /\ UpdateState(block)
    <3>1. Tip \in Nat /\ current_block \in 0 .. Tip /\ block \in 0 .. Tip
      BY DEF TypeOK, Tip
    <3>2. Done = block - 1 /\ block <= current_block /\ UpdateState(block)
      BY <1>7 DEF CatchUp, ProgressInv
    <3> QED BY <1>0, <3>1, <3>2
  <2>3. Done' = block
    BY <2>2, UpdateHistory
  <2> QED BY <1>0, <1>4, <2>1, <2>2, <2>3 DEF Touched!Next
<1>8. CASE ProcessHeader
  <2> DEFINE b == feed[pos + 1]
  <2>1. /\ pos + 1 \in 1 .. Len(feed) /\ feed \in Seq(Nat) /\ last_synced \in Nat
        /\ DOMAIN feed = 1 .. Len(feed)
    <3>1. feed \in Seq(Nat) /\ pos \in 0 .. Len(feed) /\ last_synced \in Nat
      BY <1>0 DEF TypeOK
    <3>2. pos < Len(feed)
      BY <1>8 DEF ProcessHeader
    <3> QED BY <3>1, <3>2
  <2>2. b \in Done + 1 .. Tip /\ UpdateState(b)
    BY <1>0, <1>8, <2>1 DEF ProcessHeader, NewBlock, ProgressInv
  <2>3. /\ pc = "recv" /\ pc' = "notify" /\ block' = b
        /\ UNCHANGED <<caught_up, address_tx>> /\ caught_up
    BY <1>8 DEF ProcessHeader, FlagInv
  <2> HIDE DEF b
  <2>4. Done' = b
    BY <2>2, UpdateHistory
  <2>5. b \in 1 .. Tip
    BY <1>0, <2>2
  <2>6. updated_pools' \in SUBSET Pools
    BY <2>2, <2>5, UpdateType
  <2>7. ASSUME NEW p \in Pools \ updated_pools'
        PROVE  [c \in {d \in Cells : Owner[d] = p /\ db'[d] # None} |-> db'[c]]
               = [c \in {d \in Cells : Owner[d] = p /\ db[d] # None} |-> db[c]]
    BY <2>2, <2>5, UnnamedUntouched, HeldUnchanged
  <2>8. Touched!Update
    BY <1>0, <2>2, <2>3, <2>4, <2>6, <2>7 DEF Touched!Update
  <2> QED BY <2>8 DEF Touched!Next
<1>9. CASE Notify
  <2>1. /\ pc = "notify" /\ pc' = "recv"
        /\ address_tx' = Append(address_tx, [pools |-> updated_pools, block |-> block])
        /\ UNCHANGED <<db, applied, caught_up>>
    BY <1>9 DEF Notify
  <2>2. Touched!Tell
    BY <2>1 DEF Touched!Tell, Done
  <2> QED BY <2>2 DEF Touched!Next
<1> QED
  BY <1>2, <1>3, <1>5, <1>6, <1>7, <1>8, <1>9 DEF Next, Touched!Next

\* Once main has let the search thread go, the database changes for it a block at a time,
\* and it is told of every block and of every pool whose cached cells the block changed,
\* before the next: for any blocks, traces, failures and reads in between.
THEOREM TouchedImplemented == Spec => ImplementsPoolsTouched
<1> DEFINE Inv == TypeOK /\ ProgressInv /\ AppliedInOrder /\ FlagInv
<1>1. Init => Inv
  <2>1. Init => FlagInv
    BY DEF Init, FlagInv
  <2> QED BY <2>1, InitType, InitProgress
<1>2. Inv /\ [Next]_vars => Inv'
  BY TypeStep, ProgressStep, FlagStep
<1>3. Init => Touched!Init
  BY DEF Init, Touched!Init, Done
<1>4. Inv /\ [Next]_vars => [Touched!Next]_(Touched!vars)
  BY TouchedStep
<1> QED BY <1>1, <1>2, <1>3, <1>4, PTL DEF Spec, ImplementsPoolsTouched, Touched!Spec
=============================================================================

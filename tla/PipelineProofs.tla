--------------------------- MODULE PipelineProofs ---------------------------
(***************************************************************************)
(* Proofs about the workers as one system: types, and that a block is      *)
(* traded once at most and never after a later one, for any number of      *)
(* blocks, worker threads (four or more) and headers on the channel.      *)
(***************************************************************************)
EXTENDS Pipeline, FiniteSetTheorems, SequenceTheorems, TLAPS

(***************************************************************************)
(* The inductive invariant.                                                *)
(***************************************************************************)

Increasing(s) == \A i, j \in DOMAIN s : i < j => s[i] < s[j]

\* Blocks on their way: whatever a worker has in hand is later than what it has sent
\* on, and earlier than what waits for it.
AtSearcher ==
  /\ Increasing(address_rx)
  /\ updater \in {"trace", "lock"} => event < cursor.updater
  /\ \A i \in DOMAIN address_rx :
       /\ event < address_rx[i]
       /\ updater \in {"trace", "lock"} => address_rx[i] < cursor.updater
Searching == searcher \in {"search", "fetch"}
AtSimulator ==
  /\ Increasing(paths_rx) /\ path <= event
  /\ Searching => path < event
  /\ \A i \in DOMAIN paths_rx :
       /\ path < paths_rx[i]
       /\ Searching => paths_rx[i] < event
Quoting == simulator \in {"quote", "fetch"}
AtSender ==
  /\ Increasing(valid_rx)
  /\ Quoting => 0 < path
  /\ \A i \in DOMAIN valid_rx : valid_rx[i] <= path /\ (Quoting => valid_rx[i] < path)
  /\ \A i \in DOMAIN posted :
       /\ posted[i].block <= path /\ (Quoting => posted[i].block < path)
       /\ \A j \in DOMAIN valid_rx : posted[i].block < valid_rx[j]

IndInv ==
  TypeOK /\ AtSearcher /\ AtSimulator /\ AtSender /\ TradedOncePerBlock

(***************************************************************************)
(* Sequences and sets.                                                     *)
(***************************************************************************)

\* What is appended to an increasing sequence, if it is above all of it, leaves it
\* increasing.
LEMMA AppendIncreasing ==
  ASSUME NEW s \in Seq(Int), NEW n \in Int, Increasing(s),
         \A i \in DOMAIN s : s[i] < n
  PROVE  Increasing(Append(s, n))
<1>1. /\ Len(Append(s, n)) = Len(s) + 1 /\ DOMAIN Append(s, n) = 1 .. Len(s) + 1
      /\ DOMAIN s = 1 .. Len(s)
  OBVIOUS
<1>2. \A i \in 1 .. Len(s) : Append(s, n)[i] = s[i] /\ s[i] \in Int
  OBVIOUS
<1>3. Append(s, n)[Len(s) + 1] = n
  OBVIOUS
<1>4. SUFFICES ASSUME NEW i \in DOMAIN Append(s, n), NEW j \in DOMAIN Append(s, n), i < j
               PROVE  Append(s, n)[i] < Append(s, n)[j]
  BY DEF Increasing
<1>5. Len(s) \in Nat
  OBVIOUS
<1>6. CASE j = Len(s) + 1
  <2>1. i \in 1 .. Len(s)
    BY <1>1, <1>5, <1>6, <1>4
  <2> QED BY <2>1, <1>1, <1>2, <1>3, <1>6
<1>7. CASE j # Len(s) + 1
  <2>1. i \in 1 .. Len(s) /\ j \in 1 .. Len(s)
    BY <1>1, <1>5, <1>7, <1>4
  <2> QED BY <2>1, <1>1, <1>2, <1>4 DEF Increasing
<1> QED BY <1>6, <1>7

\* The tail of an increasing sequence is increasing, and above its head.
LEMMA TailIncreasing ==
  ASSUME NEW s \in Seq(Int), s # <<>>, Increasing(s)
  PROVE  /\ Increasing(Tail(s))
         /\ \A i \in DOMAIN Tail(s) : i + 1 \in DOMAIN s /\ Tail(s)[i] = s[i + 1]
         /\ 1 \in DOMAIN s /\ Head(s) = s[1]
         /\ \A i \in DOMAIN Tail(s) : Head(s) < Tail(s)[i]
<1>1. Len(s) \in Nat \ {0} /\ DOMAIN s = 1 .. Len(s)
  OBVIOUS
<1>2. Len(Tail(s)) = Len(s) - 1 /\ DOMAIN Tail(s) = 1 .. Len(s) - 1
  OBVIOUS
<1>3. \A i \in DOMAIN Tail(s) : i + 1 \in DOMAIN s /\ Tail(s)[i] = s[i + 1]
  BY <1>1, <1>2
<1>4. 1 \in DOMAIN s /\ Head(s) = s[1]
  BY <1>1
<1>5. \A i, j \in DOMAIN Tail(s) : i < j => Tail(s)[i] < Tail(s)[j]
  BY <1>1, <1>2, <1>3 DEF Increasing
<1>6. \A i \in DOMAIN Tail(s) : Head(s) < Tail(s)[i]
  BY <1>1, <1>2, <1>3, <1>4 DEF Increasing
<1> QED BY <1>3, <1>4, <1>5, <1>6 DEF Increasing

\* A sequence over a set is one over a larger set.
LEMMA SeqGrows ==
  ASSUME NEW S, NEW T, S \subseteq T, NEW s \in Seq(S)
  PROVE  s \in Seq(T)
OBVIOUS

\* The elements of a sequence over a set are in it.
LEMMA Elements ==
  ASSUME NEW S, NEW s \in Seq(S)
  PROVE  \A i \in DOMAIN s : s[i] \in S
OBVIOUS

\* What was posted keeps its type when blocks and headers go on.
LEMMA PostedGrows ==
  ASSUME NEW e \in Nat, NEW f \in Nat, NEW n \in Nat, NEW m \in Nat, e <= f, n <= m,
         NEW s \in Seq([block : 1 .. e, fee : 0 .. n])
  PROVE  s \in Seq([block : 1 .. f, fee : 0 .. m])
<1> DEFINE S == [block : 1 .. e, fee : 0 .. n]
           T == [block : 1 .. f, fee : 0 .. m]
<1>1. S \subseteq T
  OBVIOUS
<1>2. s \in Seq(S)
  OBVIOUS
<1> HIDE DEF S, T
<1>3. s \in Seq(T)
  BY <1>1, <1>2, SeqGrows
<1> QED BY <1>3 DEF T

\* What is in a sequence after n is appended was in it before, or is n.
LEMMA AppendElements ==
  ASSUME NEW S, NEW s \in Seq(S), NEW n \in S
  PROVE  /\ Append(s, n) \in Seq(S)
         /\ \A i \in DOMAIN Append(s, n) :
              (i \in DOMAIN s /\ Append(s, n)[i] = s[i]) \/ Append(s, n)[i] = n
OBVIOUS

\* The tasks that keep their thread are three at most, and there are more threads.
LEMMA ThreadsSuffice ==
  ASSUME NEW S \in SUBSET OnRuntime
  PROVE  Cardinality(S) < Threads
<1>1. /\ IsFiniteSet({"updater"}) /\ Cardinality({"updater"}) = 1
  BY FS_Singleton
<1>2. /\ IsFiniteSet({"updater"} \cup {"simulator"})
      /\ Cardinality({"updater"} \cup {"simulator"}) = 2
  BY <1>1, FS_AddElement
<1>3. /\ IsFiniteSet({"updater"} \cup {"simulator"} \cup {"sender"})
      /\ Cardinality({"updater"} \cup {"simulator"} \cup {"sender"}) = 3
  BY <1>2, FS_AddElement
<1>4. {"updater"} \cup {"simulator"} \cup {"sender"} = OnRuntime
  BY DEF OnRuntime
<1>5. IsFiniteSet(OnRuntime) /\ Cardinality(OnRuntime) = 3
  BY <1>3, <1>4
<1>6. Cardinality(S) <= 3 /\ Cardinality(S) \in Nat
  BY <1>5, FS_Subset, FS_CardinalityType
<1> QED BY <1>6, ThreadsAssumption

\* So it is in every state.
LEMMA HoldingBounded == FreeWorker /\ FreeWorker'
<1>1. Holding \in SUBSET OnRuntime /\ Holding' \in SUBSET OnRuntime
  BY DEF Holding
<1> QED BY <1>1, ThreadsSuffice DEF FreeWorker

(***************************************************************************)
(* The invariant is inductive.                                             *)
(***************************************************************************)

\* It holds at the start: nothing is on its way.
LEMMA InitInv == Init => IndInv
<1> SUFFICES ASSUME Init PROVE IndInv
  OBVIOUS
<1>1. TypeOK
  <2>1. cursor \in [{"gas", "updater"} -> 0 .. streamed] /\ base_fee = cursor.gas
    BY DEF Init
  <2>2. cursor.updater = 0
    BY DEF Init
  <2>3. /\ address_rx \in Seq(1 .. cursor.updater) /\ paths_rx \in Seq(1 .. event)
        /\ valid_rx \in Seq(1 .. event)
        /\ posted \in Seq([block : 1 .. event, fee : 0 .. streamed])
    BY DEF Init
  <2>4. mined \in 0 .. MaxBlocks /\ streamed \in 0 .. mined
    BY BoundAssumption DEF Init
  <2>5. event \in 0 .. cursor.updater /\ searched \in 0 .. event /\ path \in 0 .. event
    BY <2>2 DEF Init
  <2> QED BY <2>1, <2>3, <2>4, <2>5, HoldingBounded DEF Init, TypeOK, Gone
<1>2. AtSearcher /\ AtSimulator /\ AtSender /\ TradedOncePerBlock
  BY DEF Init, AtSearcher, AtSimulator, AtSender, TradedOncePerBlock, Increasing, Quoting, Searching
<1> QED BY <1>1, <1>2 DEF IndInv

\* The order of the blocks is about these variables only.
orderVars == <<address_rx, updater, event, cursor.updater, paths_rx, path, searcher, valid_rx,
               simulator, posted>>

LEMMA OrderUnchanged ==
  ASSUME IndInv, UNCHANGED orderVars
  PROVE  AtSearcher' /\ AtSimulator' /\ AtSender' /\ TradedOncePerBlock'
BY DEF IndInv, orderVars, AtSearcher, AtSimulator, Searching, AtSender, TradedOncePerBlock,
       Increasing, Quoting

\* The numbers in the channels and in hand.
LEMMA Numbers ==
  ASSUME TypeOK
  PROVE  /\ cursor.updater \in Nat /\ event \in Nat /\ path \in Nat /\ streamed \in Nat
         /\ address_rx \in Seq(Int) /\ paths_rx \in Seq(Int) /\ valid_rx \in Seq(Int)
         /\ \A i \in DOMAIN address_rx : address_rx[i] \in 1 .. cursor.updater
         /\ \A i \in DOMAIN paths_rx : paths_rx[i] \in 1 .. event
         /\ \A i \in DOMAIN valid_rx : valid_rx[i] \in 1 .. event
         /\ \A i \in DOMAIN posted : posted[i].block \in 1 .. event
<1>1. cursor.updater \in Nat /\ event \in Nat /\ path \in Nat /\ streamed \in Nat
  BY DEF TypeOK
<1>2. address_rx \in Seq(1 .. cursor.updater)
  BY DEF TypeOK
<1>3. paths_rx \in Seq(1 .. event) /\ valid_rx \in Seq(1 .. event)
  BY DEF TypeOK
<1>4. posted \in Seq([block : 1 .. event, fee : 0 .. streamed])
  BY DEF TypeOK
<1>5. 1 .. event \subseteq Int /\ 1 .. cursor.updater \subseteq Int
  BY <1>1
<1>6. address_rx \in Seq(Int) /\ paths_rx \in Seq(Int) /\ valid_rx \in Seq(Int)
  BY ONLY <1>2, <1>3, <1>5, SeqGrows
<1>7. \A i \in DOMAIN posted : posted[i] \in [block : 1 .. event, fee : 0 .. streamed]
  BY ONLY <1>4, Elements
<1>8. \A i \in DOMAIN posted : posted[i].block \in 1 .. event
  BY ONLY <1>7
<1>9. \A i \in DOMAIN address_rx : address_rx[i] \in 1 .. cursor.updater
  BY ONLY <1>2, Elements
<1>10. /\ \A i \in DOMAIN paths_rx : paths_rx[i] \in 1 .. event
       /\ \A i \in DOMAIN valid_rx : valid_rx[i] \in 1 .. event
  BY ONLY <1>3, Elements
<1> QED BY <1>1, <1>6, <1>8, <1>9, <1>10

\* The chain, the stream and the gas station only move what is yet to be received.
LEMMA StreamStep ==
  ASSUME IndInv, Mine \/ StreamBlock \/ StreamEnds \/ Gas
  PROVE  IndInv'
<1>1. TypeOK
  BY DEF IndInv
<1>2. UNCHANGED orderVars
  <2>1. cursor'.updater = cursor.updater
    BY <1>1 DEF TypeOK, Mine, StreamBlock, StreamEnds, Gas, UpdateGas, GasEnds
  <2> QED BY <2>1 DEF Mine, StreamBlock, StreamEnds, Gas, UpdateGas, GasEnds, orderVars,
                      searcherVars, simVars, senderVars
<1>3. TypeOK'
  <2> USE <1>1, HoldingBounded, BoundAssumption
      DEF TypeOK, gasVars, searcherVars, simVars, senderVars, chainVars
  <2>1. CASE Mine
    BY <2>1 DEF Mine
  <2>2. CASE StreamBlock
    <3>1. event \in Nat /\ streamed \in Nat /\ streamed' \in Nat /\ streamed <= streamed'
      BY <2>2 DEF StreamBlock
    <3>3. posted' \in Seq([block : 1 .. event', fee : 0 .. streamed'])
      <4>1. posted \in Seq([block : 1 .. event, fee : 0 .. streamed]) /\ event <= event
        BY <3>1
      <4>2. posted \in Seq([block : 1 .. event, fee : 0 .. streamed'])
        BY ONLY <4>1, <3>1, PostedGrows
      <4> QED BY <4>2, <2>2 DEF StreamBlock
    <3>2. cursor' \in [{"gas", "updater"} -> 0 .. streamed']
      BY <2>2 DEF StreamBlock
    <3> QED BY <2>2, <3>2, <3>3 DEF StreamBlock
  <2>3. CASE StreamEnds
    <3>1. streaming' \in BOOLEAN
          /\ UNCHANGED <<mined, streamed, cursor, gas, base_fee, updater, address_rx, searcher,
                         event, searched, paths_rx, simulator, path, core, valid_rx, sender,
                         posted, poisoned>>
      BY <2>3 DEF StreamEnds
    <3> QED BY <3>1
  <2>4. CASE UpdateGas
    <3>1. cursor.gas + 1 \in 0 .. streamed
      BY <2>4 DEF UpdateGas, HasHeader
    <3>2. cursor' \in [{"gas", "updater"} -> 0 .. streamed] /\ cursor'.updater = cursor.updater
      BY <2>4, <3>1 DEF UpdateGas
    <3> QED BY <2>4, <3>2 DEF UpdateGas
  <2>5. CASE GasEnds
    BY <2>5 DEF GasEnds
  <2> QED BY <2>1, <2>2, <2>3, <2>4, <2>5 DEF Gas
<1> QED BY <1>2, <1>3, OrderUnchanged DEF IndInv

\* A task polled for the first time waits on its empty hands.
LEMMA SpawnedStep ==
  ASSUME IndInv, Spawned
  PROVE  IndInv'
<1> USE DEF Spawned, gasVars, searcherVars, chainVars
<1>1. TypeOK'
  BY HoldingBounded DEF IndInv, TypeOK
<1>2. AtSearcher' /\ AtSimulator' /\ AtSender' /\ TradedOncePerBlock'
  BY DEF IndInv, AtSearcher, AtSimulator, AtSender, TradedOncePerBlock, Increasing, Quoting,
         Searching
<1> QED BY <1>1, <1>2 DEF IndInv

\* The updater announces the block it has in hand, which is later than all before it.
LEMMA UpdateStep ==
  ASSUME IndInv, Update
  PROVE  IndInv'
<1> USE DEF gasVars, searcherVars, simVars, senderVars, chainVars
<1>1. TypeOK
  BY DEF IndInv
<1>2. AtSearcher /\ AtSimulator /\ AtSender /\ TradedOncePerBlock
  BY DEF IndInv
<1>3. CASE ReceiveHeader
  <2>1. cursor.updater + 1 \in 0 .. streamed
    BY <1>1, <1>3 DEF TypeOK, ReceiveHeader, HasHeader
  <2>2. /\ cursor' \in [{"gas", "updater"} -> 0 .. streamed] /\ cursor'.gas = cursor.gas
        /\ cursor'.updater = cursor.updater + 1
    BY <1>1, <1>3, <2>1 DEF TypeOK, ReceiveHeader
  <2>3. address_rx \in Seq(1 .. cursor.updater)
    BY <1>1 DEF TypeOK
  <2>4. 1 .. cursor.updater \subseteq 1 .. cursor'.updater
    BY <1>1, <2>2, Numbers
  <2>5. address_rx' \in Seq(1 .. cursor'.updater)
    <3>1. address_rx \in Seq(1 .. cursor'.updater)
      BY ONLY <2>3, <2>4, SeqGrows
    <3> QED BY <3>1, <1>3 DEF ReceiveHeader
  <2>6. event' \in 0 .. cursor'.updater
    BY <1>1, <1>3, <2>2, Numbers DEF TypeOK, ReceiveHeader
  <2>7. TypeOK'
    BY <1>1, <1>3, <2>2, <2>5, <2>6, HoldingBounded DEF TypeOK, ReceiveHeader
  <2>8. AtSearcher'
    BY <1>1, <1>2, <1>3, <2>2, Numbers DEF TypeOK, AtSearcher, ReceiveHeader, Increasing
  <2>9. AtSimulator' /\ AtSender' /\ TradedOncePerBlock'
    BY <1>2, <1>3 DEF ReceiveHeader, AtSimulator, Searching, AtSender, TradedOncePerBlock,
                      Increasing, Quoting
  <2> QED BY <2>7, <2>8, <2>9 DEF IndInv
<1>4. CASE Traced \/ TraceFails
  <2>1. TypeOK'
    <3>1. updater' \in {"recv", "trace", "lock"} \union Gone
      BY <1>4 DEF Traced, TraceFails, Gone
    <3>2. UNCHANGED <<chainVars, cursor, gasVars, address_rx, searcherVars, paths_rx, simVars,
                      valid_rx, senderVars, poisoned>>
      BY <1>4 DEF Traced, TraceFails
    <3> QED BY <1>1, <3>1, <3>2, HoldingBounded DEF TypeOK
  <2>2. AtSearcher' /\ AtSimulator' /\ AtSender' /\ TradedOncePerBlock'
    BY <1>2, <1>4 DEF Traced, TraceFails, AtSearcher, AtSimulator, Searching, AtSender, TradedOncePerBlock,
                      Increasing, Quoting
  <2> QED BY <2>1, <2>2 DEF IndInv
<1>5. CASE ApplyBlock
  <2>1. event < cursor.updater /\ \A i \in DOMAIN address_rx : address_rx[i] < cursor.updater
    BY <1>2, <1>5 DEF ApplyBlock, AtSearcher
  <2>2. cursor.updater \in 1 .. cursor.updater
    BY <1>1, <2>1, Numbers
  <2>3. address_rx \in Seq(1 .. cursor.updater)
    BY <1>1 DEF TypeOK
  <2>4. /\ Append(address_rx, cursor.updater) \in Seq(1 .. cursor.updater)
        /\ \A i \in DOMAIN Append(address_rx, cursor.updater) :
              \/ i \in DOMAIN address_rx /\ Append(address_rx, cursor.updater)[i] = address_rx[i]
              \/ Append(address_rx, cursor.updater)[i] = cursor.updater
    BY ONLY <2>2, <2>3, AppendElements
  <2>5. Increasing(Append(address_rx, cursor.updater))
    <3>1. address_rx \in Seq(Int) /\ cursor.updater \in Int /\ Increasing(address_rx)
      BY <1>1, <1>2, Numbers DEF AtSearcher
    <3> QED BY <3>1, <2>1, AppendIncreasing
  <2>6. /\ address_rx' \in {address_rx, Append(address_rx, cursor.updater)}
        /\ updater' \in {"dead", "recv"} /\ UNCHANGED <<cursor, event>>
    BY <1>5 DEF ApplyBlock, SendTo
  <2>7. TypeOK'
    <3>1. address_rx' \in Seq(1 .. cursor'.updater)
      BY ONLY <2>3, <2>4, <2>6
    <3>2. updater' \in {"recv", "trace", "lock"} \union Gone
      BY <2>6 DEF Gone
    <3> QED BY <1>1, <1>5, <3>1, <3>2, HoldingBounded DEF TypeOK, ApplyBlock
  <2>8. AtSearcher'
    <3>1. Increasing(address_rx')
      BY <1>2, <2>5, <2>6 DEF AtSearcher
    <3>2. \A i \in DOMAIN address_rx' : event' < address_rx'[i]
      BY <1>2, <2>1, <2>4, <2>6 DEF AtSearcher
    <3> QED BY <2>6, <3>1, <3>2 DEF AtSearcher
  <2>9. AtSimulator' /\ AtSender' /\ TradedOncePerBlock'
    BY <1>2, <1>5 DEF ApplyBlock, AtSimulator, Searching, AtSender, TradedOncePerBlock,
                      Increasing, Quoting
  <2> QED BY <2>7, <2>8, <2>9 DEF IndInv
<1>6. CASE UpdaterEnds
  <2>1. TypeOK'
    BY <1>1, <1>6, HoldingBounded DEF TypeOK, UpdaterEnds, Gone
  <2>2. AtSearcher' /\ AtSimulator' /\ AtSender' /\ TradedOncePerBlock'
    BY <1>2, <1>6 DEF UpdaterEnds, AtSearcher, AtSimulator, Searching, AtSender,
                      TradedOncePerBlock, Increasing, Quoting
  <2> QED BY <2>1, <2>2 DEF IndInv
<1> QED BY <1>3, <1>4, <1>5, <1>6 DEF Update

\* When a block has been searched its path is the latest of those sent, if there is one.
LEMMA SearchedPath ==
  ASSUME TypeOK, AtSimulator, Searching, Searched, UNCHANGED <<event, path>>
  PROVE  paths_rx' \in Seq(1 .. event) /\ AtSimulator' /\ searched' \in 0 .. event
<1>1. path < event /\ \A i \in DOMAIN paths_rx : paths_rx[i] < event
  BY DEF AtSimulator, Searching
<1>2. event \in Nat /\ path \in Nat /\ event \in 1 .. event
  BY <1>1, Numbers
<1>3. paths_rx \in Seq(1 .. event)
  BY DEF TypeOK
<1>4. /\ Append(paths_rx, event) \in Seq(1 .. event)
      /\ \A i \in DOMAIN Append(paths_rx, event) :
            \/ i \in DOMAIN paths_rx /\ Append(paths_rx, event)[i] = paths_rx[i]
            \/ Append(paths_rx, event)[i] = event
  BY ONLY <1>2, <1>3, AppendElements
<1>5. Increasing(Append(paths_rx, event))
  <2>1. paths_rx \in Seq(Int) /\ event \in Int /\ Increasing(paths_rx)
    BY Numbers DEF AtSimulator
  <2> QED BY <2>1, <1>1, AppendIncreasing
<1>6. paths_rx' \in {paths_rx, Append(paths_rx, event)} /\ searched' = event /\ ~Searching'
  BY DEF Searched, SendTo, Searching
<1>7. paths_rx' \in Seq(1 .. event)
  BY ONLY <1>3, <1>4, <1>6
<1>8. Increasing(paths_rx')
  BY <1>5, <1>6 DEF AtSimulator
<1>9. \A i \in DOMAIN paths_rx' : path' < paths_rx'[i]
  BY <1>1, <1>4, <1>6 DEF AtSimulator
<1>10. AtSimulator'
  BY <1>6, <1>8, <1>9 DEF AtSimulator, Searching
<1> QED BY <1>2, <1>6, <1>7, <1>10

\* The searcher turns to a later block than any it was at, and sends its path last.
LEMMA WorkStep ==
  ASSUME IndInv, Work
  PROVE  IndInv'
<1> USE DEF gasVars, searcherVars, simVars, senderVars, chainVars
<1>1. TypeOK
  BY DEF IndInv
<1>2. AtSearcher /\ AtSimulator /\ AtSender /\ TradedOncePerBlock
  BY DEF IndInv
<1>3. CASE TakeEvent
  <2>1. /\ Increasing(Tail(address_rx))
        /\ \A i \in DOMAIN Tail(address_rx) :
              i + 1 \in DOMAIN address_rx /\ Tail(address_rx)[i] = address_rx[i + 1]
        /\ 1 \in DOMAIN address_rx /\ Head(address_rx) = address_rx[1]
        /\ \A i \in DOMAIN Tail(address_rx) : Head(address_rx) < Tail(address_rx)[i]
    <3>1. address_rx \in Seq(Int) /\ address_rx # <<>> /\ Increasing(address_rx)
      BY <1>1, <1>2, <1>3, Numbers DEF TakeEvent, AtSearcher
    <3> QED BY ONLY <3>1, TailIncreasing
  <2>2. event' = address_rx[1] /\ event < event' /\ event' \in 1 .. cursor.updater
    BY <1>1, <1>2, <1>3, <2>1, Numbers DEF TakeEvent, AtSearcher
  <2>3. event \in Nat /\ event' \in Nat /\ cursor.updater \in Nat /\ streamed \in Nat
    BY <1>1, <2>2, Numbers
  <2>4. 1 .. event \subseteq 1 .. event'
    BY <2>2, <2>3
  <2>5. paths_rx \in Seq(1 .. event') /\ valid_rx \in Seq(1 .. event')
    <3>1. paths_rx \in Seq(1 .. event) /\ valid_rx \in Seq(1 .. event)
      BY <1>1 DEF TypeOK
    <3> QED BY ONLY <3>1, <2>4, SeqGrows
  <2>6. posted \in Seq([block : 1 .. event', fee : 0 .. streamed])
    <3>1. posted \in Seq([block : 1 .. event, fee : 0 .. streamed]) /\ event <= event'
          /\ streamed <= streamed
      BY <1>1, <2>2, <2>3 DEF TypeOK
    <3> QED BY ONLY <3>1, <2>3, PostedGrows
  <2>7. TypeOK'
    <3>1. Tail(address_rx) \in Seq(1 .. cursor.updater)
      BY <1>1, <1>3 DEF TypeOK, TakeEvent
    <3>2. event' \in 0 .. cursor.updater /\ searched \in 0 .. event' /\ path \in 0 .. event'
      BY <1>1, <2>2, <2>3 DEF TypeOK
    <3>3. /\ searcher' = "search" /\ address_rx' = Tail(address_rx)
          /\ UNCHANGED <<mined, streaming, streamed, cursor, gas, base_fee, updater, searched,
                         paths_rx, simulator, path, core, valid_rx, sender, posted, poisoned>>
      BY <1>3 DEF TakeEvent
    <3> QED BY <1>1, <2>5, <2>6, <3>1, <3>2, <3>3, HoldingBounded DEF TypeOK
  <2>8. AtSearcher'
    BY <1>2, <1>3, <2>1, <2>2 DEF TakeEvent, AtSearcher
  <2>9. AtSimulator'
    BY <1>1, <1>2, <1>3, <2>2, Numbers DEF TypeOK, TakeEvent, AtSimulator, Searching, Increasing
  <2>10. AtSender' /\ TradedOncePerBlock'
    BY <1>2, <1>3 DEF TakeEvent, AtSender, TradedOncePerBlock, Increasing, Quoting
  <2> QED BY <2>7, <2>8, <2>9, <2>10 DEF IndInv
<1>4. CASE (Search /\ ~poisoned) \/ SearchFetched
  <2>1. Searching /\ Searched /\ UNCHANGED <<event, path>>
    BY <1>4 DEF Search, SearchFetched, Searching
  <2>2. paths_rx' \in Seq(1 .. event) /\ AtSimulator' /\ searched' \in 0 .. event
    BY <1>1, <1>2, <2>1, SearchedPath
  <2>3. TypeOK'
    BY <1>1, <1>4, <2>2, HoldingBounded DEF TypeOK, Search, SearchFetched, Searched
  <2>4. AtSearcher' /\ AtSender' /\ TradedOncePerBlock'
    BY <1>2, <1>4 DEF Search, SearchFetched, AtSearcher, AtSender, TradedOncePerBlock, Increasing,
                      Quoting
  <2> QED BY <2>2, <2>3, <2>4 DEF IndInv
<1>5. CASE (Search /\ poisoned) \/ SearchFetch \/ SearcherEnds
  <2>1. TypeOK'
    <3>1. searcher' \in {"recv", "search", "fetch"} \union Gone
      BY <1>5 DEF Search, SearchFetch, SearcherEnds, Gone
    <3>2. UNCHANGED <<chainVars, cursor, gasVars, updater, address_rx, event, searched, paths_rx,
                      simVars, valid_rx, senderVars, poisoned>>
      BY <1>5 DEF Search, SearchFetch, SearcherEnds
    <3> QED BY <1>1, <3>1, <3>2, HoldingBounded DEF TypeOK
  <2>2. AtSearcher' /\ AtSimulator' /\ AtSender' /\ TradedOncePerBlock'
    BY <1>2, <1>5 DEF Search, SearchFetch, SearcherEnds, Searching, AtSearcher, AtSimulator,
                      AtSender,
                      TradedOncePerBlock, Increasing, Quoting
  <2> QED BY <2>1, <2>2 DEF IndInv
<1> QED BY <1>3, <1>4, <1>5 DEF Work

\* When a path has been quoted it is the latest of those sent on, if it is.
LEMMA QuotedPath ==
  ASSUME TypeOK, AtSender, Quoting, Quoted, UNCHANGED <<event, path, posted>>
  PROVE  valid_rx' \in Seq(1 .. event) /\ AtSender'
<1>1. /\ 0 < path /\ \A i \in DOMAIN valid_rx : valid_rx[i] < path
      /\ \A i \in DOMAIN posted : posted[i].block < path
  BY DEF AtSender
<1>2. path \in 1 .. event /\ valid_rx \in Seq(1 .. event)
  BY <1>1 DEF TypeOK
<1>3. /\ Append(valid_rx, path) \in Seq(1 .. event)
      /\ \A i \in DOMAIN Append(valid_rx, path) :
            \/ i \in DOMAIN valid_rx /\ Append(valid_rx, path)[i] = valid_rx[i]
            \/ Append(valid_rx, path)[i] = path
  BY ONLY <1>2, AppendElements
<1>4. Increasing(Append(valid_rx, path))
  <2>1. valid_rx \in Seq(Int) /\ path \in Int /\ Increasing(valid_rx)
    BY Numbers DEF AtSender
  <2> QED BY <1>1, <2>1, AppendIncreasing
<1>5. valid_rx' \in {valid_rx, Append(valid_rx, path)} /\ ~Quoting'
  BY DEF Quoted, SendTo, Quoting
<1>6. Increasing(valid_rx')
  BY <1>4, <1>5 DEF AtSender
<1>7. path \in Nat /\ \A i \in DOMAIN valid_rx : valid_rx[i] \in Int
  BY Numbers
<1>8. \A i \in DOMAIN valid_rx' : valid_rx'[i] <= path'
  BY <1>1, <1>3, <1>5, <1>7
<1>9. \A i \in DOMAIN posted : posted[i].block \in Int
  BY Numbers
<1>10. \A i \in DOMAIN posted' :
         /\ posted'[i].block <= path'
         /\ \A j \in DOMAIN valid_rx' : posted'[i].block < valid_rx'[j]
  BY <1>1, <1>3, <1>5, <1>7, <1>9 DEF AtSender
<1>11. AtSender'
  BY <1>5, <1>6, <1>8, <1>10 DEF AtSender
<1>12. valid_rx' \in Seq(1 .. event)
  BY ONLY <1>2, <1>3, <1>5
<1> QED BY <1>11, <1>12

\* The simulator turns to a later path than any it was at.
LEMMA SimulateStep ==
  ASSUME IndInv, Simulate
  PROVE  IndInv'
<1> USE DEF gasVars, searcherVars, simVars, senderVars, chainVars
<1>1. TypeOK
  BY DEF IndInv
<1>2. AtSearcher /\ AtSimulator /\ AtSender /\ TradedOncePerBlock
  BY DEF IndInv
<1>3. CASE TakePath
  <2>1. /\ Increasing(Tail(paths_rx))
        /\ \A i \in DOMAIN Tail(paths_rx) :
              i + 1 \in DOMAIN paths_rx /\ Tail(paths_rx)[i] = paths_rx[i + 1]
        /\ 1 \in DOMAIN paths_rx /\ Head(paths_rx) = paths_rx[1]
        /\ \A i \in DOMAIN Tail(paths_rx) : Head(paths_rx) < Tail(paths_rx)[i]
    <3>1. paths_rx \in Seq(Int) /\ paths_rx # <<>> /\ Increasing(paths_rx)
      BY <1>1, <1>2, <1>3, Numbers DEF TakePath, AtSimulator, Searching
    <3> QED BY ONLY <3>1, TailIncreasing
  <2>2. path' = paths_rx[1] /\ path < path' /\ path' \in 1 .. event
    BY <1>1, <1>2, <1>3, <2>1, Numbers DEF TakePath, AtSimulator, Searching
  <2>3. path \in Nat /\ path' \in Nat /\ event \in Nat
    BY <1>1, <2>2, Numbers
  <2>4. TypeOK'
    <3>1. Tail(paths_rx) \in Seq(1 .. event)
      BY <1>1, <1>3 DEF TypeOK, TakePath
    <3>2. path' \in 0 .. event
      BY <2>2, <2>3
    <3> QED BY <1>1, <1>3, <3>1, <3>2, HoldingBounded DEF TypeOK, TakePath
  <2>5. AtSimulator'
    <3>1. Increasing(paths_rx') /\ \A i \in DOMAIN paths_rx' : path' < paths_rx'[i]
      BY <1>3, <2>1, <2>2 DEF TakePath
    <3>2. path' <= event' /\ (Searching' => path' < event')
      BY <1>2, <1>3, <2>1, <2>2, <2>3 DEF TakePath, AtSimulator, Searching
    <3>3. Searching' => \A i \in DOMAIN paths_rx' : paths_rx'[i] < event'
      BY <1>2, <1>3, <2>1 DEF TakePath, AtSimulator, Searching
    <3> QED BY <3>1, <3>2, <3>3 DEF AtSimulator, Searching
  <2>6. AtSender'
    <3>1. /\ \A i \in DOMAIN valid_rx : valid_rx[i] \in Int
          /\ \A i \in DOMAIN posted : posted[i].block \in Int
      BY <1>1, Numbers
    <3>2. \A i \in DOMAIN valid_rx : valid_rx[i] < path'
      BY <1>2, <2>2, <2>3, <3>1 DEF AtSender
    <3>3. \A i \in DOMAIN posted : posted[i].block < path'
      BY <1>2, <2>2, <2>3, <3>1 DEF AtSender
    <3>4. 0 < path'
      BY <2>2, <2>3
    <3> QED BY <1>2, <1>3, <2>3, <3>1, <3>2, <3>3, <3>4 DEF TakePath, AtSender, Increasing
  <2>7. AtSearcher' /\ TradedOncePerBlock'
    BY <1>2, <1>3 DEF TakePath, AtSearcher, TradedOncePerBlock, Increasing
  <2> QED BY <2>4, <2>5, <2>6, <2>7 DEF IndInv
<1>4. CASE Quote /\ ~poisoned
  <2>1. valid_rx' \in Seq(1 .. event) /\ AtSender'
    BY <1>1, <1>2, <1>4, QuotedPath DEF Quote, Quoting
  <2>2. TypeOK'
    <3>1. /\ simulator' = "recv" /\ core' \in BOOLEAN
          /\ UNCHANGED <<mined, streaming, streamed, cursor, gas, base_fee, updater, address_rx,
                         searcher, event, searched, paths_rx, path, sender, posted, poisoned>>
      BY <1>1, <1>4 DEF Quote, Quoted, TypeOK
    <3> QED BY <1>1, <2>1, <3>1, HoldingBounded DEF TypeOK
  <2>3. AtSearcher' /\ AtSimulator' /\ TradedOncePerBlock'
    BY <1>2, <1>4 DEF Quote, AtSearcher, AtSimulator, Searching, TradedOncePerBlock, Increasing
  <2> QED BY <2>1, <2>2, <2>3 DEF IndInv
<1>5. CASE Fetched
  <2>1. valid_rx' \in Seq(1 .. event) /\ AtSender'
    BY <1>1, <1>2, <1>5, QuotedPath DEF Fetched, Quoting
  <2>2. TypeOK'
    <3>1. /\ simulator' = "recv" /\ core' \in BOOLEAN
          /\ UNCHANGED <<mined, streaming, streamed, cursor, gas, base_fee, updater, address_rx,
                         searcher, event, searched, paths_rx, path, sender, posted, poisoned>>
      BY <1>1, <1>5 DEF Fetched, Quoted, TypeOK
    <3> QED BY <1>1, <2>1, <3>1, HoldingBounded DEF TypeOK
  <2>3. AtSearcher' /\ AtSimulator' /\ TradedOncePerBlock'
    BY <1>2, <1>5 DEF Fetched, AtSearcher, AtSimulator, Searching, TradedOncePerBlock, Increasing
  <2> QED BY <2>1, <2>2, <2>3 DEF IndInv
<1>6. CASE \/ Quote /\ poisoned
           \/ Fetch \/ FetchPanics \/ SimulatorEnds
  <2>1. TypeOK'
    <3>1. /\ simulator' \in {"spawned", "recv", "quote", "fetch"} \union Gone
          /\ poisoned' \in BOOLEAN
      BY <1>1, <1>6 DEF TypeOK, Quote, Fetch, FetchPanics, SimulatorEnds, Gone
    <3>2. UNCHANGED <<chainVars, cursor, gasVars, updater, address_rx, searcherVars, paths_rx,
                      path, core, valid_rx, senderVars>>
      BY <1>6 DEF Quote, Fetch, FetchPanics, SimulatorEnds
    <3> QED BY <1>1, <3>1, <3>2, HoldingBounded DEF TypeOK
  <2>2. AtSearcher' /\ AtSimulator' /\ AtSender' /\ TradedOncePerBlock'
    BY <1>2, <1>6 DEF Quote, Fetch, FetchPanics, SimulatorEnds, AtSearcher, AtSimulator,
                      Searching, AtSender,
                      TradedOncePerBlock, Increasing, Quoting
  <2> QED BY <2>1, <2>2 DEF IndInv
<1> QED BY <1>3, <1>4, <1>5, <1>6 DEF Simulate

\* The sender posts the earliest of the paths that wait for it.
LEMMA PostStep ==
  ASSUME IndInv, Post
  PROVE  IndInv'
<1> USE DEF gasVars, searcherVars, simVars, senderVars, chainVars
<1>1. TypeOK
  BY DEF IndInv
<1>2. AtSearcher /\ AtSimulator /\ AtSender /\ TradedOncePerBlock
  BY DEF IndInv
<1>3. CASE TakeValid
  <2> DEFINE p == [block |-> Head(valid_rx), fee |-> base_fee]
             P == [block : 1 .. event, fee : 0 .. streamed]
  <2>1. /\ Increasing(Tail(valid_rx))
        /\ \A i \in DOMAIN Tail(valid_rx) :
              i + 1 \in DOMAIN valid_rx /\ Tail(valid_rx)[i] = valid_rx[i + 1]
        /\ 1 \in DOMAIN valid_rx /\ Head(valid_rx) = valid_rx[1]
        /\ \A i \in DOMAIN Tail(valid_rx) : Head(valid_rx) < Tail(valid_rx)[i]
    <3>1. valid_rx \in Seq(Int) /\ valid_rx # <<>> /\ Increasing(valid_rx)
      BY <1>1, <1>2, <1>3, Numbers DEF TakeValid, AtSender
    <3> QED BY ONLY <3>1, TailIncreasing
  <2>2. Head(valid_rx) \in 1 .. event
    BY <1>1, <2>1, Numbers
  <2>3. base_fee \in 0 .. streamed
    BY <1>1 DEF TypeOK
  <2>4. p \in P /\ p.block = valid_rx[1] /\ posted \in Seq(P)
    BY <1>1, <2>1, <2>2, <2>3 DEF TypeOK
  <2> HIDE DEF p, P
  <2>5. /\ Append(posted, p) \in Seq(P)
        /\ DOMAIN Append(posted, p) = 1 .. Len(posted) + 1 /\ DOMAIN posted = 1 .. Len(posted)
        /\ \A i \in DOMAIN posted : Append(posted, p)[i] = posted[i]
        /\ Append(posted, p)[Len(posted) + 1] = p /\ Len(posted) \in Nat
    BY ONLY <2>4
  <2>6. posted' = Append(posted, p) /\ valid_rx' = Tail(valid_rx)
    BY <1>3 DEF TakeValid, p
  <2>7. TypeOK'
    <3>1. posted' \in Seq([block : 1 .. event', fee : 0 .. streamed'])
      BY <1>3, <2>5, <2>6 DEF TakeValid, P
    <3>2. valid_rx' \in Seq(1 .. event')
      BY <1>1, <1>3 DEF TypeOK, TakeValid
    <3> QED BY <1>1, <1>3, <3>1, <3>2, HoldingBounded DEF TypeOK, TakeValid
  <2>8. \A i \in DOMAIN posted : posted[i].block < p.block
    BY <1>2, <2>1, <2>4 DEF AtSender
  <2>9. TradedOncePerBlock'
    BY <1>2, <2>5, <2>6, <2>8 DEF TradedOncePerBlock
  <2>10. \A i \in DOMAIN Append(posted, p) :
           (i \in DOMAIN posted /\ Append(posted, p)[i] = posted[i]) \/ Append(posted, p)[i] = p
    BY <2>5
  <2>11. AtSender'
    <3>1. Increasing(valid_rx') /\ (Quoting' => 0 < path')
      BY <1>2, <1>3, <2>1, <2>6 DEF TakeValid, AtSender, Quoting
    <3>2. \A i \in DOMAIN valid_rx' : valid_rx'[i] <= path' /\ (Quoting' => valid_rx'[i] < path')
      BY <1>2, <1>3, <2>1, <2>6 DEF TakeValid, AtSender, Quoting
    <3>3. \A i \in DOMAIN posted' :
            posted'[i].block <= path' /\ (Quoting' => posted'[i].block < path')
      BY <1>2, <1>3, <2>1, <2>4, <2>6, <2>10 DEF TakeValid, AtSender, Quoting
    <3>4. \A i \in DOMAIN posted' : \A j \in DOMAIN valid_rx' : posted'[i].block < valid_rx'[j]
      BY <1>2, <2>1, <2>4, <2>6, <2>10 DEF AtSender
    <3> QED BY <3>1, <3>2, <3>3, <3>4 DEF AtSender
  <2>12. AtSearcher' /\ AtSimulator'
    BY <1>2, <1>3 DEF TakeValid, AtSearcher, AtSimulator, Searching, Increasing
  <2> QED BY <2>7, <2>9, <2>11, <2>12 DEF IndInv
<1>4. CASE Answered \/ SenderEnds
  <2>1. TypeOK'
    <3>1. sender' \in {"spawned", "recv", "post"} \union Gone
      BY <1>4 DEF Answered, SenderEnds, Gone
    <3>2. UNCHANGED <<chainVars, cursor, gasVars, updater, address_rx, searcherVars, paths_rx,
                      simVars, valid_rx, posted, poisoned>>
      BY <1>4 DEF Answered, SenderEnds
    <3> QED BY <1>1, <3>1, <3>2, HoldingBounded DEF TypeOK
  <2>2. AtSearcher' /\ AtSimulator' /\ AtSender' /\ TradedOncePerBlock'
    BY <1>2, <1>4 DEF Answered, SenderEnds, AtSearcher, AtSimulator, Searching, AtSender,
                      TradedOncePerBlock,
                      Increasing, Quoting
  <2> QED BY <2>1, <2>2 DEF IndInv
<1> QED BY <1>3, <1>4 DEF Post

\* A step in which nothing changes keeps the invariant.
LEMMA StutterStep ==
  ASSUME IndInv, UNCHANGED vars
  PROVE  IndInv'
<1> USE DEF vars, gasVars, searcherVars, simVars, senderVars, chainVars
<1>1. TypeOK'
  BY HoldingBounded DEF IndInv, TypeOK
<1>2. UNCHANGED orderVars
  BY DEF orderVars
<1> QED BY <1>1, <1>2, OrderUnchanged DEF IndInv

\* Every reachable state satisfies the inductive invariant.
LEMMA Invariance == Spec => []IndInv
<1>1. IndInv /\ [Next]_vars => IndInv'
  BY StreamStep, SpawnedStep, UpdateStep, WorkStep, SimulateStep, PostStep, StutterStep DEF Next
<1> QED BY <1>1, InitInv, PTL DEF Spec

\* The workers' variables keep their types, and the tasks that block their threads
\* never hold more than there are.
THEOREM TypeCorrect == Spec => []TypeOK
<1>1. IndInv => TypeOK
  BY DEF IndInv
<1> QED BY <1>1, Invariance, PTL

\* Across four workers and three queues a block is traded once at most, and never
\* after a later one.
THEOREM BlocksTradedOnce == Spec => []TradedOncePerBlock
<1>1. IndInv => TradedOncePerBlock
  BY DEF IndInv
<1> QED BY <1>1, Invariance, PTL

=============================================================================

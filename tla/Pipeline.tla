------------------------------ MODULE Pipeline ------------------------------
(***************************************************************************)
(* The workers that ignition.rs starts, as one system: what they share is  *)
(* the worker threads of the tokio runtime, the lock of the database, and  *)
(* the channels between them.  What each does with a block is the matter   *)
(* of the other modules; here a block is its number, and a path the number *)
(* of the block it was found on.                                           *)
(*                                                                         *)
(* The stream, the gas station and the updater are asynchronous: a step of *)
(* theirs needs a free worker thread.  The simulator and the sender wait   *)
(* in a std recv() and keep their thread while they do; the searcher has a *)
(* thread of its own.  A simulation or a search that lacks a slot fetches  *)
(* it with the lock held, the one as a writer, the other as a reader: the  *)
(* request needs a worker to be answered.  A worker that makes it hands    *)
(* its place on before it blocks (block_in_place); one that waits for the  *)
(* lock does not.                                                          *)
(***************************************************************************)
EXTENDS Integers, Sequences, FiniteSets

CONSTANTS
  Threads,    \* worker threads of the runtime: one per CPU
  Capacity,   \* headers that the broadcast channel holds: 100, which tokio makes 128
  MaxBlocks   \* bound: blocks mined

\* Three can all be waiting, the simulator and the updater for the lock and the
\* sender for a path, while the searcher, with the lock, waits for an answer.
ASSUME ThreadsAssumption == Threads \in Nat /\ Threads >= 4
ASSUME BoundAssumption == Capacity \in Nat \ {0} /\ MaxBlocks \in Nat

VARIABLES
  mined,       \* blocks of the chain
  streaming,   \* whether the node's subscription stands
  streamed,    \* headers broadcast
  cursor,      \* headers that "gas" and "updater" have received
  gas,         \* update_gas: "recv" or "ended"
  base_fee,    \* the block whose header the base fee comes from; 0: none yet
  updater,     \* state_updater: "recv", "trace", "lock", or gone
  address_rx,  \* PoolsTouched events
  searcher,    \* search_paths: "recv", "search", "fetch", or gone
  event,       \* the block it works on
  paths_rx,    \* ArbPath events
  simulator,   \* simulate_paths: "spawned", "recv", "quote", "fetch", or gone
  path,        \* the path it works on
  core,        \* whether its thread still is a worker of the runtime
  valid_rx,    \* ValidPath events
  sender,      \* send_transactions: "spawned", "recv", "post", or gone
  poisoned,    \* a thread has panicked with the write guard held
  searched,    \* history: the last block that the searcher is done with
  posted       \* history: the paths posted, with the fee they were given

chainVars    == <<mined, streaming, streamed>>
gasVars      == <<gas, base_fee>>
searcherVars == <<searcher, event, searched>>
simVars      == <<simulator, path, core>>
senderVars   == <<sender, posted>>
vars == <<chainVars, cursor, gasVars, updater, address_rx, searcherVars, paths_rx, simVars,
          valid_rx, senderVars, poisoned>>

Gone == {"ended", "dead"}

\* Send over a channel: an error, which is logged, when the receiver is dropped.
SendTo(receiver, channel, n) == IF receiver \in Gone THEN channel ELSE Append(channel, n)

------------------------------------------------------------------------------
(* The runtime and the lock *)

\* Mutant: the searcher is spawned as a task, as the others are.
AllOnRuntime == {"updater", "simulator", "sender", "searcher"}
OnRuntime    == {"updater", "simulator", "sender"}

\* The workers that keep their thread without being done with anything.
Blocked(worker) ==
  CASE worker = "updater"   -> updater = "lock"
    [] worker = "simulator" -> core /\ simulator \in {"recv", "quote"}
    [] worker = "sender"    -> sender = "recv"
    [] worker = "searcher"  -> searcher \notin Gone

Holding    == {worker \in OnRuntime : Blocked(worker)}
FreeWorker == Cardinality(Holding) < Threads
CanRead    == simulator # "fetch"
CanWrite   == CanRead /\ searcher # "fetch"

Init ==
  /\ mined = 0 /\ streaming = TRUE /\ streamed = 0
  /\ cursor = [gas |-> 0, updater |-> 0]
  /\ gas = "recv" /\ base_fee = 0
  /\ updater = "recv" /\ address_rx = <<>>
  /\ searcher = "recv" /\ event = 0 /\ searched = 0 /\ paths_rx = <<>>
  /\ simulator = "spawned" /\ path = 0 /\ core = TRUE /\ valid_rx = <<>>
  /\ sender = "spawned" /\ posted = <<>>
  /\ poisoned = FALSE

\* A worker polls a spawned task for the first time.
Spawned ==
  /\ FreeWorker
  /\ \/ simulator = "spawned" /\ simulator' = "recv" /\ UNCHANGED sender
     \/ sender = "spawned" /\ sender' = "recv" /\ UNCHANGED simulator
  /\ UNCHANGED <<chainVars, cursor, gasVars, updater, address_rx, searcherVars, paths_rx,
                 path, core, valid_rx, posted, poisoned>>

------------------------------------------------------------------------------
(* The chain and the stream *)

Mine ==
  /\ mined < MaxBlocks /\ mined' = mined + 1
  /\ UNCHANGED <<streaming, streamed, cursor, gasVars, updater, address_rx, searcherVars,
                 paths_rx, simVars, valid_rx, senderVars, poisoned>>

StreamBlock ==
  /\ FreeWorker /\ streaming /\ streamed < mined
  /\ streamed' = streamed + 1
  /\ UNCHANGED <<mined, streaming, cursor, gasVars, updater, address_rx, searcherVars,
                 paths_rx, simVars, valid_rx, senderVars, poisoned>>

\* The subscription ends, and with it the broadcast channel.
StreamEnds ==
  /\ FreeWorker /\ streaming
  /\ streaming' = FALSE
  /\ UNCHANGED <<mined, streamed, cursor, gasVars, updater, address_rx, searcherVars,
                 paths_rx, simVars, valid_rx, senderVars, poisoned>>

\* recv() of a broadcast receiver: there is a header, or it fails, because headers
\* were dropped or because all are received and the stream is gone.
HasHeader(r) == cursor[r] < streamed /\ streamed - cursor[r] <= Capacity
RecvFails(r) ==
  \/ streamed - cursor[r] > Capacity
  \/ cursor[r] = streamed /\ ~streaming

------------------------------------------------------------------------------
(* The gas station *)

\* Mutant: the fee of the header before is kept.
UpdateGasLate ==
  /\ FreeWorker /\ gas = "recv" /\ HasHeader("gas")
  /\ cursor' = [cursor EXCEPT !.gas = @ + 1]
  /\ base_fee' = cursor.gas
  /\ UNCHANGED <<chainVars, gas, updater, address_rx, searcherVars, paths_rx, simVars,
                 valid_rx, senderVars, poisoned>>

UpdateGas ==
  /\ FreeWorker /\ gas = "recv" /\ HasHeader("gas")
  /\ cursor' = [cursor EXCEPT !.gas = @ + 1]
  /\ base_fee' = cursor'.gas
  /\ UNCHANGED <<chainVars, gas, updater, address_rx, searcherVars, paths_rx, simVars,
                 valid_rx, senderVars, poisoned>>

GasEnds ==
  /\ FreeWorker /\ gas = "recv" /\ RecvFails("gas")
  /\ gas' = "ended"
  /\ UNCHANGED <<chainVars, cursor, base_fee, updater, address_rx, searcherVars, paths_rx,
                 simVars, valid_rx, senderVars, poisoned>>

------------------------------------------------------------------------------
(* The updater *)

ReceiveHeader ==
  /\ FreeWorker /\ updater = "recv" /\ HasHeader("updater")
  /\ cursor' = [cursor EXCEPT !.updater = @ + 1]
  /\ updater' = "trace"
  /\ UNCHANGED <<chainVars, gasVars, address_rx, searcherVars, paths_rx, simVars, valid_rx,
                 senderVars, poisoned>>

\* The trace has arrived: the task wants the lock, and waits for it on its thread.
Traced ==
  /\ FreeWorker /\ updater = "trace"
  /\ updater' = "lock"
  /\ UNCHANGED <<chainVars, cursor, gasVars, address_rx, searcherVars, paths_rx, simVars,
                 valid_rx, senderVars, poisoned>>

\* The request for the trace fails: unwrap() ends the task, before it has the lock.
TraceFails ==
  /\ FreeWorker /\ updater = "trace"
  /\ updater' = "dead"
  /\ UNCHANGED <<chainVars, cursor, gasVars, address_rx, searcherVars, paths_rx, simVars,
                 valid_rx, senderVars, poisoned>>

\* Mutant: the updater takes the lock, poisoned or not.
ApplyPoisoned ==
  /\ updater = "lock" /\ CanWrite
  /\ updater' = "recv" /\ address_rx' = SendTo(searcher, address_rx, cursor.updater)
  /\ UNCHANGED <<chainVars, cursor, gasVars, searcherVars, paths_rx, simVars, valid_rx,
                 senderVars, poisoned>>

\* The state is updated and the searcher told, or the poisoned lock ends the task.
ApplyBlock ==
  /\ updater = "lock" /\ CanWrite
  /\ IF poisoned
       THEN updater' = "dead" /\ UNCHANGED address_rx
       ELSE updater' = "recv" /\ address_rx' = SendTo(searcher, address_rx, cursor.updater)
  /\ UNCHANGED <<chainVars, cursor, gasVars, searcherVars, paths_rx, simVars, valid_rx,
                 senderVars, poisoned>>

UpdaterEnds ==
  /\ FreeWorker /\ updater = "recv" /\ RecvFails("updater")
  /\ updater' = "ended"
  /\ UNCHANGED <<chainVars, cursor, gasVars, address_rx, searcherVars, paths_rx, simVars,
                 valid_rx, senderVars, poisoned>>

------------------------------------------------------------------------------
(* The searcher *)

TakeEvent ==
  /\ searcher = "recv" /\ address_rx # <<>>
  /\ searcher' = "search" /\ event' = Head(address_rx) /\ address_rx' = Tail(address_rx)
  /\ UNCHANGED <<chainVars, cursor, gasVars, updater, searched, paths_rx, simVars, valid_rx,
                 senderVars, poisoned>>

\* Mutant: every path above the threshold is sent, not the best one.
SearchedAll ==
  /\ searcher' = "recv" /\ searched' = event
  /\ paths_rx' \in {paths_rx, SendTo(simulator, SendTo(simulator, paths_rx, event), event)}

\* The best path above the threshold is sent, if there is one.
Searched ==
  /\ searcher' = "recv" /\ searched' = event
  /\ paths_rx' \in {paths_rx, SendTo(simulator, paths_rx, event)}

\* Rates and outputs are computed under the read lock.
Search ==
  /\ searcher = "search" /\ CanRead
  /\ IF poisoned THEN searcher' = "dead" /\ UNCHANGED <<searched, paths_rx>> ELSE Searched
  /\ UNCHANGED <<chainVars, cursor, gasVars, updater, address_rx, event, simVars, valid_rx,
                 senderVars, poisoned>>

\* A word of a tick bitmap is not in the database: the searcher waits for the node.
SearchFetch ==
  /\ searcher = "search" /\ CanRead /\ ~poisoned
  /\ searcher' = "fetch"
  /\ UNCHANGED <<chainVars, cursor, gasVars, updater, address_rx, event, searched, paths_rx,
                 simVars, valid_rx, senderVars, poisoned>>

\* The answer; an error is taken for an empty word.
SearchFetched ==
  /\ FreeWorker /\ searcher = "fetch"
  /\ Searched
  /\ UNCHANGED <<chainVars, cursor, gasVars, updater, address_rx, event, simVars, valid_rx,
                 senderVars, poisoned>>

SearcherEnds ==
  /\ searcher = "recv" /\ address_rx = <<>> /\ updater \in Gone
  /\ searcher' = "ended"
  /\ UNCHANGED <<chainVars, cursor, gasVars, updater, address_rx, event, searched, paths_rx,
                 simVars, valid_rx, senderVars, poisoned>>

------------------------------------------------------------------------------
(* The simulator *)

TakePath ==
  /\ simulator = "recv" /\ paths_rx # <<>>
  /\ simulator' = "quote" /\ path' = Head(paths_rx) /\ paths_rx' = Tail(paths_rx)
  /\ UNCHANGED <<chainVars, cursor, gasVars, updater, address_rx, searcherVars, core, valid_rx,
                 senderVars, poisoned>>

\* The quotes of a path are had: it is sent on, or not.
Quoted ==
  /\ simulator' = "recv"
  /\ valid_rx' \in {valid_rx, SendTo(sender, valid_rx, path)}

Quote ==
  /\ simulator = "quote" /\ CanWrite
  /\ IF poisoned THEN simulator' = "dead" /\ UNCHANGED valid_rx ELSE Quoted
  /\ UNCHANGED <<chainVars, cursor, gasVars, updater, address_rx, searcherVars, paths_rx,
                 path, core, senderVars, poisoned>>

\* A slot is missing: the thread hands its place on, and waits for the node.
Fetch ==
  /\ simulator = "quote" /\ CanWrite /\ ~poisoned
  /\ simulator' = "fetch"
  /\ UNCHANGED <<chainVars, cursor, gasVars, updater, address_rx, searcherVars, paths_rx,
                 path, core, valid_rx, senderVars, poisoned>>

\* The answer; the thread is a worker again unless another has taken its place.
Fetched ==
  /\ FreeWorker /\ simulator = "fetch"
  /\ Quoted
  /\ core' \in {core, FALSE}
  /\ UNCHANGED <<chainVars, cursor, gasVars, updater, address_rx, searcherVars, paths_rx,
                 path, senderVars, poisoned>>

\* An error instead: unwrap() panics with the write guard held.
FetchPanics ==
  /\ FreeWorker /\ simulator = "fetch"
  /\ simulator' = "dead" /\ poisoned' = TRUE
  /\ UNCHANGED <<chainVars, cursor, gasVars, updater, address_rx, searcherVars, paths_rx,
                 path, core, valid_rx, senderVars>>

SimulatorEnds ==
  /\ simulator = "recv" /\ paths_rx = <<>> /\ searcher \in Gone
  /\ simulator' = "ended"
  /\ UNCHANGED <<chainVars, cursor, gasVars, updater, address_rx, searcherVars, paths_rx,
                 path, core, valid_rx, senderVars, poisoned>>

------------------------------------------------------------------------------
(* The sender *)

\* get_gas_fees prices the transaction with the base fee as it is now.
TakeValid ==
  /\ sender = "recv" /\ valid_rx # <<>>
  /\ sender' = "post" /\ valid_rx' = Tail(valid_rx)
  /\ posted' = Append(posted, [block |-> Head(valid_rx), fee |-> base_fee])
  /\ UNCHANGED <<chainVars, cursor, gasVars, updater, address_rx, searcherVars, paths_rx,
                 simVars, poisoned>>

\* The answer, or a panic for want of one; the task is asynchronous while it waits.
Answered ==
  /\ FreeWorker /\ sender = "post"
  /\ sender' \in {"recv", "dead"}
  /\ UNCHANGED <<chainVars, cursor, gasVars, updater, address_rx, searcherVars, paths_rx,
                 simVars, valid_rx, posted, poisoned>>

SenderEnds ==
  /\ sender = "recv" /\ valid_rx = <<>> /\ simulator \in Gone
  /\ sender' = "ended"
  /\ UNCHANGED <<chainVars, cursor, gasVars, updater, address_rx, searcherVars, paths_rx,
                 simVars, valid_rx, posted, poisoned>>

------------------------------------------------------------------------------
Gas      == UpdateGas \/ GasEnds
Update   == ReceiveHeader \/ Traced \/ TraceFails \/ ApplyBlock \/ UpdaterEnds
Work     == TakeEvent \/ Search \/ SearchFetch \/ SearchFetched \/ SearcherEnds
Simulate == TakePath \/ Quote \/ Fetch \/ Fetched \/ FetchPanics \/ SimulatorEnds
Post     == TakeValid \/ Answered \/ SenderEnds

Next == Mine \/ StreamBlock \/ StreamEnds \/ Spawned \/ Gas \/ Update \/ Work \/ Simulate \/ Post

Spec == Init /\ [][Next]_vars

\* The runtime runs every task that is ready when it has a worker free, threads run,
\* and the node answers a request, one way or another.  Nothing need be mined, and
\* the subscription need not end.
FairSpec ==
  /\ Spec
  /\ WF_vars(StreamBlock) /\ WF_vars(Spawned) /\ WF_vars(Gas) /\ WF_vars(Update)
  /\ WF_vars(Work) /\ WF_vars(Simulate) /\ WF_vars(Post)

------------------------------------------------------------------------------
(* Properties *)

\* The types of the variables; one worker is always left, and a path in hand belongs
\* to a block that was announced.
TypeOK ==
  /\ mined \in 0 .. MaxBlocks /\ streaming \in BOOLEAN /\ streamed \in 0 .. mined
  /\ cursor \in [{"gas", "updater"} -> 0 .. streamed]
  /\ gas \in {"recv", "ended"} /\ base_fee = cursor.gas
  /\ updater \in {"recv", "trace", "lock"} \union Gone
  /\ searcher \in {"recv", "search", "fetch"} \union Gone
  /\ simulator \in {"spawned", "recv", "quote", "fetch"} \union Gone
  /\ sender \in {"spawned", "recv", "post"} \union Gone
  /\ core \in BOOLEAN /\ poisoned \in BOOLEAN
  /\ address_rx \in Seq(1 .. cursor.updater)
  /\ event \in 0 .. cursor.updater /\ searched \in 0 .. event
  /\ paths_rx \in Seq(1 .. event) /\ path \in 0 .. event /\ valid_rx \in Seq(1 .. event)
  /\ posted \in Seq([block : 1 .. event, fee : 0 .. streamed])
  /\ FreeWorker

\* Across four workers and three queues a block's opportunity is traded once at most,
\* and never after that of a later block.
TradedOncePerBlock ==
  \A i, j \in DOMAIN posted : i < j => posted[i].block < posted[j].block

\* With four worker threads nothing starves: although two tasks keep theirs for good
\* and a third waits on its for the lock, each header broadcast reaches the base fee
\* and, by way of the updater, the searcher, unless one of them is gone.
HeadersHandled ==
  \A n \in 1 .. MaxBlocks :
    /\ streamed >= n ~> base_fee >= n \/ gas = "ended"
    /\ streamed >= n ~> searched >= n \/ updater \in Gone \/ searcher \in Gone

\* When the stream or the updater ends, or a header arrives after the lock has been
\* poisoned, every worker that needs the database ends too: none goes on without it,
\* and none waits for ever for one that is gone.
Quiet == {updater, searcher, simulator, sender} \subseteq Gone
WindDown ==
  \/ ~streaming
  \/ updater \in Gone
  \/ poisoned /\ cursor.updater < streamed
  ~> Quiet

=============================================================================

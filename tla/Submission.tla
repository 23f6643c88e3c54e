---------------------------- MODULE Submission ----------------------------
(***************************************************************************)
(* The simulator task (simulator.rs, quoter.rs) and the transaction sender *)
(* (tx_sender.rs): a path the searcher found is quoted against the         *)
(* database, its input is raised while that pays, and it is posted to the  *)
(* sequencer under the next nonce, with a monitor task per accepted        *)
(* transaction.                                                            *)
(*                                                                         *)
(* The searcher, the database updates and the sequencer are the            *)
(* environment.  What a quote returns depends on the state of the database *)
(* (the market), the path and the input.                                   *)
(***************************************************************************)
EXTENDS Integers, Sequences, FiniteSets

CONSTANTS
  Paths,       \* the swap paths
  Markets,     \* states of the database
  Fails,       \* a quote that reverts or cannot be decoded
  Quotes,      \* Quotes[m][p][k]: output of path p in m after k increments
  Amount,      \* AMOUNT, the first input
  Increment,   \* what each try of optimize_input adds
  MaxTries,    \* tries of optimize_input (50)
  LoanCap,     \* quotes from here on are not believed (1e18)
  MaxAttempts, \* receipt polls of a monitor (10)
  MaxPaths,    \* bound: paths found in a behaviour
  MaxMoves     \* bound: updates of the database in a behaviour

ASSUME FailsAssumption == Fails \notin Nat
ASSUME QuotesAssumption ==
  Quotes \in [Markets -> [Paths -> [0 .. MaxTries -> Nat \cup {Fails}]]]
ASSUME AmountsAssumption ==
  /\ Amount \in Nat /\ Increment \in Nat \ {0} /\ MaxTries \in Nat
  /\ LoanCap \in Nat /\ MaxAttempts \in Nat \ {0} /\ MaxPaths \in Nat /\ MaxMoves \in Nat

VARIABLES
  market,      \* the database
  moves,       \* how often it was updated
  searching,   \* whether the searcher, the sender of paths_rx, lives
  found,       \* how many paths it has sent
  paths_rx,    \* the channel of ArbPath events
  sim,         \* SIM: only compare quotes, send nothing
  sim_pc,      \* where the simulator is: recv, quote, optimize, ended or dead
  arb,         \* the path it is working on
  outs,        \* the quotes it has had for it
  best_input,  \* optimize_input's best input so far
  best_output, \* and that input's output
  blacklist,   \* blacklisted_paths
  valid_rx,    \* the channel of ValidPath events
  tx_pc,       \* where the sender is: recv, post, ended or dead
  nonce,       \* the sender's next nonce
  tx,          \* the transaction being posted
  pool,        \* nonces of the transactions the sequencer has taken
  chain_nonce, \* the account's nonce on chain: those below it have landed
  monitors,    \* the monitor of each accepted transaction, by nonce
  forwarded,   \* history: the ValidPath events sent
  posted       \* history: the transactions posted, with the answers

envVars  == <<market, moves, searching, found>>
simVars  == <<sim, sim_pc, arb, outs, best_input, best_output, blacklist>>
txVars   == <<tx_pc, nonce, tx, posted>>
vars == <<envVars, simVars, txVars, paths_rx, valid_rx, pool, chain_nonce, monitors,
          forwarded>>

NoPath == "none"
NoTx   == [path |-> NoPath, input |-> 0, nonce |-> 0]

Input(k) == Amount + k * Increment
Tries    == Len(outs) - 1

-----------------------------------------------------------------------------
\* The sender starts with the account's transaction count, which is 0 here.
InitNextNonce ==   \* mutant: starts one nonce ahead
  /\ market \in Markets /\ moves = 0 /\ searching = TRUE /\ found = 0
  /\ paths_rx = <<>> /\ valid_rx = <<>>
  /\ sim \in BOOLEAN /\ sim_pc = "recv" /\ arb = NoPath /\ outs = <<>>
  /\ best_input = 0 /\ best_output = 0 /\ blacklist = {}
  /\ tx_pc = "recv" /\ nonce = 1 /\ tx = NoTx
  /\ pool = {} /\ chain_nonce = 0 /\ monitors = <<>>
  /\ forwarded = <<>> /\ posted = <<>>
Init ==
  /\ market \in Markets /\ moves = 0 /\ searching = TRUE /\ found = 0
  /\ paths_rx = <<>> /\ valid_rx = <<>>
  /\ sim \in BOOLEAN /\ sim_pc = "recv" /\ arb = NoPath /\ outs = <<>>
  /\ best_input = 0 /\ best_output = 0 /\ blacklist = {}
  /\ tx_pc = "recv" /\ nonce = 0 /\ tx = NoTx
  /\ pool = {} /\ chain_nonce = 0 /\ monitors = <<>>
  /\ forwarded = <<>> /\ posted = <<>>

-----------------------------------------------------------------------------
(* The environment. *)

FindPath ==
  /\ searching /\ found < MaxPaths
  /\ \E p \in Paths :
       paths_rx' = IF sim_pc \in {"ended", "dead"} THEN paths_rx ELSE Append(paths_rx, p)
  /\ found' = found + 1
  /\ UNCHANGED <<market, moves, searching, simVars, txVars, valid_rx, pool, chain_nonce,
                 monitors, forwarded>>

SearcherStops ==
  /\ searching
  /\ searching' = FALSE
  /\ UNCHANGED <<market, moves, found, simVars, txVars, paths_rx, valid_rx, pool,
                 chain_nonce, monitors, forwarded>>

UpdateDatabase ==
  /\ moves < MaxMoves
  /\ market' \in Markets \ {market}
  /\ moves' = moves + 1
  /\ UNCHANGED <<searching, found, simVars, txVars, paths_rx, valid_rx, pool, chain_nonce,
                 monitors, forwarded>>

\* The sequencer executes the account's transactions in the order of their nonces.
Land ==
  /\ chain_nonce \in pool
  /\ chain_nonce' = chain_nonce + 1
  /\ UNCHANGED <<envVars, simVars, txVars, paths_rx, valid_rx, pool, monitors, forwarded>>

-----------------------------------------------------------------------------
(* The simulator: simulate_paths. *)

TakePath ==
  /\ sim_pc = "recv" /\ paths_rx # <<>>
  /\ paths_rx' = Tail(paths_rx)
  /\ IF Head(paths_rx) \in blacklist
       THEN UNCHANGED <<arb, sim_pc>>
       ELSE arb' = Head(paths_rx) /\ sim_pc' = "quote"
  /\ UNCHANGED <<envVars, sim, outs, best_input, best_output, blacklist, txVars, valid_rx,
                 pool, chain_nonce, monitors, forwarded>>

\* The first quote, at AMOUNT: a failure blacklists the path, anything below the
\* cap goes on to optimize_input, in a simulation run nothing does.
Quoted == Quotes[market][arb][0]

FirstQuote ==
  /\ sim_pc = "quote"
  /\ blacklist' = IF Quoted = Fails THEN blacklist \cup {arb} ELSE blacklist
  /\ IF Quoted # Fails /\ ~sim /\ Quoted < LoanCap
       THEN /\ sim_pc' = "optimize" /\ arb' = arb
            /\ outs' = <<Quoted>> /\ best_input' = Amount /\ best_output' = Quoted
       ELSE /\ sim_pc' = "recv" /\ arb' = NoPath
            /\ UNCHANGED <<outs, best_input, best_output>>
  /\ UNCHANGED <<envVars, sim, txVars, paths_rx, valid_rx, pool, chain_nonce, monitors,
                 forwarded>>

\* optimize_input, one more try; each quote takes the lock of the database anew.
Next_Input  == Input(Len(outs))
Next_Output == Quotes[market][arb][Len(outs)]
RaisesOutput ==   \* mutant: the output must grow, but may stay below the input
  /\ Tries < MaxTries
  /\ Next_Output # Fails /\ Next_Output > best_output
Pays ==
  /\ Tries < MaxTries
  /\ Next_Output # Fails /\ Next_Output > Next_Input /\ Next_Output > best_output

Raise ==
  /\ sim_pc = "optimize" /\ Pays
  /\ outs' = Append(outs, Next_Output)
  /\ best_input' = Next_Input /\ best_output' = Next_Output
  /\ UNCHANGED <<envVars, sim, sim_pc, arb, blacklist, txVars, paths_rx, valid_rx, pool,
                 chain_nonce, monitors, forwarded>>

\* The loop ends, at the first try that does not pay or after the last one, and
\* the path is sent with the best input.  A dropped receiver loses it.
Forward ==
  /\ sim_pc = "optimize" /\ ~Pays
  /\ LET valid == [path |-> arb, input |-> best_input]
     IN  /\ forwarded' = Append(forwarded, [valid |-> valid, output |-> best_output, outs |-> outs])
         /\ valid_rx' = IF tx_pc \in {"ended", "dead"} THEN valid_rx ELSE Append(valid_rx, valid)
  /\ sim_pc' = "recv" /\ arb' = NoPath
  /\ outs' = <<>> /\ best_input' = 0 /\ best_output' = 0
  /\ UNCHANGED <<envVars, sim, blacklist, txVars, paths_rx, pool, chain_nonce, monitors>>

\* The database cannot fetch an account or a slot, or its lock is poisoned: an
\* unwrap() panics.
QuotePanics ==
  /\ sim_pc \in {"quote", "optimize"}
  /\ sim_pc' = "dead"
  /\ UNCHANGED <<envVars, sim, arb, outs, best_input, best_output, blacklist, txVars,
                 paths_rx, valid_rx, pool, chain_nonce, monitors, forwarded>>

SimulatorEnds ==
  /\ sim_pc = "recv" /\ paths_rx = <<>> /\ ~searching
  /\ sim_pc' = "ended"
  /\ UNCHANGED <<envVars, sim, arb, outs, best_input, best_output, blacklist, txVars,
                 paths_rx, valid_rx, pool, chain_nonce, monitors, forwarded>>

-----------------------------------------------------------------------------
(* The sender: send_transactions. *)

TakeLatest ==   \* mutant: takes the newest path and drops the others
  /\ tx_pc = "recv" /\ valid_rx # <<>>
  /\ LET v == valid_rx[Len(valid_rx)]
     IN  tx' = [path |-> v.path, input |-> v.input, nonce |-> nonce]
  /\ valid_rx' = <<>>
  /\ nonce' = nonce + 1
  /\ tx_pc' = "post"
  /\ UNCHANGED <<envVars, simVars, posted, paths_rx, pool, chain_nonce, monitors, forwarded>>
TakeValid ==
  /\ tx_pc = "recv" /\ valid_rx # <<>>
  /\ tx' = [path |-> Head(valid_rx).path, input |-> Head(valid_rx).input, nonce |-> nonce]
  /\ valid_rx' = Tail(valid_rx)
  /\ nonce' = nonce + 1
  /\ tx_pc' = "post"
  /\ UNCHANGED <<envVars, simVars, posted, paths_rx, pool, chain_nonce, monitors, forwarded>>

Answered(answer) == posted' = Append(posted, [tx |-> tx, answer |-> answer])

\* The sequencer answers with the transaction's hash: a monitor is started.
Accepted ==
  /\ tx_pc = "post"
  /\ Answered("hash")
  /\ pool' = pool \cup {tx.nonce}
  /\ monitors' = [n \in DOMAIN monitors \cup {tx.nonce} |->
                    IF n = tx.nonce THEN [attempts |-> 0, outcome |-> "waiting"]
                                    ELSE monitors[n]]
  /\ tx_pc' = "recv" /\ tx' = NoTx
  /\ UNCHANGED <<envVars, simVars, nonce, paths_rx, valid_rx, chain_nonce, forwarded>>

\* It answers without one: the error is logged.
Rejected ==
  /\ tx_pc = "post"
  /\ Answered("error")
  /\ tx_pc' = "recv" /\ tx' = NoTx
  /\ UNCHANGED <<envVars, simVars, nonce, paths_rx, valid_rx, pool, chain_nonce, monitors,
                 forwarded>>

\* No answer in time, or none that parses: unwrap() ends the task, whether the
\* sequencer has the transaction or not.
PostPanics ==
  /\ tx_pc = "post"
  /\ Answered("none")
  /\ pool' \in {pool, pool \cup {tx.nonce}}
  /\ tx_pc' = "dead" /\ tx' = NoTx
  /\ UNCHANGED <<envVars, simVars, nonce, paths_rx, valid_rx, chain_nonce, monitors, forwarded>>

SenderEnds ==
  /\ tx_pc = "recv" /\ valid_rx = <<>> /\ sim_pc \in {"ended", "dead"}
  /\ tx_pc' = "ended"
  /\ UNCHANGED <<envVars, simVars, nonce, tx, posted, paths_rx, valid_rx, pool, chain_nonce,
                 monitors, forwarded>>

Polling(n) == n \in DOMAIN monitors /\ monitors[n].outcome = "waiting"

\* A monitor that has not run yet, when the sender that spawned it waits for the
\* next path: it is next in line on the sender's own worker thread, which recv()
\* blocks and no other thread takes it from.
Slotted(n) ==
  /\ Polling(n) /\ monitors[n].attempts = 0
  /\ tx_pc = "recv" /\ n = nonce - 1

PollOnceMore(n) ==   \* mutant: gives up one attempt late
  /\ Polling(n) /\ ~Slotted(n)
  /\ LET attempts == monitors[n].attempts + 1
     IN  monitors' = [monitors EXCEPT ![n] =
                        [attempts |-> attempts,
                         outcome  |-> IF attempts <= MaxAttempts THEN "waiting"
                                                                 ELSE "gave_up"]]
  /\ UNCHANGED <<envVars, simVars, txVars, paths_rx, valid_rx, pool, chain_nonce, forwarded>>

PollForEver(n) ==   \* mutant: failed attempts are not counted
  /\ Polling(n) /\ ~Slotted(n) /\ n < chain_nonce
  /\ monitors' = [monitors EXCEPT ![n].outcome = "landed"]
  /\ UNCHANGED <<envVars, simVars, txVars, paths_rx, valid_rx, pool, chain_nonce, forwarded>>

\* A monitor polls for the receipt.  Landed transactions have one, which a node
\* may not have yet.
Poll(n) ==
  /\ Polling(n) /\ ~Slotted(n)
  /\ \/ /\ n < chain_nonce
        /\ monitors' = [monitors EXCEPT ![n].outcome = "landed"]
     \/ LET attempts == monitors[n].attempts + 1
        IN  monitors' = [monitors EXCEPT ![n] =
                           [attempts |-> attempts,
                            outcome  |-> IF attempts < MaxAttempts THEN "waiting"
                                                                   ELSE "gave_up"]]
  /\ UNCHANGED <<envVars, simVars, txVars, paths_rx, valid_rx, pool, chain_nonce, forwarded>>

-----------------------------------------------------------------------------
Environment == FindPath \/ SearcherStops \/ UpdateDatabase \/ Land
Simulate == TakePath \/ FirstQuote \/ Raise \/ Forward \/ QuotePanics \/ SimulatorEnds
Send     == TakeValid \/ Accepted \/ Rejected \/ PostPanics \/ SenderEnds
Monitor  == \E n \in DOMAIN monitors : Poll(n)

Next == Environment \/ Simulate \/ Send \/ Monitor

Spec == Init /\ [][Next]_vars

\* Each task runs by itself, a monitor as soon as it is not slotted, a post is over within its ten seconds, one way or
\* another, and the sequencer executes what it has taken when its turn comes.
\* Nothing obliges a quote to panic.
FairSpec ==
  /\ Spec
  /\ WF_vars(TakePath \/ FirstQuote \/ Raise \/ Forward \/ SimulatorEnds)
  /\ WF_vars(Send) /\ WF_vars(Land)
  /\ \A n \in 0 .. MaxPaths : WF_vars(Poll(n))

-----------------------------------------------------------------------------
(* Properties. *)

Valid == [path : Paths, input : Nat]
Transaction == [path : Paths, input : Nat, nonce : Nat]
ValidOf(t) == [path |-> t.path, input |-> t.input]

\* Type invariant: every variable holds what the code's types allow, and the
\* locals of one iteration are unset between iterations.
TypeOK ==
  /\ market \in Markets /\ moves \in 0 .. MaxMoves
  /\ searching \in BOOLEAN /\ found \in 0 .. MaxPaths
  /\ paths_rx \in Seq(Paths) /\ valid_rx \in Seq(Valid)
  /\ sim \in BOOLEAN /\ blacklist \subseteq Paths
  /\ sim_pc \in {"recv", "quote", "optimize", "ended", "dead"}
  /\ sim_pc \in {"quote", "optimize"} => arb \in Paths
  /\ sim_pc = "optimize" => Len(outs) \in 1 .. MaxTries + 1
  /\ outs \in Seq(Nat) /\ best_input \in Nat /\ best_output \in Nat
  /\ tx_pc \in {"recv", "post", "ended", "dead"}
  /\ IF tx_pc = "post" THEN tx \in Transaction ELSE tx = NoTx
  /\ nonce \in Nat /\ chain_nonce \in Nat /\ pool \subseteq Nat
  /\ forwarded \in Seq([valid : Valid, output : Nat, outs : Seq(Nat)])
  /\ posted \in Seq([tx : Transaction, answer : {"hash", "error", "none"}])
  /\ DOMAIN monitors \subseteq pool
  /\ \A n \in DOMAIN monitors :
       monitors[n] \in [attempts : 0 .. MaxAttempts, outcome : {"waiting", "landed", "gave_up"}]
  /\ \A n \in DOMAIN monitors : Polling(n) => monitors[n].attempts < MaxAttempts

\* Raising the input never turns a path bad: a path sent with more than AMOUNT was
\* quoted to return more than that input, and no path is sent on a quote below its
\* first one, although the database may change between the tries.
RaisedInputPays ==
  \A i \in DOMAIN forwarded :
    LET f == forwarded[i]
    IN  /\ f.valid.input # Amount => f.output > f.valid.input
        /\ f.output >= f.outs[1]
        /\ \E k \in DOMAIN f.outs : f.valid.input = Input(k - 1) /\ f.output = f.outs[k]

\* The simulator and the sender implement the outbox: across the channel, panics
\* and posts that fail or go unanswered, the transactions posted are the paths
\* forwarded, in that order, each once and under the next nonce, and every path
\* forwarded is posted in the end, unless the sender dies in a post.
Out == INSTANCE Outbox WITH
  sent     <- [i \in DOMAIN forwarded |-> forwarded[i].valid],
  posted   <- [i \in DOMAIN posted |->
                 [item |-> ValidOf(posted[i].tx), nonce |-> posted[i].tx.nonce]],
  open     <- tx_pc # "dead",
  Items    <- Valid,
  MaxItems <- MaxPaths
ImplementsOutbox == Out!Spec

\* Every transaction the sequencer has taken lands, unless one posted before it was
\* not taken: the sender has then used up a nonce that nothing fills.
AcceptedLands ==
  \A n \in 0 .. MaxPaths :
    n \in pool ~>
      \/ n < chain_nonce
      \/ \E i \in DOMAIN posted : posted[i].tx.nonce < n /\ posted[i].tx.nonce \notin pool

\* No monitor waits for a receipt for ever, landed or not, once the sender's thread
\* has let go of it.
MonitorsEnd ==
  \A n \in 0 .. MaxPaths : Polling(n) /\ ~Slotted(n) ~> ~Polling(n)

=============================================================================

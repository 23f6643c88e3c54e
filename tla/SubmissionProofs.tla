-------------------------- MODULE SubmissionProofs --------------------------
(***************************************************************************)
(* Proofs about the simulator and the sender: a raised input pays, and     *)
(* every transaction posted is the next path forwarded under the next      *)
(* nonce, for any paths, markets, quotes and bounds.                       *)
(***************************************************************************)
EXTENDS Submission, SequenceTheorems, TLAPS

(***************************************************************************)
(* The parts of the inductive invariants.                                  *)
(***************************************************************************)

\* The transactions posted are the paths forwarded, in that order, each under a
\* nonce of its own and with no nonce left out.
PostedInOrder ==
  \A i \in DOMAIN posted :
    LET t == posted[i].tx
    IN  t.nonce = i - 1 /\ ValidOf(t) = forwarded[i].valid

\* Where each ValidPath sent is: posted, in the sender's hands, or queued.  nonce
\* counts those that have left the queue.
HandedOver ==
  /\ nonce = Len(posted) + (IF tx_pc = "post" THEN 1 ELSE 0)
  /\ Len(posted) <= Len(forwarded)
  /\ tx_pc = "post" => tx.nonce = nonce - 1 /\ ValidOf(tx) = forwarded[nonce].valid
  /\ tx_pc \in {"recv", "post"} =>
       /\ Len(forwarded) = nonce + Len(valid_rx)
       /\ \A j \in DOMAIN valid_rx : valid_rx[j] = forwarded[nonce + j].valid

\* The best of the quotes had so far is one of them, no worse than the first, and
\* above its input if that was raised.
BestSoFar ==
  sim_pc = "optimize" =>
    /\ best_input # Amount => best_output > best_input
    /\ best_output >= outs[1]
    /\ \E k \in DOMAIN outs : best_input = Input(k - 1) /\ best_output = outs[k]

IndInv == TypeOK /\ HandedOver /\ PostedInOrder /\ BestSoFar /\ RaisedInputPays

Forwarding == [valid : Valid, output : Nat, outs : Seq(Nat)]
Posting    == [tx : Transaction, answer : {"hash", "error", "none"}]

(***************************************************************************)
(* Types.                                                                  *)
(***************************************************************************)

\* A quote of a path in a market, after as many increments as optimize_input may
\* make, is a natural number unless it fails.
LEMMA QuoteType ==
  ASSUME NEW m \in Markets, NEW p \in Paths, NEW k \in 0 .. MaxTries
  PROVE  Quotes[m][p][k] \in Nat \cup {Fails}
<1>1. Quotes[m] \in [Paths -> [0 .. MaxTries -> Nat \cup {Fails}]]
  BY QuotesAssumption
<1>2. Quotes[m][p] \in [0 .. MaxTries -> Nat \cup {Fails}]
  BY <1>1
<1> QED BY <1>2

\* Inputs are natural numbers.
LEMMA InputType == ASSUME NEW k \in Nat PROVE Input(k) \in Nat
<1>1. k * Increment \in Nat
  BY AmountsAssumption
<1> QED BY <1>1, AmountsAssumption DEF Input

\* At the start every variable has its type.
LEMMA InitType == Init => TypeOK
<1> SUFFICES ASSUME Init PROVE TypeOK
  OBVIOUS
<1> QED BY AmountsAssumption DEF Init, TypeOK, NoTx

\* The environment's steps keep the types.
LEMMA EnvironmentType == TypeOK /\ Environment => TypeOK'
<1> SUFFICES ASSUME TypeOK, Environment PROVE TypeOK'
  OBVIOUS
<1> USE DEF TypeOK, Polling, envVars, simVars, txVars
<1>1. CASE FindPath
  <2>1. paths_rx' \in Seq(Paths)
    BY <1>1 DEF FindPath
  <2>2. found' \in 0 .. MaxPaths
    BY <1>1, AmountsAssumption DEF FindPath
  <2> QED BY <1>1, <2>1, <2>2 DEF FindPath
<1>2. CASE SearcherStops
  BY <1>2 DEF SearcherStops
<1>3. CASE UpdateDatabase
  <2>1. moves' \in 0 .. MaxMoves
    BY <1>3, AmountsAssumption DEF UpdateDatabase
  <2> QED BY <1>3, <2>1 DEF UpdateDatabase
<1>4. CASE Land
  BY <1>4 DEF Land
<1> QED BY <1>1, <1>2, <1>3, <1>4 DEF Environment

\* The simulator's steps keep the types.
LEMMA SimulateType == TypeOK /\ Simulate => TypeOK'
<1> SUFFICES ASSUME TypeOK, Simulate PROVE TypeOK'
  OBVIOUS
<1> USE DEF TypeOK, Polling, envVars, simVars, txVars
<1>1. CASE TakePath
  <2>1. paths_rx' \in Seq(Paths) /\ Head(paths_rx) \in Paths
    BY <1>1 DEF TakePath
  <2> QED BY <1>1, <2>1 DEF TakePath
<1>2. CASE FirstQuote
  <2>1. Quoted # Fails => Quoted \in Nat
    <3>1. 0 \in 0 .. MaxTries /\ arb \in Paths
      BY <1>2, AmountsAssumption DEF FirstQuote
    <3> QED BY <3>1, QuoteType DEF Quoted
  <2>2. blacklist' \subseteq Paths
    BY <1>2 DEF FirstQuote
  <2>3. CASE Quoted # Fails /\ ~sim /\ Quoted < LoanCap
    <3>1. outs' = <<Quoted>> /\ best_input' = Amount /\ best_output' = Quoted
      BY <1>2, <2>3 DEF FirstQuote
    <3>2. outs' \in Seq(Nat) /\ Len(outs') \in 1 .. MaxTries + 1
      BY <2>1, <2>3, <3>1, AmountsAssumption
    <3> QED BY <1>2, <2>1, <2>2, <2>3, <3>1, <3>2, AmountsAssumption DEF FirstQuote
  <2>4. CASE ~(Quoted # Fails /\ ~sim /\ Quoted < LoanCap)
    BY <1>2, <2>2, <2>4 DEF FirstQuote
  <2> QED BY <2>3, <2>4
<1>3. CASE Raise
  <2>1. Len(outs) \in 1 .. MaxTries
    BY <1>3, AmountsAssumption DEF Raise, Pays, Tries
  <2>2. Next_Output \in Nat /\ Next_Input \in Nat
    <3>1. Len(outs) \in 0 .. MaxTries /\ Len(outs) \in Nat /\ arb \in Paths
      BY <1>3, <2>1, AmountsAssumption DEF Raise
    <3>2. Next_Output \in Nat \cup {Fails} /\ Next_Output # Fails
      BY <1>3, <3>1, QuoteType DEF Raise, Pays, Next_Output
    <3> QED BY <3>1, <3>2, InputType DEF Next_Input
  <2>3. outs' \in Seq(Nat) /\ Len(outs') = Len(outs) + 1
    BY <1>3, <2>2 DEF Raise
  <2>4. Len(outs') \in 1 .. MaxTries + 1
    BY <2>1, <2>3, AmountsAssumption
  <2> QED BY <1>3, <2>2, <2>3, <2>4 DEF Raise
<1>4. CASE Forward
  <2>1. [path |-> arb, input |-> best_input] \in Valid
    BY <1>4 DEF Forward, Valid
  <2>2. valid_rx' \in Seq(Valid) /\ forwarded' \in Seq(Forwarding)
    BY <1>4, <2>1 DEF Forward, Forwarding
  <2> QED BY <1>4, <2>2 DEF Forward, Forwarding
<1>5. CASE QuotePanics
  BY <1>5 DEF QuotePanics
<1>6. CASE SimulatorEnds
  BY <1>6 DEF SimulatorEnds
<1> QED BY <1>1, <1>2, <1>3, <1>4, <1>5, <1>6 DEF Simulate

\* The sender's steps keep the types.
LEMMA SendType == TypeOK /\ Send => TypeOK'
<1> SUFFICES ASSUME TypeOK, Send PROVE TypeOK'
  OBVIOUS
<1> USE DEF TypeOK, Polling, envVars, simVars, txVars
<1>1. ASSUME NEW answer \in {"hash", "error", "none"}, tx_pc = "post", Answered(answer)
      PROVE  posted' \in Seq(Posting)
  <2>1. [tx |-> tx, answer |-> answer] \in Posting
    BY <1>1 DEF Posting
  <2>2. posted \in Seq(Posting)
    BY DEF Posting
  <2> QED BY <1>1, <2>1, <2>2 DEF Answered
<1>2. CASE TakeValid
  <2>1. Head(valid_rx) \in Valid /\ valid_rx' \in Seq(Valid)
    BY <1>2 DEF TakeValid
  <2>2. tx' \in Transaction
    BY <1>2, <2>1 DEF TakeValid, Valid, Transaction
  <2> QED BY <1>2, <2>1, <2>2 DEF TakeValid
<1>3. CASE Accepted
  <2>1. posted' \in Seq(Posting) /\ tx.nonce \in Nat
    BY <1>1, <1>3 DEF Accepted, Transaction
  <2>2. ASSUME NEW n \in DOMAIN monitors'
        PROVE  /\ monitors'[n] \in [attempts : 0 .. MaxAttempts,
                                    outcome : {"waiting", "landed", "gave_up"}]
               /\ monitors'[n].outcome = "waiting" => monitors'[n].attempts < MaxAttempts
    <3>1. CASE n = tx.nonce
      BY <1>3, <3>1, AmountsAssumption DEF Accepted
    <3>2. CASE n # tx.nonce
      BY <1>3, <3>2 DEF Accepted
    <3> QED BY <3>1, <3>2
  <2>3. DOMAIN monitors' \subseteq pool'
    BY <1>3 DEF Accepted
  <2> QED BY <1>3, <2>1, <2>2, <2>3 DEF Accepted, Posting
<1>4. CASE Rejected
  <2>1. posted' \in Seq(Posting)
    BY <1>1, <1>4 DEF Rejected
  <2> QED BY <1>4, <2>1 DEF Rejected, Posting
<1>5. CASE PostPanics
  <2>1. posted' \in Seq(Posting) /\ tx.nonce \in Nat
    BY <1>1, <1>5 DEF PostPanics, Transaction
  <2>2. pool \subseteq pool' /\ pool' \subseteq Nat
    BY <1>5, <2>1 DEF PostPanics
  <2> QED BY <1>5, <2>1, <2>2 DEF PostPanics, Posting
<1>6. CASE SenderEnds
  BY <1>6 DEF SenderEnds
<1> QED BY <1>2, <1>3, <1>4, <1>5, <1>6 DEF Send

\* A monitor's steps keep the types.
LEMMA MonitorType == TypeOK /\ Monitor => TypeOK'
<1> SUFFICES ASSUME TypeOK, NEW n \in DOMAIN monitors, Poll(n) PROVE TypeOK'
  BY DEF Monitor
<1> USE DEF TypeOK, Polling, envVars, simVars, txVars
<1> DEFINE M == [attempts : 0 .. MaxAttempts, outcome : {"waiting", "landed", "gave_up"}]
<1>1. /\ DOMAIN monitors' = DOMAIN monitors
      /\ \A i \in DOMAIN monitors \ {n} : monitors'[i] = monitors[i]
      /\ monitors'[n] \in M
      /\ monitors'[n].outcome = "waiting" => monitors'[n].attempts < MaxAttempts
  <2>1. monitors[n] \in M /\ monitors[n].attempts < MaxAttempts
    BY DEF Poll
  <2>2. CASE monitors' = [monitors EXCEPT ![n].outcome = "landed"]
    BY <2>1, <2>2
  <2>3. CASE monitors' = [monitors EXCEPT ![n] =
                            [attempts |-> monitors[n].attempts + 1,
                             outcome  |-> IF monitors[n].attempts + 1 < MaxAttempts
                                            THEN "waiting" ELSE "gave_up"]]
    <3>1. monitors[n].attempts + 1 \in 0 .. MaxAttempts
      BY <2>1, AmountsAssumption
    <3> QED BY <2>1, <2>3, <3>1
  <2> QED BY <2>2, <2>3 DEF Poll
<1>2. \A i \in DOMAIN monitors' :
        /\ monitors'[i] \in M
        /\ Polling(i)' => monitors'[i].attempts < MaxAttempts
  BY <1>1 DEF Polling
<1> QED BY <1>1, <1>2 DEF Poll

\* Every step keeps the types.
LEMMA TypeStep == TypeOK /\ [Next]_vars => TypeOK'
<1> SUFFICES ASSUME TypeOK, [Next]_vars PROVE TypeOK'
  OBVIOUS
<1>1. CASE UNCHANGED vars
  BY <1>1 DEF TypeOK, Polling, vars, envVars, simVars, txVars
<1> QED
  BY <1>1, EnvironmentType, SimulateType, SendType, MonitorType DEF Next

(***************************************************************************)
(* The input of a path forwarded.                                          *)
(***************************************************************************)

\* A try that pays becomes the best so far; the first quote starts it.
LEMMA BestStep == IndInv /\ [Next]_vars => BestSoFar'
<1> SUFFICES ASSUME IndInv, [Next]_vars, sim_pc' = "optimize"
             PROVE  /\ best_input' # Amount => best_output' > best_input'
                    /\ best_output' >= outs'[1]
                    /\ \E k \in DOMAIN outs' : best_input' = Input(k - 1) /\ best_output' = outs'[k]
  BY DEF BestSoFar, Input
<1> USE DEF IndInv
<1>1. CASE FirstQuote
  <2>1. Quoted # Fails /\ outs' = <<Quoted>> /\ best_input' = Amount /\ best_output' = Quoted
    BY <1>1 DEF FirstQuote
  <2>2. Quoted \in Nat
    <3>1. 0 \in 0 .. MaxTries /\ arb \in Paths /\ market \in Markets
      BY <1>1, AmountsAssumption DEF FirstQuote, TypeOK
    <3> QED BY <2>1, <3>1, QuoteType DEF Quoted
  <2>3. Input(1 - 1) = Amount
    BY AmountsAssumption DEF Input
  <2>4. 1 \in DOMAIN outs' /\ outs'[1] = Quoted
    BY <2>1
  <2> QED BY <2>1, <2>2, <2>3, <2>4
<1>2. CASE Raise
  <2>1. /\ outs \in Seq(Nat) /\ Len(outs) \in 1 .. MaxTries /\ sim_pc = "optimize"
        /\ best_output \in Nat
    BY <1>2, AmountsAssumption DEF Raise, Pays, Tries, TypeOK
  <2>2. Next_Output \in Nat
    <3>1. Len(outs) \in 0 .. MaxTries /\ arb \in Paths /\ market \in Markets
      BY <2>1, AmountsAssumption DEF TypeOK
    <3>2. Next_Output \in Nat \cup {Fails} /\ Next_Output # Fails
      BY <1>2, <3>1, QuoteType DEF Raise, Pays, Next_Output
    <3> QED BY <3>2
  <2>3. best_input' = Input(Len(outs)) /\ best_output' = Next_Output
    BY <1>2 DEF Raise, Next_Input
  <2>4. /\ Len(outs) + 1 \in DOMAIN outs'
        /\ outs'[Len(outs) + 1] = Next_Output
        /\ outs'[1] = outs[1] /\ outs[1] \in Nat
    BY <1>2, <2>1, <2>2 DEF Raise
  <2>5. best_output' > best_input' /\ best_output' > best_output
    BY <1>2, <2>3 DEF Raise, Pays, Next_Input
  <2>6. best_output' >= outs'[1]
    BY <2>1, <2>2, <2>3, <2>4, <2>5 DEF BestSoFar
  <2>7. Len(outs) + 1 - 1 = Len(outs)
    BY <2>1
  <2> QED BY <2>3, <2>4, <2>5, <2>6, <2>7
<1>3. CASE TakePath \/ Forward \/ QuotePanics \/ SimulatorEnds
  <2>1. sim_pc' # "optimize" \/ UNCHANGED <<sim_pc, outs, best_input, best_output>>
    BY <1>3 DEF TakePath, Forward, QuotePanics, SimulatorEnds
  <2> QED BY <2>1 DEF BestSoFar
<1>4. CASE Environment \/ Send \/ Monitor \/ UNCHANGED vars
  <2>1. UNCHANGED simVars
    BY <1>4 DEF Environment, FindPath, SearcherStops, UpdateDatabase, Land, Send, TakeValid,
                Accepted, Rejected, PostPanics, SenderEnds, Monitor, Poll, vars
  <2> QED BY <2>1 DEF BestSoFar, simVars
<1> QED BY <1>1, <1>2, <1>3, <1>4 DEF Next, Simulate

\* No step but Forward adds a path to those forwarded.
LEMMA OnlyForward ==
  ASSUME [Next]_vars, ~Forward
  PROVE  forwarded' = forwarded
  BY DEF Next, Environment, FindPath, SearcherStops, UpdateDatabase, Land, Simulate,
         TakePath, FirstQuote, Raise, QuotePanics, SimulatorEnds, Send, TakeValid, Accepted,
         Rejected, PostPanics, SenderEnds, Monitor, Poll, vars

\* What is forwarded is the best so far.
LEMMA RaisedStep == IndInv /\ [Next]_vars => RaisedInputPays'
<1> SUFFICES ASSUME IndInv, [Next]_vars PROVE RaisedInputPays'
  OBVIOUS
<1>1. CASE ~Forward
  <2>1. forwarded' = forwarded
    BY <1>1, OnlyForward
  <2> QED BY <2>1 DEF IndInv, RaisedInputPays, Input
<1>2. CASE Forward
  <2> DEFINE f == [valid |-> [path |-> arb, input |-> best_input], output |-> best_output, outs |-> outs]
  <2>1. forwarded' = Append(forwarded, f) /\ forwarded \in Seq(Forwarding)
    BY <1>2 DEF IndInv, TypeOK, Forward, Forwarding
  <2>2. /\ DOMAIN forwarded' = DOMAIN forwarded \cup {Len(forwarded) + 1}
        /\ \A i \in DOMAIN forwarded : forwarded'[i] = forwarded[i]
        /\ forwarded'[Len(forwarded) + 1] = f
    BY <2>1
  <2>3. f.valid.input = best_input /\ f.output = best_output /\ f.outs = outs
    OBVIOUS
  <2> HIDE DEF f
  <2>4. /\ best_input # Amount => best_output > best_input
        /\ best_output >= outs[1]
        /\ \E k \in DOMAIN outs : best_input = Input(k - 1) /\ best_output = outs[k]
    BY <1>2 DEF IndInv, BestSoFar, Forward
  <2> QED BY <2>2, <2>3, <2>4 DEF IndInv, RaisedInputPays, Input
<1> QED BY <1>1, <1>2

(***************************************************************************)
(* The order of the transactions.                                          *)
(***************************************************************************)

\* Each path stays in its place from the simulator's send to the post.
LEMMA HandedOverStep == IndInv /\ [Next]_vars => HandedOver' /\ PostedInOrder'
<1> SUFFICES ASSUME IndInv, [Next]_vars PROVE HandedOver' /\ PostedInOrder'
  OBVIOUS
<1> USE DEF IndInv
<1>1. /\ posted \in Seq(Posting) /\ forwarded \in Seq(Forwarding) /\ valid_rx \in Seq(Valid)
      /\ nonce \in Nat /\ Len(posted) \in Nat /\ Len(forwarded) \in Nat /\ Len(valid_rx) \in Nat
  BY DEF TypeOK, Posting, Forwarding
<1>2. CASE Forward
  <2> DEFINE valid == [path |-> arb, input |-> best_input]
             f     == [valid |-> valid, output |-> best_output, outs |-> outs]
  <2>1. /\ forwarded' = Append(forwarded, f) /\ f.valid = valid
        /\ valid_rx' = IF tx_pc \in {"ended", "dead"} THEN valid_rx ELSE Append(valid_rx, valid)
        /\ UNCHANGED <<tx_pc, nonce, tx, posted>>
    BY <1>2 DEF Forward, txVars
  <2> HIDE DEF valid, f
  <2>2. /\ Len(forwarded') = Len(forwarded) + 1
        /\ \A i \in 1 .. Len(forwarded) : forwarded'[i] = forwarded[i]
        /\ forwarded'[Len(forwarded) + 1].valid = valid
    BY <1>1, <2>1
  <2>3. nonce <= Len(forwarded) /\ (tx_pc = "post" => nonce >= 1)
    <3>1. nonce <= Len(forwarded)
      BY <1>1 DEF HandedOver
    <3>2. tx_pc = "post" => nonce >= 1
      BY <1>1 DEF HandedOver
    <3> QED BY <3>1, <3>2
  <2>4. ASSUME tx_pc \in {"recv", "post"}
        PROVE  /\ Len(forwarded') = nonce + Len(valid_rx')
               /\ \A j \in DOMAIN valid_rx' : valid_rx'[j] = forwarded'[nonce + j].valid
    <3>1. valid_rx' = Append(valid_rx, valid)
      BY <2>1, <2>4
    <3>2. /\ Len(valid_rx') = Len(valid_rx) + 1
          /\ valid_rx'[Len(valid_rx) + 1] = valid
          /\ \A j \in 1 .. Len(valid_rx) : valid_rx'[j] = valid_rx[j]
          /\ DOMAIN valid_rx' = 1 .. Len(valid_rx) + 1
      BY <1>1, <3>1
    <3>3. Len(forwarded) = nonce + Len(valid_rx)
      BY <2>4 DEF HandedOver
    <3>4. ASSUME NEW j \in 1 .. Len(valid_rx) PROVE valid_rx'[j] = forwarded'[nonce + j].valid
      <4>1. nonce + j \in 1 .. Len(forwarded) /\ j \in DOMAIN valid_rx
        BY <1>1, <3>3
      <4> QED BY <2>2, <2>4, <3>2, <4>1 DEF HandedOver
    <3>5. nonce + (Len(valid_rx) + 1) = Len(forwarded) + 1
      BY <1>1, <3>3
    <3>6. Len(forwarded') = nonce + Len(valid_rx')
      BY <2>2, <3>2, <3>5
    <3>7. ASSUME NEW j \in 1 .. Len(valid_rx) + 1, j \notin 1 .. Len(valid_rx)
          PROVE  valid_rx'[j] = forwarded'[nonce + j].valid
      <4>1. j = Len(valid_rx) + 1
        BY <1>1, <3>7
      <4> QED BY <2>2, <3>2, <3>5, <4>1
    <3> QED BY <3>2, <3>4, <3>6, <3>7
  <2>5. HandedOver'
    <3>1. tx_pc = "post" => nonce \in 1 .. Len(forwarded)
      BY <1>1, <2>3
    <3>2. tx_pc = "post" => tx.nonce = nonce - 1 /\ ValidOf(tx) = forwarded'[nonce].valid
      BY <2>2, <3>1 DEF HandedOver
    <3>3. nonce = Len(posted) + (IF tx_pc = "post" THEN 1 ELSE 0) /\ Len(posted) <= Len(forwarded')
      BY <1>1, <2>2 DEF HandedOver
    <3> QED BY <2>1, <2>4, <3>2, <3>3 DEF HandedOver, ValidOf
  <2>6. PostedInOrder'
    <3>1. ASSUME NEW i \in DOMAIN posted PROVE i \in 1 .. Len(forwarded)
      BY <1>1 DEF HandedOver
    <3> QED BY <2>1, <2>2, <3>1 DEF PostedInOrder, ValidOf
  <2> QED BY <2>5, <2>6
<1>3. CASE TakeValid
  <2>1. /\ valid_rx # <<>> /\ tx_pc = "recv" /\ tx_pc' = "post" /\ nonce' = nonce + 1
        /\ valid_rx' = Tail(valid_rx) /\ posted' = posted /\ forwarded' = forwarded
        /\ ValidOf(tx') = valid_rx[1] /\ tx'.nonce = nonce
    <3>1. valid_rx[1] \in Valid /\ Head(valid_rx) = valid_rx[1]
      BY <1>1, <1>3 DEF TakeValid
    <3>2. [path |-> valid_rx[1].path, input |-> valid_rx[1].input] = valid_rx[1]
      BY <3>1 DEF Valid
    <3> QED BY <1>3, <3>1, <3>2 DEF TakeValid, ValidOf
  <2>2. /\ Len(valid_rx') = Len(valid_rx) - 1 /\ Len(valid_rx) >= 1
        /\ 1 \in DOMAIN valid_rx
        /\ \A j \in DOMAIN valid_rx' :
             j \in Nat /\ j + 1 \in DOMAIN valid_rx /\ valid_rx'[j] = valid_rx[j + 1]
    BY <1>1, <2>1
  <2>3. Len(forwarded) = nonce + Len(valid_rx) /\ nonce = Len(posted)
    BY <1>1, <2>1 DEF HandedOver
  <2>4. \A j \in DOMAIN valid_rx' : valid_rx'[j] = forwarded[(nonce + 1) + j].valid
    <3>1. ASSUME NEW j \in DOMAIN valid_rx' PROVE nonce + (j + 1) = (nonce + 1) + j
      BY <1>1, <2>2
    <3> QED BY <2>1, <2>2, <3>1 DEF HandedOver
  <2>5. valid_rx[1] = forwarded[nonce + 1].valid
    BY <1>1, <2>1, <2>2 DEF HandedOver
  <2>6. HandedOver'
    BY <1>1, <2>1, <2>2, <2>3, <2>4, <2>5 DEF HandedOver
  <2> QED BY <2>1, <2>6 DEF PostedInOrder, ValidOf
<1>4. CASE Accepted \/ Rejected \/ PostPanics
  <2>1. PICK answer : posted' = Append(posted, [tx |-> tx, answer |-> answer])
    BY <1>4 DEF Accepted, Rejected, PostPanics, Answered
  <2>2. /\ tx_pc = "post" /\ tx_pc' \in {"recv", "dead"}
        /\ UNCHANGED <<nonce, valid_rx, forwarded>>
    BY <1>4 DEF Accepted, Rejected, PostPanics
  <2>3. /\ Len(posted') = Len(posted) + 1
        /\ DOMAIN posted' = DOMAIN posted \cup {Len(posted) + 1}
        /\ \A i \in DOMAIN posted : posted'[i] = posted[i]
        /\ posted'[Len(posted) + 1].tx = tx
    BY <1>1, <2>1
  <2>4. /\ nonce = Len(posted) + 1 /\ Len(posted) + 1 <= Len(forwarded)
        /\ tx.nonce = nonce - 1 /\ ValidOf(tx) = forwarded[nonce].valid
    BY <1>1, <2>2 DEF HandedOver
  <2>5. HandedOver'
    BY <1>1, <2>2, <2>3, <2>4 DEF HandedOver
  <2>6. PostedInOrder'
    BY <2>2, <2>3, <2>4 DEF PostedInOrder, ValidOf
  <2> QED BY <2>5, <2>6
<1>5. CASE SenderEnds
  BY <1>5 DEF SenderEnds, HandedOver, PostedInOrder, ValidOf
<1>6. CASE \/ Environment \/ Monitor \/ UNCHANGED vars
           \/ TakePath \/ FirstQuote \/ Raise \/ QuotePanics \/ SimulatorEnds
  <2>1. UNCHANGED <<tx_pc, nonce, tx, posted, valid_rx, forwarded>>
    BY <1>6 DEF Environment, FindPath, SearcherStops, UpdateDatabase, Land, Monitor, Poll, vars,
                txVars, TakePath, FirstQuote, Raise, QuotePanics, SimulatorEnds
  <2> QED BY <2>1 DEF HandedOver, PostedInOrder, ValidOf
<1> QED BY <1>2, <1>3, <1>4, <1>5, <1>6 DEF Next, Simulate, Send

\* The parts together are inductive.
LEMMA Inductive == Spec => []IndInv
<1>1. Init => HandedOver /\ PostedInOrder /\ BestSoFar /\ RaisedInputPays
  BY DEF Init, HandedOver, PostedInOrder, BestSoFar, RaisedInputPays
<1>2. Init => IndInv
  BY <1>1, InitType DEF IndInv
<1>3. IndInv /\ [Next]_vars => IndInv'
  BY TypeStep, BestStep, RaisedStep, HandedOverStep DEF IndInv
<1> QED BY <1>2, <1>3, PTL DEF Spec

(***************************************************************************)
(* The theorems.                                                           *)
(***************************************************************************)

\* Every variable of the simulator and the sender keeps its type.
THEOREM TypeCorrect == Spec => []TypeOK
<1>1. IndInv => TypeOK
  BY DEF IndInv
<1> QED BY <1>1, Inductive, PTL

\* A path is sent with a raised input only on a quote above that input, however
\* the database changes between the quotes.
THEOREM OptimizerSafe == Spec => []RaisedInputPays
<1>1. IndInv => RaisedInputPays
  BY DEF IndInv
<1> QED BY <1>1, Inductive, PTL

\* Transactions are posted in the order their paths were forwarded, under
\* consecutive nonces, each used once.
THEOREM NoncesInOrder == Spec => []PostedInOrder
<1>1. IndInv => PostedInOrder
  BY DEF IndInv
<1> QED BY <1>1, Inductive, PTL

(***************************************************************************)
(* The refinement of the outbox.                                           *)
(***************************************************************************)

\* What the outbox calls sent and posted.
SentOf(f)   == [i \in DOMAIN f |-> f[i].valid]
PostedOf(p) == [i \in DOMAIN p |-> [item |-> ValidOf(p[i].tx), nonce |-> p[i].tx.nonce]]

\* A path forwarded is an item sent.
LEMMA SentAppend ==
  ASSUME NEW s \in Seq(Forwarding), NEW f \in Forwarding
  PROVE  /\ SentOf(Append(s, f)) = Append(SentOf(s), f.valid)
         /\ Len(SentOf(s)) = Len(s) /\ SentOf(s) \in Seq(Valid)
<1>1. SentOf(s) \in Seq(Valid) /\ Len(SentOf(s)) = Len(s)
  <2>1. \A i \in 1 .. Len(s) : s[i].valid \in Valid
    <3>1. \A x \in Forwarding : x.valid \in Valid
      BY DEF Forwarding
    <3> QED BY <3>1
  <2> QED BY <2>1 DEF SentOf
<1>2. SentOf(Append(s, f)) \in Seq(Valid) /\ Len(SentOf(Append(s, f))) = Len(s) + 1
  <2>1. \A i \in 1 .. Len(s) + 1 : Append(s, f)[i].valid \in Valid
    <3>1. \A x \in Forwarding : x.valid \in Valid
      BY DEF Forwarding
    <3> QED BY <3>1
  <2> QED BY <2>1 DEF SentOf
<1>3. f.valid \in Valid
  BY DEF Forwarding
<1>4. \A i \in 1 .. Len(s) + 1 : SentOf(Append(s, f))[i] = Append(SentOf(s), f.valid)[i]
  BY <1>1, <1>3 DEF SentOf
<1> QED BY <1>1, <1>2, <1>3, <1>4

\* A transaction posted is an item posted.
LEMMA PostedAppend ==
  ASSUME NEW p \in Seq(Posting), NEW t \in Posting
  PROVE  /\ PostedOf(Append(p, t))
              = Append(PostedOf(p), [item |-> ValidOf(t.tx), nonce |-> t.tx.nonce])
         /\ Len(PostedOf(p)) = Len(p)
<1> DEFINE Post(x) == [item |-> ValidOf(x.tx), nonce |-> x.tx.nonce]
           Posts   == [item : Valid, nonce : Nat]
<1>1. \A x \in Posting : Post(x) \in Posts
  BY DEF Posting, Transaction, ValidOf, Valid
<1>2. PostedOf(p) = [i \in 1 .. Len(p) |-> Post(p[i])]
  BY DEF PostedOf
<1>3. PostedOf(Append(p, t)) = [i \in 1 .. Len(p) + 1 |-> Post(Append(p, t)[i])]
  BY DEF PostedOf
<1> HIDE DEF Post, Posts
<1>4. PostedOf(p) \in Seq(Posts) /\ Len(PostedOf(p)) = Len(p)
  BY <1>1, <1>2
<1>5. PostedOf(Append(p, t)) \in Seq(Posts) /\ Len(PostedOf(Append(p, t))) = Len(p) + 1
  BY <1>1, <1>3
<1>6. \A i \in 1 .. Len(p) + 1 : PostedOf(Append(p, t))[i] = Append(PostedOf(p), Post(t))[i]
  BY <1>1, <1>2, <1>3, <1>4
<1>7. PostedOf(Append(p, t)) = Append(PostedOf(p), Post(t))
  BY <1>1, <1>4, <1>5, <1>6
<1> QED BY <1>4, <1>7 DEF Post

\* Every step of the two tasks is a step of the outbox, or none of its business.
LEMMA OutboxStep == IndInv /\ [Next]_vars => [Out!Next]_(Out!vars)
<1> SUFFICES ASSUME IndInv, [Next]_vars PROVE [Out!Next]_(Out!vars)
  OBVIOUS
<1>1. posted \in Seq(Posting) /\ forwarded \in Seq(Forwarding)
  BY DEF IndInv, TypeOK, Posting, Forwarding
<1>2. CASE Forward
  <2> DEFINE valid == [path |-> arb, input |-> best_input]
             f     == [valid |-> valid, output |-> best_output, outs |-> outs]
  <2>1. f \in Forwarding /\ valid \in Valid /\ f.valid = valid
    BY <1>2 DEF Forward, IndInv, TypeOK, Forwarding, Valid
  <2>2. forwarded' = Append(forwarded, f) /\ UNCHANGED <<posted, tx_pc>>
    BY <1>2 DEF Forward, txVars
  <2> HIDE DEF f, valid
  <2>3. /\ SentOf(forwarded') = Append(SentOf(forwarded), valid)
        /\ SentOf(forwarded) \in Seq(Valid)
    BY <1>1, <2>1, <2>2, SentAppend
  <2>4. /\ SentOf(forwarded') # <<>>
        /\ SentOf(forwarded')[Len(SentOf(forwarded'))] = valid
    BY <2>1, <2>3
  <2>5. Out!Send
    BY <2>1, <2>2, <2>3, <2>4 DEF Out!Send, SentOf, PostedOf
  <2> QED BY <2>5 DEF Out!Next
<1>3. CASE Accepted \/ Rejected \/ PostPanics
  <2>1. PICK answer \in {"hash", "error", "none"} :
          posted' = Append(posted, [tx |-> tx, answer |-> answer])
    BY <1>3 DEF Accepted, Rejected, PostPanics, Answered
  <2>2. tx_pc = "post" /\ forwarded' = forwarded
    BY <1>3 DEF Accepted, Rejected, PostPanics
  <2>3. [tx |-> tx, answer |-> answer] \in Posting
    BY <2>2 DEF IndInv, TypeOK, Posting
  <2>4. /\ PostedOf(posted') = Append(PostedOf(posted), [item |-> ValidOf(tx), nonce |-> tx.nonce])
        /\ Len(PostedOf(posted)) = Len(posted)
    BY <1>1, <2>1, <2>3, PostedAppend
  <2>5. /\ nonce = Len(posted) + 1 /\ Len(posted) + 1 <= Len(forwarded)
        /\ tx.nonce = Len(posted) /\ ValidOf(tx) = forwarded[Len(posted) + 1].valid
    BY <1>1, <2>2 DEF IndInv, HandedOver, TypeOK, Posting, Forwarding
  <2>6. /\ Len(SentOf(forwarded)) = Len(forwarded)
        /\ SentOf(forwarded)[Len(posted) + 1] = forwarded[Len(posted) + 1].valid
    BY <1>1, <2>5 DEF SentOf
  <2>7. /\ tx_pc # "dead" /\ (tx_pc # "dead")' \in BOOLEAN
        /\ Len(PostedOf(posted)) < Len(SentOf(forwarded))
        /\ SentOf(forwarded') = SentOf(forwarded)
    BY <1>1, <2>2, <2>4, <2>5, <2>6
  <2>8. PostedOf(posted') = Append(PostedOf(posted),
          [item |-> SentOf(forwarded)[Len(PostedOf(posted)) + 1], nonce |-> Len(PostedOf(posted))])
    BY <2>4, <2>5, <2>6
  <2>9. Out!Post
    BY <2>7, <2>8 DEF Out!Post, SentOf, PostedOf
  <2> QED BY <2>9 DEF Out!Next
<1>4. CASE ~(Forward \/ Accepted \/ Rejected \/ PostPanics)
  <2>1. forwarded' = forwarded /\ posted' = posted /\ (tx_pc' = "dead" <=> tx_pc = "dead")
    BY <1>4 DEF Next, Environment, FindPath, SearcherStops, UpdateDatabase, Land, Simulate,
           TakePath, FirstQuote, Raise, QuotePanics, SimulatorEnds, Send, TakeValid, SenderEnds,
           Monitor, Poll, vars, txVars
  <2> QED BY <2>1 DEF Out!vars, ValidOf
<1> QED BY <1>2, <1>3, <1>4

\* The simulator and the sender implement the outbox: what is posted is what was
\* forwarded, in order, once and under consecutive nonces, and nothing is posted
\* after the sender has died.  (Delivery, under fairness, is left to the runs.)
THEOREM OutboxImplemented == Spec => Out!Steps
<1>1. Init => Out!Init
  BY DEF Init, Out!Init
<1> QED BY <1>1, Inductive, OutboxStep, PTL DEF Spec, Out!Steps

=============================================================================

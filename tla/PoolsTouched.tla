---------------------------- MODULE PoolsTouched ----------------------------
(***************************************************************************)
(* What state_updater promises the search thread, whose cache and rates    *)
(* live on it: once it has started, a block is in the database as a whole, *)
(* later blocks come later, what the database holds of a pool changes with *)
(* a block only, and before the next block an event names all of the pools *)
(* that changed.  MarketState implements it; ApplyBlock and SendTouched of *)
(* Searcher are its Update and Tell.                                       *)
(***************************************************************************)
EXTENDS Naturals, Sequences

CONSTANTS Pools

VARIABLES
  held,      \* for each pool, what the database holds: values of some of its cells
  started,   \* whether the search thread may start
  last,      \* the last block in the database
  owed,      \* the set of the one event that is still to be sent, or empty
  events     \* the events sent

vars == <<held, started, last, owed, events>>

Init == ~started /\ last = 0 /\ owed = {} /\ events = <<>>

\* Until the search may start the database is what it is, and nothing is told of it.
Prepare ==
  /\ ~started
  /\ started' \in BOOLEAN
  /\ last' \in Nat /\ last' >= last
  /\ UNCHANGED <<owed, events>>

\* A cell that is not held is read, and kept.
Load ==
  /\ started
  /\ \A p \in Pools : \A c \in DOMAIN held[p] :
       c \in DOMAIN held'[p] /\ held'[p][c] = held[p][c]
  /\ UNCHANGED <<started, last, owed, events>>

\* A later block; what it leaves alone stays to the cell.
Update ==
  /\ started /\ owed = {}
  /\ last' \in Nat /\ last' > last
  /\ \E P \in SUBSET Pools :
       /\ owed' = {[pools |-> P, block |-> last']}
       /\ \A p \in Pools \ P : held'[p] = held[p]
  /\ UNCHANGED <<started, events>>

Tell ==
  /\ \E e \in owed : events' = Append(events, e)
  /\ owed' = {}
  /\ UNCHANGED <<held, started, last>>

Next == Prepare \/ Load \/ Update \/ Tell

Spec == Init /\ [][Next]_vars

=============================================================================

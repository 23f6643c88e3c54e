------------------------------- MODULE Outbox -------------------------------
(***************************************************************************)
(* What simulate_paths and send_transactions promise together: what the    *)
(* one sends the other posts, in that order, each thing once and under the *)
(* next nonce, and sooner or later all of it, unless the outbox closes,    *)
(* which it does only on a post.  Submission implements it.                *)
(***************************************************************************)
EXTENDS Naturals, Sequences

CONSTANTS
  Items,     \* what may be sent
  MaxItems   \* bound: things sent in a behaviour

VARIABLES
  sent,      \* what was sent
  posted,    \* what was posted: [item, nonce]
  open       \* whether it still posts

vars == <<sent, posted, open>>

Init == sent = <<>> /\ posted = <<>> /\ open = TRUE

Send ==
  /\ sent' # <<>> /\ sent'[Len(sent')] \in Items
  /\ sent' = Append(sent, sent'[Len(sent')])
  /\ UNCHANGED <<posted, open>>

Post ==
  /\ open /\ Len(posted) < Len(sent)
  /\ posted' = Append(posted, [item |-> sent[Len(posted) + 1], nonce |-> Len(posted)])
  /\ open' \in BOOLEAN
  /\ UNCHANGED sent

Next == Send \/ Post

Steps == Init /\ [][Next]_vars

Delivery == \A i \in 1 .. MaxItems : Len(sent) >= i ~> Len(posted) >= i \/ ~open

Spec == Steps /\ Delivery

=============================================================================

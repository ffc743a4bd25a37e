------------------------------ MODULE Delivery ------------------------------
(***************************************************************************)
(* What the inbound path promises about one WhatsApp message, with the     *)
(* webhook, Redis and the workers abstracted away.  An accepted message is *)
(* answered (its orchestration transaction committed with success) or      *)
(* rejected (it is in the dead-letter list for an operator), and never     *)
(* neither in the end.  What was rejected is never answered.  What was     *)
(* answered may become a dead letter as well: a worker that dies between   *)
(* the commit and the acknowledgement leaves an answered message to be     *)
(* recovered, and one more failure retires it.                             *)
(***************************************************************************)

CONSTANT Messages   \* WhatsApp message ids

VARIABLE outcome   \* of each message: unseen, pending, answered, rejected or both

Init == outcome = [m \in Messages |-> "unseen"]

Move(m, from, to) ==
  /\ outcome[m] = from
  /\ outcome' = [outcome EXCEPT ![m] = to]

Accept(m) == Move(m, "unseen", "pending")

Answer(m) == Move(m, "pending", "answered")

Reject(m) == Move(m, "pending", "rejected")

Retire(m) == Move(m, "answered", "both")

Settle(m) == Answer(m) \/ Reject(m)

Next == \E m \in Messages : Accept(m) \/ Settle(m) \/ Retire(m)

Safety == Init /\ [][Next]_outcome

Spec == Safety /\ \A m \in Messages : WF_outcome(Settle(m))
=============================================================================

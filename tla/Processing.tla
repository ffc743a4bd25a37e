----------------------------- MODULE Processing -----------------------------
(***************************************************************************)
(* What the database promises the message queue: each message is recorded  *)
(* at most once, in one step that also says whether it was answered, and   *)
(* what was recorded never changes, however often the message is processed *)
(* and wherever its processing dies.  Succeed, FailStored and PoisonCrash  *)
(* of MessageQueue assume exactly this.                                    *)
(***************************************************************************)

CONSTANT Messages

VARIABLES
  recorded,  \* messages with a row in the messages table
  settled    \* messages whose processing was committed as a success

Init == recorded = {} /\ settled = {}

Record(m) ==
  /\ m \notin recorded
  /\ recorded' = recorded \cup {m}
  /\ settled' \in {settled, settled \cup {m}}

Next == \E m \in Messages : Record(m)

Spec == Init /\ [][Next]_<<recorded, settled>>
=============================================================================

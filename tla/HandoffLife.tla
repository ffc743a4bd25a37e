----------------------------- MODULE HandoffLife -----------------------------
(***************************************************************************)
(* What the desk may rely on about a handoff: it is filed, perhaps taken   *)
(* by one agent, and resolved; no step leads back, and nobody takes what   *)
(* somebody else took or resolved.                                         *)
(***************************************************************************)

CONSTANTS Handoffs, Agents, Nobody

VARIABLES status, agent

Init ==
  /\ status = [h \in Handoffs |-> "absent"]
  /\ agent = [h \in Handoffs |-> Nobody]

File(h) ==
  /\ status[h] = "absent"
  /\ status' = [status EXCEPT ![h] = "pending"]
  /\ UNCHANGED agent

Assign(h, a) ==
  /\ status[h] = "pending"
  /\ status' = [status EXCEPT ![h] = "assigned"]
  /\ agent' = [agent EXCEPT ![h] = a]

Resolve(h) ==
  /\ status[h] \in {"pending", "assigned"}
  /\ status' = [status EXCEPT ![h] = "resolved"]
  /\ UNCHANGED agent

Next == \E h \in Handoffs : File(h) \/ Resolve(h) \/ \E a \in Agents : Assign(h, a)

Spec == Init /\ [][Next]_<<status, agent>>
=============================================================================

----------------------------- MODULE TurnOutcome -----------------------------
(***************************************************************************)
(* What the processing of one message promises: it ends once, and what it  *)
(* leaves in the database is the whole of one verdict or nothing at all.   *)
(* Write of Conversation commits exactly these rows for each verdict.      *)
(***************************************************************************)

VARIABLES
  ended,  \* the verdict, or "none" while the message is being processed
  rows    \* what the database holds of the message

Verdicts == {"silent", "failed", "reply", "escalated", "fallback", "lost"}

\* A message that is lost left nothing; every other verdict left its row.
RowsOf(v) ==
  {r \in {"inbound", "counted", "handoff", "takeover"} :
     \/ r = "inbound" /\ v # "lost"
     \/ r = "counted" /\ v \in {"reply", "escalated"}
     \/ r = "handoff" /\ v \in {"escalated", "fallback"}
     \/ r = "takeover" /\ v = "escalated"}

Init == ended = "none" /\ rows = {}

\* A transcript may come with any verdict but "lost", an outbound row with
\* those that send something.
End(v) ==
  /\ ended = "none"
  /\ ended' = v
  /\ \E extra \in SUBSET {"transcript", "outbound"} :
       /\ v = "lost" => extra = {}
       /\ v \in {"silent", "failed"} => "outbound" \notin extra
       /\ rows' = RowsOf(v) \cup extra

Next == \E v \in Verdicts : End(v)

Spec == Init /\ [][Next]_<<ended, rows>>
=============================================================================

--------------------------- MODULE MCMessageQueue ---------------------------
(* Instances of MessageQueue for TLC. *)
EXTENDS MessageQueue

\* Two messages in one webhook call, which Meta delivers twice.
MCContent == [d \in Deliveries |-> SetToSeq(Messages)]

\* Every point where a process can die.
AnyPoint == Labels \cup {"hook"}

\* Only between the move of an entry and the record of its claim time.
JustClaimed == {"stamp"}

\* Everywhere in the worker but in the three windows a crash cannot be
\* recovered from: before the claim is stamped, and from a removal to the
\* push that follows it.
OutsideTheWindows == {"top", "scan", "poll", "busy", "lrem"}
=============================================================================

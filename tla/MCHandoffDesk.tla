---------------------------- MODULE MCHandoffDesk ----------------------------
(* Three requests about two handoffs, in one process or in two.            *)
EXTENDS HandoffDesk

CONSTANTS h1, h2, q1, q2, q3, p1, p2

AtHome == [r \in Requests |-> p1]

Apart == [r \in Requests |-> IF r = q3 THEN p2 ELSE p1]

Job(k, h, n) == [kind |-> k, on |-> h, note |-> n]

MixedJobs ==
  {Job("assign", h1, "null"), Job("resolve", h1, "empty"), Job("close", h1, "null"),
   Job("close", h1, "empty"), Job("note", h1, "text")}

OwnerJobs == {Job("close", h1, "null"), Job("note", h2, "text"), Job("assign", h1, "null")}
=============================================================================

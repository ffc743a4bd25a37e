----------------------------- MODULE HandoffDesk -----------------------------
(***************************************************************************)
(* The requests of human agents and of the shop's owner about handoffs:    *)
(* assign and resolve of the agent API, resolve and notes of the Control   *)
(* Room, each a transaction on a pooled connection.                        *)
(*                                                                         *)
(* An UPDATE locks the handoff's row until its transaction ends.  The      *)
(* Control Room's requests log an event before they commit, in a session   *)
(* of its own: they hold a connection and the lock while they wait for a   *)
(* second connection of the same pool.                                     *)
(***************************************************************************)
EXTENDS Naturals, FiniteSets

CONSTANTS
  Requests,   \* requests; each stands for its agent id and its note as well
  Handoffs,   \* handoffs
  Procs,      \* processes of the API, each with a pool
  Home,       \* the process that serves a request
  Jobs,       \* what a request may ask: a kind, a handoff and a note
  Capacity,   \* connections of a pool (db_pool_size and db_max_overflow)
  MaxCrashes  \* bound on crashes

Kinds == {"assign", "resolve", "close", "note"}

\* The Control Room's endpoints: close is its resolve.
Owner == {"close", "note"}

\* The note of a request: a text, spaces, an empty string, or null.
Given == {"text", "blank", "empty", "null"}

ASSUME DeskAssumption ==
  /\ IsFiniteSet(Requests)
  /\ Home \in [Requests -> Procs]
  /\ Jobs \subseteq [kind : Kinds, on : Handoffs, note : Given]
  /\ Capacity \in Nat \ {0} /\ MaxCrashes \in Nat
  /\ Requests \cap {"null", "empty", "blank", "fixed", "nobody"} = {}

VARIABLES
  row,      \* committed handoffs: status, agent, notes
  pc,       \* the statement in hand
  job,      \* what the request asks
  seen,     \* the notes a request read
  staged,   \* the row it wrote, if any
  ahead,    \* those that have waited for a connection of the pool for longer
  answer,   \* the response
  crashes,  \* crashes so far
  overtaken \* history: requests whose handoff changed after they had read it

vars == <<row, pc, job, seen, staged, ahead, answer, crashes, overtaken>>

Notes == Requests \cup {"null", "empty", "blank", "fixed"}

Rows == [status : {"absent", "pending", "assigned", "resolved"},
         agent : Requests \cup {"nobody"}, notes : Notes]

Init ==
  /\ row = [h \in Handoffs |-> [status |-> "absent", agent |-> "nobody", notes |-> "null"]]
  /\ pc = [r \in Requests |-> "idle"]
  /\ job \in [Requests -> Jobs]
  /\ seen = [r \in Requests |-> "null"]
  /\ staged = [r \in Requests |-> {}]
  /\ ahead = [r \in Requests |-> {}]
  /\ answer = [r \in Requests |-> "none"]
  /\ crashes = 0 /\ overtaken = {}

\* Connections of the pool of p in use: a session, and that of an event.
Held(p, at) == {r \in Requests : Home[r] = p /\ pc[r] \in at}
Used(p) == Cardinality(Held(p, {"read", "update", "event", "log", "commit"}))
             + Cardinality(Held(p, {"log"}))

\* What a request sends as its note.
Text(r) == IF job[r].note = "text" THEN r ELSE job[r].note

\* `x or y`, `if x`: neither null nor the empty string.
Truthy(n) == n \notin {"null", "empty"}

Strip(n) == IF n = "blank" THEN "empty" ELSE n

\* Who holds the lock of the row: there is one writer at most.
Locked(h) == \E r \in Requests : staged[r] # {} /\ job[r].on = h

\* Mutant: a session that fails is neither rolled back nor closed.
EndAsIs(r, what) ==
  /\ pc' = [pc EXCEPT ![r] = "over"]
  /\ answer' = [answer EXCEPT ![r] = what]
  /\ staged' = [staged EXCEPT ![r] = IF what = "ok" THEN {} ELSE staged[r]]
  /\ seen' = [seen EXCEPT ![r] = "null"]

\* The request is over: get_session commits or rolls back.
End(r, what) ==
  /\ pc' = [pc EXCEPT ![r] = "over"]
  /\ answer' = [answer EXCEPT ![r] = what]
  /\ staged' = [staged EXCEPT ![r] = {}]
  /\ seen' = [seen EXCEPT ![r] = "null"]

-----------------------------------------------------------------------------
\* The worker commits a handoff.
File(h) ==
  /\ row[h].status = "absent"
  /\ row' = [row EXCEPT ![h] = [status |-> "pending", agent |-> "nobody", notes |-> "null"]]
  /\ UNCHANGED <<pc, job, seen, staged, ahead, answer, crashes, overtaken>>

\* A connection is taken at once, or waited for.
Ask(r, then, else) ==
  IF Used(Home[r]) < Capacity
  THEN pc' = [pc EXCEPT ![r] = then] /\ UNCHANGED ahead
  ELSE /\ pc' = [pc EXCEPT ![r] = else]
       /\ ahead' = [ahead EXCEPT ![r] = Held(Home[r], {"connect", "event"})]

\* Nobody is behind it any more.
Served(r) == ahead' = [q \in Requests |-> ahead[q] \ {r}]

First(r) == IF job[r].kind \in Owner THEN "read" ELSE "update"

\* The first statement of a session asks for a connection.
Arrive(r) ==
  /\ pc[r] = "idle"
  /\ Ask(r, First(r), "connect")
  /\ UNCHANGED <<row, job, seen, staged, answer, crashes, overtaken>>

Connect(r) ==
  /\ pc[r] = "connect" /\ Used(Home[r]) < Capacity
  /\ pc' = [pc EXCEPT ![r] = First(r)]
  /\ Served(r)
  /\ UNCHANGED <<row, job, seen, staged, answer, crashes, overtaken>>

\* pool_timeout is the same for all: who has waited longest gives up first.
Longest(r) ==
  /\ Used(Home[r]) >= Capacity
  /\ ahead[r] = {}

ConnectTimeout(r) ==
  /\ pc[r] = "connect" /\ Longest(r)
  /\ Served(r)
  /\ End(r, "error")
  /\ UNCHANGED <<row, job, crashes, overtaken>>

\* Mutant: the notes are not loaded.
ReadNoNotes(r) ==
  /\ pc[r] = "read"
  /\ IF row[job[r].on].status = "absent"
     THEN End(r, "missing")
     ELSE pc' = [pc EXCEPT ![r] = "update"] /\ UNCHANGED <<answer, staged, seen>>
  /\ UNCHANGED <<row, job, ahead, crashes, overtaken>>

\* get_by_id, or 404.
Read(r) ==
  /\ pc[r] = "read"
  /\ IF row[job[r].on].status = "absent"
     THEN End(r, "missing")
     ELSE /\ seen' = [seen EXCEPT ![r] = row[job[r].on].notes]
          /\ pc' = [pc EXCEPT ![r] = "update"]
          /\ UNCHANGED <<answer, staged>>
  /\ UNCHANGED <<row, job, ahead, crashes, overtaken>>

\* The notes an UPDATE leaves: the agent API's resolve keeps the notes when it
\* brings none; the Control Room's writes its own note, what it read, or a
\* fixed text; the notes endpoint strips its note or erases the notes.
NotesAfter(r) ==
  LET old == row[job[r].on].notes
      own == IF Text(r) # "null" THEN Text(r) ELSE seen[r]
  IN IF job[r].kind = "close"
     THEN IF Truthy(own) THEN own ELSE "fixed"
     ELSE IF job[r].kind = "note"
     THEN IF Truthy(Text(r)) THEN Strip(Text(r)) ELSE "null"
     ELSE IF job[r].kind = "resolve" /\ Truthy(Text(r)) THEN Text(r) ELSE old

After(r) ==
  LET old == row[job[r].on]
  IN [status |-> IF job[r].kind = "assign" THEN "assigned"
                 ELSE IF job[r].kind = "note" THEN old.status ELSE "resolved",
      agent |-> IF job[r].kind = "assign" THEN r ELSE old.agent,
      notes |-> NotesAfter(r)]

\* Mutant: assign, too, has only the id in its WHERE.
MatchesById(r) == row[job[r].on].status # "absent"

\* The WHERE of the UPDATE: assign takes pending handoffs only.
Matches(r) ==
  IF job[r].kind = "assign" THEN row[job[r].on].status = "pending"
                            ELSE row[job[r].on].status # "absent"

\* Mutant: the UPDATE takes no lock.
UpdateUnlocked(r) ==
  /\ pc[r] = "update"
  /\ IF Matches(r)
     THEN /\ staged' = [staged EXCEPT ![r] = {After(r)}]
          /\ IF job[r].kind \in Owner
             THEN Ask(r, "log", "event")
             ELSE pc' = [pc EXCEPT ![r] = "commit"] /\ UNCHANGED ahead
          /\ UNCHANGED <<answer, seen>>
     ELSE End(r, "missing") /\ UNCHANGED ahead
  /\ UNCHANGED <<row, job, crashes, overtaken>>

\* The UPDATE waits for the lock of a row that matches, and looks again; a row
\* that does not match is passed over.  The Control Room's go on to the event.
Update(r) ==
  /\ pc[r] = "update"
  /\ IF Matches(r)
     THEN /\ ~Locked(job[r].on)
          /\ staged' = [staged EXCEPT ![r] = {After(r)}]
          /\ IF job[r].kind \in Owner
             THEN Ask(r, "log", "event")
             ELSE pc' = [pc EXCEPT ![r] = "commit"] /\ UNCHANGED ahead
          /\ UNCHANGED <<answer, seen>>
     ELSE End(r, "missing") /\ UNCHANGED ahead
  /\ UNCHANGED <<row, job, crashes, overtaken>>

\* The event's session gets its connection.
Event(r) ==
  /\ pc[r] = "event" /\ Used(Home[r]) < Capacity
  /\ pc' = [pc EXCEPT ![r] = "log"]
  /\ Served(r)
  /\ UNCHANGED <<row, job, seen, staged, answer, crashes, overtaken>>

\* Mutant: the pool has no timeout.
EventWaits(r) == FALSE /\ UNCHANGED vars

\* Or none comes free in time: emit_system_event swallows that.
EventTimeout(r) ==
  /\ pc[r] = "event" /\ Longest(r)
  /\ pc' = [pc EXCEPT ![r] = "commit"]
  /\ Served(r)
  /\ UNCHANGED <<row, job, seen, staged, answer, crashes, overtaken>>

\* The event is committed or fails; the endpoint goes on either way.
Log(r) ==
  /\ pc[r] = "log"
  /\ pc' = [pc EXCEPT ![r] = "commit"]
  /\ UNCHANGED <<row, job, seen, staged, ahead, answer, crashes, overtaken>>

\* get_session commits before the response goes out.
Commit(r) ==
  /\ pc[r] = "commit"
  /\ \E new \in staged[r] : row' = [row EXCEPT ![job[r].on] = new]
  /\ overtaken' = (overtaken \ {r}) \cup
                    {q \in Requests : job[q].on = job[r].on /\ pc[q] = "update"}
  /\ End(r, "ok")
  /\ UNCHANGED <<job, ahead, crashes>>

\* A statement or the COMMIT fails: rollback and an error.
Fail(r) ==
  /\ pc[r] \in {"read", "update", "commit"}
  /\ End(r, "error")
  /\ UNCHANGED <<row, job, ahead, crashes, overtaken>>

\* A process dies with every request it serves.
Crash(p) ==
  /\ crashes < MaxCrashes
  /\ LET dying == {r \in Requests : Home[r] = p /\ pc[r] \notin {"idle", "over"}}
     IN /\ dying # {}
        /\ pc' = [r \in Requests |-> IF r \in dying THEN "over" ELSE pc[r]]
        /\ staged' = [r \in Requests |-> IF r \in dying THEN {} ELSE staged[r]]
        /\ seen' = [r \in Requests |-> IF r \in dying THEN "null" ELSE seen[r]]
        /\ ahead' = [r \in Requests |-> IF r \in dying THEN {} ELSE ahead[r] \ dying]
  /\ crashes' = crashes + 1
  /\ UNCHANGED <<row, job, answer, overtaken>>

-----------------------------------------------------------------------------
Step(r) ==
  \/ Connect(r) \/ ConnectTimeout(r) \/ Read(r) \/ Update(r)
  \/ Event(r) \/ EventTimeout(r) \/ Log(r) \/ Commit(r)

Next ==
  \/ \E h \in Handoffs : File(h)
  \/ \E r \in Requests : Arrive(r) \/ Step(r) \/ Fail(r)
  \/ \E p \in Procs : Crash(p)

Spec == Init /\ [][Next]_vars

\* Statements and timeouts end, and Postgres grants a row lock in turn.
FairSpec == Spec /\ \A r \in Requests : WF_vars(Step(r)) /\ SF_vars(Update(r))

-----------------------------------------------------------------------------
(* Properties.                                                             *)

Labels == {"idle", "connect", "read", "update", "event", "log", "commit", "over"}

TypeOK ==
  /\ row \in [Handoffs -> Rows]
  /\ pc \in [Requests -> Labels]
  /\ job \in [Requests -> Jobs]
  /\ seen \in [Requests -> Notes]
  /\ staged \in [Requests -> SUBSET Rows]
  /\ \A r \in Requests : staged[r] # {} <=> pc[r] \in {"event", "log", "commit"}
  /\ ahead \in [Requests -> SUBSET Requests]
  /\ answer \in [Requests -> {"none", "ok", "missing", "error"}]
  /\ overtaken \subseteq Requests
  /\ crashes \in 0..MaxCrashes

\* A handoff goes forward only: whatever overlaps, it is taken by one agent at
\* most, not after it was resolved, and a resolved handoff stays resolved.
Life == INSTANCE HandoffLife
          WITH Agents <- Requests, Nobody <- "nobody",
               status <- [h \in Handoffs |-> row[h].status],
               agent <- [h \in Handoffs |-> row[h].agent]

OneWay == Life!Spec

\* What a response reported is there, and stays: two agents are never both
\* told that a handoff is theirs, and no resolve that overlaps an assignment
\* undoes it, or is undone.
AnswersHold ==
  \A r \in Requests : answer[r] = "ok" =>
    /\ job[r].kind = "assign" => row[job[r].on].agent = r
    /\ job[r].kind \in {"resolve", "close"} => row[job[r].on].status = "resolved"
    /\ job[r].kind = "note" => row[job[r].on].status # "absent"

\* Notes are overwritten unasked, by a request that brought none, only when
\* the request was overtaken: the Control Room's resolve writes back what it
\* read before another request committed.
NotesKept ==
  [][\A h \in Handoffs : row'[h].notes # row[h].notes =>
       \E r \in Requests :
         /\ pc[r] = "commit" /\ answer'[r] = "ok" /\ job[r].on = h
         /\ \/ Text(r) # "null" \/ job[r].kind = "note"
            \/ ~Truthy(row[h].notes)
            \/ r \in overtaken]_vars

\* Every request is answered or dies with its process: requests that hold a
\* lock and wait for a second connection do not keep each other for ever.
RequestsEnd == \A r \in Requests : pc[r] # "idle" ~> pc[r] = "over"

\* "operational visibility never becomes a new hot-path failure mode"
\* (events.py:30-31): no request is turned away for want of a connection while
\* the connections are kept by requests that only wait for their event's.
HotPathSpared ==
  [][\A r \in Requests : pc[r] = "connect" /\ answer'[r] = "error" =>
       Held(Home[r], {"read", "update", "event", "log", "commit"}) # Held(Home[r], {"event"})]_vars
=============================================================================

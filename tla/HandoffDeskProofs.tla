-------------------------- MODULE HandoffDeskProofs --------------------------
(***************************************************************************)
(* Proofs about HandoffDesk, for any requests, handoffs, processes and     *)
(* pools.  The inductive invariant says what the row lock is worth: a row  *)
(* has one writer, and what that writer is about to commit is still made   *)
(* from the row as it is committed.                                        *)
(***************************************************************************)
EXTENDS HandoffDesk, FiniteSetTheorems, TLAPS

Grounded ==
  \A r \in Requests : staged[r] # {} => Matches(r) /\ staged[r] = {After(r)}

SoleWriter ==
  \A r, q \in Requests :
    staged[r] # {} /\ staged[q] # {} /\ job[r].on = job[q].on => r = q

\* AnswersHold with what keeps an assignment: no handoff with an agent is
\* pending.
Sealed ==
  /\ AnswersHold
  /\ \A h \in Handoffs : row[h].agent # "nobody" => row[h].status \in {"assigned", "resolved"}
  /\ \A h \in Handoffs : row[h].status = "assigned" => row[h].agent # "nobody"

DeskInv == TypeOK /\ Grounded /\ SoleWriter /\ Sealed

-----------------------------------------------------------------------------
(* Types.                                                                  *)

LEMMA JobType ==
  ASSUME TypeOK, NEW r \in Requests
  PROVE  /\ job[r].kind \in Kinds /\ job[r].on \in Handoffs /\ job[r].note \in Given
         /\ Text(r) \in Notes
         /\ row[job[r].on] \in Rows
BY DeskAssumption DEF TypeOK, Text, Notes, Given

\* What an UPDATE writes is a row.
LEMMA AfterType ==
  ASSUME TypeOK, NEW r \in Requests, Matches(r)
  PROVE  After(r) \in Rows
<1>1. job[r].kind \in Kinds /\ Text(r) \in Notes /\ row[job[r].on] \in Rows
  BY JobType
<1>2. seen[r] \in Notes
  BY DEF TypeOK
<1>3. NotesAfter(r) \in Notes
  <2>1. Strip(Text(r)) \in Notes
    BY <1>1 DEF Strip, Notes
  <2> QED BY <1>1, <1>2, <2>1 DEF NotesAfter, Kinds, Notes, Rows, Truthy
<1> QED BY <1>1, <1>3 DEF After, Rows, Kinds

LEMMA InitType == Init => TypeOK
<1> SUFFICES ASSUME Init PROVE TypeOK
  OBVIOUS
<1>1. row \in [Handoffs -> Rows]
  BY DEF Init, Rows, Notes
<1> QED BY <1>1, DeskAssumption DEF Init, TypeOK, Labels, Notes

\* Asking for a connection, and getting it, keep the types.
LEMMA AskType ==
  ASSUME TypeOK, NEW r \in Requests, NEW then, NEW else, Ask(r, then, else),
         then \in Labels, else \in Labels
  PROVE  /\ ahead' \in [Requests -> SUBSET Requests]
         /\ \E l \in {then, else} : pc' = [pc EXCEPT ![r] = l]
BY DEF Ask, TypeOK, Held

LEMMA StepType ==
  ASSUME TypeOK, Next
  PROVE  TypeOK'
<1>1. ASSUME NEW h \in Handoffs, File(h) PROVE TypeOK'
  <2>1. row' \in [Handoffs -> Rows]
    BY <1>1 DEF File, TypeOK, Rows, Notes
  <2> QED BY <1>1, <2>1 DEF File, TypeOK
<1>2. ASSUME NEW r \in Requests, Arrive(r) PROVE TypeOK'
  <2>1. /\ ahead' \in [Requests -> SUBSET Requests]
        /\ \E l \in {First(r), "connect"} : pc' = [pc EXCEPT ![r] = l]
    BY <1>2, AskType DEF Arrive, First, Labels
  <2> QED BY <1>2, <2>1 DEF Arrive, TypeOK, First, Labels
<1>3. ASSUME NEW r \in Requests, Connect(r) PROVE TypeOK'
  BY <1>3 DEF Connect, Served, First, TypeOK, Labels
<1>4. ASSUME NEW r \in Requests, ConnectTimeout(r) PROVE TypeOK'
  BY <1>4 DEF ConnectTimeout, Served, End, TypeOK, Labels, Notes
<1>5. ASSUME NEW r \in Requests, Read(r) PROVE TypeOK'
  <2>1. row[job[r].on].notes \in Notes
    BY JobType DEF Rows
  <2> QED BY <1>5, <2>1 DEF Read, End, TypeOK, Labels, Notes
<1>6. ASSUME NEW r \in Requests, Update(r) PROVE TypeOK'
  <2>1. CASE Matches(r)
    <3>1. staged' = [staged EXCEPT ![r] = {After(r)}] /\ After(r) \in Rows
      BY <1>6, <2>1, AfterType DEF Update
    <3>2. /\ ahead' \in [Requests -> SUBSET Requests]
          /\ \E l \in {"log", "event", "commit"} : pc' = [pc EXCEPT ![r] = l]
      <4>1. CASE job[r].kind \in Owner
        <5>1. Ask(r, "log", "event")
          BY <1>6, <2>1, <4>1 DEF Update
        <5> QED BY <5>1, AskType DEF Labels
      <4>2. CASE job[r].kind \notin Owner
        BY <1>6, <2>1, <4>2 DEF Update, TypeOK
      <4> QED BY <4>1, <4>2
    <3>3. staged' \in [Requests -> SUBSET Rows]
      BY <3>1 DEF TypeOK
    <3>4. \A q \in Requests : staged'[q] # {} <=> pc'[q] \in {"event", "log", "commit"}
      BY <3>1, <3>2 DEF TypeOK
    <3>5. /\ pc' \in [Requests -> Labels]
          /\ UNCHANGED <<row, job, seen, answer, overtaken, crashes>>
      BY <1>6, <2>1, <3>2 DEF Update, TypeOK, Labels
    <3> QED BY <3>2, <3>3, <3>4, <3>5 DEF TypeOK
  <2>2. CASE ~Matches(r)
    BY <1>6, <2>2 DEF Update, End, TypeOK, Labels, Notes
  <2> QED BY <2>1, <2>2
<1>7. ASSUME NEW r \in Requests, Event(r) PROVE TypeOK'
  BY <1>7 DEF Event, Served, TypeOK, Labels
<1>8. ASSUME NEW r \in Requests, EventTimeout(r) PROVE TypeOK'
  BY <1>8 DEF EventTimeout, Served, TypeOK, Labels
<1>9. ASSUME NEW r \in Requests, Log(r) PROVE TypeOK'
  BY <1>9 DEF Log, TypeOK, Labels
<1>10. ASSUME NEW r \in Requests, Commit(r) PROVE TypeOK'
  <2>1. row' \in [Handoffs -> Rows]
    <3>1. PICK new \in staged[r] : row' = [row EXCEPT ![job[r].on] = new]
      BY <1>10 DEF Commit
    <3>2. new \in Rows /\ row \in [Handoffs -> Rows]
      BY <3>1 DEF TypeOK
    <3> QED BY <3>1, <3>2
  <2> QED BY <1>10, <2>1 DEF Commit, End, TypeOK, Labels, Notes
<1>11. ASSUME NEW r \in Requests, Fail(r) PROVE TypeOK'
  BY <1>11 DEF Fail, End, TypeOK, Labels, Notes
<1>12. ASSUME NEW p \in Procs, Crash(p) PROVE TypeOK'
  BY <1>12, DeskAssumption DEF Crash, TypeOK, Labels, Notes
<1> QED
  BY <1>1, <1>2, <1>3, <1>4, <1>5, <1>6, <1>7, <1>8, <1>9, <1>10, <1>11, <1>12 DEF Next, Step

-----------------------------------------------------------------------------
(* The writer of a row.                                                    *)

\* What a request writes depends on its row and on the notes it read.
LEMMA AfterSame ==
  ASSUME NEW r \in Requests, job' = job,
         row'[job[r].on] = row[job[r].on], seen'[r] = seen[r]
  PROVE  After(r)' = After(r) /\ (Matches(r)' <=> Matches(r))
<1>1. NotesAfter(r)' = NotesAfter(r)
  BY DEF NotesAfter, Text
<1> QED BY <1>1 DEF After, Matches

\* A step that writes no row, lets requests end without success and leaves
\* the other writers alone.
LEMMA Calm ==
  ASSUME DeskInv, row' = row, job' = job,
         \A q \in Requests : staged'[q] = {} \/ (staged'[q] = staged[q] /\ seen'[q] = seen[q]),
         \A q \in Requests : answer'[q] = answer[q] \/ answer'[q] # "ok"
  PROVE  Grounded' /\ SoleWriter' /\ Sealed'
<1>1. Grounded'
  <2> SUFFICES ASSUME NEW q \in Requests, staged'[q] # {}
               PROVE  Matches(q)' /\ staged'[q] = {After(q)'}
    BY DEF Grounded
  <2>1. staged'[q] = staged[q] /\ seen'[q] = seen[q]
    OBVIOUS
  <2>2. After(q)' = After(q) /\ (Matches(q)' <=> Matches(q))
    BY <2>1, AfterSame
  <2> QED BY <2>1, <2>2 DEF DeskInv, Grounded
<1>2. SoleWriter'
  BY DEF DeskInv, SoleWriter
<1>3. Sealed'
  BY DEF DeskInv, Sealed, AnswersHold
<1> QED BY <1>1, <1>2, <1>3

\* A new writer finds no other.
LEMMA WriteKeeps ==
  ASSUME DeskInv, NEW r \in Requests, Update(r), Matches(r)
  PROVE  Grounded' /\ SoleWriter' /\ Sealed'
<1>1. /\ staged' = [staged EXCEPT ![r] = {After(r)}] /\ ~Locked(job[r].on)
      /\ UNCHANGED <<row, job, seen, answer>>
  BY DEF Update
<1>2. \A q \in Requests : After(q)' = After(q) /\ (Matches(q)' <=> Matches(q))
  BY <1>1, AfterSame
<1>3. Grounded'
  BY <1>1, <1>2 DEF DeskInv, TypeOK, Grounded
<1>4. SoleWriter'
  BY <1>1 DEF DeskInv, TypeOK, SoleWriter, Locked
<1>5. Sealed'
  BY <1>1 DEF DeskInv, Sealed, AnswersHold
<1> QED BY <1>3, <1>4, <1>5

\* The row a writer commits.
LEMMA CommitsAfter ==
  ASSUME DeskInv, NEW r \in Requests, Commit(r)
  PROVE  /\ Matches(r)
         /\ row' = [row EXCEPT ![job[r].on] = After(r)]
         /\ staged' = [staged EXCEPT ![r] = {}]
         /\ answer' = [answer EXCEPT ![r] = "ok"]
         /\ seen' = [seen EXCEPT ![r] = "null"]
         /\ job' = job
<1>1. staged[r] # {}
  BY DEF DeskInv, TypeOK, Commit
<1>2. Matches(r) /\ staged[r] = {After(r)}
  BY <1>1 DEF DeskInv, Grounded
<1> QED BY <1>2 DEF Commit, End

\* A commit keeps every promise made before, since an assignment is committed
\* on a pending handoff only.
LEMMA CommitKeeps ==
  ASSUME DeskInv, NEW r \in Requests, Commit(r)
  PROVE  Grounded' /\ SoleWriter' /\ Sealed'
<1> DEFINE h == job[r].on
<1>1. /\ Matches(r) /\ row' = [row EXCEPT ![h] = After(r)]
      /\ staged' = [staged EXCEPT ![r] = {}]
      /\ answer' = [answer EXCEPT ![r] = "ok"]
      /\ seen' = [seen EXCEPT ![r] = "null"] /\ job' = job
  BY CommitsAfter
<1>2. /\ h \in Handoffs /\ row \in [Handoffs -> Rows] /\ job[r].kind \in Kinds
      /\ staged \in [Requests -> SUBSET Rows] /\ seen \in [Requests -> Notes]
      /\ answer \in [Requests -> {"none", "ok", "missing", "error"}]
      /\ staged[r] # {}
  BY JobType DEF DeskInv, TypeOK, Commit
<1>3. \A g \in Handoffs : g # h => row'[g] = row[g]
  BY <1>1, <1>2
<1>4. row'[h] = After(r)
  BY <1>1, <1>2
<1>5. Grounded'
  <2> SUFFICES ASSUME NEW q \in Requests, staged'[q] # {}
               PROVE  Matches(q)' /\ staged'[q] = {After(q)'}
    BY DEF Grounded
  <2>1. q # r /\ staged'[q] = staged[q] /\ seen'[q] = seen[q] /\ staged[q] # {}
    BY <1>1, <1>2
  <2>2. job[q].on # h /\ job[q].on \in Handoffs
    BY <1>2, <2>1, JobType DEF DeskInv, SoleWriter
  <2>3. After(q)' = After(q) /\ (Matches(q)' <=> Matches(q))
    BY <1>1, <1>3, <2>1, <2>2, AfterSame
  <2> QED BY <2>1, <2>3 DEF DeskInv, Grounded
<1>6. SoleWriter'
  BY <1>1, <1>2 DEF DeskInv, SoleWriter
<1>7. /\ After(r).status \in {"assigned", "resolved"} \/ After(r).status = row[h].status
      /\ job[r].kind # "assign" => After(r).agent = row[h].agent
      /\ job[r].kind # "assign" /\ row[h].status = "resolved" => After(r).status = "resolved"
      /\ job[r].kind \in {"resolve", "close"} => After(r).status = "resolved"
      /\ job[r].kind = "note" => After(r).status = row[h].status
      /\ job[r].kind = "assign" => /\ After(r).status = "assigned" /\ After(r).agent = r
                                   /\ row[h].status = "pending"
      /\ row[h].status # "absent" /\ After(r).status # "absent"
  BY <1>1, <1>2 DEF After, Matches, Kinds, Rows
<1>8. /\ \A g \in Handoffs : row'[g].agent # "nobody" => row'[g].status \in {"assigned", "resolved"}
      /\ \A g \in Handoffs : row'[g].status = "assigned" => row'[g].agent # "nobody"
  <2> SUFFICES ASSUME NEW g \in Handoffs
               PROVE  /\ row'[g].agent # "nobody" => row'[g].status \in {"assigned", "resolved"}
                      /\ row'[g].status = "assigned" => row'[g].agent # "nobody"
    OBVIOUS
  <2>1. CASE g # h
    BY <1>3, <2>1 DEF DeskInv, Sealed
  <2>2. CASE g = h /\ job[r].kind = "assign"
    BY <1>4, <1>7, <2>2, DeskAssumption
  <2>3. CASE g = h /\ job[r].kind # "assign"
    BY <1>2, <1>4, <1>7, <2>3 DEF DeskInv, Sealed, Kinds
  <2> QED BY <2>1, <2>2, <2>3
<1>9. AnswersHold'
  <2> SUFFICES ASSUME NEW q \in Requests, answer'[q] = "ok"
               PROVE  /\ job[q].kind = "assign" => row'[job[q].on].agent = q
                      /\ job[q].kind \in {"resolve", "close"} => row'[job[q].on].status = "resolved"
                      /\ job[q].kind = "note" => row'[job[q].on].status # "absent"
    BY <1>1 DEF AnswersHold
  <2>0. job[q].on \in Handoffs /\ job[q].kind \in Kinds
    BY JobType DEF DeskInv
  <2>1. CASE q = r
    BY <1>4, <1>7, <2>0, <2>1 DEF Kinds
  <2>2. CASE q # r
    <3>1. answer[q] = "ok"
      BY <1>1, <1>2, <2>2
    <3>2. /\ job[q].kind = "assign" => row[job[q].on].agent = q
          /\ job[q].kind \in {"resolve", "close"} => row[job[q].on].status = "resolved"
          /\ job[q].kind = "note" => row[job[q].on].status # "absent"
      BY <3>1 DEF DeskInv, Sealed, AnswersHold
    <3>3. CASE job[q].on # h
      BY <1>3, <2>0, <3>2, <3>3
    <3>4. CASE job[q].on = h
      <4>1. job[q].kind = "assign" => row[h].agent = q /\ row[h].status # "pending"
        BY <1>2, <3>2, <3>4, DeskAssumption DEF DeskInv, Sealed
      <4>2. CASE job[q].kind = "assign"
        BY <1>4, <1>7, <3>4, <4>1, <4>2
      <4>3. CASE job[q].kind # "assign"
        BY <1>2, <1>4, <1>7, <2>0, <3>2, <3>4, <4>3 DEF Kinds
      <4> QED BY <4>2, <4>3
    <3> QED BY <3>3, <3>4
  <2> QED BY <2>1, <2>2
<1> QED BY <1>5, <1>6, <1>8, <1>9 DEF Sealed

\* A newly filed handoff has no writer and no answer yet.
LEMMA FileKeeps ==
  ASSUME DeskInv, NEW h \in Handoffs, File(h)
  PROVE  Grounded' /\ SoleWriter' /\ Sealed'
<1>1. /\ row[h].status = "absent" /\ row' = [row EXCEPT ![h] = [status |-> "pending", agent |-> "nobody", notes |-> "null"]]
      /\ UNCHANGED <<staged, job, seen, answer>> /\ row \in [Handoffs -> Rows]
  BY DEF File, DeskInv, TypeOK
<1>2. \A g \in Handoffs : g # h => row'[g] = row[g]
  BY <1>1
<1>3. row'[h].status = "pending" /\ row'[h].agent = "nobody"
  BY <1>1 DEF Rows
<1>4. Grounded'
  <2> SUFFICES ASSUME NEW q \in Requests, staged[q] # {}
               PROVE  Matches(q)' /\ staged[q] = {After(q)'}
    BY <1>1 DEF Grounded
  <2>1. Matches(q) /\ staged[q] = {After(q)} /\ job[q].on \in Handoffs
    BY JobType DEF DeskInv, Grounded
  <2>2. job[q].on # h
    BY <1>1, <2>1 DEF Matches
  <2>3. After(q)' = After(q) /\ (Matches(q)' <=> Matches(q))
    BY <1>1, <1>2, <2>1, <2>2, AfterSame
  <2> QED BY <2>1, <2>3
<1>5. SoleWriter'
  BY <1>1 DEF DeskInv, SoleWriter
<1>6. \A q \in Requests : job[q].on \in Handoffs /\ job[q].kind \in Kinds
  BY JobType DEF DeskInv
<1>7. row[h].agent = "nobody"
  BY <1>1 DEF DeskInv, Sealed
<1>8. AnswersHold'
  BY <1>1, <1>2, <1>3, <1>6, <1>7, DeskAssumption DEF DeskInv, Sealed, AnswersHold, Kinds
<1> QED BY <1>2, <1>3, <1>4, <1>5, <1>7, <1>8 DEF DeskInv, Sealed

LEMMA InvInit == Init => DeskInv
<1> SUFFICES ASSUME Init PROVE DeskInv
  OBVIOUS
<1>1. Sealed
  BY DEF Init, Sealed, AnswersHold
<1> QED BY <1>1, InitType DEF Init, DeskInv, Grounded, SoleWriter

LEMMA InvStep == DeskInv /\ [Next]_vars => DeskInv'
<1> SUFFICES ASSUME DeskInv, [Next]_vars PROVE DeskInv'
  OBVIOUS
<1>0. CASE UNCHANGED vars
  <2>1. TypeOK'
    BY <1>0 DEF vars, DeskInv, TypeOK
  <2>2. Grounded' /\ SoleWriter' /\ Sealed'
    BY <1>0, Calm DEF vars
  <2> QED BY <2>1, <2>2 DEF DeskInv
<1>1. ASSUME Next PROVE TypeOK'
  BY <1>1, StepType DEF DeskInv
<1>2. ASSUME NEW h \in Handoffs, File(h) PROVE Grounded' /\ SoleWriter' /\ Sealed'
  BY <1>2, FileKeeps
<1>3. ASSUME NEW r \in Requests,
             Arrive(r) \/ Connect(r) \/ Event(r) \/ EventTimeout(r) \/ Log(r)
      PROVE  Grounded' /\ SoleWriter' /\ Sealed'
  <2>1. UNCHANGED <<row, job, seen, staged, answer>>
    BY <1>3 DEF Arrive, Connect, Event, EventTimeout, Log
  <2> QED BY <2>1, Calm
<1>4. ASSUME NEW r \in Requests, row' = row, job' = job,
             End(r, "missing") \/ End(r, "error")
      PROVE  Grounded' /\ SoleWriter' /\ Sealed'
  <2>1. /\ \A q \in Requests : staged'[q] = {} \/ (staged'[q] = staged[q] /\ seen'[q] = seen[q])
        /\ \A q \in Requests : answer'[q] = answer[q] \/ answer'[q] # "ok"
    BY <1>4 DEF End, DeskInv, TypeOK
  <2> QED BY <1>4, <2>1, Calm
<1>5. ASSUME NEW r \in Requests, ConnectTimeout(r) \/ Fail(r)
      PROVE  Grounded' /\ SoleWriter' /\ Sealed'
  BY <1>4, <1>5 DEF ConnectTimeout, Fail
<1>6. ASSUME NEW r \in Requests, Read(r) PROVE Grounded' /\ SoleWriter' /\ Sealed'
  <2>1. CASE End(r, "missing")
    BY <1>4, <1>6, <2>1 DEF Read
  <2>2. CASE ~End(r, "missing")
    <3>1. staged' = staged /\ answer' = answer /\ row' = row /\ job' = job /\ staged[r] = {}
          /\ \A q \in Requests : q # r => seen'[q] = seen[q]
      BY <1>6, <2>2 DEF Read, DeskInv, TypeOK
    <3> QED BY <3>1, Calm
  <2> QED BY <2>1, <2>2
<1>7. ASSUME NEW r \in Requests, Update(r) PROVE Grounded' /\ SoleWriter' /\ Sealed'
  <2>1. CASE Matches(r)
    BY <1>7, <2>1, WriteKeeps
  <2>2. CASE ~Matches(r)
    BY <1>4, <1>7, <2>2 DEF Update
  <2> QED BY <2>1, <2>2
<1>8. ASSUME NEW r \in Requests, Commit(r) PROVE Grounded' /\ SoleWriter' /\ Sealed'
  BY <1>8, CommitKeeps
<1>9. ASSUME NEW p \in Procs, Crash(p) PROVE Grounded' /\ SoleWriter' /\ Sealed'
  <2>1. /\ row' = row /\ job' = job /\ answer' = answer
        /\ \A q \in Requests : staged'[q] = {} \/ (staged'[q] = staged[q] /\ seen'[q] = seen[q])
    BY <1>9 DEF Crash
  <2> QED BY <2>1, Calm
<1> QED
  BY <1>0, <1>1, <1>2, <1>3, <1>5, <1>6, <1>7, <1>8, <1>9 DEF Next, Step, DeskInv

LEMMA InvAlways == Spec => []DeskInv
BY InvInit, InvStep, PTL DEF Spec

\* The desk's state keeps its type: a request has a row to commit exactly
\* between its UPDATE and its COMMIT.
THEOREM TypeCorrect == Spec => []TypeOK
<1>1. DeskInv => TypeOK
  BY DEF DeskInv
<1> QED BY <1>1, InvAlways, PTL

\* What a response reported is committed and stays: a handoff is never given
\* to two agents, whatever overlaps.
THEOREM AnswersStand == Spec => []AnswersHold
<1>1. DeskInv => AnswersHold
  BY DEF DeskInv, Sealed
<1> QED BY <1>1, InvAlways, PTL

-----------------------------------------------------------------------------
(* The desk implements HandoffLife.                                        *)

LEMMA LifeInit == Init => Life!Init
BY DEF Init, Life!Init

LEMMA LifeStep == DeskInv /\ [Next]_vars => [Life!Next]_<<[h \in Handoffs |-> row[h].status], [h \in Handoffs |-> row[h].agent]>>
<1> DEFINE st == [h \in Handoffs |-> row[h].status]
           ag == [h \in Handoffs |-> row[h].agent]
<1> SUFFICES ASSUME DeskInv, [Next]_vars PROVE Life!Next \/ (st' = st /\ ag' = ag)
  OBVIOUS
<1>1. ASSUME NEW h \in Handoffs, File(h) PROVE Life!Next
  <2>1. row \in [Handoffs -> Rows] /\ row[h].status = "absent"
        /\ row' = [row EXCEPT ![h] = [status |-> "pending", agent |-> "nobody", notes |-> "null"]]
        /\ row[h].agent = "nobody"
    BY <1>1 DEF File, DeskInv, TypeOK, Sealed
  <2>2. /\ st[h] = "absent"
        /\ st' = [st EXCEPT ![h] = "pending"]
        /\ ag' = ag
    BY <2>1 DEF Rows
  <2> QED BY <2>2 DEF Life!Next, Life!File
<1>2. ASSUME NEW r \in Requests, Commit(r) PROVE Life!Next \/ (st' = st /\ ag' = ag)
  <2> DEFINE h == job[r].on
  <2>1. /\ Matches(r) /\ row' = [row EXCEPT ![h] = After(r)]
        /\ h \in Handoffs /\ row \in [Handoffs -> Rows] /\ job[r].kind \in Kinds
    BY <1>2, CommitsAfter, JobType DEF DeskInv, TypeOK
  <2>2. /\ st' = [st EXCEPT ![h] = After(r).status]
        /\ ag' = [ag EXCEPT ![h] = After(r).agent]
    BY <2>1
  <2>3. CASE job[r].kind = "assign"
    <3>1. st[h] = "pending" /\ After(r).status = "assigned" /\ After(r).agent = r
      BY <2>1, <2>3 DEF Matches, After
    <3>2. st' = [st EXCEPT ![h] = "assigned"] /\ ag' = [ag EXCEPT ![h] = r]
      BY <2>2, <3>1
    <3>3. Life!Assign(h, r)
      BY <3>1, <3>2 DEF Life!Assign
    <3> QED BY <2>1, <3>3 DEF Life!Next
  <2>4. CASE job[r].kind = "note"
    <3>1. After(r).status = row[h].status /\ After(r).agent = row[h].agent
      BY <2>4 DEF After
    <3> QED BY <2>1, <2>2, <3>1
  <2>5. CASE job[r].kind \in {"resolve", "close"}
    <3>1. After(r).status = "resolved" /\ After(r).agent = row[h].agent
      BY <2>5 DEF After
    <3>2. row[h].status \in {"pending", "assigned", "resolved"}
      BY <2>1, <2>5 DEF Matches, Rows
    <3>3. ag' = ag
      BY <2>1, <2>2, <3>1
    <3>4. CASE row[h].status = "resolved"
      BY <2>1, <2>2, <3>1, <3>3, <3>4
    <3>5. CASE row[h].status \in {"pending", "assigned"}
      BY <2>1, <2>2, <3>1, <3>3, <3>5 DEF Life!Next, Life!Resolve
    <3> QED BY <3>2, <3>4, <3>5
  <2> QED BY <2>1, <2>3, <2>4, <2>5 DEF Kinds
<1>3. ASSUME row' = row PROVE st' = st /\ ag' = ag
  BY <1>3
<1>4. ASSUME NEW r \in Requests, Arrive(r) \/ Fail(r) \/ (Step(r) /\ ~Commit(r)) PROVE row' = row
  BY <1>4 DEF Arrive, Fail, Step, Connect, ConnectTimeout, Read, Update, Event, EventTimeout, Log
<1>5. ASSUME NEW p \in Procs, Crash(p) PROVE row' = row
  BY <1>5 DEF Crash
<1>6. ASSUME UNCHANGED vars PROVE row' = row
  BY <1>6 DEF vars
<1> QED BY <1>1, <1>2, <1>3, <1>4, <1>5, <1>6 DEF Next

\* A handoff only goes forward and belongs to one agent at most, under every
\* interleaving of the requests, failures and crashes.
THEOREM GoesForward == Spec => OneWay
BY InvAlways, LifeInit, LifeStep, PTL DEF Spec, OneWay, Life!Spec
-----------------------------------------------------------------------------
(* Notes.                                                                  *)

\* The Control Room's resolve knows the notes, or was overtaken; a handoff
\* that is not filed has none.
Informed ==
  /\ \A r \in Requests :
       job[r].kind = "close" /\ pc[r] \in {"update", "event", "log", "commit"} =>
         seen[r] = row[job[r].on].notes \/ r \in overtaken
  /\ \A h \in Handoffs : row[h].status = "absent" => row[h].notes = "null"

LEMMA InformedInit == Init => Informed
BY DEF Init, Informed

\* Steps that write no row and let nobody past its read.
LEMMA InformedCalm ==
  ASSUME DeskInv, Informed, row' = row, job' = job, overtaken' = overtaken,
         \A q \in Requests :
           pc'[q] \in {"update", "event", "log", "commit"} =>
             \/ pc[q] \in {"update", "event", "log", "commit"} /\ seen'[q] = seen[q]
             \/ job[q].kind # "close"
             \/ seen'[q] = row[job[q].on].notes
  PROVE  Informed'
BY DEF Informed

LEMMA InformedStep == DeskInv /\ Informed /\ [Next]_vars => Informed'
<1> SUFFICES ASSUME DeskInv, Informed, [Next]_vars PROVE Informed'
  OBVIOUS
<1> USE DEF DeskInv
<1>0. CASE UNCHANGED vars
  BY <1>0 DEF vars, Informed
<1>1. ASSUME NEW h \in Handoffs, File(h) PROVE Informed'
  <2>1. /\ row[h].status = "absent" /\ row[h].notes = "null"
        /\ row' = [row EXCEPT ![h] = [status |-> "pending", agent |-> "nobody", notes |-> "null"]]
        /\ UNCHANGED <<pc, job, seen, overtaken>> /\ row \in [Handoffs -> Rows]
    BY <1>1 DEF File, Informed, TypeOK
  <2>2. \A g \in Handoffs : row'[g].notes = row[g].notes
                          /\ (row'[g].status = "absent" => row[g].status = "absent")
    BY <2>1
  <2>3. \A q \in Requests : job[q].on \in Handoffs
    BY JobType
  <2> QED BY <2>1, <2>2, <2>3 DEF Informed
<1>2. ASSUME NEW r \in Requests, Arrive(r) PROVE Informed'
  <2>1. PICK l \in {First(r), "connect"} : pc' = [pc EXCEPT ![r] = l]
    BY <1>2 DEF Arrive, Ask
  <2>2. l = "update" => job[r].kind # "close"
    BY <2>1 DEF First, Owner
  <2>3. UNCHANGED <<row, job, seen, overtaken>> /\ l \in {"read", "update", "connect"}
    BY <1>2, <2>1 DEF Arrive, First
  <2> QED BY <2>1, <2>2, <2>3, InformedCalm DEF TypeOK
<1>3. ASSUME NEW r \in Requests, Connect(r) PROVE Informed'
  <2>1. pc' = [pc EXCEPT ![r] = First(r)] /\ UNCHANGED <<row, job, seen, overtaken>>
    BY <1>3 DEF Connect
  <2>2. First(r) = "update" => job[r].kind # "close"
    BY DEF First, Owner
  <2>3. First(r) \in {"read", "update"}
    BY DEF First
  <2> QED BY <2>1, <2>2, <2>3, InformedCalm DEF TypeOK
<1>4. ASSUME NEW r \in Requests, ConnectTimeout(r) PROVE Informed'
  BY <1>4, InformedCalm DEF ConnectTimeout, End, TypeOK
<1>5. ASSUME NEW r \in Requests, Read(r) PROVE Informed'
  BY <1>5, InformedCalm DEF Read, End, TypeOK
<1>6. ASSUME NEW r \in Requests, Update(r) PROVE Informed'
  <2>1. CASE Matches(r)
    <3>1. \E l \in {"log", "event", "commit"} : pc' = [pc EXCEPT ![r] = l]
      BY <1>6, <2>1 DEF Update, Ask
    <3>2. UNCHANGED <<row, job, seen, overtaken>> /\ pc[r] = "update"
      BY <1>6, <2>1 DEF Update
    <3> QED BY <3>1, <3>2, InformedCalm DEF TypeOK
  <2>2. CASE ~Matches(r)
    BY <1>6, <2>2, InformedCalm DEF Update, End, TypeOK
  <2> QED BY <2>1, <2>2
<1>7. ASSUME NEW r \in Requests, Event(r) \/ EventTimeout(r) \/ Log(r) PROVE Informed'
  BY <1>7, InformedCalm DEF Event, EventTimeout, Log, TypeOK
<1>8. ASSUME NEW r \in Requests, Fail(r) PROVE Informed'
  BY <1>8, InformedCalm DEF Fail, End, TypeOK
<1>9. ASSUME NEW r \in Requests, Commit(r) PROVE Informed'
  <2> DEFINE h == job[r].on
  <2>1. /\ Matches(r) /\ row' = [row EXCEPT ![h] = After(r)]
        /\ seen' = [seen EXCEPT ![r] = "null"] /\ job' = job
        /\ h \in Handoffs /\ row \in [Handoffs -> Rows] /\ job[r].kind \in Kinds
    BY <1>9, CommitsAfter, JobType DEF TypeOK
  <2>2. /\ pc' = [pc EXCEPT ![r] = "over"]
        /\ overtaken' = (overtaken \ {r}) \cup
                           {q \in Requests : job[q].on = h /\ pc[q] = "update"}
        /\ staged[r] # {}
    BY <1>9 DEF Commit, End, TypeOK
  <2>3. After(r).status # "absent"
    BY <2>1 DEF After, Matches
  <2>4. \A q \in Requests : q # r /\ job[q].on = h => pc[q] \notin {"event", "log", "commit"}
    BY <2>2 DEF SoleWriter, TypeOK
  <2>5. \A q \in Requests : job[q].on \in Handoffs
    BY JobType
  <2>6. \A g \in Handoffs : g # h => row'[g] = row[g]
    BY <2>1
  <2>7. ASSUME NEW q \in Requests, job[q].kind = "close",
               pc'[q] \in {"update", "event", "log", "commit"}
        PROVE  seen'[q] = row'[job[q].on].notes \/ q \in overtaken'
    <3>1. q # r /\ pc'[q] = pc[q] /\ seen'[q] = seen[q]
      BY <2>1, <2>2, <2>7 DEF TypeOK
    <3>2. CASE job[q].on = h
      BY <2>2, <2>4, <2>7, <3>1, <3>2
    <3>3. CASE job[q].on # h
      BY <2>2, <2>5, <2>6, <2>7, <3>1, <3>3 DEF Informed
    <3> QED BY <3>2, <3>3
  <2>8. \A g \in Handoffs : row'[g].status = "absent" => row'[g].notes = "null"
    BY <2>1, <2>3, <2>6 DEF Informed
  <2> QED BY <2>1, <2>7, <2>8 DEF Informed
<1>10. ASSUME NEW p \in Procs, Crash(p) PROVE Informed'
  BY <1>10, InformedCalm DEF Crash, TypeOK
<1> QED
  BY <1>0, <1>1, <1>2, <1>3, <1>4, <1>5, <1>6, <1>7, <1>8, <1>9, <1>10 DEF Next, Step

\* A request that brings no note leaves the notes alone, unless they say
\* nothing or it was overtaken.
LEMMA NotesLeft ==
  ASSUME DeskInv, Informed, NEW r \in Requests, Commit(r),
         Text(r) = "null", job[r].kind # "note",
         Truthy(row[job[r].on].notes), r \notin overtaken
  PROVE  After(r).notes = row[job[r].on].notes
<1>1. job[r].kind \in Kinds
  BY JobType DEF DeskInv
<1>2. CASE job[r].kind = "close"
  <2>1. seen[r] = row[job[r].on].notes
    BY <1>2 DEF Commit, Informed
  <2> QED BY <1>2, <2>1 DEF After, NotesAfter
<1>3. CASE job[r].kind \in {"assign", "resolve"}
  BY <1>3 DEF After, NotesAfter, Truthy
<1> QED BY <1>1, <1>2, <1>3 DEF Kinds

\* The action of NotesKept.
NotesGoOn ==
  \A h \in Handoffs : row'[h].notes # row[h].notes =>
    \E r \in Requests :
      /\ pc[r] = "commit" /\ answer'[r] = "ok" /\ job[r].on = h
      /\ \/ Text(r) # "null" \/ job[r].kind = "note"
         \/ ~Truthy(row[h].notes)
         \/ r \in overtaken

LEMMA NotesStep == DeskInv /\ Informed /\ [Next]_vars => [NotesGoOn]_vars
<1> SUFFICES ASSUME DeskInv, Informed, Next PROVE NotesGoOn
  OBVIOUS
<1>1. ASSUME NEW g \in Handoffs, File(g) PROVE NotesGoOn
  <2>1. /\ row[g].notes = "null" /\ row \in [Handoffs -> Rows]
        /\ row' = [row EXCEPT ![g] = [status |-> "pending", agent |-> "nobody", notes |-> "null"]]
    BY <1>1 DEF File, Informed, DeskInv, TypeOK
  <2> QED BY <2>1 DEF NotesGoOn
<1>2. ASSUME NEW r \in Requests, Commit(r) PROVE NotesGoOn
  <2>1. /\ row' = [row EXCEPT ![job[r].on] = After(r)]
        /\ answer'[r] = "ok" /\ pc[r] = "commit"
        /\ row \in [Handoffs -> Rows] /\ job[r].on \in Handoffs
    <3>1. answer' = [answer EXCEPT ![r] = "ok"] /\ row' = [row EXCEPT ![job[r].on] = After(r)]
      BY <1>2, CommitsAfter
    <3>2. /\ job[r].on \in Handoffs /\ row \in [Handoffs -> Rows]
          /\ answer \in [Requests -> {"none", "ok", "missing", "error"}]
      BY JobType DEF DeskInv, TypeOK
    <3> QED BY <1>2, <3>1, <3>2 DEF Commit
  <2> SUFFICES ASSUME NEW h \in Handoffs, row'[h].notes # row[h].notes
               PROVE  /\ job[r].on = h
                      /\ \/ Text(r) # "null" \/ job[r].kind = "note"
                         \/ ~Truthy(row[h].notes) \/ r \in overtaken
    BY <2>1 DEF NotesGoOn
  <2>2. job[r].on = h /\ After(r).notes # row[h].notes
    BY <2>1
  <2> QED BY <1>2, <2>2, NotesLeft
<1>3. ASSUME row' = row PROVE NotesGoOn
  BY <1>3 DEF NotesGoOn
<1>4. ASSUME NEW r \in Requests, Arrive(r) \/ Fail(r) \/ (Step(r) /\ ~Commit(r)) PROVE row' = row
  BY <1>4 DEF Arrive, Fail, Step, Connect, ConnectTimeout, Read, Update, Event, EventTimeout, Log
<1>5. ASSUME NEW p \in Procs, Crash(p) PROVE row' = row
  BY <1>5 DEF Crash
<1> QED BY <1>1, <1>2, <1>3, <1>4, <1>5 DEF Next

\* A note is never overwritten by a request that brought none, but by the
\* Control Room's resolve that another request overtook.
THEOREM NotesAreKept == Spec => NotesKept
<1>1. [NotesGoOn]_vars <=> [\A h \in Handoffs : row'[h].notes # row[h].notes =>
        \E r \in Requests :
          /\ pc[r] = "commit" /\ answer'[r] = "ok" /\ job[r].on = h
          /\ \/ Text(r) # "null" \/ job[r].kind = "note"
             \/ ~Truthy(row[h].notes)
             \/ r \in overtaken]_vars
  BY DEF NotesGoOn
<1> QED
  BY <1>1, InvAlways, InformedInit, InformedStep, NotesStep, PTL DEF Spec, NotesKept
-----------------------------------------------------------------------------
(* Requests do not keep each other for ever.                               *)

\* How far a request is from its end.
Distance ==
  [l \in Labels |->
     CASE l = "idle" -> 7 [] l = "connect" -> 6 [] l = "read" -> 5 [] l = "update" -> 4
       [] l = "event" -> 3 [] l = "log" -> 2 [] l = "commit" -> 1 [] l = "over" -> 0]

\* A step takes some request on and none back, or it files a handoff.
GoesOn ==
  /\ \A r \in Requests : Distance[pc'[r]] <= Distance[pc[r]]
  /\ \/ \E r \in Requests : Distance[pc'[r]] < Distance[pc[r]]
     \/ \E h \in Handoffs : row[h].status = "absent" /\ row'[h].status # "absent"

LEMMA Distances ==
  /\ Distance \in [Labels -> 0..7]
  /\ Distance["idle"] = 7 /\ Distance["connect"] = 6 /\ Distance["read"] = 5
  /\ Distance["update"] = 4 /\ Distance["event"] = 3 /\ Distance["log"] = 2
  /\ Distance["commit"] = 1 /\ Distance["over"] = 0
BY DEF Distance, Labels

LEMMA StepGoesOn ==
  ASSUME TypeOK, Next
  PROVE  GoesOn
<1>1. ASSUME NEW r \in Requests, NEW l \in Labels, pc' = [pc EXCEPT ![r] = l],
             Distance[l] < Distance[pc[r]]
      PROVE  GoesOn
  <2>1. pc \in [Requests -> Labels]
    BY DEF TypeOK
  <2>2. \A q \in Requests : Distance[pc[q]] <= Distance[pc[q]]
    BY <2>1, Distances
  <2>3. \A q \in Requests : pc'[q] = IF q = r THEN l ELSE pc[q]
    BY <1>1, <2>1
  <2>4. \A q \in Requests : Distance[pc'[q]] <= Distance[pc[q]]
    BY <1>1, <2>1, <2>2, <2>3, Distances
  <2>5. Distance[pc'[r]] < Distance[pc[r]]
    BY <1>1, <2>3
  <2> QED BY <2>4, <2>5 DEF GoesOn
<1>2. ASSUME NEW h \in Handoffs, File(h) PROVE GoesOn
  <2>1. row[h].status = "absent" /\ row'[h].status = "pending" /\ pc' = pc
    BY <1>2 DEF File, TypeOK
  <2>2. \A q \in Requests : Distance[pc[q]] <= Distance[pc[q]]
    BY Distances DEF TypeOK
  <2> QED BY <2>1, <2>2 DEF GoesOn
<1>3. ASSUME NEW r \in Requests, Arrive(r) PROVE GoesOn
  <2>1. /\ pc[r] = "idle"
        /\ \/ pc' = [pc EXCEPT ![r] = "read"]
           \/ pc' = [pc EXCEPT ![r] = "update"]
           \/ pc' = [pc EXCEPT ![r] = "connect"]
    BY <1>3 DEF Arrive, Ask, First
  <2>2. \E l \in Labels : pc' = [pc EXCEPT ![r] = l] /\ Distance[l] < Distance[pc[r]]
    BY <2>1, Distances DEF Labels
  <2> QED BY <1>1, <2>2
<1>4. ASSUME NEW r \in Requests, Connect(r) PROVE GoesOn
  <2>1. /\ pc[r] = "connect"
        /\ \/ pc' = [pc EXCEPT ![r] = "read"]
           \/ pc' = [pc EXCEPT ![r] = "update"]
    BY <1>4 DEF Connect, First
  <2>2. \E l \in Labels : pc' = [pc EXCEPT ![r] = l] /\ Distance[l] < Distance[pc[r]]
    BY <2>1, Distances DEF Labels
  <2> QED BY <1>1, <2>2
<1>5. ASSUME NEW r \in Requests, ConnectTimeout(r) \/ Fail(r) \/ Commit(r) PROVE GoesOn
  <2>1. pc[r] \in {"connect", "read", "update", "commit"} /\ pc' = [pc EXCEPT ![r] = "over"]
    BY <1>5 DEF ConnectTimeout, Fail, Commit, End
  <2>2. \E l \in Labels : pc' = [pc EXCEPT ![r] = l] /\ Distance[l] < Distance[pc[r]]
    BY <2>1, Distances DEF Labels
  <2> QED BY <1>1, <2>2
<1>6. ASSUME NEW r \in Requests, Read(r) PROVE GoesOn
  <2>1. /\ pc[r] = "read"
        /\ \/ pc' = [pc EXCEPT ![r] = "update"]
           \/ pc' = [pc EXCEPT ![r] = "over"]
    BY <1>6 DEF Read, End
  <2>2. \E l \in Labels : pc' = [pc EXCEPT ![r] = l] /\ Distance[l] < Distance[pc[r]]
    BY <2>1, Distances DEF Labels
  <2> QED BY <1>1, <2>2
<1>7. ASSUME NEW r \in Requests, Update(r) PROVE GoesOn
  <2>1. /\ pc[r] = "update"
        /\ \/ pc' = [pc EXCEPT ![r] = "event"]
           \/ pc' = [pc EXCEPT ![r] = "log"]
           \/ pc' = [pc EXCEPT ![r] = "commit"]
           \/ pc' = [pc EXCEPT ![r] = "over"]
    BY <1>7 DEF Update, Ask, End
  <2>2. \E l \in Labels : pc' = [pc EXCEPT ![r] = l] /\ Distance[l] < Distance[pc[r]]
    BY <2>1, Distances DEF Labels
  <2> QED BY <1>1, <2>2
<1>8. ASSUME NEW r \in Requests, Event(r) \/ EventTimeout(r) \/ Log(r) PROVE GoesOn
  <2>1. /\ pc[r] \in {"event", "log"}
        /\ \E l \in {"log", "commit"} : l # pc[r] /\ pc' = [pc EXCEPT ![r] = l]
    BY <1>8 DEF Event, EventTimeout, Log
  <2>2. \E l \in {"log", "commit"} : Distance[l] < Distance[pc[r]] /\ pc' = [pc EXCEPT ![r] = l]
    BY <1>8, <2>1, Distances DEF Event, EventTimeout, Log
  <2> QED BY <1>1, <2>2 DEF Labels
<1>9. ASSUME NEW p \in Procs, Crash(p) PROVE GoesOn
  <2> DEFINE dying == {r \in Requests : Home[r] = p /\ pc[r] \notin {"idle", "over"}}
  <2>1. dying # {} /\ pc' = [r \in Requests |-> IF r \in dying THEN "over" ELSE pc[r]]
    BY <1>9 DEF Crash
  <2>2. \A r \in Requests : Distance[pc[r]] \in 0..7 /\ (r \in dying => Distance[pc[r]] > 0)
    BY Distances DEF TypeOK, Labels
  <2>3. Distance["over"] = 0
    BY Distances
  <2> HIDE DEF dying
  <2>4. dying \subseteq Requests
    BY DEF dying
  <2>5. \A r \in Requests : Distance[pc'[r]] <= Distance[pc[r]]
    BY <2>1, <2>2, <2>3
  <2>6. \E r \in Requests : Distance[pc'[r]] < Distance[pc[r]]
    BY <2>1, <2>2, <2>3, <2>4
  <2> QED BY <2>5, <2>6 DEF GoesOn
<1> QED
  BY <1>2, <1>3, <1>4, <1>5, <1>6, <1>7, <1>8, <1>9 DEF Next, Step

\* No request turns in circles: every step of the desk takes one on to its end.
THEOREM NobodyTurnsBack == Spec => [][GoesOn]_vars
<1>1. TypeOK /\ [Next]_vars => [GoesOn]_vars
  BY StepGoesOn
<1> QED BY <1>1, TypeCorrect, PTL DEF Spec

Waits(r) == pc[r] \in {"connect", "event"}

\* Those who wait for a connection of one pool stand in line: whoever is ahead
\* of a request waits too, and so does everyone ahead of that one.
InLine ==
  \A r \in Requests : Waits(r) =>
    /\ r \notin ahead[r]
    /\ \A q \in ahead[r] : Waits(q) /\ Home[q] = Home[r] /\ ahead[q] \subseteq ahead[r]

\* Some leave the line, and nobody joins it.
LEMMA LineShrinks ==
  ASSUME TypeOK, InLine, NEW gone,
         \A q \in Requests : pc'[q] \in {"connect", "event"} =>
                               Waits(q) /\ ahead'[q] = ahead[q] \ gone,
         \A q \in Requests : Waits(q) /\ q \notin gone =>
                               pc'[q] \in {"connect", "event"}
  PROVE  InLine'
<1> SUFFICES ASSUME NEW r \in Requests, pc'[r] \in {"connect", "event"}
             PROVE  /\ r \notin ahead'[r]
                    /\ \A q \in ahead'[r] : /\ pc'[q] \in {"connect", "event"}
                                            /\ Home[q] = Home[r] /\ ahead'[q] \subseteq ahead'[r]
  BY DEF InLine, Waits
<1>1. Waits(r) /\ ahead'[r] = ahead[r] \ gone /\ ahead[r] \subseteq Requests
  BY DEF TypeOK
<1>2. ASSUME NEW q \in ahead'[r]
      PROVE  /\ pc'[q] \in {"connect", "event"}
             /\ Home[q] = Home[r] /\ ahead'[q] \subseteq ahead'[r]
  <2>1. q \in Requests /\ q \notin gone /\ q \in ahead[r]
    BY <1>1
  <2>2. Waits(q) /\ Home[q] = Home[r] /\ ahead[q] \subseteq ahead[r]
    BY <1>1, <2>1 DEF InLine
  <2>3. pc'[q] \in {"connect", "event"}
    BY <2>1, <2>2
  <2> QED BY <1>1, <2>1, <2>2, <2>3
<1>3. r \notin ahead[r]
  BY <1>1 DEF InLine
<1> QED BY <1>1, <1>2, <1>3

\* One joins it, behind everyone.
LEMMA LineGrows ==
  ASSUME TypeOK, InLine, NEW r \in Requests, NEW l \in {"connect", "event"}, ~Waits(r),
         pc' = [pc EXCEPT ![r] = l],
         ahead' = [ahead EXCEPT ![r] = Held(Home[r], {"connect", "event"})]
  PROVE  InLine'
<1> DEFINE line == Held(Home[r], {"connect", "event"})
<1>1. /\ line = {q \in Requests : Home[q] = Home[r] /\ Waits(q)}
      /\ r \notin line
  BY DEF Held, Waits
<1> HIDE DEF line
<1>2. /\ ahead'[r] = line /\ \A q \in Requests : q # r => ahead'[q] = ahead[q]
      /\ \A q \in Requests : q # r => pc'[q] = pc[q]
      /\ pc'[r] = l
  BY DEF TypeOK, line
<1> SUFFICES ASSUME NEW s \in Requests, pc'[s] \in {"connect", "event"}
             PROVE  /\ s \notin ahead'[s]
                    /\ \A q \in ahead'[s] : /\ pc'[q] \in {"connect", "event"}
                                            /\ Home[q] = Home[s] /\ ahead'[q] \subseteq ahead'[s]
  BY DEF InLine, Waits
<1>3. CASE s = r
  <2>1. ASSUME NEW q \in line
        PROVE  /\ pc'[q] \in {"connect", "event"}
               /\ Home[q] = Home[r] /\ ahead'[q] \subseteq line
    <3>1. q \in Requests /\ q # r /\ Waits(q) /\ Home[q] = Home[r]
      BY <1>1
    <3>2. ahead[q] \subseteq Requests /\ \A x \in ahead[q] : Waits(x) /\ Home[x] = Home[q]
      BY <3>1 DEF TypeOK, InLine
    <3> QED BY <1>1, <1>2, <3>1, <3>2 DEF Waits
  <2> QED BY <1>1, <1>2, <1>3, <2>1
<1>4. CASE s # r
  <2>1. Waits(s) /\ ahead'[s] = ahead[s] /\ ahead[s] \subseteq Requests
    BY <1>2, <1>4 DEF Waits, TypeOK
  <2>2. ASSUME NEW q \in ahead[s]
        PROVE  /\ pc'[q] \in {"connect", "event"}
               /\ Home[q] = Home[s] /\ ahead'[q] \subseteq ahead[s]
    <3>1. q \in Requests /\ Waits(q) /\ Home[q] = Home[s] /\ ahead[q] \subseteq ahead[s]
      BY <2>1 DEF InLine
    <3> QED BY <1>2, <3>1 DEF Waits
  <2>3. s \notin ahead[s]
    BY <2>1 DEF InLine
  <2> QED BY <2>1, <2>2, <2>3
<1> QED BY <1>3, <1>4

LEMMA LineStep == TypeOK /\ InLine /\ [Next]_vars => InLine'
<1> SUFFICES ASSUME TypeOK, InLine, [Next]_vars PROVE InLine'
  OBVIOUS
<1>0. CASE UNCHANGED vars
  BY <1>0 DEF vars, InLine, Waits
<1>1. ASSUME NEW r \in Requests, NEW l \in Labels \ {"connect", "event"}, ~Waits(r),
             pc' = [pc EXCEPT ![r] = l], ahead' = ahead
      PROVE  InLine'
  <2>1. /\ \A q \in Requests : pc'[q] \in {"connect", "event"} =>
                                 Waits(q) /\ ahead'[q] = ahead[q] \ {}
        /\ \A q \in Requests : Waits(q) /\ q \notin {} => pc'[q] \in {"connect", "event"}
    BY <1>1 DEF TypeOK, Waits
  <2> QED BY <2>1, LineShrinks
<1>2. ASSUME NEW r \in Requests, NEW l \in Labels \ {"connect", "event"},
             pc' = [pc EXCEPT ![r] = l], Served(r)
      PROVE  InLine'
  <2>1. /\ \A q \in Requests : pc'[q] \in {"connect", "event"} =>
                                 Waits(q) /\ ahead'[q] = ahead[q] \ {r}
        /\ \A q \in Requests : Waits(q) /\ q \notin {r} => pc'[q] \in {"connect", "event"}
    BY <1>2 DEF TypeOK, Waits, Served
  <2> QED BY <2>1, LineShrinks
<1>3. ASSUME NEW r \in Requests, NEW l \in Labels \ {"connect", "event"},
             NEW w \in {"connect", "event"}, ~Waits(r), Ask(r, l, w)
      PROVE  InLine'
  <2>1. CASE pc' = [pc EXCEPT ![r] = l] /\ ahead' = ahead
    BY <1>1, <1>3, <2>1
  <2>2. CASE /\ pc' = [pc EXCEPT ![r] = w]
             /\ ahead' = [ahead EXCEPT ![r] = Held(Home[r], {"connect", "event"})]
    BY <1>3, <2>2, LineGrows
  <2> QED BY <1>3, <2>1, <2>2 DEF Ask
<1>4. ASSUME NEW h \in Handoffs, File(h) PROVE InLine'
  BY <1>4 DEF File, InLine, Waits
<1>5. ASSUME NEW r \in Requests, Arrive(r) PROVE InLine'
  <2>1. ~Waits(r) /\ Ask(r, First(r), "connect") /\ First(r) \in Labels \ {"connect", "event"}
    BY <1>5 DEF Arrive, Waits, First, Labels
  <2> QED BY <1>3, <2>1
<1>6. ASSUME NEW r \in Requests,
             Connect(r) \/ ConnectTimeout(r) \/ Event(r) \/ EventTimeout(r)
      PROVE  InLine'
  <2>1. Served(r) /\ \E l \in {"read", "update", "over", "log", "commit"} : pc' = [pc EXCEPT ![r] = l]
    BY <1>6 DEF Connect, ConnectTimeout, Event, EventTimeout, End, First
  <2> QED BY <1>2, <2>1 DEF Labels
<1>7. ASSUME NEW r \in Requests, Read(r) \/ Log(r) \/ Commit(r) \/ Fail(r) PROVE InLine'
  <2>1. /\ pc[r] \in {"read", "log", "commit", "update"} /\ ahead' = ahead
        /\ \E l \in {"update", "over", "commit"} : pc' = [pc EXCEPT ![r] = l]
    BY <1>7 DEF Read, Log, Commit, Fail, End
  <2> QED BY <1>1, <2>1 DEF Labels, Waits
<1>8. ASSUME NEW r \in Requests, Update(r) PROVE InLine'
  <2>1. ~Waits(r)
    BY <1>8 DEF Update, Waits
  <2>2. CASE Ask(r, "log", "event")
    BY <1>3, <2>1, <2>2 DEF Labels
  <2>3. CASE ahead' = ahead /\ \E l \in {"commit", "over"} : pc' = [pc EXCEPT ![r] = l]
    BY <1>1, <2>1, <2>3 DEF Labels
  <2> QED BY <1>8, <2>2, <2>3 DEF Update, End
<1>9. ASSUME NEW p \in Procs, Crash(p) PROVE InLine'
  <2> DEFINE dying == {r \in Requests : Home[r] = p /\ pc[r] \notin {"idle", "over"}}
  <2>1. /\ pc' = [r \in Requests |-> IF r \in dying THEN "over" ELSE pc[r]]
        /\ ahead' = [r \in Requests |-> IF r \in dying THEN {} ELSE ahead[r] \ dying]
    BY <1>9 DEF Crash
  <2> HIDE DEF dying
  <2>2. /\ \A q \in Requests : pc'[q] \in {"connect", "event"} =>
                                 Waits(q) /\ ahead'[q] = ahead[q] \ dying
        /\ \A q \in Requests : Waits(q) /\ q \notin dying => pc'[q] \in {"connect", "event"}
    BY <2>1 DEF TypeOK, Waits
  <2> QED BY <2>2, LineShrinks
<1> QED
  BY <1>0, <1>4, <1>5, <1>6, <1>7, <1>8, <1>9 DEF Next, Step

\* The requests whose next statement can be taken: the guards of Step.
Ready(r) ==
  \/ pc[r] \in {"read", "log", "commit"}
  \/ pc[r] \in {"connect", "event"} /\ (Used(Home[r]) < Capacity \/ Longest(r))
  \/ pc[r] = "update" /\ (Matches(r) => ~Locked(job[r].on))

SomeoneIsReady ==
  (\E r \in Requests : pc[r] \notin {"idle", "over"}) => \E r \in Requests : Ready(r)

\* At the head of a line is a request with nobody ahead.
LEMMA LineHasHead ==
  ASSUME TypeOK, InLine, NEW r \in Requests, Waits(r)
  PROVE  \E q \in Requests : Waits(q) /\ ahead[q] = {}
<1> DEFINE lines == {ahead[q] : q \in {x \in Requests : Waits(x)}}
<1>1. IsWellFoundedOn(StrictSubsetOrdering(Requests), SUBSET Requests)
  BY DeskAssumption, FS_StrictSubsetOrderingWellFounded, FS_FiniteSubsetsOfFinite
<1>2. lines \subseteq SUBSET Requests /\ lines # {}
  BY DEF TypeOK
<1>3. \E x \in lines : \A y \in lines : <<y, x>> \notin StrictSubsetOrdering(Requests)
  <2> HIDE DEF lines
  <2> QED BY <1>1, <1>2, WFMin
<1>4. PICK q \in Requests :
        Waits(q) /\ \A y \in lines : <<y, ahead[q]>> \notin StrictSubsetOrdering(Requests)
  BY <1>3
<1>5. ASSUME ahead[q] # {} PROVE FALSE
  <2>1. PICK s \in ahead[q] : TRUE
    BY <1>5
  <2>2. ahead[q] \subseteq Requests /\ s \in Requests
    BY <2>1 DEF TypeOK
  <2>3. Waits(s) /\ ahead[s] \subseteq ahead[q]
    BY <1>4, <2>1 DEF InLine
  <2>4. s \notin ahead[s]
    BY <2>2, <2>3 DEF InLine
  <2>5. <<ahead[s], ahead[q]>> \in StrictSubsetOrdering(Requests)
    BY <2>1, <2>2, <2>3, <2>4 DEF StrictSubsetOrdering
  <2>6. ahead[s] \in lines
    BY <2>2, <2>3
  <2> QED BY <1>4, <2>5, <2>6
<1> QED BY <1>4, <1>5

LEMMA UsedType ==
  ASSUME NEW p
  PROVE  Used(p) \in Nat
<1>1. \A at : IsFiniteSet(Held(p, at))
  BY DeskAssumption, FS_Subset DEF Held
<1>2. \A at : Cardinality(Held(p, at)) \in Nat
  BY <1>1, FS_CardinalityType
<1> QED BY <1>2 DEF Used

\* A line moves: its head has a connection, or gives up.
LEMMA LineMoves ==
  ASSUME TypeOK, InLine, NEW r \in Requests, Waits(r)
  PROVE  \E q \in Requests : Ready(q)
<1>1. PICK q \in Requests : Waits(q) /\ ahead[q] = {}
  BY LineHasHead
<1>2. Used(Home[q]) < Capacity \/ Used(Home[q]) >= Capacity
  BY UsedType, DeskAssumption
<1> QED BY <1>1, <1>2 DEF Ready, Waits, Longest

LEMMA ReadyOne == TypeOK /\ InLine => SomeoneIsReady
<1> SUFFICES ASSUME TypeOK, InLine, NEW r \in Requests, pc[r] \notin {"idle", "over"}
             PROVE  \E q \in Requests : Ready(q)
  BY DEF SomeoneIsReady
<1>1. CASE Waits(r)
  BY <1>1, LineMoves
<1>2. CASE pc[r] = "update" /\ Locked(job[r].on)
  <2>1. PICK q \in Requests : staged[q] # {}
    BY <1>2 DEF Locked
  <2>2. pc[q] \in {"event", "log", "commit"}
    BY <2>1 DEF TypeOK
  <2>3. CASE pc[q] = "event"
    BY <2>3, LineMoves DEF Waits
  <2>4. CASE pc[q] \in {"log", "commit"}
    BY <2>4 DEF Ready
  <2> QED BY <2>2, <2>3, <2>4
<1>3. CASE ~Waits(r) /\ ~(pc[r] = "update" /\ Locked(job[r].on))
  <2>1. pc[r] \in {"read", "update", "log", "commit"}
    BY <1>3 DEF TypeOK, Labels, Waits
  <2> QED BY <1>3, <2>1 DEF Ready
<1> QED BY <1>1, <1>2, <1>3

\* Row locks and connections are never waited for in a circle, for any number
\* of requests, processes and connections: while a request is under way, some
\* request can take its next statement.
THEOREM NeverAllWait == Spec => []SomeoneIsReady
<1>1. Init => InLine
  BY DEF Init, InLine, Waits
<1> QED BY <1>1, LineStep, ReadyOne, TypeCorrect, PTL DEF Spec
=============================================================================

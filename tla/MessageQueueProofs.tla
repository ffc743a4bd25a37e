------------------------- MODULE MessageQueueProofs -------------------------
(***************************************************************************)
(* Theorems about MessageQueue, for every number of messages, workers and  *)
(* webhook calls, every crash pattern and every configuration: its type    *)
(* invariant and LostOnlyInHand.  OneWorkerProofs has what holds with one  *)
(* worker only.                                                            *)
(***************************************************************************)
EXTENDS MessageQueue, TLAPS, SequenceTheorems, WellFoundedInduction

-----------------------------------------------------------------------------
(* LREM on a list. *)

LEMMA NatSetHasMin ==
  ASSUME NEW I \in SUBSET Nat, I # {}
  PROVE  Min(I) \in I /\ \A y \in I : Min(I) <= y
<1>1. PICK x \in I : \A y \in I : ~ (<<y, x>> \in OpToRel(<, Nat))
  BY NatLessThanWellFounded, WFMin
<1>2. \A y \in Nat : y < x => <<y, x>> \in OpToRel(<, Nat)
  BY Zenon DEF OpToRel
<1>3. \A y \in I : ~ (y < x)
  BY <1>1, <1>2, Zenon
<1>4. \A y \in I : x <= y
  BY <1>3
<1> QED
  BY <1>4 DEF Min

\* The position LREM picks is that of an equal element.
LEMMA FirstMatch ==
  ASSUME NEW S, NEW s \in Seq(S), NEW e, \E i \in 1..Len(s) : s[i] = e
  PROVE  /\ SelectInSeq(s, LAMBDA v : v = e) \in 1..Len(s)
         /\ s[SelectInSeq(s, LAMBDA v : v = e)] = e
<1> DEFINE I == {i \in 1..Len(s) : s[i] = e}
<1>1. I # {} /\ I \in SUBSET Nat
  OBVIOUS
<1>2. Min(I) \in I
  BY <1>1, NatSetHasMin
<1> QED
  BY <1>1, <1>2 DEF SelectInSeq

\* LREM takes out one element equal to e, if there is one, and shifts the
\* elements behind it; nothing else changes.
LEMMA RemoveFirstEffect ==
  ASSUME NEW S, NEW s \in Seq(S), NEW e
  PROVE  \/ /\ \A i \in 1..Len(s) : s[i] # e
            /\ RemoveFirst(s, e) = s
         \/ \E k \in 1..Len(s) :
              /\ s[k] = e
              /\ RemoveFirst(s, e) \in Seq(S)
              /\ Len(RemoveFirst(s, e)) = Len(s) - 1
              /\ \A i \in 1..(k - 1) : RemoveFirst(s, e)[i] = s[i]
              /\ \A i \in k..(Len(s) - 1) : RemoveFirst(s, e)[i] = s[i + 1]
<1>1. CASE \A i \in 1..Len(s) : s[i] # e
  BY <1>1 DEF RemoveFirst
<1>2. CASE \E i \in 1..Len(s) : s[i] = e
  <2> DEFINE k == SelectInSeq(s, LAMBDA v : v = e)
             front == SubSeq(s, 1, k - 1)
             back == SubSeq(s, k + 1, Len(s))
  <2>1. k \in 1..Len(s) /\ s[k] = e
    BY <1>2, FirstMatch
  <2> HIDE DEF k
  <2>2. /\ front \in Seq(S) /\ Len(front) = k - 1
        /\ \A i \in 1..(k - 1) : front[i] = s[i]
    BY <2>1, SubSeqProperties
  <2>3. /\ back \in Seq(S) /\ Len(back) = Len(s) - k
        /\ \A i \in 1..(Len(s) - k) : back[i] = s[k + i]
    BY <2>1, SubSeqProperties
  <2>4. RemoveFirst(s, e) = front \o back
    BY <1>2 DEF RemoveFirst, RemoveAt, k
  <2> HIDE DEF front, back
  <2>5. /\ front \o back \in Seq(S)
        /\ Len(front \o back) = Len(s) - 1
        /\ \A i \in 1..(k - 1) : (front \o back)[i] = s[i]
        /\ \A i \in k..(Len(s) - 1) : (front \o back)[i] = s[i + 1]
    <3>1. front \o back \in Seq(S)
      BY <2>2, <2>3, ConcatProperties
    <3>2. Len(front \o back) = Len(front) + Len(back)
      BY <2>2, <2>3, ConcatProperties
    <3>3. (k - 1) + (Len(s) - k) = Len(s) - 1
      BY <2>1
    <3>4. Len(front \o back) = Len(s) - 1
      BY <3>2, <3>3, <2>2, <2>3
    <3>5. \A i \in 1..(Len(s) - 1) :
            (front \o back)[i] = IF i <= k - 1 THEN front[i] ELSE back[i - (k - 1)]
      BY <2>1, <2>2, <2>3
    <3>6. \A i \in 1..(k - 1) : (front \o back)[i] = s[i]
      BY <3>5, <2>1, <2>2
    <3>7. ASSUME NEW i \in k..(Len(s) - 1)
          PROVE  (front \o back)[i] = s[i + 1]
      <4>1. i - (k - 1) \in 1..(Len(s) - k) /\ k + (i - (k - 1)) = i + 1
        BY <2>1
      <4>2. back[i - (k - 1)] = s[i + 1]
        BY <4>1, <2>3
      <4>3. (front \o back)[i] = back[i - (k - 1)]
        <5>1. i \in 1..(Len(s) - 1) /\ ~(i <= k - 1)
          BY <2>1
        <5> QED
          BY <5>1, <3>5
      <4> QED
        BY <4>2, <4>3
    <3> QED
      BY <3>1, <3>4, <3>6, <3>7
  <2> QED
    BY <2>1, <2>4, <2>5
<1> QED
  BY <1>1, <1>2

LEMMA RemoveFirstType ==
  ASSUME NEW S, NEW s \in Seq(S), NEW e
  PROVE  RemoveFirst(s, e) \in Seq(S)
BY RemoveFirstEffect

-----------------------------------------------------------------------------
(* Type correctness. *)

LEMMA PayloadFields ==
  ASSUME NEW p \in Payload
  PROVE  p.msg \in Messages /\ p.attempts \in 0..MaxRecoveryAttempts
BY DEF Payload

LEMMA FreshType ==
  ASSUME NEW m \in Messages
  PROVE  Fresh(m) \in Payload /\ Fresh(m).msg = m
BY QueueAssumption DEF Fresh, Payload

LEMMA RequeuedType ==
  ASSUME NEW p \in Payload, p.attempts < MaxRecoveryAttempts, NEW t \in RecoveredAt
  PROVE  Recovered(p, t) \in Payload /\ Recovered(p, t).msg = p.msg
BY QueueAssumption DEF Payload, Recovered

LEMMA TypeInit == Init => TypeOK
BY QueueAssumption DEF Init, TypeOK, Labels, Fates

LEMMA TypeStep == TypeOK /\ [Next]_vars => TypeOK'
<1> SUFFICES ASSUME TypeOK, [Next]_vars PROVE TypeOK'
  OBVIOUS
<1> USE QueueAssumption DEF TypeOK
<1>1. ASSUME NEW d \in Deliveries, AcceptNew(d) PROVE TypeOK'
  BY <1>1 DEF AcceptNew, redis, db, worker, faults
<1>2. ASSUME NEW d \in Deliveries, SkipDuplicate(d) PROVE TypeOK'
  BY <1>2 DEF SkipDuplicate, redis, db, worker, faults
<1>3. ASSUME NEW d \in Deliveries, Enqueue(d) PROVE TypeOK'
  <2>1. Fresh(Head(hook[d])) \in Payload /\ Tail(hook[d]) \in Seq(Messages)
    BY <1>3, FreshType DEF Enqueue
  <2> QED
    BY <1>3, <2>1 DEF Enqueue, db, worker, faults
<1>4. ASSUME NEW d \in Deliveries, HookDies(d) PROVE TypeOK'
  BY <1>4 DEF HookDies, redis, db, worker
<1>5. ASSUME NEW w \in Workers, SkipRecovery(w) PROVE TypeOK'
  BY <1>5 DEF SkipRecovery, Goto, At, Labels, redis, db, web, faults
<1>6. ASSUME NEW w \in Workers, StartRecovery(w) PROVE TypeOK'
  <2> DEFINE n == Min({ScanLimit, Len(processing)})
  <2>1. n \in 0..Len(processing)
    <3>1. {ScanLimit, Len(processing)} \in SUBSET Nat /\ {ScanLimit, Len(processing)} # {}
      OBVIOUS
    <3>2. n \in {ScanLimit, Len(processing)} /\ \A y \in {ScanLimit, Len(processing)} : n <= y
      BY <3>1, NatSetHasMin
    <3> QED
      BY <3>1, <3>2
  <2> HIDE DEF n
  <2>2. SubSeq(processing, 1, n) \in Seq(Payload)
    <3>1. \A i \in 1..n : processing[i] \in Payload
      BY <2>1
    <3>2. n \in Int
      BY <2>1
    <3> QED
      BY <3>1, <3>2, SubSeqProperties
  <2>3. scan' = [scan EXCEPT ![w] = SubSeq(processing, 1, n)]
    BY <1>6 DEF StartRecovery, n
  <2>4. /\ pc' = [pc EXCEPT ![w] = "scan"] /\ pc[w] = "top"
        /\ expired' \in [Workers -> SUBSET Messages]
        /\ UNCHANGED <<job, fate, queue, processing, started, dead, stored, answered, dedup,
                       hook, pushing, crashes, exposed>>
    BY <1>6 DEF StartRecovery, Goto, At, redis, db, web, faults
  <2>5. scan' \in [Workers -> Seq(Payload)]
    BY <2>2, <2>3
  <2> QED
    BY <2>4, <2>5 DEF Labels
<1>7. ASSUME NEW w \in Workers, ScanSkip(w) PROVE TypeOK'
  BY <1>7 DEF ScanSkip, redis, db, web, faults
<1>8. ASSUME NEW w \in Workers, ScanStale(w) PROVE TypeOK'
  <2>1. Head(scan[w]) \in Payload /\ Tail(scan[w]) \in Seq(Payload)
    BY <1>8 DEF ScanStale
  <2>2. Head(scan[w]).attempts \in 0..MaxRecoveryAttempts
    BY <2>1 DEF Payload
  <2> QED
    BY <1>8, <2>1, <2>2 DEF ScanStale, Goto, At, Labels, Fates, redis, db, web, faults
<1>9. ASSUME NEW w \in Workers, EndRecovery(w) PROVE TypeOK'
  BY <1>9 DEF EndRecovery, Goto, At, Labels, redis, db, web, faults
<1>10. ASSUME NEW w \in Workers, Claim(w) PROVE TypeOK'
  <2>1. Head(queue) \in Payload /\ Tail(queue) \in Seq(Payload)
    BY <1>10 DEF Claim
  <2>2. fate[w] \notin Fates
    BY <1>10 DEF Claim, At
  <2> QED
    BY <1>10, <2>1, <2>2 DEF Claim, Goto, At, Labels, Fates, db, web, faults
<1>11. ASSUME NEW w \in Workers, PollTimeout(w) PROVE TypeOK'
  BY <1>11 DEF PollTimeout, Goto, At, Labels, redis, db, web, faults
<1>12. ASSUME NEW w \in Workers, Stamp(w) PROVE TypeOK'
  BY <1>12, PayloadFields DEF Stamp, Restamp, Goto, At, Labels, db, web, faults
<1>13. ASSUME NEW w \in Workers, Succeed(w) PROVE TypeOK'
  <2>1. job[w] \in Payload /\ job[w].msg \in Messages
    BY <1>13, PayloadFields DEF Succeed, At
  <2> QED
    BY <1>13, <2>1 DEF Succeed, Dispose, Goto, At, Labels, Fates, redis, web, faults
<1>14. ASSUME NEW w \in Workers, FailStored(w) PROVE TypeOK'
  <2>1. job[w] \in Payload /\ job[w].msg \in Messages
    BY <1>14, PayloadFields DEF FailStored, At
  <2> QED
    BY <1>14, <2>1 DEF FailStored, Dispose, Goto, At, Labels, Fates, redis, web, faults
<1>15. ASSUME NEW w \in Workers, FailEarly(w) PROVE TypeOK'
  BY <1>15 DEF FailEarly, Dispose, Goto, At, Labels, Fates, redis, db, web, faults
<1>16. ASSUME NEW w \in Workers, PoisonCrash(w) PROVE TypeOK'
  BY <1>16 DEF PoisonCrash, Die, Goto, At, Labels, Fates, redis, db, web, faults
<1>17. ASSUME NEW w \in Workers, Lrem(w) PROVE TypeOK'
  BY <1>17, RemoveFirstType DEF Lrem, Goto, At, Labels, db, web, faults
<1>18. ASSUME NEW w \in Workers, Hdel(w) PROVE TypeOK'
  <2>1. job[w] \in Payload /\ job[w].msg \in Messages
    BY <1>18, PayloadFields DEF Hdel, At
  <2>2. /\ started' \in [Messages -> 0..StaleAfter \cup {None}]
        /\ expired' \in [Workers -> SUBSET Messages]
    BY <1>18, <2>1 DEF Hdel, Restamp
  <2>3. CASE fate[w] = "ack"
    <3>1. /\ pc' = [pc EXCEPT ![w] = "top"] /\ job' = [job EXCEPT ![w] = None]
          /\ fate' = [fate EXCEPT ![w] = None]
      BY <1>18, <2>3 DEF Hdel, Return, Goto
    <3>2. UNCHANGED <<queue, processing, dead, scan, stored, answered, dedup, hook, pushing,
                      crashes, exposed>>
      BY <1>18 DEF Hdel, db, web, faults
    <3> QED
      BY <2>2, <3>1, <3>2 DEF Labels, Fates
  <2>4. CASE fate[w] # "ack"
    <3>1. pc' = [pc EXCEPT ![w] = "push"] /\ pc[w] = "hdel" /\ job' = job /\ fate' = fate
      BY <1>18, <2>4 DEF Hdel, Goto, At
    <3>2. UNCHANGED <<queue, processing, dead, scan, stored, answered, dedup, hook, pushing,
                      crashes, exposed>>
      BY <1>18 DEF Hdel, db, web, faults
    <3> QED
      BY <2>2, <3>1, <3>2 DEF Labels, Fates
  <2> QED
    BY <2>3, <2>4
<1>19. ASSUME NEW w \in Workers, Requeue(w) PROVE TypeOK'
  <2>1. PICK t \in RecoveredAt :
          queue' = Append(queue, Recovered(job[w], t))
    BY <1>19 DEF Requeue
  <2>2. Recovered(job[w], t) \in Payload
    <3>1. job[w] \in Payload /\ job[w].attempts < MaxRecoveryAttempts
      BY <1>19 DEF Requeue, At
    <3> QED
      BY <3>1, RequeuedType
  <2> QED
    BY <1>19, <2>1, <2>2 DEF Requeue, Return, Goto, At, Labels, Fates, db, web, faults
<1>20. ASSUME NEW w \in Workers, DeadLetter(w) PROVE TypeOK'
  <2>1. job[w] \in Payload /\ job[w].msg \in Messages
    BY <1>20, PayloadFields DEF DeadLetter, At
  <2> QED
    BY <1>20, <2>1 DEF DeadLetter, Return, Goto, At, Labels, Fates, db, web, faults
<1>21. ASSUME NEW w \in Workers, Crash(w) PROVE TypeOK'
  <2>1. InHand(w) => job[w].msg \in Messages
    BY PayloadFields DEF InHand
  <2> QED
    BY <1>21, <2>1 DEF Crash, Die, Goto, Labels, Fates, redis, db, web
<1>22. ASSUME NEW w \in Workers, Restart(w) PROVE TypeOK'
  BY <1>22 DEF Restart, Goto, At, Labels, redis, db, web, faults
<1>23. CASE Tick
  BY <1>23 DEF Tick, db, web, worker, faults
<1>24. CASE UNCHANGED vars
  BY <1>24 DEF vars, redis, db, web, worker, faults
<1> QED
  BY <1>1, <1>2, <1>3, <1>4, <1>5, <1>6, <1>7, <1>8, <1>9, <1>10, <1>11, <1>12, <1>13, <1>14,
     <1>15, <1>16, <1>17, <1>18, <1>19, <1>20, <1>21, <1>22, <1>23, <1>24
  DEF Next, HookStep, WorkerStep, Recover, Poll, Process, Finish

\* Every variable keeps its type; in particular no payload exceeds the
\* maximum number of recovery attempts.
THEOREM TypeCorrect == Spec => []TypeOK
BY TypeInit, TypeStep, PTL DEF Spec

-----------------------------------------------------------------------------
(* What the list operations do to the messages in a list. *)

LEMMA InAppend ==
  ASSUME NEW S, NEW s \in Seq(S), NEW e \in S, NEW m
  PROVE  In(m, Append(s, e)) <=> In(m, s) \/ e.msg = m
BY DEF In

LEMMA InTail ==
  ASSUME NEW S, NEW s \in Seq(S), s # <<>>, NEW m
  PROVE  In(m, s) <=> Head(s).msg = m \/ In(m, Tail(s))
<1>1. In(m, s) => Head(s).msg = m \/ In(m, Tail(s))
  <2> SUFFICES ASSUME NEW i \in 1..Len(s), s[i].msg = m, Head(s).msg # m
               PROVE  In(m, Tail(s))
    BY DEF In
  <2>1. i # 1
    OBVIOUS
  <2>2. i - 1 \in 1..Len(Tail(s)) /\ Tail(s)[i - 1] = s[i]
    BY <2>1
  <2> QED
    BY <2>2 DEF In
<1>2. In(m, Tail(s)) => In(m, s)
  <2> SUFFICES ASSUME NEW i \in 1..Len(Tail(s)), Tail(s)[i].msg = m
               PROVE  In(m, s)
    BY DEF In
  <2>1. i + 1 \in 1..Len(s) /\ s[i + 1] = Tail(s)[i]
    OBVIOUS
  <2> QED
    BY <2>1 DEF In
<1>3. Head(s).msg = m => In(m, s)
  BY DEF In
<1> QED
  BY <1>1, <1>2, <1>3

LEMMA InRemoveFirst ==
  ASSUME NEW S, NEW s \in Seq(S), NEW e, NEW m, e.msg # m
  PROVE  In(m, s) => In(m, RemoveFirst(s, e))
<1> SUFFICES ASSUME NEW i \in 1..Len(s), s[i].msg = m
             PROVE  In(m, RemoveFirst(s, e))
  BY DEF In
<1>1. CASE RemoveFirst(s, e) = s
  BY <1>1 DEF In
<1>2. CASE RemoveFirst(s, e) # s
  <2> DEFINE r == RemoveFirst(s, e)
  <2>1. PICK k \in 1..Len(s) :
          /\ s[k] = e
          /\ Len(r) = Len(s) - 1
          /\ \A j \in 1..(k - 1) : r[j] = s[j]
          /\ \A j \in k..(Len(s) - 1) : r[j] = s[j + 1]
    BY <1>2, RemoveFirstEffect
  <2> HIDE DEF r
  <2>2. i # k
    BY <2>1
  <2>3. CASE i < k
    <3>1. i \in 1..Len(r) /\ r[i].msg = m
      BY <2>1, <2>3
    <3> QED
      BY <3>1 DEF In, r
  <2>4. CASE i > k
    <3>1. i - 1 \in 1..Len(r) /\ i - 1 \in k..(Len(s) - 1) /\ (i - 1) + 1 = i
      BY <2>1, <2>4
    <3>2. r[i - 1].msg = m
      BY <2>1, <3>1
    <3> QED
      BY <3>1, <3>2 DEF In, r
  <2> QED
    BY <2>2, <2>3, <2>4
<1> QED
  BY <1>1, <1>2

-----------------------------------------------------------------------------
(* An accepted message is lost only in the hand of a process that died.    *)
(* The strengthening: what a worker acknowledges is in the database.       *)

AckedIsStored == \A w \in Workers : fate[w] = "ack" => job[w].msg \in stored

LossInv == LostOnlyInHand /\ AckedIsStored

\* A step of a worker that holds nothing takes nothing from the others.
LEMMA HeldKept ==
  ASSUME NEW w \in Workers, ~InHand(w), NEW m,
         \A u \in Workers \ {w} : pc'[u] = pc[u] /\ job'[u] = job[u] /\ fate'[u] = fate[u]
  PROVE  HeldAlone(m) => HeldAlone(m)'
BY DEF HeldAlone, InHand

\* A step of such a worker that leaves the lists, the database and the
\* webhook alone loses nothing.
LEMMA QuietStep ==
  ASSUME NEW w \in Workers, ~InHand(w), NEW m,
         \A u \in Workers \ {w} : pc'[u] = pc[u] /\ job'[u] = job[u] /\ fate'[u] = fate[u],
         UNCHANGED <<queue, processing, dead, stored, hook, pushing>>
  PROVE  AccountedFor(m) => AccountedFor(m)'
<1>1. HeldAlone(m) => HeldAlone(m)'
  BY HeldKept
<1> QED
  BY <1>1 DEF AccountedFor, In, BeingPushed

\* A worker's step touches no other worker's hands.
LEMMA OthersKept ==
  ASSUME TypeOK, NEW w \in Workers, WorkerStep(w) \/ Crash(w) \/ Restart(w),
         NEW u \in Workers \ {w}
  PROVE  pc'[u] = pc[u] /\ job'[u] = job[u] /\ fate'[u] = fate[u]
BY DEF TypeOK, WorkerStep, Recover, Poll, Process, Finish, SkipRecovery, StartRecovery, ScanSkip,
   ScanStale, EndRecovery, Claim, PollTimeout, Stamp, Succeed, FailStored, FailEarly, PoisonCrash,
   Dispose, Die, Lrem, Hdel, Return, Requeue, DeadLetter, Crash, Restart, Goto, Restamp

LEMMA LossInit == Init => LossInv
BY QueueAssumption DEF Init, LossInv, LostOnlyInHand, AckedIsStored, Fates

LEMMA AckedStep == TypeOK /\ TypeOK' /\ AckedIsStored /\ [Next]_vars => AckedIsStored'
<1> SUFFICES ASSUME TypeOK, TypeOK', AckedIsStored, [Next]_vars,
                    NEW u \in Workers, fate'[u] = "ack"
             PROVE  job'[u].msg \in stored'
  BY DEF AckedIsStored
<1>1. stored \subseteq stored'
  BY DEF Next, HookStep, WorkerStep, Recover, Poll, Process, Finish, AcceptNew, SkipDuplicate,
     Enqueue, HookDies, SkipRecovery, StartRecovery, ScanSkip, ScanStale, EndRecovery, Claim,
     PollTimeout, Stamp, Succeed, FailStored, FailEarly, PoisonCrash, Die, Lrem, Hdel, Requeue,
     DeadLetter, Crash, Restart, Tick, vars, db
<1>2. CASE fate[u] = "ack" /\ job'[u] = job[u]
  BY <1>1, <1>2 DEF AckedIsStored
<1>3. CASE Succeed(u)
  BY <1>3 DEF Succeed, Dispose, TypeOK
<1>4. ASSUME NEW w \in Workers, WorkerStep(w) \/ Crash(w) \/ Restart(w), w # u
      PROVE  fate[u] = "ack" /\ job'[u] = job[u]
  BY <1>4, OthersKept
<1>5. ASSUME WorkerStep(u) \/ Crash(u) \/ Restart(u)
      PROVE  (fate[u] = "ack" /\ job'[u] = job[u]) \/ Succeed(u)
  <2>1. CASE Recover(u)
    BY <2>1, QueueAssumption DEF Recover, SkipRecovery, StartRecovery, ScanSkip, ScanStale,
       EndRecovery, TypeOK
  <2>2. CASE Poll(u)
    <3>1. fate[u] \notin Fates /\ fate'[u] = fate[u]
      BY <2>2 DEF Poll, Claim, PollTimeout, Stamp, At, TypeOK
    <3> QED
      BY <3>1 DEF Fates
  <2>3. CASE Process(u)
    BY <2>3, QueueAssumption DEF Process, FailStored, FailEarly, PoisonCrash, Dispose, Die, Fates,
       TypeOK
  <2>4. CASE Finish(u)
    BY <2>4, QueueAssumption DEF Finish, Lrem, Hdel, Requeue, DeadLetter, Return, Fates, TypeOK
  <2>5. CASE Crash(u) \/ Restart(u)
    BY <2>5, QueueAssumption DEF Crash, Die, Restart, Fates, TypeOK
  <2> QED
    BY <1>5, <2>1, <2>2, <2>3, <2>4, <2>5 DEF WorkerStep
<1>6. ASSUME (\E d \in Deliveries : HookStep(d) \/ HookDies(d)) \/ Tick \/ UNCHANGED vars
      PROVE  fate[u] = "ack" /\ job'[u] = job[u]
  BY <1>6 DEF HookStep, AcceptNew, SkipDuplicate, Enqueue, HookDies, Tick, vars, worker
<1> QED
  BY <1>2, <1>3, <1>4, <1>5, <1>6 DEF Next

LEMMA LossStep == TypeOK /\ TypeOK' /\ LossInv /\ [Next]_vars => LostOnlyInHand'
<1> SUFFICES ASSUME TypeOK, TypeOK', LossInv, [Next]_vars, NEW m \in dedup'
             PROVE  AccountedFor(m)' \/ m \in exposed'
  BY DEF LostOnlyInHand
<1>0. m \in dedup => AccountedFor(m) \/ m \in exposed
  BY DEF LossInv, LostOnlyInHand
<1>1. ASSUME NEW d \in Deliveries, AcceptNew(d) PROVE AccountedFor(m)' \/ m \in exposed'
  <2>1. CASE m \in dedup
    <3>1. BeingPushed(m) => BeingPushed(m)'
      BY <1>1 DEF AcceptNew, BeingPushed
    <3> QED
      BY <1>0, <1>1, <2>1, <3>1 DEF AcceptNew, AccountedFor, In, HeldAlone, InHand, redis, db,
         worker, faults
  <2>2. CASE m \notin dedup
    <3>1. Head(hook[d]) = m /\ d \in pushing' /\ hook' = hook
      BY <1>1, <2>2 DEF AcceptNew
    <3> QED
      BY <3>1 DEF AccountedFor, BeingPushed
  <2> QED
    BY <2>1, <2>2
<1>2. ASSUME NEW d \in Deliveries, SkipDuplicate(d) PROVE AccountedFor(m)' \/ m \in exposed'
  <2>1. BeingPushed(m) => BeingPushed(m)'
    BY <1>2 DEF SkipDuplicate, BeingPushed, TypeOK
  <2> QED
    BY <1>0, <1>2, <2>1 DEF SkipDuplicate, AccountedFor, In, HeldAlone, InHand, redis, db, worker,
       faults
<1>3. ASSUME NEW d \in Deliveries, Enqueue(d) PROVE AccountedFor(m)' \/ m \in exposed'
  <2>1. /\ Fresh(Head(hook[d])) \in Payload /\ Fresh(Head(hook[d])).msg = Head(hook[d])
        /\ queue' = Append(queue, Fresh(Head(hook[d])))
    BY <1>3, FreshType DEF Enqueue, TypeOK
  <2>2. In(m, queue') <=> In(m, queue) \/ Head(hook[d]) = m
    BY <2>1, InAppend, SMTT(30) DEF TypeOK
  <2>3. BeingPushed(m) => BeingPushed(m)' \/ Head(hook[d]) = m
    BY <1>3 DEF Enqueue, BeingPushed, TypeOK
  <2>4. In(m, processing)' <=> In(m, processing)
    BY <1>3 DEF Enqueue, In
  <2> QED
    BY <1>0, <1>3, <2>2, <2>3, <2>4 DEF Enqueue, AccountedFor, HeldAlone, InHand, db, worker, faults
<1>4. ASSUME NEW d \in Deliveries, HookDies(d) PROVE AccountedFor(m)' \/ m \in exposed'
  <2>1. BeingPushed(m) => BeingPushed(m)' \/ m \in exposed'
    BY <1>4 DEF HookDies, BeingPushed, TypeOK
  <2>2. exposed \subseteq exposed'
    BY <1>4 DEF HookDies
  <2> QED
    BY <1>0, <1>4, <2>1, <2>2 DEF HookDies, AccountedFor, In, HeldAlone, InHand, redis, db, worker
<1>5. ASSUME NEW w \in Workers, Recover(w) \/ PollTimeout(w) \/ Stamp(w) \/ FailEarly(w)
                                  \/ PoisonCrash(w) \/ Restart(w)
      PROVE  AccountedFor(m)' \/ m \in exposed'
  <2>1. ~InHand(w)
    BY <1>5 DEF Recover, SkipRecovery, StartRecovery, ScanSkip, ScanStale, EndRecovery,
       PollTimeout, Stamp, FailEarly, PoisonCrash, Restart, At, InHand
  <2>2. UNCHANGED <<queue, processing, dead, stored, hook, pushing, dedup, exposed>>
    BY <1>5 DEF Recover, SkipRecovery, StartRecovery, ScanSkip, ScanStale, EndRecovery,
       PollTimeout, Stamp, FailEarly, PoisonCrash, Restart, Dispose, Die, redis, db, web, faults
  <2>3. \A u \in Workers \ {w} : pc'[u] = pc[u] /\ job'[u] = job[u] /\ fate'[u] = fate[u]
    BY <1>5, OthersKept DEF WorkerStep, Poll, Process
  <2> QED
    BY <1>0, <2>1, <2>2, <2>3, QuietStep
<1>6. ASSUME NEW w \in Workers, Claim(w) PROVE AccountedFor(m)' \/ m \in exposed'
  <2>1. /\ queue # <<>> /\ Head(queue) \in Payload
        /\ queue' = Tail(queue) /\ processing' = Append(processing, Head(queue))
    BY <1>6 DEF Claim, TypeOK
  <2>2. In(m, queue) \/ In(m, processing) => In(m, queue') \/ In(m, processing')
    BY <2>1, InTail, InAppend DEF TypeOK
  <2>3. HeldAlone(m) => HeldAlone(m)'
    <3>1. ~InHand(w)
      BY <1>6 DEF Claim, At, InHand
    <3>2. \A u \in Workers \ {w} : pc'[u] = pc[u] /\ job'[u] = job[u] /\ fate'[u] = fate[u]
      BY <1>6, OthersKept DEF WorkerStep, Poll
    <3> QED
      BY <3>1, <3>2, HeldKept
  <2>4. In(m, queue') = In(m, queue)' /\ In(m, processing') = In(m, processing)'
    BY DEF In
  <2> QED
    BY <1>0, <1>6, <2>2, <2>3, <2>4 DEF Claim, AccountedFor, BeingPushed, db, web, faults
<1>7. ASSUME NEW w \in Workers, Succeed(w) \/ FailStored(w)
      PROVE  AccountedFor(m)' \/ m \in exposed'
  <2>1. ~InHand(w)
    BY <1>7 DEF Succeed, FailStored, At, InHand
  <2>2. \A u \in Workers \ {w} : pc'[u] = pc[u] /\ job'[u] = job[u] /\ fate'[u] = fate[u]
    BY <1>7, OthersKept DEF WorkerStep, Process
  <2>3. HeldAlone(m) => HeldAlone(m)'
    BY <2>1, <2>2, HeldKept
  <2> QED
    BY <1>0, <1>7, <2>3 DEF Succeed, FailStored, Dispose, AccountedFor, In, BeingPushed, redis,
       web, faults
<1>8. ASSUME NEW w \in Workers, Lrem(w) PROVE AccountedFor(m)' \/ m \in exposed'
  <2>1. ~InHand(w) /\ fate[w] \in Fates /\ fate'[w] = fate[w] /\ job'[w] = job[w]
        /\ pc'[w] = "hdel"
    BY <1>8 DEF Lrem, At, Goto, InHand, TypeOK
  <2>2. \A u \in Workers \ {w} : pc'[u] = pc[u] /\ job'[u] = job[u] /\ fate'[u] = fate[u]
    BY <1>8, OthersKept DEF WorkerStep, Finish
  <2>3. HeldAlone(m) => HeldAlone(m)'
    BY <2>1, <2>2, HeldKept
  <2>4. CASE job[w].msg # m
    <3>1. In(m, processing) => In(m, processing')
      BY <1>8, <2>4, InRemoveFirst DEF Lrem, TypeOK
    <3>2. In(m, processing') = In(m, processing)' /\ In(m, queue)' = In(m, queue)
      BY <1>8 DEF In, Lrem
    <3> QED
      BY <1>0, <1>8, <2>3, <3>1, <3>2 DEF Lrem, AccountedFor, BeingPushed, db, web, faults
  <2>5. CASE job[w].msg = m /\ fate[w] = "ack"
    BY <1>8, <2>5 DEF Lrem, LossInv, AckedIsStored, AccountedFor, db
  <2>6. CASE job[w].msg = m /\ fate[w] # "ack"
    BY <2>1, <2>6 DEF HeldAlone, InHand, AccountedFor
  <2> QED
    BY <2>4, <2>5, <2>6
<1>9. ASSUME NEW w \in Workers, Hdel(w) PROVE AccountedFor(m)' \/ m \in exposed'
  <2>1. \A u \in Workers \ {w} : pc'[u] = pc[u] /\ job'[u] = job[u] /\ fate'[u] = fate[u]
    BY <1>9, OthersKept DEF WorkerStep, Finish
  <2>2. HeldAlone(m) => HeldAlone(m)'
    <3>1. CASE fate[w] = "ack"
      BY <2>1, <3>1, HeldKept DEF InHand
    <3>2. CASE fate[w] # "ack"
      <4>1. pc'[w] = "push" /\ job'[w] = job[w] /\ fate'[w] = fate[w]
        BY <1>9, <3>2 DEF Hdel, Goto, TypeOK
      <4> QED
        BY <2>1, <4>1 DEF HeldAlone, InHand
    <3> QED
      BY <3>1, <3>2
  <2> QED
    BY <1>0, <1>9, <2>2 DEF Hdel, AccountedFor, In, BeingPushed, db, web, faults
<1>10. ASSUME NEW w \in Workers, Requeue(w) \/ DeadLetter(w) PROVE AccountedFor(m)' \/ m \in exposed'
  <2>1. \A u \in Workers \ {w} : pc'[u] = pc[u] /\ job'[u] = job[u] /\ fate'[u] = fate[u]
    BY <1>10, OthersKept DEF WorkerStep, Finish
  <2>2. job[w] \in Payload
    BY <1>10 DEF Requeue, DeadLetter, At, TypeOK
  <2>3. HeldAlone(m) => HeldAlone(m)' \/ job[w].msg = m
    BY <2>1 DEF HeldAlone, InHand
  <2>4. UNCHANGED <<processing, stored, hook, pushing, dedup, exposed>>
    BY <1>10 DEF Requeue, DeadLetter, db, web, faults
  <2>5. CASE Requeue(w)
    <3>1. PICK t \in RecoveredAt : queue' = Append(queue, Recovered(job[w], t))
      BY <2>5 DEF Requeue
    <3>2. Recovered(job[w], t) \in Payload /\ Recovered(job[w], t).msg = job[w].msg
      BY <2>2, <2>5, RequeuedType DEF Requeue, TypeOK
    <3>3. In(m, queue') <=> In(m, queue) \/ job[w].msg = m
      BY <3>1, <3>2, InAppend DEF TypeOK
    <3>4. In(m, queue') = In(m, queue)' /\ In(m, processing)' = In(m, processing) /\ dead' = dead
      BY <2>4, <2>5 DEF In, Requeue
    <3> QED
      BY <1>0, <2>3, <2>4, <3>3, <3>4 DEF AccountedFor, BeingPushed
  <2>6. CASE DeadLetter(w)
    <3>1. job[w].msg \in Messages
      BY <2>2, PayloadFields
    <3>2. dead[m] > 0 \/ job[w].msg = m => dead'[m] > 0
      BY <2>6, <3>1 DEF DeadLetter, TypeOK
    <3>3. queue' = queue
      BY <2>6 DEF DeadLetter
    <3> QED
      BY <1>0, <2>3, <2>4, <3>2, <3>3 DEF AccountedFor, In, BeingPushed
  <2> QED
    BY <1>10, <2>5, <2>6
<1>11. ASSUME NEW w \in Workers, Crash(w) PROVE AccountedFor(m)' \/ m \in exposed'
  <2>1. \A u \in Workers \ {w} : pc'[u] = pc[u] /\ job'[u] = job[u] /\ fate'[u] = fate[u]
    BY <1>11, OthersKept
  <2>2. HeldAlone(m) => HeldAlone(m)' \/ m \in exposed'
    BY <1>11, <2>1 DEF Crash, HeldAlone, InHand
  <2>3. exposed \subseteq exposed'
    BY <1>11 DEF Crash
  <2> QED
    BY <1>0, <1>11, <2>2, <2>3 DEF Crash, Die, AccountedFor, In, BeingPushed, redis, db, web
<1>12. CASE Tick \/ UNCHANGED vars
  BY <1>0, <1>12 DEF Tick, vars, AccountedFor, In, BeingPushed, HeldAlone, InHand, redis, db, web,
     worker, faults
<1> QED
  BY <1>1, <1>2, <1>3, <1>4, <1>5, <1>6, <1>7, <1>8, <1>9, <1>10, <1>11, <1>12
  DEF Next, HookStep, WorkerStep, Poll, Process, Finish

\* For any number of workers: an accepted message is in a list, in the
\* database, in the dead-letter list or in a live process's hand, unless a
\* process died while it held the only copy.
THEOREM LossOnlyInHand == Spec => []LostOnlyInHand
<1>1. Init => TypeOK /\ LossInv
  BY TypeInit, LossInit
<1>2. TypeOK /\ LossInv /\ [Next]_vars => TypeOK' /\ LossInv'
  BY TypeStep, LossStep, AckedStep DEF LossInv
<1>3. LossInv => LostOnlyInHand
  BY DEF LossInv
<1> QED
  BY <1>1, <1>2, <1>3, PTL DEF Spec
-----------------------------------------------------------------------------
(* What the queue takes for granted of the database.                       *)

Database == INSTANCE Processing WITH recorded <- stored, settled <- answered

\* A step that is not the end of an orchestration leaves the database alone.
LEMMA OnlyProcessingStores ==
  ASSUME [Next]_vars, \A w \in Workers : ~Succeed(w) /\ ~FailStored(w)
  PROVE  UNCHANGED <<stored, answered>>
<1>1. ASSUME NEW d \in Deliveries, HookStep(d) \/ HookDies(d)
      PROVE  UNCHANGED <<stored, answered>>
  BY <1>1 DEF HookStep, HookDies, AcceptNew, SkipDuplicate, Enqueue, db
<1>2. ASSUME NEW w \in Workers, Recover(w) \/ Poll(w) \/ Finish(w)
      PROVE  UNCHANGED <<stored, answered>>
  BY <1>2 DEF Recover, SkipRecovery, StartRecovery, ScanSkip, ScanStale, EndRecovery,
     Poll, Claim, PollTimeout, Stamp, Finish, Lrem, Hdel, Requeue, DeadLetter, db
<1>3. ASSUME NEW w \in Workers, FailEarly(w) \/ PoisonCrash(w) \/ Crash(w) \/ Restart(w)
      PROVE  UNCHANGED <<stored, answered>>
  BY <1>3 DEF FailEarly, PoisonCrash, Crash, Restart, Die, db
<1>4. CASE Tick \/ UNCHANGED vars
  BY <1>4 DEF Tick, vars, db
<1> QED
  BY <1>1, <1>2, <1>3, <1>4 DEF Next, WorkerStep, Process

\* The queue asks no more of the database than Processing promises, for any
\* number of workers, recoveries and crashes: a payload processed again records
\* nothing again. ConversationProofs shows that the orchestrator's transactions
\* keep that promise, so the two modules fit together.
THEOREM UsesThePromise == Spec => Database!Spec
<1>1. Init => Database!Init
  BY DEF Init, Database!Init
<1>2. TypeOK /\ [Next]_vars => [Database!Next]_<<stored, answered>>
  <2> SUFFICES ASSUME TypeOK, [Next]_vars
               PROVE  Database!Next \/ UNCHANGED <<stored, answered>>
    OBVIOUS
  <2>1. CASE \A w \in Workers : ~Succeed(w) /\ ~FailStored(w)
    BY <2>1, OnlyProcessingStores
  <2>2. ASSUME NEW w \in Workers, Succeed(w) \/ FailStored(w)
        PROVE  Database!Next
    <3>1. job[w].msg \in Messages
      BY <2>2, PayloadFields DEF Succeed, FailStored, At, TypeOK
    <3>2. /\ job[w].msg \notin stored /\ stored' = stored \cup {job[w].msg}
          /\ answered' \in {answered, answered \cup {job[w].msg}}
      BY <2>2 DEF Succeed, FailStored
    <3> QED
      BY <3>1, <3>2 DEF Database!Next, Database!Record
  <2> QED
    BY <2>1, <2>2
<1> QED
  BY <1>1, <1>2, TypeCorrect, PTL DEF Spec, Database!Spec
=============================================================================

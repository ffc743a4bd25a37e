---------------------------- MODULE OneWorkerProofs ----------------------------
(***************************************************************************)
(* What MessageQueue promises with one worker process, which is what the   *)
(* deployment runs: a message is never in two places, what is being        *)
(* processed can be recovered, and each message gets one outcome, for good *)
(* -- for any messages, webhook calls and crashes.                         *)
(***************************************************************************)
EXTENDS MessageQueueProofs

\* The configuration of the theorems.
OneWorker == \A v, w \in Workers : v = w

\* No two entries of a list are of one message.
Distinct(list) == \A i, j \in 1..Len(list) : list[i].msg = list[j].msg => i = j

-----------------------------------------------------------------------------
(* Lists without two entries of one message.                               *)

LEMMA ContainsIn ==
  ASSUME NEW list, NEW p, Contains(list, p)
  PROVE  In(p.msg, list)
BY DEF Contains, In

LEMMA AppendOne ==
  ASSUME NEW S, NEW s \in Seq(S), NEW e \in S, Distinct(s), ~In(e.msg, s)
  PROVE  /\ Distinct(Append(s, e)) /\ Contains(Append(s, e), e)
BY DEF Distinct, Contains, In

LEMMA TailOne ==
  ASSUME NEW S, NEW s \in Seq(S), s # <<>>, Distinct(s)
  PROVE  /\ Distinct(Tail(s)) /\ ~In(Head(s).msg, Tail(s))
         /\ \A p : Contains(Tail(s), p) => Contains(s, p)
<1>1. \A i \in 1..Len(Tail(s)) : i + 1 \in 1..Len(s) /\ Tail(s)[i] = s[i + 1] /\ i + 1 # 1
  OBVIOUS
<1>2. 1 \in 1..Len(s) /\ Head(s) = s[1]
  OBVIOUS
<1>3. Len(Tail(s)) \in Nat
  OBVIOUS
<1>4. Distinct(Tail(s))
  <2> SUFFICES ASSUME NEW i \in 1..Len(Tail(s)), NEW j \in 1..Len(Tail(s)),
                      Tail(s)[i].msg = Tail(s)[j].msg
               PROVE  i = j
    BY DEF Distinct
  <2>1. i + 1 = j + 1
    BY <1>1 DEF Distinct
  <2> QED
    BY <2>1, <1>3
<1>5. ~In(Head(s).msg, Tail(s))
  BY <1>1, <1>2 DEF In, Distinct
<1>6. \A p : Contains(Tail(s), p) => Contains(s, p)
  BY <1>1 DEF Contains
<1> QED
  BY <1>4, <1>5, <1>6

\* LREM of an entry takes its message out of the list, and nothing else.
LEMMA RemoveOne ==
  ASSUME NEW S, NEW s \in Seq(S), NEW e, Distinct(s), Contains(s, e)
  PROVE  /\ Distinct(RemoveFirst(s, e)) /\ ~In(e.msg, RemoveFirst(s, e))
         /\ \A m : In(m, RemoveFirst(s, e)) => In(m, s)
         /\ \A p : Contains(s, p) /\ p.msg # e.msg => Contains(RemoveFirst(s, e), p)
<1> DEFINE r == RemoveFirst(s, e)
<1>1. PICK k \in 1..Len(s) :
        /\ s[k] = e /\ r \in Seq(S)
        /\ Len(r) = Len(s) - 1
        /\ \A j \in 1..(k - 1) : r[j] = s[j]
        /\ \A j \in k..(Len(s) - 1) : r[j] = s[j + 1]
  BY RemoveFirstEffect, SMTT(30) DEF Contains
<1> HIDE DEF r
<1> DEFINE at(i) == IF i < k THEN i ELSE i + 1
<1>2. Len(s) \in Nat /\ Len(r) \in Nat
  BY <1>1
<1>3. ASSUME NEW i \in 1..Len(r)
      PROVE  at(i) \in 1..Len(s) /\ r[i] = s[at(i)] /\ at(i) # k
  <2>1. CASE i < k
    BY <1>1, <1>2, <2>1
  <2>2. CASE ~(i < k)
    <3>1. i \in k..(Len(s) - 1) /\ i + 1 \in 1..Len(s) /\ i + 1 # k
      BY <1>1, <1>2, <2>2
    <3> QED
      BY <1>1, <2>2, <3>1
  <2> QED
    BY <2>1, <2>2
<1>4. \A i, j \in 1..Len(r) : at(i) = at(j) => i = j
  BY <1>2
<1>5. ASSUME NEW j \in 1..Len(s), j # k
      PROVE  \E i \in 1..Len(r) : r[i] = s[j]
  <2>1. CASE j < k
    <3>1. j \in 1..Len(r) /\ j \in 1..(k - 1)
      BY <1>1, <1>2, <2>1
    <3> QED
      BY <1>1, <3>1
  <2>2. CASE j > k
    <3>1. j - 1 \in 1..Len(r) /\ j - 1 \in k..(Len(s) - 1) /\ (j - 1) + 1 = j
      BY <1>1, <1>2, <2>2
    <3> QED
      BY <1>1, <3>1
  <2> QED
    BY <1>5, <1>2, <2>1, <2>2
<1> HIDE DEF at
<1>6. Distinct(r)
  BY <1>3, <1>4 DEF Distinct
<1>7. ~In(e.msg, r)
  BY <1>1, <1>3 DEF In, Distinct
<1>8. \A m : In(m, r) => In(m, s)
  BY <1>3 DEF In
<1>9. ASSUME NEW p, Contains(s, p), p.msg # e.msg
      PROVE  Contains(r, p)
  <2>1. PICK j \in 1..Len(s) : s[j] = p
    BY <1>9 DEF Contains
  <2>2. j # k
    BY <1>1, <1>9, <2>1
  <2> QED
    BY <1>5, <2>1, <2>2 DEF Contains
<1> QED
  BY <1>6, <1>7, <1>8, <1>9 DEF r

\* A front part of a list.
LEMMA FrontOne ==
  ASSUME NEW S, NEW s \in Seq(S), NEW n \in 0..Len(s), Distinct(s)
  PROVE  /\ Distinct(SubSeq(s, 1, n))
         /\ \A i \in 1..Len(SubSeq(s, 1, n)) : Contains(s, SubSeq(s, 1, n)[i])
<1>1. Len(SubSeq(s, 1, n)) = n /\ \A i \in 1..n : SubSeq(s, 1, n)[i] = s[i]
  BY SubSeqProperties
<1>2. \A i \in 1..n : i \in 1..Len(s)
  OBVIOUS
<1> QED
  BY <1>1, <1>2 DEF Distinct, Contains

-----------------------------------------------------------------------------
(* The inductive invariant.                                                *)

\* A copy of the message is in a list, in a webhook task or in a hand.
Somewhere(m) == In(m, queue) \/ In(m, processing) \/ BeingPushed(m) \/ HeldAlone(m)

\* ... and in one of them only.
Apart ==
  /\ Distinct(queue) /\ Distinct(processing)
  /\ \A d, e \in pushing : Head(hook[d]) = Head(hook[e]) => d = e
  /\ \A m \in Messages :
       /\ In(m, queue) => ~In(m, processing) /\ ~BeingPushed(m) /\ ~HeldAlone(m)
       /\ In(m, processing) => ~BeingPushed(m) /\ ~HeldAlone(m)
       /\ BeingPushed(m) => ~HeldAlone(m)

\* What the worker has in hand it claimed, and what is left of its scan is on
\* the processing list: nobody else takes entries off it.
WorkOf(w) ==
  /\ pc[w] \in {"stamp", "busy", "lrem"} => Contains(processing, job[w])
  /\ pc[w] = "busy" => started[job[w].msg] # None
  /\ Distinct(scan[w]) /\ \A i \in 1..Len(scan[w]) : Contains(processing, scan[w][i])
  /\ scan[w] # <<>> /\ pc[w] # "scan" => fate[w] \in {"requeue", "retire"}
  /\ fate[w] \in {"requeue", "retire"} => ~In(job[w].msg, scan[w])

InWork == \A w \in Workers : WorkOf(w)

\* Nothing is anywhere, or had an outcome, without having been accepted.
Recorded ==
  \A m \in Messages : Somewhere(m) \/ m \in answered \/ dead[m] > 0 => m \in dedup

\* A rejected message is nowhere else.
Rejected == \A m \in Messages : dead[m] > 0 => ~Somewhere(m)

OneInv == Apart /\ InWork /\ Recorded /\ Rejected

LEMMA OneInit == Init => OneInv
<1> SUFFICES ASSUME Init PROVE OneInv
  OBVIOUS
<1>1. /\ queue = <<>> /\ processing = <<>> /\ pushing = {}
      /\ \A m \in Messages : ~(dead[m] > 0) /\ m \notin answered
      /\ \A w \in Workers : pc[w] = "top" /\ fate[w] = None /\ scan[w] = <<>>
  BY DEF Init
<1>2. \A m : ~Somewhere(m)
  BY <1>1 DEF Somewhere, In, BeingPushed, HeldAlone, InHand
<1>3. Apart
  BY <1>1, <1>2 DEF Apart, Distinct, Somewhere
<1>4. None \notin Fates
  BY QueueAssumption
<1>5. InWork
  BY <1>1, <1>4 DEF InWork, WorkOf, Distinct, Fates
<1> QED
  BY <1>1, <1>2, <1>3, <1>5 DEF OneInv, Recorded, Rejected

\* With one worker, what is held is in its hand.
LEMMA OneHand ==
  ASSUME OneWorker, NEW w \in Workers, NEW m
  PROVE  HeldAlone(m) <=> InHand(w) /\ job[w].msg = m
BY DEF OneWorker, HeldAlone

\* A step that adds nothing to a place keeps the places apart.
LEMMA ApartShrinks ==
  ASSUME Apart, queue' = queue, processing' = processing, pushing' \subseteq pushing,
         \A d \in pushing' : Head(hook'[d]) = Head(hook[d]),
         \A m \in Messages : HeldAlone(m)' => HeldAlone(m)
  PROVE  Apart' /\ \A m \in Messages : Somewhere(m)' => Somewhere(m)
<1>1. \A m : BeingPushed(m)' => BeingPushed(m)
  BY DEF BeingPushed
<1>2. \A m : In(m, queue)' <=> In(m, queue)
  BY DEF In
<1>3. \A m : In(m, processing)' <=> In(m, processing)
  BY DEF In
<1>4. Distinct(queue)' /\ Distinct(processing)'
  BY DEF Apart, Distinct
<1>5. \A d, e \in pushing' : Head(hook'[d]) = Head(hook'[e]) => d = e
  BY DEF Apart
<1>6. ASSUME NEW m \in Messages
      PROVE  /\ In(m, queue)' => ~In(m, processing)' /\ ~BeingPushed(m)' /\ ~HeldAlone(m)'
             /\ In(m, processing)' => ~BeingPushed(m)' /\ ~HeldAlone(m)'
             /\ BeingPushed(m)' => ~HeldAlone(m)'
             /\ Somewhere(m)' => Somewhere(m)
  BY <1>1, <1>2, <1>3 DEF Apart, Somewhere
<1> QED
  BY <1>4, <1>5, <1>6 DEF Apart

\* A message that comes up anywhere was somewhere before, or is accepted now.
Traced(m) == Somewhere(m)' => Somewhere(m) \/ (m \notin dedup /\ m \in dedup')

LEMMA HookApart ==
  ASSUME TypeOK, Apart, Recorded, NEW d \in Deliveries, HookStep(d) \/ HookDies(d)
  PROVE  Apart' /\ \A m \in Messages : Traced(m)
<1>1. \A m : HeldAlone(m)' <=> HeldAlone(m)
  BY DEF HookStep, AcceptNew, SkipDuplicate, Enqueue, HookDies, worker, HeldAlone, InHand
<1>2. CASE SkipDuplicate(d) \/ HookDies(d)
  <2>1. \A e \in pushing' : hook'[e] = hook[e]
    BY <1>2 DEF SkipDuplicate, HookDies, TypeOK
  <2> QED
    BY <1>1, <1>2, <2>1, ApartShrinks DEF SkipDuplicate, HookDies, redis, Traced
<1>3. CASE AcceptNew(d)
  <2> DEFINE a == Head(hook[d])
  <2>1. /\ hook' = hook /\ queue' = queue /\ processing' = processing
        /\ pushing' = pushing \cup {d} /\ a \notin dedup /\ a \in dedup' /\ a \in Messages
    BY <1>3 DEF AcceptNew, redis, TypeOK
  <2>2. ~Somewhere(a)
    BY <2>1 DEF Recorded
  <2>3. \A m : BeingPushed(m)' <=> BeingPushed(m) \/ m = a
    BY <2>1 DEF BeingPushed
  <2>4. \A m : (In(m, queue)' <=> In(m, queue)) /\ (In(m, processing)' <=> In(m, processing))
    BY <2>1 DEF In
  <2>5. \A e \in pushing : Head(hook[e]) # a
    BY <2>2 DEF Somewhere, BeingPushed
  <2>6. \A e1, e2 \in pushing' : Head(hook'[e1]) = Head(hook'[e2]) => e1 = e2
    BY <2>1, <2>5 DEF Apart
  <2>7. Distinct(queue)' /\ Distinct(processing)'
    BY <2>1 DEF Apart, Distinct
  <2>8. ASSUME NEW m \in Messages
        PROVE  /\ In(m, queue)' => ~In(m, processing)' /\ ~BeingPushed(m)' /\ ~HeldAlone(m)'
               /\ In(m, processing)' => ~BeingPushed(m)' /\ ~HeldAlone(m)'
               /\ BeingPushed(m)' => ~HeldAlone(m)'
               /\ Traced(m)
    <3> HIDE DEF a
    <3> QED
      BY <1>1, <2>1, <2>2, <2>3, <2>4 DEF Apart, Somewhere, Traced
  <2> QED
    BY <2>6, <2>7, <2>8 DEF Apart
<1>4. CASE Enqueue(d)
  <2> DEFINE a == Head(hook[d])
  <2>1. /\ queue' = Append(queue, Fresh(a)) /\ processing' = processing
        /\ d \in pushing /\ pushing' = pushing \ {d} /\ a \in Messages
        /\ Fresh(a) \in Payload /\ Fresh(a).msg = a
        /\ \A e \in pushing' : hook'[e] = hook[e]
    BY <1>4, FreshType DEF Enqueue, TypeOK
  <2>2. BeingPushed(a)
    BY <2>1 DEF BeingPushed
  <2>3. \A m : BeingPushed(m)' <=> BeingPushed(m) /\ m # a
    BY <2>1 DEF BeingPushed, Apart
  <2> HIDE DEF a
  <2>4. \A m : In(m, queue)' <=> In(m, queue) \/ m = a
    <3>1. \A m : In(m, queue') <=> In(m, queue) \/ m = a
      BY <2>1, InAppend DEF TypeOK
    <3> QED
      BY <3>1 DEF In
  <2>5. \A m : In(m, processing)' <=> In(m, processing)
    BY <2>1 DEF In
  <2>6. \A e1, e2 \in pushing' : Head(hook'[e1]) = Head(hook'[e2]) => e1 = e2
    BY <2>1 DEF Apart
  <2>7. Distinct(queue)' /\ Distinct(processing)'
    <3>1. ~In(a, queue) /\ Distinct(queue)
      BY <2>1, <2>2 DEF Apart
    <3>2. Distinct(queue')
      BY <2>1, <3>1, AppendOne DEF TypeOK
    <3> QED
      BY <2>1, <3>2 DEF Apart, Distinct
  <2>8. ASSUME NEW m \in Messages
        PROVE  /\ In(m, queue)' => ~In(m, processing)' /\ ~BeingPushed(m)' /\ ~HeldAlone(m)'
               /\ In(m, processing)' => ~BeingPushed(m)' /\ ~HeldAlone(m)'
               /\ BeingPushed(m)' => ~HeldAlone(m)'
               /\ Traced(m)
    BY <1>1, <2>1, <2>2, <2>3, <2>4, <2>5 DEF Apart, Somewhere, Traced
  <2> QED
    BY <2>6, <2>7, <2>8 DEF Apart
<1> QED
  BY <1>2, <1>3, <1>4 DEF HookStep

LEMMA WorkerApart ==
  ASSUME OneWorker, TypeOK, TypeOK', Apart, InWork, NEW w \in Workers,
         WorkerStep(w) \/ Crash(w) \/ Restart(w)
  PROVE  Apart' /\ \A m \in Messages : Traced(m)
<1>1. /\ \A m : HeldAlone(m) <=> InHand(w) /\ job[w].msg = m
      /\ \A m : HeldAlone(m)' <=> InHand(w)' /\ job'[w].msg = m
  BY OneHand DEF HeldAlone, OneWorker
<1>2. ASSUME UNCHANGED <<queue, processing, hook, pushing>>, InHand(w)' => InHand(w) /\ job'[w] = job[w]
      PROVE  Apart' /\ \A m \in Messages : Traced(m)
  BY <1>1, <1>2, ApartShrinks DEF Traced
<1>3. CASE Recover(w) \/ PollTimeout(w) \/ Stamp(w) \/ Process(w) \/ Crash(w) \/ Restart(w)
  <2>1. UNCHANGED <<queue, processing, hook, pushing>>
    BY <1>3 DEF Recover, SkipRecovery, StartRecovery, ScanSkip, ScanStale, EndRecovery,
       PollTimeout, Stamp, Process, Succeed, FailStored, FailEarly, PoisonCrash, Crash, Restart,
       Dispose, Die, redis, db, web, faults
  <2>2. pc'[w] \notin {"hdel", "push"}
    BY <1>3 DEF Recover, SkipRecovery, StartRecovery, ScanSkip, ScanStale, EndRecovery,
       PollTimeout, Stamp, Process, Succeed, FailStored, FailEarly, PoisonCrash, Crash, Restart,
       Dispose, Die, Goto, At, TypeOK
  <2> QED
    BY <1>2, <2>1, <2>2 DEF InHand
<1>4. CASE Hdel(w) \/ DeadLetter(w)
  <2>1. UNCHANGED <<queue, processing, hook, pushing>>
    BY <1>4 DEF Hdel, DeadLetter, db, web, faults
  <2>2. pc[w] \in {"hdel", "push"}
    BY <1>4 DEF Hdel, DeadLetter, At
  <2>3. InHand(w)' => fate'[w] = fate[w] /\ job'[w] = job[w]
    BY <1>4, QueueAssumption DEF Hdel, DeadLetter, Return, Goto, InHand, TypeOK
  <2> QED
    BY <1>2, <2>1, <2>2, <2>3 DEF InHand
<1>5. CASE Claim(w)
  <2> DEFINE a == Head(queue)
  <2>1. /\ a \in Payload /\ a.msg \in Messages /\ queue # <<>>
        /\ queue' = Tail(queue) /\ processing' = Append(processing, a)
        /\ hook' = hook /\ pushing' = pushing
    BY <1>5, PayloadFields DEF Claim, web, TypeOK
  <2>2. ~InHand(w) /\ ~InHand(w)'
    BY <1>5 DEF Claim, Goto, At, InHand, TypeOK
  <2>3. \A m : In(m, queue) <=> a.msg = m \/ In(m, queue')
    BY <2>1, InTail DEF TypeOK
  <2>4. Distinct(queue') /\ ~In(a.msg, queue')
    BY <2>1, TailOne DEF TypeOK, Apart
  <2> HIDE DEF a
  <2>5. \A m : In(m, processing') <=> In(m, processing) \/ a.msg = m
    BY <2>1, InAppend DEF TypeOK
  <2>6. Distinct(processing')
    <3>1. ~In(a.msg, processing) /\ Distinct(processing)
      BY <2>1, <2>3 DEF Apart
    <3> QED
      BY <2>1, <3>1, AppendOne DEF TypeOK
  <2>7. \A m : BeingPushed(m)' <=> BeingPushed(m)
    BY <2>1 DEF BeingPushed
  <2>8. ASSUME NEW m \in Messages
        PROVE  /\ In(m, queue') => ~In(m, processing') /\ ~BeingPushed(m)' /\ ~HeldAlone(m)'
               /\ In(m, processing') => ~BeingPushed(m)' /\ ~HeldAlone(m)'
               /\ BeingPushed(m)' => ~HeldAlone(m)'
               /\ In(m, queue') \/ In(m, processing') \/ BeingPushed(m)' \/ HeldAlone(m)' => Somewhere(m)
    BY <1>1, <2>2, <2>3, <2>4, <2>5, <2>7 DEF Apart, Somewhere
  <2>9. \A m : In(m, queue') = In(m, queue)' /\ In(m, processing') = In(m, processing)'
    BY DEF In
  <2> QED
    BY <2>1, <2>4, <2>6, <2>8, <2>9 DEF Apart, Distinct, Somewhere, Traced
<1>6. CASE Lrem(w)
  <2>1. /\ processing' = RemoveFirst(processing, job[w]) /\ UNCHANGED <<queue, hook, pushing>>
        /\ job' = job /\ fate' = fate /\ pc[w] = "lrem" /\ job[w] \in Payload
        /\ job[w].msg \in Messages
    BY <1>6, PayloadFields DEF Lrem, At, web, TypeOK
  <2>2. Contains(processing, job[w]) /\ In(job[w].msg, processing)
    BY <2>1, ContainsIn DEF InWork, WorkOf
  <2>3. /\ Distinct(processing') /\ ~In(job[w].msg, processing')
        /\ \A m : In(m, processing') => In(m, processing)
    BY <2>1, <2>2, RemoveOne DEF Apart, TypeOK
  <2>4. \A m : (In(m, queue)' <=> In(m, queue)) /\ (BeingPushed(m)' <=> BeingPushed(m))
    BY <2>1 DEF In, BeingPushed
  <2>5. \A m : HeldAlone(m)' => job[w].msg = m
    BY <1>1, <2>1
  <2>6. ~InHand(w)
    BY <2>1 DEF InHand
  <2>7. ASSUME NEW m \in Messages
        PROVE  /\ In(m, queue)' => ~In(m, processing') /\ ~BeingPushed(m)' /\ ~HeldAlone(m)'
               /\ In(m, processing') => ~BeingPushed(m)' /\ ~HeldAlone(m)'
               /\ BeingPushed(m)' => ~HeldAlone(m)'
               /\ In(m, queue)' \/ In(m, processing') \/ BeingPushed(m)' \/ HeldAlone(m)' => Somewhere(m)
    BY <2>2, <2>3, <2>4, <2>5 DEF Apart, Somewhere
  <2>8. \A m : In(m, processing') = In(m, processing)'
    BY DEF In
  <2> QED
    BY <2>1, <2>3, <2>7, <2>8 DEF Apart, Distinct, Somewhere, Traced
<1>7. CASE Requeue(w)
  <2> DEFINE a == job[w].msg
  <2>1. PICK t \in RecoveredAt : queue' = Append(queue, Recovered(job[w], t))
    BY <1>7 DEF Requeue
  <2>2. job[w] \in Payload /\ a \in Messages /\ InHand(w)
    BY <1>7, PayloadFields DEF Requeue, At, InHand, TypeOK
  <2>3. Recovered(job[w], t) \in Payload /\ Recovered(job[w], t).msg = a
    BY <1>7, <2>2, RequeuedType DEF Requeue, TypeOK
  <2>4. processing' = processing /\ hook' = hook /\ pushing' = pushing /\ ~InHand(w)'
    BY <1>7 DEF Requeue, Return, Goto, web, InHand, TypeOK
  <2>5. HeldAlone(a) /\ \A m : ~HeldAlone(m)'
    BY <1>1, <2>2, <2>4
  <2> HIDE DEF a
  <2>6. \A m : In(m, queue') <=> In(m, queue) \/ a = m
    BY <2>1, <2>3, InAppend DEF TypeOK
  <2>7. Distinct(queue')
    <3>1. ~In(a, queue) /\ Distinct(queue)
      BY <2>2, <2>5 DEF Apart
    <3> QED
      BY <2>1, <2>3, <3>1, AppendOne DEF TypeOK
  <2>8. \A m : (In(m, processing)' <=> In(m, processing)) /\ (BeingPushed(m)' <=> BeingPushed(m))
    BY <2>4 DEF In, BeingPushed
  <2>9. ASSUME NEW m \in Messages
        PROVE  /\ In(m, queue') => ~In(m, processing)' /\ ~BeingPushed(m)' /\ ~HeldAlone(m)'
               /\ In(m, processing)' => ~BeingPushed(m)' /\ ~HeldAlone(m)'
               /\ BeingPushed(m)' => ~HeldAlone(m)'
               /\ In(m, queue') \/ In(m, processing)' \/ BeingPushed(m)' \/ HeldAlone(m)' => Somewhere(m)
    BY <2>2, <2>5, <2>6, <2>8 DEF Apart, Somewhere
  <2>10. \A m : In(m, queue') = In(m, queue)'
    BY DEF In
  <2> QED
    BY <2>4, <2>7, <2>9, <2>10 DEF Apart, Distinct, Somewhere, Traced
<1> QED
  BY <1>3, <1>4, <1>5, <1>6, <1>7 DEF WorkerStep, Poll, Finish

LEMMA ApartStep ==
  ASSUME OneWorker, TypeOK, TypeOK', OneInv, [Next]_vars
  PROVE  Apart' /\ \A m \in Messages : Traced(m)
<1>1. CASE Tick \/ UNCHANGED vars
  <2>1. UNCHANGED <<queue, processing, hook, pushing, pc, job, fate>>
    BY <1>1 DEF Tick, vars, redis, web, worker
  <2>2. \A m \in Messages : HeldAlone(m)' => HeldAlone(m)
    BY <2>1 DEF HeldAlone, InHand
  <2> QED
    BY <2>1, <2>2, ApartShrinks DEF OneInv, Traced
<1> QED
  BY <1>1, HookApart, WorkerApart DEF Next, OneInv

\* The worker's own steps keep what it has in hand recoverable.
LEMMA WorkKept ==
  ASSUME OneWorker, TypeOK, TypeOK', Apart, InWork, NEW w \in Workers,
         WorkerStep(w) \/ Crash(w) \/ Restart(w)
  PROVE  WorkOf(w)'
<1> USE DEF TypeOK
<1>0. WorkOf(w) /\ (pc[w] \in {"lrem", "hdel", "push"} <=> fate[w] \in Fates)
  BY DEF InWork
<1>1. CASE SkipRecovery(w) \/ PollTimeout(w) \/ EndRecovery(w) \/ Restart(w)
  BY <1>0, <1>1 DEF SkipRecovery, PollTimeout, EndRecovery, Restart, Goto, At, redis, WorkOf,
     Fates, Distinct
<1>2. CASE StartRecovery(w)
  <2> DEFINE n == Min({ScanLimit, Len(processing)})
             front == SubSeq(processing, 1, n)
  <2>1. n \in 0..Len(processing)
    <3>1. {ScanLimit, Len(processing)} \in SUBSET Nat /\ {ScanLimit, Len(processing)} # {}
      BY QueueAssumption
    <3>2. n \in {ScanLimit, Len(processing)} /\ \A y \in {ScanLimit, Len(processing)} : n <= y
      BY <3>1, NatSetHasMin
    <3> QED
      BY <3>1, <3>2
  <2> HIDE DEF n
  <2>2. Distinct(front) /\ \A i \in 1..Len(front) : Contains(processing, front[i])
    BY <2>1, FrontOne DEF Apart
  <2>3. /\ scan'[w] = front /\ pc'[w] = "scan" /\ fate'[w] = fate[w] /\ processing' = processing
        /\ fate[w] \notin Fates
    BY <1>0, <1>2 DEF StartRecovery, Goto, At, redis, n
  <2> HIDE DEF front
  <2> QED
    BY <2>2, <2>3 DEF WorkOf, Fates
<1>3. CASE ScanSkip(w)
  <2>1. /\ scan'[w] = Tail(scan[w]) /\ scan[w] # <<>> /\ pc'[w] = "scan" /\ fate'[w] = fate[w]
        /\ processing' = processing /\ fate[w] \notin Fates
    BY <1>0, <1>3 DEF ScanSkip, At, redis
  <2>2. Distinct(Tail(scan[w])) /\ \A p : Contains(Tail(scan[w]), p) => Contains(scan[w], p)
    BY <1>0, <2>1, TailOne DEF WorkOf
  <2>3. \A i \in 1..Len(scan'[w]) : Contains(processing', scan'[w][i])
    BY <1>0, <2>1, <2>2 DEF WorkOf, Contains
  <2> QED
    BY <2>1, <2>2, <2>3 DEF WorkOf, Fates
<1>4. CASE ScanStale(w)
  <2>1. /\ scan'[w] = Tail(scan[w]) /\ scan[w] # <<>> /\ pc'[w] = "lrem"
        /\ job'[w] = Head(scan[w]) /\ fate'[w] \in {"requeue", "retire"}
        /\ processing' = processing
    BY <1>4 DEF ScanStale, Goto, At, redis
  <2>2. /\ Distinct(Tail(scan[w])) /\ ~In(Head(scan[w]).msg, Tail(scan[w]))
        /\ \A p : Contains(Tail(scan[w]), p) => Contains(scan[w], p)
    BY <1>0, <2>1, TailOne DEF WorkOf
  <2>3. \A i \in 1..Len(scan'[w]) : Contains(processing', scan'[w][i])
    BY <1>0, <2>1, <2>2 DEF WorkOf, Contains
  <2>4. Contains(processing, Head(scan[w]))
    <3>1. 1 \in 1..Len(scan[w]) /\ Head(scan[w]) = scan[w][1]
      BY <2>1
    <3> QED
      BY <1>0, <3>1 DEF WorkOf
  <2> QED
    BY <2>1, <2>2, <2>3, <2>4 DEF WorkOf
<1>5. CASE Claim(w)
  <2>1. /\ scan'[w] = <<>> /\ pc'[w] = "stamp" /\ job'[w] = Head(queue) /\ fate'[w] = fate[w]
        /\ processing' = Append(processing, Head(queue)) /\ fate[w] \notin Fates
        /\ Head(queue) \in Payload
    BY <1>0, <1>5 DEF Claim, Goto, At, WorkOf, Fates
  <2>2. Contains(processing', job'[w])
    <3>1. /\ Len(processing) + 1 \in 1..Len(processing')
          /\ processing'[Len(processing) + 1] = Head(queue)
      BY <2>1
    <3> QED
      BY <2>1, <3>1 DEF Contains
  <2> QED
    BY <2>1, <2>2 DEF WorkOf, Fates, Distinct
<1>6. CASE Stamp(w)
  <2>1. job[w].msg \in Messages
    BY <1>6, PayloadFields DEF Stamp, At
  <2>2. /\ pc'[w] = "busy" /\ pc[w] = "stamp" /\ processing' = processing /\ started'[job[w].msg] = 0
        /\ job' = job /\ fate' = fate /\ scan' = scan
    BY <1>6, <2>1 DEF Stamp, Restamp, Goto, At
  <2>3. 0 # None
    BY QueueAssumption
  <2> QED
    BY <1>0, <2>2, <2>3 DEF WorkOf, Fates
<1>7. CASE Succeed(w) \/ FailStored(w) \/ FailEarly(w)
  <2>1. /\ pc[w] = "busy" /\ pc'[w] = "lrem" /\ fate'[w] \in {"ack", "dead"}
        /\ UNCHANGED <<processing, job, scan>>
    BY <1>7 DEF Succeed, FailStored, FailEarly, Dispose, Goto, At, redis
  <2> QED
    BY <1>0, <2>1 DEF WorkOf, Fates
<1>8. CASE PoisonCrash(w) \/ Crash(w)
  <2>1. pc'[w] = "down" /\ fate'[w] = None /\ scan'[w] = <<>>
    BY <1>8 DEF PoisonCrash, Crash, Die, Goto
  <2> QED
    BY <2>1, QueueAssumption DEF WorkOf, Fates, Distinct
<1>9. CASE Lrem(w)
  <2>1. /\ pc[w] = "lrem" /\ pc'[w] = "hdel" /\ processing' = RemoveFirst(processing, job[w])
        /\ UNCHANGED <<job, fate, scan>>
    BY <1>9 DEF Lrem, Goto, At
  <2>2. \A p : Contains(processing, p) /\ p.msg # job[w].msg => Contains(processing', p)
    BY <1>0, <2>1, RemoveOne DEF WorkOf, Apart
  <2>3. \A i \in 1..Len(scan[w]) : scan[w][i].msg # job[w].msg
    BY <1>0, <2>1 DEF WorkOf, In
  <2> QED
    BY <1>0, <2>1, <2>2, <2>3 DEF WorkOf
<1>10. CASE Hdel(w)
  <2>1. pc[w] = "hdel" /\ processing' = processing /\ scan' = scan
    BY <1>10 DEF Hdel, At
  <2>2. CASE fate[w] = "ack"
    <3>1. pc'[w] = "top" /\ fate'[w] = None
      BY <1>10, <2>2 DEF Hdel, Return, Goto
    <3>2. scan[w] = <<>>
      BY <1>0, <2>1, <2>2 DEF WorkOf
    <3> QED
      BY <2>1, <3>1, <3>2, QueueAssumption DEF WorkOf, Fates, Distinct
  <2>3. CASE fate[w] # "ack"
    <3>1. pc'[w] = "push" /\ job' = job /\ fate' = fate
      BY <1>10, <2>3 DEF Hdel, Goto
    <3> QED
      BY <1>0, <2>1, <3>1 DEF WorkOf
  <2> QED
    BY <2>2, <2>3
<1>11. CASE Requeue(w) \/ DeadLetter(w)
  <2>1. /\ pc[w] = "push" /\ processing' = processing /\ scan' = scan
        /\ pc'[w] = (IF fate[w] \in {"requeue", "retire"} THEN "scan" ELSE "top")
        /\ fate'[w] = None
    BY <1>11 DEF Requeue, DeadLetter, Return, Goto, At
  <2>2. fate[w] \notin {"requeue", "retire"} => scan[w] = <<>>
    BY <1>0, <2>1 DEF WorkOf
  <2> QED
    BY <1>0, <2>1, <2>2, QueueAssumption DEF WorkOf, Fates
<1> QED
  BY <1>1, <1>2, <1>3, <1>4, <1>5, <1>6, <1>7, <1>8, <1>9, <1>10, <1>11
  DEF WorkerStep, Recover, Poll, Process, Finish

LEMMA InWorkStep ==
  ASSUME OneWorker, TypeOK, TypeOK', OneInv, [Next]_vars
  PROVE  InWork'
<1>1. CASE (\E d \in Deliveries : HookStep(d) \/ HookDies(d)) \/ UNCHANGED vars
  <2>1. UNCHANGED <<pc, job, fate, scan, started, processing>>
    BY <1>1 DEF HookStep, AcceptNew, SkipDuplicate, Enqueue, HookDies, vars, redis, worker
  <2> QED
    BY <2>1 DEF OneInv, InWork, WorkOf
<1>2. CASE Tick
  <2>1. UNCHANGED <<pc, job, fate, scan, processing>>
    BY <1>2 DEF Tick, worker
  <2>2. \A m \in Messages : started[m] # None => started'[m] # None
    BY <1>2, QueueAssumption DEF Tick, TypeOK
  <2>3. \A w \in Workers : pc[w] = "busy" => job[w].msg \in Messages
    BY PayloadFields DEF TypeOK
  <2> QED
    BY <2>1, <2>2, <2>3 DEF OneInv, InWork, WorkOf
<1>3. CASE \E w \in Workers : WorkerStep(w) \/ Crash(w) \/ Restart(w)
  BY <1>3, WorkKept DEF OneWorker, OneInv, InWork
<1> QED
  BY <1>1, <1>2, <1>3 DEF Next

-----------------------------------------------------------------------------
(* What is recorded, and outcomes.                                         *)

\* How a step can change what has become of a message: a worker that holds
\* it alone rejects it, or one that has it on its list answers it.
LEMMA Outcomes ==
  ASSUME TypeOK, TypeOK', OneInv, [Next]_vars
  PROVE  /\ dedup \subseteq dedup'
         /\ \/ UNCHANGED <<answered, dead>>
            \/ \E w \in Workers :
                 \/ Succeed(w) /\ answered' = answered \cup {job[w].msg} /\ UNCHANGED <<dead, dedup>>
                 \/ DeadLetter(w) /\ dead' = [dead EXCEPT ![job[w].msg] = @ + 1]
                      /\ UNCHANGED <<answered, dedup>>
<1>1. ASSUME NEW d \in Deliveries, HookStep(d) \/ HookDies(d)
      PROVE  dedup \subseteq dedup' /\ UNCHANGED <<answered, dead>>
  BY <1>1 DEF HookStep, AcceptNew, SkipDuplicate, Enqueue, HookDies, redis, db
<1>2. ASSUME NEW w \in Workers, Recover(w) \/ Poll(w) \/ FailStored(w) \/ FailEarly(w)
                                  \/ PoisonCrash(w) \/ Crash(w) \/ Restart(w)
      PROVE  dedup \subseteq dedup' /\ UNCHANGED <<answered, dead>>
  BY <1>2 DEF Recover, SkipRecovery, StartRecovery, ScanSkip, ScanStale, EndRecovery, Poll,
     Claim, PollTimeout, Stamp, FailStored, FailEarly, PoisonCrash, Crash, Restart, Dispose, Die,
     redis, db, web
<1>3. ASSUME NEW w \in Workers, Lrem(w) \/ Hdel(w) \/ Requeue(w)
      PROVE  dedup \subseteq dedup' /\ UNCHANGED <<answered, dead>>
  BY <1>3 DEF Lrem, Hdel, Requeue, db, web
<1>4. ASSUME NEW w \in Workers, Succeed(w)
      PROVE  answered' = answered \cup {job[w].msg} /\ UNCHANGED <<dead, dedup>>
  BY <1>4 DEF Succeed, Dispose, redis, web
<1>5. ASSUME NEW w \in Workers, DeadLetter(w)
      PROVE  dead' = [dead EXCEPT ![job[w].msg] = @ + 1] /\ UNCHANGED <<answered, dedup>>
  BY <1>5 DEF DeadLetter, db, web
<1>6. CASE Tick \/ UNCHANGED vars
  BY <1>6 DEF Tick, vars, redis, db, web
<1> QED
  BY <1>1, <1>2, <1>3, <1>4, <1>5, <1>6 DEF Next, WorkerStep, Process, Finish

LEMMA SucceedsWith ==
  ASSUME TypeOK, OneInv, NEW w \in Workers, Succeed(w)
  PROVE  /\ job[w].msg \in Messages /\ Somewhere(job[w].msg) /\ job[w].msg \in dedup
         /\ ~(dead[job[w].msg] > 0) /\ job[w].msg \notin answered
<1>1. job[w] \in Payload /\ job[w].msg \in Messages /\ job[w].msg \notin answered
  BY PayloadFields DEF Succeed, At, TypeOK
<1>2. In(job[w].msg, processing)
  BY ContainsIn DEF Succeed, At, OneInv, InWork, WorkOf
<1> QED
  BY <1>1, <1>2 DEF OneInv, Recorded, Rejected, Somewhere

LEMMA RejectsWith ==
  ASSUME TypeOK, OneInv, NEW w \in Workers, DeadLetter(w)
  PROVE  /\ job[w].msg \in Messages /\ HeldAlone(job[w].msg) /\ job[w].msg \in dedup
         /\ ~(dead[job[w].msg] > 0)
<1>1. job[w] \in Payload /\ job[w].msg \in Messages
  BY PayloadFields DEF DeadLetter, At, TypeOK
<1>2. HeldAlone(job[w].msg)
  BY DEF DeadLetter, At, HeldAlone, InHand
<1> QED
  BY <1>1, <1>2 DEF OneInv, Recorded, Rejected, Somewhere

LEMMA RecordedStep ==
  ASSUME OneWorker, TypeOK, TypeOK', OneInv, [Next]_vars
  PROVE  Recorded'
<1> SUFFICES ASSUME NEW m \in Messages, Somewhere(m)' \/ m \in answered' \/ dead'[m] > 0
             PROVE  m \in dedup'
  BY DEF Recorded
<1>1. dedup \subseteq dedup'
  BY Outcomes
<1>2. Somewhere(m)' => m \in dedup'
  BY <1>1, ApartStep DEF Traced, OneInv, Recorded
<1>3. m \in answered' => m \in dedup'
  BY <1>1, Outcomes, SucceedsWith DEF OneInv, Recorded
<1>4. dead'[m] > 0 => m \in dedup'
  <2>1. CASE dead'[m] = dead[m]
    BY <1>1, <2>1 DEF OneInv, Recorded
  <2>2. CASE dead'[m] # dead[m]
    <3>1. PICK w \in Workers : DeadLetter(w) /\ dead' = [dead EXCEPT ![job[w].msg] = @ + 1]
      BY <2>2, Outcomes
    <3>2. m = job[w].msg
      BY <2>2, <3>1 DEF TypeOK
    <3> QED
      BY <1>1, <3>1, <3>2, RejectsWith
  <2> QED
    BY <2>1, <2>2
<1> QED
  BY <1>2, <1>3, <1>4

LEMMA RejectedStep ==
  ASSUME OneWorker, TypeOK, TypeOK', OneInv, [Next]_vars
  PROVE  Rejected'
<1> SUFFICES ASSUME NEW m \in Messages, dead'[m] > 0, Somewhere(m)'
             PROVE  FALSE
  BY DEF Rejected
<1>1. CASE dead'[m] = dead[m]
  <2>1. ~Somewhere(m) /\ m \in dedup
    BY <1>1 DEF OneInv, Rejected, Recorded
  <2> QED
    BY <2>1, ApartStep DEF Traced
<1>2. CASE dead'[m] # dead[m]
  <2>1. PICK w \in Workers : DeadLetter(w) /\ dead' = [dead EXCEPT ![job[w].msg] = @ + 1]
    BY <1>2, Outcomes
  <2>2. m = job[w].msg
    BY <1>2, <2>1 DEF TypeOK
  <2>3. HeldAlone(m)
    BY <2>1, <2>2, RejectsWith
  <2>4. ~In(m, queue) /\ ~In(m, processing) /\ ~BeingPushed(m)
    BY <2>3 DEF OneInv, Apart
  <2>5. UNCHANGED <<queue, processing, hook, pushing>> /\ pc'[w] \notin {"hdel", "push"}
    BY <2>1 DEF DeadLetter, Return, Goto, web, TypeOK
  <2>6. ~In(m, queue)' /\ ~In(m, processing)' /\ ~BeingPushed(m)'
    BY <2>4, <2>5 DEF In, BeingPushed
  <2>7. ~HeldAlone(m)'
    BY <2>5 DEF HeldAlone, InHand, OneWorker
  <2> QED
    BY <2>6, <2>7 DEF Somewhere
<1> QED
  BY <1>1, <1>2

LEMMA OneStep ==
  ASSUME OneWorker, TypeOK, TypeOK', OneInv, [Next]_vars
  PROVE  OneInv'
BY ApartStep, InWorkStep, RecordedStep, RejectedStep DEF OneInv

-----------------------------------------------------------------------------
\* The inductive invariant of a deployment with one worker.
THEOREM OneWorkerInvariant ==
  ASSUME OneWorker
  PROVE  Spec => [](TypeOK /\ OneInv)
<1>1. Init => TypeOK /\ OneInv
  BY TypeInit, OneInit
<1>2. TypeOK /\ OneInv /\ [Next]_vars => (TypeOK /\ OneInv)'
  BY TypeStep, OneStep
<1> QED
  BY <1>1, <1>2, PTL DEF Spec

LEMMA PlacesOf ==
  ASSUME NEW m, NEW p
  PROVE  p \in Places(m) <=>
           \/ \E i \in Positions(m, queue) : p = <<"queue", i>>
           \/ \E i \in Positions(m, processing) : p = <<"processing", i>>
           \/ \E d \in pushing : Head(hook[d]) = m /\ p = <<"hook", d>>
           \/ \E w \in Workers : InHand(w) /\ job[w].msg = m /\ p = <<"hand", w>>
BY DEF Places

LEMMA NowhereOrSomewhere ==
  ASSUME NEW m
  PROVE  Places(m) = {} <=> ~Somewhere(m)
<1>1. ASSUME NEW p \in Places(m) PROVE Somewhere(m)
  BY <1>1, PlacesOf DEF Somewhere, In, Positions, BeingPushed, HeldAlone
<1>2. ASSUME Somewhere(m) PROVE \E p : p \in Places(m)
  <2>1. CASE In(m, queue)
    BY <2>1, PlacesOf DEF In, Positions
  <2>2. CASE In(m, processing)
    BY <2>2, PlacesOf DEF In, Positions
  <2>3. CASE BeingPushed(m)
    BY <2>3, PlacesOf DEF BeingPushed
  <2>4. CASE HeldAlone(m)
    BY <2>4, PlacesOf DEF HeldAlone
  <2> QED
    BY <1>2, <2>1, <2>2, <2>3, <2>4 DEF Somewhere
<1> QED
  BY <1>1, <1>2

LEMMA NowhereNext ==
  ASSUME NEW m
  PROVE  (Places(m) = {} <=> ~Somewhere(m))'
<1>1. Places(m) = {} <=> ~Somewhere(m)
  BY NowhereOrSomewhere
<1> QED
  BY <1>1, PTL

\* With one worker, deduplication, claims, late stamps, recoveries and crashes
\* never make a second copy of a message, for any scan limit, time-out and
\* number of messages, webhook calls and crashes.
THEOREM NeverTwoCopies ==
  ASSUME OneWorker
  PROVE  Spec => []AtMostOneCopy
<1>1. ASSUME Apart, NEW m \in Messages, NEW p \in Places(m), NEW q \in Places(m)
      PROVE  p = q
  <2>1. /\ \A i, j \in Positions(m, queue) : i = j
        /\ \A i, j \in Positions(m, processing) : i = j
        /\ \A i \in Positions(m, queue) : In(m, queue)
        /\ \A i \in Positions(m, processing) : In(m, processing)
    BY <1>1 DEF Apart, Distinct, Positions, In
  <2>2. /\ \A d, e \in pushing : Head(hook[d]) = m /\ Head(hook[e]) = m => d = e
        /\ \A d \in pushing : Head(hook[d]) = m => BeingPushed(m)
    BY <1>1 DEF Apart, BeingPushed
  <2>3. /\ \A v, w \in Workers : v = w
        /\ \A w \in Workers : InHand(w) /\ job[w].msg = m => HeldAlone(m)
    BY DEF OneWorker, HeldAlone
  <2>4. /\ In(m, queue) => ~In(m, processing) /\ ~BeingPushed(m) /\ ~HeldAlone(m)
        /\ In(m, processing) => ~BeingPushed(m) /\ ~HeldAlone(m)
        /\ BeingPushed(m) => ~HeldAlone(m)
    BY <1>1 DEF Apart
  <2> QED
    BY <2>1, <2>2, <2>3, <2>4, PlacesOf
<1>2. OneInv => AtMostOneCopy
  BY <1>1 DEF OneInv, AtMostOneCopy
<1> QED
  BY <1>2, OneWorkerInvariant, PTL

\* With one worker, the payload being processed is on the processing list under
\* a claim time, whatever recoveries ran before: a worker that dies in the
\* middle of it leaves it to the next recovery.
THEOREM WorkIsRecoverable ==
  ASSUME OneWorker
  PROVE  Spec => []ProcessingIsRecoverable
<1>1. OneInv => ProcessingIsRecoverable
  BY DEF OneInv, InWork, WorkOf, ProcessingIsRecoverable, At, Contains
<1> QED
  BY <1>1, OneWorkerInvariant, PTL

\* With one worker, once no copy of an accepted message is left, no redelivery
\* and no recovery brings one back.
THEOREM GoneStaysGone ==
  ASSUME OneWorker
  PROVE  Spec => GoneForGood
<1>1. ASSUME TypeOK, TypeOK', OneInv, [Next]_vars, NEW m \in Messages, Gone(m)
      PROVE  Gone(m)'
  <2>1. m \in dedup /\ ~Somewhere(m)
    BY <1>1, NowhereOrSomewhere DEF Gone
  <2>2. dedup \subseteq dedup' /\ Traced(m)
    BY <1>1, Outcomes, ApartStep
  <2>3. ~Somewhere(m)'
    BY <2>1, <2>2 DEF Traced
  <2>4. Places(m)' = {}
    BY <2>3, NowhereNext
  <2> QED
    BY <2>1, <2>2, <2>4 DEF Gone
<1>2. TypeOK /\ OneInv /\ (TypeOK /\ OneInv)' /\ [Next]_vars
        => [\A m \in Messages : Gone(m) => Gone(m)']_vars
  BY <1>1
<1> QED
  BY <1>2, OneWorkerInvariant, PTL DEF Spec, GoneForGood

-----------------------------------------------------------------------------
(* The refinement of Delivery.                                             *)

\* A step that changes one message's outcome is a move of that message.
LEMMA OneMove ==
  ASSUME NEW m \in Messages, NEW from, NEW to,
         OutcomeOf(m) = from, OutcomeOf(m)' = to,
         \A n \in Messages \ {m} : OutcomeOf(n)' = OutcomeOf(n)
  PROVE  Promise!Move(m, from, to)
<1>1. outcomes[m] = from
  BY DEF outcomes
<1>2. outcomes' = [outcomes EXCEPT ![m] = to]
  BY DEF outcomes
<1> QED
  BY <1>1, <1>2 DEF Promise!Move

LEMMA KeysAreSet ==
  ASSUME TypeOK, [Next]_vars
  PROVE  \/ dedup' = dedup
         \/ \E d \in Deliveries : AcceptNew(d) /\ UNCHANGED <<answered, dead>>
<1>1. ASSUME NEW d \in Deliveries, HookStep(d) \/ HookDies(d)
      PROVE  dedup' = dedup \/ (AcceptNew(d) /\ UNCHANGED <<answered, dead>>)
  BY <1>1 DEF HookStep, AcceptNew, SkipDuplicate, Enqueue, HookDies, redis, db
<1>2. ASSUME NEW w \in Workers, WorkerStep(w) \/ Crash(w) \/ Restart(w)
      PROVE  dedup' = dedup
  BY <1>2 DEF WorkerStep, Recover, SkipRecovery, StartRecovery, ScanSkip, ScanStale, EndRecovery,
     Poll, Claim, PollTimeout, Stamp, Process, Succeed, FailStored, FailEarly, PoisonCrash, Crash,
     Restart, Dispose, Die, Finish, Lrem, Hdel, Requeue, DeadLetter, web
<1>3. CASE Tick \/ UNCHANGED vars
  BY <1>3 DEF Tick, vars, web
<1> QED
  BY <1>1, <1>2, <1>3 DEF Next

LEMMA OutcomeStep ==
  ASSUME TypeOK, TypeOK', OneInv, [Next]_vars
  PROVE  [Promise!Next]_outcomes
<1>1. CASE UNCHANGED <<dedup, answered, dead>>
  <2>1. \A m \in Messages : OutcomeOf(m)' = OutcomeOf(m)
    BY <1>1 DEF OutcomeOf
  <2> QED
    BY <2>1 DEF outcomes
<1>2. ASSUME NEW d \in Deliveries, AcceptNew(d), UNCHANGED <<answered, dead>>
      PROVE  Promise!Next
  <2>0. PICK a \in Messages : a = Head(hook[d])
    BY <1>2 DEF AcceptNew, TypeOK
  <2>1. a \in Messages /\ a \notin dedup /\ dedup' = dedup \cup {a}
    BY <1>2, <2>0 DEF AcceptNew
  <2>2. a \notin answered /\ ~(dead[a] > 0)
    BY <2>1 DEF OneInv, Recorded
  <2>3. OutcomeOf(a) = "unseen" /\ OutcomeOf(a)' = "pending"
    BY <1>2, <2>1, <2>2 DEF OutcomeOf
  <2>4. \A n \in Messages \ {a} : OutcomeOf(n)' = OutcomeOf(n)
    BY <1>2, <2>1 DEF OutcomeOf
  <2> QED
    BY <2>1, <2>3, <2>4, OneMove DEF Promise!Next, Promise!Accept
<1>3. ASSUME NEW w \in Workers, Succeed(w), answered' = answered \cup {job[w].msg},
             UNCHANGED <<dead, dedup>>
      PROVE  Promise!Next
  <2>0. PICK a \in Messages : a = job[w].msg
    BY <1>3, SucceedsWith
  <2>1. a \in Messages /\ a \in dedup /\ ~(dead[a] > 0) /\ a \notin answered
    BY <1>3, <2>0, SucceedsWith
  <2>2. OutcomeOf(a) = "pending" /\ OutcomeOf(a)' = "answered"
    BY <1>3, <2>0, <2>1 DEF OutcomeOf
  <2>3. \A n \in Messages \ {a} : OutcomeOf(n)' = OutcomeOf(n)
    BY <1>3, <2>0 DEF OutcomeOf
  <2> QED
    BY <2>1, <2>2, <2>3, OneMove DEF Promise!Next, Promise!Settle, Promise!Answer
<1>4. ASSUME NEW w \in Workers, DeadLetter(w), dead' = [dead EXCEPT ![job[w].msg] = @ + 1],
             UNCHANGED <<answered, dedup>>
      PROVE  [Promise!Next]_outcomes
  <2>0. PICK a \in Messages : a = job[w].msg
    BY <1>4, RejectsWith
  <2>1. a \in Messages /\ a \in dedup /\ ~(dead[a] > 0)
    BY <1>4, <2>0, RejectsWith
  <2>2. dead'[a] > 0 /\ \A n \in Messages \ {a} : dead'[n] = dead[n]
    BY <1>4, <2>0 DEF TypeOK
  <2>3. \A n \in Messages \ {a} : OutcomeOf(n)' = OutcomeOf(n)
    BY <1>4, <2>2 DEF OutcomeOf
  <2>4. CASE a \in answered
    <3>1. OutcomeOf(a) = "answered" /\ OutcomeOf(a)' = "both"
      BY <1>4, <2>1, <2>2, <2>4 DEF OutcomeOf
    <3> QED
      BY <2>1, <2>3, <3>1, OneMove DEF Promise!Next, Promise!Retire
  <2>5. CASE a \notin answered
    <3>1. OutcomeOf(a) = "pending" /\ OutcomeOf(a)' = "rejected"
      BY <1>4, <2>1, <2>2, <2>5 DEF OutcomeOf
    <3> QED
      BY <2>1, <2>3, <3>1, OneMove DEF Promise!Next, Promise!Settle, Promise!Reject
  <2> QED
    BY <2>4, <2>5
<1> QED
  BY <1>1, <1>2, <1>3, <1>4, Outcomes, KeysAreSet

\* With one worker the queue keeps the promise of Delivery: an accepted message
\* is answered or rejected for good, a rejected one is never answered, and an
\* answered one can only be retired to the dead letters, once.
THEOREM OutcomeIsFinal ==
  ASSUME OneWorker
  PROVE  Spec => OneOutcome
<1>1. Init => Promise!Init
  BY DEF Init, Promise!Init, outcomes, OutcomeOf
<1>2. TypeOK /\ OneInv /\ (TypeOK /\ OneInv)' /\ [Next]_vars => [Promise!Next]_outcomes
  BY OutcomeStep
<1> QED
  BY <1>1, <1>2, OneWorkerInvariant, PTL DEF Spec, OneOutcome, Promise!Safety
=============================================================================

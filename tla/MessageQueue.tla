---------------------------- MODULE MessageQueue ----------------------------
(***************************************************************************)
(* The reliable queue between the WhatsApp webhook and the message         *)
(* workers: two Redis lists, the hash of claim times, the dead-letter list *)
(* and the deduplication keys (src/workers/queue.py), the webhook's        *)
(* background task that fills it (src/api/webhooks/whatsapp.py) and the    *)
(* worker loop that drains and repairs it                                  *)
(* (src/workers/message_processor.py).                                     *)
(*                                                                         *)
(* A step is one Redis command, or one decision between two of them: a     *)
(* worker awaits each command, so other processes run, and crashes         *)
(* happen, between any two.                                                *)
(*                                                                         *)
(* Time enters only through the age of a claim, which Tick advances up to  *)
(* StaleAfter.  The code compares a claim's time with a clock it read      *)
(* before the scan; `expired' is the outcome of that comparison, taken at  *)
(* the start of the scan and dropped for a message whose claim time is     *)
(* rewritten or deleted since.                                             *)
(***************************************************************************)
EXTENDS Naturals, Sequences, SequencesExt

CONSTANTS
  Messages,             \* WhatsApp message ids (all non-empty)
  Workers,              \* worker processes
  Deliveries,           \* webhook calls, redeliveries by Meta included
  Content,              \* the messages each webhook call carries, in order
  StaleAfter,           \* queue_processing_timeout_seconds, in ticks
  MaxRecoveryAttempts,  \* queue_max_recovery_attempts
  ScanLimit,            \* the limit of one recovery scan
  RecoveredAt,          \* the values of a payload's recovered_at
  CrashPoints,          \* where a process may die: worker labels and "hook"
  MaxCrashes,           \* bound on spontaneous crashes
  None                  \* no payload, no claim time, no recovered_at

\* What a worker does with a payload it takes off the processing list: "ack"
\* and "dead" end a processing, "requeue" and "retire" are recovery's.
Fates == {"ack", "dead", "requeue", "retire"}

ASSUME QueueAssumption ==
  /\ Content \in [Deliveries -> Seq(Messages)]
  /\ StaleAfter \in Nat \ {0}
  /\ MaxRecoveryAttempts \in Nat
  /\ ScanLimit \in Nat \ {0}
  /\ MaxCrashes \in Nat
  /\ None \notin Nat \cup Fates

VARIABLES
  queue,       \* QUEUE_KEY
  processing,  \* PROCESSING_QUEUE_KEY
  started,     \* PROCESSING_STARTED_HASH_KEY: the age of each message's claim
  dead,        \* DEAD_LETTER_QUEUE_KEY: number of entries for each message
  dedup,       \* messages whose deduplication key is set
  stored,      \* messages with a committed row in the messages table
  answered,    \* messages whose orchestration committed with success
  hook,        \* what is left of each webhook task's batch
  pushing,     \* webhook tasks between SET NX and RPUSH
  pc,          \* where each worker is
  job,         \* the payload each worker has in hand
  fate,        \* what the worker is about to do with it
  scan,        \* what is left of the worker's recovery scan
  expired,     \* messages whose claim was too old when the scan started
  crashes,     \* spontaneous crashes so far
  exposed      \* history: messages in hand of a process that died with the only copy

redis == <<queue, processing, started, dead>>
db == <<stored, answered>>
web == <<dedup, hook, pushing>>
worker == <<pc, job, fate, scan, expired>>
faults == <<crashes, exposed>>
vars == <<redis, db, web, worker, faults>>

Payload == [msg : Messages, attempts : 0..MaxRecoveryAttempts,
            recovered_at : RecoveredAt \cup {None}]

Labels == {"top", "scan", "poll", "stamp", "busy", "lrem", "hdel", "push", "down"}

Init ==
  /\ queue = <<>> /\ processing = <<>>
  /\ started = [m \in Messages |-> None]
  /\ dead = [m \in Messages |-> 0]
  /\ dedup = {} /\ stored = {} /\ answered = {}
  /\ hook = Content /\ pushing = {}
  /\ pc = [w \in Workers |-> "top"]
  /\ job = [w \in Workers |-> None]
  /\ fate = [w \in Workers |-> None]
  /\ scan = [w \in Workers |-> <<>>]
  /\ expired = [w \in Workers |-> {}]
  /\ crashes = 0 /\ exposed = {}

-----------------------------------------------------------------------------
(* The webhook's background task: for each message, SET NX, then RPUSH.    *)

Fresh(m) == [msg |-> m, attempts |-> 0, recovered_at |-> None]

\* Mutant: the key is set without NX.
AcceptAny(d) ==
  /\ d \notin pushing /\ hook[d] # <<>>
  /\ dedup' = dedup \cup {Head(hook[d])}
  /\ pushing' = pushing \cup {d}
  /\ UNCHANGED <<hook, redis, db, worker, faults>>

\* The key was not set: the message is accepted, and is pushed next.
AcceptNew(d) ==
  /\ d \notin pushing /\ hook[d] # <<>>
  /\ Head(hook[d]) \notin dedup
  /\ dedup' = dedup \cup {Head(hook[d])}
  /\ pushing' = pushing \cup {d}
  /\ UNCHANGED <<hook, redis, db, worker, faults>>

\* The key was set: a redelivery, skipped.
SkipDuplicate(d) ==
  /\ d \notin pushing /\ hook[d] # <<>>
  /\ Head(hook[d]) \in dedup
  /\ hook' = [hook EXCEPT ![d] = Tail(@)]
  /\ UNCHANGED <<dedup, pushing, redis, db, worker, faults>>

Enqueue(d) ==
  /\ d \in pushing
  /\ queue' = Append(queue, Fresh(Head(hook[d])))
  /\ hook' = [hook EXCEPT ![d] = Tail(@)]
  /\ pushing' = pushing \ {d}
  /\ UNCHANGED <<dedup, processing, started, dead, db, worker, faults>>

\* The API process dies, or Redis fails the task, after Meta got its 200:
\* the rest of the batch is gone.
HookDies(d) ==
  /\ "hook" \in CrashPoints /\ crashes < MaxCrashes /\ hook[d] # <<>>
  /\ crashes' = crashes + 1
  /\ exposed' = IF d \in pushing THEN exposed \cup {Head(hook[d])} ELSE exposed
  /\ hook' = [hook EXCEPT ![d] = <<>>]
  /\ pushing' = pushing \ {d}
  /\ UNCHANGED <<dedup, redis, db, worker>>

-----------------------------------------------------------------------------
(* The worker loop.                                                        *)

At(w, label) == pc[w] = label

Goto(w, label) == pc' = [pc EXCEPT ![w] = label]

\* A rewritten or deleted claim time is no longer the one a scan compared.
Restamp(m, age) ==
  /\ started' = [started EXCEPT ![m] = age]
  /\ expired' = [v \in Workers |-> expired[v] \ {m}]

\* _recover_if_needed: the interval has not passed yet.
SkipRecovery(w) ==
  /\ At(w, "top")
  /\ Goto(w, "poll")
  /\ UNCHANGED <<job, fate, scan, expired, redis, db, web, faults>>

\* Mutant: the scan leaves out the oldest entry.
StartRecoveryAtOne(w) ==
  /\ At(w, "top")
  /\ Goto(w, "scan")
  /\ scan' = [scan EXCEPT ![w] = SubSeq(processing, 2, Min({ScanLimit, Len(processing)}))]
  /\ expired' = [expired EXCEPT ![w] = {m \in Messages : started[m] = StaleAfter}]
  /\ UNCHANGED <<job, fate, redis, db, web, faults>>

\* The scan's clock is read, and LRANGE returns the first entries.
StartRecovery(w) ==
  /\ At(w, "top")
  /\ Goto(w, "scan")
  /\ scan' = [scan EXCEPT ![w] = SubSeq(processing, 1, Min({ScanLimit, Len(processing)}))]
  /\ expired' = [expired EXCEPT ![w] = {m \in Messages : started[m] = StaleAfter}]
  /\ UNCHANGED <<job, fate, redis, db, web, faults>>

\* HGET: a claim without a time, or young enough, is left alone.
ScanSkip(w) ==
  /\ At(w, "scan") /\ scan[w] # <<>>
  /\ Head(scan[w]).msg \notin expired[w]
  /\ scan' = [scan EXCEPT ![w] = Tail(@)]
  /\ UNCHANGED <<pc, job, fate, expired, redis, db, web, faults>>

\* Mutant: the attempt under way is not counted against the maximum.
ScanStaleOneMore(w) ==
  /\ At(w, "scan") /\ scan[w] # <<>>
  /\ Head(scan[w]).msg \in expired[w]
  /\ job' = [job EXCEPT ![w] = Head(scan[w])]
  /\ fate' = [fate EXCEPT ![w] =
       IF Head(scan[w]).attempts > MaxRecoveryAttempts THEN "retire" ELSE "requeue"]
  /\ scan' = [scan EXCEPT ![w] = Tail(@)]
  /\ Goto(w, "lrem")
  /\ UNCHANGED <<expired, redis, db, web, faults>>

\* HGET: the claim is too old.  The entry is requeued, or retired to the
\* dead-letter list when its attempts are used up.
ScanStale(w) ==
  /\ At(w, "scan") /\ scan[w] # <<>>
  /\ Head(scan[w]).msg \in expired[w]
  /\ job' = [job EXCEPT ![w] = Head(scan[w])]
  /\ fate' = [fate EXCEPT ![w] =
       IF Head(scan[w]).attempts + 1 > MaxRecoveryAttempts THEN "retire" ELSE "requeue"]
  /\ scan' = [scan EXCEPT ![w] = Tail(@)]
  /\ Goto(w, "lrem")
  /\ UNCHANGED <<expired, redis, db, web, faults>>

EndRecovery(w) ==
  /\ At(w, "scan") /\ scan[w] = <<>>
  /\ Goto(w, "poll")
  /\ UNCHANGED <<job, fate, scan, expired, redis, db, web, faults>>

\* Mutant: the entry is popped, not moved.
ClaimByPop(w) ==
  /\ At(w, "poll") /\ queue # <<>>
  /\ job' = [job EXCEPT ![w] = Head(queue)]
  /\ queue' = Tail(queue)
  /\ Goto(w, "stamp")
  /\ UNCHANGED <<processing, started, dead, fate, scan, expired, db, web, faults>>

\* BLMOVE moves the oldest entry to the processing list...
Claim(w) ==
  /\ At(w, "poll") /\ queue # <<>>
  /\ job' = [job EXCEPT ![w] = Head(queue)]
  /\ processing' = Append(processing, Head(queue))
  /\ queue' = Tail(queue)
  /\ Goto(w, "stamp")
  /\ UNCHANGED <<started, dead, fate, scan, expired, db, web, faults>>

\* ... and gives up when nothing comes.
PollTimeout(w) ==
  /\ At(w, "poll") /\ queue = <<>>
  /\ Goto(w, "top")
  /\ UNCHANGED <<job, fate, scan, expired, redis, db, web, faults>>

\* HSET of the claim time, a command after the move.
Stamp(w) ==
  /\ At(w, "stamp")
  /\ Restamp(job[w].msg, 0)
  /\ Goto(w, "busy")
  /\ UNCHANGED <<queue, processing, dead, job, fate, scan, db, web, faults>>

Dispose(w, how) ==
  /\ fate' = [fate EXCEPT ![w] = how]
  /\ Goto(w, "lrem")
  /\ UNCHANGED <<job, scan, expired, redis, web, faults>>

\* The orchestrator succeeds and its transaction, the message's row
\* included, commits.
Succeed(w) ==
  /\ At(w, "busy") /\ job[w].msg \notin stored
  /\ stored' = stored \cup {job[w].msg}
  /\ answered' = answered \cup {job[w].msg}
  /\ Dispose(w, "ack")

\* The orchestrator reports a failure after saving the message: the row is
\* committed all the same, and the payload goes to the dead-letter list.
FailStored(w) ==
  /\ At(w, "busy") /\ job[w].msg \notin stored
  /\ stored' = stored \cup {job[w].msg}
  /\ UNCHANGED answered
  /\ Dispose(w, "dead")

\* Rejected before the database: no sender, or the media download failed.
FailEarly(w) ==
  /\ At(w, "busy")
  /\ UNCHANGED db
  /\ Dispose(w, "dead")

-----------------------------------------------------------------------------
(* ack_message, move_to_dead_letter and the requeue: LREM, HDEL, RPUSH.    *)

\* Mutant: a requeued entry is looked up by its new payload.
LremUpdated(w) ==
  /\ At(w, "lrem")
  /\ processing' = RemoveFirst(processing,
       IF fate[w] = "requeue" THEN [job[w] EXCEPT !.attempts = @ + 1] ELSE job[w])
  /\ Goto(w, "hdel")
  /\ UNCHANGED <<queue, started, dead, job, fate, scan, expired, db, web, faults>>

Lrem(w) ==
  /\ At(w, "lrem")
  /\ processing' = RemoveFirst(processing, job[w])
  /\ Goto(w, "hdel")
  /\ UNCHANGED <<queue, started, dead, job, fate, scan, expired, db, web, faults>>

\* A recovery goes on with its scan, a processing returns to the loop.
Return(w) ==
  /\ Goto(w, IF fate[w] \in {"requeue", "retire"} THEN "scan" ELSE "top")
  /\ job' = [job EXCEPT ![w] = None]
  /\ fate' = [fate EXCEPT ![w] = None]

\* Mutant: a requeue is acknowledged and not pushed.
HdelOnly(w) ==
  /\ At(w, "hdel")
  /\ Restamp(job[w].msg, None)
  /\ IF fate[w] \in {"ack", "requeue"} THEN Return(w) ELSE Goto(w, "push") /\ UNCHANGED <<job, fate>>
  /\ UNCHANGED <<queue, processing, dead, scan, db, web, faults>>

\* The hash is keyed by the message, not by the payload that was removed.
Hdel(w) ==
  /\ At(w, "hdel")
  /\ Restamp(job[w].msg, None)
  /\ IF fate[w] = "ack" THEN Return(w) ELSE Goto(w, "push") /\ UNCHANGED <<job, fate>>
  /\ UNCHANGED <<queue, processing, dead, scan, db, web, faults>>

Recovered(p, t) == [msg |-> p.msg, attempts |-> p.attempts + 1, recovered_at |-> t]

Requeue(w) ==
  /\ At(w, "push") /\ fate[w] = "requeue"
  /\ \E t \in RecoveredAt : queue' = Append(queue, Recovered(job[w], t))
  /\ Return(w)
  /\ UNCHANGED <<processing, started, dead, scan, expired, db, web, faults>>

DeadLetter(w) ==
  /\ At(w, "push") /\ fate[w] \in {"dead", "retire"}
  /\ dead' = [dead EXCEPT ![job[w].msg] = @ + 1]
  /\ Return(w)
  /\ UNCHANGED <<queue, processing, started, scan, expired, db, web, faults>>

-----------------------------------------------------------------------------
(* Crashes, restarts and time.                                             *)

Die(w) ==
  /\ Goto(w, "down")
  /\ job' = [job EXCEPT ![w] = None]
  /\ fate' = [fate EXCEPT ![w] = None]
  /\ scan' = [scan EXCEPT ![w] = <<>>]
  /\ expired' = [expired EXCEPT ![w] = {}]
  /\ UNCHANGED <<redis, db, web>>

\* The payload in hand is, or may be, no longer in a list.
InHand(w) == pc[w] \in {"hdel", "push"} /\ fate[w] # "ack"

Crash(w) ==
  /\ pc[w] \in CrashPoints \ {"down"} /\ crashes < MaxCrashes
  /\ crashes' = crashes + 1
  /\ exposed' = IF InHand(w) THEN exposed \cup {job[w].msg} ELSE exposed
  /\ Die(w)

\* The message's row is there already: the insert breaks the unique index,
\* the commit then finds a broken transaction, and nothing catches it.
PoisonCrash(w) ==
  /\ At(w, "busy") /\ job[w].msg \in stored
  /\ UNCHANGED faults
  /\ Die(w)

\* The container is restarted.
Restart(w) ==
  /\ At(w, "down")
  /\ Goto(w, "top")
  /\ UNCHANGED <<job, fate, scan, expired, redis, db, web, faults>>

Tick ==
  /\ \E m \in Messages : started[m] \in 0..(StaleAfter - 1)
  /\ started' = [m \in Messages |->
       IF started[m] \in 0..(StaleAfter - 1) THEN started[m] + 1 ELSE started[m]]
  /\ UNCHANGED <<queue, processing, dead, db, web, worker, faults>>

-----------------------------------------------------------------------------
HookStep(d) == AcceptNew(d) \/ SkipDuplicate(d) \/ Enqueue(d)

Recover(w) == SkipRecovery(w) \/ StartRecovery(w) \/ ScanSkip(w) \/ ScanStale(w) \/ EndRecovery(w)

Poll(w) == Claim(w) \/ PollTimeout(w) \/ Stamp(w)

Process(w) == Succeed(w) \/ FailStored(w) \/ FailEarly(w) \/ PoisonCrash(w)

Finish(w) == Lrem(w) \/ Hdel(w) \/ Requeue(w) \/ DeadLetter(w)

WorkerStep(w) == Recover(w) \/ Poll(w) \/ Process(w) \/ Finish(w)

Next ==
  \/ \E d \in Deliveries : HookStep(d) \/ HookDies(d)
  \/ \E w \in Workers : WorkerStep(w) \/ Crash(w) \/ Restart(w)
  \/ Tick

Spec == Init /\ [][Next]_vars

\* Every call in the loop has a timeout, docker restarts the container, and
\* a loop that runs on sees the recovery interval pass again and again.
Fairness ==
  /\ \A d \in Deliveries : WF_vars(HookStep(d))
  /\ \A w \in Workers : WF_vars(WorkerStep(w)) /\ WF_vars(Restart(w)) /\ SF_vars(StartRecovery(w))
  /\ WF_vars(Tick)

FairSpec == Spec /\ Fairness

-----------------------------------------------------------------------------
(* Properties.                                                             *)

TypeOK ==
  /\ queue \in Seq(Payload) /\ processing \in Seq(Payload)
  /\ started \in [Messages -> 0..StaleAfter \cup {None}]
  /\ dead \in [Messages -> Nat]
  /\ dedup \subseteq Messages /\ stored \subseteq Messages /\ answered \subseteq stored
  /\ hook \in [Deliveries -> Seq(Messages)] /\ pushing \subseteq Deliveries
  /\ \A d \in pushing : hook[d] # <<>>
  /\ pc \in [Workers -> Labels]
  /\ job \in [Workers -> Payload \cup {None}]
  /\ \A w \in Workers : pc[w] \in {"stamp", "busy", "lrem", "hdel", "push"} => job[w] \in Payload
  /\ fate \in [Workers -> Fates \cup {None}]
  /\ \A w \in Workers : pc[w] \in {"lrem", "hdel", "push"} <=> fate[w] \in Fates
  /\ \A w \in Workers : fate[w] = "requeue" => job[w].attempts < MaxRecoveryAttempts
  /\ scan \in [Workers -> Seq(Payload)]
  /\ expired \in [Workers -> SUBSET Messages]
  /\ crashes \in 0..MaxCrashes /\ exposed \subseteq Messages

In(m, list) == \E i \in 1..Len(list) : list[i].msg = m

BeingPushed(m) == \E d \in pushing : Head(hook[d]) = m

HeldAlone(m) == \E w \in Workers : InHand(w) /\ job[w].msg = m

AccountedFor(m) ==
  \/ m \in stored \/ dead[m] > 0
  \/ In(m, queue) \/ In(m, processing)
  \/ BeingPushed(m) \/ HeldAlone(m)

\* An accepted message is in one of the lists, recorded in the database, or
\* in the hand of a live process that has still to push it; the only way out
\* is a process that died with it in hand.  Whatever the number of workers,
\* late acknowledgements and double recoveries included.
LostOnlyInHand == \A m \in dedup : AccountedFor(m) \/ m \in exposed

\* What the runbook and the architecture notes promise: a crash loses nothing.
NoSilentLoss == \A m \in dedup : AccountedFor(m)

\* Where the copies of a message are: positions of the lists, webhook tasks
\* about to push it, workers that removed it and have still to push it.
Positions(m, list) == {i \in 1..Len(list) : list[i].msg = m}

Places(m) ==
  ({"queue"} \X Positions(m, queue)) \cup ({"processing"} \X Positions(m, processing))
    \cup ({"hook"} \X {d \in pushing : Head(hook[d]) = m})
    \cup ({"hand"} \X {w \in Workers : InHand(w) /\ job[w].msg = m})

\* With one worker, deduplication, claims, recoveries and crashes never make
\* a second copy of a message.
AtMostOneCopy == \A m \in Messages : \A p, q \in Places(m) : p = q

\* A payload being processed is on the processing list under a claim time:
\* if the worker dies now, recovery will find it.
ProcessingIsRecoverable ==
  \A w \in Workers : At(w, "busy") =>
    /\ \E i \in 1..Len(processing) : processing[i] = job[w]
    /\ started[job[w].msg] # None

Gone(m) == m \in dedup /\ Places(m) = {}

\* Once no copy of an accepted message is left, none comes back: not from a
\* redelivery, not from a recovery that was under way.
GoneForGood == [][\A m \in Messages : Gone(m) => Gone(m)']_vars

\* What became of a message.  One that a crash left between its commit and its
\* acknowledgement is recovered, may fail and be retired: it has both outcomes.
OutcomeOf(m) ==
  IF m \in answered THEN IF dead[m] > 0 THEN "both" ELSE "answered"
  ELSE IF dead[m] > 0 THEN "rejected"
  ELSE IF m \in dedup THEN "pending" ELSE "unseen"

outcomes == [m \in Messages |-> OutcomeOf(m)]

Promise == INSTANCE Delivery WITH outcome <- outcomes

\* The abstract promise: with one worker, wherever processes die, an outcome is
\* not taken back, and a rejected message is never answered...
OneOutcome == Promise!Safety

\* ... and there is an outcome in the end, unless a process dies in one of the windows.
OneOutcomeInTheEnd == Promise!Spec

\* Every accepted message is in the end answered or handed to an operator.
AcceptedIsSettled ==
  \A m \in Messages : m \in dedup ~> m \in answered \/ dead[m] > 0
=============================================================================

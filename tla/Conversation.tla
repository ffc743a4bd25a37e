---------------------------- MODULE Conversation ----------------------------
(***************************************************************************)
(* The orchestration of inbound messages (src/core/orchestrator.py) as     *)
(* database transactions of concurrent workers, against the takeover and   *)
(* release requests of the agent API and of the Control Room.              *)
(*                                                                         *)
(* Postgres runs at READ COMMITTED: a SELECT sees the committed rows and   *)
(* the transaction's own; an INSERT waits for another transaction's        *)
(* uncommitted insert of the same unique key, and fails once that one      *)
(* commits; an UPDATE holds the row until the end of the transaction.  A   *)
(* worker's own uncommitted rows are in its variables until Commit.        *)
(*                                                                         *)
(* A conversation is named by the message whose processing created it, a   *)
(* handoff by the message that raised it.                                  *)
(***************************************************************************)
EXTENDS Naturals, FiniteSets

CONSTANTS
  Messages,    \* inbound messages, by WhatsApp message id
  Customers,   \* phone numbers
  Workers,     \* worker processes
  From,        \* the sender of each message
  MaxCrashes,  \* bound on worker crashes
  None         \* no message, no conversation, no status, no verdict

\* What the orchestrator makes of a message.
Verdicts == {"parked", "silent", "failed", "reply", "escalated", "fallback"}

Statuses == {"bot", "human_takeover"}

ASSUME ConversationAssumption ==
  /\ From \in [Messages -> Customers]
  /\ IsFiniteSet(Workers)
  /\ MaxCrashes \in Nat
  /\ None \notin Messages \cup Verdicts \cup Statuses

VARIABLES
  customers,      \* phone numbers with a committed row
  status,         \* status of each committed conversation
  message_count,  \* its message_count
  ai_count,       \* its ai_response_count
  home,           \* the conversation of each message's committed row
  handoffs,       \* messages with a committed handoff
  replies,        \* messages with a committed outbound row
  answered,       \* messages whose transaction committed with success
  inbox,          \* messages still on the queue, claimed or not
  pc,             \* where each worker is
  msg,            \* the message it processes
  conv,           \* the conversation it found or created
  seen,           \* that conversation's status when it was read
  inserted,       \* workers with an uncommitted customer row
  verdict,        \* what the worker made of its message
  replied,        \* workers that saved an outbound row
  crashes,        \* crashes so far
  delivered,      \* history: automatic replies that reached the customer
  late            \* history: those sent in each conversation's current takeover

tables == <<customers, status, message_count, ai_count, home, handoffs, replies, answered>>
worker == <<pc, msg, conv, seen, inserted, verdict, replied>>
history == <<delivered, late>>
vars == <<tables, inbox, worker, crashes, history>>

Labels == {"idle", "customer", "insert", "conversation", "save", "content", "send", "commit", "ack"}

Init ==
  /\ customers = {} /\ status = [c \in Messages |-> None]
  /\ message_count = [c \in Messages |-> 0] /\ ai_count = [c \in Messages |-> 0]
  /\ home = [m \in Messages |-> None]
  /\ handoffs = {} /\ replies = {} /\ answered = {}
  /\ inbox = Messages
  /\ pc = [w \in Workers |-> "idle"] /\ msg = [w \in Workers |-> None]
  /\ conv = [w \in Workers |-> None] /\ seen = [w \in Workers |-> None]
  /\ inserted = {} /\ replied = {}
  /\ verdict = [w \in Workers |-> None]
  /\ crashes = 0
  /\ delivered = [m \in Messages |-> 0] /\ late = [c \in Messages |-> 0]

-----------------------------------------------------------------------------
At(w, label) == pc[w] = label

Goto(w, label) == pc' = [pc EXCEPT ![w] = label]

Sender(w) == From[msg[w]]

Active(customer) == {c \in Messages : status[c] # None /\ From[c] = customer}

\* increment_message_count took the row, which stays locked until the commit.
Locks(w, c) == conv[w] = c /\ pc[w] \in {"content", "send", "commit"}

Free(c) == \A w \in Workers : ~Locks(w, c)

\* The transaction is over: whatever was not committed is gone.
Forget(w) ==
  /\ Goto(w, "idle")
  /\ msg' = [msg EXCEPT ![w] = None]
  /\ conv' = [conv EXCEPT ![w] = None]
  /\ seen' = [seen EXCEPT ![w] = None]
  /\ verdict' = [verdict EXCEPT ![w] = None]
  /\ inserted' = inserted \ {w}
  /\ replied' = replied \ {w}

\* A unique key is taken: the flush raises, and so does the commit of the
\* broken session.  The worker process exits and is restarted.
Fail(w) == Forget(w) /\ UNCHANGED <<tables, inbox, crashes, history>>

-----------------------------------------------------------------------------
(* One message, statement by statement.                                    *)

\* The queue may hand out a message again whose processing died, or that a
\* slow worker still has.
Take(w) ==
  /\ At(w, "idle")
  /\ \E m \in inbox : msg' = [msg EXCEPT ![w] = m]
  /\ Goto(w, "customer")
  /\ UNCHANGED <<conv, seen, inserted, verdict, replied, tables, inbox, crashes, history>>

\* The queue is empty: the worker polls on.
Poll(w) == At(w, "idle") /\ inbox = {} /\ UNCHANGED vars

\* get_or_create: the SELECT...
FindCustomer(w) ==
  /\ At(w, "customer")
  /\ Goto(w, IF Sender(w) \in customers THEN "conversation" ELSE "insert")
  /\ UNCHANGED <<msg, conv, seen, inserted, verdict, replied, tables, inbox, crashes, history>>

\* Mutant: phone numbers are not unique.
InsertAnyCustomer(w) ==
  /\ At(w, "insert")
  /\ inserted' = inserted \cup {w}
  /\ Goto(w, "conversation")
  /\ UNCHANGED <<msg, conv, seen, verdict, replied, tables, inbox, crashes, history>>

\* ... and the INSERT, which waits for another worker's insert of the same
\* phone number.
InsertCustomer(w) ==
  /\ At(w, "insert")
  /\ Sender(w) \notin customers
  /\ \A v \in inserted : Sender(v) # Sender(w)
  /\ inserted' = inserted \cup {w}
  /\ Goto(w, "conversation")
  /\ UNCHANGED <<msg, conv, seen, verdict, replied, tables, inbox, crashes, history>>

DuplicateCustomer(w) ==
  /\ At(w, "insert")
  /\ Sender(w) \in customers
  /\ Fail(w)

\* get_active: the status is read here, before the row is locked.
FindConversation(w) ==
  /\ At(w, "conversation")
  /\ \E c \in Active(Sender(w)) :
       /\ conv' = [conv EXCEPT ![w] = c]
       /\ seen' = [seen EXCEPT ![w] = status[c]]
  /\ Goto(w, "save")
  /\ UNCHANGED <<msg, inserted, verdict, replied, tables, inbox, crashes, history>>

\* Mutant: a new customer's conversation is not created.
StartNothing(w) ==
  /\ At(w, "conversation")
  /\ Active(Sender(w)) = {}
  /\ Goto(w, "save")
  /\ UNCHANGED <<msg, conv, seen, inserted, verdict, replied, tables, inbox, crashes, history>>

StartConversation(w) ==
  /\ At(w, "conversation")
  /\ Active(Sender(w)) = {}
  /\ conv' = [conv EXCEPT ![w] = msg[w]]
  /\ seen' = [seen EXCEPT ![w] = "bot"]
  /\ Goto(w, "save")
  /\ UNCHANGED <<msg, inserted, verdict, replied, tables, inbox, crashes, history>>

\* The short-circuit on the status read before.
ShortCircuit(w) ==
  /\ IF seen[w] = "human_takeover"
     THEN Goto(w, "commit") /\ verdict' = [verdict EXCEPT ![w] = "parked"]
     ELSE Goto(w, "content") /\ UNCHANGED verdict
  /\ UNCHANGED <<msg, conv, seen, inserted, replied, tables, inbox, crashes, history>>

\* Mutant: message ids are not unique in the table.
SaveAgain(w) ==
  /\ At(w, "save") /\ Free(conv[w])
  /\ ShortCircuit(w)

\* Mutant: the status is not looked at.
SaveAndGoOn(w) ==
  /\ At(w, "save") /\ Free(conv[w])
  /\ home[msg[w]] = None
  /\ Goto(w, "content")
  /\ UNCHANGED <<msg, conv, seen, inserted, verdict, replied, tables, inbox, crashes, history>>

\* save_inbound, then increment_message_count, which waits for the row.
Save(w) ==
  /\ At(w, "save") /\ Free(conv[w])
  /\ home[msg[w]] = None
  /\ ShortCircuit(w)

DuplicateMessage(w) ==
  /\ At(w, "save")
  /\ home[msg[w]] # None
  /\ Fail(w)

\* Transcription fails, nothing is left to answer, or Claude replies,
\* escalates, or cannot be reached.
Understand(w) ==
  /\ At(w, "content")
  /\ \E v \in Verdicts \ {"parked"} :
       /\ verdict' = [verdict EXCEPT ![w] = v]
       /\ Goto(w, IF v \in {"failed", "silent"} THEN "commit" ELSE "send")
  /\ UNCHANGED <<msg, conv, seen, inserted, replied, tables, inbox, crashes, history>>

\* A tool ran into an error of Postgres, or the handoff could not be written
\* (Turn has the details): nothing of the transaction survives and nothing is
\* sent.  The message goes to the dead letters, or its process ends.
Spoil(w) ==
  /\ At(w, "content")
  /\ Forget(w)
  /\ inbox' \in {inbox, inbox \ {msg[w]}}
  /\ UNCHANGED <<tables, crashes, history>>

Reach(w) ==
  /\ delivered' = [delivered EXCEPT ![msg[w]] = @ + 1]
  /\ late' = [late EXCEPT ![conv[w]] =
       IF status[conv[w]] = "human_takeover" THEN @ + 1 ELSE @]

\* send_text: a reply that reached the customer may still be reported as a
\* failure, when the response of WhatsApp is lost; it is saved only when it is
\* reported as sent.
Send(w) ==
  /\ At(w, "send")
  /\ \/ UNCHANGED <<history, replied>>
     \/ Reach(w) /\ replied' \in {replied, replied \cup {w}}
  /\ Goto(w, "commit")
  /\ UNCHANGED <<msg, conv, seen, inserted, verdict, tables, inbox, crashes>>

\* The statements of the transaction: customer, conversation, counters,
\* inbound row, handoff and its status, outbound row.
Write(w) ==
  /\ customers' = customers \cup {Sender(w)}
  /\ status' = [status EXCEPT ![conv[w]] =
       IF verdict[w] = "escalated" THEN "human_takeover" ELSE IF @ = None THEN "bot" ELSE @]
  /\ message_count' = [message_count EXCEPT ![conv[w]] = @ + 1]
  /\ ai_count' = [ai_count EXCEPT ![conv[w]] =
       IF verdict[w] \in {"reply", "escalated"} THEN @ + 1 ELSE @]
  /\ home' = [home EXCEPT ![msg[w]] = conv[w]]
  /\ handoffs' = IF verdict[w] \in {"escalated", "fallback"} THEN handoffs \cup {msg[w]} ELSE handoffs
  /\ replies' = IF w \in replied THEN replies \cup {msg[w]} ELSE replies
  /\ answered' = IF verdict[w] = "failed" THEN answered ELSE answered \cup {msg[w]}

\* Mutant: the handoff updates the status in a session of its own, which
\* waits for the row this transaction holds.
CommitElsewhere(w) ==
  /\ At(w, "commit")
  /\ verdict[w] = "escalated" => Free(conv[w])
  /\ Write(w)
  /\ Goto(w, "ack")
  /\ inserted' = inserted \ {w} /\ replied' = replied \ {w}
  /\ UNCHANGED <<msg, conv, seen, verdict, inbox, crashes, history>>

\* They all take effect at once.
Commit(w) ==
  /\ At(w, "commit")
  /\ Write(w)
  /\ Goto(w, "ack")
  /\ inserted' = inserted \ {w} /\ replied' = replied \ {w}
  /\ UNCHANGED <<msg, conv, seen, verdict, inbox, crashes, history>>

\* Acknowledged, or moved to the dead-letter list.
Ack(w) ==
  /\ At(w, "ack")
  /\ inbox' = inbox \ {msg[w]}
  /\ Forget(w)
  /\ UNCHANGED <<tables, crashes, history>>

\* The process dies; Postgres rolls its transaction back.
Crash(w) ==
  /\ pc[w] # "idle" /\ crashes < MaxCrashes
  /\ crashes' = crashes + 1
  /\ Forget(w)
  /\ UNCHANGED <<tables, inbox, history>>

-----------------------------------------------------------------------------
(* The owner's requests: one UPDATE, which waits for the row, and a commit. *)

SetStatus(c, to) ==
  /\ status[c] # None /\ Free(c)
  /\ status' = [status EXCEPT ![c] = to]
  /\ UNCHANGED <<customers, message_count, ai_count, home, handoffs, replies, answered,
                 inbox, worker, crashes, delivered>>

Takeover(c) == SetStatus(c, "human_takeover") /\ UNCHANGED late

Release(c) == SetStatus(c, "bot") /\ late' = [late EXCEPT ![c] = 0]

-----------------------------------------------------------------------------
Customer(w) == FindCustomer(w) \/ InsertCustomer(w) \/ DuplicateCustomer(w)

Inbound(w) == FindConversation(w) \/ StartConversation(w) \/ Save(w) \/ DuplicateMessage(w)

Outbound(w) == Understand(w) \/ Spoil(w) \/ Send(w) \/ Commit(w) \/ Ack(w)

WorkerStep(w) == Take(w) \/ Customer(w) \/ Inbound(w) \/ Outbound(w)

Next ==
  \/ \E w \in Workers : Poll(w) \/ WorkerStep(w) \/ Crash(w)
  \/ \E c \in Messages : Takeover(c) \/ Release(c)

Spec == Init /\ [][Next]_vars

\* Claude, Groq and WhatsApp calls have timeouts; Postgres grants a row and a
\* unique key to those who wait for it in turn: nobody is passed over for ever.
Fairness ==
  \A w \in Workers : WF_vars(WorkerStep(w)) /\ SF_vars(Save(w)) /\ SF_vars(InsertCustomer(w))

FairSpec == Spec /\ Fairness

-----------------------------------------------------------------------------
(* Properties.                                                             *)

TypeOK ==
  /\ customers \subseteq Customers
  /\ status \in [Messages -> Statuses \cup {None}]
  /\ message_count \in [Messages -> Nat] /\ ai_count \in [Messages -> Nat]
  /\ home \in [Messages -> Messages \cup {None}]
  /\ handoffs \subseteq Messages /\ replies \subseteq Messages /\ answered \subseteq Messages
  /\ inbox \subseteq Messages
  /\ pc \in [Workers -> Labels]
  /\ msg \in [Workers -> Messages \cup {None}]
  /\ conv \in [Workers -> Messages \cup {None}]
  /\ seen \in [Workers -> Statuses \cup {None}]
  /\ \A w \in Workers : pc[w] # "idle" => msg[w] \in Messages
  /\ \A w \in Workers : pc[w] \in {"save", "content", "send", "commit", "ack"} => conv[w] \in Messages
  /\ inserted \subseteq Workers /\ replied \subseteq Workers
  /\ verdict \in [Workers -> Verdicts \cup {None}]
  /\ \A w \in Workers : pc[w] \in {"send", "commit", "ack"} => verdict[w] \in Verdicts
  /\ crashes \in 0..MaxCrashes
  /\ delivered \in [Messages -> Nat] /\ late \in [Messages -> Nat]

\* A customer has at most one conversation that is not closed, although
\* nothing in the table says so: two workers that create one at once both
\* have to insert the customer first.
OneConversation == \A d \in Customers : \A b, c \in Active(d) : b = c

\* message_count is the number of inbound rows of the conversation, and no
\* row is counted for an answer it did not get: concurrent messages, parked
\* and failed ones, redeliveries and rollbacks included.
CountsMatch ==
  \A c \in Messages :
    /\ message_count[c] = Cardinality({m \in Messages : home[m] = c})
    /\ ai_count[c] <= message_count[c]

\* A message is answered more often than once only when a worker died after
\* sending and before the commit: redelivery alone never sends twice, even to
\* two workers at the same time.
RepliesNeedCrashes == \A m \in Messages : delivered[m] <= 1 + crashes

\* A takeover does not stop a reply whose transaction read the status before,
\* but each worker has at most one of those, and none after it.
LateRepliesBounded == \A c \in Messages : late[c] <= Cardinality(Workers)

\* What the endpoint says of a takeover: it disables the replies of the AI.
NoReplyInTakeover == \A c \in Messages : late[c] = 0

\* The transactions of the workers implement the steps the queue counts on.
Database == INSTANCE Processing
              WITH recorded <- {m \in Messages : home[m] # None}, settled <- answered

RecordedOnce == Database!Spec

\* A worker that took a message gets rid of it: it does not wait for ever for
\* a row, not even for one it holds itself.
BusyEnds == \A w \in Workers : pc[w] # "idle" ~> pc[w] = "idle"
=============================================================================

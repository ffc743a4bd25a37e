# A verification project for whatsapp-agentic-crm

TLA+ models of the CRM, checked with TLC and proved with TLAPS. The program
receives WhatsApp messages by webhook, queues them in Redis, and has worker
processes answer them with Claude, record everything in Postgres, and hand
conversations over to a human. Beside that path, people at the shop work on the
handoffs, and a script copies the Shopify catalogue into Postgres and Qdrant.

## 1. Inventory

| Part | Source | State | Operations |
|---|---|---|---|
| Webhook | `src/src/api/webhooks/whatsapp.py` | deduplication keys (Redis), the batch of a background task | verify, parse, `SET NX`, enqueue |
| Message queue | `src/src/workers/queue.py` | lists *messages*, *processing*, *dead*; hash of claim times | enqueue, claim, ack, dead-letter, recover |
| Worker | `src/src/workers/message_processor.py` | message in hand, time of the last recovery | recover, poll, download, process, stop |
| Orchestrator | `src/src/core/orchestrator.py` | one database transaction per message | customer, conversation, inbound row, short-circuit, transcription, Claude, reply / handoff / fallback |
| Repositories | `src/src/db/` | Postgres tables, unique keys, row locks | select, insert, update |
| Agent API, Control Room | `src/src/api/agent/`, `src/src/api/control_room/` | none of their own | takeover, release, assign, resolve, notes, send |
| System events | `src/src/services/observability/` | a log table | emit, in a session of its own |
| Claude tool loop | `src/src/services/ai/` | rounds, escalation | up to five rounds of tool calls |
| WhatsApp client, policy | `src/src/services/whatsapp/` | none | send, download, decide whether a free-form send is allowed |
| Product sync, vector store | `src/src/services/shopify/`, `src/src/db/vector_store.py` | products and variants (Postgres), points (Qdrant) | sync all |
| Product search | `src/src/core/product_matcher.py` | none | semantic search, fallback, filters |
| Speech | `src/src/services/speech/` | none | transcribe, detect the dialect, normalise |
| Privacy, offline evaluator, exports, start-up, configuration, prompts, scripts | rest of `src/` | none that the above depend on | |

How they interact. The webhook's background task and the workers share the Redis
lists. Workers, the agent API and the Control Room share the Postgres rows and, in
one process, a pool of connections: a worker's transaction stays open through
transcription, Claude and the send, and holds the conversation's row from the first
counter update on. Claude's tools run in the orchestrator's own transaction. A sync
writes Postgres in one transaction and Qdrant point by point. WhatsApp, Qdrant and
the events are outside the transaction: what was sent stays sent.

What is hard here: a crash between any two Redis commands (none of the sequences is
a `MULTI`); a crash between the commit and the acknowledgement; redelivery by Meta
and by recovery; two workers with the same message; a status read before the row is
locked; notes read before the row is locked; an effect outside the transaction that
is rolled back; a statement that fails, is swallowed, and leaves a transaction that
cannot be committed; a request that needs two connections of one pool; two syncs at
once without a unique key for what they insert; rewriting passes whose order counts.

What makes each part correct:

* queue: no accepted message is lost, none is duplicated, each is answered or rejected
  and what is rejected stays unanswered;
* orchestrator: a message is recorded once, a customer has one conversation,
  counters are exact, nobody is answered twice, a takeover silences the AI;
* one turn: what the customer is told is what the database holds; an escalation
  Claude asked for reaches the desk; the turn ends in one verdict;
* handoffs: filed once, assigned once, never reopened; an answered request has
  happened; notes are not lost; every request ends;
* sync: no duplicate rows while no runs overlap, a run that reports no error has
  mirrored the shop, a search offers what the tables hold;
* speech: the right dialect, the same before and after normalisation; the words of
  the customer kept, the words Whisper made up gone (section 6 has where the code does
  not go that far).

## 2. Plan

The order in which the modules were written, the most important first.

1. `MessageQueue` (with the abstract `Delivery`): webhook task, queue, worker loop.
2. `Conversation` (with the abstract `Processing`): the orchestrator's transactions
   against each other and against takeover and release.
3. `Turn` (with the abstract `TurnOutcome`): the decisions inside one transaction,
   the tool loop and the client's send included.
4. `HandoffDesk` (with the abstract `HandoffLife`): the owners' requests, their locks,
   connections and events.
5. `Catalog`: syncs and searches.
6. `Speech`: detector and normaliser as operators.

What is left, in order:

* the agent's own messages (`send_message`), with their order among the customer's
  (`created_at`): the insert takes only a key-share lock on the conversation, so it
  neither waits for a worker nor keeps one waiting, and no modelled step reads the row;
* a customer's language and dialect over several voice notes.

No module that is proved about declares a RECURSIVE operator.

How the modules fit together. `MessageQueue` sees a processing as one step that
either records the message or not; `Processing` is that assumption, and
`Conversation` implements it. `Conversation` sees the decision as one step
(`Understand`); `Turn` opens it, for one worker, and `TurnOutcome` is what it
promises: one verdict and its rows. `HandoffDesk` takes over where `Turn` files a
handoff; its `File` is the commit of such a turn. `Catalog` is what the tools of
`Turn` search. `Speech` is what happens in `Turn`'s `Transcribe`; `MCTurn` puts both
into one run.

## 3. Modules

### MessageQueue

A step is one Redis command or one decision between two of them.

| Code | Model |
|---|---|
| `wa:queue:messages`, `...:processing` | `queue`, `processing`: sequences of payloads (message, attempts, `recovered_at`) |
| `...:processing:started` | `started`: the age of each message's claim, or `None`. Keyed by message, as `_payload_token` keys it |
| `...:dead` | `dead`: how many entries each message has |
| `wa:msg:<id>` keys | `dedup` |
| rows of the message, success of its orchestration | `stored`, `answered` |
| a background task's remaining batch; between `SET NX` and `RPUSH` | `hook`; `pushing` |
| a worker's place, payload, and what it will do with it | `pc`, `job`, `fate` |
| the rest of a recovery scan, the claims found too old | `scan`, `expired` |

`AcceptNew`, `SkipDuplicate`, `Enqueue`, `HookDies` are `_enqueue_messages`. A worker
goes `top` (`SkipRecovery` or `StartRecovery`), `scan` (`ScanSkip`, `ScanStale`,
`EndRecovery`), `poll` (`Claim`, `PollTimeout`), `stamp` (`Stamp`), `busy` (`Succeed`,
`FailStored`, `FailEarly`, `PoisonCrash`), then `Lrem`, `Hdel` and `Requeue` or
`DeadLetter`. The last three steps are shared by `ack_message`, `move_to_dead_letter`
and recovery, because the code shares them. `LREM` removes the first equal payload,
if there is one; `Requeue` and `DeadLetter` push whatever it removed. `PoisonCrash`
is a second processing of a message that has its row: the insert violates the unique
key, the session's commit raises, nothing catches it and the process exits.

Time is the age of a claim. Recovery reads its clock once, before the scan; `expired`
is the set of messages whose claim was too old then, less those whose claim was
rewritten or deleted since. A claim rewritten during the scan is never older than the
clock, so this is the comparison the code makes. Two payloads of a message are equal
exactly when attempts and `recovered_at` agree.

`exposed` is a history variable: messages that were in no list but in the hands of a
process when it died.

`Delivery` is the promise: unseen, pending, then answered or rejected. What is rejected
is never answered. What is answered may be rejected as well: a worker that dies between
the commit and the acknowledgement leaves an answered message to recovery, whose
attempts fail (`PoisonCrash`, `FailEarly`) until one retires it to the dead letters. The
operator then finds a message there whose customer has an answer. `Delivery` has this as
an outcome of its own, "both", with `Retire` as the only way to it, and `OutcomeOf` maps
a message with a committed answer and a dead letter to it.

### Conversation

A step is one statement of a worker's transaction, or a decision between two.
Postgres runs at READ COMMITTED: a select sees committed rows and the transaction's
own; an insert waits for an uncommitted insert of the same unique key and fails when
it commits; an update keeps the row until the end of the transaction.

| Code | Model |
|---|---|
| `customers`, `conversations.status`, `message_count`, `ai_response_count` | `customers`, `status`, `message_count`, `ai_count` |
| inbound rows and their conversation; outbound rows; handoffs | `home`; `replies`; `handoffs` |
| the conversation object a worker holds, and its status when read | `conv`, `seen` |
| the worker's uncommitted customer row, outbound row, decision | `inserted`, `replied`, `verdict` |

A conversation is named by the message whose transaction created it, a handoff by the
message that raised it; both exist at most once for a message. `FindCustomer`,
`InsertCustomer`, `FindConversation`, `StartConversation` are step 1 of
`process_message`, `Save` steps 2 and 3 (the lock, then the test of the status that
was read before it), `Understand` steps 4 and 5, `Send` step 6, `Commit` the end of
`get_session`, with everything the transaction wrote (`Write`). `Takeover` and
`Release` are one update each and wait for the row. `Locks` names who has a row.

`Understand` chooses among what the code does next: transcription raised, no text,
Claude raised, escalated, or replied. The policy check of an automatic reply always
allows it, since it measures the window from the present moment. `Send` may reach the customer
and still be reported as failed (a lost response).

`delivered` and `late` are history variables: automatic replies that reached the
customer for each message, and those sent under each conversation's current takeover.

`Processing` is the interface of the two modules: a message is recorded at most once,
together with whether it was answered. `MessageQueue` assumes it (`Succeed`,
`FailStored`, `PoisonCrash` test `stored`), `Conversation` is shown to implement it.

A worker polls (`Poll`) also when there is nothing to do. `Spoil` is a tool's
statement that Postgres rejects: the tool executor swallows the error, the
transaction can no longer be committed.

### Turn

One message in the hands of a single worker. `pc` is the statement under way.

| Code | Model |
|---|---|
| rounds of `complete_with_tools`, failed attempts at a call, tool calls still to make, the answer has text | `round`, `failures`, `todo`, `said` |
| `ToolCompletionResult`: text not empty, escalation reason, escalation context | `words`, `reason`, `summary` |
| what `process_message` returns | `verdict` |
| the session: usable, aborted by a failed statement, broken by a failed flush | `tx` |
| rows written and not committed; committed; committed handoffs | `staged`; `rows`; `filed` |
| how often the queue handed the message out, crashes | `pass`, `crashes` |

`Download`, `Open` and `Transcribe` come before Claude; `Retry`, `Unavailable`,
`AnswerText`, `AnswerTools`, `CallTool` and `EndRound` are the tool loop with the
decorator of one call; `Count`, `File`, `Send` and `Commit` what follows. A request
for a human is a model value that stands for its reason, priority and summary;
`Unfit` are those the handoffs table rejects. A tool that runs into a Postgres error
leaves `tx` aborted and the loop goes on, as the executor swallows it. `Send` is the
client's `_post_message`: the catch-all inside the retried function turns each error
into a failed result, so the decorator never repeats it. `Redeliver` and `Retire` are
the queue's part after a worker's death.

`asked`, `sent`, `delivered` and `promised` are history variables.

### HandoffDesk

A step is one statement of a request, or a connection it gets or waits for.

| Code | Model |
|---|---|
| the handoffs table: status, agent, notes | `row` |
| a request's statement, and what it asks | `pc`, `job` |
| the notes the Control Room's handler read | `seen` |
| the row as the request's update wrote it; it holds the lock | `staged` |
| the order of waiting for a connection | `ahead` |
| the response | `answer` |

`assign`, `resolve` (agent API), `close` (the Control Room's resolve) and `note` are
the kinds of request. `Matches` is the `WHERE` of the update, evaluated again when the
lock is granted. The Control Room's requests emit an event after the update and before
the commit: `Event` takes a second connection of the pool or waits, `EventTimeout` is
the pool's timeout, swallowed by the emitter, `ConnectTimeout` that of the first
connection, which is an error to the caller. Timeouts are all equal, so whoever has
waited longest gives up first (`ahead`). A note is a text (which stands for its
request), spaces, the empty string or null: the handlers treat these differently.

`overtaken` is a history variable: requests whose handoff changed after they read it.

### Catalog

`shop` is Shopify, `rows` the committed table, `points` Qdrant. A run goes `fetch`
(page by page), then for each product `find`, `flush`, `embed`, `point`, then
`commit`; `mine` is what it has written and not committed, `tx` its session. `Blocked`
says whose uncommitted row keeps a flush waiting, by primary key or by SKU. A failed
flush rolls back everything the run had written and breaks the session; a failed
select aborts the transaction, whose commit then is a rollback that reports success.
`Find` checks for two rows of one product as the code does; with two runs that case is
not reached, since both insert only when they overlap, and then neither runs again.

`Search` is `find_products` over this state: the set of answers it may give to a query
of a price range, an occasion, terms and perhaps a SKU. `Named` is `get_by_sku`, which
comes first and whose product is returned alone, whatever price and occasion the same
call asked for. `Semantic` is the vector search, limited and then looked up and filtered;
`Fallback` reads up to its limit for each term and filters then. `Fit` is the filter for
price and occasion. A query says which rows have its occasion (`suited`) and its terms
(`words`): the texts themselves are not in the state. `Queries` takes for either all live
rows, one or none.

### Speech

A text is a sequence of words, a word a kind and, for dialect words, its place in the
detector's tables. `Weights` has all tables with the weights in tenths; `Within` says
which markers are substrings of others. `Detect` names the dialect, if any. `Clean`
(`Untagged`, `Unscripted`, `Unlisted`, `Commas`), `Spelled`, `Articles` and `Vocabulary`
are the normaliser's passes in their order, and `TranscribedAs` their order after the
detector. `Broken` are the words of the list of hallucinations that have an accented
letter: `Unscripted` takes the letter, and the fragment that is left is not in the list.
`Longer` is a word with a form inside it: the one pattern without word boundaries
(`normalizer.py:188`) rewrites it to `Mangled`. A pass that removes words is an `Omit`
of positions. A comma is a word of the kind "comma". What is asked of one text are the
predicates `NamesSpeaker`, `NamesAlike`, `StaysSaid` and `LosesNoise`; `MCTurn` asks
them of all texts up to a length. The floating-point sums of the program can differ from
the tenths by a rounding error when two scores are equal.

## 4. Runs

| Run | Shows |
|---|---|
| `queue_one` | One worker (the deployment in `docker-compose.prod.yml`), a batch of two messages delivered twice, two crashes anywhere, API process included. `AtMostOneCopy`, `ProcessingIsRecoverable`, `GoneForGood`, and that the queue implements `Delivery`'s safety part (`OneOutcome`): an outcome is final, but for an answered message that is retired. |
| `queue_pair` | Two workers that are slower than the timeout, acknowledge late and recover the same entries. `LostOnlyInHand`: a message is lost only by dying with it. |
| `queue_live` | With crashes outside the three windows, every accepted message gets an outcome (`OneOutcomeInTheEnd`, `Delivery` with its fairness). |
| `queue_loss` | Violation. `NoSilentLoss`: the runbook's "queue recovery prevents silent loss if the worker crashes mid-processing". Counterexample: a rejected message, `LREM`, crash before the dead letter. |
| `queue_stuck` | Violation. `AcceptedIsSettled`: the architecture's "so work is recoverable after a worker crash". Counterexample: `BLMOVE`, crash before `HSET`; recovery takes the missing time for now at every scan. |
| `conv_pair` | Two workers, three messages of a new customer, handed out more than once, a crash, takeovers and releases at any time. One conversation, exact counters, no second answer without a crash, late replies at most one per worker, `Processing` implemented. |
| `conv_live` | Two workers. Nobody waits for ever for a row or a unique key. |
| `conv_takeover` | Violation, with one worker and no crash. `NoReplyInTakeover`: the endpoint's "(disables AI responses)". Counterexample: the status is read, the takeover commits, the row is locked, the reply is sent. |
| `turn` | One worker, one message of any kind, three possible requests for a human (one unfit), five rounds, up to two tool calls an answer, three attempts, two passes, a crash. Nothing is said in a transaction that cannot commit; an escalation is filed with its last summary, also at the end of the rounds; a promise is kept; one message unless a crash; one verdict with its rows; the turn ends. In the state `First`, the four rules for the words of a voice note, for each language and, where the vocabulary counts, each dialect: words stay and read as before, except those that the unanchored pattern mangles (`MeaningKept`); noise goes, except one fragment of each accented word (`NoiseGone`). |
| `desk` | Three requests in two processes on one handoff, assign, resolve, close and note, pools of two connections, a crash. A handoff goes forward only (`HandoffLife`); what was answered holds; notes; every request ends. |
| `desk_events` | Violation, with one process and no crash. `HotPathSpared`: "operational visibility never becomes a new hot-path failure mode". Counterexample: as many requests as connections wait for their event's, another waits for its first and is turned away. |
| `catalog` | Two runs, two products, three offers of them, one change of the shop, a page of two. No duplicate rows without overlap, orphaned points only after a reported failure, a clean run that was alone mirrors, runs end. A search brings the product of a SKU alone; otherwise live rows that fit price and occasion, and some if a term finds them. |

Bounds, and why they suffice. Two messages put one in process while another is
recovered, requeued or behind it; three in `conv_pair` put one before and two during
a race. `StaleAfter = 1`: a claim is young or too old, the code makes no other
difference. `MaxRecoveryAttempts = 1` gives a first recovery, a requeue and the
retirement. Two crashes cover a crash and one during the repair of the first.
`ScanLimit = 1` in `queue_pair` makes scans partial, `RecoveredAt` of two values lets
two recoveries of one entry produce equal or different payloads. In `conv_pair` all messages
are one customer's: conversations of different customers share no row, so they do not
interfere. Its symmetry exchanges workers and messages, which no definition
distinguishes; `conv_live` uses none.
`MaxCrashes` counts spontaneous crashes; `PoisonCrash` is not bounded by it.

`turn` has the program's own `MaxRounds = 5` and three attempts. Two calls in one answer
give a first and a second request, or an error before one; two passes and one crash
give a redelivery and its end. `desk`: three requests give a reader, an overtaking
writer and a third that takes the connection; a second process has a pool of its own;
two connections are the least with which an event can be written and the pool can be
exhausted. `catalog`: two products give a SKU that moves and two locks in two orders;
`Limit = 1`, so the index is asked for three. Prices are whole rupees. The words:
every text of up to three markers of one dialect (`MaxSpoken`); every form with every pair of markers;
every text of up to four words over twelve kinds (`MaxHeard`): two articles, two commas, or noise
between two words, each with something before or after it.

Crash points. `queue_live` leaves out `stamp`, `hdel`, `push` and the webhook: the
windows of the two violations and of the webhook's own (`SET NX` done, `RPUSH` not).

Deadlock is checked in the runs of `MessageQueue` and `Conversation`: an idle worker
polls, so the system never stops. A turn, a set of requests and a set of syncs do end,
so the other runs do not check it; that they end well is a property of each.

Fairness. `queue_live`: weak fairness of each worker and each webhook task (their
awaits have timeouts), of `Restart` (docker restarts the container: `restart: always`)
and of the clock; strong fairness of `StartRecovery`, because the recovery interval
passes again and again in a loop that runs on. `conv_live`: weak fairness of each
worker, for the same reason, and strong fairness of `Save`, because Postgres grants a
row lock to those who wait in the order they came. The owner's requests are not fair;
strong fairness of `InsertCustomer` stands for unique keys being granted in turn, too.
`turn`: weak fairness of the turn's steps (every call has a timeout) and of the queue's
recovery. `desk`: weak fairness of each request and strong fairness of `Update`: row locks are
granted in turn, and waiting for a connection has a timeout. `catalog`: weak fairness
of each run's steps; Postgres ends a deadlock by failing a statement.

## 5. Proofs

`MessageQueueProofs`, for any constants that satisfy `QueueAssumption`:

* `TypeCorrect`: `Spec => []TypeOK`. `TypeOK` is inductive; it ties `pc`, `job` and
  `fate` together and carries the bound on attempts.
* `LossOnlyInHand`: `Spec => []LostOnlyInHand`, for any number of workers. By itself it
  is not inductive: an acknowledgement removes an entry and must know that its message
  has a row. `AckedIsStored` adds that. The proof distinguishes what a worker's step
  does to the places of a message (`InAppend`, `InTail`, `InRemoveFirst`).
* `UsesThePromise`: the queue implements `Processing` too, for any number of workers: it
  asks nothing of the database but what `ConversationProofs` shows that it gives.

`ConversationProofs`, for any constants that satisfy `ConversationAssumption`:

* `TypeCorrect`: `Spec => []TypeOK`.
* `SingleConversation`: `Spec => []OneConversation`. The inductive invariant `TxnInv`:
  a customer's row is there exactly when a conversation is; an uncommitted customer
  row is unique; a worker that did not insert its customer found it committed; it works
  on its own new conversation or on a committed one; a row has one holder; the message
  of a holder is not recorded. The key lemma is `SameConversation`: two transactions
  of one customer have the same conversation, so the row lock excludes them.
* `RecordsOnce`: `Spec => RecordedOnce`, the refinement of `Processing`, from the last
  two conjuncts of `TxnInv`.
* `CountsAreExact`: `Spec => []CountsMatch`; `CountsInv` adds that the counted sets are
  finite, so no assumption on `Messages` is needed.
* `FurtherRepliesNeedCrashes`: `Spec => []RepliesNeedCrashes`. `RepliesInv`: a message
  without a row, whose worker has not sent yet, was answered at most once for each
  crash. `TxnInv` gives that no second worker can hold the row with the same message.
* `LateRepliesAreBounded`: `Spec => []LateRepliesBounded`. `LateInv`: under a takeover the
  late replies and the workers that may still send one (`Pending`) are together no more
  than the workers; a takeover starts with no late reply and adds nobody to them.
* `WaitingEndsAtOne`: whoever a worker waits for, for a key or for a row, waits for nobody.
  A holder of a row is past its last statement that may wait, and who has inserted a
  customer finds its own conversation's row free (`OwnRowIsFree`).

`TurnProofs`, for any constants that satisfy `TurnAssumption`: any number of rounds,
calls, attempts, passes and crashes.

* `TypeCorrect`, and from the inductive invariant `TurnInv`: `SilentOnceBroken`,
  `EscalationsReachTheDesk`, `PromisesAreKept`, `NobodyIsToldTwice`. `TurnInv` has four
  parts. `Progress`: up to the count, the transaction holds the message alone and
  nothing has been decided. `Settled`: past the send, what is staged is what the verdict
  promises. `Cause`: Claude's last request is the one that counts. `Quiet`: nothing goes
  out before the send, and only a crash makes a second pass of one that sent something.
* `EndsInOneVerdict`: `Spec => EndsWhole`, the refinement of `TurnOutcome`; every step
  but the last maps to a stutter, and `Settled` gives the last one its rows.
* `NoTurnIsEndless`: each step goes on in the tuple of passes, rounds, statements, tool
  calls left and attempts, and back in none before it. `TypeCorrect` bounds the passes,
  the rounds and the attempts; the calls left are finitely many.

`HandoffDeskProofs`, for any constants that satisfy `DeskAssumption`:

* `TypeCorrect`: `Spec => []TypeOK`.
* `AnswersStand` from `DeskInv`: no pending handoff has an agent, a row has one writer,
  and a staged row is made from the committed one, which cannot change under the lock.
* `GoesForward`: `Spec => OneWay`, the refinement of `HandoffLife`: only commits and
  `File` change the table, and `DeskInv` says what a commit may write.
* `NotesAreKept`: `Spec => NotesKept`; `Informed` adds that the Control Room's handler
  knows the notes unless it was overtaken.
* `NobodyTurnsBack` and `NeverAllWait`: each step takes a request on to its end, and while
  one is under way, one can go on. Who waits for a row waits for a writer, who waits at
  most for a connection; the waiters of a pool stand in line (`InLine`), and as there
  are finitely many, the line has a head (`LineHasHead`), which gets a connection or
  gives up.

`CatalogProofs`, for any constants that satisfy `CatalogAssumption`:

* `CatalogTypes` and `OrphansAreReported`, from the inductive invariant
  `TypeInv /\ Ledger`. `Ledger` has four parts. `FoundStands`: the row in a run's hand
  is one it can see, since rows are never removed and its own rows stay until it counts
  an error. `OwnRows`: what a run writes is committed or carries the run's own id.
  `Charged`: a lost session was counted as an error. `Accounted`: a point has a
  committed row, or the run that made its id has the row, an error or a failure. The
  invariant is also what gives `Written` its type: the columns a statement leaves alone
  must come from a row that exists.
* `RowsAreUnique` from `Solitude`: while no two runs have overlapped, at most one is at
  work, each view has one row for each product, and what `Find` found is still the
  whole answer when the flush comes (`FlushKeepsOne`). An overlap breaks just that.
* `RunsGoOn` and `LocksAreReleased`: each step moves one run's cursor, position or
  statement forward, and a run that waits at its flush waits for one that can go on, or
  is one of two that wait, which Postgres ends.

`MirrorProofs`, on top of `CatalogProofs`; `MirrorInv` has four parts. `Finite`: the tables
are (from the products being finitely many). `Pages`: fetched products are distinct
and come in the cursor's order. `IdNames`: a row's id names its product. `Clean`: while a
run is alone and has counted no error, each product behind it has its one row and its
point, and the one in hand is as far as its program counter says.

* `CleanRunsMirror`: `Spec => CleanRunMirrors`. `FlushMirrors` says what a flush leaves:
  the row of the product in hand as the shop had it, though the statement writes only
  the columns that differ from what was read, and no other product's row changed.
* `SearchesFind`: `Spec => []SearchFinds`, which needs of the state only that it is
  finite: the index may hold anything. `Matches` says what the filters leave and when the
  fallback has read all rows of a term; a SKU's product comes alone and unfiltered.

`OneWorkerProofs`, on top of `MessageQueueProofs`, for any messages, calls, recoveries and
crashes, under the further assumption `OneWorker` (the deployment; with two workers
`AtMostOneCopy`, for one, fails when a slow worker's message is recovered by another):

* `OneWorkerInvariant`: `OneInv` has four parts. `Apart`: a message is in one place.
  `InWork`: what is in hand is on the processing list under its claim, what a scan has
  still to look at is on that list. `Recorded`: there is nothing of a message that was
  not accepted. `Rejected`: a rejected message is nowhere.
* `NeverTwoCopies`, `WorkIsRecoverable`, `GoneStaysGone` for `AtMostOneCopy`,
  `ProcessingIsRecoverable`, `GoneForGood`; `OutcomeIsFinal`: `Spec => OneOutcome`, the
  refinement of `Delivery`'s safety part. A dead letter of an answered message maps to
  `Retire`; that no second dead letter follows rests on `Rejected`.

`SpeechProofs`, about texts of any length; the properties of `turn` are instances:

* `WordsStay` (`SaidWordsStay`: `Spec => []MeaningKept`). What `Omit` leaves is the
  enumeration of the kept positions in their order (`OmitPositions`), and there is only
  one (`OneEnumeration`). Hence a pass that drops no word of the customer's does not
  change what was said, and a pass that respells words commutes with reading it. The
  vocabulary is such a pass but for the words that contain a form of the detected dialect:
  the theorem says that each of those, and none else, comes out mangled.
* `NoiseGoes` (`MadeUpWordsGo`: `Spec => []NoiseGone`). Noise goes with the first three
  passes; of the accented words as many fragments stay as there were such words.
  Neighbours in what a pass leaves are traced back to the raw text: between them stood
  only what the pass takes. So an article left before a native word, or a comma left at
  an end, had another article or comma next to it once the noise was gone.
* `SpeakerNamed` (`NamedSpeaker`: `Spec => []OwnDialect`). A text of one dialect's
  markers shows a marker of another dialect only when one of them contains it; by the
  tables that happens in one case (`OnlyOwn`), where both weigh the same and the other
  dialect comes later in the list.
* `SameDialect` (`StoredDialect`: `Spec => []DialectStable`), for the markers, forms and
  other words of a language, noise included. Up to the vocabulary no marker or form is
  lost; the vocabulary writes markers of the detected dialect only, and no form it
  replaces takes a marker of another dialect with it. So the score of the detected
  dialect does not fall and the others' stay the same.

These need induction over the length of a text and over the list of markers. The
library's induction theorems take an operator and cannot be instantiated here, so
`NatSets` states induction of sets: a set of numbers that has zero and, with each
number, the next one has them all (from the well-foundedness of `<`). Each induction
names the set of the lengths for which its claim holds.

Only model-checked: liveness (`OneOutcomeInTheEnd`, `BusyEnds`, `TurnEnds`,
`RequestsEnd`, `RunsEnd`), which is beyond this prover. What these say short of fairness is
proved for turns, requests and runs: each step brings one nearer to its end, and someone
can always take one (`NoTurnIsEndless`, `NobodyTurnsBack`, `NeverAllWait`, `RunsGoOn`,
`LocksAreReleased`, `WaitingEndsAtOne`). The violations are TLC's counterexamples.

## 6. Where the code does less than it says

Besides the violations that runs show, four differences that the properties state as
outcomes rather than forbid:

* An answered message can end among the dead letters (`Delivery`'s "both"): recovery
  cannot tell a committed message from a failed one.
* `normalizer.py:13-14` says "we never change meaning". `normalizer.py:188` is the only
  pattern without word boundaries and rewrites a form inside longer words (`MeaningKept`
  says which words are changed).
* `normalizer.py:101` says "Remove known hallucinated words". Three words of that list
  (`normalizer.py:72-73`) have accented letters, which line 99 strips first, so a fragment of
  each stays (`NoiseGone` says how many). The list is also applied to words that a customer
  may well have said ("coral", "inspired"): a listed word counts as noise whoever said it.
* A product search with a SKU in its text (`product_matcher.py:92-100`) ignores the price
  range and the occasion given in the same call (`SearchFinds`).

## 7. Not modelled

* Payloads that are not JSON: the webhook writes only JSON. Messages without an id:
  Meta sends one with every message.
* In `Conversation`, messages rejected before the transaction opens (no sender, failed
  media download): they touch no table; `MessageQueue` has them as `FailEarly`.
* Expiry of the deduplication key after 24 hours; loss of data by Redis or Postgres;
  a Redis error in the middle of a command sequence other than as the death of its
  process, which is what an uncaught exception amounts to.
* The graceful stop: it ends the loop after the message in hand.
* Clients' identity, signatures, prompts, the text of dead letters and logs. System
  events are modelled where a lock is held while one is written (`HandoffDesk`); the
  orchestrator's own events are not: no modelled step reads them.
* Closed conversations: no code closes one.
* The voice reply: the worker passes no text-to-speech service.
* What Whisper hears and what Claude answers: any possible answer is tried. The history
  Claude is given, time stamps and the order of `created_at`.
* The service window: a reply goes out moments after the customer's message, inside it.
* The agent's own messages and a customer's stored language and dialect (see the plan).
* `sync_single_product` and `find_similar`, which nothing calls; the variants' columns; fractions of a
  rupee, where a stored decimal and a parsed float may compare unequal.
* `mask_phone` and the redaction of logs (regular expressions over one string), the
  exports, the Control Room's page and listings, the offline evaluator (a fixed list of
  keyword tests for a demo script), start-up and configuration: no state that a step of
  the models depends on.

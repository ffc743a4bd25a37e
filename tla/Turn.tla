-------------------------------- MODULE Turn --------------------------------
(***************************************************************************)
(* One inbound message from the worker's hands to its verdict: the media   *)
(* download, the transcription, Claude's rounds of tool calls, the handoff *)
(* or the reply, and the transaction all of it is part of.  Conversation   *)
(* has this in one step (Understand) and several workers; here is one      *)
(* worker and every statement that can fail.                               *)
(*                                                                         *)
(* The tools run in the orchestrator's own transaction, and the executor   *)
(* swallows what they raise.  A statement Postgres rejects leaves the      *)
(* transaction "aborted": every later statement raises, and its COMMIT     *)
(* rolls back without an error.  A flush that raises leaves the session    *)
(* "broken": its commit raises, and the worker process ends.               *)
(***************************************************************************)
EXTENDS Naturals, Sequences, FiniteSets

CONSTANTS
  Requests,     \* escalations Claude may ask for: a reason, a priority, a summary
  Unfit,        \* those the handoffs table rejects (a reason over 255 characters)
  MaxRounds,    \* rounds of tool calls (max_tool_rounds)
  MaxAttempts,  \* attempts at one call of Claude (stop_after_attempt)
  MaxCalls,     \* bound on the tool calls of one answer
  MaxPasses,    \* times the queue hands the message out
  MaxCrashes,   \* bound on spontaneous crashes
  None          \* no request, nothing sent

ASSUME TurnAssumption ==
  /\ Unfit \subseteq Requests
  /\ MaxRounds \in Nat \ {0} /\ MaxAttempts \in Nat \ {0} /\ MaxPasses \in Nat \ {0}
  /\ MaxCalls \in Nat /\ MaxCrashes \in Nat
  /\ None \notin Requests \cup {"reply", "ack", "sorry", "exhausted", "unavailable"}
  /\ Requests \cap {"exhausted", "unavailable", "look", "break"} = {}

\* A text, a voice note, and an image or a voice note with nothing to read.
Kinds == {"text", "voice", "bare"}

\* A tool call reads (and answers, or reports its own error), runs into an
\* error of Postgres, or asks for a human.
Calls == {"look", "break"} \cup Requests

\* Why a handoff is made, by Claude's request or in its place.
Reasons == Requests \cup {"exhausted", "unavailable"}

VARIABLES
  kind,       \* what the message is
  pc,         \* the statement in hand
  round,      \* finished rounds of tool calls
  failures,   \* failed attempts at the call in hand
  todo,       \* tool calls of the answer in hand, still to be made
  said,       \* that answer has text
  words,      \* result.response_text is not empty
  reason,     \* result.escalation_reason; None: not escalated
  summary,    \* whose summary the handoff gets; None: a fixed text
  verdict,    \* what process_message returns
  tx,         \* the transaction: "open", "aborted" or "broken"
  staged,     \* what it wrote
  rows,       \* what was committed
  filed,      \* its committed handoffs
  pass,       \* how often the message was handed out
  crashes,    \* crashes so far
  asked,      \* history: Claude's last request of this pass
  sent,       \* history: what reached the customer in this pass
  delivered,  \* history: messages that reached the customer
  promised    \* history: the customer was told that a human follows up

loop == <<round, failures, todo, said>>
result == <<words, reason, summary>>
database == <<tx, staged, rows, filed>>
reach == <<sent, delivered, promised>>
queue == <<kind, pass, crashes>>
vars == <<pc, loop, result, verdict, database, queue, asked, reach>>

Labels == {"download", "open", "transcribe", "ask", "tools", "count", "file",
           "send", "commit", "dead", "over"}

Init ==
  /\ kind \in Kinds /\ pc = "download"
  /\ round = 0 /\ failures = 0 /\ todo = <<>> /\ said = FALSE
  /\ words = FALSE /\ reason = None /\ summary = None
  /\ verdict = "none" /\ tx = "open" /\ staged = {}
  /\ asked = None /\ sent = None
  /\ rows = {} /\ filed = {}
  /\ pass = 1 /\ crashes = 0
  /\ delivered = 0 /\ promised = FALSE

-----------------------------------------------------------------------------
(* Before the transaction, and up to Claude.                               *)

\* download_media fails on a voice note: it is rejected without a row.
Download ==
  /\ pc = "download"
  /\ \/ pc' = "open" /\ UNCHANGED verdict
     \/ kind = "voice" /\ pc' = "over" /\ verdict' = "lost"
  /\ UNCHANGED <<loop, result, database, queue, asked, reach>>

\* Steps 1 to 3 of process_message; an image without a caption and a voice
\* note without audio leave nothing to answer.
Open ==
  /\ pc = "open"
  /\ staged' = {"inbound"}
  /\ CASE kind = "text"  -> pc' = "ask" /\ UNCHANGED verdict
       [] kind = "voice" -> pc' = "transcribe" /\ UNCHANGED verdict
       [] kind = "bare"  -> pc' = "commit" /\ verdict' = "silent"
  /\ UNCHANGED <<loop, result, tx, rows, filed, queue, asked, reach>>

\* The call raises, the transcript is empty, or there is a text to answer.
\* What raises is caught around the whole of process_message, and get_session
\* commits what there is.
Transcribe ==
  /\ pc = "transcribe"
  /\ \/ pc' = "commit" /\ verdict' = "failed" /\ UNCHANGED staged
     \/ pc' = "commit" /\ verdict' = "silent" /\ staged' = staged \cup {"transcript"}
     \/ pc' = "ask" /\ UNCHANGED verdict /\ staged' = staged \cup {"transcript"}
  /\ UNCHANGED <<loop, result, tx, rows, filed, queue, asked, reach>>

-----------------------------------------------------------------------------
(* complete_with_tools.                                                    *)

\* The connection breaks, the rate is limited, Claude has an internal error:
\* the call is made again.
Retry ==
  /\ pc = "ask" /\ failures + 1 < MaxAttempts
  /\ failures' = failures + 1
  /\ UNCHANGED <<pc, round, todo, said, result, verdict, database, queue, asked, reach>>

\* The attempts are used up, or the error is of another kind: what Claude
\* asked for before is forgotten with the rest of its result.
Unavailable ==
  /\ pc = "ask"
  /\ pc' = "file"
  /\ reason' = "unavailable" /\ summary' = None
  /\ UNCHANGED <<loop, words, verdict, database, queue, asked, reach>>

\* Text without tool calls ends the loop.
AnswerText ==
  /\ pc = "ask"
  /\ words' \in BOOLEAN
  /\ pc' = "count"
  /\ UNCHANGED <<loop, reason, summary, verdict, database, queue, asked, reach>>

AnswerTools ==
  /\ pc = "ask"
  /\ said' \in BOOLEAN
  /\ \E n \in 1..MaxCalls : todo' \in [1..n -> Calls]
  /\ failures' = 0
  /\ pc' = "tools"
  /\ UNCHANGED <<round, result, verdict, database, queue, asked, reach>>

\* Mutant: the first request of the turn is kept.
CallToolFirstWins ==
  /\ pc = "tools" /\ todo # <<>>
  /\ todo' = Tail(todo)
  /\ IF Head(todo) \in Requests
     THEN /\ asked' = Head(todo)
          /\ reason' = IF reason = None THEN Head(todo) ELSE reason
          /\ summary' = IF reason = None THEN Head(todo) ELSE summary
     ELSE UNCHANGED <<asked, reason, summary>>
  /\ tx' = IF Head(todo) = "break" THEN "aborted" ELSE tx
  /\ UNCHANGED <<pc, round, failures, said, words, verdict, staged, rows, filed, queue, reach>>

\* execute: the last request counts; an error of Postgres is swallowed.
CallTool ==
  /\ pc = "tools" /\ todo # <<>>
  /\ todo' = Tail(todo)
  /\ IF Head(todo) \in Requests
     THEN asked' = Head(todo) /\ reason' = Head(todo) /\ summary' = Head(todo)
     ELSE UNCHANGED <<asked, reason, summary>>
  /\ tx' = IF Head(todo) = "break" THEN "aborted" ELSE tx
  /\ UNCHANGED <<pc, round, failures, said, words, verdict, staged, rows, filed, queue, reach>>

\* Mutant: the budget of rounds is not counted.
EndRoundUncounted ==
  /\ pc = "tools" /\ todo = <<>>
  /\ words' = IF reason # None THEN said ELSE words
  /\ pc' = "ask"
  /\ UNCHANGED <<loop, reason, summary, verdict, database, queue, asked, reach>>

\* Mutant: one round too many.
EndRoundLate ==
  /\ pc = "tools" /\ todo = <<>>
  /\ round' = round + 1
  /\ words' = IF reason # None THEN said ELSE words
  /\ pc' = IF round = MaxRounds THEN "count" ELSE "ask"
  /\ UNCHANGED <<failures, todo, said, reason, summary, verdict, database, queue, asked, reach>>

\* After an escalation the text so far is kept and Claude is asked once more.
\* When the rounds are used up without a text, a fixed one takes its place,
\* and the escalation gets a reason and a priority of its own.
EndRound ==
  /\ pc = "tools" /\ todo = <<>>
  /\ round' = round + 1
  /\ LET text == IF reason # None THEN said ELSE words
         spent == round + 1 = MaxRounds
     IN /\ words' = (text \/ spent)
        /\ reason' = IF spent /\ ~text THEN "exhausted" ELSE reason
        /\ pc' = IF spent THEN "count" ELSE "ask"
  /\ UNCHANGED <<failures, todo, said, summary, verdict, database, queue, asked, reach>>

-----------------------------------------------------------------------------
(* What is made of Claude's result.                                        *)

\* Mutant: the reply is sent before its count.
SendFirst ==
  /\ pc = "count"
  /\ staged' = staged \cup {"counted"}
  /\ pc' = IF reason = None THEN "send" ELSE "file"
  /\ UNCHANGED <<loop, result, verdict, tx, rows, filed, queue, asked, reach>>

\* increment_ai_response_count: the first statement after the tools, which
\* raises when one of them aborted the transaction.
Count ==
  /\ pc = "count"
  /\ IF tx = "open"
     THEN /\ staged' = staged \cup {"counted"}
          /\ pc' = IF reason = None THEN "send" ELSE "file"
          /\ UNCHANGED verdict
     ELSE pc' = "commit" /\ verdict' = "failed" /\ UNCHANGED staged
  /\ UNCHANGED <<loop, result, tx, rows, filed, queue, asked, reach>>

\* Mutant: a handoff that cannot be filed is logged and forgotten.
FileOrForget ==
  /\ pc = "file"
  /\ pc' = "send"
  /\ IF tx = "open" /\ reason \notin Unfit
     THEN staged' = staged \cup {"handoff"} \cup
            IF reason = "unavailable" THEN {} ELSE {"takeover"}
     ELSE UNCHANGED staged
  /\ UNCHANGED <<loop, result, verdict, tx, rows, filed, queue, asked, reach>>

\* _execute_handoff and _execute_failure_handoff; only the first takes the
\* conversation over.
File ==
  /\ pc = "file"
  /\ IF tx = "open" /\ reason \notin Unfit
     THEN /\ staged' = staged \cup {"handoff"} \cup
               IF reason = "unavailable" THEN {} ELSE {"takeover"}
          /\ pc' = "send"
          /\ UNCHANGED <<tx, verdict>>
     ELSE pc' = "commit" /\ verdict' = "failed" /\ tx' = "broken" /\ UNCHANGED staged
  /\ UNCHANGED <<loop, result, rows, filed, queue, asked, reach>>

\* What the customer gets, and what process_message returns for it.
Outgoing ==
  CASE reason = None          -> [text |-> "reply", verdict |-> "reply"]
    [] reason = "unavailable" -> [text |-> "sorry", verdict |-> "fallback"]
    [] OTHER                  -> [text |-> "ack", verdict |-> "escalated"]

\* WhatsApp takes no empty text.
Deliver ==
  /\ reason = None => words
  /\ sent' = Outgoing.text
  /\ delivered' = delivered + 1
  /\ promised' = (promised \/ reason # None)

\* Mutant: the decorator repeats every request that failed.
SendRepeatedly ==
  /\ pc = "send"
  /\ verdict' = Outgoing.verdict
  /\ \/ UNCHANGED <<reach, staged>> /\ pc' = "commit"
     \/ Deliver /\ staged' = staged \cup {"outbound"} /\ pc' = "commit"
     \/ Deliver /\ UNCHANGED staged /\ delivered < 3 /\ UNCHANGED pc
  /\ UNCHANGED <<loop, result, tx, rows, filed, queue, asked>>

\* _post_message sends one request: every error ends as a SendResult, before
\* the retry decorator sees it.  It fails; it succeeds; or the message arrives
\* and its response does not.
Send ==
  /\ pc = "send"
  /\ verdict' = Outgoing.verdict
  /\ \/ UNCHANGED <<reach, staged>>
     \/ Deliver /\ staged' = staged \cup {"outbound"}
     \/ Deliver /\ UNCHANGED staged
  /\ pc' = "commit"
  /\ UNCHANGED <<loop, result, tx, rows, filed, queue, asked>>

-----------------------------------------------------------------------------
(* The end of the transaction, and of the process.                         *)

\* Mutant: the verdict goes out whatever became of the transaction.
CommitBlindly ==
  /\ pc = "commit"
  /\ rows' = IF tx = "open" THEN staged ELSE {}
  /\ filed' = IF tx = "open" /\ "handoff" \in staged
              THEN {[reason |-> reason, summary |-> summary]} ELSE {}
  /\ pc' = "over"
  /\ UNCHANGED <<loop, result, verdict, tx, staged, queue, asked, reach>>

\* get_session commits; an aborted transaction leaves a dead letter and no
\* row; a broken session ends the process.
Commit ==
  /\ pc = "commit"
  /\ CASE tx = "open" ->
            /\ rows' = staged
            /\ filed' = IF "handoff" \in staged
                        THEN {[reason |-> reason, summary |-> summary]} ELSE {}
            /\ pc' = "over" /\ UNCHANGED verdict
       [] tx = "aborted" -> pc' = "over" /\ verdict' = "lost" /\ UNCHANGED <<rows, filed>>
       [] tx = "broken" -> pc' = "dead" /\ UNCHANGED <<verdict, rows, filed>>
  /\ UNCHANGED <<loop, result, tx, staged, queue, asked, reach>>

\* The process dies; Postgres rolls its transaction back.
Crash ==
  /\ pc \notin {"dead", "over"} /\ crashes < MaxCrashes
  /\ crashes' = crashes + 1
  /\ pc' = "dead"
  /\ UNCHANGED <<loop, result, verdict, database, kind, pass, asked, reach>>

\* The queue recovers the message and hands it out again...
Redeliver ==
  /\ pc = "dead" /\ pass < MaxPasses
  /\ pass' = pass + 1 /\ pc' = "download"
  /\ round' = 0 /\ failures' = 0 /\ todo' = <<>> /\ said' = FALSE
  /\ words' = FALSE /\ reason' = None /\ summary' = None
  /\ verdict' = "none" /\ tx' = "open" /\ staged' = {}
  /\ asked' = None /\ sent' = None
  /\ UNCHANGED <<rows, filed, kind, crashes, delivered, promised>>

\* ... until its attempts are used up.
Retire ==
  /\ pc = "dead" /\ pass = MaxPasses
  /\ pc' = "over" /\ verdict' = "lost"
  /\ UNCHANGED <<loop, result, database, queue, asked, reach>>

-----------------------------------------------------------------------------
Prelude == Download \/ Open \/ Transcribe

Claude == Retry \/ Unavailable \/ AnswerText \/ AnswerTools \/ CallTool \/ EndRound

Wrap == Count \/ File \/ Send \/ Commit

Step == Prelude \/ Claude \/ Wrap \/ Redeliver \/ Retire

Next == Step \/ Crash

Spec == Init /\ [][Next]_vars

\* Every call has a timeout, and the queue's recovery runs for ever.
FairSpec == Spec /\ WF_vars(Step)

-----------------------------------------------------------------------------
(* Properties.                                                             *)

Things == {"inbound", "transcript", "counted", "handoff", "takeover", "outbound"}

Handoffs == [reason : Reasons \cup {None}, summary : Requests \cup {None}]

TypeOK ==
  /\ kind \in Kinds /\ pc \in Labels
  /\ round \in 0..MaxRounds /\ failures \in 0..(MaxAttempts - 1)
  /\ pc \in {"download", "open", "transcribe", "ask", "tools"} => round < MaxRounds
  /\ todo \in Seq(Calls) /\ said \in BOOLEAN /\ words \in BOOLEAN
  /\ reason \in Reasons \cup {None}
  /\ summary \in Requests \cup {None}
  /\ verdict \in {"none", "silent", "failed", "reply", "escalated", "fallback", "lost"}
  /\ pc \in {"commit", "over"} => verdict # "none"
  /\ tx \in {"open", "aborted", "broken"}
  /\ staged \subseteq Things /\ rows \subseteq Things
  /\ filed \subseteq Handoffs
  /\ pass \in 1..MaxPasses /\ crashes \in 0..MaxCrashes
  /\ asked \in Requests \cup {None}
  /\ sent \in {None, "reply", "ack", "sorry"}
  /\ delivered \in Nat /\ promised \in BOOLEAN

\* A tool whose error aborted the transaction costs the customer the answer
\* and the database the message, but nothing is said that is not recorded: no
\* message goes out of a transaction that can no longer be committed.
SilentWhenBroken == tx # "open" => sent = None

\* What Claude asked for reaches the desk, through further rounds, a second
\* request, or the end of the budget: a committed turn with a request has a
\* handoff, in the words of the last request, unless Claude failed afterwards.
\* Only a turn that ran out of rounds without a text says "exhausted", and
\* that too keeps Claude's summary.
EscalationFiled ==
  pc = "over" /\ rows # {} /\ asked # None =>
    /\ filed # {}
    /\ \A h \in filed :
         /\ h.reason # "unavailable" => h.summary = asked
         /\ h.reason \in {asked, "exhausted", "unavailable"}
         /\ h.reason = "exhausted" => round = MaxRounds

\* A customer who was told that a human follows up is on the desk's list, if
\* no worker died between the message and the commit.
PromiseKept == pc = "over" /\ promised => filed # {} \/ crashes > 0

\* The customer gets one message at most, lost responses and failing flushes
\* included; only a crash after the send makes it two.
ToldOnce == delivered <= 1 + crashes

\* The turn ends once, with the rows of its verdict, all or none of them.
Outcome == INSTANCE TurnOutcome
             WITH ended <- IF pc = "over" THEN verdict ELSE "none", rows <- rows

EndsWhole == Outcome!Spec

\* Every turn ends: neither Claude's tool calls nor its failures go on for
\* ever, and a message that kills its worker each time is given up.
TurnEnds == <>(pc = "over")
=============================================================================

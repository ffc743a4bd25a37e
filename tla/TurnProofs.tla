----------------------------- MODULE TurnProofs -----------------------------
(***************************************************************************)
(* Proofs about Turn, for any requests and any bounds.                     *)
(***************************************************************************)
EXTENDS Turn, TLAPS

USE DEF Labels

-----------------------------------------------------------------------------
(* Types.                                                                  *)

LEMMA TypeInit == Init => TypeOK
<1> SUFFICES ASSUME Init PROVE TypeOK
  OBVIOUS
<1>1. said \in BOOLEAN /\ words \in BOOLEAN /\ promised \in BOOLEAN
  BY DEF Init
<1>2. staged \subseteq Things /\ rows \subseteq Things
  BY DEF Init
<1> QED
  BY <1>1, <1>2, TurnAssumption DEF Init, TypeOK

LEMMA PreludeType == TypeOK /\ Prelude => TypeOK'
<1> SUFFICES ASSUME TypeOK, Prelude PROVE TypeOK'
  OBVIOUS
<1>1. CASE Download
  BY <1>1, TurnAssumption DEF TypeOK, Download, loop, result, database, queue, reach
<1>2. CASE Open
  <2>1. staged' \subseteq Things /\ rows' = rows
    BY <1>2 DEF Open, Things
  <2>2. pc' \in {"ask", "transcribe", "commit"} /\ verdict' \in {verdict, "silent"}
    BY <1>2, TurnAssumption DEF TypeOK, Open, Kinds
  <2> QED
    <3>1. pc = "open" /\ UNCHANGED <<loop, result, tx, rows, filed, queue, asked, reach>>
      BY <1>2 DEF Open
    <3>2. verdict' # "none" \/ pc' # "commit"
      BY <1>2 DEF TypeOK, Open, Kinds
    <3> QED
      BY <2>1, <2>2, <3>1, <3>2, TurnAssumption DEF TypeOK, loop, result, queue, reach
<1>3. CASE Transcribe
  <2>1. staged' \subseteq Things
    BY <1>3 DEF TypeOK, Transcribe, Things
  <2> QED
    BY <1>3, <2>1, TurnAssumption DEF TypeOK, Transcribe, loop, result, queue, reach
<1> QED
  BY <1>1, <1>2, <1>3 DEF Prelude

LEMMA ClaudeType == TypeOK /\ Claude => TypeOK'
<1> SUFFICES ASSUME TypeOK, Claude PROVE TypeOK'
  OBVIOUS
<1>1. CASE Retry
  BY <1>1, TurnAssumption DEF TypeOK, Retry, result, database, queue, reach
<1>2. CASE Unavailable
  BY <1>2, TurnAssumption DEF TypeOK, Unavailable, Reasons, loop, database, queue, reach
<1>3. CASE AnswerText
  BY <1>3, TurnAssumption DEF TypeOK, AnswerText, loop, database, queue, reach
<1>4. CASE AnswerTools
  <2>1. PICK n \in 1..MaxCalls : todo' \in [1..n -> Calls]
    BY <1>4 DEF AnswerTools
  <2>2. todo' \in Seq(Calls)
    BY <2>1
  <2> QED
    BY <1>4, <2>2, TurnAssumption DEF TypeOK, AnswerTools, result, database, queue, reach
<1>5. CASE CallTool
  <2>1. Head(todo) \in Calls /\ Tail(todo) \in Seq(Calls)
    BY <1>5 DEF TypeOK, CallTool
  <2>2. reason' \in Reasons \cup {None} /\ summary' \in Requests \cup {None} /\ asked' \in Requests \cup {None}
    BY <1>5 DEF TypeOK, CallTool, Reasons
  <2> QED
    BY <1>5, <2>1, <2>2, TurnAssumption DEF TypeOK, CallTool, queue, reach
<1>6. CASE EndRound
  BY <1>6, TurnAssumption DEF TypeOK, EndRound, Reasons, database, queue, reach
<1> QED
  BY <1>1, <1>2, <1>3, <1>4, <1>5, <1>6 DEF Claude

LEMMA WrapType == TypeOK /\ Wrap => TypeOK'
<1> SUFFICES ASSUME TypeOK, Wrap PROVE TypeOK'
  OBVIOUS
<1>1. CASE Count
  <2>1. staged' \subseteq Things
    BY <1>1 DEF TypeOK, Count, Things
  <2> QED
    BY <1>1, <2>1, TurnAssumption DEF TypeOK, Count, loop, result, queue, reach
<1>2. CASE File
  <2>1. staged' \subseteq Things
    BY <1>2 DEF TypeOK, File, Things
  <2> QED
    BY <1>2, <2>1, TurnAssumption DEF TypeOK, File, loop, result, queue, reach
<1>3. CASE Send
  <2>1. staged' \subseteq Things
    BY <1>3 DEF TypeOK, Send, Things
  <2>2. Outgoing.text \in {"reply", "ack", "sorry"} /\ Outgoing.verdict \in {"reply", "escalated", "fallback"}
    BY DEF Outgoing
  <2>3. promised' \in BOOLEAN
    BY <1>3 DEF TypeOK, Send, Deliver, reach
  <2> QED
    BY <1>3, <2>1, <2>2, <2>3, TurnAssumption DEF TypeOK, Send, Deliver, loop, result, queue, reach
<1>4. CASE Commit
  <2>1. CASE tx = "open"
    <3>1. filed' \subseteq Handoffs
      BY <1>4, <2>1 DEF TypeOK, Commit, Handoffs
    <3> QED
      BY <1>4, <2>1, <3>1, TurnAssumption DEF TypeOK, Commit, loop, result, queue, reach
  <2>2. CASE tx = "aborted"
    BY <1>4, <2>2, TurnAssumption DEF TypeOK, Commit, loop, result, queue, reach
  <2>3. CASE tx = "broken"
    BY <1>4, <2>3, TurnAssumption DEF TypeOK, Commit, loop, result, queue, reach
  <2> QED
    BY <2>1, <2>2, <2>3 DEF TypeOK
<1> QED
  BY <1>1, <1>2, <1>3, <1>4 DEF Wrap

LEMMA TypeStep == TypeOK /\ [Next]_vars => TypeOK'
<1> SUFFICES ASSUME TypeOK, [Next]_vars PROVE TypeOK'
  OBVIOUS
<1>1. CASE Prelude
  BY <1>1, PreludeType
<1>2. CASE Claude
  BY <1>2, ClaudeType
<1>3. CASE Wrap
  BY <1>3, WrapType
<1>4. CASE Redeliver
  <2>1. said' \in BOOLEAN /\ words' \in BOOLEAN
    BY <1>4 DEF Redeliver
  <2>2. staged' \subseteq Things /\ todo' \in Seq(Calls)
    BY <1>4 DEF Redeliver
  <2> QED
    BY <1>4, <2>1, <2>2, TurnAssumption DEF TypeOK, Redeliver
<1>5. CASE Retire
  BY <1>5, TurnAssumption DEF TypeOK, Retire, loop, result, database, queue, reach
<1>6. CASE Crash
  BY <1>6, TurnAssumption DEF TypeOK, Crash, loop, result, database, reach
<1>7. CASE UNCHANGED vars
  BY <1>7, TurnAssumption DEF TypeOK, vars, loop, result, database, queue, reach
<1> QED
  BY <1>1, <1>2, <1>3, <1>4, <1>5, <1>6, <1>7 DEF Next, Step

\* Every variable keeps its type; the rounds and the attempts stay within
\* their budgets while Claude can still be asked.
THEOREM TypeCorrect == Spec => []TypeOK
<1> QED
  BY TypeInit, TypeStep, PTL DEF Spec
-----------------------------------------------------------------------------
(* What the transaction holds at each statement.                           *)

Transcribed == {{}, {"transcript"}}

\* Up to the count Claude has not been given up on, and the transaction holds
\* the message alone; from there the rows follow the decision.
Progress ==
  /\ pc \in {"download", "open", "transcribe", "ask", "tools", "count"} => reason # "unavailable"
  /\ pc = "file" => reason # None
  /\ pc \in {"download", "open", "transcribe"} => asked = None /\ reason = None
  /\ pc = "download" => staged = {} /\ tx = "open"
  /\ pc = "open" => staged = {} /\ tx = "open"
  /\ pc = "transcribe" => staged = {"inbound"} /\ tx = "open"
  /\ pc \in {"ask", "tools", "count"} => \E t \in Transcribed : staged = {"inbound"} \cup t
  /\ pc = "file" => \E t \in Transcribed :
       staged = {"inbound"} \cup t \cup (IF reason = "unavailable" THEN {} ELSE {"counted"})

\* Past the send, what is staged is what the verdict promises.
Settled ==
  /\ pc = "send" => tx = "open" /\ \E t \in Transcribed :
       staged = Outcome!RowsOf(Outgoing.verdict) \cup t
  /\ pc = "commit" /\ tx = "open" =>
       /\ verdict \in {"silent", "failed", "reply", "escalated", "fallback"}
       /\ asked # None => verdict \in {"escalated", "fallback"}
       /\ \E extra \in SUBSET {"transcript", "outbound"} :
            /\ verdict \in {"silent", "failed"} => "outbound" \notin extra
            /\ staged = Outcome!RowsOf(verdict) \cup extra
  /\ pc # "over" => rows = {} /\ filed = {}
  /\ rows # {} => staged = rows /\ ("handoff" \in rows <=> filed # {})
  /\ rows # {} /\ asked # None => "handoff" \in rows
  /\ filed # {} => filed = {[reason |-> reason, summary |-> summary]} /\ rows # {}

\* Claude's last request is the one that counts.
Cause ==
  /\ asked # None => reason # None
  /\ reason # "unavailable" => summary = asked
  /\ reason \in {None, asked, "exhausted", "unavailable"}
  /\ reason = "exhausted" => round = MaxRounds /\ pc \notin {"tools", "ask"}

\* Nothing goes out before the send, and only a crash makes a second pass of
\* one that sent something.
Quiet ==
  /\ pc \in {"download", "open", "transcribe", "ask", "tools", "count", "file", "send"} => sent = None
  /\ tx # "open" => sent = None
  /\ delivered <= crashes + (IF sent # None /\ pc \in {"commit", "over"} THEN 1 ELSE 0)
  /\ promised /\ crashes = 0 =>
       /\ pc \in {"commit", "over"} /\ tx = "open"
       /\ "handoff" \in staged
       /\ pc = "over" => filed # {}

TurnInv == Progress /\ Settled /\ Cause /\ Quiet

\* The two actions that branch with CASE, as disjunctions.
LEMMA OpenCases ==
  TypeOK /\ Open =>
    /\ pc = "open" /\ staged' = {"inbound"}
    /\ \/ pc' \in {"ask", "transcribe"} /\ verdict' = verdict
       \/ pc' = "commit" /\ verdict' = "silent"
    /\ UNCHANGED <<loop, result, tx, rows, filed, queue, asked, reach>>
<1> SUFFICES ASSUME TypeOK, Open
             PROVE  \/ pc' \in {"ask", "transcribe"} /\ verdict' = verdict
                    \/ pc' = "commit" /\ verdict' = "silent"
  BY DEF Open
<1>1. CASE kind = "text"
  BY <1>1 DEF Open
<1>2. CASE kind = "voice"
  BY <1>2 DEF Open
<1>3. CASE kind = "bare"
  BY <1>3 DEF Open
<1> QED
  BY <1>1, <1>2, <1>3 DEF TypeOK, Kinds

LEMMA CommitCases ==
  TypeOK /\ Commit =>
    /\ pc = "commit"
    /\ UNCHANGED <<loop, result, tx, staged, queue, asked, reach>>
    /\ \/ /\ tx = "open" /\ pc' = "over" /\ verdict' = verdict
          /\ rows' = staged
          /\ filed' = IF "handoff" \in staged
                      THEN {[reason |-> reason, summary |-> summary]} ELSE {}
       \/ tx = "aborted" /\ pc' = "over" /\ verdict' = "lost" /\ rows' = rows /\ filed' = filed
       \/ tx = "broken" /\ pc' = "dead" /\ verdict' = verdict /\ rows' = rows /\ filed' = filed
BY DEF TypeOK, Commit

LEMMA InvInit == Init => TurnInv
<1> SUFFICES ASSUME Init PROVE TurnInv
  OBVIOUS
<1>1. Progress
  BY TurnAssumption DEF Init, Progress
<1>2. Settled
  BY TurnAssumption DEF Init, Settled
<1>3. Cause
  BY TurnAssumption DEF Init, Cause
<1>4. Quiet
  <2>1. ~promised /\ sent = None
    BY DEF Init
  <2> QED
    BY <2>1 DEF Init, Quiet
<1> QED
  BY <1>1, <1>2, <1>3, <1>4 DEF TurnInv

LEMMA CauseStep == TypeOK /\ TurnInv /\ [Next]_vars => Cause'
<1> SUFFICES ASSUME TypeOK, TurnInv, [Next]_vars PROVE Cause'
  OBVIOUS
<1>1. CASE Download
  BY <1>1, TurnAssumption DEF TurnInv, Cause, Progress, Download, loop, result, database, queue, reach
<1>2. CASE Open
  BY <1>2, OpenCases, TurnAssumption DEF TurnInv, Cause, Progress, loop, result, database, queue, reach
<1>3. CASE Transcribe
  BY <1>3, TurnAssumption DEF TurnInv, Cause, Progress, Transcribe, loop, result, database, queue, reach
<1>4. CASE Retry
  BY <1>4, TurnAssumption DEF TurnInv, Cause, Progress, Retry, loop, result, database, queue, reach
<1>5. CASE Unavailable
  BY <1>5, TurnAssumption DEF TurnInv, Cause, Progress, Unavailable, loop, result, database, queue, reach
<1>6. CASE AnswerText
  BY <1>6, TurnAssumption DEF TurnInv, Cause, Progress, AnswerText, loop, result, database, queue, reach
<1>7. CASE AnswerTools
  BY <1>7, TurnAssumption DEF TurnInv, Cause, Progress, AnswerTools, loop, result, database, queue, reach
<1>8. CASE CallTool
  BY <1>8, TurnAssumption DEF TurnInv, Cause, Progress, CallTool, loop, result, database, queue, reach
<1>9. CASE EndRound
  <2>1. pc = "tools" /\ round' = round + 1 /\ UNCHANGED <<summary, asked>>
    BY <1>9 DEF EndRound
  <2>2. \/ reason' = reason
        \/ reason' = "exhausted" /\ round + 1 = MaxRounds /\ pc' = "count"
    BY <1>9 DEF EndRound
  <2> QED
    BY <2>1, <2>2, TurnAssumption DEF TurnInv, Cause, Progress
<1>10. CASE Count
  BY <1>10, TurnAssumption DEF TurnInv, Cause, Progress, Count, loop, result, database, queue, reach
<1>11. CASE File
  BY <1>11, TurnAssumption DEF TurnInv, Cause, Progress, File, loop, result, database, queue, reach
<1>12. CASE Send
  BY <1>12, TurnAssumption DEF TurnInv, Cause, Progress, Send, loop, result, database, queue, reach
<1>13. CASE Commit
  BY <1>13, CommitCases, TurnAssumption DEF TurnInv, Cause, Progress, loop, result, database, queue, reach
<1>14. CASE Redeliver
  BY <1>14, TurnAssumption DEF TurnInv, Cause, Progress, Redeliver, loop, result, database, queue, reach
<1>15. CASE Retire
  BY <1>15, TurnAssumption DEF TurnInv, Cause, Progress, Retire, loop, result, database, queue, reach
<1>16. CASE Crash
  BY <1>16, TurnAssumption DEF TurnInv, Cause, Progress, Crash, loop, result, database, queue, reach
<1>17. CASE UNCHANGED vars
  BY <1>17 DEF TurnInv, Cause, Progress, vars, loop, result, database, queue, reach
<1> QED
  BY <1>1, <1>2, <1>3, <1>4, <1>5, <1>6, <1>7, <1>8, <1>9, <1>10, <1>11, <1>12, <1>13, <1>14, <1>15, <1>16, <1>17 DEF Next, Step, Prelude, Claude, Wrap

LEMMA QuietStep == TypeOK /\ TurnInv /\ [Next]_vars => Quiet'
<1> SUFFICES ASSUME TypeOK, TurnInv, [Next]_vars PROVE Quiet'
  OBVIOUS
<1>1. CASE Download
  BY <1>1, TurnAssumption DEF TypeOK, TurnInv, Quiet, Progress, Settled, Download, loop, result, database, queue, reach
<1>2. CASE Open
  BY <1>2, OpenCases, TurnAssumption DEF TypeOK, TurnInv, Quiet, Progress, Settled, loop, result, database, queue, reach
<1>3. CASE Transcribe
  BY <1>3, TurnAssumption DEF TypeOK, TurnInv, Quiet, Progress, Settled, Transcribe, loop, result, database, queue, reach
<1>4. CASE Retry
  BY <1>4, TurnAssumption DEF TypeOK, TurnInv, Quiet, Progress, Settled, Retry, loop, result, database, queue, reach
<1>5. CASE Unavailable
  BY <1>5, TurnAssumption DEF TypeOK, TurnInv, Quiet, Progress, Settled, Unavailable, loop, result, database, queue, reach
<1>6. CASE AnswerText
  BY <1>6, TurnAssumption DEF TypeOK, TurnInv, Quiet, Progress, Settled, AnswerText, loop, result, database, queue, reach
<1>7. CASE AnswerTools
  BY <1>7, TurnAssumption DEF TypeOK, TurnInv, Quiet, Progress, Settled, AnswerTools, loop, result, database, queue, reach
<1>8. CASE CallTool
  BY <1>8, TurnAssumption DEF TypeOK, TurnInv, Quiet, Progress, Settled, CallTool, loop, result, database, queue, reach
<1>9. CASE EndRound
  BY <1>9, TurnAssumption DEF TypeOK, TurnInv, Quiet, Progress, Settled, EndRound, loop, result, database, queue, reach
<1>10. CASE Count
  BY <1>10, TurnAssumption DEF TypeOK, TurnInv, Quiet, Progress, Settled, Count, loop, result, database, queue, reach
<1>11. CASE File
  BY <1>11, TurnAssumption DEF TypeOK, TurnInv, Quiet, Progress, Settled, File, loop, result, database, queue, reach
<1>12. CASE Send
  <2>1. pc = "send" /\ pc' = "commit" /\ tx = "open" /\ tx' = tx /\ sent = None /\ crashes' = crashes
    BY <1>12 DEF TypeOK, TurnInv, Quiet, Progress, Settled, Send, queue
  <2>2. reason # None => "handoff" \in staged
    BY <2>1 DEF TypeOK, TurnInv, Quiet, Progress, Settled, Outgoing, Outcome!RowsOf
  <2>3. \/ UNCHANGED reach /\ staged' = staged
        \/ Deliver /\ staged \subseteq staged'
    BY <1>12 DEF Send
  <2>4. CASE UNCHANGED reach /\ staged' = staged
    BY <2>1, <2>4 DEF TypeOK, TurnInv, Quiet, Progress, Settled, reach
  <2>5. CASE Deliver /\ staged \subseteq staged'
    <3>1. delivered' = delivered + 1 /\ sent' # None
      BY <2>5, TurnAssumption DEF Deliver, Outgoing
    <3>2. promised' => promised \/ "handoff" \in staged'
      BY <2>2, <2>5 DEF Deliver
    <3> QED
      BY <2>1, <3>1, <3>2 DEF TypeOK, TurnInv, Quiet, Progress, Settled
  <2> QED
    BY <2>3, <2>4, <2>5
<1>13. CASE Commit
  <2>1. pc = "commit" /\ pc' \in {"over", "dead"} /\ UNCHANGED <<sent, delivered, promised, crashes, tx, staged>>
    BY <1>13, CommitCases DEF database, reach, queue
  <2>2. pc' = "dead" => tx = "broken" /\ sent = None
    BY <1>13, CommitCases DEF TurnInv, Quiet
  <2>3. tx = "open" /\ "handoff" \in staged => filed' # {}
    BY <1>13, CommitCases
  <2> QED
    BY <2>1, <2>2, <2>3 DEF TypeOK, TurnInv, Quiet
<1>14. CASE Redeliver
  BY <1>14, TurnAssumption DEF TypeOK, TurnInv, Quiet, Progress, Settled, Redeliver, loop, result, database, queue, reach
<1>15. CASE Retire
  BY <1>15, TurnAssumption DEF TypeOK, TurnInv, Quiet, Progress, Settled, Retire, loop, result, database, queue, reach
<1>16. CASE Crash
  BY <1>16, TurnAssumption DEF TypeOK, TurnInv, Quiet, Progress, Settled, Crash, loop, result, database, queue, reach
<1>17. CASE UNCHANGED vars
  BY <1>17 DEF TypeOK, TurnInv, Quiet, Progress, Settled, vars, loop, result, database, queue, reach
<1> QED
  BY <1>1, <1>2, <1>3, <1>4, <1>5, <1>6, <1>7, <1>8, <1>9, <1>10, <1>11, <1>12, <1>13, <1>14, <1>15, <1>16, <1>17 DEF Next, Step, Prelude, Claude, Wrap

LEMMA ProgressStep == TypeOK /\ TurnInv /\ [Next]_vars => Progress'
<1> SUFFICES ASSUME TypeOK, TurnInv, [Next]_vars PROVE Progress'
  OBVIOUS
<1>1. CASE Download
  BY <1>1, TurnAssumption DEF TurnInv, Progress, Transcribed, Download, loop, result, database, queue, reach
<1>2. CASE Open
  BY <1>2, OpenCases, TurnAssumption DEF TurnInv, Progress, Transcribed, loop, result, database, queue, reach
<1>3. CASE Transcribe
  BY <1>3, TurnAssumption DEF TurnInv, Progress, Transcribed, Transcribe, loop, result, database, queue, reach
<1>4. CASE Retry
  BY <1>4, TurnAssumption DEF TurnInv, Progress, Transcribed, Retry, loop, result, database, queue, reach
<1>5. CASE Unavailable
  BY <1>5, TurnAssumption DEF TurnInv, Progress, Transcribed, Unavailable, loop, result, database, queue, reach
<1>6. CASE AnswerText
  BY <1>6, TurnAssumption DEF TurnInv, Progress, Transcribed, AnswerText, loop, result, database, queue, reach
<1>7. CASE AnswerTools
  BY <1>7, TurnAssumption DEF TurnInv, Progress, Transcribed, AnswerTools, loop, result, database, queue, reach
<1>8. CASE CallTool
  BY <1>8, TurnAssumption DEF TurnInv, Progress, Transcribed, CallTool, loop, result, database, queue, reach
<1>9. CASE EndRound
  BY <1>9, TurnAssumption DEF TurnInv, Progress, Transcribed, EndRound, loop, result, database, queue, reach
<1>10. CASE Count
  BY <1>10, TurnAssumption DEF TurnInv, Progress, Transcribed, Count, loop, result, database, queue, reach
<1>11. CASE File
  BY <1>11, TurnAssumption DEF TurnInv, Progress, Transcribed, File, loop, result, database, queue, reach
<1>12. CASE Send
  BY <1>12, TurnAssumption DEF TurnInv, Progress, Transcribed, Send, loop, result, database, queue, reach
<1>13. CASE Commit
  BY <1>13, CommitCases, TurnAssumption DEF TurnInv, Progress, Transcribed, loop, result, database, queue, reach
<1>14. CASE Redeliver
  BY <1>14, TurnAssumption DEF TurnInv, Progress, Transcribed, Redeliver, loop, result, database, queue, reach
<1>15. CASE Retire
  BY <1>15, TurnAssumption DEF TurnInv, Progress, Transcribed, Retire, loop, result, database, queue, reach
<1>16. CASE Crash
  BY <1>16, TurnAssumption DEF TurnInv, Progress, Transcribed, Crash, loop, result, database, queue, reach
<1>17. CASE UNCHANGED vars
  BY <1>17 DEF TurnInv, Progress, Transcribed, vars, loop, result, database, queue, reach
<1> QED
  BY <1>1, <1>2, <1>3, <1>4, <1>5, <1>6, <1>7, <1>8, <1>9, <1>10, <1>11, <1>12, <1>13, <1>14, <1>15, <1>16, <1>17 DEF Next, Step, Prelude, Claude, Wrap

LEMMA SettledStep == TypeOK /\ TurnInv /\ [Next]_vars => Settled'
<1> SUFFICES ASSUME TypeOK, TurnInv, [Next]_vars PROVE Settled'
  OBVIOUS
<1>1. CASE Download
  BY <1>1, TurnAssumption DEF TurnInv, Settled, Cause, Progress, Transcribed, Outcome!RowsOf, Outgoing, Download, loop, result, database, queue, reach
<1>2. CASE Open
  BY <1>2, OpenCases, TurnAssumption DEF TurnInv, Settled, Cause, Progress, Transcribed, Outcome!RowsOf, Outgoing, loop, result, database, queue, reach
<1>3. CASE Transcribe
  <2>1. pc = "transcribe" /\ staged = {"inbound"} /\ asked = None /\ rows = {} /\ filed = {}
    BY <1>3 DEF TurnInv, Progress, Settled, Transcribe
  <2>2. UNCHANGED <<asked, rows, filed>> /\ staged' \in {{"inbound"}, {"inbound", "transcript"}}
    BY <1>3, <2>1 DEF Transcribe
  <2>3. pc' = "ask" \/ (pc' = "commit" /\ verdict' \in {"failed", "silent"})
    BY <1>3 DEF Transcribe
  <2>4. \A v \in {"failed", "silent"} : Outcome!RowsOf(v) = {"inbound"}
    <3>1. Outcome!RowsOf("failed") = {"inbound"}
      BY DEF Outcome!RowsOf
    <3>2. Outcome!RowsOf("silent") = {"inbound"}
      BY DEF Outcome!RowsOf
    <3> QED
      BY <3>1, <3>2
  <2>5. \E extra \in SUBSET {"transcript", "outbound"} : "outbound" \notin extra /\ staged' = {"inbound"} \cup extra
    <3>1. staged' = {"inbound"} \cup {} \/ staged' = {"inbound"} \cup {"transcript"}
      BY <2>2
    <3> QED
      BY <3>1
  <2> QED
    BY <2>1, <2>2, <2>3, <2>4, <2>5 DEF Settled
<1>4. CASE Retry
  BY <1>4, TurnAssumption DEF TurnInv, Settled, Cause, Progress, Transcribed, Outcome!RowsOf, Outgoing, Retry, loop, result, database, queue, reach
<1>5. CASE Unavailable
  BY <1>5, TurnAssumption DEF TurnInv, Settled, Cause, Progress, Transcribed, Outcome!RowsOf, Outgoing, Unavailable, loop, result, database, queue, reach
<1>6. CASE AnswerText
  BY <1>6, TurnAssumption DEF TurnInv, Settled, Cause, Progress, Transcribed, Outcome!RowsOf, Outgoing, AnswerText, loop, result, database, queue, reach
<1>7. CASE AnswerTools
  BY <1>7, TurnAssumption DEF TurnInv, Settled, Cause, Progress, Transcribed, Outcome!RowsOf, Outgoing, AnswerTools, loop, result, database, queue, reach
<1>8. CASE CallTool
  BY <1>8, TurnAssumption DEF TurnInv, Settled, Cause, Progress, Transcribed, Outcome!RowsOf, Outgoing, CallTool, loop, result, database, queue, reach
<1>9. CASE EndRound
  BY <1>9, TurnAssumption DEF TurnInv, Settled, Cause, Progress, Transcribed, Outcome!RowsOf, Outgoing, EndRound, loop, result, database, queue, reach
<1>10. CASE Count
  BY <1>10, TurnAssumption DEF TurnInv, Settled, Cause, Progress, Transcribed, Outcome!RowsOf, Outgoing, Count, loop, result, database, queue, reach
<1>11. CASE File
  BY <1>11, TurnAssumption DEF TurnInv, Settled, Cause, Progress, Transcribed, Outcome!RowsOf, Outgoing, File, loop, result, database, queue, reach
<1>12. CASE Send
  <2>1. pc = "send" /\ pc' = "commit" /\ verdict' = Outgoing.verdict
    BY <1>12 DEF Send
  <2>2. staged' \in {staged, staged \cup {"outbound"}}
    BY <1>12 DEF Send
  <2>3. UNCHANGED <<reason, asked, tx, rows, filed, round, summary>>
    BY <1>12 DEF Send, loop, result
  <2>4. Outgoing.verdict \in {"reply", "escalated", "fallback"}
    BY DEF Outgoing
  <2>5. asked # None => Outgoing.verdict \in {"escalated", "fallback"}
    BY DEF TurnInv, Cause, Outgoing
  <2>6. PICK t \in Transcribed : staged = Outcome!RowsOf(Outgoing.verdict) \cup t
    BY <2>1 DEF TurnInv, Settled
  <2>7. \E extra \in SUBSET {"transcript", "outbound"} : staged' = Outcome!RowsOf(Outgoing.verdict) \cup extra
    <3>1. t \in SUBSET {"transcript", "outbound"} /\ t \cup {"outbound"} \in SUBSET {"transcript", "outbound"}
      BY DEF Transcribed
    <3>2. staged' = Outcome!RowsOf(Outgoing.verdict) \cup t \/ staged' = Outcome!RowsOf(Outgoing.verdict) \cup (t \cup {"outbound"})
      BY <2>2, <2>6
    <3> QED
      BY <3>1, <3>2
  <2>8. rows' = {} /\ filed' = {}
    BY <2>1, <2>3 DEF TurnInv, Settled
  <2> QED
    BY <2>1, <2>3, <2>4, <2>5, <2>7, <2>8 DEF Settled
<1>13. CASE Commit
  <2>1. pc = "commit" /\ pc' \in {"over", "dead"}
    BY <1>13, CommitCases
  <2>2. rows = {} /\ filed = {}
    BY <2>1 DEF TurnInv, Settled
  <2>3. UNCHANGED <<reason, summary, asked, staged, tx>>
    BY <1>13, CommitCases DEF loop, result
  <2>4. CASE tx = "open"
    <3>1. pc' = "over" /\ rows' = staged
      BY <1>13, <2>4, CommitCases
    <3>2. filed' = IF "handoff" \in staged THEN {[reason |-> reason, summary |-> summary]} ELSE {}
      BY <1>13, <2>4, CommitCases
    <3>3. asked # None => "handoff" \in staged
      BY <2>1, <2>4 DEF TurnInv, Settled, Outcome!RowsOf
    <3>4. {[reason |-> reason, summary |-> summary]} # {}
      OBVIOUS
    <3> QED
      BY <2>1, <2>3, <3>1, <3>2, <3>3, <3>4 DEF Settled
  <2>5. CASE tx # "open"
    <3>1. rows' = {} /\ filed' = {}
      BY <1>13, <2>2, <2>5, CommitCases
    <3> QED
      BY <2>1, <3>1 DEF Settled
  <2> QED
    BY <2>4, <2>5
<1>14. CASE Redeliver
  BY <1>14, TurnAssumption DEF TurnInv, Settled, Cause, Progress, Transcribed, Outcome!RowsOf, Outgoing, Redeliver, loop, result, database, queue, reach
<1>15. CASE Retire
  BY <1>15, TurnAssumption DEF TurnInv, Settled, Cause, Progress, Transcribed, Outcome!RowsOf, Outgoing, Retire, loop, result, database, queue, reach
<1>16. CASE Crash
  BY <1>16, TurnAssumption DEF TurnInv, Settled, Cause, Progress, Transcribed, Outcome!RowsOf, Outgoing, Crash, loop, result, database, queue, reach
<1>17. CASE UNCHANGED vars
  BY <1>17 DEF TurnInv, Settled, Cause, Progress, Transcribed, Outcome!RowsOf, Outgoing, vars, loop, result, database, queue, reach
<1> QED
  BY <1>1, <1>2, <1>3, <1>4, <1>5, <1>6, <1>7, <1>8, <1>9, <1>10, <1>11, <1>12, <1>13, <1>14, <1>15, <1>16, <1>17 DEF Next, Step, Prelude, Claude, Wrap

LEMMA InvStep == TypeOK /\ TurnInv /\ [Next]_vars => TurnInv'
BY ProgressStep, SettledStep, CauseStep, QuietStep DEF TurnInv

LEMMA Invariance == Spec => [](TypeOK /\ TurnInv)
<1>1. Init => TypeOK /\ TurnInv
  BY TypeInit, InvInit
<1>2. TypeOK /\ TurnInv /\ [Next]_vars => (TypeOK /\ TurnInv)'
  BY TypeStep, InvStep
<1> QED
  BY <1>1, <1>2, PTL DEF Spec

-----------------------------------------------------------------------------
(* The properties.                                                         *)

\* No message goes out of a transaction that a tool or a flush has spoiled.
THEOREM SilentOnceBroken == Spec => []SilentWhenBroken
<1>1. TurnInv => SilentWhenBroken
  BY DEF TurnInv, Quiet, SilentWhenBroken
<1> QED
  BY <1>1, Invariance, PTL

\* A committed turn in which Claude asked for a human has its handoff, in the
\* words of the last request unless Claude failed afterwards.
THEOREM EscalationsReachTheDesk == Spec => []EscalationFiled
<1>1. TurnInv => EscalationFiled
  <2> SUFFICES ASSUME TurnInv, pc = "over", rows # {}, asked # None
               PROVE  /\ filed # {}
                      /\ \A h \in filed :
                           /\ h.reason # "unavailable" => h.summary = asked
                           /\ h.reason \in {asked, "exhausted", "unavailable"}
                           /\ h.reason = "exhausted" => round = MaxRounds
    BY DEF EscalationFiled
  <2>1. filed = {[reason |-> reason, summary |-> summary]}
    BY DEF TurnInv, Settled
  <2>2. reason # None
    BY DEF TurnInv, Cause
  <2> QED
    BY <2>1, <2>2 DEF TurnInv, Cause
<1> QED
  BY <1>1, Invariance, PTL

\* Without a crash, a customer who was promised a human has a handoff.
THEOREM PromisesAreKept == Spec => []PromiseKept
<1>1. TypeOK /\ TurnInv => PromiseKept
  BY DEF TypeOK, TurnInv, Quiet, PromiseKept
<1> QED
  BY <1>1, Invariance, PTL

\* One message, and one more for each crash.
THEOREM NobodyIsToldTwice == Spec => []ToldOnce
<1>1. TypeOK /\ TurnInv => ToldOnce
  BY DEF TypeOK, TurnInv, Quiet, ToldOnce
<1> QED
  BY <1>1, Invariance, PTL

\* Turn implements TurnOutcome: the database gets all the rows of the verdict
\* or none.
THEOREM EndsInOneVerdict == Spec => EndsWhole
<1>1. Init => Outcome!Init
  BY DEF Init, Outcome!Init
<1>2. ASSUME TypeOK, TurnInv, TurnInv', [Next]_vars
      PROVE  Outcome!Next \/ UNCHANGED <<IF pc = "over" THEN verdict ELSE "none", rows>>
  <2> USE <1>2
  <2>1. CASE pc' = "over" /\ pc # "over"
    <3>1. rows = {}
      BY <2>1 DEF TurnInv, Settled
    <3>2. CASE verdict' = "lost" /\ rows' = {}
      <4>1. Outcome!RowsOf("lost") \cup {} = {}
        BY DEF Outcome!RowsOf
      <4>2. Outcome!End("lost")
        BY <2>1, <3>2, <4>1 DEF Outcome!End
      <4> QED
        BY <4>2 DEF Outcome!Next, Outcome!Verdicts
    <3>3. CASE Commit /\ tx = "open"
      <4>1. pc = "commit" /\ rows' = staged /\ verdict' = verdict
        BY <2>1, <3>3, CommitCases
      <4>2. verdict \in {"silent", "failed", "reply", "escalated", "fallback"}
        BY <3>3, <4>1 DEF TurnInv, Settled
      <4>3. \E extra \in SUBSET {"transcript", "outbound"} :
              /\ verdict \in {"silent", "failed"} => "outbound" \notin extra
              /\ staged = Outcome!RowsOf(verdict) \cup extra
        BY <3>3, <4>1 DEF TurnInv, Settled
      <4>4. Outcome!End(verdict)
        BY <2>1, <4>1, <4>2, <4>3 DEF Outcome!End
      <4> QED
        BY <4>2, <4>4 DEF Outcome!Next, Outcome!Verdicts
    <3>4. (verdict' = "lost" /\ rows' = {}) \/ (Commit /\ tx = "open")
      <4>1. CASE Download
        BY <2>1, <3>1, <4>1 DEF Download, database
      <4>2. CASE Commit
        BY <2>1, <3>1, <4>2, CommitCases
      <4>3. CASE Retire
        BY <2>1, <3>1, <4>3 DEF Retire, database
      <4>4. CASE Open
        BY <2>1, <4>4, OpenCases
      <4> QED
        BY <2>1, <4>1, <4>2, <4>3, <4>4
           DEF Next, Step, Prelude, Claude, Wrap, Transcribe, Retry, Unavailable, AnswerText,
               AnswerTools, CallTool, EndRound, Count, File, Send, Redeliver, Crash, vars
    <3> QED
      BY <3>2, <3>3, <3>4
  <2>2. CASE pc' # "over" /\ pc # "over"
    BY <2>2 DEF TurnInv, Settled
  <2>3. CASE pc = "over"
    <3>1. pc' = pc /\ verdict' = verdict /\ rows' = rows
      <4>1. ~Open /\ ~Commit
        BY <2>3, OpenCases, CommitCases
      <4> QED
        BY <2>3, <4>1
           DEF Next, Step, Prelude, Claude, Wrap, Download, Transcribe, Retry, Unavailable, AnswerText,
               AnswerTools, CallTool, EndRound, Count, File, Send, Redeliver, Retire, Crash, vars, database
    <3> QED
      BY <2>3, <3>1
  <2> QED
    BY <2>1, <2>2, <2>3
<1>3. TypeOK /\ TurnInv /\ (TypeOK /\ TurnInv)' /\ [Next]_vars
        => [Outcome!Next]_<<IF pc = "over" THEN verdict ELSE "none", rows>>
  BY <1>2
<1> QED
  BY <1>1, <1>3, Invariance, PTL DEF Spec, EndsWhole, Outcome!Spec
-----------------------------------------------------------------------------
(* A turn cannot go on for ever.                                           *)

\* How far a statement is from the end of a pass.
Distance ==
  CASE pc = "download" -> 10 [] pc = "open" -> 9 [] pc = "transcribe" -> 8
    [] pc = "ask" -> 7 [] pc = "tools" -> 6 [] pc = "count" -> 5 [] pc = "file" -> 4
    [] pc = "send" -> 3 [] pc = "commit" -> 2 [] pc = "dead" -> 1 [] pc = "over" -> 0

\* Passes, rounds, statements, tool calls and attempts, in this order: a step
\* goes on in one of them and back in none before it.
GoesOn ==
  \/ pass' > pass
  \/ pass' = pass /\ round' > round
  \/ pass' = pass /\ round' = round /\ Distance' < Distance
  \/ /\ pass' = pass /\ round' = round /\ Distance' = Distance
     /\ \/ Len(todo') < Len(todo)
        \/ todo' = todo /\ failures' > failures

LEMMA StepGoesOn ==
  ASSUME TypeOK, Next
  PROVE  GoesOn
<1>1. CASE Prelude \/ Wrap
  <2>1. pass' = pass /\ round' = round
    BY <1>1 DEF Prelude, Wrap, Download, Open, Transcribe, Count, File, Send, Commit, loop, queue
  <2>2. Distance' < Distance
    <3>1. CASE Open \/ Commit
      <4>1. CASE Open
        <5>1. pc = "open" /\ pc' \in {"ask", "transcribe", "commit"}
          BY <4>1, OpenCases
        <5> QED
          BY <5>1 DEF Distance
      <4>2. CASE Commit
        <5>1. pc = "commit" /\ pc' \in {"over", "dead"}
          BY <4>2, CommitCases
        <5> QED
          BY <5>1 DEF Distance
      <4> QED
        BY <3>1, <4>1, <4>2
    <3>2. CASE Download \/ Transcribe \/ Count \/ File \/ Send
      BY <3>2 DEF Distance, Download, Transcribe, Count, File, Send
    <3> QED
      BY <1>1, <3>1, <3>2 DEF Prelude, Wrap
  <2> QED
    BY <2>1, <2>2 DEF GoesOn
<1>2. CASE Claude
  <2>1. pass' = pass
    BY <1>2 DEF Claude, Retry, Unavailable, AnswerText, AnswerTools, CallTool, EndRound, queue
  <2>2. CASE EndRound
    BY <2>1, <2>2 DEF GoesOn, EndRound, TypeOK
  <2>3. CASE Unavailable \/ AnswerText \/ AnswerTools
    BY <2>1, <2>3 DEF GoesOn, Distance, Unavailable, AnswerText, AnswerTools, loop
  <2>4. CASE Retry
    BY <2>1, <2>4 DEF GoesOn, Distance, Retry, TypeOK
  <2>5. CASE CallTool
    <3>1. Len(todo') < Len(todo)
      BY <2>5 DEF CallTool, TypeOK
    <3> QED
      BY <2>1, <2>5, <3>1 DEF GoesOn, Distance, CallTool
  <2> QED
    BY <1>2, <2>2, <2>3, <2>4, <2>5 DEF Claude
<1>3. CASE Redeliver
  BY <1>3 DEF GoesOn, Redeliver, TypeOK
<1>4. CASE Retire
  BY <1>4 DEF GoesOn, Distance, Retire, loop, queue
<1>5. CASE Crash
  BY <1>5 DEF GoesOn, Distance, Crash, TypeOK, loop
<1> QED
  BY <1>1, <1>2, <1>3, <1>4, <1>5 DEF Next, Step

\* Whatever Claude answers and whatever fails, a turn has no endless run: each
\* step uses up a pass, a round, a statement, a tool call or an attempt, and
\* TypeCorrect bounds the passes, the rounds and the attempts
\* (complete_with_tools, tenacity's stop_after_attempt, the queue's recovery).
THEOREM NoTurnIsEndless == Spec => [][GoesOn]_vars
<1>1. TypeOK /\ [Next]_vars => [GoesOn]_vars
  BY StepGoesOn
<1> QED
  BY <1>1, TypeCorrect, PTL DEF Spec
=============================================================================

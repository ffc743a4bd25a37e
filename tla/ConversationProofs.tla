-------------------------- MODULE ConversationProofs --------------------------
(***************************************************************************)
(* Proofs about Conversation, for any number of workers, messages and      *)
(* customers: its type, the single conversation of a customer, the         *)
(* refinement of Processing, the interface the message queue relies on,    *)
(* and how often a customer is answered.                                   *)
(***************************************************************************)
EXTENDS Conversation, FiniteSetTheorems, TLAPS

\* The initial state has its type.
LEMMA TypeInit == Init => TypeOK
  BY ConversationAssumption DEF Init, TypeOK, Labels

\* A transaction that is over leaves the worker's variables with their type.
LEMMA ForgetType ==
  ASSUME TypeOK, NEW w \in Workers, Forget(w), UNCHANGED tables, inbox' \subseteq inbox,
         crashes' \in 0..MaxCrashes, UNCHANGED history
  PROVE  TypeOK'
  BY DEF TypeOK, Forget, Goto, tables, history, Labels

\* Every step keeps the type.
LEMMA TypeStep == TypeOK /\ [Next]_vars => TypeOK'
<1> SUFFICES ASSUME TypeOK, [Next]_vars PROVE TypeOK'
  OBVIOUS
<1>1. ASSUME NEW w \in Workers, Take(w) \/ FindCustomer(w) \/ InsertCustomer(w)
      PROVE  TypeOK'
  BY <1>1 DEF TypeOK, Take, FindCustomer, InsertCustomer, At, Goto, Labels, tables, history
<1>2. ASSUME NEW w \in Workers, FindConversation(w) \/ StartConversation(w)
      PROVE  TypeOK'
  BY <1>2, ConversationAssumption
     DEF TypeOK, FindConversation, StartConversation, Active, Sender, At, Goto, Labels, Statuses, tables, history
<1>3. ASSUME NEW w \in Workers, Save(w) \/ Understand(w)
      PROVE  TypeOK'
  BY <1>3 DEF TypeOK, Save, ShortCircuit, Understand, At, Goto, Labels, Verdicts, tables, history
<1>4. ASSUME NEW w \in Workers, Send(w)
      PROVE  TypeOK'
  BY <1>4 DEF TypeOK, Send, Reach, At, Goto, Labels, tables, history
<1>5. ASSUME NEW w \in Workers, Commit(w)
      PROVE  TypeOK'
  <2>1. msg[w] \in Messages /\ conv[w] \in Messages /\ pc[w] = "commit"
    BY <1>5 DEF TypeOK, Commit, At
  <2>2. customers' \subseteq Customers
    <3>1. Sender(w) \in Customers
      BY <2>1, ConversationAssumption DEF Sender
    <3>2. customers' = customers \cup {Sender(w)} /\ customers \subseteq Customers
      BY <1>5 DEF TypeOK, Commit, Write
    <3> QED
      BY <3>1, <3>2
  <2>3. status' \in [Messages -> Statuses \cup {None}] /\ home' \in [Messages -> Messages \cup {None}]
    BY <1>5, <2>1 DEF TypeOK, Commit, Write, Statuses
  <2>4. message_count' \in [Messages -> Nat] /\ ai_count' \in [Messages -> Nat]
    BY <1>5, <2>1 DEF TypeOK, Commit, Write
  <2>5. /\ handoffs' \subseteq Messages /\ replies' \subseteq Messages /\ answered' \subseteq Messages
        /\ inserted' \subseteq Workers /\ replied' \subseteq Workers
    BY <1>5, <2>1 DEF TypeOK, Commit, Write
  <2>6. /\ pc' \in [Workers -> Labels]
        /\ \A v \in Workers : pc'[v] \in {"send", "commit", "ack"} => verdict'[v] \in Verdicts
        /\ \A v \in Workers : pc'[v] \in {"save", "content", "send", "commit", "ack"} => conv'[v] \in Messages
        /\ \A v \in Workers : pc'[v] # "idle" => msg'[v] \in Messages
    BY <1>5, <2>1 DEF TypeOK, Commit, Goto, Labels
  <2> QED
    BY <1>5, <2>2, <2>3, <2>4, <2>5, <2>6 DEF TypeOK, Commit, history
<1>6. ASSUME NEW w \in Workers, DuplicateCustomer(w) \/ DuplicateMessage(w)
      PROVE  TypeOK'
  BY <1>6, ForgetType DEF DuplicateCustomer, DuplicateMessage, Fail, TypeOK
<1>7. ASSUME NEW w \in Workers, Ack(w) \/ Crash(w) \/ Spoil(w)
      PROVE  TypeOK'
  BY <1>7, ForgetType, ConversationAssumption DEF Ack, Crash, Spoil, TypeOK
<1>8. ASSUME NEW c \in Messages, Takeover(c) \/ Release(c)
      PROVE  TypeOK'
  BY <1>8 DEF TypeOK, Takeover, Release, SetStatus, Statuses, worker
<1>9. CASE UNCHANGED vars
  BY <1>9 DEF TypeOK, vars, tables, worker, history
<1> QED
  BY <1>1, <1>2, <1>3, <1>4, <1>5, <1>6, <1>7, <1>8, <1>9
     DEF Next, Poll, WorkerStep, Customer, Inbound, Outbound

\* The transactions, counters and histories keep their type in every
\* behaviour, and a worker past a statement has what that statement gave it.
THEOREM TypeCorrect == Spec => []TypeOK
<1>1. Init => TypeOK
  BY TypeInit
<1>2. TypeOK /\ [Next]_vars => TypeOK'
  BY TypeStep
<1> QED
  BY <1>1, <1>2, PTL DEF Spec

-----------------------------------------------------------------------------
(* The inductive invariant behind OneConversation and RecordedOnce.        *)

Holds(w) == pc[w] \in {"content", "send", "commit"}

Working(w) == pc[w] = "save" \/ Holds(w)

\* A customer's row and its first conversation are committed together.
CustomersConverse == \A d \in Customers : d \in customers <=> Active(d) # {}

\* An uncommitted customer row is the only one of its phone number.
InsertsAreUnique ==
  \A w \in inserted :
    /\ pc[w] = "conversation" \/ Working(w)
    /\ Sender(w) \notin customers
    /\ \A v \in inserted : Sender(v) = Sender(w) => v = w

\* A worker past get_or_create inserted the customer or found it.
CustomerKnown ==
  \A w \in Workers :
    pc[w] = "conversation" \/ Working(w) => w \in inserted \/ Sender(w) \in customers

\* It works on the conversation it created, or on a committed one.
ConversationKnown ==
  \A w \in Workers : Working(w) =>
    IF w \in inserted THEN conv[w] = msg[w] ELSE conv[w] \in Active(Sender(w))

\* One transaction at a time holds a conversation's row.
RowsAreExclusive ==
  \A v, w \in Workers : Holds(v) /\ Holds(w) /\ conv[v] = conv[w] => v = w

\* While a transaction holds the row, nobody else records its message.
HeldIsUnrecorded == \A w \in Workers : Holds(w) => home[msg[w]] = None

TxnInv ==
  /\ TypeOK /\ OneConversation /\ CustomersConverse
  /\ InsertsAreUnique /\ CustomerKnown /\ ConversationKnown
  /\ RowsAreExclusive /\ HeldIsUnrecorded

LEMMA TxnInit == Init => TxnInv
<1> SUFFICES ASSUME Init PROVE TxnInv
  OBVIOUS
<1>1. TypeOK
  BY TypeInit
<1>2. \A d : Active(d) = {}
  BY DEF Init, Active
<1> QED
  BY <1>1, <1>2 DEF Init, TxnInv, OneConversation, CustomersConverse, InsertsAreUnique,
     CustomerKnown, ConversationKnown, RowsAreExclusive, HeldIsUnrecorded, Working, Holds

\* Two transactions for one customer that both have a conversation have the
\* same one.
LEMMA SameConversation ==
  ASSUME TxnInv, NEW v \in Workers, NEW w \in Workers,
         Working(v), Working(w), Sender(v) = Sender(w)
  PROVE  v = w \/ conv[v] = conv[w]
<1>1. CASE v \in inserted /\ w \in inserted
  BY <1>1 DEF TxnInv, InsertsAreUnique
<1>2. CASE v \notin inserted /\ w \notin inserted
  <2>1. conv[v] \in Active(Sender(w)) /\ conv[w] \in Active(Sender(w))
    BY <1>2 DEF TxnInv, ConversationKnown
  <2>2. Sender(w) \in Customers
    BY ConversationAssumption DEF TxnInv, TypeOK, Working, Holds, Sender
  <2> QED
    BY <2>1, <2>2 DEF TxnInv, OneConversation
<1> QED
  BY <1>1, <1>2 DEF TxnInv, InsertsAreUnique, CustomerKnown

\* A step that changes no table and inserts no customer keeps the invariant
\* when it moves one worker without giving it a conversation.
LEMMA QuietStep ==
  ASSUME TxnInv, TypeOK', UNCHANGED <<customers, status, home, inserted>>,
         \A u \in Workers : (Working(u) \/ pc[u] = "conversation")' =>
           /\ msg'[u] = msg[u]
           /\ Working(u)' => Working(u) /\ conv'[u] = conv[u]
           /\ Holds(u)' => Holds(u)
           /\ (pc[u] = "conversation")' => pc[u] = "conversation" \/ u \in inserted \/ Sender(u) \in customers,
         \A u \in inserted : (Working(u) \/ pc[u] = "conversation")'
  PROVE  TxnInv'
<1>1. \A d : Active(d)' = Active(d)
  BY DEF Active
<1>2. OneConversation' /\ CustomersConverse'
  BY <1>1 DEF TxnInv, OneConversation, CustomersConverse
<1>3. inserted \subseteq Workers
  BY DEF TxnInv, TypeOK
<1>4. \A u \in Workers : (Working(u) \/ pc[u] = "conversation")' => Sender(u)' = Sender(u)
  BY DEF Sender
<1>5. InsertsAreUnique'
  BY <1>3, <1>4 DEF TxnInv, InsertsAreUnique
<1>6. CustomerKnown'
  BY <1>4 DEF TxnInv, CustomerKnown
<1>7. ConversationKnown'
  BY <1>1, <1>4 DEF TxnInv, ConversationKnown
<1>8. RowsAreExclusive'
  BY DEF TxnInv, RowsAreExclusive, Working, Holds
<1>9. HeldIsUnrecorded'
  BY DEF TxnInv, HeldIsUnrecorded, Working, Holds
<1> QED
  BY <1>2, <1>5, <1>6, <1>7, <1>8, <1>9 DEF TxnInv

\* A transaction that ends without a commit keeps it.
LEMMA ForgetStep ==
  ASSUME TxnInv, TypeOK', NEW w \in Workers, Forget(w), UNCHANGED <<customers, status, home>>
  PROVE  TxnInv'
<1>1. \A d : Active(d)' = Active(d)
  BY DEF Active
<1>2. OneConversation' /\ CustomersConverse'
  BY <1>1 DEF TxnInv, OneConversation, CustomersConverse
<1>3. inserted \subseteq Workers /\ inserted' = inserted \ {w}
  BY DEF TxnInv, TypeOK, Forget
<1>4. \A u \in Workers \ {w} :
        pc'[u] = pc[u] /\ msg'[u] = msg[u] /\ conv'[u] = conv[u] /\ Sender(u)' = Sender(u)
  BY DEF TxnInv, TypeOK, Forget, Goto, Sender
<1>5. pc'[w] = "idle"
  BY DEF TxnInv, TypeOK, Forget, Goto
<1>6. InsertsAreUnique'
  BY <1>3, <1>4 DEF TxnInv, InsertsAreUnique, Working, Holds
<1>7. CustomerKnown' /\ ConversationKnown'
  BY <1>1, <1>3, <1>4, <1>5 DEF TxnInv, CustomerKnown, ConversationKnown, Working, Holds
<1>8. RowsAreExclusive' /\ HeldIsUnrecorded'
  BY <1>4, <1>5 DEF TxnInv, RowsAreExclusive, HeldIsUnrecorded, Holds
<1> QED
  BY <1>2, <1>6, <1>7, <1>8 DEF TxnInv

LEMMA InsertStep ==
  ASSUME TxnInv, TypeOK', NEW w \in Workers, InsertCustomer(w)
  PROVE  TxnInv'
<1>1. /\ pc[w] = "insert" /\ pc' = [pc EXCEPT ![w] = "conversation"]
      /\ inserted' = inserted \cup {w} /\ inserted \subseteq Workers
      /\ UNCHANGED <<msg, conv, customers, status, home>>
      /\ pc \in [Workers -> Labels]
  BY DEF TxnInv, TypeOK, InsertCustomer, At, Goto, tables
<1>2. \A u \in Workers : Sender(u)' = Sender(u)
  BY <1>1 DEF Sender
<1>3. \A d : Active(d)' = Active(d)
  BY <1>1 DEF Active
<1>4. OneConversation' /\ CustomersConverse'
  BY <1>1, <1>3 DEF TxnInv, OneConversation, CustomersConverse
<1>5. InsertsAreUnique'
  BY <1>1, <1>2 DEF TxnInv, InsertsAreUnique, InsertCustomer, Working, Holds
<1>6. CustomerKnown' /\ ConversationKnown'
  BY <1>1, <1>2, <1>3 DEF TxnInv, CustomerKnown, ConversationKnown, Working, Holds
<1>7. RowsAreExclusive' /\ HeldIsUnrecorded'
  BY <1>1 DEF TxnInv, RowsAreExclusive, HeldIsUnrecorded, Holds
<1> QED
  BY <1>4, <1>5, <1>6, <1>7 DEF TxnInv

\* get_active and create: the worker gets its conversation.
LEMMA ConversationStep ==
  ASSUME TxnInv, TypeOK', NEW w \in Workers, FindConversation(w) \/ StartConversation(w)
  PROVE  TxnInv'
<1>1. /\ pc[w] = "conversation" /\ pc' = [pc EXCEPT ![w] = "save"]
      /\ UNCHANGED <<msg, inserted, customers, status, home>>
      /\ pc \in [Workers -> Labels] /\ inserted \subseteq Workers
      /\ msg[w] \in Messages
  BY DEF TxnInv, TypeOK, FindConversation, StartConversation, At, Goto, tables
<1>2. \A u \in Workers : Sender(u)' = Sender(u)
  BY <1>1 DEF Sender
<1>3. \A d : Active(d)' = Active(d)
  BY <1>1 DEF Active
<1>4. Sender(w) \in Customers
  BY <1>1, ConversationAssumption DEF Sender
<1>5. conv \in [Workers -> Messages \cup {None}] /\ \A u \in Workers \ {w} : conv'[u] = conv[u]
  BY DEF TxnInv, TypeOK, FindConversation, StartConversation
<1>6. IF w \in inserted THEN conv'[w] = msg[w] ELSE conv'[w] \in Active(Sender(w))
  <2>1. CASE FindConversation(w)
    BY <2>1, <1>4, <1>5 DEF FindConversation, TxnInv, InsertsAreUnique, CustomersConverse
  <2>2. CASE StartConversation(w)
    BY <2>2, <1>1, <1>4, <1>5 DEF StartConversation, TxnInv, CustomerKnown, CustomersConverse
  <2> QED
    BY <2>1, <2>2
<1>7. OneConversation' /\ CustomersConverse'
  BY <1>1, <1>3 DEF TxnInv, OneConversation, CustomersConverse
<1>8. InsertsAreUnique' /\ CustomerKnown'
  BY <1>1, <1>2 DEF TxnInv, InsertsAreUnique, CustomerKnown, Working, Holds
<1>9. ConversationKnown'
  BY <1>1, <1>2, <1>3, <1>5, <1>6 DEF TxnInv, ConversationKnown, Working, Holds
<1>10. RowsAreExclusive' /\ HeldIsUnrecorded'
  BY <1>1, <1>5 DEF TxnInv, RowsAreExclusive, HeldIsUnrecorded, Holds
<1> QED
  BY <1>7, <1>8, <1>9, <1>10 DEF TxnInv

\* save_inbound and increment_message_count: the worker gets the row.
LEMMA SaveStep ==
  ASSUME TxnInv, TypeOK', NEW w \in Workers, Save(w)
  PROVE  TxnInv'
<1>1. /\ pc[w] = "save" /\ pc'[w] \in {"content", "commit"}
      /\ \A u \in Workers \ {w} : pc'[u] = pc[u]
      /\ UNCHANGED <<msg, conv, inserted, customers, status, home>>
      /\ inserted \subseteq Workers
      /\ home[msg[w]] = None
  BY DEF TxnInv, TypeOK, Save, ShortCircuit, At, Goto, tables
<1>2. \A u \in Workers : Sender(u)' = Sender(u) /\ (Working(u)' <=> Working(u))
  BY <1>1 DEF Sender, Working, Holds
<1>3. \A u \in Workers : Holds(u) => conv[u] # conv[w]
  BY DEF Save, Free, Locks, Holds
<1>4. \A d : Active(d)' = Active(d)
  BY <1>1 DEF Active
<1>5. OneConversation' /\ CustomersConverse'
  BY <1>1, <1>4 DEF TxnInv, OneConversation, CustomersConverse
<1>6. InsertsAreUnique' /\ CustomerKnown'
  BY <1>1, <1>2 DEF TxnInv, InsertsAreUnique, CustomerKnown, Working
<1>7. ConversationKnown'
  BY <1>1, <1>2, <1>4 DEF TxnInv, ConversationKnown
<1>8. RowsAreExclusive' /\ HeldIsUnrecorded'
  BY <1>1, <1>3 DEF TxnInv, RowsAreExclusive, HeldIsUnrecorded, Holds
<1> QED
  BY <1>5, <1>6, <1>7, <1>8 DEF TxnInv

\* The commit publishes the conversation, the customer and the message.
LEMMA CommitStep ==
  ASSUME TxnInv, TypeOK', NEW w \in Workers, Commit(w)
  PROVE  TxnInv'
<1>1. /\ pc[w] = "commit" /\ pc' = [pc EXCEPT ![w] = "ack"]
      /\ UNCHANGED <<msg, conv>>
      /\ inserted' = inserted \ {w} /\ inserted \subseteq Workers
      /\ customers' = customers \cup {Sender(w)}
      /\ home' = [home EXCEPT ![msg[w]] = conv[w]]
      /\ home \in [Messages -> Messages \cup {None}]
      /\ pc \in [Workers -> Labels]
  BY DEF TxnInv, TypeOK, Commit, Write, At, Goto
<1>2. msg[w] \in Messages /\ conv[w] \in Messages /\ Holds(w) /\ Working(w)
  BY <1>1 DEF TxnInv, TypeOK, Holds, Working
<1>3. /\ \A c \in Messages \ {conv[w]} : status'[c] = status[c]
      /\ status'[conv[w]] # None
  BY <1>2, ConversationAssumption DEF TxnInv, TypeOK, Commit, Write, Statuses
<1>4. From[conv[w]] = Sender(w) /\ Sender(w) \in Customers
  BY <1>2, ConversationAssumption DEF TxnInv, ConversationKnown, Active, Sender
<1>5. Active(Sender(w))' = {conv[w]}
  <2>1. CASE w \in inserted
    <3>1. Active(Sender(w)) = {}
      BY <2>1, <1>4 DEF TxnInv, InsertsAreUnique, CustomersConverse
    <3> QED
      BY <3>1, <1>1, <1>2, <1>3, <1>4 DEF Active, Sender
  <2>2. CASE w \notin inserted
    <3>1. Active(Sender(w)) = {conv[w]}
      BY <2>2, <1>2, <1>4 DEF TxnInv, ConversationKnown, OneConversation
    <3> QED
      BY <3>1, <1>1, <1>2, <1>3, <1>4 DEF Active, Sender
  <2> QED
    BY <2>1, <2>2
<1>6. \A d : d # Sender(w) => Active(d)' = Active(d)
  BY <1>3, <1>4 DEF Active
<1>7. \A u \in Workers : Sender(u)' = Sender(u)
  BY <1>1 DEF Sender
<1>8. OneConversation' /\ CustomersConverse'
  BY <1>1, <1>4, <1>5, <1>6, <1>7 DEF TxnInv, OneConversation, CustomersConverse
<1>9. InsertsAreUnique'
  <2>1. \A u \in inserted \ {w} : Sender(u) # Sender(w)
    <3>1. CASE w \in inserted
      BY <3>1 DEF TxnInv, InsertsAreUnique
    <3>2. CASE w \notin inserted
      BY <3>2, <1>2 DEF TxnInv, CustomerKnown, InsertsAreUnique
    <3> QED
      BY <3>1, <3>2
  <2> QED
    BY <2>1, <1>1, <1>7 DEF TxnInv, InsertsAreUnique, Working, Holds
<1>10. CustomerKnown'
  BY <1>1, <1>7 DEF TxnInv, CustomerKnown, Working, Holds
<1>11. \A u \in Workers \ {w} : u \notin inserted /\ Working(u) => conv[u] \in Active(Sender(u))'
  <2> SUFFICES ASSUME NEW u \in Workers \ {w}, u \notin inserted, Working(u)
               PROVE  conv[u] \in Active(Sender(u))'
    OBVIOUS
  <2>1. conv[u] \in Active(Sender(u)) /\ Sender(u)' = Sender(u)
    BY <1>7 DEF TxnInv, ConversationKnown
  <2> QED
    BY <2>1, <1>3 DEF Active
<1>12. ConversationKnown'
  BY <1>1, <1>11 DEF TxnInv, ConversationKnown, Working, Holds
<1>13. RowsAreExclusive'
  BY <1>1 DEF TxnInv, RowsAreExclusive, Holds
<1>14. \A u \in Workers \ {w} : Holds(u) => msg[u] # msg[w]
  BY <1>2, SameConversation DEF TxnInv, RowsAreExclusive, Working, Sender
<1>15. HeldIsUnrecorded'
  <2>1. \A u \in Workers : Holds(u) => msg[u] \in Messages
    BY DEF TxnInv, TypeOK, Holds
  <2> QED
    BY <2>1, <1>1, <1>14 DEF TxnInv, HeldIsUnrecorded, Holds
<1> QED
  BY <1>8, <1>9, <1>10, <1>12, <1>13, <1>15 DEF TxnInv

\* A takeover or a release changes no more than the status.
LEMMA StatusStep ==
  ASSUME TxnInv, TypeOK', NEW c \in Messages, Takeover(c) \/ Release(c)
  PROVE  TxnInv'
<1>1. /\ UNCHANGED <<pc, msg, conv, inserted, customers, home>>
      /\ \A b \in Messages : status'[b] # None <=> status[b] # None
  BY ConversationAssumption DEF TxnInv, TypeOK, Takeover, Release, SetStatus, worker, Statuses
<1>2. \A d : Active(d)' = Active(d)
  BY <1>1 DEF Active
<1> QED
  BY <1>1, <1>2 DEF TxnInv, OneConversation, CustomersConverse, InsertsAreUnique, CustomerKnown,
     ConversationKnown, RowsAreExclusive, HeldIsUnrecorded, Working, Holds, Sender

LEMMA TxnStep == TxnInv /\ [Next]_vars => TxnInv'
<1> SUFFICES ASSUME TxnInv, [Next]_vars PROVE TxnInv'
  OBVIOUS
<1>0. TypeOK /\ TypeOK'
  BY TypeStep DEF TxnInv
<1>1. ASSUME NEW w \in Workers, Take(w) \/ FindCustomer(w) \/ Understand(w) \/ Send(w)
      PROVE  TxnInv'
  <2>1. /\ UNCHANGED <<customers, status, home, inserted, conv>>
        /\ \A u \in Workers \ {w} : pc'[u] = pc[u] /\ msg'[u] = msg[u]
    BY <1>0, <1>1 DEF TypeOK, Take, FindCustomer, Understand, Send, At, Goto, tables
  <2>2. CASE Take(w)
    <3>1. pc[w] = "idle" /\ pc'[w] = "customer"
      BY <1>0, <2>2 DEF TypeOK, Take, At, Goto
    <3>2. w \notin inserted
      BY <3>1 DEF TxnInv, InsertsAreUnique, Working, Holds
    <3> QED
      BY <1>0, <2>1, <3>1, <3>2, QuietStep DEF TxnInv, InsertsAreUnique, TypeOK, Working, Holds
  <2>3. CASE FindCustomer(w)
    <3>1. /\ pc[w] = "customer" /\ UNCHANGED msg
          /\ pc'[w] = IF Sender(w) \in customers THEN "conversation" ELSE "insert"
      BY <1>0, <2>3 DEF TypeOK, FindCustomer, At, Goto
    <3>2. w \notin inserted
      BY <3>1 DEF TxnInv, InsertsAreUnique, Working, Holds
    <3> QED
      BY <1>0, <2>1, <3>1, <3>2, QuietStep DEF TxnInv, InsertsAreUnique, TypeOK, Working, Holds
  <2>4. CASE Understand(w) \/ Send(w)
    <3>1. Holds(w) /\ Holds(w)' /\ UNCHANGED msg
      BY <1>0, <2>4 DEF TypeOK, Understand, Send, At, Goto, Holds
    <3> QED
      BY <1>0, <2>1, <3>1, QuietStep DEF TxnInv, InsertsAreUnique, TypeOK, Working, Holds
  <2> QED
    BY <1>1, <2>2, <2>3, <2>4
<1>2. ASSUME NEW w \in Workers, DuplicateCustomer(w) \/ DuplicateMessage(w) \/ Ack(w) \/ Crash(w) \/ Spoil(w)
      PROVE  TxnInv'
  BY <1>0, <1>2, ForgetStep DEF DuplicateCustomer, DuplicateMessage, Ack, Crash, Spoil, Fail, tables
<1>3. ASSUME NEW w \in Workers, InsertCustomer(w) PROVE TxnInv'
  BY <1>0, <1>3, InsertStep
<1>4. ASSUME NEW w \in Workers, FindConversation(w) \/ StartConversation(w) PROVE TxnInv'
  BY <1>0, <1>4, ConversationStep
<1>5. ASSUME NEW w \in Workers, Save(w) PROVE TxnInv'
  BY <1>0, <1>5, SaveStep
<1>6. ASSUME NEW w \in Workers, Commit(w) PROVE TxnInv'
  BY <1>0, <1>6, CommitStep
<1>7. ASSUME NEW c \in Messages, Takeover(c) \/ Release(c) PROVE TxnInv'
  BY <1>0, <1>7, StatusStep
<1>8. CASE UNCHANGED vars
  BY <1>0, <1>8 DEF vars, tables, worker, TxnInv, OneConversation, CustomersConverse, InsertsAreUnique,
     CustomerKnown, ConversationKnown, RowsAreExclusive, HeldIsUnrecorded, Working, Holds, Sender, Active
<1> QED
  BY <1>1, <1>2, <1>3, <1>4, <1>5, <1>6, <1>7, <1>8
     DEF Next, Poll, WorkerStep, Customer, Inbound, Outbound

\* Whatever the number of workers, a customer never has two conversations
\* that are not closed.
THEOREM SingleConversation == Spec => []OneConversation
<1>1. Init => TxnInv
  BY TxnInit
<1>2. TxnInv /\ [Next]_vars => TxnInv'
  BY TxnStep
<1>3. TxnInv => OneConversation
  BY DEF TxnInv
<1> QED
  BY <1>1, <1>2, <1>3, PTL DEF Spec

-----------------------------------------------------------------------------
(* Who waits for whom in Postgres.                                         *)

\* For a unique key: the uncommitted customer row of another transaction.
WaitsForKey(w, v) == At(w, "insert") /\ v \in inserted /\ Sender(v) = Sender(w)

\* For a row: the conversation that another transaction has counted up.
WaitsForRow(w, v) == At(w, "save") /\ home[msg[w]] = None /\ Locks(v, conv[w])

WaitsFor(w, v) == WaitsForKey(w, v) \/ WaitsForRow(w, v)

NobodyWaitsForAWaiter ==
  \A w, v \in Workers : WaitsFor(w, v) => \A u \in Workers : ~WaitsFor(v, u)

\* Nobody else has the row of a conversation that its creator has not
\* committed yet.
LEMMA OwnRowIsFree ==
  ASSUME TxnInv, NEW v \in inserted, Working(v), NEW u \in Workers, Locks(u, conv[v])
  PROVE  u = v
<1>1. v \in Workers /\ Working(u) /\ conv[u] = conv[v] /\ conv[v] = msg[v]
  BY DEF TxnInv, TypeOK, ConversationKnown, Working, Holds, Locks
<1>2. Sender(v) \notin customers /\ Sender(v) \in Customers
  BY <1>1, ConversationAssumption DEF TxnInv, TypeOK, InsertsAreUnique, Sender, Working, Holds
<1>3. CASE u \in inserted
  <2>1. conv[u] = msg[u]
    BY <1>1, <1>3 DEF TxnInv, ConversationKnown
  <2>2. Sender(u) = Sender(v)
    BY <1>1, <2>1 DEF Sender
  <2> QED
    BY <1>3, <2>2 DEF TxnInv, InsertsAreUnique
<1>4. CASE u \notin inserted
  <2>1. conv[v] \in Active(Sender(u))
    BY <1>1, <1>4 DEF TxnInv, ConversationKnown
  <2>2. conv[v] \in Active(Sender(v))
    BY <1>1, <2>1 DEF Active, Sender
  <2> QED
    BY <1>2, <2>2 DEF TxnInv, CustomersConverse
<1> QED
  BY <1>3, <1>4

\* No deadlock in the database: whoever a worker waits for, for a customer's
\* unique key (get_or_create) or for a conversation's row
\* (increment_message_count), waits for nobody itself, so there is no circle
\* and no chain of waiting workers, however many there are.
THEOREM WaitingEndsAtOne == Spec => []NobodyWaitsForAWaiter
<1>1. Init => TxnInv
  BY TxnInit
<1>2. TxnInv /\ [Next]_vars => TxnInv'
  BY TxnStep
<1>3. TxnInv => NobodyWaitsForAWaiter
  <2> SUFFICES ASSUME TxnInv, NEW w \in Workers, NEW v \in Workers, WaitsFor(w, v),
                      NEW u \in Workers, WaitsFor(v, u)
               PROVE  FALSE
    BY DEF NobodyWaitsForAWaiter
  <2>1. CASE WaitsForRow(w, v)
    BY <2>1 DEF WaitsForRow, WaitsForKey, WaitsFor, Locks, At
  <2>2. CASE WaitsForKey(w, v)
    <3>1. v \in inserted /\ (pc[v] = "conversation" \/ Working(v))
      BY <2>2 DEF WaitsForKey, TxnInv, InsertsAreUnique
    <3>2. pc[v] = "save" /\ Locks(u, conv[v])
      BY <3>1 DEF WaitsFor, WaitsForKey, WaitsForRow, At, Working, Holds
    <3>3. u = v
      BY <3>1, <3>2, OwnRowIsFree DEF Working
    <3> QED
      BY <3>2, <3>3 DEF Locks
  <2> QED
    BY <2>1, <2>2 DEF WaitsFor
<1> QED
  BY <1>1, <1>2, <1>3, PTL DEF Spec

-----------------------------------------------------------------------------
(* The refinement of Processing, and the counters.                         *)

\* A step that is not a commit leaves what is recorded alone.
LEMMA OnlyCommitRecords ==
  ASSUME [Next]_vars, \A w \in Workers : ~Commit(w)
  PROVE  UNCHANGED <<home, answered, message_count, ai_count>>
BY DEF Next, Poll, WorkerStep, Customer, Inbound, Outbound, Take, FindCustomer, InsertCustomer,
   DuplicateCustomer, FindConversation, StartConversation, Save, ShortCircuit, DuplicateMessage,
   Understand, Spoil, Send, Ack, Crash, Fail, Takeover, Release, SetStatus, vars, tables

\* What a commit records: one message, for the first time.
LEMMA CommitRecords ==
  ASSUME TxnInv, NEW w \in Workers, Commit(w)
  PROVE  /\ msg[w] \in Messages /\ conv[w] \in Messages
         /\ home[msg[w]] = None
         /\ home' = [home EXCEPT ![msg[w]] = conv[w]]
         /\ answered' \in {answered, answered \cup {msg[w]}}
BY DEF TxnInv, TypeOK, HeldIsUnrecorded, Holds, Commit, Write, At

\* The workers' transactions implement Processing: a message is recorded
\* once, with its answer, however often and by however many workers it is
\* processed.  It is what Succeed, FailStored and PoisonCrash of the queue
\* take for granted.
THEOREM RecordsOnce == Spec => RecordedOnce
<1> DEFINE Rows == {m \in Messages : home[m] # None}
<1>1. Init => Database!Init
  BY DEF Init, Database!Init
<1>2. TxnInv /\ [Next]_vars => [Database!Next]_<<Rows, answered>>
  <2> SUFFICES ASSUME TxnInv, [Next]_vars
               PROVE  Database!Next \/ UNCHANGED <<Rows, answered>>
    OBVIOUS
  <2>1. CASE \A w \in Workers : ~Commit(w)
    BY <2>1, OnlyCommitRecords
  <2>2. ASSUME NEW w \in Workers, Commit(w)
        PROVE  Database!Next
    <3>1. /\ msg[w] \in Messages /\ conv[w] \in Messages /\ home[msg[w]] = None
          /\ home' = [home EXCEPT ![msg[w]] = conv[w]]
          /\ answered' \in {answered, answered \cup {msg[w]}}
          /\ home \in [Messages -> Messages \cup {None}]
      BY <2>2, CommitRecords DEF TxnInv, TypeOK
    <3>2. msg[w] \notin Rows /\ Rows' = Rows \cup {msg[w]}
      BY <3>1, ConversationAssumption
    <3> QED
      BY <3>1, <3>2 DEF Database!Next, Database!Record
  <2> QED
    BY <2>1, <2>2
<1>3. Init => TxnInv
  BY TxnInit
<1>4. TxnInv /\ [Next]_vars => TxnInv'
  BY TxnStep
<1> QED
  BY <1>1, <1>2, <1>3, <1>4, PTL DEF Spec, RecordedOnce, Database!Spec

RowsOf(c) == {m \in Messages : home[m] = c}

CountsInv ==
  \A c \in Messages :
    /\ IsFiniteSet(RowsOf(c))
    /\ message_count[c] = Cardinality(RowsOf(c))
    /\ ai_count[c] <= message_count[c]

LEMMA CountsStep == TxnInv /\ CountsInv /\ [Next]_vars => CountsInv'
<1> SUFFICES ASSUME TxnInv, CountsInv, [Next]_vars PROVE CountsInv'
  OBVIOUS
<1>1. CASE \A w \in Workers : ~Commit(w)
  BY <1>1, OnlyCommitRecords DEF CountsInv, RowsOf
<1>2. ASSUME NEW w \in Workers, Commit(w), NEW c \in Messages
      PROVE  /\ IsFiniteSet(RowsOf(c)')
             /\ message_count'[c] = Cardinality(RowsOf(c)')
             /\ ai_count'[c] <= message_count'[c]
  <2>1. /\ msg[w] \in Messages /\ conv[w] \in Messages /\ home[msg[w]] = None
        /\ home' = [home EXCEPT ![msg[w]] = conv[w]]
        /\ home \in [Messages -> Messages \cup {None}]
    BY <1>2, CommitRecords DEF TxnInv, TypeOK
  <2>2. /\ message_count' = [message_count EXCEPT ![conv[w]] = @ + 1]
        /\ ai_count' = [ai_count EXCEPT ![conv[w]] =
             IF verdict[w] \in {"reply", "escalated"} THEN @ + 1 ELSE @]
        /\ message_count \in [Messages -> Nat] /\ ai_count \in [Messages -> Nat]
    BY <1>2 DEF TxnInv, TypeOK, Commit, Write
  <2>3. CASE c # conv[w]
    <3>1. RowsOf(c)' = RowsOf(c)
      BY <2>1, <2>3, ConversationAssumption DEF RowsOf
    <3> QED
      BY <3>1, <2>2, <2>3 DEF CountsInv
  <2>4. CASE c = conv[w]
    <3>1. msg[w] \notin RowsOf(c) /\ RowsOf(c)' = RowsOf(c) \cup {msg[w]}
      BY <2>1, <2>4, ConversationAssumption DEF RowsOf
    <3>2. IsFiniteSet(RowsOf(c)') /\ Cardinality(RowsOf(c)') = Cardinality(RowsOf(c)) + 1
      <4>1. IsFiniteSet(RowsOf(c))
        BY DEF CountsInv
      <4>2. /\ IsFiniteSet(RowsOf(c) \cup {msg[w]})
            /\ Cardinality(RowsOf(c) \cup {msg[w]}) = Cardinality(RowsOf(c)) + 1
        BY <4>1, <3>1, FS_AddElement
      <4> QED
        BY <4>2, <3>1
    <3>3. message_count'[c] = message_count[c] + 1 /\ ai_count'[c] <= ai_count[c] + 1
      BY <2>2, <2>4
    <3> QED
      BY <2>2, <3>2, <3>3 DEF CountsInv
  <2> QED
    BY <2>3, <2>4
<1> QED
  BY <1>1, <1>2 DEF CountsInv

\* message_count counts the inbound rows, and answers of the AI never exceed
\* it, for any number of concurrent workers.
THEOREM CountsAreExact == Spec => []CountsMatch
<1>1. Init => TxnInv /\ CountsInv
  <2>1. ASSUME Init, NEW c \in Messages
        PROVE  RowsOf(c) = {} /\ message_count[c] = 0 /\ ai_count[c] = 0
    BY <2>1, ConversationAssumption DEF Init, RowsOf
  <2> QED
    BY <2>1, TxnInit, FS_EmptySet DEF CountsInv
<1>2. TxnInv /\ CountsInv /\ [Next]_vars => (TxnInv /\ CountsInv)'
  BY TxnStep, CountsStep
<1>3. CountsInv => CountsMatch
  BY DEF CountsInv, CountsMatch, RowsOf
<1> QED
  BY <1>1, <1>2, <1>3, PTL DEF Spec

-----------------------------------------------------------------------------
(* How often a customer is answered, and how often the AI still speaks      *)
(* after a takeover.                                                       *)


\* A worker that may have sent the reply to m and has not committed.
Sent(w, m) == pc[w] = "commit" /\ msg[w] = m

\* A message without a row has been answered once for each crash, and once
\* more by the worker that is about to commit.
RepliesInv ==
  \A m \in Messages :
    /\ delivered[m] <= 1 + crashes
    /\ home[m] = None /\ (\A w \in Workers : ~Sent(w, m)) => delivered[m] <= crashes

\* A step that sends nothing and gives nobody's transaction up keeps it.
LEMMA SilentStep ==
  ASSUME RepliesInv, UNCHANGED <<home, delivered, crashes>>,
         \A w \in Workers, m \in Messages : Sent(w, m) => Sent(w, m)'
  PROVE  RepliesInv'
BY DEF RepliesInv

\* Nobody else has sent the reply of a worker that holds the row.
LEMMA OneSender ==
  ASSUME TxnInv, NEW v \in Workers, NEW w \in Workers, Holds(v), Holds(w), msg[v] = msg[w]
  PROVE  v = w
BY SameConversation DEF TxnInv, RowsAreExclusive, Working, Sender

LEMMA RepliesStep == TxnInv /\ RepliesInv /\ [Next]_vars => RepliesInv'
<1> SUFFICES ASSUME TxnInv, RepliesInv, [Next]_vars PROVE RepliesInv'
  OBVIOUS
<1>0. TypeOK
  BY DEF TxnInv
<1>1. ASSUME NEW w \in Workers,
             \/ Take(w) \/ FindCustomer(w) \/ InsertCustomer(w) \/ DuplicateCustomer(w)
             \/ FindConversation(w) \/ StartConversation(w) \/ Save(w) \/ DuplicateMessage(w)
             \/ Understand(w) \/ Spoil(w) \/ Ack(w)
      PROVE  RepliesInv'
  <2>1. pc[w] # "commit" /\ UNCHANGED <<home, delivered, crashes>>
    BY <1>1 DEF Take, FindCustomer, InsertCustomer, DuplicateCustomer, FindConversation, StartConversation,
       Save, ShortCircuit, DuplicateMessage, Understand, Spoil, Ack, Fail, At, tables, history
  <2>2. \A u \in Workers \ {w} : pc'[u] = pc[u] /\ msg'[u] = msg[u]
    BY <1>0, <1>1 DEF TypeOK, Take, FindCustomer, InsertCustomer, DuplicateCustomer, FindConversation,
       StartConversation, Save, ShortCircuit, DuplicateMessage, Understand, Spoil, Ack, Fail, Forget, Goto
  <2> QED
    BY <2>1, <2>2, SilentStep DEF Sent
<1>2. ASSUME NEW w \in Workers, Send(w) PROVE RepliesInv'
  <2>1. /\ pc[w] = "send" /\ msg[w] \in Messages /\ Holds(w) /\ home[msg[w]] = None
        /\ pc' = [pc EXCEPT ![w] = "commit"] /\ pc \in [Workers -> Labels]
        /\ UNCHANGED <<home, msg, crashes>>
        /\ crashes \in Nat /\ delivered \in [Messages -> Nat]
    BY <1>0, <1>2, ConversationAssumption
       DEF TypeOK, TxnInv, HeldIsUnrecorded, Holds, Send, At, Goto, tables
  <2>2. delivered' = delivered \/ delivered' = [delivered EXCEPT ![msg[w]] = @ + 1]
    BY <1>2 DEF Send, Reach, history
  <2>3. \A u \in Workers : ~Sent(u, msg[w])
    BY <2>1, OneSender DEF Sent, Holds
  <2>4. delivered[msg[w]] <= crashes
    BY <2>1, <2>3 DEF RepliesInv
  <2>5. Sent(w, msg[w])' /\ \A u \in Workers, m \in Messages : Sent(u, m) => Sent(u, m)'
    BY <2>1 DEF Sent
  <2>6. ASSUME NEW m \in Messages
        PROVE  /\ delivered'[m] <= 1 + crashes
               /\ home[m] = None /\ (\A u \in Workers : ~Sent(u, m)') => delivered'[m] <= crashes
    <3>1. CASE m = msg[w]
      BY <2>1, <2>2, <2>4, <2>5, <3>1
    <3>2. CASE m # msg[w]
      <4>1. delivered'[m] = delivered[m]
        BY <2>1, <2>2, <3>2
      <4> QED
        BY <4>1, <2>5 DEF RepliesInv
    <3> QED
      BY <3>1, <3>2
  <2> QED
    BY <2>1, <2>6 DEF RepliesInv
<1>3. ASSUME NEW w \in Workers, Commit(w) PROVE RepliesInv'
  <2>1. /\ msg[w] \in Messages /\ conv[w] # None
        /\ home' = [home EXCEPT ![msg[w]] = conv[w]] /\ home \in [Messages -> Messages \cup {None}]
        /\ \A u \in Workers \ {w} : pc'[u] = pc[u]
        /\ UNCHANGED <<msg, delivered, crashes>>
    <3>1. /\ msg[w] \in Messages /\ conv[w] \in Messages
          /\ home' = [home EXCEPT ![msg[w]] = conv[w]]
      BY <1>0, <1>3, CommitRecords
    <3>2. conv[w] # None
      BY <3>1, ConversationAssumption
    <3>3. home \in [Messages -> Messages \cup {None}] /\ pc \in [Workers -> Labels]
      BY <1>0 DEF TypeOK
    <3>4. pc' = [pc EXCEPT ![w] = "ack"] /\ UNCHANGED <<msg, delivered, crashes>>
      BY <1>3 DEF Commit, Goto, history
    <3> QED
      BY <3>1, <3>2, <3>3, <3>4
  <2>2. \A m \in Messages : home'[m] = None => home[m] = None /\ m # msg[w]
    BY <2>1
  <2>3. \A u \in Workers, m \in Messages : m # msg[w] /\ Sent(u, m) => Sent(u, m)'
    BY <2>1 DEF Sent
  <2> QED
    BY <2>1, <2>2, <2>3 DEF RepliesInv
<1>4. ASSUME NEW w \in Workers, Crash(w) PROVE RepliesInv'
  <2>1. crashes' = crashes + 1 /\ UNCHANGED <<home, delivered>>
    BY <1>4 DEF Crash, tables, history
  <2>2. crashes \in Nat /\ delivered \in [Messages -> Nat]
    BY <1>0, ConversationAssumption DEF TypeOK
  <2> QED
    BY <2>1, <2>2 DEF RepliesInv
<1>5. ASSUME NEW c \in Messages, Takeover(c) \/ Release(c) PROVE RepliesInv'
  BY <1>5, SilentStep DEF Takeover, Release, SetStatus, worker, Sent
<1>6. CASE UNCHANGED vars
  BY <1>6, SilentStep DEF vars, tables, worker, history, Sent
<1> QED
  BY <1>1, <1>2, <1>3, <1>4, <1>5, <1>6
     DEF Next, Poll, WorkerStep, Customer, Inbound, Outbound

\* Redelivery alone never answers a message twice, to however many workers it
\* goes: each further reply has a crash of its own between a send and a commit.
THEOREM FurtherRepliesNeedCrashes == Spec => []RepliesNeedCrashes
<1>1. Init => TxnInv /\ RepliesInv
  BY TxnInit DEF Init, RepliesInv
<1>2. TxnInv /\ RepliesInv /\ [Next]_vars => (TxnInv /\ RepliesInv)'
  BY TxnStep, RepliesStep
<1>3. RepliesInv => RepliesNeedCrashes
  BY DEF RepliesInv, RepliesNeedCrashes
<1> QED
  BY <1>1, <1>2, <1>3, PTL DEF Spec

-----------------------------------------------------------------------------
(* Replies after a takeover.                                               *)

\* Workers that read the conversation before the takeover and may still send.
Pending(c) ==
  {w \in Workers : /\ pc[w] \in {"save", "content", "send"} /\ conv[w] = c
                   /\ seen[w] # "human_takeover"}

\* Each late reply uses up one of them, and a takeover adds none.
LateInv ==
  /\ \A w \in Workers : pc[w] \in {"content", "send"} => seen[w] # "human_takeover"
  /\ \A c \in Messages :
       IF status[c] = "human_takeover"
       THEN late[c] + Cardinality(Pending(c)) <= Cardinality(Workers)
       ELSE late[c] = 0

LEMMA PendingFinite ==
  ASSUME NEW c
  PROVE  /\ IsFiniteSet(Pending(c)) /\ Cardinality(Pending(c)) \in Nat
         /\ Cardinality(Workers) \in Nat
         /\ Cardinality(Pending(c)) <= Cardinality(Workers)
<1>1. Pending(c) \subseteq Workers
  BY DEF Pending
<1> QED
  BY <1>1, ConversationAssumption, FS_Subset, FS_CardinalityType

\* A step that changes neither table nor history keeps it, when it adds
\* nobody who may still send after a takeover.
LEMMA NobodyAdded ==
  ASSUME TypeOK, LateInv, UNCHANGED <<status, late>>,
         \A w \in Workers : (pc[w] \in {"content", "send"} => seen[w] # "human_takeover")',
         \A c \in Messages : status[c] = "human_takeover" => Pending(c)' \subseteq Pending(c)
  PROVE  LateInv'
<1>1. ASSUME NEW c \in Messages
      PROVE  IF status'[c] = "human_takeover"
             THEN late'[c] + Cardinality(Pending(c)') <= Cardinality(Workers)
             ELSE late'[c] = 0
  <2>1. CASE status[c] = "human_takeover"
    <3>1. /\ Cardinality(Pending(c)') \in Nat
          /\ Cardinality(Pending(c)') <= Cardinality(Pending(c))
          /\ Cardinality(Pending(c)) \in Nat /\ Cardinality(Workers) \in Nat
      <4>1. /\ IsFiniteSet(Pending(c)) /\ Pending(c)' \subseteq Pending(c)
            /\ Cardinality(Pending(c)) \in Nat /\ Cardinality(Workers) \in Nat
        BY <2>1, PendingFinite
      <4> QED
        BY <4>1, FS_Subset, FS_CardinalityType
    <3>2. late[c] + Cardinality(Pending(c)) <= Cardinality(Workers) /\ late[c] \in Nat
      BY <2>1 DEF LateInv, TypeOK
    <3> QED
      BY <2>1, <3>1, <3>2
  <2>2. CASE status[c] # "human_takeover"
    BY <2>2 DEF LateInv
  <2> QED
    BY <2>1, <2>2
<1> QED
  BY <1>1 DEF LateInv

\* A status that changes otherwise than by a release: a new takeover finds
\* no late reply, and no more workers than there are.
LEMMA LateStatus ==
  ASSUME TypeOK, LateInv, UNCHANGED late,
         \A w \in Workers : (pc[w] \in {"content", "send"} => seen[w] # "human_takeover")',
         \A c \in Messages : Pending(c)' \subseteq Pending(c),
         \A c \in Messages : status'[c] = status[c] \/ status[c] # "human_takeover"
  PROVE  LateInv'
<1>1. ASSUME NEW c \in Messages, status'[c] = "human_takeover"
      PROVE  late'[c] + Cardinality(Pending(c)') <= Cardinality(Workers)
  <2>1. /\ Cardinality(Pending(c)') \in Nat
        /\ Cardinality(Pending(c)') <= Cardinality(Pending(c))
        /\ Cardinality(Pending(c)) \in Nat /\ Cardinality(Workers) \in Nat
        /\ Cardinality(Pending(c)) <= Cardinality(Workers)
    <3>1. /\ IsFiniteSet(Pending(c)) /\ Pending(c)' \subseteq Pending(c)
          /\ Cardinality(Pending(c)) \in Nat /\ Cardinality(Workers) \in Nat
          /\ Cardinality(Pending(c)) <= Cardinality(Workers)
      BY PendingFinite
    <3> QED
      BY <3>1, FS_Subset, FS_CardinalityType
  <2>2. late[c] + Cardinality(Pending(c)) <= Cardinality(Workers)
    BY <1>1, <2>1 DEF LateInv
  <2>3. late[c] \in Nat /\ late'[c] = late[c]
    BY DEF TypeOK
  <2> QED
    BY <2>1, <2>2, <2>3
<1>2. ASSUME NEW c \in Messages, status'[c] # "human_takeover"
      PROVE  late'[c] = 0
  BY <1>2 DEF LateInv
<1> QED
  BY <1>1, <1>2 DEF LateInv

\* One worker's step that gives it neither a conversation nor permission to
\* send adds nobody.
LEMMA NotAdded ==
  ASSUME NEW w \in Workers,
         \A u \in Workers \ {w} : pc'[u] = pc[u] /\ conv'[u] = conv[u] /\ seen'[u] = seen[u],
         \/ pc'[w] \notin {"save", "content", "send"}
         \/ pc[w] \in {"save", "content", "send"} /\ UNCHANGED <<conv, seen>>
  PROVE  \A c \in Messages : Pending(c)' \subseteq Pending(c)
BY DEF Pending

LEMMA LateStep == TypeOK /\ LateInv /\ [Next]_vars => LateInv'
<1> SUFFICES ASSUME TypeOK, LateInv, [Next]_vars PROVE LateInv'
  OBVIOUS
<1>1. ASSUME NEW w \in Workers,
             \/ Take(w) \/ FindCustomer(w) \/ InsertCustomer(w) \/ DuplicateCustomer(w)
             \/ DuplicateMessage(w) \/ Spoil(w) \/ Ack(w) \/ Crash(w)
      PROVE  LateInv'
  <2>1. UNCHANGED <<status, late>> /\ pc'[w] \in {"idle", "customer", "insert", "conversation"}
    BY <1>1 DEF TypeOK, Take, FindCustomer, InsertCustomer, DuplicateCustomer, DuplicateMessage,
       Spoil, Ack, Crash, Fail, Forget, Goto, tables, history
  <2>2. \A u \in Workers \ {w} : pc'[u] = pc[u] /\ conv'[u] = conv[u] /\ seen'[u] = seen[u]
    BY <1>1 DEF TypeOK, Take, FindCustomer, InsertCustomer, DuplicateCustomer, DuplicateMessage,
       Spoil, Ack, Crash, Fail, Forget, Goto
  <2>3. \A c \in Messages : Pending(c)' \subseteq Pending(c)
    BY <2>1, <2>2, NotAdded
  <2> QED
    BY <2>1, <2>2, <2>3, NobodyAdded DEF LateInv
<1>2. ASSUME NEW w \in Workers, FindConversation(w) \/ StartConversation(w)
      PROVE  LateInv'
  <2>1. /\ UNCHANGED <<status, late>> /\ pc' = [pc EXCEPT ![w] = "save"]
        /\ \A u \in Workers \ {w} : pc'[u] = pc[u] /\ conv'[u] = conv[u] /\ seen'[u] = seen[u]
    BY <1>2 DEF TypeOK, FindConversation, StartConversation, Goto, tables, history
  <2>2. status[conv'[w]] = "human_takeover" => seen'[w] = "human_takeover"
    <3>1. CASE FindConversation(w)
      BY <3>1 DEF TypeOK, FindConversation
    <3>2. CASE StartConversation(w)
      <4>1. msg[w] \in Messages /\ conv'[w] = msg[w] /\ Active(Sender(w)) = {}
        BY <3>2 DEF TypeOK, StartConversation, At
      <4>2. status[msg[w]] = None
        BY <4>1 DEF Active, Sender
      <4> QED
        BY <4>1, <4>2, ConversationAssumption DEF Statuses
    <3> QED
      BY <1>2, <3>1, <3>2
  <2>3. \A c \in Messages : status[c] = "human_takeover" => Pending(c)' \subseteq Pending(c)
    BY <2>1, <2>2 DEF Pending
  <2>4. \A u \in Workers : (pc[u] \in {"content", "send"} => seen[u] # "human_takeover")'
    BY <2>1 DEF TypeOK, LateInv
  <2> QED
    BY <2>1, <2>3, <2>4, NobodyAdded
<1>3. ASSUME NEW w \in Workers, Save(w) \/ Understand(w) PROVE LateInv'
  <2>1. /\ UNCHANGED <<status, late, conv, seen>> /\ pc[w] \in {"save", "content", "send"}
        /\ \A u \in Workers \ {w} : pc'[u] = pc[u]
        /\ pc'[w] \in {"content", "send"} => seen[w] # "human_takeover"
    BY <1>3 DEF TypeOK, LateInv, Save, ShortCircuit, Understand, At, Goto, tables, history
  <2>2. \A c \in Messages : Pending(c)' \subseteq Pending(c)
    BY <2>1, NotAdded
  <2> QED
    BY <2>1, <2>2, NobodyAdded DEF LateInv
<1>4. ASSUME NEW w \in Workers, Send(w) PROVE LateInv'
  <2>1. /\ UNCHANGED <<status, conv, seen>> /\ pc[w] = "send"
        /\ pc' = [pc EXCEPT ![w] = "commit"] /\ pc \in [Workers -> Labels]
        /\ conv[w] \in Messages /\ late \in [Messages -> Nat]
    BY <1>4 DEF TypeOK, Send, At, Goto, tables
  <2>2. \A c \in Messages : Pending(c)' \subseteq Pending(c)
    BY <2>1, NotAdded
  <2>3. CASE late' = late
    BY <2>1, <2>2, <2>3, NobodyAdded DEF LateInv
  <2>4. CASE late' # late
    <3>1. status[conv[w]] = "human_takeover" /\ late' = [late EXCEPT ![conv[w]] = @ + 1]
      BY <1>4, <2>1, <2>4 DEF Send, Reach, history
    <3>2. w \in Pending(conv[w]) /\ Pending(conv[w])' = Pending(conv[w]) \ {w}
      BY <2>1 DEF LateInv, Pending
    <3>3. /\ Cardinality(Pending(conv[w])') = Cardinality(Pending(conv[w])) - 1
          /\ Cardinality(Pending(conv[w])) \in Nat /\ Cardinality(Workers) \in Nat
      <4>1. /\ IsFiniteSet(Pending(conv[w])) /\ Cardinality(Pending(conv[w])) \in Nat
            /\ Cardinality(Workers) \in Nat
        BY PendingFinite
      <4>2. Cardinality(Pending(conv[w]) \ {w}) = Cardinality(Pending(conv[w])) - 1
        BY <3>2, <4>1, FS_RemoveElement
      <4> QED
        BY <3>2, <4>1, <4>2
    <3>4. \A c \in Messages \ {conv[w]} : Pending(c)' = Pending(c) /\ late'[c] = late[c]
      BY <2>1, <3>1 DEF Pending
    <3>5. late[conv[w]] + Cardinality(Pending(conv[w])) <= Cardinality(Workers)
      BY <2>1, <3>1 DEF LateInv
    <3>6. late'[conv[w]] + Cardinality(Pending(conv[w])') <= Cardinality(Workers)
      BY <2>1, <3>1, <3>3, <3>5
    <3> QED
      BY <2>1, <3>1, <3>4, <3>6 DEF LateInv
  <2> QED
    BY <2>3, <2>4
<1>5. ASSUME NEW w \in Workers, Commit(w) PROVE LateInv'
  <2>1. /\ UNCHANGED <<late, conv, seen>> /\ pc' = [pc EXCEPT ![w] = "ack"]
        /\ pc \in [Workers -> Labels] /\ conv[w] \in Messages
        /\ status \in [Messages -> Statuses \cup {None}]
    BY <1>5 DEF TypeOK, Commit, At, Goto, history
  <2>2. \A c \in Messages : Pending(c)' \subseteq Pending(c)
    BY <2>1, NotAdded
  <2>3. status' = [status EXCEPT ![conv[w]] =
                     IF verdict[w] = "escalated" THEN "human_takeover" ELSE IF @ = None THEN "bot" ELSE @]
    BY <1>5 DEF Commit, Write
  <2>4. \A c \in Messages : status'[c] = status[c] \/ status[c] # "human_takeover"
    BY <2>1, <2>3, ConversationAssumption DEF Statuses
  <2>5. \A u \in Workers : (pc[u] \in {"content", "send"} => seen[u] # "human_takeover")'
    BY <2>1 DEF LateInv
  <2> QED
    BY <2>1, <2>2, <2>4, <2>5, LateStatus
<1>6. ASSUME NEW c \in Messages, Takeover(c) PROVE LateInv'
  <2>1. UNCHANGED <<late, pc, conv, seen>> /\ status' = [status EXCEPT ![c] = "human_takeover"]
        /\ status \in [Messages -> Statuses \cup {None}]
    BY <1>6 DEF TypeOK, Takeover, SetStatus, worker
  <2>2. \A b \in Messages : Pending(b)' \subseteq Pending(b)
    BY <2>1 DEF Pending
  <2> QED
    BY <2>1, <2>2, LateStatus DEF LateInv
<1>7. ASSUME NEW c \in Messages, Release(c) PROVE LateInv'
  <2>1. /\ UNCHANGED <<pc, conv, seen>> /\ status' = [status EXCEPT ![c] = "bot"]
        /\ late' = [late EXCEPT ![c] = 0]
        /\ status \in [Messages -> Statuses \cup {None}] /\ late \in [Messages -> Nat]
    BY <1>7 DEF TypeOK, Release, SetStatus, worker
  <2>2. \A b \in Messages : Pending(b)' = Pending(b)
    BY <2>1 DEF Pending
  <2> QED
    BY <2>1, <2>2 DEF LateInv
<1>8. CASE UNCHANGED vars
  <2>1. UNCHANGED <<status, late, pc, conv, seen>>
    BY <1>8 DEF vars, tables, worker, history
  <2>2. \A c \in Messages : Pending(c)' = Pending(c)
    BY <2>1 DEF Pending
  <2> QED
    BY <2>1, <2>2 DEF LateInv
<1> QED
  BY <1>1, <1>2, <1>3, <1>4, <1>5, <1>6, <1>7, <1>8
     DEF Next, Poll, WorkerStep, Customer, Inbound, Outbound

\* Whoever takes over may still see the replies of those who were at work,
\* one from each worker at most, however many messages they take later.
THEOREM LateRepliesAreBounded == Spec => []LateRepliesBounded
<1>1. Init => TypeOK /\ LateInv
  BY TypeInit, ConversationAssumption DEF Init, LateInv, Statuses
<1>2. TypeOK /\ LateInv /\ [Next]_vars => (TypeOK /\ LateInv)'
  BY TypeStep, LateStep
<1>3. TypeOK /\ LateInv => LateRepliesBounded
  <2> SUFFICES ASSUME TypeOK, LateInv, NEW c \in Messages
               PROVE  late[c] <= Cardinality(Workers)
    BY DEF LateRepliesBounded
  <2>1. late[c] \in Nat /\ Cardinality(Pending(c)) \in Nat /\ Cardinality(Workers) \in Nat
    BY PendingFinite DEF TypeOK
  <2> QED
    BY <2>1 DEF LateInv
<1> QED
  BY <1>1, <1>2, <1>3, PTL DEF Spec
=============================================================================

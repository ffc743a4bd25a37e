--------------------------- MODULE MCConversation ---------------------------
(* Instances of Conversation for TLC. *)
EXTENDS Conversation, TLC

\* The sender of message mN, when all are from one customer.
OneSender == [m \in Messages |-> CHOOSE c \in Customers : TRUE]

\* Workers are interchangeable; so are the messages of one customer.
Symmetry == Permutations(Workers) \cup Permutations(Messages)
=============================================================================

SPECIFICATION Spec
CONSTANTS
  Messages = {m1, m2, m3}
  Customers = {c1}
  Workers = {w1, w2}
  From <- OneSender
  MaxCrashes = 1
  None = None
SYMMETRY Symmetry
INVARIANTS TypeOK OneConversation CountsMatch RepliesNeedCrashes LateRepliesBounded
PROPERTY RecordedOnce

SPECIFICATION Spec
CONSTANTS
  Messages = {m1, m2}
  Customers = {c1}
  Workers = {w1}
  From <- OneSender
  MaxCrashes = 0
  None = None
INVARIANT NoReplyInTakeover

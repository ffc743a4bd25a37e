SPECIFICATION FairSpec
CONSTANTS
  Messages = {m1, m2}
  Customers = {c1}
  Workers = {w1, w2}
  From <- OneSender
  MaxCrashes = 0
  None = None
PROPERTY BusyEnds

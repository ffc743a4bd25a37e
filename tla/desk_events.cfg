SPECIFICATION Spec
CONSTANTS
  h1 = h1  h2 = h2
  q1 = q1  q2 = q2  q3 = q3
  p1 = p1  p2 = p2
  Requests = {q1, q2, q3}
  Handoffs = {h1, h2}
  Procs = {p1}
  Home <- AtHome
  Jobs <- OwnerJobs
  Capacity = 2
  MaxCrashes = 0
PROPERTIES HotPathSpared
CHECK_DEADLOCK FALSE

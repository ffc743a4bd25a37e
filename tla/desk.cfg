SPECIFICATION FairSpec
CONSTANTS
  h1 = h1  h2 = h2
  q1 = q1  q2 = q2  q3 = q3
  p1 = p1  p2 = p2
  Requests = {q1, q2, q3}
  Handoffs = {h1}
  Procs = {p1, p2}
  Home <- Apart
  Jobs <- MixedJobs
  Capacity = 2
  MaxCrashes = 1
INVARIANTS TypeOK AnswersHold
PROPERTIES OneWay NotesKept RequestsEnd
CHECK_DEADLOCK FALSE

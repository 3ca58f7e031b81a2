CONSTANTS
  e1 = e1
  t1 = t1
  t2 = t2
  Requests = {}
  Notices = {n1}
  Payloads = {p1, p2}
  None = None
  Outlets = {e1}
  Route <- ToOne
  Posters = {s, t1, t2}
  Starter = s
  Capacity = 1
  Retries = 1
  Idempotent = TRUE
  Faulty = TRUE
  MaxOpens = 3
SPECIFICATION FairSpec
INVARIANTS
  LedgerIsTrue
PROPERTIES
  CloseEnds
CHECK_DEADLOCK FALSE

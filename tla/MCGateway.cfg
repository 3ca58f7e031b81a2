CONSTANTS
  Requests = {r1, r2}
  Notices = {}
  Payloads = {p1}
  None = None
  Body = p1
  Setups <- Small
  MaxOpens = 3
SPECIFICATION FairSpec
INVARIANTS
  Accounted
PROPERTIES
  KeepsPromise
  AcceptedIsSettled
  CloseEnds
CHECK_DEADLOCK FALSE

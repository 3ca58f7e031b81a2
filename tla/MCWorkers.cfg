CONSTANTS
  p1 = p1
  p2 = p2
  w1 = w1
  w2 = w2
  Procs = {p1, p2}
  Jobs = {w1, w2}
  Concurrency = 1
  HourlyLimit = 1
  InboxCapacity = 1
  Faulty = TRUE
SPECIFICATION FairSpec
INVARIANTS
  HostedOnce
  StopHolds
PROPERTIES
  KeepsReceipts
  CloseReturns
CHECK_DEADLOCK FALSE

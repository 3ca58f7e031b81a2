CONSTANTS
  c1 = c1
  c2 = c2
  s1 = s1
  s2 = s2
  Convs = {c1, c2}
  Sources = {s1, s2}
  Requests <- Mixed
  MaxJobs = 3
  MaxWorkers = 3
  Capacity = 2
  Slots <- OneSlotEach
  None = None
SPECIFICATION FairSpec
INVARIANTS
  SerialLane
  NothingLost
PROPERTIES
  PauseHolds
  AcceptedResolves
  CloseJoins
CHECK_DEADLOCK FALSE

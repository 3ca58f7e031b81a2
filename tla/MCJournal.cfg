CONSTANTS
  r1 = r1
  n1 = n1
  p1 = p1
  p2 = p2
  o1 = o1
  o2 = o2
  Requests = {r1}
  Notices = {n1}
  Payloads = {p1, p2}
  None = None
  Owners = {o1, o2}
  MaxCalls = 2
  MaxDecisions = 1
SPECIFICATION Spec
SYMMETRY Symmetry
INVARIANTS
  ResultRecorded
  SendsLicensed
PROPERTIES
  WritesAreOwned
  DoubtNeedsDecision
CHECK_DEADLOCK FALSE

CONSTANTS
  Kind <- OneBatch
  GroupLimit = 4
  Asks = {TRUE, FALSE}
  Faults = {"continuation", "session", "receipt"}
  Troubles <- AnyTwo
  None = None
SPECIFICATION FairSpec
INVARIANTS SingleDispatch OnlyApprovedRuns LedgerIsHonest
PROPERTY BatchEnds
CHECK_DEADLOCK FALSE

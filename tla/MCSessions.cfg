CONSTANTS
  Asks = 2
  Procs = {p1, p2}
  MaxAttempts = 2
  Events = 2
  Learned <- ToLearn
SPECIFICATION SessionFairSpec
INVARIANT AcceptedOnce
PROPERTIES LedgerGrows AcceptedRemembered
CHECK_DEADLOCK FALSE

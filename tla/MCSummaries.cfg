CONSTANTS
  d1 = d1
  d2 = d2
  w1 = w1
  Jobs = {w1}
  Sums = {1}
  Dispatchers = {d1, d2}
  Crashes = 1
  Cancels = 1
  Faulty = TRUE
SPECIFICATION ResultsSpec
SYMMETRY Symmetry
INVARIANTS
  InSessionOnce
  HandedRight
CHECK_DEADLOCK FALSE

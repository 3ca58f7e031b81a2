CONSTANTS
  p1 = p1
  p2 = p2
  a1 = a1
  a2 = a2
  a3 = a3
  m = m
  dear = dear
  odd = odd
  Procs = {p1, p2}
  Ids = {a1, a2, a3}
  Models = {m, dear, odd}
  Known = {m, dear}
  Price <- Prices
  Million = 4
  Window = 3
  Outputs = {1}
  Usages <- Counts
  Confirmed = {4}
  Limit = 9
  Faulty = TRUE
  r1 = r1
  r2 = r2
  Requests = {r1, r2}
  Clients <- Chain
  Retries = 0
SPECIFICATION RSpec
SYMMETRY Symmetry
INVARIANTS
  NeverFree
  SpendBounded
  OneVoice
PROPERTIES
  AttemptsGuarded
CHECK_DEADLOCK FALSE

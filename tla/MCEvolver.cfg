CONSTANTS
  p = p
  q = q
  cheat = cheat
  old = old
  new = new
  This = new
  Earlier <- Before
  Patches <- Proposals
  Touches <- Changes
  TrainCases = 2
  HoldoutCases = 2
  MaxCandidates = 2
  MaxVerifierRuns = 8
  MaxVersion = 3
  MaxTroubles = 1
SPECIFICATION ESpec
SYMMETRY Sym
INVARIANTS EvidenceHolds LaunchedTested
CHECK_DEADLOCK FALSE

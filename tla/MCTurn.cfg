CONSTANTS
  Batches <- SmallBatches
  Modes = {"soft", "strict"}
  MaxAttempts = 3
  MaxSteps = 3
  Turns = 2
  Events = 2
SPECIFICATION FairSpec
INVARIANTS StepsBounded VerifiedAnswer ClosedUnlessCut
PROPERTY TurnEnds
CHECK_DEADLOCK FALSE

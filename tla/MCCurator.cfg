CONSTANTS
  Sizes <- SmallSizes
  Fresh <- NewTurn
  Earlier = 1
  MaxTurns = 3
  HeadMsgs = 2
  RecentMsgs = 3
  RankedMsgs = 2
  TailMsgs = 2
  Fixed = 2
  Budget = 10
  Weight <- Weights
  NoState <- Empty
  Proposals = {90}
  CuratorSteps = 3
  Faulty = TRUE
SPECIFICATION ContextSpec
INVARIANTS PromptSound ArchivesBacked
CHECK_DEADLOCK FALSE

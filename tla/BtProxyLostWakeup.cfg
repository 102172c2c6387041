CONSTANTS
  AppKinds = {"start", "other"}
  Window = 1
  QueueCap = 2
  PromptPark = FALSE
  MaxCmds = 3
  MaxRestarts = 0
  MaxEvents = 2
SPECIFICATION FairSpec
PROPERTIES
  EveryCommandAnswered
CHECK_DEADLOCK FALSE

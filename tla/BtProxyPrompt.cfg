CONSTANTS
  AppKinds = {"start", "other"}
  Window = 1
  QueueCap = 2
  PromptPark = TRUE
  MaxCmds = 3
  MaxRestarts = 0
  MaxEvents = 2
SPECIFICATION FairSpec
INVARIANTS
  OneOutstanding
PROPERTIES
  ImplementsFairLink
  EveryCommandAnswered
CHECK_DEADLOCK FALSE

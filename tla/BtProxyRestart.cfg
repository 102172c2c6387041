CONSTANTS
  AppKinds = {"reset", "start", "other"}
  Window = 1
  QueueCap = 4
  PromptPark = FALSE
  MaxCmds = 5
  MaxRestarts = 1
  MaxEvents = 1
SPECIFICATION Spec
INVARIANTS
  TypeOK
  FlushBeforeReset
  ChipOnce
  NoStrayAnswer
CHECK_DEADLOCK FALSE

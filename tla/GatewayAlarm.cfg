CONSTANTS
  Mode = {"disarmed", "armed_home"}
  MaxChanges = 3
  MaxCommands = 1
  MaxStates = 2
  MaxFaults = 1
SPECIFICATION FairSpec
INVARIANTS
  OwnValuePublished
PROPERTIES
  RetainedFollows
CHECK_DEADLOCK FALSE

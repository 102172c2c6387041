CONSTANTS
  MaxStays = 5
  MaxCrashes = 2
SPECIFICATION FairSpec
INVARIANTS
  TypeOK
  ChipExclusive
  AgentApart
PROPERTIES
  ComesUp
CHECK_DEADLOCK FALSE

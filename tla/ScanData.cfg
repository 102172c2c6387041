CONSTANTS
  MaxElements = 3
SPECIFICATION FairSpec
INVARIANTS
  AsMeasured
  AsksForKeys
  Forwarded
PROPERTIES
  Finishes
CHECK_DEADLOCK FALSE

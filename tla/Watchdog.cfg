CONSTANTS
  InitDelay = 3
  Delay = 4
  PatchDelay = 3
  Startup = 1
  MaxFaults = 2
SPECIFICATION FairSpec
INVARIANTS
  TypeOK
  WatchAlive
  NoSpuriousKill
PROPERTIES
  Patched
  Discovers
CHECK_DEADLOCK FALSE

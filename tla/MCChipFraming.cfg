CONSTANTS
  Message <- MCMessage
  MaxSent = 2
SPECIFICATION ReaderSpec
INVARIANTS
  ReaderTypeOK
  Exact
  LossContained
CHECK_DEADLOCK FALSE

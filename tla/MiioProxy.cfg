CONSTANTS
  Addresses = {2}
  Lengths = {1}
  MaxConns = 2
  MaxMsgs = 3
SPECIFICATION FairSpec
INVARIANTS
  TypeOK
  NoStaleConn
  ForwardedInOrder
PROPERTIES
  ClosedTogether
CHECK_DEADLOCK FALSE

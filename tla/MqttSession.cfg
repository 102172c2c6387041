CONSTANTS
  Publishers = {"btchip"}
  QueueLength = 2
  MaxSessions = 2
  MaxBreaks = 1
  MaxMsgs = 3
  MaxSets = 1
SPECIFICATION FairSpec
INVARIANTS
  TypeOK
  PublishedInOrder
PROPERTIES
  Reconnects
  PublishReturns
  EveryPublishDelivered
CHECK_DEADLOCK FALSE

CONSTANTS
  Mac = {"lock", "sensor"}
  Key = {"k1", "k2"}
  Untagged = {"sensor"}
  MaxRekeys = 1
  MaxCrashes = 1
  MaxLost = 1
  MaxFailures = 1
SPECIFICATION FairSpec
INVARIANTS
  FileAgrees
PROPERTIES
  KeysRetrieved
CHECK_DEADLOCK FALSE

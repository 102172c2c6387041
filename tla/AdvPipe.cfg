CONSTANTS
  Sensor = {"s"}
  Tracker = {"t"}
  Attr = {"temp", "hum"}
  Value = {"low", "high"}
  Varies = {"temp"}
  Beacon = {"b1", "b2"}
  Window = 2
  Minute = 1
  Threshold = 2
  MaxChanges = 2
  MaxOffline = 1
SPECIFICATION FairSpec
INVARIANTS
  TypeOK
PROPERTIES
  OncePerWindow
  TrackerStays
  Current
CHECK_DEADLOCK FALSE

CONSTANTS
  Requests <- PageRequests
  Known <- PageRequests
  Commands = {"startCharging", "resetSystem", "setValue"}
  MaxSockets = 2
  MaxGarbled = 2
  MaxReconnectAttempts = 1
  MaxEvents = 2
SPECIFICATION FairSpec
CHECK_DEADLOCK FALSE
INVARIANTS
  TypeOK
  OneConnection
  IntervalsBounded
  ViewIsCurrent
PROPERTIES
  OwnAnswer
  MonitoringStarts

CONSTANTS
  Stations = {"ST0000", "ST0001"}
  ConnectorsOf <- MCConnectorsOf
  Methods = {"RebootStation", "UnlockConnector"}
  Requests <- PanelRequests
  Known <- PanelKnown
  MaxSockets = 2
  MaxGarbled = 1
  MaxSelections = 2
  MaxCommands = 1
SPECIFICATION FairSpec
CHECK_DEADLOCK FALSE
INVARIANTS
  TypeOK
  Online
  DescribedOfStation
PROPERTIES
  SelectionsInOrder
  CallOnceSpec
  CallsSettle

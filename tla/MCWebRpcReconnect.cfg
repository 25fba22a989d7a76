CONSTANTS
  Pages = {p1}
  Commands <- ChangeCommands
  MaxReconnectAttempts = 1
  MaxSockets = 2
  MaxCalls = 1
SPECIFICATION FairSpec
CHECK_DEADLOCK FALSE
INVARIANTS
  AnswersInOrder
  CallsAccounted
  OneConnection
PROPERTIES
  CallSettles
  Redials

CONSTANTS
  Pages = {p1}
  Commands <- ResetCommands
  MaxReconnectAttempts = 0
  MaxSockets = 1
  MaxCalls = 2
SPECIFICATION Spec
CHECK_DEADLOCK FALSE
INVARIANTS
  AnnouncedIsCurrent

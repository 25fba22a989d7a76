CONSTANTS
  Pages = {p1, p2}
  Commands <- AnnouncedCommands
  MaxReconnectAttempts = 0
  MaxSockets = 1
  MaxCalls = 1
SPECIFICATION Spec
CHECK_DEADLOCK FALSE
SYMMETRY PageSymmetry
INVARIANTS
  TypeOK
  ViewFollows
  StaleOnlyByReset

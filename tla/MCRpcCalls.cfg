CONSTANTS
  Calls = {k1, k2, k3}
  NoCall = NoCall
  FirstId = 0
  MaxCopies = 2
SPECIFICATION PromptSpec
CHECK_DEADLOCK FALSE
INVARIANTS
  TypeOK
  OwnAnswer
PROPERTIES
  RequestReplySpec
  DisconnectWakes
  AnswerEndsCall
  CallEnds

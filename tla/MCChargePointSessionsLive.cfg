CONSTANTS
  s1 = s1
  s2 = s2
  c1 = c1
  c2 = c2
  c3 = c3
  w1 = w1
  w2 = w2
  o1 = o1
  Stations = {s1}
  Conns = {c1, c2}
  Workers = {w1, w2}
  Operators = {o1}
  NoConn = NoConn
  Unlocked = Unlocked
  StationOf <- MCOneStation
  MaxReq = 2
SPECIFICATION FairSpec
CHECK_DEADLOCK FALSE
PROPERTIES
  ClosedForgotten
  WorkersProgress
  DroppedGetsClosed
  MessagesLeave

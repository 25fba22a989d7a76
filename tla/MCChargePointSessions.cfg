CONSTANTS
  s1 = s1
  s2 = s2
  c1 = c1
  c2 = c2
  c3 = c3
  w1 = w1
  w2 = w2
  o1 = o1
  Stations = {s1, s2}
  Conns = {c1, c2, c3}
  Workers = {w1, w2}
  Operators = {o1}
  NoConn = NoConn
  Unlocked = Unlocked
  StationOf <- MCTwoStations
  MaxReq = 1
SPECIFICATION Spec
CHECK_DEADLOCK FALSE
SYMMETRY PoolSymmetry
INVARIANTS
  TypeOK
  RemovalsMatchList
  RemovalNeverWaits
  HandlerSafe
  CallbackSafe
PROPERTIES
  RegistrySpec

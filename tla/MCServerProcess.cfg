CONSTANTS
  Conns = {c1, c2, c3}
  Threads = {t1, t2}
SPECIFICATION FairSpec
CHECK_DEADLOCK FALSE
INVARIANTS
  TypeOK
  ThreadsHaveStack
  SessionsAreOver
PROPERTIES
  StackStops

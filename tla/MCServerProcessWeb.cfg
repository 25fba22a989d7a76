CONSTANTS
  Conns = {c1}
  Threads = {t1}
SPECIFICATION Spec
CHECK_DEADLOCK FALSE
INVARIANTS
  ContextNotUsed

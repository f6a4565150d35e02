SPECIFICATION FairSpec
CONSTANTS
  Deques = {d1, d2}
  Nodes = {n1, n2, n3}
  Threads = {t1, t2}
  Null = Null
INVARIANTS Inductive CountNear
PROPERTIES ImplementsFifo MutexReleased
CHECK_DEADLOCK FALSE

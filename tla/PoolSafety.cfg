SPECIFICATION Spec
CONSTANTS
  N = 3
  Main = main
  Clients = {main}
  r1 = r1
  r2 = r2
  k1 = k1
  k2 = k2
  NoTask = NoTask
  Tasks = {r1, r2, k1, k2}
  Children <- Nested
CHECK_DEADLOCK FALSE
INVARIANTS TypeOK OnePlace QueuedBalance PendingBalance RestingDequeEmpty
PROPERTIES IsExecutor AbandonsOnlyInWindow

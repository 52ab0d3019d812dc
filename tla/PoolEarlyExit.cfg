SPECIFICATION Spec
CONSTANTS
  N = 2
  Main = main
  Clients = {main, c2}
  r1 = r1
  r2 = r2
  k1 = k1
  k2 = k2
  NoTask = NoTask
  Tasks = {r1, r2, k1}
  Children <- Nested
CHECK_DEADLOCK FALSE
INVARIANT ExitedDrained

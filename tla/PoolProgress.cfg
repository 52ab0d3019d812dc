SPECIFICATION FairSpec
CONSTANTS
  N = 3
  Main = main
  Clients = {main}
  r1 = r1
  r2 = r2
  k1 = k1
  k2 = k2
  NoTask = NoTask
  Tasks = {r1, k1}
  Children <- Nested
CHECK_DEADLOCK FALSE
PROPERTIES NestedTaskRuns NotifyReachesSleepers NotifyReachesWaiter StopReachesSleepers

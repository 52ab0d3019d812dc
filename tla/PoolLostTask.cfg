SPECIFICATION FairSpec
CONSTANTS
  N = 2
  Main = main
  Clients = {main}
  r1 = r1
  r2 = r2
  k1 = k1
  k2 = k2
  NoTask = NoTask
  Tasks = {r2}
  Children <- Nested
CHECK_DEADLOCK FALSE
PROPERTY EveryTaskRuns

SPECIFICATION Spec
CONSTANTS
  Workers = {w1, w2}
  MaxTasks = 2
  MaxDeps = 1
  MaxRuns = 2
CHECK_DEADLOCK FALSE
INVARIANT InOrder

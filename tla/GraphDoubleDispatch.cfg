SPECIFICATION Spec
CONSTANTS
  Workers = {w1, w2}
  MaxTasks = 3
  MaxDeps = 2
  MaxRuns = 1
CHECK_DEADLOCK FALSE
INVARIANT OnceEach

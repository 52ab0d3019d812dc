SPECIFICATION Spec
CONSTANTS
  Workers = {w1, w2}
  MaxTasks = 4
  MaxDeps = 3
  MaxRuns = 1
CHECK_DEADLOCK FALSE
INVARIANTS TypeOK ShieldedInOrder ShieldedOnceEach ShieldedWaitSound NothingForgotten
SYMMETRY WorkerSymmetry

SPECIFICATION Spec
CONSTANTS
  Owner = owner
  Thieves = {t1}
  InitialCapacity = 2
  MaxPush = 2
CHECK_DEADLOCK FALSE
INVARIANT NeverEmptyTask

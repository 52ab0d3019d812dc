SPECIFICATION Spec
CONSTANTS
  Owner = owner
  Thieves = {t1, t2}
  MaxPush = 4
CHECK_DEADLOCK FALSE
INVARIANTS TypeOK PublishedTasksVisible TakenOnce
PROPERTY IsDeque

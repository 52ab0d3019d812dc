SPECIFICATION Spec
CONSTANTS
  Owner = owner
  Thieves = {t1, t2}
  InitialCapacity = 4
  MaxPush = 5
CHECK_DEADLOCK FALSE
SYMMETRY ThiefSymmetry
INVARIANTS TypeOK IInv EmptyPopHonest FirstRoundNeverEmpty OverwriteNeedsStall
PROPERTY IsDeque

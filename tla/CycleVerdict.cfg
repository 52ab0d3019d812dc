SPECIFICATION FairSpec
CONSTANTS
  MaxNodes = 3
  MaxDegree = 2
CHECK_DEADLOCK FALSE
INVARIANTS TypeOK VerdictRight SearchInv
PROPERTY Terminates

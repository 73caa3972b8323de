\* A member and an administrator; every way a revision comes or goes.
CONSTANTS
  Clients = {c1, c2}
  Admins = {c2}
  Branches = {main, dev}
  Main = main
  None = None
  Chosen = {3}
  Patches = {{"isDefault", "protected"}}
  MaxRev = 4
  MaxNumber = 4
  MaxRoots = 1
  MaxMarked = 1
SPECIFICATION Spec
INVARIANTS TypeOK AtMostOneDefault NoBranchHistoryIsLinear
PROPERTY PushAndRollbackKeepHistory
\* Every bound reached and every request answered, the system stops.
CHECK_DEADLOCK FALSE

CONSTANTS
  Clients = {c1, c2}
  Admins = {c1, c2}
  Branches = {main, dev}
  Main = main
  None = None
  Chosen = {5}
  Patches = {}
  MaxRev = 4
  MaxNumber = 5
  MaxRoots = 2
  MaxMarked = 1
SPECIFICATION Spec
PROPERTY HistoryKept
CHECK_DEADLOCK FALSE

\* Two imports of any kind, two classes with one name or two, three
\* connections, one restart; a loop that has begun is left alone.
CONSTANTS
  Jobs = {j1, j2}
  Clients = {p1, p2, p3}
  Inputs <- SomeInputs
  Given = Given
  GivenLine = l1
  l1 = l1
  l2 = l2
  a = a
  b = b
  None = None
  Overlap = FALSE
  MaxCrashes = 1
SPECIFICATION FairSpec
CHECK_DEADLOCK FALSE
INVARIANTS TypeOK   
PROPERTIES  RunningSettles

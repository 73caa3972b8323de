\* One import: the user accepts what the database has already given up.
CONSTANTS
  Jobs = {j1}
  Clients = {p1, p2}
  Inputs <- SomeInputs
  Given = Given
  GivenLine = l1
  l1 = l1
  l2 = l2
  a = a
  b = b
  None = None
  Overlap = FALSE
  MaxCrashes = 0
SPECIFICATION Spec
CHECK_DEADLOCK FALSE
INVARIANT CompletedIsSaved

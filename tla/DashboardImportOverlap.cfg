\* One import, and a user who rejects it while its loop runs.
CONSTANTS
  Jobs = {j1}
  Clients = {p1, p2}
  Inputs <- SomeInputs
  Given = Given
  GivenLine = l1
  l1 = l1
  l2 = l2
  a = a
  b = b
  None = None
  Overlap = TRUE
  MaxCrashes = 0
SPECIFICATION Spec
CHECK_DEADLOCK FALSE
INVARIANT OnlyAcceptedIsSaved

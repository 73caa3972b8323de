\* A deleted endpoint with no run left is the end of it.
CHECK_DEADLOCK FALSE
SPECIFICATION FairSpec
CONSTANTS
  Jobs = {1, 2}
  Manual = {m1}
  Sweep = Sweep
  Surfaces = {s1, s2}
  NoSurface = NoSurface
  MaxEvents = 1
  MaxFailures = 2
  Threshold = 2
  Cadence = 1
  Base = 1
  MaxBackoff = 1
  RetryAfter = {0}
INVARIANTS TypeOK  
  

\* Two jobs of any kind, one class and the paths, one restart of the REST process.
CONSTANTS
  Jobs = {j1, j2}
  Classes = {c1}
  Paths = Paths
  MaxRestarts = 1
  None = None
SPECIFICATION ImportFairSpec
CHECK_DEADLOCK FALSE
INVARIANT ImportTypeOK
PROPERTIES  OneImportFillsTheRevision EveryJobSettles

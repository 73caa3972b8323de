\* One class of two keys with two values: the merge inside a class.
CONSTANTS
  Names = {c1}
  Keys = {k1, k2}
  Atoms = {a1, a2}
  Missing = Missing
  Conflict = Conflict
SPECIFICATION Spec
SYMMETRY Symmetry
CHECK_DEADLOCK FALSE
INVARIANTS TypeOK CommittedTakesChanges MergeKeepsKeys

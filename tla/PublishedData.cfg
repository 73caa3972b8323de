\* One REST process; a record of up to five events, four payloads of two keys.
CONSTANTS
  Workers = {w1}
  Schemas = {s1, s2}
  k1 = k1
  k2 = k2
  a = a
  Keys = {k1, k2}
  Values = {a}
  Null = Null
  Absent = Absent
  Same = Same
  Docs <- SomeDocs
  None = None
  MaxEvents = 5
SPECIFICATION Spec
INVARIANTS TypeOK PresentUnlessDeleted SnapshotIsReplay
PROPERTY DataKeepsPublication
\* A deleted revision with a deleted class is the end of it.
CHECK_DEADLOCK FALSE

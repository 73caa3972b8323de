\* Two pages on a version with a chain of three groups or a pair.
CONSTANTS
  c = c
  Pages = {p1, p2}
  Classes = {c}
  Names = {9}
  Stored <- ChainOrPair
  MaxEdits = 2
SPECIFICATION FairSpec
INVARIANTS
  TypeOK
  
PROPERTIES
  OnlyWholeSavesAreStored
  
  SavesEnd
CHECK_DEADLOCK FALSE

CONSTANTS
  i1 = i1
  i2 = i2
  v1 = v1
  v2 = v2
  None = None
  Items <- MCItems
  Values <- MCValues
  Size = 3
SPECIFICATION Spec
INVARIANTS
  TypeOK
  OneSector
PROPERTIES
  WrittenIsReadable
  Atomic

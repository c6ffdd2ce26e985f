SPECIFICATION Spec
CONSTANTS
  MaxPages = 3
  v0 = v0
  v1 = v1
  torn = torn
  absent = absent
  Contents = {v0, v1}
  Blank = v0
  Torn = torn
  Absent = absent
INVARIANTS
  TypeOK
  SettledFilesOpen
PROPERTIES
  OpenKeepsPageCount

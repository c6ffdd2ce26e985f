SPECIFICATION Spec
CONSTANTS
  PageSize = 5
  HeaderSize = 1
  SlotSize = 1
  Sizes = {1, 3, 4}
  MaxPages = 3
  c1 = c1
  c2 = c2
  Cursors = {c1, c2}
  MaxScanned = 2
INVARIANTS
  TypeOK
  ScanIsComplete
PROPERTIES
  GrowsOnlyWhenFull
  ScansRunOut

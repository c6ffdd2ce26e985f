SPECIFICATION Spec
CONSTANTS
  PageSize = 12
  HeaderSize = 1
  SlotSize = 2
  a = a
  b1 = b1
  b2 = b2
  c1 = c1
  c2 = c2
  c3 = c3
  Zero = zero
  Dir = dir
  Records <- MCRecords
INVARIANTS
  TypeOK
  PagesValidate
PROPERTIES
  ImplementsSlotMap

SPECIFICATION Spec
CONSTANTS
  Tables = {t, u}
  Columns = {a, b}
  Indexes = {i, j}
  Keys = {1, 2}
  Ids = {r, s}
  t = t
  u = u
  a = a
  b = b
  i = i
  j = j
  r = r
  s = s
  Null = null
  Values <- FewValues
  NoRow = norow
  Raw = raw
  NoIndex = noindex
SYMMETRY Symmetries
INVARIANTS
  TypeOK
  LookupsMatchScans
  DamageIsContained
PROPERTIES
  CompletedWritesAreIndexed
CHECK_DEADLOCK FALSE

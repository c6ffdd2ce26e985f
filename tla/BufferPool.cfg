SPECIFICATION Spec
CONSTANTS
  Capacity = 2
  MaxPages = 3
  v0 = v0
  v1 = v1
  torn = torn
  absent = absent
  g1 = g1
  g2 = g2
  g3 = g3
  Contents = {v0, v1}
  Blank = v0
  Torn = torn
  Absent = absent
  Guards = {g1, g2, g3}
SYMMETRY GuardSymmetry
INVARIANTS
  TypeOK
  TableMatchesFrames
  PinsMatchGuards
  CleanFramesMatchHeap
  ExhaustedOnlyWhenAllPinned
PROPERTIES
  GuardsKeepPage
  ImplementsPageStore
CHECK_DEADLOCK FALSE

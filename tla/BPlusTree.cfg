SPECIFICATION Spec
CONSTANTS
  LeafCapacity = 2
  InternalCapacity = 3
  Universe <- MCUniverse
INVARIANTS
  TypeOK
  TreeHoldsModel
  FindIsComplete
  RangeIsComplete
  NoNodeLeaks

SPECIFICATION Spec
CONSTANTS
  BitsPerByte = 2
  MaxChanges = 2
  Items <- Instances
INVARIANTS
  WritesAreReadBack
  AcceptsOnlyEncodings
CHECK_DEADLOCK FALSE

SPECIFICATION CrashSpec
CONSTANTS
  LeafCapacity = 2
  InternalCapacity = 3
  MaxOrphans = 1
  MaxUnflushed = 1
  Universe <- MCUniverse
INVARIANTS
  AcceptedIndexIsWhole
CHECK_DEADLOCK FALSE

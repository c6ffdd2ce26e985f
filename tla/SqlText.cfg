SPECIFICATION Spec
CONSTANTS
  Letters = {"a", "d", "q", "S", "F", "W", "A", "O", "B", "D", "U", "L", "I", "N", "Z", "T", "X", "E"}
  Sources <- Texts
  Small <- SmallLetters
  MaxInteger = 7
  Absent = absent
INVARIANTS
  TypeOK
  PositionsAreRight
  TokensTileSource
  RefusesAtFirstWrongToken
  PlanSaysTheStatement
CHECK_DEADLOCK FALSE

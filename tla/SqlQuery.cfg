SPECIFICATION Spec
CONSTANTS
  MinKey = 0
  MaxKey = 2
  Null = null
  Absent = absent
  Gone = gone
  Names <- MCNames
  Fold <- MCFold
  TableName = "people"
  Schema <- MCSchema
  Rows <- MCRows
  Statements <- MCStatements
  Predicates <- MCPredicates
  MaxPredicates = 3
  NewRows <- MCNewRows
  RunClauses <- MCRunClauses
  MaxTouched = 2
INVARIANTS
  AnswersSelected
  AnswersLikeScan
  ExplanationHolds
  PullsGiveTheAnswer
  ScansSeeUntouchedRows
CHECK_DEADLOCK FALSE

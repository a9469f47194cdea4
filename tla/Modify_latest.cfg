\* The comment on TupleUpdateSatisfy says that it is given the latest version of a row.
SPECIFICATION Spec
CONSTANTS
  Workers = {w1, w2}
  NoThread = none
  MaxLocalLocks = 8
  NumCols = 2
  PageRoom = 6
  MaxPages = 6
  Rows <- MCRows
  Updates <- MCUpdates
  MaxStatements = 3
INVARIANT
  JudgedIsLatest
CHECK_DEADLOCK FALSE

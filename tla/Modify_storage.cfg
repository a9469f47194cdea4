\* Two workers, three statements: the disk runs full when all of them extend the table.
SPECIFICATION Spec
CONSTANTS
  Workers = {w1, w2}
  NoThread = none
  MaxLocalLocks = 8
  NumCols = 2
  PageRoom = 6
  MaxPages = 6
  Rows <- MCRows
  Updates <- MCUpdates
  MaxStatements = 3
SYMMETRY Symmetry
INVARIANTS
  TypeOK
  RowsAligned
  DataPagesFit
  PagesAccounted
  VersionChain
  IdleHoldsNoLock
  NoCircularWait
CHECK_DEADLOCK FALSE

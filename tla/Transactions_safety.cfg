\* Two workers and four identifiers: transactions overlap, follow each other on one
\* worker, and run before and after a restart.
CONSTANTS
  NW = 2
  MaxXtid = 4
SPECIFICATION Spec
CHECK_DEADLOCK FALSE
INVARIANTS
  TypeOK
  HighIsMaxFinished
  NoFutureRead
  PersistedVisible
PROPERTIES
  RepeatableRead

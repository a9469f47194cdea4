\* A session of two commands over two tables of three rows; pieces of the streams of up to four
\* cells; the storage refuses at most one row.  The session may end, so deadlock is not checked.
CONSTANTS
  Catalog <- MCCatalog
  InitialDb <- MCInitialDb
  Commands <- MCCommands
  MaxCommands = 2
  MaxChunk = 4
  MaxFaults = 1
SPECIFICATION Spec
INVARIANTS TypeOK AnswerIsRelational ChangeIsRelational
PROPERTIES ErrorChangesNothing TransferIsInOrder RequestAnswered ClientLeft
CHECK_DEADLOCK FALSE

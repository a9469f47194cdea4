\* Two sessions, two tables, a stop or a kill of the server at any time.
SPECIFICATION Spec
CONSTANTS
  Sessions = {s1, s2}
  Names = {a, b}
  Entries <- MCEntries
  MaxOpen = 3
  MaxStatements = 4
  MaxRestarts = 1
SYMMETRY Symmetry
INVARIANTS
  OneEntryPerTable
  FindsOwnFile
PROPERTIES
  LinkedIsWhole
  HeaderWrittenOnce
CHECK_DEADLOCK FALSE

CONSTANTS
  NW = 2
  MaxXtid = 4
SPECIFICATION Spec
CHECK_DEADLOCK FALSE
INVARIANTS NoDirtyRead

\* Two workers and three connections: a third client is refused or follows another one.
CONSTANTS
  c1 = c1  c2 = c2  c3 = c3
  Clients = {c1, c2, c3}
  NW = 2
  NoClient = NoClient
  NoWorker = NoWorker
SPECIFICATION FairSpec
CHECK_DEADLOCK FALSE
INVARIANTS
  TypeOK
  SessionOwnsItsClient
  AssignedIsWoken
PROPERTIES
  WorkerComesBack

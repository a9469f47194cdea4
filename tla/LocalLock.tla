------------------------------ MODULE LocalLock ------------------------------
(***************************************************************************)
(* The read-write locks of toadb (util/ipc/lock/rwlock): rwlock.c wraps a  *)
(* pthread rwlock, locallock.c puts a table of the locks a thread holds in *)
(* front of it, so that a thread may take a lock again that it has.  The   *)
(* page locks, the lock of the dictionary and the extension lock of a      *)
(* table all go through it.                                                *)
(*                                                                         *)
(* A lock state L is a record of the tables, one per thread, and of the    *)
(* pthread locks.  The operators answer the state after a call; whether a  *)
(* call returns at all is CanAcquire.                                      *)
(***************************************************************************)
EXTENDS Integers, Sequences

CONSTANTS
  MaxLocalLocks,     \* MAX_LOCAL_LOCK_NUM
  NoThread           \* nobody holds the lock for writing

ASSUME LocalLockAssumption == MaxLocalLocks \in Nat \ {0}

READ  == "read"
WRITE == "write"

\* InitRWLock on every lock, and the empty tables of the threads.
InitRWLocks(Threads, Locks) ==
  [tab |-> [t \in Threads |-> << >>],
   rw  |-> [l \in Locks |-> [writer |-> NoThread, readers |-> 0]]]

\* pthread_rwlock_rdlock and pthread_rwlock_wrlock return when these hold.  The number of
\* readers may be negative: see ReleaseRWLock.
Grantable(lock, mode) ==
  /\ lock.writer = NoThread
  /\ mode = WRITE => lock.readers = 0

AcquireRWLock(lock, t, mode) ==
  IF mode = WRITE THEN [lock EXCEPT !.writer = t] ELSE [lock EXCEPT !.readers = @ + 1]

\* The pthread library takes whoever is not the writer for a reader, so that unlocking a lock
\* that the thread does not hold leaves the count of readers one too low for good.
ReleaseRWLock(lock, t) ==
  IF lock.writer = t THEN [lock EXCEPT !.writer = NoThread] ELSE [lock EXCEPT !.readers = @ - 1]

\* The position of a lock in the table of a thread, 0 when it is not there.
SearchLocalLockTable(tab, l) ==
  IF \E i \in 1..Len(tab) : tab[i].lock = l
  THEN CHOOSE i \in 1..Len(tab) : tab[i].lock = l /\ \A j \in 1..(i - 1) : tab[j].lock # l
  ELSE 0

\* RemoveLocalLock: the entries behind it move up.
RemoveLocalLock(tab, i) == SubSeq(tab, 1, i - 1) \o SubSeq(tab, i + 1, Len(tab))

-----------------------------------------------------------------------------
(* AcquireRWLockLocal and ReleaseRWLockLocal *)

TableFull(L, t) == Len(L.tab[t]) >= MaxLocalLocks

\* The call waits only for a lock that is neither in the table nor refused.
CanAcquire(L, t, l, mode) ==
  \/ TableFull(L, t)
  \/ SearchLocalLockTable(L.tab[t], l) # 0
  \/ Grantable(L.rw[l], mode)

\* A full table (-1) and a lock that is held in the other mode (-2) leave everything as it is,
\* and so does the caller, which does not look at the answer.
AcquireRWLockLocal(L, t, l, mode) ==
  LET i == SearchLocalLockTable(L.tab[t], l)
  IN  IF TableFull(L, t) \/ (i # 0 /\ L.tab[t][i].mode # mode) THEN L
      ELSE IF i # 0 THEN [L EXCEPT !.tab[t][i].cnt = @ + 1]
      ELSE [tab |-> [L.tab EXCEPT ![t] = Append(@, [lock |-> l, mode |-> mode, cnt |-> 1])],
            rw  |-> [L.rw EXCEPT ![l] = AcquireRWLock(@, t, mode)]]

\* An empty table refuses the call; a lock that is missing from a table with other locks is
\* unlocked all the same.
ReleaseRWLockLocal(L, t, l) ==
  LET i == SearchLocalLockTable(L.tab[t], l)
  IN  IF L.tab[t] = << >> THEN L
      ELSE IF i # 0 /\ L.tab[t][i].cnt > 1 THEN [L EXCEPT !.tab[t][i].cnt = @ - 1]
      ELSE [tab |-> [L.tab EXCEPT ![t] = IF i # 0 THEN RemoveLocalLock(@, i) ELSE @],
            rw  |-> [L.rw EXCEPT ![l] = ReleaseRWLock(@, t)]]

\* Several locks released one after the other.
Released(L, t, ls) ==
  LET rel[n \in 0..Len(ls)] == IF n = 0 THEN L ELSE ReleaseRWLockLocal(rel[n - 1], t, ls[n])
  IN  rel[Len(ls)]
=============================================================================

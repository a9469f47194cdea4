# A TLA+ verification of toadb

toadb is a small relational database server in C: a main thread accepts TCP
clients, a fixed pool of worker threads each serves one client at a time, and the
workers share a page buffer, a dictionary of open tables, a storage manager and a
table of running transactions. This directory holds TLA+ models of the parts in
which the workers meet and of the way of a command from the client through
analysis, plan and executor and back, TLC instances that check them, and TLAPS proofs
about the page buffer, the transactions, the hand-over of connections, the
dictionary with its files and the changes of tables. Paths below are relative to the repository; line numbers are in
`PROJECT.json` ("map").

- [Inventory](#inventory)
- [Modules](#modules)
- [Runs](#runs)
- [Proofs](#proofs)
- [Where code and documentation disagree](#where-code-and-documentation-disagree)
- [Not modelled](#not-modelled)
- [Plan](#plan)

## Inventory

| component | state | operations | meets others through | hard about it | correct when |
|---|---|---|---|---|---|
| buffer pool (`util/bufferPool`, `storage/buffer/buffer.c`, `util/hashtable`) | descriptors (tag, validity, pin and use counts, lock), free list, clock hand, hash table | `ReadPage` / `AllocBuffer`, `ReleasePage`, `ClockSweep`, `CleanPageBuffer`, page locks | every statement of every worker | no global lock: search, pin, replace and load interleave; the lock of a descriptor is also the lock of the page | pins are exact, a page in use is not replaced, hash table and descriptors agree, no structure runs out |
| transactions (`sqlcore/transaction`, `execTransaction.c`) | next and highest finished identifier, one slot per worker, a snapshot per session | start, begin, commit, roll back, finish, snapshot, visibility | slots of all workers are scanned without a lock | publication order, compare-and-exchange, stop and restart | a snapshot is stable, sees what had finished and nothing that runs or comes later |
| dispatch (`processor/threadPool`, `processor/dispatch`, `toadmain/workermain.c`) | worker states, task of each worker, semaphores, descriptors of connections | accept, `PushTask`, session, `FinishTask`, cancel, join | main thread writes the task of a worker that may be running | hand-over without a lock, asynchronous end of threads | each connection has one owner, no wake-up is lost, the server can stop |
| local lock table (`locallock.c`, `rwlock.c`) | eight locks per thread with mode and count | acquire, try, release, release all | wraps every page lock | callers ignore refusals and unlock twice | a caller that goes on holds the lock; nothing stays held after a statement |
| page space (`buffer.c`, `tables.c`, `tuples.c`, `undopage.c`) | pages of a table, groups, free space, extension lock | find space, extend, insert, redirect, undo chain | buffer pool, dictionary | several page locks at once, failure in the middle | rows are never lost, groups stay aligned, locks and pins are given back |
| data modification (`execModifyTable.c`) | row headers, undo records | insert, update, delete | transactions, page space | header checked before the page is locked | no lost update, version chains end in a visible version |
| dictionary (`relCache.c`, `exectable.c`, `tables.c`) | list of open tables, their locks, the counter of table identifiers | load, create, drop, stop and start | every statement | load, drop and use of one table at once; a kill between the two files of a table | one entry per table and per identifier, only whole tables in it |
| storage manager, files (`smgr.c`, `tfile.c`) | one ring of descriptors for all tables, file handles, number of open files | create, open, read, write, close, delete | dictionary, buffer pool | ring shared by all tables, files closed at a limit | a table finds its own files, and never another's |
| resource owner (`resourceMgr.c`) | pages to release at the end of a statement | push, pop, release all | page space | pages pushed and released twice | every pin is dropped exactly once |
| executor (`executor/*`) | tree of plan states | pull rows through scan, select, project, join | dictionary, page space | rescans of the inner side of a join | result equals the relational definition |
| memory contexts (`util/mem`) | context tree, bump-allocated pages | new, switch, allocate, free, delete | everything | contexts of several threads on one free list | nothing is freed in use |
| portal and protocol (`portal`, `tcpsock.c`, `tools/tsql`) | message buffer, descriptor | send rows, end mark, read command | dispatch, client | partial reads | the client receives every row once, in order |
| analysis, planner, data types (`plan/*`, `dictionary/*`) | query and plan trees, values | construction, comparison, arithmetic | executor | errors in one of several statements; trees that share nodes | what is executed is what was written, or an error |
| parser (`parser/*`, generated) | parse trees | parse | analysis | - | - |

The behaviours that tests hardly reach, each with its line and the properties
aimed at it, are under "hazards" in `PROJECT.json`; those without a property
say why.

## Modules

`X.tla` is a component, `MCX.tla` declares the model values of its instances,
`X_<question>.cfg` is one run, `XProofs.tla` has the theorems about `X`.
`NatInductions.tla` has the induction principles that the proofs share.

### BufferPool

State: the fields of `BufferDesc` (`tag`, `isValid`, `refCnt`, `usedCnt`), the
descriptor lock (`writer`, `readers`), which page a buffer holds (`pageOf`), the free
list (`freeHead`; `InitBufferPool` links the buffers in ascending order and nothing is
ever put back, so its head is enough), the clock hand (`start`), the elements of the
hash table (`hashed`, `hashFree`, `entryTag`, `entryBuf`), and per worker the position
in `AllocBuffer` with its locals and the pages it holds (`slotBuf`, `slotTag`).

| action | code |
|---|---|
| `ReadPage`, `Return` | `ReadPage` up to and after `AllocBuffer` |
| `SearchHit`, `SearchMiss` | `SearchBuffer` |
| `RecheckFound`, `RecheckLoading`, `RecheckStale` | label `FIND_RECHECK`: pin under the write lock, compare the tag again; found, to be loaded, or reused |
| `GetFreeBufferId`, `FreeListEmpty`, `ClaimFree`, `ClaimFreeTaken` | the free list and what follows it |
| `SweepSkip`, `SweepInvalid`, `SweepVisit`, `SweepDecrement`, `SweepClaim`, `SweepRetry` | `ClockSweep`, cut where it drops the read lock and takes the write lock |
| `CleanPageBuffer`, `InitTag` | `CleanPageBuffer` with `HashDeleteEntry`, `PutFreeList`, label `INIT_TAG` |
| `InsertEntry`, `InsertFound`, `RereadEntry` | `HashGetFreeEntry`, and the path on which another worker was first |
| `LoadOk`, `LoadFailed` | the read of the page, which can fail |
| `LockPageRead`, `LockPageWrite`, `UnLockPage`, `ReleasePage` | the callers |

Steps are cut where a lock that others can wait for is taken or dropped. Partitions
and buckets of the hash table are one set of elements: the tag decides both, so they
only reduce contention. The dirty flag is left out: pages are written through and
nothing sets it. `InvalidateBuffer` and `SetBuffferDirty` have no caller. A worker takes
no pool step while it holds a page lock; `GetSpaceSpecifyPage` does, which only adds pins
that cannot be swept.

### Transactions

State: `nextXtid` and `highXtid` (`transactionInfo`), per worker the slot of
`transactionContextArray` (`ts`, `xtid`, `taken`), whether `myTransaction` points to it
(`mine`), and the snapshot memory of the session (`snap`, whose array keeps the values
of earlier snapshots as the code's does); `disk` is the identifier saved by
`RecordSysGlobal`. `ToadMainEntry` drives each command through `StartTransaction`,
`GetNewTransactionID`, `SetTransactionID`, `GenerateSnapshot`, one step per slot of
`GetActiveXtids` (`SkipSlot`, `TakeSlot`), the statement (`BeginTransaction`,
`EndTransaction`, `AbortTransaction`, or `ExecutorPlan` for everything else) and
`FinishTransaction` with the compare-and-exchange loop. `NewSession` is the next client
of a worker, whose `CreateSnapshot` gets zeroed memory while `myTransaction` survives.
`ExitToad`, `Kill` and `StartToadb` are SIGTERM, `kill -9` and the next start.
`TupleVisibilitySatisfy` is the code's test on a row header; rows themselves are not
state here. `finished`, `kept` and `horizon` are history variables.

### Dispatch

State: the connection of each client, the main thread in `ServerLoop` / `PushTask` /
`StopThreadPool`, and per worker `tw_state`, its semaphore, the descriptor in its task
(`taskfd`, written by the main thread) and in its session (`servfd`), and whether it is
cancelled. A query is reduced to what workers do to each other: it takes a page lock,
does I/O under it and releases it. Deferred cancellation takes effect at `sem_wait`,
`recv` and file I/O. The signal handler runs in the main thread. `idleWorkerNum` is
written but never read, and left out.

### LocalLock, TableSpace, Modify

`LocalLock` has the locks as the threads use them: the pthread lock (`rw`: a writer and
a number of readers) and, in front of it, the table of each thread (`tab`: lock, mode,
count, at most `MAX_LOCAL_LOCK_NUM`). It answers what a call leaves behind, also for the
calls that callers should not make: the ninth lock and the change of mode are refused
and the caller goes on, and a release of a lock that is not in the table reaches
`pthread_rwlock_unlock` anyhow, which takes away a reader as glibc does.

`TableSpace` has the pages: data pages of a group, one per column, whose i-th entries
are one row; extension pages for rows that have outgrown their page; undo pages for
older versions. Values are sizes, counted in item pointers.

`Modify` extends both with INSERT, UPDATE and DELETE by several workers. A step runs
from one lock that may have to be waited for to the next; a lock taken and given back in
between only delays the step.

| actions | code |
|---|---|
| `StartInsert`, `NextGroup`, `MemberPage`, `LockGroupPages`, `FreeSpaceCheck`, `WriteColumn` | `pax_ExecInsert`: look for a group with room, lock its pages, check again, write column by column |
| `StartExtensionTbl`, `AddPage`, `UpdateMetaData`, `InsertGroupItem` | extension of the table and the new group |
| `ScanGroup`, `ScanColumn`, `CurrentReadVersion`, `RowMatches`, `RowDiffers` | the scan of UPDATE and DELETE, with the walk along the undo chain |
| `LockFirstPage`, `LockChainPage`, `LinkPage` | `GetSpaceSpecifyPage`: room for the undo record or the new row in the chain of a page |
| `LockOrigin`, `LockUndo`, `MoveOld`, `WriteInPlace`, `Grow`, `WriteNewRow` | `pax_ExecUpdate`: the old version to the undo page, the new one in place or to another page |
| `StartDelete`, `LockForDelete`, `Remove` | `pax_ExecDelete` |
| `Begin`, `EndStatement` | the transaction around a statement |

Every statement is a transaction of its own whose snapshot is one step; `Transactions`
has the details. The group file is one sequence of groups. A full disk is a page number
above `MaxPages`. A row or value that no empty page could take is refused (`Oversize`,
`buffer.c:385-389`); the statement then ends with what it has changed so far.

The room on an undo page is found at `buffer.c:428`, the page unlocked, and locked again
without a second look at `execModifyTable.c:185`. Two updates that find room for one row
both write: the second copy goes over the entries of the page or over another old version.
The model goes on; the page is then overdrawn (`Overdrawn`: less than no room), and what its
rows say is no longer known. `wild` becomes TRUE, and the model stops, at the first access
whose outcome the memory decides: a write that would begin before the entries of a page
(`Underruns`), a version read from an overdrawn page, or an entry written through a copy that
was made before the row moved to another page. The double unlock at
`execModifyTable.c:261` and `269` leaves a pthread lock with fewer readers than none, which
keeps writers out for ever; it is modelled as such.

### Smgr, Dictionary

`Smgr` has the descriptors of all tables in one ring with the pointers of `list.c`, the
global head, head and end of every table, the file each descriptor has open, and the
number of open files with the limit that closes the first one. The number is changed
under different locks, so an update may be lost (`Raced`).

`Dictionary` has the list of entries with its pointers, the data directory (`disk`: which
file a name and a fork have; `hdr`: the identifier in its header page), the counter of
table identifiers and its saved value.

| actions | code |
|---|---|
| `CreateSearch`, `CreateTblInfo`, `CreateMain`, `CreateGroup`, `TableFileMainInit`, `TableFileGroupInit`, `CreateEnd` | `ExecCreateTable`, `CreateTblInfo`: the lock is held from the second search on, and a kill can come between any two files and pages |
| `GetTableInfo`, `LoadTblInfo`, `LoadMain`, `LoadGroup`, `ERRRET` | `GetTableInfo`, `LoadTblInfo`, `TableOpen` |
| `DropMain`, `DropGroup`, `Detach`, `ReleaseTblInfo` | `ExecDropTable`, `TableDrop`, `ReleaseTblInfo` |
| `Read`, `Reopen`, `EndUse` | a statement that uses a table and reads a file which the limit has closed |
| `Crash`, `ExitToad` | `kill -9`; a regular stop, which saves the counter; both followed by a start |

`LinkTblInfo` and `DetachTblInfo` keep the code's pointers: the old first entry is never
linked back, so every entry points back to the head of the list, and removing an entry
removes those in front of it too. Memory that is given back keeps its contents, as in
the pool of the code, which never hands out a block twice; so a descriptor that was
freed while it was linked is simply followed.

A table loses its first descriptor (`LosesHead`) when a DROP of the only other table in the
ring ends while this table is being created or loaded: the ring is empty for a moment, and
the group descriptor becomes the head of the ring and of its table (`smgr.c:75-78`). The
model goes on as the code does, and `headLost` remembers it. The CREATE finds no main
descriptor any more, opens the file that exists and writes its header page a second time
(`tables.c:260-263`). The next table is appended behind (`smgr.c:84`), and from its main
descriptor `FindVF` reaches the group descriptor of the first one: its CREATE writes over
that table's group header, or it is loaded without a group file of its own.
`FindsOwnFile`, `HeaderWrittenOnce` and `LinkedIsWhole` are false in such
behaviours and are therefore stated, checked and proved only while `headLost` is FALSE.

A behaviour ends (`wild`) where a statement goes on through an entry that another session
has released (`UseReleased`): what it reads there is no longer a state of the program. Both
are listed as hazards.

### DataTypes, Query, Plan, Executor, Relational, Session, Answers

The way of a command. `DataTypes` has values and the operators on them as the code
computes them, `Query` the analysis of parse trees (`query.c`), `Plan` the plan trees
(`plan.c`), `Executor` the pull functions of every node, with positions, registers and
scans that break off. These are functions, since one worker runs them alone. `Session`
is the state machine around them: the client tool, the two streams with pieces of any
length, `ProcessQuery` and `SqlQueryEntry` in the worker, the portal with its buffer and
message types, and storage that may refuse any column of a row: `ExecTableModifyTbl` goes
column by column as `pax_ExecUpdate` and `pax_ExecDelete` do, so that a refusal leaves the
columns before it changed, or a row deleted in some of its columns. Otherwise the storage is
ideal: that a row which has moved to an extension page ends its group for a scan
(`buffer.c:1982`) is in `Modify`, not here. `Relational` says independently what a
statement means, and `Answers` what the transfer promises; `Session` is checked against
both. The parser is outside: a command is the trees it builds.

`Relational!Supported` says which statements are compared. Left out because the code's
result is undefined: a bare column in `SET a = b`, in AND or OR, division by zero,
comparisons with NULL columns or of different types, an UPDATE or DELETE with a FROM list,
UPDATE with a float or of one column twice, and tables with a row that is deleted in some
columns only. Modelled and run, but not compared, because the code plainly differs from any
reading: `<` is computed as `<=`, operands are swapped without the operator (`query.c:448`),
`a = -1` compares with zeros, a column asked for more often than the table has columns gives
no rows, a second SELECT of a command keeps the columns of the first.

`NamesUnknown` says which names are looked up. Three kinds are not, and are no error: the
column list of an INSERT, which ends at an unknown name (`query.c:962-971`); a FROM list of
UPDATE or DELETE with an unknown table, which counts for nothing (1158, 1340); and a name that
stands alone or under a sign after SET or in a condition (756-760, 363). The run has commands
with each of them.

After a piece shorter than a header is dropped (`lost`), the reader takes text for headers;
the stream is followed no further, and the properties of the transfer claim nothing there.

## Runs

| run | instance | states | shows |
|---|---|---|---|
| `bufferpool_safety` | 2 workers with up to 2 pages each, 2 buffers, 2 pages, use count to 2; symmetric in workers, pages, hash elements | 1.7 million | the seven properties of the pool |
| `bufferpool_copies` | 2 workers with one page each, 2 buffers, 2 pages | violation | `OneValidCopy` |
| `bufferpool_returns` | 1 worker that holds 2 pages and wants a third, 2 buffers | violation | `ReadPageReturns` |
| `transactions_safety` | 2 workers, 4 identifiers, any number of sessions, stops and kills | 0.64 million | the five properties of snapshots and identifiers |
| `transactions_dirty` | 2 workers, 4 identifiers | violation | `NoDirtyRead` |
| `dispatch_safety` | 3 clients, 2 workers, one page lock | 0.15 million | ownership, wake-ups, return to the pool |
| `dispatch_served` | 2 clients, 2 workers | violation | `ClientServed` |
| `dispatch_stop` | 2 clients, 2 workers | violation | `StopEnds` |
| `session_answers` | 2 tables with 3 rows, 2 commands out of 38, pieces of up to 4 cells, one refused column | 71 thousand | answers, changes, transfer and liveness of a session |
| `modify_storage` | 2 workers, 3 statements, 2 columns, pages for a few rows, a value larger than a page, disk of 6 pages | 0.15 million | rows, pages, versions and locks under concurrent changes |
| `modify_latest` | the same | violation | `JudgedIsLatest` |
| `dictionary_tables` | 2 sessions, 2 tables, 4 statements, limit of 3 open files, one stop or kill | 0.25 million | the four properties of dictionary and files |

Properties of the passing runs:

- `PinsAccounted`: `refCnt` equals the pins held by callers and by workers inside
  `AllocBuffer`, on every retry and failure path.
- `PageInUse`: a page that `ReadPage` returned stays the page asked for until released.
- `HashNamesItsBuffer`: an element in the hash table agrees with the descriptor it
  names, and no tag has two elements.
- `EntriesEnough`: the comment "must be enough" holds although a deleted element is on
  no list for a while.
- `FreeListUnpinned`: `GetFreeBufferId` never runs past the end of the list.
- `LockedPageStable`: nobody replaces a page under somebody's lock.
- `HighIsMaxFinished`: the high level is exactly the greatest finished identifier.
- `NoFutureRead`: a snapshot shows neither rows nor deletions of transactions that
  begin after it, also right after a start, when the restored high level equals an
  identifier that has not been handed out.
- `PersistedVisible`: what was finished at a recorded stop is visible ever after, also
  when a kill has made identifiers come again.
- `RepeatableRead`: within a transaction of a session no verdict changes.
- `SessionOwnsItsClient`: nobody else closes or serves the connection of a session.
- `AssignedIsWoken`: a worker with a task and asleep has its semaphore posted.
- `WorkerComesBack` (liveness): a worker whose client is gone becomes idle.
- `AnswerIsRelational`, `ChangeIsRelational`: answers and changes of supported
  statements are those of the reference, with joins, conditions, several statements in
  a command and columns that the storage refuses: the rows before are changed and counted,
  of the row at hand exactly the columns before the refused one.
- `ErrorChangesNothing`: an unknown name that the analysis looks up, in any statement of a
  command, keeps all of them from changing a table.
- `TransferIsInOrder`: `Session` implements `Answers` (a refinement: `busy` is the status
  of the client, `over` that it has left or lost step).
- `RequestAnswered`, `ClientLeft` (liveness): a request gets to the end of its answer,
  and the worker gets rid of a client that has left.
- `RowsAligned`: the columns of a row stay together in every group.
- `DataPagesFit`: data and extension pages are never overfilled, however many workers
  found room there first. Of undo pages it says nothing.
- `PagesAccounted`: a page has one use, and the header page counts it.
- `VersionChain`: every undo position leads to an older version of the row, as long as the
  page that holds it has not been overdrawn; without that condition it is false (see Modify).
- `IdleHoldsNoLock`: a worker between statements holds nothing, unless the disk is full
  (then the extension lock, or the first page of a chain, stays locked: see hazards). It
  speaks of locks a worker holds, not of a lock left with fewer readers than none.
- `NoCircularWait`: no circle of workers waiting for page and extension locks. A worker that waits for a
  lock with fewer readers than none waits for nobody, and is not seen here.
- `OneEntryPerTable`: no two entries of the dictionary have one name, or, without a kill,
  one identifier. After a kill identifiers are handed out again.
- `LinkedIsWhole`, `HeaderWrittenOnce`, `FindsOwnFile`: until a table has lost its first
  descriptor, what enters the dictionary has both files with their header pages, a CREATE
  never writes over an existing table, and a walk in the ring never ends at the descriptor
  of another table. After that step the code breaks all three (see Dictionary).

**Bounds.** Two buffers are the smallest pool in which a buffer comes from the free
list (buffer 0 never is on it, buffer 1 is) and from the sweep; two pages and two
workers produce every lost race of `AllocBuffer`, since each involves the worker and one
rival; two page pointers per worker let pins reach every combination of full and free
pool. A use count of 2 has a sweep that passes a buffer and one that takes it. Four
identifiers let each worker have a transaction before and after the other's, and leave
one for a restart. Three clients on two workers include a refusal and a follow-up
session. In `Transactions` the leftover of an earlier snapshot can exceed the limit only
with three workers, and mislead only with four; that test is modelled but does not fire
in this instance. In `Modify` three statements of two workers have an insert, a change
of the row and a second change at once, or two inserts that both extend the table; the
updates grow a row within its page, out of it and past the size of a page, and the disk has room for all but the
last extension. In `Dictionary` four statements are two tables created and dropped in
every order with uses in between, or a table created, half dropped by a kill, created
again and used; with a limit of three open files the fourth descriptor closes the
first. Two commands in `Session` show what one leaves behind for the next; pieces of four
cells reach over a message of three.

**Fairness.** `Dispatch` assumes weak fairness of the main thread after `accept` and of
every worker's own steps, and strong fairness for getting the page lock: the operating
system runs every thread and a `pthread_rwlock` that is released again and again is
finally obtained. Nothing is assumed of clients or signals. `BufferPool` (for the
violation only) assumes that workers inside `ReadPage` proceed and that callers release
their pages when they can, so that the counterexample is not a stopped worker. `Session`
assumes that the worker takes its steps when it can (the scheduler runs the thread; its
enabling condition is written out as `ServerReady`, which says the same as weak fairness)
and that the client reads what has arrived (its loop blocks in `recv`); it assumes
nothing about new commands or about leaving.
The two violated liveness properties fail under these assumptions.

**Deadlock** is checked for `BufferPool`. `Dispatch` ends when the server exits and
`Transactions`, `Modify`, `Dictionary` and `Session` when the statements of the instance
are used up, so it is off there. `NoCircularWait` takes its place in `Modify`.

## Proofs

`BufferPoolProofs.tla` proves, for any finite sets of workers and page pointers, any
number `N > 0` of buffers with as many hash elements, and any set of pages:

| theorem | statement |
|---|---|
| `PoolInvariant` | `Spec => []PinInv` |
| `PoolTypeOK`, `PoolPinsAccounted`, `PoolPageInUse` | parts of it |
| `PoolLockedPageStable` | the action property, from `PinInv` |
| `PoolFreeListUnpinned` | with `FreeListOrder` added |
| `PoolHashNamesItsBuffer` | with `EntryOwnership` added |
| `PoolEntriesEnough` | from the two above by counting |

Assumptions: `N` and `UseCountMax` positive, finite sets, `Cardinality(Entries) = N`
(`InitHashTable` is called with the number of buffers), sentinels outside their sets.

The argument. `PinsAccounted` and `PageInUse` are not inductive: they need to know which
worker holds which descriptor lock at which point (`LockDiscipline`), what it has
established there (`Knows`, e.g. that a buffer being initialised is invalid), and that a
valid buffer holds the page of its tag (`ContentsOK`). Together these are `PinInv`. Each
action is treated once for the worker that takes it (`OwnStep`) and once for everybody
else (`Frame`: a step of another worker leaves a buffer under my write lock alone). Pin
counts go through lemmas on cardinalities: a pin taken or dropped changes one of the
two sets by one element (`PinTaken`, `PinDropped`, `SlotFilled`). `FreeListUnpinned`
additionally needs that the sweep runs only when the free list is used up
(`FreeListOrder`). For `EntriesEnough`, every element is in a bucket, on the free list
or in the hands of a worker at `init` (`EntryOwnership`); if none were free, mapping
each element to the buffer it occupies would be an injection of N elements into the
buffers other than the inserting worker's, N - 1 of them.

`TransactionsProofs.tla` proves, for any number `NW > 0` of workers and any bound
`MaxXtid > 0` on the identifiers:

| theorem | statement |
|---|---|
| `TransactionsInvariant` | `Spec => []XtidInv` |
| `TransactionsTypeOK`, `TransactionsHighIsMaxFinished` | parts of it |
| `TransactionsNoFutureRead` | from `XtidInv`: an identifier at or above the high mark is never seen |
| `TransactionsPersistedVisible` | from `XtidInv`: an identifier below the saved one is under the high mark and in no array |
| `TransactionsRepeatableRead` | the action property: once a snapshot is taken nothing writes to it |

The argument. None of these properties is inductive. `LevelsOK` relates the high level,
the next identifier and what has finished to the saved identifier `disk`: an exchange
succeeds only on the value read, and an identifier handed out since the start is not
below `disk`. `IdsOK` says so for every slot and for the identifier on its way into one.
`ScanOK` describes a half-collected snapshot: as many entries as slots passed, one fewer
once the own slot has been passed over (this bounds the write into the array), the high
mark above `disk` and not above the identifiers handed out when the snapshot was begun
(`horizon`), and every entry either 0, the slot published before its identifier, or an
identifier not below `disk`. `SnapshotOK` carries this to the end of the transaction.
Each action is treated once for its worker, one lemma per part, and once for all others
(`CommandFrame`). A recorded stop moves `disk` past everything that finished; a kill
forgets what finished since, which is why `kept` and not `finished` is below `disk`.

`DispatchProofs.tla` proves, for any number `NW > 0` of workers and any finite set of
connections:

| theorem | statement |
|---|---|
| `DispatchInv` | `Spec => []Inv` |
| `DispatchTypes` | `TypeOK`, with the bound on the semaphores |
| `ConnectionOwned` | `SessionOwnsItsClient` |
| `NoLostWakeup` | `AssignedIsWoken` |
| `PageLockExclusive` | a worker does file I/O only with the page lock, also when it is cancelled |

The argument. `SessionOwnsItsClient` is about a descriptor that a worker has read from its
task. It is not inductive: before a worker reads the task, the connection in it must
be open and in no other task (`TaskOpen`), and before the main thread writes it, the
connection must belong to nobody (`FreshClient`, from the end of `accept` to the store in
`PushTask`). `AssignedIsWoken` speaks of a worker in `sem_wait`; it is carried over the
steps in which a worker is on its way there (`Woken`). That a semaphore is bounded is a
count: the main thread posts once per accepted connection and once more per worker when
it stops (`PostsCount`), and the accepted connections are a subset of a finite set.

`DictionaryProofs.tla` proves, for any finite set of sessions, any names, and any limits on
statements, restarts and open files:

| theorem | statement |
|---|---|
| `DictionaryInv` | `Spec => [](headLost \/ Inv)` |
| `OneEntry` | `~headLost => OneEntryPerTable` |
| `OwnFileFound` | `FindsOwnFile`, which is stated for `~headLost` |
| `HeadersKept` | the action property `HeaderWrittenOnce`, stated for `~headLost` |
| `WholeWhenLinked` | the action property `LinkedIsWhole`, stated for `~headLost` |

All five are about behaviours up to the step at which a table loses its first descriptor, which
the code can take (see Smgr, Dictionary): nothing is proved after it. `OneEntryPerTable` is
checked by the run without this condition.

Assumptions: an entry for every statement (memory is not reused, see Smgr, Dictionary
above), 0 is no entry (it stands for `g_TblList`), the limit on open files is positive.

The argument. The list of entries loses members that were never dropped, since
`DetachTblInfo` also removes everything in front of an entry; so the invariant cannot
speak of the list alone. What survives is that the entry behind an entry never changes
once it is linked and is always older (`ListOK`). `ChainNames` says that a function exists
which gives every entry, in the list or no longer, the set of entries from it on, that
names in such a set are distinct, and that a session between its second search and the
link has a name which is not in the set of the current first entry. A new entry extends
the function at one point; a detach and a restart leave it alone. The dictionary lock is
held over these steps (`LockHolder`), and `SessionEntries` says what a session knows of
the entry it works with. Identifiers are unique among entries and among the headers on
disk as long as no kill has lost the counter (`IdsUnique`).

For the files, the first part of the module has an invariant of the ring of descriptors (`Ring`):
behind the main descriptor of a table stands its own group descriptor or the main
descriptor of some table, never another table's group descriptor. It is preserved by
every operation of `Smgr`, including those that unlink from the middle of the ring and
those that follow freed descriptors, except the one step that `LosesHead` describes, and it is
all that `FindVF` needs. `Apart` says that nobody works with the entry another session is making.
`OwnFiles` says that an entry which has not been handed out has no files and that a table being
created has only its own open; `WholeSoFar` says, for every point of CREATE and of
`LoadTblInfo`, which files and header pages are in place, or that another session is in the
middle of dropping the table.

`List` and `FindVF` walk pointers. The installed provers cannot use induction
theorems that are stated for an arbitrary predicate, so `NatInductions.tla` derives the
forms they can use, for sets and functions, from the well-foundedness of `<`:
`LeastNat`, `IntervalInduction`, and `Iteration`, by which a recursive function on an
interval exists. `ListIs` and `FindVFIs` apply them once; everything else goes through
what they state.

`ModifyProofs.tla` proves, for any finite set of workers, any number of columns, any page size, disk size,
rows, updates and number of statements:

| theorem | statement |
|---|---|
| `InvHolds` | `Spec => []Inv` |
| `ModifyTypes` | `TypeOK` |
| `ModifyPages` | `PagesAccounted` |
| `ModifyLocks` | `IdleHoldsNoLock` |

Assumptions: an update sets at least one column and gives every column it sets a value
(`set_clause_list` in `grammar.y` admits no other), and `LocksFit`: the table of a thread has room for the columns
of the table and for four locks. `MAX_LOCAL_LOCK_NUM` is 8 (`locallock.c:20`), so the theorems
are about tables of up to eight columns. The hypothesis is needed: the ninth lock
is refused, the caller goes on without it, and its release then unlocks what it never had.

The argument. `Inv` has four parts. `Types`. `Shapes`, what a worker may rely on at each
program point: the statement it runs, the group it works on, that the pages it has on its
list are the members of that group, that the row it found is still there. It is stable since
the file only grows (`Grows`, `Extends`: items are never taken off a page, groups are
only appended, a chain once begun stays), so a step of one worker keeps it for all others.
`Storage`, the use of the pages: members of groups are distinct, counted and of type data,
heads of chains likewise, and pages that the header page does not count are fresh. It needs to
know who extends the table (`Extenders`): up to `MaxPages` one worker at a time, which has
added as many pages as its counter says; above it nothing is said of the locks, since an
insert breaks off with the extension lock held, but the last page that a worker was given is then
no page of the file, so it is linked nowhere. `LocksOK`: each worker has exactly the
multiset of locks that its program point says (`Held`: the members of the group during an
insert; the page of the column once or, while `GetSpaceSpecifyPage` looks for room on an
extension page, twice; the undo page; the extension lock), in its own table and in the pthread
locks alike. `IdleHoldsNoLock` is the case in which that multiset is empty.

`LocalLockProofs.tla` has what this rests on: `Has` relates the table of a thread, the pthread
locks and a function `h` that counts the locks, and each operation of `LocalLock` changes
`h` as a counting lock would and leaves what other threads have alone. A release of a lock that
is not in the table, which the code reaches at the second unlock of a page, takes no writer
away (`h` is unchanged). Every action of `Modify` is treated three times: what it leaves of types
and shapes (`...1`), of the locks (`...Locks`) and of the pages (the last section).

`ModifyRowsProofs.tla` goes on from `Inv` and proves, for the same instances:

| theorem | statement |
|---|---|
| `ModifyWaits` | `pageCnt <= MaxPages => NoCircularWait` |
| `ModifyChains` | `VersionChain` |
| `ModifyRows` | `pageCnt <= MaxPages => RowsAligned` |
| `ModifyRoom` | `pageCnt <= MaxPages => DataPagesFit` |

All four rest on `LocksFit`. That a row put on a fresh
extension page fits, which the code does not measure, follows from the refusal of what an empty
page cannot take. `ModifyChains` says nothing of versions on an overdrawn page, like
`VersionChain` itself, and behaviours are followed up to the first access whose outcome the memory
decides (`wild`). Three theorems say nothing about a table whose disk has run full. An extension that
fails there leaves its locks held. They gather in the table of the thread until the next
lock is refused, and from then on that worker writes to pages it has not locked. The
runs reach a full disk and the three properties hold there as well, but in a few statements no
table of locks fills up. `VersionChain` needs no locks and is proved without this restriction.

The arguments.

- `ModifyWaits`. `Level` orders the locks: the data pages by column, then undo pages,
  extension pages, the extension lock. From `LocksOK` and `Wanted`, a worker that waits
  holds only locks of lower levels (`WantsMore`). By induction on the length of a path,
  the level wanted at its end is above the one wanted at its start, so no path closes. A
  path follows any number of waits, so this holds for circles of any length.
- `ModifyChains`. `Chained3` says of every version where its undo position leads and that
  its transaction has begun; of a version in an undo page also that its transaction has
  ended. `VersionChain` asks for an older transaction behind each version, and a worker builds the
  new version from a copy that it made before it locked the page. So the invariant
  also speaks of these copies (`OldOK`): their chains are intact, they belong to the
  row at hand, and the transaction that wrote them had ended at the snapshot. The last point
  needs the snapshot to have all transactions that were running (`Snap`), and that a statement
  does not meet its own versions further on in its scan (`Behind`). That the copy may be
  stale (finding `JudgedIsLatest`) does no harm to the chain: an undo record is never
  changed, so the new version leads to one of the older versions of the row, and what
  is lost is the version in between.
- `ModifyRows`. `AllAligned`: while an insert writes to a group, and only one can since it
  holds the locks of all members, the columns before the one at hand have one entry more, which
  is its own row (`Ahead`); otherwise all columns have equally many (`Even`). An
  update or a delete replaces an entry by one of the same row, which is `Chained3` again.
- `ModifyRoom`. `AllFit`: the room that `FreeSpaceCheck` has found in the columns still to be
  written, and the room of the extension page that has just been linked, are there until the
  row is written. Only a worker that has locked the page, or the page in front of an
  extension page, changes its free space or its link (`Owns`).

Only model-checked: the properties of `Session` (`TypeOK`, `AnswerIsRelational`,
`ChangeIsRelational`), its refinement of `Answers` included, since `Query`, `Plan`, `Executor` and
`Relational` are recursive over trees, which needs induction over data that the provers
cannot use, and recursive operators, in whose presence they lose their arithmetic; and all
liveness (`WorkerComesBack`, `RequestAnswered`, `ClientLeft`), which the prover does not reach.
The paths of `NoCircularWait` are a recursive function on an interval, not an operator, so that
the theorem can speak of them.

## Where code and documentation disagree

- `OneValidCopy`: README.md says a data block is in the buffer only once. A worker that
  loses the race for a tag leaves the tag on the buffer it gives up (`buffer.c:1042-1049`).
  When that buffer is swept later, `CleanPageBuffer` deletes by tag (`buffer.c:1132-1136`) the
  element that names the winner's good buffer; the next search for the page misses, and the
  page is loaded into a second buffer.
- `ReadPageReturns`: `AllocBuffer` has an answer for "victim is not found", but
  `ClockSweep` never returns without a victim.
- `NoDirtyRead`: snapshot.c says that rows of a transaction in progress are not visible;
  a slot is published before its identifier is in it.
- `ClientServed`: README.md says a thread serves one client. A worker marks itself busy
  only after it has woken up, so a second connection can replace the first in its task.
- `StopEnds`: doc/toadb_servicemgr.md says SIGTERM exits safely. Workers are cancelled
  with page locks held, and a worker waiting for such a lock cannot be joined.
- `JudgedIsLatest`: snapshot.c says that the update test gets the latest version of a
  row. It gets the one that was scanned before the page was locked, so two concurrent
  changes of a row both pass and one is lost.

## Not modelled

- The parser (`grammar.c`, `scanner.c`) is generated by bison and flex.
- Memory contexts: each thread allocates in its own, and the shared list of free pages is
  never filled (`AddPoolFreeList` frees the page first). What the models use of the pool
  is that it never hands out a block twice.
- The resource owner: pins that a statement gives back at its end. `BufferPool` lets
  workers keep and release pages in any order.
- `ReleaseLocalLock` at the end of a worker; it walks the table while the releases shift
  it and is listed as a hazard.
- The spin lock and the atomics are taken as atomic steps.
- The logger, shared memory, the vendored hash function, printing of trees for debugging,
  input loop and printing of the client, the load generator: I/O or pure functions.
- The single-client and shared-memory modes run the same code with one worker.
- An INSERT of a row that is larger than a page: `pax_ExecInsert` then extends the table for
  ever. (UPDATE refuses such a value, which `Modify` has.)
- Writes to a file that the limit on open files has closed fail without notice
  (`TableWrite` does not open it again); `Dictionary` has the closing, and pages in
  `Modify` are always written.

## Plan

1. Refinement: `BufferPool` implements an abstract page cache under the mapping that
   forgets descriptors and the hash table.
2. The end of a worker with several locks, composing `LocalLock` and `Dispatch`.

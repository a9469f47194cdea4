----------------------------- MODULE BufferPool -----------------------------
(***************************************************************************)
(* The shared page buffer of toadb: the descriptors, the free list, the    *)
(* hash table from page tags to buffers and the clock sweep, used by all   *)
(* worker threads at once (storage/buffer/buffer.c, util/bufferPool and    *)
(* util/hashtable).                                                        *)
(*                                                                         *)
(* A worker that needs a page runs ReadPage, whose body is AllocBuffer:    *)
(*                                                                         *)
(*   search --> recheck --> (found) or load --> page in use                *)
(*      |         |                                                        *)
(*      +-> getfree -> claimfree ----------> insert -> load                *)
(*             |                               |                           *)
(*             +-> sweep/visit -> claim -> clean -> init                   *)
(*                                                                         *)
(* The steps are cut where the code takes or drops a lock that another     *)
(* worker can wait for: one reader/writer lock per descriptor, the pool    *)
(* lock around the free list, the spin locks of the hash table.  What a    *)
(* worker does under the descriptor's write lock is one step together      *)
(* with the acquisition, except that every visit to the hash table is a    *)
(* step of its own.  The contents of a page are reduced to which page it   *)
(* is (the pageNum in its header).                                         *)
(***************************************************************************)
EXTENDS Integers, FiniteSets

CONSTANTS
  Threads,      \* the workers
  N,            \* bufferNum: number of buffers, ids 0 .. N-1
  Tags,         \* the pages (table, page number, fork) that workers ask for
  Entries,      \* the elements of the hash table; the code allots N of them
  Slots,        \* page pointers a worker may hold at the same time (a bound)
  UseCountMax,  \* USE_COUNT_MAX
  NoThread, NoTag, NoEntry, NoBuf

ASSUME NAssumption == N \in Nat \ {0}
ASSUME UseCountAssumption == UseCountMax \in Nat \ {0}
ASSUME FiniteAssumption ==
  IsFiniteSet(Threads) /\ IsFiniteSet(Entries) /\ IsFiniteSet(Slots)
ASSUME EntriesAssumption == Cardinality(Entries) = N
ASSUME SentinelAssumption ==
  /\ NoThread \notin Threads
  /\ NoTag \notin Tags
  /\ NoEntry \notin Entries
  /\ NoBuf \notin Int

Buffers == 0 .. N-1

\* BVF_INVALID, BVF_TAG (the tag is set, the page is being loaded), BVF_VLID.
Validity == {"INVALID", "TAG", "VALID"}

VARIABLES
  tag, isValid, refCnt, usedCnt,  \* BufferDesc
  writer, readers,                \* the descriptor's reader/writer lock
  pageOf,                         \* header.pageNum of the buffered page
  freeHead,                       \* freeList[0]; N is Free_List_End
  start,                          \* the clock hand
  hashed, hashFree,               \* elements linked in buckets / on the free list
  entryTag, entryBuf,             \* what an element holds
  pc, want, cur, ent, seen,       \* locals of AllocBuffer and ClockSweep
  slotBuf, slotTag                \* the pages a worker holds, and asked for

descVars  == <<tag, isValid, refCnt, usedCnt, pageOf>>
lockVars  == <<writer, readers>>
hashVars  == <<hashed, hashFree, entryTag, entryBuf>>
slotVars  == <<slotBuf, slotTag>>
vars == <<descVars, lockVars, freeHead, start, hashVars,
          pc, want, cur, ent, seen, slotVars>>

(***************************************************************************)
(* Where a worker can be.  "reading" and "writing" are a caller of         *)
(* ReadPage between LockPage and UnLockPage.                               *)
(***************************************************************************)
Idle     == {"idle"}
Working  == {"search", "recheck", "getfree", "claimfree", "insert", "reread",
             "sweep", "visit", "claim", "clean", "init", "load"}
Using    == {"reading", "writing"}

\* The points of AllocBuffer at which the worker holds the write lock of cur,
\* and those at which it has also pinned it.
Owning   == {"clean", "init", "insert", "load", "writing"}
Pinning  == {"init", "insert", "load"}

TypeOK ==
  /\ tag \in [Buffers -> Tags \cup {NoTag}]
  /\ isValid \in [Buffers -> Validity]
  /\ refCnt \in [Buffers -> Nat]
  /\ usedCnt \in [Buffers -> 0 .. UseCountMax]
  /\ pageOf \in [Buffers -> Tags \cup {NoTag}]
  /\ writer \in [Buffers -> Threads \cup {NoThread}]
  /\ readers \in [Buffers -> SUBSET Threads]
  /\ freeHead \in 1 .. N
  /\ start \in Buffers
  /\ hashed \in SUBSET Entries
  /\ hashFree \in SUBSET Entries
  /\ entryTag \in [Entries -> Tags \cup {NoTag}]
  /\ entryBuf \in [Entries -> Buffers]
  /\ pc \in [Threads -> Idle \cup Working \cup Using]
  /\ want \in [Threads -> Tags \cup {NoTag}]
  /\ cur \in [Threads -> Buffers]
  /\ ent \in [Threads -> Entries \cup {NoEntry}]
  /\ seen \in [Threads -> 0 .. UseCountMax]
  /\ slotBuf \in [Threads \X Slots -> Buffers \cup {NoBuf}]
  /\ slotTag \in [Threads \X Slots -> Tags \cup {NoTag}]

-----------------------------------------------------------------------------
(***************************************************************************)
(* InitBufferPool: every descriptor is invalid, the free list starts at    *)
(* buffer 1 (buffer 0 holds its head and is reached by the clock sweep     *)
(* only).                                                                  *)
(***************************************************************************)
InitBufferPool ==
  /\ tag = [b \in Buffers |-> NoTag]
  /\ isValid = [b \in Buffers |-> "INVALID"]
  /\ refCnt = [b \in Buffers |-> 0]
  /\ usedCnt = [b \in Buffers |-> 0]
  /\ pageOf = [b \in Buffers |-> NoTag]
  /\ writer = [b \in Buffers |-> NoThread]
  /\ readers = [b \in Buffers |-> {}]
  /\ freeHead = 1
  /\ start = 0

\* Every element of the hash table is free.
InitHashTable ==
  /\ hashed = {}
  /\ hashFree = Entries
  /\ entryTag = [e \in Entries |-> NoTag]
  /\ entryBuf = [e \in Entries |-> 0]

Init ==
  /\ InitBufferPool
  /\ InitHashTable
  /\ pc = [t \in Threads |-> "idle"]
  /\ want = [t \in Threads |-> NoTag]
  /\ cur = [t \in Threads |-> 0]
  /\ ent = [t \in Threads |-> NoEntry]
  /\ seen = [t \in Threads |-> 0]
  /\ slotBuf = [p \in Threads \X Slots |-> NoBuf]
  /\ slotTag = [p \in Threads \X Slots |-> NoTag]

-----------------------------------------------------------------------------
(* The descriptor lock. *)

WriteLockable(b) == writer[b] = NoThread /\ readers[b] = {}

ReadLockable(b) == writer[b] = NoThread

LockBufDesc(t, b) ==
  /\ WriteLockable(b)
  /\ writer' = [writer EXCEPT ![b] = t]
  /\ UNCHANGED readers

UnLockBufDesc(b) ==
  /\ writer' = [writer EXCEPT ![b] = NoThread]
  /\ UNCHANGED readers

\* A visit under the write lock that ends with the lock released again.
LockedVisit(b) == WriteLockable(b) /\ UNCHANGED lockVars

(* The reference count; both are called under the write lock only. *)

Pinned(b) == [refCnt EXCEPT ![b] = @ + 1]

\* Mutant: the last pin is not given back.
UnPinnedKeepsLast(b) == IF refCnt[b] > 1 THEN [refCnt EXCEPT ![b] = @ - 1] ELSE refCnt

UnPinned(b) == IF refCnt[b] > 0 THEN [refCnt EXCEPT ![b] = @ - 1] ELSE refCnt

Touched(b) == [usedCnt EXCEPT ![b] = UseCountMax]

(* The hash table: elements of the wanted tag. *)

Find(g) == {e \in hashed : entryTag[e] = g}

-----------------------------------------------------------------------------
(* Control: the worker moves on with these locals, or leaves ReadPage. *)

Goto(t, p) ==
  /\ pc' = [pc EXCEPT ![t] = p]
  /\ UNCHANGED want

Leave(t) ==
  /\ pc' = [pc EXCEPT ![t] = "idle"]
  /\ want' = [want EXCEPT ![t] = NoTag]
  /\ cur' = [cur EXCEPT ![t] = 0]
  /\ ent' = [ent EXCEPT ![t] = NoEntry]
  /\ seen' = [seen EXCEPT ![t] = 0]

\* ReadPage hands the page in buffer b to its caller, who asked for want[t].
Return(t, b) ==
  /\ \E s \in Slots :
       /\ slotBuf[<<t, s>>] = NoBuf
       /\ slotBuf' = [slotBuf EXCEPT ![<<t, s>>] = b]
       /\ slotTag' = [slotTag EXCEPT ![<<t, s>>] = want[t]]
  /\ Leave(t)

-----------------------------------------------------------------------------
(* ReadPage and the search of the hash table. *)

ReadPage(t, g) ==
  /\ pc[t] = "idle"
  /\ \E s \in Slots : slotBuf[<<t, s>>] = NoBuf
  /\ pc' = [pc EXCEPT ![t] = "search"]
  /\ want' = [want EXCEPT ![t] = g]
  /\ UNCHANGED <<descVars, lockVars, freeHead, start, hashVars, cur, ent, seen, slotVars>>

SearchHit(t) ==
  /\ pc[t] = "search"
  /\ \E e \in Find(want[t]) : cur' = [cur EXCEPT ![t] = entryBuf[e]]
  /\ Goto(t, "recheck")
  /\ UNCHANGED <<descVars, lockVars, freeHead, start, hashVars, ent, seen, slotVars>>

SearchMiss(t) ==
  /\ pc[t] = "search"
  /\ Find(want[t]) = {}
  /\ Goto(t, "getfree")
  /\ UNCHANGED <<descVars, lockVars, freeHead, start, hashVars, cur, ent, seen, slotVars>>

(***************************************************************************)
(* FIND_RECHECK: lock, pin, and look whether the buffer still carries the  *)
(* page that led here.                                                     *)
(***************************************************************************)
\* Mutant: the tag is not compared again.
StillMineByFlag(t) == isValid[cur[t]] # "INVALID"

StillMine(t) ==
  /\ tag[cur[t]] = want[t]
  /\ isValid[cur[t]] # "INVALID"

RecheckFound(t) ==
  /\ pc[t] = "recheck"
  /\ LockedVisit(cur[t])
  /\ StillMine(t)
  /\ isValid[cur[t]] = "VALID"
  /\ refCnt' = Pinned(cur[t])
  /\ usedCnt' = Touched(cur[t])
  /\ Return(t, cur[t])
  /\ UNCHANGED <<tag, isValid, pageOf, freeHead, start, hashVars>>

\* Another worker set the tag and its load failed: this worker loads.
RecheckLoading(t) ==
  /\ pc[t] = "recheck"
  /\ LockBufDesc(t, cur[t])
  /\ StillMine(t)
  /\ isValid[cur[t]] = "TAG"
  /\ refCnt' = Pinned(cur[t])
  /\ usedCnt' = Touched(cur[t])
  /\ Goto(t, "load")
  /\ UNCHANGED <<tag, isValid, pageOf, freeHead, start, hashVars, cur, ent, seen, slotVars>>

\* The buffer was swept meanwhile: the pin is taken back, usedCnt is not.
RecheckStale(t) ==
  /\ pc[t] = "recheck"
  /\ LockedVisit(cur[t])
  /\ ~StillMine(t)
  /\ usedCnt' = Touched(cur[t])
  /\ Goto(t, "getfree")
  /\ UNCHANGED <<tag, isValid, refCnt, pageOf, freeHead, start, hashVars,
                 cur, ent, seen, slotVars>>

-----------------------------------------------------------------------------
(***************************************************************************)
(* The free list.  Nothing is ever put back on it, so its links stay those *)
(* of InitBufferPool and the list is freeHead, freeHead+1, ..., N-1.       *)
(***************************************************************************)
OnFreeList == freeHead .. N-1

\* Mutant: the head stays on the element that is handed out.
UnlinkNot(b) == b

Unlink(b) == b + 1

\* Under the pool lock: elements are unlinked until one is not pinned.
GetFreeBufferId(t) ==
  /\ pc[t] = "getfree"
  /\ \E b \in OnFreeList :
       /\ refCnt[b] = 0
       /\ \A c \in OnFreeList : refCnt[c] = 0 => b <= c
       /\ freeHead' = Unlink(b)
       /\ cur' = [cur EXCEPT ![t] = b]
  /\ Goto(t, "claimfree")
  /\ UNCHANGED <<descVars, lockVars, start, hashVars, ent, seen, slotVars>>

\* The list is empty: on to ClockSweep, which starts at the shared hand.
FreeListEmpty(t) ==
  /\ pc[t] = "getfree"
  /\ OnFreeList = {}
  /\ cur' = [cur EXCEPT ![t] = start]
  /\ Goto(t, "sweep")
  /\ UNCHANGED <<descVars, lockVars, freeHead, start, hashVars, ent, seen, slotVars>>

\* INIT_TAG: the buffer becomes the one for the wanted page.
SetTag(t, b) ==
  /\ isValid' = [isValid EXCEPT ![b] = "TAG"]
  /\ tag' = [tag EXCEPT ![b] = want[t]]

ClaimFree(t) ==
  /\ pc[t] = "claimfree"
  /\ LockBufDesc(t, cur[t])
  /\ isValid[cur[t]] = "INVALID"
  /\ refCnt' = Pinned(cur[t])
  /\ usedCnt' = Touched(cur[t])
  /\ SetTag(t, cur[t])
  /\ Goto(t, "insert")
  /\ UNCHANGED <<pageOf, freeHead, start, hashVars, cur, ent, seen, slotVars>>

\* A sweep took the buffer between GetFreeBufferId and the lock: REFIND.
ClaimFreeTaken(t) ==
  /\ pc[t] = "claimfree"
  /\ LockedVisit(cur[t])
  /\ isValid[cur[t]] # "INVALID"
  /\ usedCnt' = Touched(cur[t])
  /\ Goto(t, "search")
  /\ UNCHANGED <<tag, isValid, refCnt, pageOf, freeHead, start, hashVars,
                 cur, ent, seen, slotVars>>

-----------------------------------------------------------------------------
(***************************************************************************)
(* ClockSweep.  usedCnt is decremented under the read lock only, so the    *)
(* load (SweepVisit) and the store (SweepDecrement) are separate steps and *)
(* two sweeps may lose a decrement.  A buffer whose write lock is held is  *)
(* skipped.                                                                *)
(***************************************************************************)
NextId(b) == (b + 1) % N

\* Mutant: no floor at zero.
DecrementedBelow(u) == u - 1

Decremented(u) == IF u > 0 THEN u - 1 ELSE 0

SweepSkip(t) ==
  /\ pc[t] = "sweep"
  /\ ~ReadLockable(cur[t])
  /\ cur' = [cur EXCEPT ![t] = NextId(cur[t])]
  /\ UNCHANGED <<descVars, lockVars, freeHead, start, hashVars,
                 pc, want, ent, seen, slotVars>>

SweepInvalid(t) ==
  /\ pc[t] = "sweep"
  /\ ReadLockable(cur[t])
  /\ isValid[cur[t]] = "INVALID"
  /\ Goto(t, "claim")
  /\ UNCHANGED <<descVars, lockVars, freeHead, start, hashVars, cur, ent, seen, slotVars>>

SweepVisit(t) ==
  /\ pc[t] = "sweep"
  /\ ReadLockable(cur[t])
  /\ isValid[cur[t]] # "INVALID"
  /\ readers' = [readers EXCEPT ![cur[t]] = @ \cup {t}]
  /\ seen' = [seen EXCEPT ![t] = usedCnt[cur[t]]]
  /\ Goto(t, "visit")
  /\ UNCHANGED <<descVars, writer, freeHead, start, hashVars, cur, ent, slotVars>>

SweepDecrement(t) ==
  LET u == Decremented(seen[t])
      victim == refCnt[cur[t]] = 0 /\ u = 0
  IN
  /\ pc[t] = "visit"
  /\ usedCnt' = [usedCnt EXCEPT ![cur[t]] = u]
  /\ readers' = [readers EXCEPT ![cur[t]] = @ \ {t}]
  /\ seen' = [seen EXCEPT ![t] = 0]
  /\ cur' = [cur EXCEPT ![t] = IF victim THEN @ ELSE NextId(@)]
  /\ Goto(t, IF victim THEN "claim" ELSE "sweep")
  /\ UNCHANGED <<tag, isValid, refCnt, pageOf, writer, freeHead, start, hashVars,
                 ent, slotVars>>

\* The second look, under the write lock.
Evictable(b) ==
  isValid[b] = "INVALID" \/ (refCnt[b] = 0 /\ usedCnt[b] = 0)

\* Mutant: the lock is not waited for and the second look is left out.
SweepClaimBlindly(t) ==
  /\ pc[t] = "claim"
  /\ writer' = [writer EXCEPT ![cur[t]] = t]
  /\ start' = NextId(cur[t])
  /\ Goto(t, "clean")
  /\ UNCHANGED <<descVars, readers, freeHead, hashVars, cur, ent, seen, slotVars>>

SweepClaim(t) ==
  /\ pc[t] = "claim"
  /\ LockBufDesc(t, cur[t])
  /\ Evictable(cur[t])
  /\ start' = NextId(cur[t])
  /\ Goto(t, "clean")
  /\ UNCHANGED <<descVars, freeHead, hashVars, cur, ent, seen, slotVars>>

SweepRetry(t) ==
  /\ pc[t] = "claim"
  /\ LockedVisit(cur[t])
  /\ ~Evictable(cur[t])
  /\ Goto(t, "sweep")
  /\ UNCHANGED <<descVars, freeHead, start, hashVars, cur, ent, seen, slotVars>>

(***************************************************************************)
(* CleanPageBuffer: pin the victim, make it invalid and delete its tag     *)
(* from the hash table.  The deletion goes by the tag, whichever buffer    *)
(* the element names.  The element returns to the free list only after the *)
(* partition lock is released (InitTag).  Pages are written through and    *)
(* SetBuffferDirty has no caller, so there is never anything to flush.     *)
(***************************************************************************)
\* Mutant: the victim stays in the hash table.
DeletedNone(b) == {}

Deleted(b) == {e \in hashed : entryTag[e] = tag[b]}

CleanPageBuffer(t) ==
  /\ pc[t] = "clean"
  /\ refCnt' = Pinned(cur[t])
  /\ usedCnt' = Touched(cur[t])
  /\ isValid' = [isValid EXCEPT ![cur[t]] = "INVALID"]
  /\ hashed' = hashed \ Deleted(cur[t])
  /\ \/ \E e \in Deleted(cur[t]) : ent' = [ent EXCEPT ![t] = e]
     \/ Deleted(cur[t]) = {} /\ ent' = [ent EXCEPT ![t] = NoEntry]
  /\ Goto(t, "init")
  /\ UNCHANGED <<tag, pageOf, lockVars, freeHead, start, hashFree, entryTag, entryBuf,
                 cur, seen, slotVars>>

\* Mutant: the element is not put back.
PutFreeListLost(e) == hashFree \ {e}

PutFreeList(e) == hashFree \cup ({e} \ {NoEntry})

InitTag(t) ==
  /\ pc[t] = "init"
  /\ hashFree' = PutFreeList(ent[t])
  /\ ent' = [ent EXCEPT ![t] = NoEntry]
  /\ SetTag(t, cur[t])
  /\ Goto(t, "insert")
  /\ UNCHANGED <<refCnt, usedCnt, pageOf, lockVars, freeHead, start,
                 hashed, entryTag, entryBuf, cur, seen, slotVars>>

-----------------------------------------------------------------------------
(* HashGetFreeEntry: insert the tag, unless another worker has done so. *)

InsertEntry(t) ==
  /\ pc[t] = "insert"
  /\ Find(want[t]) = {}
  /\ IF hashFree = {}
       THEN \* HASH_NULL: give the buffer up and REFIND
            /\ refCnt' = UnPinned(cur[t])
            /\ UnLockBufDesc(cur[t])
            /\ Goto(t, "search")
            /\ UNCHANGED hashVars
       ELSE /\ \E e \in hashFree :
                 /\ hashed' = hashed \cup {e}
                 /\ hashFree' = hashFree \ {e}
                 /\ entryTag' = [entryTag EXCEPT ![e] = want[t]]
                 /\ entryBuf' = [entryBuf EXCEPT ![e] = cur[t]]
            /\ Goto(t, "load")
            /\ UNCHANGED <<refCnt, lockVars>>
  /\ UNCHANGED <<tag, isValid, usedCnt, pageOf, freeHead, start, cur, ent, seen, slotVars>>

\* HASH_FIND: this worker gives its buffer up (its tag and BVF_TAG stay) and
\* keeps a pointer to the other worker's element.
InsertFound(t) ==
  /\ pc[t] = "insert"
  /\ \E e \in Find(want[t]) : ent' = [ent EXCEPT ![t] = e]
  /\ refCnt' = UnPinned(cur[t])
  /\ UnLockBufDesc(cur[t])
  /\ Goto(t, "reread")
  /\ UNCHANGED <<tag, isValid, usedCnt, pageOf, freeHead, start, hashVars,
                 cur, seen, slotVars>>

\* The element is read after the partition lock was released: by now it may be
\* free or serve another tag.
RereadEntry(t) ==
  /\ pc[t] = "reread"
  /\ cur' = [cur EXCEPT ![t] = entryBuf[ent[t]]]
  /\ ent' = [ent EXCEPT ![t] = NoEntry]
  /\ Goto(t, "recheck")
  /\ UNCHANGED <<descVars, lockVars, freeHead, start, hashVars, seen, slotVars>>

-----------------------------------------------------------------------------
(* ReadPage after AllocBuffer returned BUFFER_EMPTY: the page is read from *)
(* the file under the write lock.  TableRead fails past the end of file.   *)

LoadOk(t) ==
  /\ pc[t] = "load"
  /\ isValid' = [isValid EXCEPT ![cur[t]] = "VALID"]
  /\ pageOf' = [pageOf EXCEPT ![cur[t]] = want[t]]
  /\ UnLockBufDesc(cur[t])
  /\ Return(t, cur[t])
  /\ UNCHANGED <<tag, refCnt, usedCnt, freeHead, start, hashVars>>

LoadFailed(t) ==
  /\ pc[t] = "load"
  /\ refCnt' = UnPinned(cur[t])
  /\ UnLockBufDesc(cur[t])
  /\ Leave(t)
  /\ UNCHANGED <<tag, isValid, usedCnt, pageOf, freeHead, start, hashVars, slotVars>>

-----------------------------------------------------------------------------
(***************************************************************************)
(* The callers of ReadPage: a page that is held may be locked for reading  *)
(* or writing, unlocked, and released.  They take no other step of the     *)
(* pool while they hold a page lock.                                       *)
(***************************************************************************)
LockPageRead(t, s) ==
  /\ pc[t] = "idle"
  /\ slotBuf[<<t, s>>] # NoBuf
  /\ ReadLockable(slotBuf[<<t, s>>])
  /\ readers' = [readers EXCEPT ![slotBuf[<<t, s>>]] = @ \cup {t}]
  /\ cur' = [cur EXCEPT ![t] = slotBuf[<<t, s>>]]
  /\ Goto(t, "reading")
  /\ UNCHANGED <<descVars, writer, freeHead, start, hashVars, ent, seen, slotVars>>

LockPageWrite(t, s) ==
  /\ pc[t] = "idle"
  /\ slotBuf[<<t, s>>] # NoBuf
  /\ LockBufDesc(t, slotBuf[<<t, s>>])
  /\ cur' = [cur EXCEPT ![t] = slotBuf[<<t, s>>]]
  /\ Goto(t, "writing")
  /\ UNCHANGED <<descVars, freeHead, start, hashVars, ent, seen, slotVars>>

UnLockPage(t) ==
  /\ \/ /\ pc[t] = "reading"
        /\ readers' = [readers EXCEPT ![cur[t]] = @ \ {t}]
        /\ UNCHANGED writer
     \/ /\ pc[t] = "writing"
        /\ UnLockBufDesc(cur[t])
  /\ Leave(t)
  /\ UNCHANGED <<descVars, freeHead, start, hashVars, slotVars>>

ReleasePage(t, s) ==
  /\ pc[t] = "idle"
  /\ slotBuf[<<t, s>>] # NoBuf
  /\ LockedVisit(slotBuf[<<t, s>>])
  /\ refCnt' = UnPinned(slotBuf[<<t, s>>])
  /\ slotBuf' = [slotBuf EXCEPT ![<<t, s>>] = NoBuf]
  /\ slotTag' = [slotTag EXCEPT ![<<t, s>>] = NoTag]
  /\ UNCHANGED <<tag, isValid, usedCnt, pageOf, freeHead, start, hashVars,
                 pc, want, cur, ent, seen>>

-----------------------------------------------------------------------------
\* A worker inside ReadPage.
Alloc(t) ==
  \/ SearchHit(t)      \/ SearchMiss(t)
  \/ RecheckFound(t)   \/ RecheckLoading(t)  \/ RecheckStale(t)
  \/ GetFreeBufferId(t) \/ FreeListEmpty(t)
  \/ ClaimFree(t)      \/ ClaimFreeTaken(t)
  \/ SweepSkip(t)      \/ SweepInvalid(t)    \/ SweepVisit(t)
  \/ SweepDecrement(t) \/ SweepClaim(t)      \/ SweepRetry(t)
  \/ CleanPageBuffer(t) \/ InitTag(t)
  \/ InsertEntry(t)    \/ InsertFound(t)     \/ RereadEntry(t)
  \/ LoadOk(t)         \/ LoadFailed(t)

\* A worker that holds pages.
Client(t) ==
  \/ \E g \in Tags : ReadPage(t, g)
  \/ \E s \in Slots : LockPageRead(t, s) \/ LockPageWrite(t, s) \/ ReleasePage(t, s)
  \/ UnLockPage(t)

Next == \E t \in Threads : Alloc(t) \/ Client(t)

Spec == Init /\ [][Next]_vars

-----------------------------------------------------------------------------
(***************************************************************************)
(* Properties.                                                             *)
(***************************************************************************)

\* The pins a descriptor must count: one per page pointer that a worker holds
\* on the buffer, and one of a worker that is between pinning it and returning.
SlotPins(b) == {p \in Threads \X Slots : slotBuf[p] = b}
WorkPins(b) == {t \in Threads : pc[t] \in Pinning /\ cur[t] = b}

\* refCnt is exactly the number of pins in the hands of workers: none is lost on
\* the retry and failure paths of AllocBuffer and ReadPage (the buffer could then
\* never be replaced again), none is dropped twice (it could be replaced in use).
PinsAccounted == \A b \in Buffers :
  refCnt[b] = Cardinality(SlotPins(b)) + Cardinality(WorkPins(b))

\* A worker that got a page from ReadPage and has not released it keeps the page
\* it asked for: the buffer stays valid, keeps its tag and holds that very page.
\* The code reports a breach as "find bad page" (ReadPage).
PageInUse ==
  \A p \in Threads \X Slots :
    slotBuf[p] # NoBuf =>
      /\ isValid[slotBuf[p]] = "VALID"
      /\ tag[slotBuf[p]] = slotTag[p]
      /\ pageOf[slotBuf[p]] = slotTag[p]

\* An element of the hash table names a buffer that carries the element's tag and
\* is not being reused, and no tag has two elements: a search cannot lead to a
\* buffer that serves another page.
HashNamesItsBuffer ==
  /\ \A e \in hashed : /\ tag[entryBuf[e]] = entryTag[e]
                       /\ isValid[entryBuf[e]] # "INVALID"
  /\ \A e, f \in hashed : entryTag[e] = entryTag[f] => e = f

\* "must be enough" (AllocBuffer, before HashGetFreeEntry): a worker about to
\* insert its tag finds a free element, although elements of other workers are in
\* flight between the buckets and the free list and abandoned buffers keep tags.
EntriesEnough ==
  \A t \in Threads : pc[t] = "insert" /\ Find(want[t]) = {} => hashFree # {}

\* GetFreeBufferId unlinks pinned elements until it meets one that is not, and runs
\* off the end of the array if the last one is pinned: none on the list ever is.
FreeListUnpinned == \A b \in OnFreeList : refCnt[b] = 0 /\ isValid[b] = "INVALID"

\* The page under a worker's page lock is replaced, or its buffer given another
\* tag, by no step of another worker.
LockedPageStable ==
  [][\A t \in Threads :
       pc[t] \in Using /\ pc'[t] \in Using =>
         /\ tag'[cur[t]] = tag[cur[t]]
         /\ isValid'[cur[t]] = isValid[cur[t]]
         /\ pageOf'[cur[t]] = pageOf[cur[t]]]_vars

-----------------------------------------------------------------------------
(***************************************************************************)
(* The invariants above are not inductive.  What AllocBuffer relies on     *)
(* between its steps is:                                                   *)
(***************************************************************************)

\* Who holds a descriptor lock, and where in the code it is.
LockDiscipline ==
  /\ \A b \in Buffers : writer[b] # NoThread =>
       /\ readers[b] = {}
       /\ pc[writer[b]] \in Owning
       /\ cur[writer[b]] = b
  /\ \A t \in Threads :
       /\ pc[t] \in Owning => writer[cur[t]] = t
       /\ pc[t] \in {"visit", "reading"} => t \in readers[cur[t]]

\* What a worker knows of its buffer at each point of AllocBuffer.
Knows(t) ==
  /\ pc[t] = "reread" => ent[t] \in Entries
  /\ pc[t] = "clean" => isValid[cur[t]] = "INVALID" \/ refCnt[cur[t]] = 0
  /\ pc[t] = "init" => isValid[cur[t]] = "INVALID"
  /\ pc[t] \in {"insert", "load"} => isValid[cur[t]] = "TAG" /\ tag[cur[t]] = want[t]
  /\ pc[t] \in Using => \E s \in Slots : slotBuf[<<t, s>>] = cur[t]

Control == \A t \in Threads : Knows(t)

\* A valid buffer holds the page of its tag.
ContentsOK == \A b \in Buffers : isValid[b] = "VALID" => pageOf[b] = tag[b]

\* The sweep runs only once the free list is used up, and a buffer that was popped
\* is off the list.
FreeListOrder ==
  \A t \in Threads :
    /\ pc[t] \in {"sweep", "visit", "claim", "clean", "init"} => freeHead = N
    /\ pc[t] = "claimfree" => cur[t] < freeHead

\* Every element is linked in a bucket, on the free list, or in the hands of one
\* worker between the two.
EntryOwnership ==
  /\ hashed \cap hashFree = {}
  /\ \A t \in Threads : pc[t] = "init" => ent[t] \notin hashed \cup hashFree
  /\ \A t, u \in Threads :
       pc[t] = "init" /\ pc[u] = "init" /\ ent[t] = ent[u] /\ ent[t] # NoEntry => t = u
  /\ \A e \in Entries :
       e \in hashed \/ e \in hashFree \/ \E t \in Threads : pc[t] = "init" /\ ent[t] = e

PinInv  == TypeOK /\ LockDiscipline /\ Control /\ ContentsOK /\ PinsAccounted /\ PageInUse
FreeInv == FreeListUnpinned /\ FreeListOrder
HashInv == HashNamesItsBuffer /\ EntryOwnership

-----------------------------------------------------------------------------
(***************************************************************************)
(* What the repository says, and the code does not do.                     *)
(***************************************************************************)

\* README.md: "the same data block is in the buffer only once"; todo.md: inserting
\* into the hash table looks the tag up first, so that blocks with the same tag are
\* in the cache only once.  Two valid buffers never hold the same page.
OneValidCopy ==
  \A b, c \in Buffers :
    isValid[b] = "VALID" /\ isValid[c] = "VALID" /\ tag[b] = tag[c] => b = c

\* AllocBuffer returns NULL when no victim is found ("buffer pool is not enogh"):
\* every ReadPage comes back, with a page or without.
ReadPageReturns ==
  \A t \in Threads : pc[t] = "search" ~> pc[t] = "idle"

\* Every worker inside ReadPage or with a page locked goes on; a worker at rest
\* need not ask for a page, but gives back what it holds.
FairSpec ==
  /\ Spec
  /\ \A t \in Threads :
       /\ SF_vars(Alloc(t))
       /\ WF_vars(UnLockPage(t))
       /\ \A s \in Slots : SF_vars(ReleasePage(t, s))
=============================================================================

-------------------------- MODULE BufferPoolProofs --------------------------
(***************************************************************************)
(* Proofs about BufferPool, for every number of workers, buffers, pages    *)
(* and page pointers.                                                      *)
(***************************************************************************)
EXTENDS BufferPool, FiniteSetTheorems, TLAPS

\* The clock hand stays inside the pool.
LEMMA NextIdType == \A b \in Buffers : NextId(b) \in Buffers
  BY NAssumption DEF NextId, Buffers

-----------------------------------------------------------------------------
(* What the small operations do to the types. *)

PCs == Idle \cup Working \cup Using

\* Pinning, unpinning and touching a buffer keep the counters in range.
LEMMA CountersType ==
  ASSUME TypeOK, NEW b \in Buffers
  PROVE  /\ Pinned(b) \in [Buffers -> Nat]
         /\ UnPinned(b) \in [Buffers -> Nat]
         /\ Touched(b) \in [Buffers -> 0 .. UseCountMax]
<1>1. Pinned(b) \in [Buffers -> Nat]
  BY DEF TypeOK, Pinned
<1>2. UnPinned(b) \in [Buffers -> Nat]
  BY DEF TypeOK, UnPinned
<1>3. Touched(b) \in [Buffers -> 0 .. UseCountMax]
  BY UseCountAssumption DEF TypeOK, Touched
<1>4. QED
  BY <1>1, <1>2, <1>3

\* Moving on keeps the types of the control variables.
LEMMA GotoType ==
  ASSUME TypeOK, NEW t \in Threads, NEW p \in PCs, Goto(t, p)
  PROVE  /\ pc' \in [Threads -> PCs]
         /\ want' \in [Threads -> Tags \cup {NoTag}]
  BY DEF TypeOK, Goto, PCs

\* Leaving ReadPage keeps the types of all locals.
LEMMA LeaveType ==
  ASSUME TypeOK, NEW t \in Threads, Leave(t)
  PROVE  /\ pc' \in [Threads -> PCs]
         /\ want' \in [Threads -> Tags \cup {NoTag}]
         /\ cur' \in [Threads -> Buffers]
         /\ ent' \in [Threads -> Entries \cup {NoEntry}]
         /\ seen' \in [Threads -> 0 .. UseCountMax]
  BY NAssumption, UseCountAssumption DEF TypeOK, Leave, PCs, Idle, Buffers

\* Returning a page stores a buffer and a tag in a page pointer.
LEMMA ReturnType ==
  ASSUME TypeOK, NEW t \in Threads, NEW b \in Buffers, Return(t, b)
  PROVE  /\ slotBuf' \in [Threads \X Slots -> Buffers \cup {NoBuf}]
         /\ slotTag' \in [Threads \X Slots -> Tags \cup {NoTag}]
         /\ Leave(t)
<1>1. PICK s \in Slots :
         /\ slotBuf' = [slotBuf EXCEPT ![<<t, s>>] = b]
         /\ slotTag' = [slotTag EXCEPT ![<<t, s>>] = want[t]]
  BY DEF Return
<1>2. <<t, s>> \in Threads \X Slots
  OBVIOUS
<1>3. slotBuf' \in [Threads \X Slots -> Buffers \cup {NoBuf}]
  BY <1>1, <1>2 DEF TypeOK
<1>4. slotTag' \in [Threads \X Slots -> Tags \cup {NoTag}]
  BY <1>1, <1>2 DEF TypeOK
<1>5. QED
  BY <1>3, <1>4 DEF Return

-----------------------------------------------------------------------------
\* Every step of the pool keeps the type invariant.
LEMMA TypeStep == TypeOK /\ Control /\ [Next]_vars => TypeOK'
<1> SUFFICES ASSUME TypeOK, Control, [Next]_vars PROVE TypeOK'
  OBVIOUS
<1> USE DEF PCs
<1>1. CASE UNCHANGED vars
  BY <1>1 DEF TypeOK, vars, descVars, lockVars, hashVars, slotVars
<1>2. ASSUME NEW t \in Threads, Alloc(t) PROVE TypeOK'
  <2> cur[t] \in Buffers
    BY DEF TypeOK
  <2> USE CountersType, GotoType, LeaveType
      DEF TypeOK, descVars, lockVars, hashVars, slotVars
  <2>1. CASE SearchHit(t)
    BY <2>1 DEF SearchHit, Find, Idle, Working, Using
  <2>2. CASE SearchMiss(t)
    BY <2>2 DEF SearchMiss, Idle, Working, Using
  <2>3. CASE RecheckFound(t)
    <3>1. Return(t, cur[t])
      BY <2>3 DEF RecheckFound
    <3>2. QED
      BY <2>3, <3>1, ReturnType DEF RecheckFound, LockedVisit
  <2>4. CASE RecheckLoading(t)
    BY <2>4 DEF RecheckLoading, LockBufDesc, Pinned, Touched, Idle, Working, Using
  <2>5. CASE RecheckStale(t)
    BY <2>5 DEF RecheckStale, LockedVisit, Touched, Idle, Working, Using
  <2>6. CASE GetFreeBufferId(t)
    <3>1. PICK b \in OnFreeList : /\ freeHead' = Unlink(b)
                                  /\ cur' = [cur EXCEPT ![t] = b]
      BY <2>6 DEF GetFreeBufferId
    <3>2. b \in Buffers /\ freeHead' \in 1 .. N
      BY <3>1, NAssumption DEF OnFreeList, Unlink, Buffers
    <3>3. QED
      BY <2>6, <3>1, <3>2 DEF GetFreeBufferId, Idle, Working, Using
  <2>7. CASE FreeListEmpty(t)
    BY <2>7 DEF FreeListEmpty, Idle, Working, Using
  <2>8. CASE ClaimFree(t)
    BY <2>8 DEF ClaimFree, LockBufDesc, Pinned, Touched, SetTag, Validity,
                Idle, Working, Using
  <2>9. CASE ClaimFreeTaken(t)
    BY <2>9 DEF ClaimFreeTaken, LockedVisit, Touched, Idle, Working, Using
  <2>10. CASE SweepSkip(t)
    BY <2>10, NextIdType DEF SweepSkip
  <2>11. CASE SweepInvalid(t)
    BY <2>11 DEF SweepInvalid, Idle, Working, Using
  <2>12. CASE SweepVisit(t)
    BY <2>12 DEF SweepVisit, Idle, Working, Using
  <2>13. CASE SweepDecrement(t)
    <3>1. Decremented(seen[t]) \in 0 .. UseCountMax
      <4>1. seen[t] \in 0 .. UseCountMax
        OBVIOUS
      <4>2. QED
        BY ONLY <4>1, UseCountAssumption DEF Decremented
    <3>2. NextId(cur[t]) \in Buffers
      BY NextIdType
    <3>3. pc' \in [Threads -> PCs]
      BY <2>13 DEF SweepDecrement, Goto, Idle, Working, Using
    <3>4. cur' \in [Threads -> Buffers]
      BY <2>13, <3>2 DEF SweepDecrement
    <3>5. usedCnt' \in [Buffers -> 0 .. UseCountMax]
      BY <2>13, <3>1 DEF SweepDecrement
    <3>6. readers' \in [Buffers -> SUBSET Threads]
      BY <2>13 DEF SweepDecrement
    <3>7. seen' \in [Threads -> 0 .. UseCountMax]
      BY <2>13, UseCountAssumption DEF SweepDecrement
    <3>8. QED
      BY <2>13, <3>3, <3>4, <3>5, <3>6, <3>7 DEF SweepDecrement, Goto
  <2>14. CASE SweepClaim(t)
    BY <2>14, NextIdType DEF SweepClaim, LockBufDesc, Idle, Working, Using
  <2>15. CASE SweepRetry(t)
    BY <2>15 DEF SweepRetry, LockedVisit, Idle, Working, Using
  <2>16. CASE CleanPageBuffer(t)
    <3>1. ent' \in [Threads -> Entries \cup {NoEntry}]
      BY <2>16 DEF CleanPageBuffer, Deleted
    <3>2. isValid' \in [Buffers -> Validity]
      BY <2>16 DEF CleanPageBuffer, Validity
    <3>3. hashed' \in SUBSET Entries
      BY <2>16 DEF CleanPageBuffer
    <3>4. QED
      BY <2>16, <3>1, <3>2, <3>3 DEF CleanPageBuffer, Idle, Working, Using
  <2>17. CASE InitTag(t)
    BY <2>17 DEF InitTag, PutFreeList, SetTag, Validity, Idle, Working, Using
  <2>18. CASE InsertEntry(t)
    <3>1. CASE hashFree = {}
      BY <2>18, <3>1 DEF InsertEntry, UnLockBufDesc, Idle, Working, Using
    <3>2. CASE hashFree # {}
      <4>1. PICK e \in hashFree :
               /\ hashed' = hashed \cup {e}
               /\ hashFree' = hashFree \ {e}
               /\ entryTag' = [entryTag EXCEPT ![e] = want[t]]
               /\ entryBuf' = [entryBuf EXCEPT ![e] = cur[t]]
        BY <2>18, <3>2 DEF InsertEntry
      <4>2. e \in Entries
        OBVIOUS
      <4>3. QED
        BY <2>18, <3>2, <4>1, <4>2 DEF InsertEntry, Idle, Working, Using
    <3>3. QED
      BY <3>1, <3>2
  <2>19. CASE InsertFound(t)
    BY <2>19 DEF InsertFound, Find, UnPinned, UnLockBufDesc, Idle, Working, Using
  <2>20. CASE RereadEntry(t)
    <3>1. ent[t] \in Entries
      BY <2>20 DEF RereadEntry, Control, Knows
    <3>2. QED
      BY <2>20, <3>1 DEF RereadEntry, Idle, Working, Using
  <2>21. CASE LoadOk(t)
    <3>1. Return(t, cur[t])
      BY <2>21 DEF LoadOk
    <3>2. QED
      BY <2>21, <3>1, ReturnType DEF LoadOk, UnLockBufDesc, Validity
  <2>22. CASE LoadFailed(t)
    BY <2>22 DEF LoadFailed, UnPinned, UnLockBufDesc, Leave, Idle
  <2>23. QED
    BY <1>2, <2>1, <2>2, <2>3, <2>4, <2>5, <2>6, <2>7, <2>8, <2>9, <2>10, <2>11,
       <2>12, <2>13, <2>14, <2>15, <2>16, <2>17, <2>18, <2>19, <2>20, <2>21, <2>22
       DEF Alloc
<1>3. ASSUME NEW t \in Threads, Client(t) PROVE TypeOK'
  <2> USE CountersType, GotoType, LeaveType
      DEF TypeOK, descVars, lockVars, hashVars, slotVars
  <2>1. ASSUME NEW g \in Tags, ReadPage(t, g) PROVE TypeOK'
    BY <2>1 DEF ReadPage, Idle, Working, Using
  <2>2. ASSUME NEW s \in Slots, LockPageRead(t, s) PROVE TypeOK'
    BY <2>2 DEF LockPageRead, Idle, Working, Using
  <2>3. ASSUME NEW s \in Slots, LockPageWrite(t, s) PROVE TypeOK'
    BY <2>3 DEF LockPageWrite, LockBufDesc, Idle, Working, Using
  <2>4. ASSUME NEW s \in Slots, ReleasePage(t, s) PROVE TypeOK'
    BY <2>4 DEF ReleasePage, LockedVisit, UnPinned
  <2>5. CASE UnLockPage(t)
    <3> cur[t] \in Buffers
      OBVIOUS
    <3>1. readers' = readers \/ readers' = [readers EXCEPT ![cur[t]] = @ \ {t}]
      BY <2>5 DEF UnLockPage, UnLockBufDesc
    <3>2. writer' = writer \/ writer' = [writer EXCEPT ![cur[t]] = NoThread]
      BY <2>5 DEF UnLockPage, UnLockBufDesc
    <3>3. Leave(t) /\ UNCHANGED <<descVars, freeHead, start, hashVars, slotVars>>
      BY <2>5 DEF UnLockPage
    <3>4. readers' \in [Buffers -> SUBSET Threads]
      <4>1. readers[cur[t]] \ {t} \in SUBSET Threads
        OBVIOUS
      <4>2. readers \in [Buffers -> SUBSET Threads]
        OBVIOUS
      <4>3. QED
        BY ONLY <3>1, <4>1, <4>2
    <3>5. writer' \in [Buffers -> Threads \cup {NoThread}]
      BY <3>2
    <3>6. QED
      BY <3>3, <3>4, <3>5
  <2>6. QED
    BY <1>3, <2>1, <2>2, <2>3, <2>4, <2>5 DEF Client
<1>4. QED
  BY <1>1, <1>2, <1>3 DEF Next

-----------------------------------------------------------------------------
\* A page pointer that is set names a buffer.
LEMMA SlotType ==
  ASSUME TypeOK, NEW t \in Threads, NEW s \in Slots, slotBuf[<<t, s>>] # NoBuf
  PROVE  slotBuf[<<t, s>>] \in Buffers
  BY DEF TypeOK

\* The descriptor locks: a write lock excludes all other holders and is held at the
\* points of AllocBuffer and of the callers where the code says so.
LEMMA LockStep ==
  TypeOK /\ LockDiscipline /\ [Next]_vars => LockDiscipline'
<1> SUFFICES ASSUME TypeOK, LockDiscipline, [Next]_vars PROVE LockDiscipline'
  OBVIOUS
<1> pc \in [Threads -> PCs] /\ cur \in [Threads -> Buffers]
  BY DEF TypeOK, PCs
<1> writer \in [Buffers -> Threads \cup {NoThread}] /\ readers \in [Buffers -> SUBSET Threads]
  BY DEF TypeOK
<1>1. CASE UNCHANGED vars
  BY <1>1 DEF LockDiscipline, vars, descVars, lockVars, hashVars, slotVars
<1>2. ASSUME NEW t \in Threads, Alloc(t) PROVE LockDiscipline'
  <2> cur[t] \in Buffers
    OBVIOUS
  <2>1. CASE SearchHit(t)
    BY <2>1, SentinelAssumption DEF SearchHit, Goto, lockVars, Owning,
       LockDiscipline
  <2>2. CASE SearchMiss(t)
    BY <2>2, SentinelAssumption DEF SearchMiss, Goto, lockVars, Owning,
       LockDiscipline
  <2>3. CASE RecheckFound(t)
    BY <2>3, SentinelAssumption DEF RecheckFound, LockedVisit, WriteLockable,
       Return, Leave, lockVars, Owning, LockDiscipline
  <2>4. CASE RecheckLoading(t)
    BY <2>4, SentinelAssumption DEF RecheckLoading, LockBufDesc, WriteLockable,
       Goto, lockVars, Owning, LockDiscipline
  <2>5. CASE RecheckStale(t)
    BY <2>5, SentinelAssumption DEF RecheckStale, LockedVisit, WriteLockable,
       Goto, lockVars, Owning, LockDiscipline
  <2>6. CASE GetFreeBufferId(t)
    BY <2>6, SentinelAssumption DEF GetFreeBufferId, Goto, lockVars, Owning,
       LockDiscipline
  <2>7. CASE FreeListEmpty(t)
    BY <2>7, SentinelAssumption DEF FreeListEmpty, Goto, lockVars, Owning,
       LockDiscipline
  <2>8. CASE ClaimFree(t)
    BY <2>8, SentinelAssumption DEF ClaimFree, LockBufDesc, WriteLockable, Goto,
       lockVars, Owning, LockDiscipline
  <2>9. CASE ClaimFreeTaken(t)
    BY <2>9, SentinelAssumption DEF ClaimFreeTaken, LockedVisit, WriteLockable,
       Goto, lockVars, Owning, LockDiscipline
  <2>10. CASE SweepSkip(t)
    BY <2>10, SentinelAssumption DEF SweepSkip, lockVars, Owning, LockDiscipline
  <2>11. CASE SweepInvalid(t)
    BY <2>11, SentinelAssumption DEF SweepInvalid, Goto, lockVars, Owning,
       LockDiscipline
  <2>12. CASE SweepVisit(t)
    BY <2>12, SentinelAssumption DEF SweepVisit, ReadLockable, Goto, lockVars,
       Owning, LockDiscipline
  <2>13. CASE SweepDecrement(t)
    BY <2>13, SentinelAssumption DEF SweepDecrement, Goto, lockVars, Owning,
       LockDiscipline
  <2>14. CASE SweepClaim(t)
    BY <2>14, SentinelAssumption DEF SweepClaim, LockBufDesc, WriteLockable,
       Goto, lockVars, Owning, LockDiscipline
  <2>15. CASE SweepRetry(t)
    BY <2>15, SentinelAssumption DEF SweepRetry, LockedVisit, WriteLockable,
       Goto, lockVars, Owning, LockDiscipline
  <2>16. CASE CleanPageBuffer(t)
    BY <2>16, SentinelAssumption DEF CleanPageBuffer, Goto, lockVars, Owning,
       LockDiscipline
  <2>17. CASE InitTag(t)
    BY <2>17, SentinelAssumption DEF InitTag, Goto, lockVars, Owning,
       LockDiscipline
  <2>18. CASE InsertEntry(t)
    BY <2>18, SentinelAssumption DEF InsertEntry, UnLockBufDesc, Goto, lockVars,
       Owning, LockDiscipline
  <2>19. CASE InsertFound(t)
    BY <2>19, SentinelAssumption DEF InsertFound, UnLockBufDesc, Goto, lockVars,
       Owning, LockDiscipline
  <2>20. CASE RereadEntry(t)
    BY <2>20, SentinelAssumption DEF RereadEntry, Goto, lockVars, Owning,
       LockDiscipline
  <2>21. CASE LoadOk(t)
    BY <2>21, SentinelAssumption DEF LoadOk, UnLockBufDesc, Return, Leave,
       lockVars, Owning, LockDiscipline
  <2>22. CASE LoadFailed(t)
    BY <2>22, SentinelAssumption DEF LoadFailed, UnLockBufDesc, Leave, lockVars,
       Owning, LockDiscipline
  <2>23. QED
    BY <1>2, <2>1, <2>2, <2>3, <2>4, <2>5, <2>6, <2>7, <2>8, <2>9, <2>10, <2>11,
       <2>12, <2>13, <2>14, <2>15, <2>16, <2>17, <2>18, <2>19, <2>20, <2>21, <2>22
       DEF Alloc
<1>3. ASSUME NEW t \in Threads, Client(t) PROVE LockDiscipline'
  <2>1. ASSUME NEW g \in Tags, ReadPage(t, g) PROVE LockDiscipline'
    BY <2>1, SentinelAssumption DEF ReadPage, lockVars, Owning, LockDiscipline
  <2>2. ASSUME NEW s \in Slots, LockPageRead(t, s) PROVE LockDiscipline'
    <3>1. slotBuf[<<t, s>>] \in Buffers
      BY <2>2, SlotType DEF LockPageRead
    <3>2. QED
      BY <2>2, <3>1, SentinelAssumption DEF LockPageRead, ReadLockable, Goto, lockVars,
         Owning, LockDiscipline
  <2>3. ASSUME NEW s \in Slots, LockPageWrite(t, s) PROVE LockDiscipline'
    <3>1. slotBuf[<<t, s>>] \in Buffers
      BY <2>3, SlotType DEF LockPageWrite
    <3>2. QED
      BY <2>3, <3>1, SentinelAssumption DEF LockPageWrite, LockBufDesc, WriteLockable,
         Goto, lockVars, Owning, LockDiscipline
  <2>4. ASSUME NEW s \in Slots, ReleasePage(t, s) PROVE LockDiscipline'
    BY <2>4, SentinelAssumption DEF ReleasePage, LockedVisit, WriteLockable,
       lockVars, Owning, LockDiscipline
  <2>5. CASE UnLockPage(t)
    BY <2>5, SentinelAssumption DEF UnLockPage, UnLockBufDesc, Leave, lockVars,
       Owning, LockDiscipline
  <2>6. QED
    BY <1>3, <2>1, <2>2, <2>3, <2>4, <2>5 DEF Client
<1>4. QED
  BY <1>1, <1>2, <1>3 DEF Next

-----------------------------------------------------------------------------
\* What a worker's step leaves alone: the locals and page pointers of every other
\* worker, and the descriptor of every buffer whose write lock another one holds.
Undisturbed(u) ==
  /\ pc'[u] = pc[u] /\ want'[u] = want[u] /\ cur'[u] = cur[u] /\ ent'[u] = ent[u]
  /\ \A s \in Slots : slotBuf'[<<u, s>>] = slotBuf[<<u, s>>] /\ slotTag'[<<u, s>>] = slotTag[<<u, s>>]
  /\ pc[u] \in Owning =>
       /\ tag'[cur[u]] = tag[cur[u]]
       /\ isValid'[cur[u]] = isValid[cur[u]]
       /\ refCnt'[cur[u]] = refCnt[cur[u]]

\* No step of a worker disturbs another one.
LEMMA Frame ==
  ASSUME TypeOK, LockDiscipline, NEW t \in Threads, NEW u \in Threads, u # t,
         Alloc(t) \/ Client(t)
  PROVE  Undisturbed(u)
<1> pc \in [Threads -> PCs] /\ cur \in [Threads -> Buffers]
  BY DEF TypeOK, PCs
<1> /\ isValid \in [Buffers -> Validity]
    /\ tag \in [Buffers -> Tags \cup {NoTag}]
    /\ refCnt \in [Buffers -> Nat]
    /\ pageOf \in [Buffers -> Tags \cup {NoTag}]
  BY DEF TypeOK
<1> /\ ent \in [Threads -> Entries \cup {NoEntry}]
    /\ want \in [Threads -> Tags \cup {NoTag}]
  BY DEF TypeOK
<1> /\ slotBuf \in [Threads \X Slots -> Buffers \cup {NoBuf}]
    /\ slotTag \in [Threads \X Slots -> Tags \cup {NoTag}]
  BY DEF TypeOK
<1>0. /\ pc[u] \in Owning => writer[cur[u]] = u
      /\ pc[t] \in Owning => writer[cur[t]] = t
  BY DEF LockDiscipline
<1>1. CASE Alloc(t)
  <2>1. CASE SearchHit(t)
    BY <2>1, <1>0, SentinelAssumption DEF SearchHit, Goto, Undisturbed, descVars,
       lockVars, slotVars, Owning
  <2>2. CASE SearchMiss(t)
    BY <2>2, <1>0, SentinelAssumption DEF SearchMiss, Goto, Undisturbed,
       descVars, lockVars, slotVars, Owning
  <2>3. CASE RecheckFound(t)
    BY <2>3, <1>0, SentinelAssumption DEF RecheckFound, LockedVisit,
       WriteLockable, Pinned, Return, Leave, Undisturbed, descVars, lockVars,
       slotVars, Owning
  <2>4. CASE RecheckLoading(t)
    BY <2>4, <1>0, SentinelAssumption DEF RecheckLoading, LockBufDesc,
       WriteLockable, Pinned, Goto, Undisturbed, descVars, lockVars, slotVars,
       Owning
  <2>5. CASE RecheckStale(t)
    BY <2>5, <1>0, SentinelAssumption DEF RecheckStale, LockedVisit,
       WriteLockable, Goto, Undisturbed, descVars, lockVars, slotVars, Owning
  <2>6. CASE GetFreeBufferId(t)
    BY <2>6, <1>0, SentinelAssumption DEF GetFreeBufferId, Goto, Undisturbed,
       descVars, lockVars, slotVars, Owning
  <2>7. CASE FreeListEmpty(t)
    BY <2>7, <1>0, SentinelAssumption DEF FreeListEmpty, Goto, Undisturbed,
       descVars, lockVars, slotVars, Owning
  <2>8. CASE ClaimFree(t)
    BY <2>8, <1>0, SentinelAssumption DEF ClaimFree, LockBufDesc, WriteLockable,
       Pinned, SetTag, Goto, Undisturbed, descVars, lockVars, slotVars, Owning
  <2>9. CASE ClaimFreeTaken(t)
    BY <2>9, <1>0, SentinelAssumption DEF ClaimFreeTaken, LockedVisit,
       WriteLockable, Goto, Undisturbed, descVars, lockVars, slotVars, Owning
  <2>10. CASE SweepSkip(t)
    BY <2>10, <1>0, SentinelAssumption DEF SweepSkip, Undisturbed, descVars,
       lockVars, slotVars, Owning
  <2>11. CASE SweepInvalid(t)
    BY <2>11, <1>0, SentinelAssumption DEF SweepInvalid, Goto, Undisturbed,
       descVars, lockVars, slotVars, Owning
  <2>12. CASE SweepVisit(t)
    BY <2>12, <1>0, SentinelAssumption DEF SweepVisit, Goto, Undisturbed,
       descVars, lockVars, slotVars, Owning
  <2>13. CASE SweepDecrement(t)
    BY <2>13, <1>0, SentinelAssumption DEF SweepDecrement, Goto, Undisturbed,
       descVars, lockVars, slotVars, Owning
  <2>14. CASE SweepClaim(t)
    BY <2>14, <1>0, SentinelAssumption DEF SweepClaim, LockBufDesc,
       WriteLockable, Goto, Undisturbed, descVars, lockVars, slotVars, Owning
  <2>15. CASE SweepRetry(t)
    BY <2>15, <1>0, SentinelAssumption DEF SweepRetry, LockedVisit,
       WriteLockable, Goto, Undisturbed, descVars, lockVars, slotVars, Owning
  <2>16. CASE CleanPageBuffer(t)
    BY <2>16, <1>0, SentinelAssumption DEF CleanPageBuffer, Pinned, Goto,
       Undisturbed, descVars, lockVars, slotVars, Owning
  <2>17. CASE InitTag(t)
    BY <2>17, <1>0, SentinelAssumption DEF InitTag, SetTag, Goto, Undisturbed,
       descVars, lockVars, slotVars, Owning
  <2>18. CASE InsertEntry(t)
    BY <2>18, <1>0, SentinelAssumption DEF InsertEntry, UnPinned, UnLockBufDesc,
       Goto, Undisturbed, descVars, lockVars, slotVars, Owning
  <2>19. CASE InsertFound(t)
    BY <2>19, <1>0, SentinelAssumption DEF InsertFound, UnPinned, UnLockBufDesc,
       Goto, Undisturbed, descVars, lockVars, slotVars, Owning
  <2>20. CASE RereadEntry(t)
    BY <2>20, <1>0, SentinelAssumption DEF RereadEntry, Goto, Undisturbed,
       descVars, lockVars, slotVars, Owning
  <2>21. CASE LoadOk(t)
    BY <2>21, <1>0, SentinelAssumption DEF LoadOk, UnLockBufDesc, Return, Leave,
       Undisturbed, descVars, lockVars, slotVars, Owning
  <2>22. CASE LoadFailed(t)
    BY <2>22, <1>0, SentinelAssumption DEF LoadFailed, UnPinned, UnLockBufDesc,
       Leave, Undisturbed, descVars, lockVars, slotVars, Owning
  <2>23. QED
    BY <1>1, <2>1, <2>2, <2>3, <2>4, <2>5, <2>6, <2>7, <2>8, <2>9, <2>10, <2>11,
       <2>12, <2>13, <2>14, <2>15, <2>16, <2>17, <2>18, <2>19, <2>20, <2>21, <2>22
       DEF Alloc
<1>2. CASE Client(t)
  <2>1. ASSUME NEW g \in Tags, ReadPage(t, g) PROVE Undisturbed(u)
    BY <2>1, <1>0, SentinelAssumption DEF ReadPage, Undisturbed, descVars,
       lockVars, slotVars, Owning
  <2>2. ASSUME NEW s \in Slots, LockPageRead(t, s) PROVE Undisturbed(u)
    BY <2>2, <1>0, SentinelAssumption DEF LockPageRead, Goto, Undisturbed,
       descVars, lockVars, slotVars, Owning
  <2>3. ASSUME NEW s \in Slots, LockPageWrite(t, s) PROVE Undisturbed(u)
    BY <2>3, <1>0, SentinelAssumption DEF LockPageWrite, LockBufDesc,
       WriteLockable, Goto, Undisturbed, descVars, lockVars, slotVars, Owning
  <2>4. ASSUME NEW s \in Slots, ReleasePage(t, s) PROVE Undisturbed(u)
    BY <2>4, <1>0, SentinelAssumption DEF ReleasePage, LockedVisit,
       WriteLockable, UnPinned, Undisturbed, descVars, lockVars, slotVars, Owning
  <2>5. CASE UnLockPage(t)
    BY <2>5, <1>0, SentinelAssumption DEF UnLockPage, UnLockBufDesc, Leave,
       Undisturbed, descVars, lockVars, slotVars, Owning
  <2>6. QED
    BY <1>2, <2>1, <2>2, <2>3, <2>4, <2>5 DEF Client
<1>3. QED
  BY <1>1, <1>2

\* A worker's own step leaves it with the knowledge of its next point in the code.
LEMMA OwnStep ==
  ASSUME TypeOK, LockDiscipline, Control, NEW t \in Threads, Alloc(t) \/ Client(t)
  PROVE  Knows(t)'
<1> pc \in [Threads -> PCs] /\ cur \in [Threads -> Buffers]
  BY DEF TypeOK, PCs
<1> /\ isValid \in [Buffers -> Validity]
    /\ tag \in [Buffers -> Tags \cup {NoTag}]
    /\ refCnt \in [Buffers -> Nat]
    /\ pageOf \in [Buffers -> Tags \cup {NoTag}]
  BY DEF TypeOK
<1> /\ ent \in [Threads -> Entries \cup {NoEntry}]
    /\ want \in [Threads -> Tags \cup {NoTag}]
  BY DEF TypeOK
<1> /\ slotBuf \in [Threads \X Slots -> Buffers \cup {NoBuf}]
    /\ slotTag \in [Threads \X Slots -> Tags \cup {NoTag}]
  BY DEF TypeOK
<1> hashed \in SUBSET Entries
  BY DEF TypeOK
<1>0. Knows(t)
  BY DEF Control
<1>1. CASE Alloc(t)
  <2>1. CASE SearchHit(t)
    BY <2>1 DEF SearchHit, Goto, Knows, Using
  <2>2. CASE SearchMiss(t)
    BY <2>2 DEF SearchMiss, Goto, Knows, Using
  <2>3. CASE RecheckFound(t)
    BY <2>3 DEF RecheckFound, Return, Leave, Knows, Using
  <2>4. CASE RecheckLoading(t)
    BY <2>4, <1>0 DEF RecheckLoading, LockBufDesc, WriteLockable, StillMine,
       Pinned, Touched, Goto, Knows, descVars, lockVars, slotVars, Using
  <2>5. CASE RecheckStale(t)
    BY <2>5 DEF RecheckStale, Goto, Knows, Using
  <2>6. CASE GetFreeBufferId(t)
    BY <2>6 DEF GetFreeBufferId, Goto, Knows, Using
  <2>7. CASE FreeListEmpty(t)
    BY <2>7 DEF FreeListEmpty, Goto, Knows, Using
  <2>8. CASE ClaimFree(t)
    BY <2>8, <1>0 DEF ClaimFree, LockBufDesc, WriteLockable, Pinned, Touched,
       SetTag, Goto, Knows, descVars, lockVars, slotVars, Using
  <2>9. CASE ClaimFreeTaken(t)
    BY <2>9 DEF ClaimFreeTaken, Goto, Knows, Using
  <2>10. CASE SweepSkip(t)
    BY <2>10 DEF SweepSkip, Knows, Using
  <2>11. CASE SweepInvalid(t)
    BY <2>11 DEF SweepInvalid, Goto, Knows, Using
  <2>12. CASE SweepVisit(t)
    BY <2>12 DEF SweepVisit, Goto, Knows, Using
  <2>13. CASE SweepDecrement(t)
    BY <2>13 DEF SweepDecrement, Goto, Knows, Using
  <2>14. CASE SweepClaim(t)
    BY <2>14, <1>0 DEF SweepClaim, LockBufDesc, WriteLockable, Evictable, Goto,
       Knows, descVars, lockVars, slotVars, Using
  <2>15. CASE SweepRetry(t)
    BY <2>15 DEF SweepRetry, Goto, Knows, Using
  <2>16. CASE CleanPageBuffer(t)
    BY <2>16, <1>0 DEF CleanPageBuffer, Pinned, Touched, Deleted, Goto, Knows,
       descVars, lockVars, slotVars, Using
  <2>17. CASE InitTag(t)
    BY <2>17, <1>0 DEF InitTag, SetTag, PutFreeList, Goto, Knows, descVars,
       lockVars, slotVars, Using
  <2>18. CASE InsertEntry(t)
    BY <2>18, <1>0 DEF InsertEntry, UnPinned, UnLockBufDesc, Goto, Knows,
       descVars, lockVars, slotVars, Using
  <2>19. CASE InsertFound(t)
    BY <2>19, <1>0 DEF InsertFound, Find, UnPinned, UnLockBufDesc, Goto, Knows,
       descVars, lockVars, slotVars, Using
  <2>20. CASE RereadEntry(t)
    BY <2>20, <1>0 DEF RereadEntry, Goto, Knows, descVars, lockVars, slotVars,
       Using
  <2>21. CASE LoadOk(t)
    BY <2>21 DEF LoadOk, Return, Leave, Knows, Using
  <2>22. CASE LoadFailed(t)
    BY <2>22 DEF LoadFailed, Leave, Knows, Using
  <2>23. QED
    BY <1>1, <2>1, <2>2, <2>3, <2>4, <2>5, <2>6, <2>7, <2>8, <2>9, <2>10, <2>11,
       <2>12, <2>13, <2>14, <2>15, <2>16, <2>17, <2>18, <2>19, <2>20, <2>21, <2>22
       DEF Alloc
<1>2. CASE Client(t)
  <2>1. ASSUME NEW g \in Tags, ReadPage(t, g) PROVE Knows(t)'
    BY <2>1 DEF ReadPage, Knows, Using
  <2>2. ASSUME NEW s \in Slots, LockPageRead(t, s) PROVE Knows(t)'
    <3>1. slotBuf'[<<t, s>>] = cur'[t]
      BY <2>2 DEF LockPageRead, slotVars
    <3>2. pc'[t] \in Using
      BY <2>2 DEF LockPageRead, Goto, Using
    <3>3. QED
      BY <3>1, <3>2 DEF Knows, Using
  <2>3. ASSUME NEW s \in Slots, LockPageWrite(t, s) PROVE Knows(t)'
    <3>1. slotBuf'[<<t, s>>] = cur'[t]
      BY <2>3 DEF LockPageWrite, slotVars
    <3>2. pc'[t] \in Using
      BY <2>3 DEF LockPageWrite, Goto, Using
    <3>3. QED
      BY <3>1, <3>2 DEF Knows, Using
  <2>4. ASSUME NEW s \in Slots, ReleasePage(t, s) PROVE Knows(t)'
    BY <2>4 DEF ReleasePage, Knows, Using
  <2>5. CASE UnLockPage(t)
    BY <2>5 DEF UnLockPage, Leave, Knows, Using
  <2>6. QED
    BY <1>2, <2>1, <2>2, <2>3, <2>4, <2>5 DEF Client
<1>3. QED
  BY <1>1, <1>2

\* Control is preserved: by the worker's own steps and by those of the others.
LEMMA ControlStep ==
  ASSUME TypeOK, LockDiscipline, Control, NEW t \in Threads, Alloc(t) \/ Client(t)
  PROVE  Control'
<1> SUFFICES ASSUME NEW u \in Threads PROVE Knows(u)'
  BY DEF Control
<1>1. CASE u = t
  BY <1>1, OwnStep
<1>2. CASE u # t
  <2>1. Undisturbed(u)
    BY <1>2, Frame
  <2>2. Knows(u)
    BY DEF Control
  <2>3. QED
    BY <2>1, <2>2 DEF Knows, Undisturbed, Owning, Using
<1>3. QED
  BY <1>1, <1>2

-----------------------------------------------------------------------------
\* A buffer becomes valid only by loading the page of its tag.
LEMMA ContentsStep ==
  ASSUME TypeOK, Control, ContentsOK, NEW t \in Threads, Alloc(t) \/ Client(t)
  PROVE  ContentsOK'
<1> pc \in [Threads -> PCs] /\ cur \in [Threads -> Buffers]
  BY DEF TypeOK, PCs
<1> /\ isValid \in [Buffers -> Validity]
    /\ tag \in [Buffers -> Tags \cup {NoTag}]
    /\ refCnt \in [Buffers -> Nat]
    /\ pageOf \in [Buffers -> Tags \cup {NoTag}]
  BY DEF TypeOK
<1>0. Knows(t)
  BY DEF Control
<1>1. CASE Alloc(t)
  <2>1. CASE SearchHit(t)
    BY <2>1 DEF SearchHit, ContentsOK, descVars
  <2>2. CASE SearchMiss(t)
    BY <2>2 DEF SearchMiss, ContentsOK, descVars
  <2>3. CASE RecheckFound(t)
    BY <2>3 DEF RecheckFound, ContentsOK, descVars
  <2>4. CASE RecheckLoading(t)
    BY <2>4 DEF RecheckLoading, ContentsOK, descVars
  <2>5. CASE RecheckStale(t)
    BY <2>5 DEF RecheckStale, ContentsOK, descVars
  <2>6. CASE GetFreeBufferId(t)
    BY <2>6 DEF GetFreeBufferId, ContentsOK, descVars
  <2>7. CASE FreeListEmpty(t)
    BY <2>7 DEF FreeListEmpty, ContentsOK, descVars
  <2>8. CASE ClaimFree(t)
    BY <2>8 DEF ClaimFree, SetTag, ContentsOK, descVars
  <2>9. CASE ClaimFreeTaken(t)
    BY <2>9 DEF ClaimFreeTaken, ContentsOK, descVars
  <2>10. CASE SweepSkip(t)
    BY <2>10 DEF SweepSkip, ContentsOK, descVars
  <2>11. CASE SweepInvalid(t)
    BY <2>11 DEF SweepInvalid, ContentsOK, descVars
  <2>12. CASE SweepVisit(t)
    BY <2>12 DEF SweepVisit, ContentsOK, descVars
  <2>13. CASE SweepDecrement(t)
    BY <2>13 DEF SweepDecrement, ContentsOK, descVars
  <2>14. CASE SweepClaim(t)
    BY <2>14 DEF SweepClaim, ContentsOK, descVars
  <2>15. CASE SweepRetry(t)
    BY <2>15 DEF SweepRetry, ContentsOK, descVars
  <2>16. CASE CleanPageBuffer(t)
    BY <2>16 DEF CleanPageBuffer, ContentsOK, descVars
  <2>17. CASE InitTag(t)
    BY <2>17 DEF InitTag, SetTag, ContentsOK, descVars
  <2>18. CASE InsertEntry(t)
    BY <2>18 DEF InsertEntry, ContentsOK, descVars
  <2>19. CASE InsertFound(t)
    BY <2>19 DEF InsertFound, ContentsOK, descVars
  <2>20. CASE RereadEntry(t)
    BY <2>20 DEF RereadEntry, ContentsOK, descVars
  <2>21. CASE LoadOk(t)
    BY <2>21, <1>0 DEF LoadOk, Knows, ContentsOK
  <2>22. CASE LoadFailed(t)
    BY <2>22 DEF LoadFailed, ContentsOK, descVars
  <2>23. QED
    BY <1>1, <2>1, <2>2, <2>3, <2>4, <2>5, <2>6, <2>7, <2>8, <2>9, <2>10, <2>11,
       <2>12, <2>13, <2>14, <2>15, <2>16, <2>17, <2>18, <2>19, <2>20, <2>21, <2>22
       DEF Alloc
<1>2. CASE Client(t)
  <2>1. ASSUME NEW g \in Tags, ReadPage(t, g) PROVE ContentsOK'
    BY <2>1 DEF ReadPage, ContentsOK, descVars
  <2>2. ASSUME NEW s \in Slots, LockPageRead(t, s) PROVE ContentsOK'
    BY <2>2 DEF LockPageRead, ContentsOK, descVars
  <2>3. ASSUME NEW s \in Slots, LockPageWrite(t, s) PROVE ContentsOK'
    BY <2>3 DEF LockPageWrite, ContentsOK, descVars
  <2>4. ASSUME NEW s \in Slots, ReleasePage(t, s) PROVE ContentsOK'
    BY <2>4 DEF ReleasePage, ContentsOK, descVars
  <2>5. CASE UnLockPage(t)
    BY <2>5 DEF UnLockPage, ContentsOK, descVars
  <2>6. QED
    BY <1>2, <2>1, <2>2, <2>3, <2>4, <2>5 DEF Client
<1>3. QED
  BY <1>1, <1>2

-----------------------------------------------------------------------------
(* Counting pins. *)

\* The sets that are counted are finite.
LEMMA PinsFinite ==
  ASSUME NEW b
  PROVE  IsFiniteSet(SlotPins(b)) /\ IsFiniteSet(WorkPins(b))
<1>1. IsFiniteSet(Threads \X Slots)
  BY FiniteAssumption, FS_Product
<1>2. SlotPins(b) \subseteq Threads \X Slots /\ WorkPins(b) \subseteq Threads
  BY DEF SlotPins, WorkPins
<1>3. QED
  BY <1>1, <1>2, FiniteAssumption, FS_Subset

\* A buffer that counts no pin is in nobody's hands.
LEMMA UnpinnedUnused ==
  ASSUME TypeOK, PinsAccounted, NEW b \in Buffers, refCnt[b] = 0
  PROVE  /\ \A p \in Threads \X Slots : slotBuf[p] # b
         /\ \A t \in Threads : ~(pc[t] \in Pinning /\ cur[t] = b)
<1>1. /\ Cardinality(SlotPins(b)) \in Nat /\ Cardinality(WorkPins(b)) \in Nat
      /\ Cardinality(SlotPins(b)) + Cardinality(WorkPins(b)) = 0
  BY PinsFinite, FS_CardinalityType DEF PinsAccounted
<1>2. Cardinality(SlotPins(b)) = 0 /\ Cardinality(WorkPins(b)) = 0
  BY <1>1
<1>3. SlotPins(b) = {} /\ WorkPins(b) = {}
  BY <1>2, PinsFinite, FS_EmptySet
<1>4. QED
  BY <1>3 DEF SlotPins, WorkPins


\* A step that moves no pin.
LEMMA PinsKept ==
  ASSUME PinsAccounted, UNCHANGED <<refCnt, slotBuf>>,
         \A u \in Threads, b \in Buffers :
           pc'[u] \in Pinning /\ cur'[u] = b <=> pc[u] \in Pinning /\ cur[u] = b
  PROVE  PinsAccounted'
<1> SUFFICES ASSUME NEW b \in Buffers
             PROVE  refCnt'[b] = Cardinality(SlotPins(b)') + Cardinality(WorkPins(b)')
  BY DEF PinsAccounted
<1>1. SlotPins(b)' = SlotPins(b)
  BY DEF SlotPins
<1>2. WorkPins(b)' = WorkPins(b)
  BY DEF WorkPins
<1>3. QED
  BY <1>1, <1>2 DEF PinsAccounted

\* A worker pins the buffer it works on.
LEMMA PinTaken ==
  ASSUME TypeOK, PinsAccounted, NEW t \in Threads,
         pc[t] \notin Pinning, pc'[t] \in Pinning, cur'[t] = cur[t],
         \A u \in Threads \ {t} : pc'[u] = pc[u] /\ cur'[u] = cur[u],
         slotBuf' = slotBuf, refCnt' = Pinned(cur[t])
  PROVE  PinsAccounted'
<1> SUFFICES ASSUME NEW b \in Buffers
             PROVE  refCnt'[b] = Cardinality(SlotPins(b)') + Cardinality(WorkPins(b)')
  BY DEF PinsAccounted
<1>1. SlotPins(b)' = SlotPins(b)
  BY DEF SlotPins
<1>2. cur[t] \in Buffers /\ refCnt \in [Buffers -> Nat]
  BY DEF TypeOK
<1>3. /\ refCnt[b] = Cardinality(SlotPins(b)) + Cardinality(WorkPins(b))
      /\ Cardinality(SlotPins(b)) \in Nat /\ Cardinality(WorkPins(b)) \in Nat
  BY PinsFinite, FS_CardinalityType DEF PinsAccounted
<1>4. CASE b = cur[t]
  <2>1. WorkPins(b)' = WorkPins(b) \cup {t} /\ t \notin WorkPins(b)
    BY <1>4 DEF WorkPins
  <2>2. Cardinality(WorkPins(b)') = Cardinality(WorkPins(b)) + 1
    BY <2>1, PinsFinite, FS_AddElement
  <2>3. refCnt'[b] = refCnt[b] + 1
    BY <1>2, <1>4 DEF Pinned
  <2>4. QED
    BY <1>1, <1>3, <2>2, <2>3
<1>5. CASE b # cur[t]
  <2>1. WorkPins(b)' = WorkPins(b)
    BY <1>5 DEF WorkPins
  <2>2. refCnt'[b] = refCnt[b]
    BY <1>2, <1>5 DEF Pinned
  <2>3. QED
    BY <1>1, <1>3, <2>1, <2>2
<1>6. QED
  BY <1>4, <1>5

\* A worker gives up the buffer it works on.
LEMMA PinDropped ==
  ASSUME TypeOK, PinsAccounted, NEW t \in Threads,
         pc[t] \in Pinning, pc'[t] \notin Pinning,
         \A u \in Threads \ {t} : pc'[u] = pc[u] /\ cur'[u] = cur[u],
         slotBuf' = slotBuf, refCnt' = UnPinned(cur[t])
  PROVE  PinsAccounted'
<1> SUFFICES ASSUME NEW b \in Buffers
             PROVE  refCnt'[b] = Cardinality(SlotPins(b)') + Cardinality(WorkPins(b)')
  BY DEF PinsAccounted
<1>1. SlotPins(b)' = SlotPins(b)
  BY DEF SlotPins
<1>2. cur[t] \in Buffers /\ refCnt \in [Buffers -> Nat]
  BY DEF TypeOK
<1>3. /\ refCnt[b] = Cardinality(SlotPins(b)) + Cardinality(WorkPins(b))
      /\ Cardinality(SlotPins(b)) \in Nat /\ Cardinality(WorkPins(b)) \in Nat
  BY PinsFinite, FS_CardinalityType DEF PinsAccounted
<1>4. refCnt[cur[t]] > 0
  <2>1. refCnt[cur[t]] # 0
    BY <1>2, UnpinnedUnused
  <2>2. QED
    BY <1>2, <2>1
<1>5. CASE b = cur[t]
  <2>1. WorkPins(b)' = WorkPins(b) \ {t} /\ t \in WorkPins(b)
    BY <1>5 DEF WorkPins
  <2>2. Cardinality(WorkPins(b)') = Cardinality(WorkPins(b)) - 1
    BY <2>1, PinsFinite, FS_RemoveElement
  <2>3. refCnt'[b] = refCnt[b] - 1
    BY <1>2, <1>4, <1>5 DEF UnPinned
  <2>4. QED
    BY <1>1, <1>3, <2>2, <2>3
<1>6. CASE b # cur[t]
  <2>1. WorkPins(b)' = WorkPins(b)
    BY <1>6 DEF WorkPins
  <2>2. refCnt'[b] = refCnt[b]
    BY <1>2, <1>6 DEF UnPinned
  <2>3. QED
    BY <1>1, <1>3, <2>1, <2>2
<1>7. QED
  BY <1>5, <1>6

\* ReadPage stores a page in a free page pointer: one more of them names the buffer.
LEMMA SlotFilled ==
  ASSUME TypeOK, NEW t \in Threads, NEW c \in Buffers, Return(t, c), NEW b \in Buffers
  PROVE  Cardinality(SlotPins(b)') =
           IF b = c THEN Cardinality(SlotPins(b)) + 1 ELSE Cardinality(SlotPins(b))
<1>1. PICK s \in Slots : slotBuf[<<t, s>>] = NoBuf /\ slotBuf' = [slotBuf EXCEPT ![<<t, s>>] = c]
  BY DEF Return
<1>2. slotBuf \in [Threads \X Slots -> Buffers \cup {NoBuf}] /\ <<t, s>> \in Threads \X Slots
  BY DEF TypeOK
<1>3. NoBuf \notin Buffers
  BY SentinelAssumption, NAssumption DEF Buffers
<1>4. CASE b = c
  <2>1. SlotPins(b)' = SlotPins(b) \cup {<<t, s>>} /\ <<t, s>> \notin SlotPins(b)
    BY <1>1, <1>2, <1>3, <1>4 DEF SlotPins
  <2>2. QED
    BY <2>1, <1>4, PinsFinite, FS_AddElement
<1>5. CASE b # c
  <2>1. SlotPins(b)' = SlotPins(b)
    BY <1>1, <1>2, <1>3, <1>5 DEF SlotPins
  <2>2. QED
    BY <2>1, <1>5
<1>6. QED
  BY <1>4, <1>5


\* Every step keeps the count of pins.
LEMMA PinsStep ==
  ASSUME TypeOK, LockDiscipline, PinsAccounted, NEW t \in Threads, Alloc(t) \/ Client(t)
  PROVE  PinsAccounted'
<1> pc \in [Threads -> PCs] /\ cur \in [Threads -> Buffers]
  BY DEF TypeOK, PCs
<1> /\ slotBuf \in [Threads \X Slots -> Buffers \cup {NoBuf}]
    /\ slotTag \in [Threads \X Slots -> Tags \cup {NoTag}]
  BY DEF TypeOK
<1> refCnt \in [Buffers -> Nat]
  BY DEF TypeOK
<1>0. \A u \in Threads \ {t} : pc'[u] = pc[u] /\ cur'[u] = cur[u]
  BY Frame DEF Undisturbed
<1>P. \A b \in Buffers :
        /\ refCnt[b] = Cardinality(SlotPins(b)) + Cardinality(WorkPins(b))
        /\ Cardinality(SlotPins(b)) \in Nat /\ Cardinality(WorkPins(b)) \in Nat
  BY PinsFinite, FS_CardinalityType DEF PinsAccounted
<1>S. NoBuf \notin Buffers
  BY SentinelAssumption, NAssumption DEF Buffers
<1>1. CASE Alloc(t)
  <2>1. CASE SearchHit(t)
    BY <2>1, <1>0, PinsKept DEF SearchHit, Goto, descVars, slotVars, Pinning
  <2>2. CASE SearchMiss(t)
    BY <2>2, <1>0, PinsKept DEF SearchMiss, Goto, descVars, slotVars, Pinning
  <2>3. CASE RecheckFound(t)
    <3>1. pc[t] \notin Pinning /\ pc'[t] \notin Pinning
      BY <2>3 DEF RecheckFound, Return, Leave, Pinning
    <3>2. ASSUME NEW b \in Buffers
          PROVE  refCnt'[b] = Cardinality(SlotPins(b)') + Cardinality(WorkPins(b)')
      <4>1. WorkPins(b)' = WorkPins(b)
        BY <3>1, <1>0 DEF WorkPins
      <4>2. refCnt'[b] = IF b = cur[t] THEN refCnt[b] + 1 ELSE refCnt[b]
        BY <2>3 DEF RecheckFound, Pinned
      <4>3. Cardinality(SlotPins(b)') =
              IF b = cur[t] THEN Cardinality(SlotPins(b)) + 1 ELSE Cardinality(SlotPins(b))
        BY <2>3, SlotFilled DEF RecheckFound
      <4>4. QED
        BY ONLY <1>P, <3>2, <4>1, <4>2, <4>3
    <3>3. QED
      BY <3>2 DEF PinsAccounted
  <2>4. CASE RecheckLoading(t)
    BY <2>4, <1>0, PinTaken DEF RecheckLoading, Goto, slotVars, Pinning
  <2>5. CASE RecheckStale(t)
    BY <2>5, <1>0, PinsKept DEF RecheckStale, Goto, descVars, slotVars, Pinning
  <2>6. CASE GetFreeBufferId(t)
    BY <2>6, <1>0, PinsKept DEF GetFreeBufferId, Goto, descVars, slotVars, Pinning
  <2>7. CASE FreeListEmpty(t)
    BY <2>7, <1>0, PinsKept DEF FreeListEmpty, Goto, descVars, slotVars, Pinning
  <2>8. CASE ClaimFree(t)
    BY <2>8, <1>0, PinTaken DEF ClaimFree, Goto, slotVars, Pinning
  <2>9. CASE ClaimFreeTaken(t)
    BY <2>9, <1>0, PinsKept DEF ClaimFreeTaken, Goto, descVars, slotVars, Pinning
  <2>10. CASE SweepSkip(t)
    BY <2>10, <1>0, PinsKept DEF SweepSkip, descVars, slotVars, Pinning
  <2>11. CASE SweepInvalid(t)
    BY <2>11, <1>0, PinsKept DEF SweepInvalid, Goto, descVars, slotVars, Pinning
  <2>12. CASE SweepVisit(t)
    BY <2>12, <1>0, PinsKept DEF SweepVisit, Goto, descVars, slotVars, Pinning
  <2>13. CASE SweepDecrement(t)
    BY <2>13, <1>0, PinsKept DEF SweepDecrement, Goto, descVars, slotVars, Pinning
  <2>14. CASE SweepClaim(t)
    BY <2>14, <1>0, PinsKept DEF SweepClaim, Goto, descVars, slotVars, Pinning
  <2>15. CASE SweepRetry(t)
    BY <2>15, <1>0, PinsKept DEF SweepRetry, Goto, descVars, slotVars, Pinning
  <2>16. CASE CleanPageBuffer(t)
    BY <2>16, <1>0, PinTaken DEF CleanPageBuffer, Goto, slotVars, Pinning
  <2>17. CASE InitTag(t)
    BY <2>17, <1>0, PinsKept DEF InitTag, Goto, descVars, slotVars, Pinning
  <2>18. CASE InsertEntry(t)
    <3>1. CASE hashFree = {}
      BY <2>18, <3>1, <1>0, PinDropped DEF InsertEntry, Goto, slotVars, Pinning
    <3>2. CASE hashFree # {}
      BY <2>18, <3>2, <1>0, PinsKept DEF InsertEntry, Goto, slotVars, Pinning
    <3>3. QED
      BY <3>1, <3>2
  <2>19. CASE InsertFound(t)
    BY <2>19, <1>0, PinDropped DEF InsertFound, Goto, slotVars, Pinning
  <2>20. CASE RereadEntry(t)
    BY <2>20, <1>0, PinsKept DEF RereadEntry, Goto, descVars, slotVars, Pinning
  <2>21. CASE LoadOk(t)
    <3>1. pc[t] \in Pinning /\ pc'[t] \notin Pinning
      BY <2>21 DEF LoadOk, Return, Leave, Pinning
    <3>2. ASSUME NEW b \in Buffers
          PROVE  refCnt'[b] = Cardinality(SlotPins(b)') + Cardinality(WorkPins(b)')
      <4>1. Cardinality(WorkPins(b)') =
              IF b = cur[t] THEN Cardinality(WorkPins(b)) - 1 ELSE Cardinality(WorkPins(b))
        <5>1. CASE b = cur[t]
          <6>1. WorkPins(b)' = WorkPins(b) \ {t} /\ t \in WorkPins(b)
            BY <3>1, <5>1, <1>0 DEF WorkPins
          <6>2. QED
            BY <6>1, <5>1, PinsFinite, FS_RemoveElement
        <5>2. CASE b # cur[t]
          <6>1. WorkPins(b)' = WorkPins(b)
            BY <3>1, <5>2, <1>0 DEF WorkPins
          <6>2. QED
            BY <6>1, <5>2
        <5>3. QED
          BY <5>1, <5>2
      <4>2. refCnt' = refCnt
        BY <2>21 DEF LoadOk
      <4>3. Cardinality(SlotPins(b)') =
              IF b = cur[t] THEN Cardinality(SlotPins(b)) + 1 ELSE Cardinality(SlotPins(b))
        BY <2>21, SlotFilled DEF LoadOk
      <4>4. QED
        BY ONLY <1>P, <3>2, <4>1, <4>2, <4>3
    <3>3. QED
      BY <3>2 DEF PinsAccounted
  <2>22. CASE LoadFailed(t)
    BY <2>22, <1>0, PinDropped DEF LoadFailed, Leave, slotVars, Pinning
  <2>23. QED
    BY <1>1, <2>1, <2>2, <2>3, <2>4, <2>5, <2>6, <2>7, <2>8, <2>9, <2>10, <2>11,
       <2>12, <2>13, <2>14, <2>15, <2>16, <2>17, <2>18, <2>19, <2>20, <2>21, <2>22
       DEF Alloc
<1>2. CASE Client(t)
  <2>1. ASSUME NEW g \in Tags, ReadPage(t, g) PROVE PinsAccounted'
    BY <2>1, <1>0, PinsKept DEF ReadPage, descVars, slotVars, Pinning
  <2>2. ASSUME NEW s \in Slots, LockPageRead(t, s) PROVE PinsAccounted'
    BY <2>2, <1>0, PinsKept DEF LockPageRead, Goto, descVars, slotVars, Pinning
  <2>3. ASSUME NEW s \in Slots, LockPageWrite(t, s) PROVE PinsAccounted'
    BY <2>3, <1>0, PinsKept DEF LockPageWrite, Goto, descVars, slotVars, Pinning
  <2>4. ASSUME NEW s \in Slots, ReleasePage(t, s) PROVE PinsAccounted'
    <3> DEFINE c == slotBuf[<<t, s>>]
    <3>1. c \in Buffers /\ <<t, s>> \in Threads \X Slots
      BY <2>4 DEF ReleasePage
    <3>2. refCnt[c] > 0
      <4>1. refCnt[c] # 0
        BY <3>1, UnpinnedUnused
      <4>2. QED
        BY <3>1, <4>1
    <3>3. ASSUME NEW b \in Buffers
          PROVE  refCnt'[b] = Cardinality(SlotPins(b)') + Cardinality(WorkPins(b)')
      <4>1. WorkPins(b)' = WorkPins(b)
        BY <2>4 DEF ReleasePage, WorkPins
      <4>2. refCnt'[b] = IF b = c THEN refCnt[b] - 1 ELSE refCnt[b]
        BY <2>4, <3>1, <3>2 DEF ReleasePage, UnPinned
      <4>3. Cardinality(SlotPins(b)') =
              IF b = c THEN Cardinality(SlotPins(b)) - 1 ELSE Cardinality(SlotPins(b))
        <5>1. CASE b = c
          <6>1. SlotPins(b)' = SlotPins(b) \ {<<t, s>>} /\ <<t, s>> \in SlotPins(b)
            BY <2>4, <3>1, <5>1, <1>S DEF ReleasePage, SlotPins
          <6>2. Cardinality(SlotPins(b) \ {<<t, s>>}) = Cardinality(SlotPins(b)) - 1
            BY ONLY <6>1, PinsFinite, FS_RemoveElement
          <6>3. QED
            BY ONLY <6>1, <6>2, <5>1
        <5>2. CASE b # c
          <6>1. SlotPins(b)' = SlotPins(b)
            BY <2>4, <3>1, <5>2, <1>S DEF ReleasePage, SlotPins
          <6>2. QED
            BY <6>1, <5>2
        <5>3. QED
          BY <5>1, <5>2
      <4>4. QED
        BY ONLY <1>P, <3>3, <4>1, <4>2, <4>3
    <3>4. QED
      BY <3>3 DEF PinsAccounted
  <2>5. CASE UnLockPage(t)
    BY <2>5, <1>0, PinsKept DEF UnLockPage, Leave, descVars, slotVars, Pinning
  <2>6. QED
    BY <1>2, <2>1, <2>2, <2>3, <2>4, <2>5 DEF Client
<1>3. QED
  BY <1>1, <1>2


\* A page in use is not replaced.
LEMMA PageInUseStep ==
  ASSUME TypeOK, Control, ContentsOK, PinsAccounted, PageInUse, NEW t \in Threads,
         Alloc(t) \/ Client(t)
  PROVE  PageInUse'
<1> pc \in [Threads -> PCs] /\ cur \in [Threads -> Buffers]
  BY DEF TypeOK, PCs
<1> /\ isValid \in [Buffers -> Validity]
    /\ tag \in [Buffers -> Tags \cup {NoTag}]
    /\ refCnt \in [Buffers -> Nat]
    /\ pageOf \in [Buffers -> Tags \cup {NoTag}]
  BY DEF TypeOK
<1> /\ ent \in [Threads -> Entries \cup {NoEntry}]
    /\ want \in [Threads -> Tags \cup {NoTag}]
  BY DEF TypeOK
<1> /\ slotBuf \in [Threads \X Slots -> Buffers \cup {NoBuf}]
    /\ slotTag \in [Threads \X Slots -> Tags \cup {NoTag}]
  BY DEF TypeOK
<1>0. Knows(t)
  BY DEF Control
<1> SUFFICES ASSUME NEW p \in Threads \X Slots, slotBuf'[p] # NoBuf
             PROVE  /\ isValid'[slotBuf'[p]] = "VALID"
                    /\ tag'[slotBuf'[p]] = slotTag'[p]
                    /\ pageOf'[slotBuf'[p]] = slotTag'[p]
  BY DEF PageInUse
<1> DEFINE Good == /\ isValid'[slotBuf'[p]] = "VALID"
                   /\ tag'[slotBuf'[p]] = slotTag'[p]
                   /\ pageOf'[slotBuf'[p]] = slotTag'[p]
<1>Q. /\ slotBuf[p] # NoBuf => /\ isValid[slotBuf[p]] = "VALID"
                              /\ tag[slotBuf[p]] = slotTag[p]
                              /\ pageOf[slotBuf[p]] = slotTag[p]
  BY DEF PageInUse
<1>F. refCnt[cur[t]] = 0 => slotBuf[p] # cur[t]
  BY UnpinnedUnused
<1>1. CASE Alloc(t)
  <2>1. CASE SearchHit(t)
    BY <2>1, <1>Q DEF SearchHit, descVars, slotVars
  <2>2. CASE SearchMiss(t)
    BY <2>2, <1>Q DEF SearchMiss, descVars, slotVars
  <2>3. CASE RecheckFound(t)
    <3>1. PICK s \in Slots :
             /\ slotBuf' = [slotBuf EXCEPT ![<<t, s>>] = cur[t]]
             /\ slotTag' = [slotTag EXCEPT ![<<t, s>>] = want[t]]
      BY <2>3 DEF RecheckFound, Return
    <3>2. <<t, s>> \in Threads \X Slots
      OBVIOUS
    <3>3. CASE p = <<t, s>>
      BY <2>3, <3>1, <3>2, <3>3, <1>0 DEF RecheckFound, StillMine, ContentsOK
    <3>4. CASE p # <<t, s>>
      BY <2>3, <3>1, <3>2, <3>4, <1>0, <1>Q DEF RecheckFound, StillMine, ContentsOK
    <3>5. QED
      BY <3>3, <3>4
  <2>4. CASE RecheckLoading(t)
    BY <2>4, <1>Q DEF RecheckLoading, descVars, slotVars
  <2>5. CASE RecheckStale(t)
    BY <2>5, <1>Q DEF RecheckStale, descVars, slotVars
  <2>6. CASE GetFreeBufferId(t)
    BY <2>6, <1>Q DEF GetFreeBufferId, descVars, slotVars
  <2>7. CASE FreeListEmpty(t)
    BY <2>7, <1>Q DEF FreeListEmpty, descVars, slotVars
  <2>8. CASE ClaimFree(t)
    BY <2>8, <1>0, <1>Q DEF ClaimFree, SetTag, slotVars
  <2>9. CASE ClaimFreeTaken(t)
    BY <2>9, <1>Q DEF ClaimFreeTaken, descVars, slotVars
  <2>10. CASE SweepSkip(t)
    BY <2>10, <1>Q DEF SweepSkip, descVars, slotVars
  <2>11. CASE SweepInvalid(t)
    BY <2>11, <1>Q DEF SweepInvalid, descVars, slotVars
  <2>12. CASE SweepVisit(t)
    BY <2>12, <1>Q DEF SweepVisit, descVars, slotVars
  <2>13. CASE SweepDecrement(t)
    BY <2>13, <1>Q DEF SweepDecrement, descVars, slotVars
  <2>14. CASE SweepClaim(t)
    BY <2>14, <1>Q DEF SweepClaim, descVars, slotVars
  <2>15. CASE SweepRetry(t)
    BY <2>15, <1>Q DEF SweepRetry, descVars, slotVars
  <2>16. CASE CleanPageBuffer(t)
    BY <2>16, <1>0, <1>Q, <1>F DEF CleanPageBuffer, Knows, slotVars
  <2>17. CASE InitTag(t)
    BY <2>17, <1>0, <1>Q DEF InitTag, SetTag, Knows, slotVars
  <2>18. CASE InsertEntry(t)
    BY <2>18, <1>Q DEF InsertEntry, descVars, slotVars
  <2>19. CASE InsertFound(t)
    BY <2>19, <1>Q DEF InsertFound, descVars, slotVars
  <2>20. CASE RereadEntry(t)
    BY <2>20, <1>Q DEF RereadEntry, descVars, slotVars
  <2>21. CASE LoadOk(t)
    <3>1. PICK s \in Slots :
             /\ slotBuf' = [slotBuf EXCEPT ![<<t, s>>] = cur[t]]
             /\ slotTag' = [slotTag EXCEPT ![<<t, s>>] = want[t]]
      BY <2>21 DEF LoadOk, Return
    <3>2. <<t, s>> \in Threads \X Slots
      OBVIOUS
    <3>3. CASE p = <<t, s>>
      BY <2>21, <3>1, <3>2, <3>3, <1>0 DEF LoadOk, Knows
    <3>4. CASE p # <<t, s>>
      BY <2>21, <3>1, <3>2, <3>4, <1>0, <1>Q DEF LoadOk, Knows
    <3>5. QED
      BY <3>3, <3>4
  <2>22. CASE LoadFailed(t)
    BY <2>22, <1>Q DEF LoadFailed, descVars, slotVars
  <2>23. QED
    BY <1>1, <2>1, <2>2, <2>3, <2>4, <2>5, <2>6, <2>7, <2>8, <2>9, <2>10, <2>11,
       <2>12, <2>13, <2>14, <2>15, <2>16, <2>17, <2>18, <2>19, <2>20, <2>21, <2>22
       DEF Alloc
<1>2. CASE Client(t)
  <2>1. ASSUME NEW g \in Tags, ReadPage(t, g) PROVE Good
    BY <2>1, <1>Q DEF ReadPage, descVars, slotVars
  <2>2. ASSUME NEW s \in Slots, LockPageRead(t, s) PROVE Good
    BY <2>2, <1>Q DEF LockPageRead, descVars, slotVars
  <2>3. ASSUME NEW s \in Slots, LockPageWrite(t, s) PROVE Good
    BY <2>3, <1>Q DEF LockPageWrite, descVars, slotVars
  <2>4. ASSUME NEW s \in Slots, ReleasePage(t, s) PROVE Good
    <3>1. <<t, s>> \in Threads \X Slots
      OBVIOUS
    <3>2. p # <<t, s>> /\ slotBuf[p] = slotBuf'[p]
      BY <2>4, <3>1 DEF ReleasePage
    <3>3. QED
      BY <2>4, <3>1, <3>2, <1>Q DEF ReleasePage
  <2>5. CASE UnLockPage(t)
    BY <2>5, <1>Q DEF UnLockPage, descVars, slotVars
  <2>6. QED
    BY <1>2, <2>1, <2>2, <2>3, <2>4, <2>5 DEF Client
<1>3. QED
  BY <1>1, <1>2

-----------------------------------------------------------------------------
\* The initial pool: nothing is pinned, locked or valid.
LEMMA PinInvInit == Init => PinInv
<1> SUFFICES ASSUME Init PROVE PinInv
  OBVIOUS
<1>1. TypeOK
  BY NAssumption, UseCountAssumption DEF Init, InitBufferPool, InitHashTable, TypeOK, Buffers, Validity, Idle
<1>2. LockDiscipline /\ Control /\ ContentsOK
  BY DEF Init, InitBufferPool, InitHashTable, LockDiscipline, Control, Knows, ContentsOK, Owning, Using
<1>3. PageInUse
  BY DEF Init, InitBufferPool, InitHashTable, PageInUse
<1>4. PinsAccounted
  <2> SUFFICES ASSUME NEW b \in Buffers
               PROVE  refCnt[b] = Cardinality(SlotPins(b)) + Cardinality(WorkPins(b))
    BY DEF PinsAccounted
  <2>1. NoBuf \notin Buffers
    BY SentinelAssumption, NAssumption DEF Buffers
  <2>2. SlotPins(b) = {} /\ WorkPins(b) = {}
    BY <2>1 DEF Init, InitBufferPool, InitHashTable, SlotPins, WorkPins, Pinning
  <2>3. Cardinality(SlotPins(b)) = 0 /\ Cardinality(WorkPins(b)) = 0
    BY <2>2, FS_EmptySet
  <2>4. QED
    BY <2>3 DEF Init, InitBufferPool
<1>5. QED
  BY <1>1, <1>2, <1>3, <1>4 DEF PinInv

\* Every step of every worker, and every stuttering step, preserves PinInv.
LEMMA PinInvStep == PinInv /\ [Next]_vars => PinInv'
<1> SUFFICES ASSUME PinInv, [Next]_vars PROVE PinInv'
  OBVIOUS
<1> USE DEF PinInv
<1>1. TypeOK' /\ LockDiscipline'
  BY TypeStep, LockStep
<1>2. CASE Next
  <2>1. PICK t \in Threads : Alloc(t) \/ Client(t)
    BY <1>2 DEF Next
  <2>2. Control' /\ ContentsOK' /\ PinsAccounted' /\ PageInUse'
    BY <2>1, ControlStep, ContentsStep, PinsStep, PageInUseStep
  <2>3. QED
    BY <1>1, <2>2
<1>3. CASE UNCHANGED vars
  <2> UNCHANGED <<tag, isValid, refCnt, pageOf, pc, want, cur, ent, slotBuf, slotTag>>
    BY <1>3 DEF vars, descVars, slotVars
  <2>1. Control'
    BY DEF Control, Knows
  <2>2. ContentsOK' /\ PageInUse'
    BY DEF ContentsOK, PageInUse
  <2>3. PinsAccounted'
    BY PinsKept
  <2>4. QED
    BY <1>1, <2>1, <2>2, <2>3
<1>4. QED
  BY <1>2, <1>3

\* The inductive invariant behind every guarantee of AllocBuffer and ReadPage holds
\* in every reachable state, for any number of workers, buffers and pages.
THEOREM PoolInvariant == Spec => []PinInv
<1>1. QED
  BY PinInvInit, PinInvStep, PTL DEF Spec

\* Every variable of the pool keeps its type: counters do not run below zero or over
\* USE_COUNT_MAX and every buffer number that AllocBuffer handles is inside the pool.
THEOREM PoolTypeOK == Spec => []TypeOK
<1>1. PinInv => TypeOK
  BY DEF PinInv
<1>2. QED
  BY <1>1, PoolInvariant, PTL

\* refCnt counts exactly the pins in the hands of workers, on the retry and failure
\* paths of AllocBuffer and ReadPage too.
THEOREM PoolPinsAccounted == Spec => []PinsAccounted
<1>1. PinInv => PinsAccounted
  BY DEF PinInv
<1>2. QED
  BY <1>1, PoolInvariant, PTL

\* A page that ReadPage returned stays in its buffer until ReleasePage.
THEOREM PoolPageInUse == Spec => []PageInUse
<1>1. PinInv => PageInUse
  BY DEF PinInv
<1>2. QED
  BY <1>1, PoolInvariant, PTL

\* A page lock protects: no step of another worker replaces the page under it.  The
\* pointer that the holder keeps is in use before and after the step.
THEOREM PoolLockedPageStable == Spec => LockedPageStable
<1> DEFINE Kept(t) == /\ tag'[cur[t]] = tag[cur[t]]
                      /\ isValid'[cur[t]] = isValid[cur[t]]
                      /\ pageOf'[cur[t]] = pageOf[cur[t]]
           Stable == \A t \in Threads : pc[t] \in Using /\ pc'[t] \in Using => Kept(t)
<1>1. PinInv /\ PinInv' /\ [Next]_vars => [Stable]_vars
  <2> SUFFICES ASSUME PinInv, PinInv', Next,
                      NEW t \in Threads, pc[t] \in Using, pc'[t] \in Using
               PROVE  Kept(t)
    OBVIOUS
  <2>1. PICK u \in Threads : Alloc(u) \/ Client(u)
    BY DEF Next
  <2> TypeOK /\ LockDiscipline
    BY DEF PinInv
  <2> pc \in [Threads -> PCs]
    BY DEF TypeOK, PCs
  <2>2. u # t
    <3> SUFFICES ASSUME u = t PROVE FALSE
      OBVIOUS
    <3>1. ~Alloc(t)
      BY DEF Using, Alloc, SearchHit, SearchMiss, RecheckFound, RecheckLoading, RecheckStale,
         GetFreeBufferId, FreeListEmpty, ClaimFree, ClaimFreeTaken, SweepSkip, SweepInvalid,
         SweepVisit, SweepDecrement, SweepClaim, SweepRetry, CleanPageBuffer, InitTag,
         InsertEntry, InsertFound, RereadEntry, LoadOk, LoadFailed
    <3>2. UnLockPage(t)
      BY <2>1, <3>1 DEF Using, Client, ReadPage, LockPageRead, LockPageWrite, ReleasePage
    <3>3. pc'[t] = "idle"
      BY <3>2 DEF UnLockPage, Leave
    <3>4. QED
      BY <3>3 DEF Using
  <2>3. PICK s \in Slots : slotBuf[<<t, s>>] = cur[t]
    BY DEF PinInv, Control, Knows
  <2>4. slotBuf'[<<t, s>>] = cur[t] /\ slotTag'[<<t, s>>] = slotTag[<<t, s>>]
    BY <2>1, <2>2, <2>3, Frame DEF Undisturbed
  <2>5. cur[t] # NoBuf /\ <<t, s>> \in Threads \X Slots
    BY SentinelAssumption, NAssumption DEF TypeOK, Buffers
  <2>6. QED
    BY <2>3, <2>4, <2>5 DEF PinInv, PageInUse
<1>2. QED
  BY <1>1, PoolInvariant, PTL DEF Spec, LockedPageStable


-----------------------------------------------------------------------------
\* A step leaves the buffers on the free list alone.
LEMMA FreeListStep ==
  ASSUME PinInv, FreeInv, NEW t \in Threads, Alloc(t) \/ Client(t)
  PROVE  FreeListUnpinned'
<1> USE DEF FreeInv
<1> TypeOK
  BY DEF PinInv
<1> pc \in [Threads -> PCs] /\ cur \in [Threads -> Buffers]
  BY DEF TypeOK, PCs
<1> /\ isValid \in [Buffers -> Validity]
    /\ tag \in [Buffers -> Tags \cup {NoTag}]
    /\ refCnt \in [Buffers -> Nat]
    /\ pageOf \in [Buffers -> Tags \cup {NoTag}]
  BY DEF TypeOK
<1> freeHead \in 1 .. N
  BY DEF TypeOK
<1> slotBuf \in [Threads \X Slots -> Buffers \cup {NoBuf}]
  BY DEF TypeOK
<1>0. Knows(t) /\ PageInUse
  BY DEF PinInv, Control
<1> SUFFICES ASSUME NEW b \in OnFreeList'
             PROVE  refCnt'[b] = 0 /\ isValid'[b] = "INVALID"
  BY DEF FreeListUnpinned
<1> DEFINE Free == refCnt'[b] = 0 /\ isValid'[b] = "INVALID"
<1>Q. b \in OnFreeList => b \in Buffers /\ refCnt[b] = 0 /\ isValid[b] = "INVALID"
  BY DEF FreeListUnpinned, OnFreeList, Buffers
<1>L. freeHead' = freeHead => b \in OnFreeList
  BY DEF OnFreeList
<1>1. CASE Alloc(t)
  <2>1. CASE SearchHit(t)
    BY <2>1, <1>Q, <1>L DEF SearchHit, descVars
  <2>2. CASE SearchMiss(t)
    BY <2>2, <1>Q, <1>L DEF SearchMiss, descVars
  <2>3. CASE RecheckFound(t)
    BY <2>3, <1>Q, <1>L DEF RecheckFound, StillMine, Pinned
  <2>4. CASE RecheckLoading(t)
    BY <2>4, <1>Q, <1>L DEF RecheckLoading, StillMine, Pinned
  <2>5. CASE RecheckStale(t)
    BY <2>5, <1>Q, <1>L DEF RecheckStale, descVars
  <2>6. CASE GetFreeBufferId(t)
    <3>1. PICK c \in OnFreeList : freeHead' = Unlink(c)
      BY <2>6 DEF GetFreeBufferId
    <3>2. b \in OnFreeList
      BY <3>1, NAssumption DEF OnFreeList, Unlink
    <3>3. QED
      BY <2>6, <3>2, <1>Q DEF GetFreeBufferId, descVars
  <2>7. CASE FreeListEmpty(t)
    BY <2>7, <1>Q, <1>L DEF FreeListEmpty, descVars
  <2>8. CASE ClaimFree(t)
    <3>1. b # cur[t]
      BY <2>8 DEF ClaimFree, FreeListOrder, OnFreeList
    <3>2. QED
      BY <2>8, <3>1, <1>Q, <1>L DEF ClaimFree, SetTag, Pinned
  <2>9. CASE ClaimFreeTaken(t)
    BY <2>9, <1>Q, <1>L DEF ClaimFreeTaken, descVars
  <2>10. CASE SweepSkip(t)
    BY <2>10, <1>Q, <1>L DEF SweepSkip, descVars
  <2>11. CASE SweepInvalid(t)
    BY <2>11, <1>Q, <1>L DEF SweepInvalid, descVars
  <2>12. CASE SweepVisit(t)
    BY <2>12, <1>Q, <1>L DEF SweepVisit, descVars
  <2>13. CASE SweepDecrement(t)
    BY <2>13, <1>Q, <1>L DEF SweepDecrement, descVars
  <2>14. CASE SweepClaim(t)
    BY <2>14, <1>Q, <1>L DEF SweepClaim, descVars
  <2>15. CASE SweepRetry(t)
    BY <2>15, <1>Q, <1>L DEF SweepRetry, descVars
  <2>16. CASE CleanPageBuffer(t)
    <3>1. freeHead' = N
      BY <2>16 DEF CleanPageBuffer, FreeListOrder
    <3>2. QED
      BY <3>1, NAssumption DEF OnFreeList
  <2>17. CASE InitTag(t)
    <3>1. freeHead' = N
      BY <2>17 DEF InitTag, FreeListOrder
    <3>2. QED
      BY <3>1, NAssumption DEF OnFreeList
  <2>18. CASE InsertEntry(t)
    BY <2>18, <1>0, <1>Q, <1>L DEF InsertEntry, Knows, UnPinned
  <2>19. CASE InsertFound(t)
    BY <2>19, <1>0, <1>Q, <1>L DEF InsertFound, Knows, UnPinned
  <2>20. CASE RereadEntry(t)
    BY <2>20, <1>Q, <1>L DEF RereadEntry, descVars
  <2>21. CASE LoadOk(t)
    BY <2>21, <1>0, <1>Q, <1>L DEF LoadOk, Knows
  <2>22. CASE LoadFailed(t)
    BY <2>22, <1>0, <1>Q, <1>L DEF LoadFailed, Knows, UnPinned
  <2>23. QED
    BY <1>1, <2>1, <2>2, <2>3, <2>4, <2>5, <2>6, <2>7, <2>8, <2>9, <2>10, <2>11,
       <2>12, <2>13, <2>14, <2>15, <2>16, <2>17, <2>18, <2>19, <2>20, <2>21, <2>22
       DEF Alloc
<1>2. CASE Client(t)
  <2>1. ASSUME NEW g \in Tags, ReadPage(t, g) PROVE Free
    BY <2>1, <1>Q, <1>L DEF ReadPage, descVars
  <2>2. ASSUME NEW s \in Slots, LockPageRead(t, s) PROVE Free
    BY <2>2, <1>Q, <1>L DEF LockPageRead, descVars
  <2>3. ASSUME NEW s \in Slots, LockPageWrite(t, s) PROVE Free
    BY <2>3, <1>Q, <1>L DEF LockPageWrite, descVars
  <2>4. ASSUME NEW s \in Slots, ReleasePage(t, s) PROVE Free
    <3>1. slotBuf[<<t, s>>] # b
      BY <2>4, <1>0, <1>Q, <1>L, <<t, s>> \in Threads \X Slots DEF ReleasePage, PageInUse
    <3>2. QED
      BY <2>4, <3>1, <1>Q, <1>L DEF ReleasePage, UnPinned
  <2>5. CASE UnLockPage(t)
    BY <2>5, <1>Q, <1>L DEF UnLockPage, descVars
  <2>6. QED
    BY <1>2, <2>1, <2>2, <2>3, <2>4, <2>5 DEF Client
<1>3. QED
  BY <1>1, <1>2

\* The points of AllocBuffer behind an empty free list.
Sweeping == {"sweep", "visit", "claim", "clean", "init"}

\* A step of a worker keeps the order of list and sweep for itself and never moves
\* the head of the list back.
LEMMA FreeOrderOwn ==
  ASSUME TypeOK, FreeListOrder, NEW t \in Threads, Alloc(t) \/ Client(t)
  PROVE  /\ freeHead' \in freeHead .. N
         /\ pc'[t] \in Sweeping => freeHead' = N
         /\ pc'[t] = "claimfree" => cur'[t] < freeHead'
<1> pc \in [Threads -> PCs] /\ cur \in [Threads -> Buffers]
  BY DEF TypeOK, PCs
<1> freeHead \in 1 .. N
  BY DEF TypeOK
<1> N \in Nat /\ Buffers \subseteq Int
  BY NAssumption DEF Buffers
<1> DEFINE Ordered == /\ freeHead' \in freeHead .. N
                      /\ pc'[t] \in Sweeping => freeHead' = N
                      /\ pc'[t] = "claimfree" => cur'[t] < freeHead'
<1>0. /\ pc[t] \in Sweeping => freeHead = N
      /\ pc[t] = "claimfree" => cur[t] < freeHead
  BY DEF FreeListOrder, Sweeping
<1>1. CASE Alloc(t)
  <2>1. CASE SearchHit(t)
    BY <2>1, <1>0 DEF SearchHit, Goto, Sweeping
  <2>2. CASE SearchMiss(t)
    BY <2>2, <1>0 DEF SearchMiss, Goto, Sweeping
  <2>3. CASE RecheckFound(t)
    BY <2>3, <1>0 DEF RecheckFound, Return, Leave, Sweeping
  <2>4. CASE RecheckLoading(t)
    BY <2>4, <1>0 DEF RecheckLoading, Goto, Sweeping
  <2>5. CASE RecheckStale(t)
    BY <2>5, <1>0 DEF RecheckStale, Goto, Sweeping
  <2>6. CASE GetFreeBufferId(t)
    <3>1. PICK c \in OnFreeList : freeHead' = Unlink(c) /\ cur' = [cur EXCEPT ![t] = c]
      BY <2>6 DEF GetFreeBufferId
    <3>2. c < freeHead' /\ freeHead' \in freeHead .. N
      BY <3>1, NAssumption DEF OnFreeList, Unlink
    <3>3. QED
      BY <2>6, <3>1, <3>2 DEF GetFreeBufferId, Goto, Sweeping
  <2>7. CASE FreeListEmpty(t)
    <3>1. freeHead = N
      BY <2>7, NAssumption DEF FreeListEmpty, OnFreeList
    <3>2. QED
      BY <2>7, <3>1 DEF FreeListEmpty, Goto, Sweeping
  <2>8. CASE ClaimFree(t)
    BY <2>8, <1>0 DEF ClaimFree, Goto, Sweeping
  <2>9. CASE ClaimFreeTaken(t)
    BY <2>9, <1>0 DEF ClaimFreeTaken, Goto, Sweeping
  <2>10. CASE SweepSkip(t)
    BY <2>10, <1>0 DEF SweepSkip, Sweeping
  <2>11. CASE SweepInvalid(t)
    BY <2>11, <1>0 DEF SweepInvalid, Goto, Sweeping
  <2>12. CASE SweepVisit(t)
    BY <2>12, <1>0 DEF SweepVisit, Goto, Sweeping
  <2>13. CASE SweepDecrement(t)
    BY <2>13, <1>0 DEF SweepDecrement, Goto, Sweeping
  <2>14. CASE SweepClaim(t)
    BY <2>14, <1>0 DEF SweepClaim, Goto, Sweeping
  <2>15. CASE SweepRetry(t)
    BY <2>15, <1>0 DEF SweepRetry, Goto, Sweeping
  <2>16. CASE CleanPageBuffer(t)
    BY <2>16, <1>0 DEF CleanPageBuffer, Goto, Sweeping
  <2>17. CASE InitTag(t)
    BY <2>17, <1>0 DEF InitTag, Goto, Sweeping
  <2>18. CASE InsertEntry(t)
    BY <2>18, <1>0 DEF InsertEntry, Goto, Sweeping
  <2>19. CASE InsertFound(t)
    BY <2>19, <1>0 DEF InsertFound, Goto, Sweeping
  <2>20. CASE RereadEntry(t)
    BY <2>20, <1>0 DEF RereadEntry, Goto, Sweeping
  <2>21. CASE LoadOk(t)
    BY <2>21, <1>0 DEF LoadOk, Return, Leave, Sweeping
  <2>22. CASE LoadFailed(t)
    BY <2>22, <1>0 DEF LoadFailed, Leave, Sweeping
  <2>23. QED
    BY <1>1, <2>1, <2>2, <2>3, <2>4, <2>5, <2>6, <2>7, <2>8, <2>9, <2>10, <2>11,
       <2>12, <2>13, <2>14, <2>15, <2>16, <2>17, <2>18, <2>19, <2>20, <2>21, <2>22
       DEF Alloc
<1>2. CASE Client(t)
  <2>1. ASSUME NEW g \in Tags, ReadPage(t, g) PROVE Ordered
    BY <2>1, <1>0 DEF ReadPage, Sweeping
  <2>2. ASSUME NEW s \in Slots, LockPageRead(t, s) PROVE Ordered
    BY <2>2, <1>0 DEF LockPageRead, Goto, Sweeping
  <2>3. ASSUME NEW s \in Slots, LockPageWrite(t, s) PROVE Ordered
    BY <2>3, <1>0 DEF LockPageWrite, Goto, Sweeping
  <2>4. ASSUME NEW s \in Slots, ReleasePage(t, s) PROVE Ordered
    BY <2>4, <1>0 DEF ReleasePage, Sweeping
  <2>5. CASE UnLockPage(t)
    BY <2>5, <1>0 DEF UnLockPage, Leave, Sweeping
  <2>6. QED
    BY <1>2, <2>1, <2>2, <2>3, <2>4, <2>5 DEF Client
<1>3. QED
  BY <1>1, <1>2

\* The free list and the sweep stay in order for all workers.
LEMMA FreeOrderStep ==
  ASSUME PinInv, FreeListOrder, NEW t \in Threads, Alloc(t) \/ Client(t)
  PROVE  FreeListOrder'
<1> TypeOK /\ LockDiscipline
  BY DEF PinInv
<1> SUFFICES ASSUME NEW u \in Threads
             PROVE  /\ pc'[u] \in Sweeping => freeHead' = N
                    /\ pc'[u] = "claimfree" => cur'[u] < freeHead'
  BY DEF FreeListOrder, Sweeping
<1>1. CASE u = t
  BY <1>1, FreeOrderOwn
<1>2. CASE u # t
  <2>1. pc'[u] = pc[u] /\ cur'[u] = cur[u]
    BY <1>2, Frame DEF Undisturbed
  <2>2. freeHead' \in freeHead .. N
    BY FreeOrderOwn
  <2>3. freeHead \in Nat /\ N \in Nat /\ cur[u] \in Int
    BY NAssumption DEF TypeOK, Buffers
  <2>4. /\ pc[u] \in Sweeping => freeHead = N
        /\ pc[u] = "claimfree" => cur[u] < freeHead
    BY DEF FreeListOrder, Sweeping
  <2>5. QED
    BY <2>1, <2>2, <2>3, <2>4
<1>3. QED
  BY <1>1, <1>2

\* GetFreeBufferId never meets a pinned buffer on the free list, so it never runs
\* off the end of the array: buffers leave the list before anyone pins them, and the
\* clock sweep does not start before the list is empty.
THEOREM PoolFreeListUnpinned == Spec => []FreeListUnpinned
<1>1. Init => FreeInv
  BY NAssumption DEF Init, InitBufferPool, InitHashTable, FreeInv, FreeListUnpinned, FreeListOrder, OnFreeList, Buffers
<1>2. PinInv /\ FreeInv /\ [Next]_vars => FreeInv'
  <2> SUFFICES ASSUME PinInv, FreeInv, [Next]_vars PROVE FreeInv'
    OBVIOUS
  <2>1. CASE Next
    <3>1. PICK t \in Threads : Alloc(t) \/ Client(t)
      BY <2>1 DEF Next
    <3>2. QED
      BY <3>1, FreeListStep, FreeOrderStep DEF FreeInv
  <2>2. CASE UNCHANGED vars
    BY <2>2 DEF vars, descVars, FreeInv, FreeListUnpinned, FreeListOrder, OnFreeList
  <2>3. QED
    BY <2>1, <2>2
<1>3. FreeInv => FreeListUnpinned
  BY DEF FreeInv
<1>4. QED
  BY <1>1, <1>2, <1>3, PoolInvariant, PTL DEF Spec


-----------------------------------------------------------------------------
\* A step keeps the elements in the buckets true to the descriptors.
LEMMA HashNamesStep ==
  ASSUME PinInv, HashInv, NEW t \in Threads, Alloc(t) \/ Client(t)
  PROVE  HashNamesItsBuffer'
<1> USE DEF HashInv
<1> TypeOK
  BY DEF PinInv
<1> pc \in [Threads -> PCs] /\ cur \in [Threads -> Buffers]
  BY DEF TypeOK, PCs
<1> /\ hashed \in SUBSET Entries /\ hashFree \in SUBSET Entries
    /\ entryTag \in [Entries -> Tags \cup {NoTag}]
    /\ entryBuf \in [Entries -> Buffers]
    /\ ent \in [Threads -> Entries \cup {NoEntry}]
    /\ want \in [Threads -> Tags \cup {NoTag}]
    /\ isValid \in [Buffers -> Validity]
    /\ tag \in [Buffers -> Tags \cup {NoTag}]
  BY DEF TypeOK
<1>0. Knows(t)
  BY DEF PinInv, Control
<1>1. CASE Alloc(t)
  <2>1. CASE SearchHit(t)
    BY <2>1 DEF SearchHit, HashNamesItsBuffer, hashVars, descVars
  <2>2. CASE SearchMiss(t)
    BY <2>2 DEF SearchMiss, HashNamesItsBuffer, hashVars, descVars
  <2>3. CASE RecheckFound(t)
    BY <2>3 DEF RecheckFound, HashNamesItsBuffer, hashVars, descVars
  <2>4. CASE RecheckLoading(t)
    BY <2>4 DEF RecheckLoading, HashNamesItsBuffer, hashVars, descVars
  <2>5. CASE RecheckStale(t)
    BY <2>5 DEF RecheckStale, HashNamesItsBuffer, hashVars, descVars
  <2>6. CASE GetFreeBufferId(t)
    BY <2>6 DEF GetFreeBufferId, HashNamesItsBuffer, hashVars, descVars
  <2>7. CASE FreeListEmpty(t)
    BY <2>7 DEF FreeListEmpty, HashNamesItsBuffer, hashVars, descVars
  <2>8. CASE ClaimFree(t)
    BY <2>8, <1>0 DEF ClaimFree, SetTag, HashNamesItsBuffer, hashVars
  <2>9. CASE ClaimFreeTaken(t)
    BY <2>9 DEF ClaimFreeTaken, HashNamesItsBuffer, hashVars, descVars
  <2>10. CASE SweepSkip(t)
    BY <2>10 DEF SweepSkip, HashNamesItsBuffer, hashVars, descVars
  <2>11. CASE SweepInvalid(t)
    BY <2>11 DEF SweepInvalid, HashNamesItsBuffer, hashVars, descVars
  <2>12. CASE SweepVisit(t)
    BY <2>12 DEF SweepVisit, HashNamesItsBuffer, hashVars, descVars
  <2>13. CASE SweepDecrement(t)
    BY <2>13 DEF SweepDecrement, HashNamesItsBuffer, hashVars, descVars
  <2>14. CASE SweepClaim(t)
    BY <2>14 DEF SweepClaim, HashNamesItsBuffer, hashVars, descVars
  <2>15. CASE SweepRetry(t)
    BY <2>15 DEF SweepRetry, HashNamesItsBuffer, hashVars, descVars
  <2>16. CASE CleanPageBuffer(t)
    BY <2>16, <1>0 DEF CleanPageBuffer, Deleted, HashNamesItsBuffer, hashVars
  <2>17. CASE InitTag(t)
    BY <2>17, <1>0 DEF InitTag, Knows, SetTag, HashNamesItsBuffer, hashVars
  <2>18. CASE InsertEntry(t)
    <3>1. CASE hashFree = {}
      BY <2>18, <3>1 DEF InsertEntry, HashNamesItsBuffer, hashVars
    <3>2. CASE hashFree # {}
      <4>1. PICK e \in hashFree : /\ hashed' = hashed \cup {e}
                                  /\ entryTag' = [entryTag EXCEPT ![e] = want[t]]
                                  /\ entryBuf' = [entryBuf EXCEPT ![e] = cur[t]]
        BY <2>18, <3>2 DEF InsertEntry
      <4>2. e \notin hashed /\ tag[cur[t]] = want[t] /\ isValid[cur[t]] = "TAG"
        BY <2>18, <1>0 DEF InsertEntry, Knows, EntryOwnership
      <4>3. \A f \in hashed : entryTag[f] # want[t]
        BY <2>18 DEF InsertEntry, Find
      <4>4. UNCHANGED <<tag, isValid>>
        BY <2>18 DEF InsertEntry
      <4>5. QED
        BY <4>1, <4>2, <4>3, <4>4 DEF HashNamesItsBuffer
    <3>3. QED
      BY <3>1, <3>2
  <2>19. CASE InsertFound(t)
    BY <2>19 DEF InsertFound, HashNamesItsBuffer, hashVars, descVars
  <2>20. CASE RereadEntry(t)
    BY <2>20 DEF RereadEntry, HashNamesItsBuffer, hashVars, descVars
  <2>21. CASE LoadOk(t)
    BY <2>21, <1>0 DEF LoadOk, HashNamesItsBuffer, hashVars
  <2>22. CASE LoadFailed(t)
    BY <2>22 DEF LoadFailed, HashNamesItsBuffer, hashVars, descVars
  <2>23. QED
    BY <1>1, <2>1, <2>2, <2>3, <2>4, <2>5, <2>6, <2>7, <2>8, <2>9, <2>10, <2>11,
       <2>12, <2>13, <2>14, <2>15, <2>16, <2>17, <2>18, <2>19, <2>20, <2>21, <2>22
       DEF Alloc
<1>2. CASE Client(t)
  <2>1. ASSUME NEW g \in Tags, ReadPage(t, g) PROVE HashNamesItsBuffer'
    BY <2>1 DEF ReadPage, HashNamesItsBuffer, hashVars, descVars
  <2>2. ASSUME NEW s \in Slots, LockPageRead(t, s) PROVE HashNamesItsBuffer'
    BY <2>2 DEF LockPageRead, HashNamesItsBuffer, hashVars, descVars
  <2>3. ASSUME NEW s \in Slots, LockPageWrite(t, s) PROVE HashNamesItsBuffer'
    BY <2>3 DEF LockPageWrite, HashNamesItsBuffer, hashVars, descVars
  <2>4. ASSUME NEW s \in Slots, ReleasePage(t, s) PROVE HashNamesItsBuffer'
    BY <2>4 DEF ReleasePage, HashNamesItsBuffer, hashVars, descVars
  <2>5. CASE UnLockPage(t)
    BY <2>5 DEF UnLockPage, HashNamesItsBuffer, hashVars, descVars
  <2>6. QED
    BY <1>2, <2>1, <2>2, <2>3, <2>4, <2>5 DEF Client
<1>3. QED
  BY <1>1, <1>2

\* A step that touches neither list, of a worker with no element in its hands.
LEMMA OwnershipKept ==
  ASSUME EntryOwnership, NEW t \in Threads, UNCHANGED <<hashed, hashFree>>,
         pc[t] # "init", pc'[t] # "init",
         \A u \in Threads \ {t} : pc'[u] = pc[u] /\ ent'[u] = ent[u]
  PROVE  EntryOwnership'
  BY DEF EntryOwnership

\* A step neither loses nor doubles an element of the hash table.
LEMMA OwnershipStep ==
  ASSUME PinInv, HashInv, NEW t \in Threads, Alloc(t) \/ Client(t)
  PROVE  EntryOwnership'
<1> USE DEF HashInv
<1> TypeOK /\ LockDiscipline
  BY DEF PinInv
<1> pc \in [Threads -> PCs] /\ cur \in [Threads -> Buffers]
  BY DEF TypeOK, PCs
<1> /\ hashed \in SUBSET Entries /\ hashFree \in SUBSET Entries
    /\ entryTag \in [Entries -> Tags \cup {NoTag}]
    /\ entryBuf \in [Entries -> Buffers]
    /\ ent \in [Threads -> Entries \cup {NoEntry}]
    /\ want \in [Threads -> Tags \cup {NoTag}]
    /\ isValid \in [Buffers -> Validity]
    /\ tag \in [Buffers -> Tags \cup {NoTag}]
  BY DEF TypeOK
<1>0. \A u \in Threads \ {t} : pc'[u] = pc[u] /\ ent'[u] = ent[u]
  BY Frame DEF Undisturbed
<1>1a. t \in Threads
  OBVIOUS
<1>2a. NoEntry \notin Entries
  BY SentinelAssumption
<1>1. CASE Alloc(t)
  <2>1. CASE SearchHit(t)
    BY <2>1, <1>0, OwnershipKept DEF SearchHit, Goto, hashVars
  <2>2. CASE SearchMiss(t)
    BY <2>2, <1>0, OwnershipKept DEF SearchMiss, Goto, hashVars
  <2>3. CASE RecheckFound(t)
    BY <2>3, <1>0, OwnershipKept DEF RecheckFound, Return, Leave, hashVars
  <2>4. CASE RecheckLoading(t)
    BY <2>4, <1>0, OwnershipKept DEF RecheckLoading, Goto, hashVars
  <2>5. CASE RecheckStale(t)
    BY <2>5, <1>0, OwnershipKept DEF RecheckStale, Goto, hashVars
  <2>6. CASE GetFreeBufferId(t)
    BY <2>6, <1>0, OwnershipKept DEF GetFreeBufferId, Goto, hashVars
  <2>7. CASE FreeListEmpty(t)
    BY <2>7, <1>0, OwnershipKept DEF FreeListEmpty, Goto, hashVars
  <2>8. CASE ClaimFree(t)
    BY <2>8, <1>0, OwnershipKept DEF ClaimFree, Goto, hashVars
  <2>9. CASE ClaimFreeTaken(t)
    BY <2>9, <1>0, OwnershipKept DEF ClaimFreeTaken, Goto, hashVars
  <2>10. CASE SweepSkip(t)
    BY <2>10, <1>0, OwnershipKept DEF SweepSkip, hashVars
  <2>11. CASE SweepInvalid(t)
    BY <2>11, <1>0, OwnershipKept DEF SweepInvalid, Goto, hashVars
  <2>12. CASE SweepVisit(t)
    BY <2>12, <1>0, OwnershipKept DEF SweepVisit, Goto, hashVars
  <2>13. CASE SweepDecrement(t)
    BY <2>13, <1>0, OwnershipKept DEF SweepDecrement, Goto, hashVars
  <2>14. CASE SweepClaim(t)
    BY <2>14, <1>0, OwnershipKept DEF SweepClaim, Goto, hashVars
  <2>15. CASE SweepRetry(t)
    BY <2>15, <1>0, OwnershipKept DEF SweepRetry, Goto, hashVars
  <2>16. CASE CleanPageBuffer(t)
    <3>1. /\ hashFree' = hashFree /\ hashed' = hashed \ Deleted(cur[t])
          /\ pc[t] = "clean" /\ pc'[t] = "init" /\ Deleted(cur[t]) \subseteq hashed
      BY <2>16 DEF CleanPageBuffer, Goto, Deleted
    <3>2. CASE Deleted(cur[t]) = {}
      <4>1. ent'[t] = NoEntry /\ hashed' = hashed
        BY <2>16, <3>1, <3>2 DEF CleanPageBuffer
      <4>2. QED
        BY ONLY <1>0, <1>1a, <1>2a, <3>1, <4>1, EntryOwnership,
           hashed \in SUBSET Entries, hashFree \in SUBSET Entries DEF EntryOwnership
    <3>3. CASE Deleted(cur[t]) # {}
      <4>1. PICK e \in Deleted(cur[t]) : ent'[t] = e
        BY <2>16, <3>3 DEF CleanPageBuffer
      <4>2. hashed' = hashed \ {e} /\ e \in hashed
        BY <3>1, <4>1 DEF Deleted, HashNamesItsBuffer
      <4>3. QED
        BY ONLY <1>0, <1>1a, <1>2a, <3>1, <4>1, <4>2, EntryOwnership,
           hashed \in SUBSET Entries, hashFree \in SUBSET Entries DEF EntryOwnership
    <3>4. QED
      BY <3>2, <3>3
  <2>17. CASE InitTag(t)
    <3>1. /\ hashed' = hashed /\ hashFree' = hashFree \cup ({ent[t]} \ {NoEntry})
          /\ pc[t] = "init" /\ pc'[t] = "insert"
      BY <2>17 DEF InitTag, Goto, PutFreeList
    <3>2. QED
      BY ONLY <1>0, <1>1a, <1>2a, <3>1, EntryOwnership, ent[t] \in Entries \cup {NoEntry},
         hashed \in SUBSET Entries, hashFree \in SUBSET Entries DEF EntryOwnership
  <2>18. CASE InsertEntry(t)
    <3>0. pc[t] = "insert" /\ pc'[t] # "init"
      BY <2>18 DEF InsertEntry, Goto
    <3>1. CASE hashFree = {}
      BY <2>18, <3>0, <3>1, <1>0, OwnershipKept DEF InsertEntry, hashVars
    <3>2. CASE hashFree # {}
      <4>1. PICK e \in hashFree : hashed' = hashed \cup {e} /\ hashFree' = hashFree \ {e}
        BY <2>18, <3>2 DEF InsertEntry
      <4>2. QED
        BY ONLY <1>0, <1>1a, <1>2a, <3>0, <4>1, EntryOwnership,
           hashed \in SUBSET Entries, hashFree \in SUBSET Entries DEF EntryOwnership
    <3>3. QED
      BY <3>1, <3>2
  <2>19. CASE InsertFound(t)
    BY <2>19, <1>0, OwnershipKept DEF InsertFound, Goto, hashVars
  <2>20. CASE RereadEntry(t)
    BY <2>20, <1>0, OwnershipKept DEF RereadEntry, Goto, hashVars
  <2>21. CASE LoadOk(t)
    BY <2>21, <1>0, OwnershipKept DEF LoadOk, Return, Leave, hashVars
  <2>22. CASE LoadFailed(t)
    BY <2>22, <1>0, OwnershipKept DEF LoadFailed, Leave, hashVars
  <2>23. QED
    BY <1>1, <2>1, <2>2, <2>3, <2>4, <2>5, <2>6, <2>7, <2>8, <2>9, <2>10, <2>11,
       <2>12, <2>13, <2>14, <2>15, <2>16, <2>17, <2>18, <2>19, <2>20, <2>21, <2>22
       DEF Alloc
<1>2. CASE Client(t)
  <2>1. ASSUME NEW g \in Tags, ReadPage(t, g) PROVE EntryOwnership'
    BY <2>1, <1>0, OwnershipKept DEF ReadPage, hashVars
  <2>2. ASSUME NEW s \in Slots, LockPageRead(t, s) PROVE EntryOwnership'
    BY <2>2, <1>0, OwnershipKept DEF LockPageRead, Goto, hashVars
  <2>3. ASSUME NEW s \in Slots, LockPageWrite(t, s) PROVE EntryOwnership'
    BY <2>3, <1>0, OwnershipKept DEF LockPageWrite, Goto, hashVars
  <2>4. ASSUME NEW s \in Slots, ReleasePage(t, s) PROVE EntryOwnership'
    BY <2>4, <1>0, OwnershipKept DEF ReleasePage, hashVars
  <2>5. CASE UnLockPage(t)
    BY <2>5, <1>0, OwnershipKept DEF UnLockPage, Leave, hashVars
  <2>6. QED
    BY <1>2, <2>1, <2>2, <2>3, <2>4, <2>5 DEF Client
<1>3. QED
  BY <1>1, <1>2

\* The hash table's part of the invariant is preserved.
LEMMA HashInvariant == Spec => []HashInv
<1>1. Init => HashInv
  BY DEF Init, InitBufferPool, InitHashTable, HashInv, HashNamesItsBuffer, EntryOwnership
<1>2. PinInv /\ HashInv /\ [Next]_vars => HashInv'
  <2> SUFFICES ASSUME PinInv, HashInv, [Next]_vars PROVE HashInv'
    OBVIOUS
  <2>1. CASE Next
    <3>1. PICK t \in Threads : Alloc(t) \/ Client(t)
      BY <2>1 DEF Next
    <3>2. QED
      BY <3>1, HashNamesStep, OwnershipStep DEF HashInv
  <2>2. CASE UNCHANGED vars
    BY <2>2 DEF vars, descVars, hashVars, HashInv, HashNamesItsBuffer, EntryOwnership
  <2>3. QED
    BY <2>1, <2>2
<1>3. QED
  BY <1>1, <1>2, PoolInvariant, PTL DEF Spec

\* The search of the hash table leads only to buffers that carry the tag, and a tag
\* is in the table at most once.
THEOREM PoolHashNamesItsBuffer == Spec => []HashNamesItsBuffer
<1>1. HashInv => HashNamesItsBuffer
  BY DEF HashInv
<1>2. QED
  BY <1>1, HashInvariant, PTL

-----------------------------------------------------------------------------
\* The buffer behind a hash element that is not free: the one the element names, or
\* the one a worker is cleaning after it took the element out.
Behind(e, b) ==
  \/ e \in hashed /\ b = entryBuf[e]
  \/ \E u \in Threads : pc[u] = "init" /\ ent[u] = e /\ b = cur[u]

\* Two elements are never behind the same buffer.
LEMMA BehindInjective ==
  ASSUME PinInv, HashInv,
         NEW e \in Entries, NEW f \in Entries, NEW b \in Buffers, Behind(e, b), Behind(f, b)
  PROVE  e = f
<1>0. TypeOK /\ LockDiscipline /\ Control /\ HashNamesItsBuffer
  BY DEF PinInv, HashInv
<1>1. ASSUME e \in hashed, b = entryBuf[e], f \in hashed, b = entryBuf[f] PROVE e = f
  <2>1. entryTag[e] = tag[b] /\ entryTag[f] = tag[b]
    BY ONLY <1>0, <1>1 DEF HashNamesItsBuffer
  <2>2. QED
    BY ONLY <1>0, <1>1, <2>1 DEF HashNamesItsBuffer
<1>2. ASSUME NEW u \in Threads, pc[u] = "init", b = cur[u],
             NEW g \in hashed, b = entryBuf[g]
      PROVE  FALSE
  <2>1. isValid[b] # "INVALID"
    BY ONLY <1>0, <1>2 DEF HashNamesItsBuffer
  <2>2. isValid[b] = "INVALID"
    BY ONLY <1>0, <1>2 DEF Control, Knows
  <2>3. QED
    BY <2>1, <2>2
<1>3. ASSUME NEW u \in Threads, pc[u] = "init", ent[u] = e, b = cur[u],
             NEW v \in Threads, pc[v] = "init", ent[v] = f, b = cur[v]
      PROVE  e = f
  <2>1. writer[b] = u /\ writer[b] = v
    BY ONLY <1>0, <1>3 DEF LockDiscipline, Owning
  <2>2. QED
    BY ONLY <1>3, <2>1
<1>4. QED
  BY <1>1, <1>2, <1>3 DEF Behind

\* If no element is free, each one is behind a buffer other than that of a worker
\* about to insert its tag: N elements behind N-1 buffers.
LEMMA InsertFindsElement == PinInv /\ HashInv => EntriesEnough
<1> SUFFICES ASSUME PinInv, HashInv, NEW t \in Threads, pc[t] = "insert",
                    Find(want[t]) = {}, hashFree = {}
             PROVE  FALSE
  BY DEF EntriesEnough
<1>0. TypeOK /\ LockDiscipline /\ Control /\ HashNamesItsBuffer /\ EntryOwnership
  BY DEF PinInv, HashInv
<1> DEFINE Others == Buffers \ {cur[t]}
<1>1. cur[t] \in Buffers /\ tag[cur[t]] = want[t] /\ isValid[cur[t]] = "TAG"
  BY <1>0 DEF TypeOK, Control, Knows
<1>2. \A e \in Entries : \E b \in Others : Behind(e, b)
  <2> SUFFICES ASSUME NEW e \in Entries PROVE \E b \in Others : Behind(e, b)
    OBVIOUS
  <2>1. CASE e \in hashed
    <3>1. entryTag[e] # want[t]
      BY <2>1 DEF Find
    <3>2. entryBuf[e] \in Others
      BY <1>0, <1>1, <2>1, <3>1 DEF TypeOK, HashNamesItsBuffer
    <3>3. QED
      BY <2>1, <3>2 DEF Behind
  <2>2. CASE \E u \in Threads : pc[u] = "init" /\ ent[u] = e
    <3>1. PICK u \in Threads : pc[u] = "init" /\ ent[u] = e
      BY <2>2
    <3>2. isValid[cur[u]] = "INVALID" /\ cur[u] \in Buffers
      BY <1>0, <3>1 DEF TypeOK, Control, Knows
    <3>3. QED
      BY <1>1, <3>1, <3>2 DEF Behind
  <2>3. QED
    BY <1>0, <2>1, <2>2 DEF EntryOwnership
<1> DEFINE place == [e \in Entries |-> CHOOSE b \in Others : Behind(e, b)]
<1>3. place \in [Entries -> Others] /\ \A e \in Entries : Behind(e, place[e])
  BY <1>2
<1>4. IsFiniteSet(Buffers) /\ Cardinality(Buffers) = N
  BY NAssumption, FS_Interval, 0 \in Int, N-1 \in Int, ~(0 > N-1), (N-1)-0+1 = N DEF Buffers
<1>5. IsFiniteSet(Others) /\ Cardinality(Others) = N - 1
  BY <1>1, <1>4, FS_RemoveElement
<1>6. Cardinality(Others) < Cardinality(Entries)
  BY <1>5, EntriesAssumption, NAssumption
<1> HIDE DEF place, Others
<1>7. PICK e, f \in Entries : e # f /\ place[e] = place[f]
  BY <1>3, <1>5, <1>6, FiniteAssumption, FS_PigeonHole
<1>8. place[e] \in Buffers /\ Behind(e, place[e]) /\ Behind(f, place[e])
  BY <1>3, <1>7 DEF Others
<1>9. QED
  BY <1>7, <1>8, BehindInjective

\* The hash table of N elements is enough for N buffers, whatever elements are in
\* flight: HashGetFreeEntry never answers HASH_NULL to AllocBuffer.
THEOREM PoolEntriesEnough == Spec => []EntriesEnough
<1>1. QED
  BY InsertFindsElement, PoolInvariant, HashInvariant, PTL
=============================================================================

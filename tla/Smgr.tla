-------------------------------- MODULE Smgr --------------------------------
(***************************************************************************)
(* The storage manager (smgr.c): the virtual file descriptors of all open  *)
(* tables, linked in one ring, the file handle each of them may have, and  *)
(* the limit on open files.                                                *)
(*                                                                         *)
(* A state of the storage manager is a record M:                           *)
(*   M.next, M.prev      the ring (VFVec.list)                             *)
(*   M.vfhead            smgrContext->vfhead                               *)
(*   M.head, M.end       vfhead and vfend of the sgmrInfo of every entry   *)
(*   M.pfh               the file that a descriptor has open               *)
(*   M.opened            smgrContext->fileOpenedNum                        *)
(* Memory that was given back keeps its contents: the pool never hands out *)
(* a block a second time (ReleaseToMemPage).                               *)
(***************************************************************************)
EXTENDS Integers, FiniteSets, FiniteSetsExt

CONSTANTS
  Entries,     \* dictionary entries, which own the descriptors
  MaxOpen      \* fileMaxNum, FILE_MAX_OPENED_PER_PROCESS

ASSUME SmgrAssumption == MaxOpen \in Nat \ {0} /\ 0 \notin Entries

Forks    == {"main", "group"}
MAX_FORK == 2
Files    == Entries \X Forks      \* a file is named after the entry that created it
\* The descriptors of an entry: one of each fork, and a second one of the main file for a
\* table whose first descriptor was pushed from its head.
Nodes    == Entries \X (Forks \cup {"again"})
NoVF     == <<0, "none">>         \* a NULL descriptor
Closed   == <<0, "closed">>       \* a NULL file handle

Owner(v)   == v[1]
forkNum(v) == IF v[2] = "group" THEN "group" ELSE "main"

InitSmgr ==
  [next   |-> [v \in Nodes |-> v], prev |-> [v \in Nodes |-> v],
   vfhead |-> NoVF,
   head   |-> [e \in Entries |-> NoVF], end |-> [e \in Entries |-> NoVF],
   pfh    |-> [v \in Nodes |-> Closed],
   opened |-> 0]

-----------------------------------------------------------------------------
(* The ring *)

AddDListTail(M, h, v) ==
  [M EXCEPT !.next[v] = h, !.prev[v] = M.prev[h],
            !.next[M.prev[h]] = v, !.prev[h] = v]

AddDListNext(M, h, v) ==
  [M EXCEPT !.next[v] = M.next[h], !.prev[v] = h,
            !.next[h] = v, !.prev[M.next[h]] = v]

DelDListNode(M, v) ==
  IF M.prev[v] = v
  THEN M
  ELSE [M EXCEPT !.prev[M.next[v]] = M.prev[v], !.next[M.prev[v]] = M.next[v],
                 !.next[v] = v, !.prev[v] = v]

\* The first cnt descriptors from h on, up to the return to h.
Walk(M, h, cnt) ==
  LET at[k \in 0 .. cnt - 1] == IF k = 0 THEN h ELSE M.next[at[k - 1]]
      end == Min({k \in 1 .. cnt : k = cnt \/ at[k] = h})
  IN  [k \in 0 .. end - 1 |-> at[k]]

\* The first descriptor of a walk that satisfies a test.
FirstOf(walk, Test(_)) ==
  LET ks == {k \in DOMAIN walk : Test(walk[k])}
  IN  IF ks = {} THEN NoVF ELSE walk[Min(ks)]

\* Mutant: one step too many.
FindVFTooFar(M, h, f) ==
  IF h = NoVF THEN NoVF
  ELSE FirstOf(Walk(M, h, MAX_FORK + 1), LAMBDA v : forkNum(v) = f)

FindVF(M, h, f) ==
  IF h = NoVF THEN NoVF
  ELSE FirstOf(Walk(M, h, MAX_FORK), LAMBDA v : forkNum(v) = f)

\* The descriptor of a fork that the walk from the head of a table answers.
VFOf(M, e, f) == FindVF(M, M.head[e], f)

DeleteVF(M, h, v) ==
  IF h # v THEN DelDListNode(M, v)
  ELSE IF h = M.vfhead THEN [M EXCEPT !.vfhead = NoVF]    \* the node stays in the ring
  ELSE IF M.vfhead = NoVF THEN M                          \* an empty list, says DelDListNode
  ELSE DelDListNode(M, v)

-----------------------------------------------------------------------------
(* Files *)

smgr_close(M, v) ==
  IF M.pfh[v] = Closed THEN M
  ELSE [M EXCEPT !.pfh[v] = Closed, !.opened = @ - 1]

CloseFileSmgrContext(M) ==
  LET open == FirstOf(Walk(M, M.vfhead, Cardinality(Nodes)),
                      LAMBDA v : M.pfh[v] # Closed)
  IN  IF open = NoVF THEN M ELSE smgr_close(M, open)

\* The list is empty although the table has a descriptor: the new one takes its place at
\* the head of the table.
LosesHead(M, e, f) == M.vfhead = NoVF /\ M.head[e] # NoVF /\ VFOf(M, e, f) = NoVF

Linked(M, e, v) ==
  IF M.vfhead = NoVF THEN [M EXCEPT !.vfhead = v, !.head[e] = v]
  ELSE IF M.head[e] = NoVF THEN AddDListTail([M EXCEPT !.head[e] = v], M.vfhead, v)
  ELSE AddDListNext(M, M.head[e], v)

AddFileInfoToSmgrContext(M, e, v) ==
  LET added == [Linked(M, e, v) EXCEPT !.end[e] = v]
  IN  IF added.opened > MaxOpen - 1 THEN CloseFileSmgrContext(added) ELSE added

NewVF(M, e, f) == IF f = "main" /\ M.head[e] # NoVF THEN <<e, "again">> ELSE <<e, f>>

\* After GetVFec the descriptor is there, found (VFOf) or added.
GetVFec(M, e, f) ==
  IF VFOf(M, e, f) # NoVF THEN M ELSE AddFileInfoToSmgrContext(M, e, NewVF(M, e, f))

\* The count goes up also when the file could not be created.
AddFileToSmgrContext(M, v, file) == [M EXCEPT !.pfh[v] = file, !.opened = @ + 1]

ReleaseVF(M, e, v) == smgr_close(DeleteVF(M, M.head[e], v), v)

\* From vfend back to vfhead, which stands right in front of it.
smgrRelease(M, e) ==
  IF M.end[e] = M.head[e] THEN ReleaseVF(M, e, M.head[e])
  ELSE ReleaseVF(ReleaseVF(M, e, M.end[e]), e, M.head[e])

\* The table has no descriptors any more: its sgmr is NULL.
NoSgmr(M, e) == [M EXCEPT !.head[e] = NoVF, !.end[e] = NoVF]

\* fileOpenedNum is changed without a common lock: when another thread is about to
\* change it too, what this one adds or takes away may be lost, or a part of it.
Raced(M, N, race) ==
  IF race THEN {[N EXCEPT !.opened = k] : k \in (M.opened .. N.opened) \cup (N.opened .. M.opened)}
  ELSE {N}
=============================================================================

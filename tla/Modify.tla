------------------------------- MODULE Modify -------------------------------
(***************************************************************************)
(* INSERT, UPDATE and DELETE on one table by several workers at once       *)
(* (execModifyTable.c, the page functions of buffer.c, undopage.c).        *)
(*                                                                         *)
(* A step runs from one lock that may have to be waited for to the next.   *)
(* A lock that is taken and given back without another lock in between     *)
(* only delays the step: the pages of the group file, the header page and  *)
(* the read locks of a scan are of this kind.                              *)
(*                                                                         *)
(* Every statement is a transaction of its own and takes its snapshot in   *)
(* one step; Transactions has the details.  The group file is one sequence *)
(* of groups.                                                              *)
(*                                                                         *)
(* The model follows a table up to the first access whose outcome the      *)
(* memory decides: a write before the rows of a page or over its header, a *)
(* read of a version from a page whose rows lie over each other.  Then     *)
(* wild becomes TRUE, nothing moves any more, and the properties that look *)
(* at the pages claim nothing.                                             *)
(***************************************************************************)
EXTENDS LocalLock, TableSpace

CONSTANTS
  Workers,
  Rows,              \* the sizes of the columns of the rows that are inserted
  Updates,           \* SET lists: sequences of columns with the size of the new value
  MaxStatements      \* bound: statements of all workers together

ASSUME ModifyAssumption ==
  /\ NoThread \notin Workers /\ IsFiniteSet(Workers)
  /\ Rows \subseteq [Cols -> Nat \ {0}]
  /\ Updates \subseteq [cols : Seq(Cols), sizes : Seq(Nat \ {0})]
  /\ \A u \in Updates : Len(u.cols) > 0 /\ Len(u.sizes) = Len(u.cols)
  /\ MaxStatements \in Nat

VARIABLES
  pages,       \* the pages of the main fork, as the buffer pool has them
  pageCnt,     \* tableInfo->pageCnt
  savedCnt,    \* pageCnt in the header page of the file
  groups,      \* the group file: the member page of every column
  locks,       \* the state of the locks, see LocalLock
  nextXid,     \* the next transaction identifier
  running,     \* identifiers of the running transactions
  wild,        \* an access whose outcome the memory decides has taken place
  s            \* what each worker is doing

vars == <<pages, pageCnt, savedCnt, groups, locks, nextXid, running, wild, s>>

ExtLock == 0                     \* tblInfo->extLock; the other locks are those of the pages
Locks   == {ExtLock} \cup PageNos

Idle == [pc   |-> "idle", op |-> "none", xid |-> INVALID_XTID,
         high |-> 0, active |-> {},          \* the snapshot
         cols |-> << >>, sizes |-> << >>,    \* the columns of the statement, their new sizes
         g |-> 0, i |-> 0, c |-> 1,          \* group, row and column at hand
         plist |-> << >>,                    \* INSERT: scanPageInfo->pageList
         skip |-> FALSE, pos |-> NoPosition, \* scan: row invisible, next older version
         old |-> << >>, at |-> << >>,        \* scanned versions, the entries they came from
         kind |-> "undo", num |-> 0, last |-> INVALID_PAGE_NUM,  \* extension of the table
         undo |-> INVALID_PAGE_NUM, new |-> INVALID_PAGE_NUM, upos |-> NoPosition]

Init ==
  /\ pages    = [p \in PageNos |-> NoPage]
  /\ pageCnt  = PAGE_HEAD_PAGE_NUM
  /\ savedCnt = PAGE_HEAD_PAGE_NUM
  /\ groups   = << >>
  /\ locks    = InitRWLocks(Workers, Locks)
  /\ nextXid  = 1
  /\ running  = {}
  /\ wild     = FALSE
  /\ s        = [w \in Workers |-> Idle]

-----------------------------------------------------------------------------
(* Locks *)

LockPage(w, l, mode) ==
  /\ CanAcquire(locks, w, l, mode)
  /\ locks' = AcquireRWLockLocal(locks, w, l, mode)

\* A lock that is given back before the step ends.
Visit(w, l) ==
  /\ CanAcquire(locks, w, l, READ)
  /\ locks' = ReleaseRWLockLocal(AcquireRWLockLocal(locks, w, l, READ), w, l)

UnLockPages(w, ls) == locks' = Released(locks, w, ls)

\* LockPage, work on the page, and the locks to give back at the end.
LockFor(w, l, ls) ==
  /\ CanAcquire(locks, w, l, WRITE)
  /\ locks' = Released(AcquireRWLockLocal(locks, w, l, WRITE), w, ls)

At(w, pc) == s[w].pc = pc /\ ~wild
Origin(w) == groups[s[w].g][s[w].cols[s[w].c]]

-----------------------------------------------------------------------------
(* Statements *)

\* StartTransaction and the snapshot of the statement.
Begin(w, op, cols, sizes, pc) ==
  /\ At(w, "idle")
  /\ nextXid <= MaxStatements
  /\ nextXid' = nextXid + 1
  /\ running' = running \cup {nextXid}
  /\ s' = [s EXCEPT ![w] = [Idle EXCEPT !.pc = pc, !.op = op, !.xid = nextXid,
                                        !.high = nextXid, !.active = running,
                                        !.cols = cols, !.sizes = sizes]]
  /\ UNCHANGED <<pages, pageCnt, savedCnt, groups, locks, wild>>

AllCols == [c \in Cols |-> c]
StartInsert(w) == \E r \in Rows : Begin(w, "insert", AllCols, r, "group")
StartUpdate(w) == \E u \in Updates : Begin(w, "update", u.cols, u.sizes, "scan")
StartDelete(w) == Begin(w, "delete", AllCols, AllCols, "scan")

\* FinishTransaction, after a failure as well: a rollback of the changes is yet to be written.
EndStatement(w) ==
  /\ At(w, "end")
  /\ running' = running \ {s[w].xid}
  /\ s' = [s EXCEPT ![w] = Idle]
  /\ UNCHANGED <<pages, pageCnt, savedCnt, groups, locks, nextXid, wild>>

-----------------------------------------------------------------------------
(* pax_ExecInsert *)

Room(w, c) == s[w].sizes[c] + RowHead + ItemSize

\* GetGroupInfo: the next group.  After the last one the search of the next call begins anew.
NextGroup(w) ==
  /\ At(w, "group")
  /\ s' = IF s[w].g < Len(groups)
          THEN [s EXCEPT ![w].pc = "member", ![w].g = @ + 1]
          ELSE [s EXCEPT ![w].pc = "startext", ![w].g = 0, ![w].num = NumCols]
  /\ UNCHANGED <<pages, pageCnt, savedCnt, groups, locks, nextXid, running, wild>>

\* GetFreeSpaceMemberPage: room for one column, and on to the next; without it another group.
MemberPage(w) ==
  LET c == s[w].c
      p == groups[s[w].g][c]
  IN  /\ At(w, "member")
      /\ Visit(w, p)
      /\ s' = IF ~HasFreeSpace(pages[p], Room(w, c))
              THEN [s EXCEPT ![w].pc = "group", ![w].c = 1, ![w].plist = << >>]
              ELSE IF c < NumCols
              THEN [s EXCEPT ![w].c = @ + 1, ![w].plist = Append(@, p)]
              ELSE [s EXCEPT ![w].pc = "lockgroup", ![w].c = 1, ![w].plist = Append(@, p)]
      /\ UNCHANGED <<pages, pageCnt, savedCnt, groups, nextXid, running, wild>>

\* Mutant: only the page of the first column is locked.
LockGroupPages_First(w) ==
  /\ At(w, "lockgroup")
  /\ LockPage(w, s[w].plist[1], WRITE)
  /\ s' = [s EXCEPT ![w].pc = "check"]
  /\ UNCHANGED <<pages, pageCnt, savedCnt, groups, nextXid, running, wild>>

LockGroupPages(w) ==
  /\ At(w, "lockgroup")
  /\ LockPage(w, s[w].plist[s[w].c], WRITE)
  /\ s' = IF s[w].c < NumCols THEN [s EXCEPT ![w].c = @ + 1]
          ELSE [s EXCEPT ![w].pc = "check", ![w].c = 1]
  /\ UNCHANGED <<pages, pageCnt, savedCnt, groups, nextXid, running, wild>>

\* Mutant: the room found before the pages were locked is trusted.
FreeSpaceCheck_Trust(w) ==
  /\ At(w, "check")
  /\ s' = [s EXCEPT ![w].pc = "write"]
  /\ UNCHANGED <<pages, pageCnt, savedCnt, groups, locks, nextXid, running, wild>>

\* FreeSpaceCheck: another insert may have taken the room (ESTAT_NO_SPACE): the same group is
\* searched again.
FreeSpaceCheck(w) ==
  /\ At(w, "check")
  /\ \/ /\ \A c \in Cols : HasFreeSpace(pages[s[w].plist[c]], Room(w, c))
        /\ s' = [s EXCEPT ![w].pc = "write"]
        /\ UNCHANGED locks
     \/ /\ \E c \in Cols : ~HasFreeSpace(pages[s[w].plist[c]], Room(w, c))
        /\ s' = [s EXCEPT ![w].pc = "member", ![w].plist = << >>]
        /\ UnLockPages(w, s[w].plist)
  /\ UNCHANGED <<pages, pageCnt, savedCnt, groups, nextXid, running, wild>>

\* InsertRowDataWithGroup: one column after the other, then all pages are unlocked.
WriteColumn(w) ==
  LET c == s[w].c
      v == NewVersion(s[w].xid, s[w].sizes[c], s[w].xid, NoPosition)
  IN  /\ At(w, "write")
      /\ pages' = [pages EXCEPT ![s[w].plist[c]] = WriteRowOnePage(@, v)]
      /\ \/ /\ c < NumCols
            /\ s' = [s EXCEPT ![w].c = @ + 1]
            /\ UNCHANGED locks
         \/ /\ c = NumCols
            /\ s' = [s EXCEPT ![w].pc = "end"]
            /\ UnLockPages(w, s[w].plist)
      /\ UNCHANGED <<pageCnt, savedCnt, groups, nextXid, running, wild>>

-----------------------------------------------------------------------------
(* ExtensionTbl *)

\* Mutant: the table is extended without the extension lock.
StartExtensionTbl_NoLock(w) ==
  /\ At(w, "startext")
  /\ s' = [s EXCEPT ![w].pc = "extend"]
  /\ UNCHANGED <<pages, pageCnt, savedCnt, groups, locks, nextXid, running, wild>>

StartExtensionTbl(w) ==
  /\ At(w, "startext")
  /\ LockPage(w, ExtLock, WRITE)
  /\ s' = [s EXCEPT ![w].pc = "extend"]
  /\ UNCHANGED <<pages, pageCnt, savedCnt, groups, nextXid, running, wild>>

\* One page: its number is an atomic increment, its write fails unnoticed on a full disk.
AddPage(w) ==
  /\ At(w, "extend")
  /\ s[w].num > 0
  /\ pageCnt' = pageCnt + 1
  /\ pages' = IF pageCnt' \in PageNos THEN [pages EXCEPT ![pageCnt'] = InitPage] ELSE pages
  /\ s' = [s EXCEPT ![w].num = @ - 1, ![w].last = pageCnt']
  /\ UNCHANGED <<savedCnt, groups, locks, nextXid, running, wild>>

UpdateMetaData == savedCnt' = pageCnt

\* Mutant: the answer of ExtensionTbl is not looked at.
InsertGroupItem_Unchecked(w) ==
  /\ At(w, "extend") /\ s[w].op = "insert" /\ s[w].num = 0
  /\ UpdateMetaData
  /\ groups' = Append(groups, MemberPages(s[w].last))
  /\ UnLockPages(w, <<ExtLock>>)
  /\ s' = [s EXCEPT ![w].pc = "group"]
  /\ UNCHANGED <<pages, pageCnt, nextXid, running, wild>>

\* InsertGroupItem, EndExtensionTbl: the new group is known.  When the last page cannot be read
\* back pax_ExecInsert returns with the extension lock.
InsertGroupItem(w) ==
  /\ At(w, "extend") /\ s[w].op = "insert" /\ s[w].num = 0
  /\ UpdateMetaData
  /\ \/ /\ s[w].last \in PageNos
        /\ groups' = Append(groups, MemberPages(s[w].last))
        /\ UnLockPages(w, <<ExtLock>>)
        /\ s' = [s EXCEPT ![w].pc = "group"]
     \/ /\ s[w].last \notin PageNos
        /\ s' = [s EXCEPT ![w].pc = "end"]
        /\ UNCHANGED <<groups, locks>>
  /\ UNCHANGED <<pages, pageCnt, nextXid, running, wild>>

-----------------------------------------------------------------------------
(* SeqscanNext for UPDATE and DELETE *)

\* TupleVisibilitySatisfy.
InSnapshot(w, x) == x >= s[w].high \/ x \in s[w].active
Visible(w, v) ==
  /\ v.tmin = s[w].xid \/ ~InSnapshot(w, v.tmin)
  /\ v.tmax = INVALID_XTID \/ (v.tmax # s[w].xid /\ InSnapshot(w, v.tmax))

NextRow(w) == [s EXCEPT ![w].pc = "column", ![w].i = @ + 1, ![w].c = 1, ![w].skip = FALSE,
                        ![w].old = << >>, ![w].at = << >>]

\* The rest of SeqScanNextColumnOpt for a column: the visible version, or the row is passed over.
ColumnDone(w, found) ==
  LET old == s[w].old \o found
  IN  IF s[w].c < Len(s[w].cols)
      THEN [s EXCEPT ![w].pc = "column", ![w].c = @ + 1, ![w].old = old, ![w].skip = (found = << >>)]
      ELSE IF found = << >> THEN NextRow(w)
      ELSE [s EXCEPT ![w].pc = "found", ![w].c = 1, ![w].old = old]

\* An older version, or none.
Older(w, v) ==
  IF Visible(w, v) THEN ColumnDone(w, <<v>>)
  ELSE IF v.undo = NoPosition THEN ColumnDone(w, << >>)
  ELSE [s EXCEPT ![w].pc = "walk", ![w].pos = v.undo]

ScanGroup(w) ==
  /\ At(w, "scan")
  /\ s' = IF s[w].g < Len(groups)
          THEN [NextRow(w) EXCEPT ![w].g = @ + 1, ![w].i = 1]
          ELSE [s EXCEPT ![w].pc = "end"]
  /\ UNCHANGED <<pages, pageCnt, savedCnt, groups, locks, nextXid, running, wild>>

\* GetRowDataFromPageEx: the end of the page, and a row that was moved to an extension page (it
\* is looked up in the wrong page), end the group.
ScanColumn(w) ==
  LET items == pages[Origin(w)].items
      i     == s[w].i
  IN  /\ At(w, "column")
      /\ Visit(w, Origin(w))
      /\ s' = IF i > Len(items) THEN [s EXCEPT ![w].pc = "scan"]
              ELSE IF items[i].moved THEN [s EXCEPT ![w].pc = "scan"]
              ELSE IF s[w].skip THEN ColumnDone(w, << >>)
              ELSE Older(w, items[i].ver)
      /\ UNCHANGED <<pages, pageCnt, savedCnt, groups, nextXid, running, wild>>

\* CurrentReadVersion: one step along the chain of versions.
CurrentReadVersion(w) ==
  /\ At(w, "walk")
  /\ Visit(w, s[w].pos.page)
  /\ wild' = Overdrawn(pages[s[w].pos.page])
  /\ s' = Older(w, pages[s[w].pos.page].items[s[w].pos.item].ver)
  /\ UNCHANGED <<pages, pageCnt, savedCnt, groups, nextXid, running>>

\* The condition holds for the row or not; FormNewRowsPos copies the entries, without a lock.
RowMatches(w) ==
  /\ At(w, "found")
  /\ s' = [s EXCEPT ![w].pc = IF s[w].op = "update" THEN "first" ELSE "delete",
                    ![w].at = [k \in DOMAIN s[w].cols |->
                                 LET item == pages[groups[s[w].g][s[w].cols[k]]].items[s[w].i]
                                 IN  [place |-> item.place, moved |-> item.moved]]]
  /\ UNCHANGED <<pages, pageCnt, savedCnt, groups, locks, nextXid, running, wild>>

RowDiffers(w) ==
  /\ At(w, "found")
  /\ s' = NextRow(w)
  /\ UNCHANGED <<pages, pageCnt, savedCnt, groups, locks, nextXid, running, wild>>

-----------------------------------------------------------------------------
(* pax_ExecUpdate and pax_ExecDelete, one column after the other *)

NextColumn(w, pc) ==
  IF s[w].c < Len(s[w].cols) THEN [s EXCEPT ![w].pc = pc, ![w].c = @ + 1] ELSE NextRow(w)

Old(w) == s[w].old[s[w].c]
Entry(w) == s[w].at[s[w].c]

\* The copy of the old row needs room for all its columns, a new value for itself.
OldRowSize(w) ==
  LET sum[n \in 0..Len(s[w].old)] == IF n = 0 THEN 0 ELSE sum[n - 1] + s[w].old[n].size
  IN  sum[Len(s[w].old)]
UndoSize(w) == ItemSize + OldRowSize(w)
NewSize(w)  == ItemSize + s[w].sizes[s[w].c]
Needed(w)   == IF s[w].kind = "undo" THEN UndoSize(w) ELSE NewSize(w)

\* TupleUpdateSatisfy: every transaction counts as committed.
TupleUpdateSatisfy(v) == v.tmin # INVALID_XTID /\ v.tmax = INVALID_XTID

\* GetSpaceSpecifyPage for an undo page: the origin page stays locked.  A row larger than a page
\* ends the statement.
LockFirstPage(w) ==
  /\ At(w, "first")
  /\ \/ /\ Oversize(UndoSize(w))
        /\ s' = [s EXCEPT ![w].pc = "end"]
        /\ UNCHANGED locks
     \/ /\ ~Oversize(UndoSize(w))
        /\ LockPage(w, Origin(w), WRITE)
        /\ s' = [s EXCEPT ![w].kind = "undo", ![w].num = 1,
                          ![w].pc = IF pages[Origin(w)].undo = INVALID_PAGE_NUM THEN "startext" ELSE "chain"]
  /\ UNCHANGED <<pages, pageCnt, savedCnt, groups, nextXid, running, wild>>

\* The answer of GetSpaceSpecifyPage.
GotPage(w, p) ==
  IF s[w].kind = "undo" THEN [s EXCEPT ![w].pc = "origin", ![w].undo = p]
  ELSE [s EXCEPT ![w].pc = "newrow", ![w].new = p]

\* The first page of the chain has room, or the table is extended: the others are not tried.
LockChainPage(w) ==
  LET p == ChainHead(pages[Origin(w)], s[w].kind)
  IN  /\ At(w, "chain")
      /\ \/ /\ HasFreeSpace(pages[p], Needed(w))
            /\ LockFor(w, p, <<p, Origin(w)>>)
            /\ s' = GotPage(w, p)
         \/ /\ ~HasFreeSpace(pages[p], Needed(w))
            /\ LockFor(w, p, <<p>>)
            /\ s' = [s EXCEPT ![w].pc = "startext"]
      /\ UNCHANGED <<pages, pageCnt, savedCnt, groups, nextXid, running, wild>>

\* The new page becomes the head of the chain.  When it cannot be read back the origin page
\* keeps the lock of GetSpaceSpecifyPage.
LinkPage(w) ==
  /\ At(w, "extend") /\ s[w].op = "update" /\ s[w].num = 0
  /\ UpdateMetaData
  /\ \/ /\ s[w].last \in PageNos
        /\ pages' = Chained(pages, Origin(w), s[w].last, s[w].kind)
        /\ LockFor(w, s[w].last, <<s[w].last, ExtLock, Origin(w)>>)
        /\ s' = GotPage(w, s[w].last)
     \/ /\ s[w].last \notin PageNos
        /\ UnLockPages(w, IF s[w].kind = "undo" THEN <<ExtLock>>
                          ELSE <<ExtLock, s[w].undo, Origin(w)>>)
        /\ s' = [s EXCEPT ![w].pc = "end"]
        /\ UNCHANGED pages
  /\ UNCHANGED <<pageCnt, groups, nextXid, running, wild>>

\* Mutant: the undo page is locked before the page whose chain it belongs to.
LockOrigin_UndoFirst(w) ==
  /\ At(w, "origin")
  /\ IF SearchLocalLockTable(locks.tab[w], s[w].undo) = 0
     THEN LockPage(w, s[w].undo, WRITE) /\ UNCHANGED s
     ELSE LockPage(w, Origin(w), WRITE) /\ s' = [s EXCEPT ![w].pc = "undo"]
  /\ UNCHANGED <<pages, pageCnt, savedCnt, groups, nextXid, running, wild>>

LockOrigin(w) ==
  /\ At(w, "origin")
  /\ LockPage(w, Origin(w), WRITE)
  /\ s' = [s EXCEPT ![w].pc = "undo"]
  /\ UNCHANGED <<pages, pageCnt, savedCnt, groups, nextXid, running, wild>>

\* The version that was scanned decides whether the row may be changed.
LockUndo(w) ==
  /\ At(w, "undo")
  /\ \/ /\ TupleUpdateSatisfy(Old(w))
        /\ LockPage(w, s[w].undo, WRITE)
        /\ s' = [s EXCEPT ![w].pc = "move"]
     \/ /\ ~TupleUpdateSatisfy(Old(w))
        /\ LockFor(w, s[w].undo, <<s[w].undo, Origin(w)>>)
        /\ s' = [s EXCEPT ![w].pc = "end"]
  /\ UNCHANGED <<pages, pageCnt, savedCnt, groups, nextXid, running, wild>>

\* Mutant: the copy of the old row is not ended.
MoveOld_NotEnded(w) ==
  LET page == WriteRowOnePage(pages[s[w].undo], Old(w))
  IN  /\ At(w, "move")
      /\ pages' = [pages EXCEPT ![s[w].undo] = page]
      /\ wild' = Underruns(pages[s[w].undo], Old(w).size)
      /\ s' = [s EXCEPT ![w].pc = IF s[w].sizes[s[w].c] <= Old(w).size THEN "inplace" ELSE "grow",
                        ![w].upos = [page |-> s[w].undo, item |-> Len(page.items)]]
      /\ UNCHANGED <<pageCnt, savedCnt, groups, locks, nextXid, running>>

\* The old version goes to the undo page.  Its room was found before the page was given back and
\* locked again: another statement may have taken it, then the page is overdrawn.
MoveOld(w) ==
  LET page == WriteRowOnePage(pages[s[w].undo], Ended(Old(w), s[w].xid))
  IN  /\ At(w, "move")
      /\ pages' = [pages EXCEPT ![s[w].undo] = page]
      /\ wild' = Underruns(pages[s[w].undo], Old(w).size)
      /\ s' = [s EXCEPT ![w].pc = IF s[w].sizes[s[w].c] <= Old(w).size THEN "inplace" ELSE "grow",
                        ![w].upos = [page |-> s[w].undo, item |-> Len(page.items)]]
      /\ UNCHANGED <<pageCnt, savedCnt, groups, locks, nextXid, running>>

Changed(w) == NewVersion(Old(w).row, s[w].sizes[s[w].c], s[w].xid, s[w].upos)

\* WriteRowDataOnly: the copy of an entry that points to another page is no place to write.
WriteInPlace(w) ==
  /\ At(w, "inplace")
  /\ wild' = Entry(w).moved
  /\ pages' = [pages EXCEPT ![Origin(w)] = ReplaceRowData(@, s[w].i, Entry(w).place, Changed(w))]
  /\ UnLockPages(w, <<s[w].undo, Origin(w)>>)
  /\ s' = NextColumn(w, "first")
  /\ UNCHANGED <<pageCnt, savedCnt, groups, nextXid, running>>

\* GetSpaceSpecifyPage for the larger value: elsewhere in the origin page, which is unlocked
\* twice then, or in the chain of extension pages.  A value larger than a page ends the
\* statement: the old version has been copied by then, the columns before have been changed.
Grow(w) ==
  LET p == Origin(w)
  IN  /\ At(w, "grow")
      /\ \/ /\ Oversize(NewSize(w))
            /\ UnLockPages(w, <<s[w].undo, p>>)
            /\ s' = [s EXCEPT ![w].pc = "end"]
            /\ UNCHANGED pages
         \/ /\ ~Oversize(NewSize(w))
            /\ HasFreeSpace(pages[p], NewSize(w))
            /\ pages' = [pages EXCEPT ![p] = Relocated(@, s[w].i, Changed(w))]
            /\ LockFor(w, p, <<p, p, s[w].undo, p>>)
            /\ s' = NextColumn(w, "first")
         \/ /\ ~Oversize(NewSize(w))
            /\ ~HasFreeSpace(pages[p], NewSize(w))
            /\ LockPage(w, p, WRITE)
            /\ s' = [s EXCEPT ![w].kind = "ext", ![w].num = 1,
                              ![w].pc = IF pages[p].ext = INVALID_PAGE_NUM THEN "startext" ELSE "chain"]
            /\ UNCHANGED pages
      /\ UNCHANGED <<pageCnt, savedCnt, groups, nextXid, running, wild>>

\* The row goes to the extension page, its entry points there; that page is unlocked twice.
WriteNewRow(w) ==
  /\ At(w, "newrow")
  /\ LockFor(w, s[w].new, <<s[w].new, s[w].new, s[w].undo, Origin(w)>>)
  /\ pages' = [pages EXCEPT ![s[w].new]   = WriteRowOnePage(@, Changed(w)),
                            ![Origin(w)]  = Redirected(@, s[w].i)]
  /\ s' = NextColumn(w, "first")
  /\ UNCHANGED <<pageCnt, savedCnt, groups, nextXid, running, wild>>

\* pax_ExecDelete: the version that was scanned is written back with its end.
LockForDelete(w) ==
  /\ At(w, "delete")
  /\ \/ /\ TupleUpdateSatisfy(Old(w))
        /\ LockPage(w, Origin(w), WRITE)
        /\ s' = [s EXCEPT ![w].pc = "remove"]
     \/ /\ ~TupleUpdateSatisfy(Old(w))
        /\ LockFor(w, Origin(w), <<Origin(w)>>)
        /\ s' = [s EXCEPT ![w].pc = "end"]
  /\ UNCHANGED <<pages, pageCnt, savedCnt, groups, nextXid, running, wild>>

\* Mutant: the page of a column stays locked.
Remove_Locked(w) ==
  /\ At(w, "remove")
  /\ wild' = Entry(w).moved
  /\ pages' = [pages EXCEPT ![Origin(w)] =
                 ReplaceRowData(@, s[w].i, Entry(w).place, Ended(Old(w), s[w].xid))]
  /\ s' = NextColumn(w, "delete")
  /\ UNCHANGED <<pageCnt, savedCnt, groups, locks, nextXid, running>>

Remove(w) ==
  /\ At(w, "remove")
  /\ wild' = Entry(w).moved
  /\ pages' = [pages EXCEPT ![Origin(w)] =
                 ReplaceRowData(@, s[w].i, Entry(w).place, Ended(Old(w), s[w].xid))]
  /\ UnLockPages(w, <<Origin(w)>>)
  /\ s' = NextColumn(w, "delete")
  /\ UNCHANGED <<pageCnt, savedCnt, groups, nextXid, running>>

-----------------------------------------------------------------------------
Insert(w) ==
  \/ StartInsert(w) \/ NextGroup(w) \/ MemberPage(w) \/ LockGroupPages(w)
  \/ FreeSpaceCheck(w) \/ WriteColumn(w) \/ InsertGroupItem(w)

Extension(w) == StartExtensionTbl(w) \/ AddPage(w)

Scan(w) ==
  \/ ScanGroup(w) \/ ScanColumn(w) \/ CurrentReadVersion(w) \/ RowMatches(w) \/ RowDiffers(w)

Update(w) ==
  \/ StartUpdate(w) \/ LockFirstPage(w) \/ LockChainPage(w) \/ LinkPage(w) \/ LockOrigin(w)
  \/ LockUndo(w) \/ MoveOld(w) \/ WriteInPlace(w) \/ Grow(w) \/ WriteNewRow(w)

Delete(w) == StartDelete(w) \/ LockForDelete(w) \/ Remove(w)

Next == \E w \in Workers :
  Insert(w) \/ Extension(w) \/ Scan(w) \/ Update(w) \/ Delete(w) \/ EndStatement(w)

Spec == Init /\ [][Next]_vars

-----------------------------------------------------------------------------
(* Properties *)

Xids      == {INVALID_XTID} \cup 1..MaxStatements
Positions == [page : {INVALID_PAGE_NUM} \cup PageNos, item : Nat]
Versions  == [row : Xids, size : Nat, tmin : Xids, tmax : Xids, undo : Positions]

\* Types of the state.
TypeOK ==
  /\ \A p \in PageNos :
       /\ pages[p].type \in {"none", "data", "ext", "undo"}
       /\ pages[p].ext \in {INVALID_PAGE_NUM} \cup PageNos
       /\ pages[p].undo \in {INVALID_PAGE_NUM} \cup PageNos
       /\ pages[p].free \in Int
       /\ \A i \in DOMAIN pages[p].items : pages[p].items[i].ver \in Versions
  /\ pageCnt \in Nat /\ savedCnt \in Nat
  /\ groups \in Seq([Cols -> PageNos])
  /\ \A w \in Workers :
       /\ Len(locks.tab[w]) <= MaxLocalLocks
       /\ \A i \in DOMAIN locks.tab[w] :
            locks.tab[w][i] \in [lock : Locks, mode : {READ, WRITE}, cnt : Nat \ {0}]
  /\ \A l \in Locks : locks.rw[l] \in [writer : Workers \cup {NoThread}, readers : Int]
  /\ nextXid \in 1..(MaxStatements + 1)
  /\ running \subseteq Xids
  /\ wild \in BOOLEAN

Holds(w, l) == \E i \in DOMAIN locks.tab[w] : locks.tab[w][i].lock = l

\* The columns of a row stay together (InsertRowDataWithGroup): entry i of every page of a group
\* belongs to one row, and only an insert that holds all the pages may be ahead in some.
RowsAligned ==
  ~wild => \A g \in DOMAIN groups : \A c, d \in Cols :
    LET a == pages[groups[g][c]].items
        b == pages[groups[g][d]].items
    IN  /\ \A i \in DOMAIN a \cap DOMAIN b : a[i].ver.row = b[i].ver.row
        /\ Len(a) # Len(b) =>
             \E w \in Workers : s[w].pc = "write" /\ \A e \in Cols : Holds(w, groups[g][e])

\* No row is written past the room of a data page or of an extension page, however many workers
\* found room there before one of them locked it (FreeSpaceCheck, GetSpaceSpecifyPage).  Of undo
\* pages this is not true, see MoveOld.
DataPagesFit ==
  ~wild => \A p \in PageNos : pages[p].type \in {"data", "ext"} => pages[p].free >= 0

\* The places that refer to a page: a column of a group, the head or the next page of a chain.
References(p) ==
  {<<"group", g, c>> : g \in {h \in DOMAIN groups : \E c \in Cols : groups[h][c] = p},
                       c \in {d \in Cols : \E h \in DOMAIN groups : groups[h][d] = p}}
  \cup {<<"undo", q, 0>> : q \in {r \in PageNos : pages[r].undo = p}}
  \cup {<<"ext", q, 0>> : q \in {r \in PageNos : pages[r].ext = p}}

\* A page of the file has one use (ExtensionTbl, InsertGroupItem, GetSpaceSpecifyPage): it is
\* in one group or in one chain, in the one its type says, and the header page counts it, so
\* that a server started again on the file does not hand it out a second time.
PagesAccounted ==
  ~wild => \A p \in PageNos :
    /\ Cardinality(References(p)) <= 1
    /\ References(p) # {} => p <= savedCnt
    /\ \A r \in References(p) : pages[p].type = (IF r[1] = "group" THEN "data" ELSE r[1])

\* From every version the chain of undo positions leads to an older version of the same row that
\* ended when the newer one began (pax_ExecUpdate, CurrentReadVersion), as long as the page that
\* holds the older version has not been overdrawn.  Without that condition it is false: two
\* updates find room for one row on an undo page, both write, and the first copy is lost.
VersionChain ==
  ~wild => \A p \in PageNos : \A i \in DOMAIN pages[p].items :
    LET v == pages[p].items[i].ver
        u == v.undo
    IN  u # NoPosition /\ ~Overdrawn(pages[p]) /\ ~Overdrawn(pages[u.page]) =>
          /\ pages[u.page].type = "undo"
          /\ u.item \in DOMAIN pages[u.page].items
          /\ LET o == pages[u.page].items[u.item].ver
             IN  o.row = v.row /\ o.tmin < v.tmin /\ o.tmax = v.tmin

\* Between statements a worker holds no lock, in its own table or in a pthread lock, as long as
\* the disk has not run full: the paths of pax_ExecInsert, pax_ExecUpdate and pax_ExecDelete
\* give back what they took, the ones that unlock a page twice included.
IdleHoldsNoLock ==
  \A w \in Workers :
    s[w].pc = "idle" /\ pageCnt <= MaxPages =>
      locks.tab[w] = << >> /\ \A l \in Locks : locks.rw[l].writer # w

\* The lock a worker takes next, and how.
Wanted(w) ==
  CASE s[w].pc = "member"    -> <<groups[s[w].g][s[w].c], READ>>
    [] s[w].pc = "column"    -> <<Origin(w), READ>>
    [] s[w].pc = "walk"      -> <<s[w].pos.page, READ>>
    [] s[w].pc = "lockgroup" -> <<s[w].plist[s[w].c], WRITE>>
    [] s[w].pc = "startext"  -> <<ExtLock, WRITE>>
    [] s[w].pc \in {"first", "origin", "delete"} -> <<Origin(w), WRITE>>
    [] s[w].pc = "chain"     -> <<ChainHead(pages[Origin(w)], s[w].kind), WRITE>>
    [] s[w].pc = "undo"      -> <<s[w].undo, WRITE>>
    [] s[w].pc = "newrow"    -> <<s[w].new, WRITE>>
    [] OTHER                 -> << >>

\* The workers that w waits for.
WaitsFor(w) ==
  IF Wanted(w) = << >> THEN {}
  ELSE IF CanAcquire(locks, w, Wanted(w)[1], Wanted(w)[2]) THEN {}
  ELSE {v \in Workers \ {w} : Holds(v, Wanted(w)[1])}

\* The order in which pages and the extension lock are taken (GetSpaceSpecifyPage,
\* LockGroupPages, pax_ExecUpdate) lets no workers wait for each other in a circle.
NoCircularWait ==
  LET Path[n \in 0..Cardinality(Workers)] ==   \* whom n waits lead to
        [w \in Workers |-> IF n = 0 THEN {w} ELSE UNION {Path[n - 1][v] : v \in WaitsFor(w)}]
  IN  \A n \in 1..Cardinality(Workers), w \in Workers : w \notin Path[n][w]

\* The version that TupleUpdateSatisfy has judged is the latest one of the row.
JudgedIsLatest ==
  \A w \in Workers :
    s[w].pc \in {"move", "remove"} =>
      LET item == pages[Origin(w)].items[s[w].i]
      IN  ~item.moved /\ item.ver = Old(w)
=============================================================================

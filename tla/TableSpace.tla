----------------------------- MODULE TableSpace -----------------------------
(***************************************************************************)
(* The pages of a table (sqlcore/storage/buffer/buffer.c, tables.c).  A    *)
(* table stores its columns apart: a group has one data page per column,   *)
(* and entry i of each of them belongs to the same row.  A data page heads *)
(* a chain of extension pages, for rows that have outgrown it, and a chain *)
(* of undo pages, for the older versions of its rows.                      *)
(*                                                                         *)
(* Sizes are counted in units of an item pointer.  The buffer pool is not  *)
(* part of this module: a page that exists can be read, see BufferPool.    *)
(***************************************************************************)
EXTENDS Integers, Sequences, FiniteSets

CONSTANTS
  NumCols,        \* columns of the table
  PageRoom,       \* room of an empty page
  MaxPages        \* the last page the disk has room for

ASSUME TableSpaceAssumption ==
  /\ NumCols \in Nat \ {0}
  /\ PageRoom \in Nat \ {0}
  /\ MaxPages \in Nat

Cols     == 1..NumCols
INVALID_PAGE_NUM   == 0
PAGE_HEAD_PAGE_NUM == 1
PageNos  == (PAGE_HEAD_PAGE_NUM + 1)..MaxPages
ItemSize == 1                 \* sizeof(ItemData)
RowHead  == 1                 \* sizeof(TableRowData)
INVALID_XTID == -1

\* Where a version lies: page and entry.
NoPosition == [page |-> INVALID_PAGE_NUM, item |-> 0]

\* A version of one column of a row.  The row is named by the transaction that inserted it.
NewVersion(row, size, xid, undo) ==
  [row |-> row, size |-> size, tmin |-> xid, tmax |-> INVALID_XTID, undo |-> undo]

\* ComputeXmaxTupleHeader on the version that is replaced or deleted.
Ended(version, xid) == [version EXCEPT !.tmax = xid]

NoPage == [type |-> "none", ext |-> INVALID_PAGE_NUM, undo |-> INVALID_PAGE_NUM,
           items |-> << >>, free |-> PageRoom]

InitPage == [NoPage EXCEPT !.type = "data"]

HasFreeSpace(page, size) == size < page.free

\* A size that GetSpaceSpecifyPage refuses before it looks at a page.
Oversize(size) == size >= PageRoom

\* InsertRowData and InsertItemData: the row goes to the end of the free room, its entry to
\* the front.  An entry knows its place by the number of times the row has moved.
WriteRowOnePage(page, version) ==
  [page EXCEPT !.items = Append(@, [place |-> 0, moved |-> FALSE, ver |-> version]),
               !.free  = @ - (version.size + ItemSize)]

\* A row that was written without room lies over entries of its page or over other rows: what is
\* read from such a page may be anything.
Overdrawn(page) == page.free < 0

\* The row would begin before the entries of its page.
Underruns(page, size) == page.free + Len(page.items) * ItemSize < size

\* ReplaceRowData writes where the caller's copy of the entry says; when the row has gone
\* elsewhere since, the bytes there belong to nobody.
ReplaceRowData(page, i, place, version) ==
  IF page.items[i].place = place THEN [page EXCEPT !.items[i].ver = version] ELSE page

\* A larger version in the same page takes new room there.
Relocated(page, i, version) ==
  [page EXCEPT !.items[i].place = @ + 1, !.items[i].ver = version,
               !.free = @ - (version.size + ItemSize)]

\* The entry of a row that went to an extension page.
Redirected(page, i) ==
  [page EXCEPT !.items[i].place = @ + 1, !.items[i].moved = TRUE]

\* The head of the chain of a kind.
ChainHead(page, kind) == IF kind = "undo" THEN page.undo ELSE page.ext

\* The tail of GetSpaceSpecifyPage: a new page becomes the head of the chain.
Chained(pages, first, new, kind) ==
  [pages EXCEPT ![new].type = kind,
                ![new].undo = IF kind = "undo" THEN pages[first].undo ELSE @,
                ![new].ext  = IF kind = "ext"  THEN pages[first].ext  ELSE @,
                ![first].undo = IF kind = "undo" THEN new ELSE @,
                ![first].ext  = IF kind = "ext"  THEN new ELSE @]

\* InsertGroupItem: the columns of a new group are the last pages of the file.
MemberPages(last) == [c \in Cols |-> last - NumCols + c]
=============================================================================

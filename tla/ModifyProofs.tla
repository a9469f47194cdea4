----------------------------- MODULE ModifyProofs -----------------------------
(***************************************************************************)
(* Theorems about Modify.  The predicates below take the pages, the groups *)
(* and the record of a worker as arguments, so that the lemmas about them  *)
(* hold for the state before a step and after it.                          *)
(***************************************************************************)
EXTENDS Modify, LocalLockProofs, FiniteSetTheorems, TLAPS

USE DEF INVALID_PAGE_NUM, PAGE_HEAD_PAGE_NUM, ItemSize

-----------------------------------------------------------------------------
(* Types *)

InsertPcs == {"group", "member", "lockgroup", "check", "write"}
ScanPcs   == {"scan", "column", "walk", "found"}
UpdatePcs == {"first", "chain", "origin", "undo", "move", "inplace", "grow", "newrow"}
DeletePcs == {"delete", "remove"}
ExtPcs    == {"startext", "extend"}
Pcs == {"idle", "end"} \cup InsertPcs \cup ScanPcs \cup UpdatePcs \cup DeletePcs \cup ExtPcs
Ops == {"none", "insert", "update", "delete"}

PageOrNone == {INVALID_PAGE_NUM} \cup PageNos
Entries    == [place : Nat, moved : BOOLEAN]
Items      == [place : Nat, moved : BOOLEAN, ver : Versions]
Pages      == [type : {"none", "data", "ext", "undo"}, ext : PageOrNone, undo : PageOrNone,
               items : Seq(Items), free : Int]
Files      == [PageNos -> Pages]
Groups     == Seq([Cols -> PageNos])
Locals ==
  [pc : Pcs, op : Ops, xid : Xids, high : Nat, active : SUBSET Xids,
   cols : Seq(Cols), sizes : Seq(Nat), g : Nat, i : Nat, c : Nat \ {0}, plist : Seq(PageNos),
   skip : BOOLEAN, pos : Positions, old : Seq(Versions), at : Seq(Entries),
   kind : {"undo", "ext"}, num : Nat, last : Nat,
   undo : PageOrNone, new : PageOrNone, upos : Positions]

Types ==
  /\ pages \in Files
  /\ pageCnt \in Nat \ {0} /\ savedCnt \in 1..pageCnt
  /\ groups \in Groups
  /\ locks \in LockStates(Workers, Locks)
  /\ nextXid \in 1..(MaxStatements + 1)
  /\ running \in SUBSET (1..(nextXid - 1))
  /\ wild \in BOOLEAN
  /\ s \in [Workers -> Locals]

-----------------------------------------------------------------------------
(* What a worker may rely on, by the place it has reached *)

Updating(r) == r.op = "update" /\ r.pc \in UpdatePcs \cup ExtPcs
Changing(r) == Updating(r) \/ r.pc \in DeletePcs
Reading(r)  == r.pc \in {"column", "walk", "found"}
Second(r)   == r.kind = "ext" /\ r.pc \in {"chain"} \cup ExtPcs
HasUndo(r)  == Updating(r) /\ (Second(r) \/ r.pc \in {"origin", "undo", "move", "inplace", "grow", "newrow"})
HasCopy(r)  == Updating(r) /\ (Second(r) \/ r.pc \in {"inplace", "grow", "newrow"})
Col(G, r, k) == G[r.g][r.cols[k]]
Batch(r)     == IF r.op = "insert" THEN NumCols ELSE 1

Statement(r) ==
  r.pc # "idle" =>
    /\ r.op # "none" /\ r.xid \in 1..MaxStatements /\ r.high = r.xid
    /\ r.c \in 1..Len(r.cols) /\ Len(r.sizes) = Len(r.cols)
    /\ r.op = "insert" => Len(r.cols) = NumCols
    /\ r.pc \in InsertPcs => r.op = "insert"
    /\ r.pc \in ScanPcs => r.op \in {"update", "delete"}
    /\ r.pc \in UpdatePcs => r.op = "update"
    /\ r.pc \in DeletePcs => r.op = "delete"
    /\ r.pc \in ExtPcs => r.op \in {"insert", "update"}
    /\ r.pc \in {"startext", "chain"} => r.num = Batch(r)
    /\ r.pc = "extend" => r.num <= Batch(r)

Inserting(G, r) ==
  /\ r.op = "insert" /\ r.pc \in {"group"} \cup ExtPcs => r.c = 1 /\ r.plist = << >>
  /\ r.pc \in {"member", "lockgroup", "check", "write"} =>
       /\ r.g \in 1..Len(G)
       /\ Len(r.plist) = IF r.pc = "member" THEN r.c - 1 ELSE NumCols
       /\ \A k \in 1..Len(r.plist) : r.plist[k] = G[r.g][k]
  /\ r.pc = "check" => r.c = 1

RowAt(P, G, r) ==
  Reading(r) \/ Changing(r) =>
    /\ r.g \in 1..Len(G) /\ r.i > 0
    /\ \A k \in 1..Len(r.cols) :
         k < r.c \/ (k = r.c /\ r.pc # "column") \/ r.pc = "found" \/ Changing(r) =>
           r.i <= Len(P[Col(G, r, k)].items)

\* A position of the file, and a version whose older version has one.
InPage(P, u)   == u.page \in PageNos /\ u.item \in 1..Len(P[u.page].items)
LinkedIn(P, v) == v.undo # NoPosition => InPage(P, v.undo)

Scanned(P, G, r) ==
  /\ r.pc = "column" => r.skip \/ Len(r.old) = r.c - 1
  /\ r.pc = "walk" => Len(r.old) = r.c - 1 /\ InPage(P, r.pos)
  /\ r.pc = "found" \/ Changing(r) => Len(r.old) = Len(r.cols)
  /\ Changing(r) => Len(r.at) = Len(r.cols)
  /\ \A k \in 1..Len(r.old) : LinkedIn(P, r.old[k])
  /\ HasUndo(r) => r.undo \in PageNos
  /\ HasCopy(r) => r.upos.page = r.undo /\ InPage(P, r.upos)
  /\ r.pc = "chain" => ChainHead(P[Col(G, r, r.c)], r.kind) # INVALID_PAGE_NUM
  /\ r.pc = "newrow" => r.new \in PageNos

Shape(P, G, r) == Statement(r) /\ Inserting(G, r) /\ RowAt(P, G, r) /\ Scanned(P, G, r)

AllLinked(P) == \A p \in PageNos : \A i \in 1..Len(P[p].items) : LinkedIn(P, P[p].items[i].ver)

Shapes == AllLinked(pages) /\ \A w \in Workers : Shape(pages, groups, s[w])

-----------------------------------------------------------------------------
(* The file only grows *)

Grows(P, Q) ==
  \A p \in PageNos :
    /\ Len(P[p].items) <= Len(Q[p].items)
    /\ P[p].undo # INVALID_PAGE_NUM => Q[p].undo # INVALID_PAGE_NUM
    /\ P[p].ext # INVALID_PAGE_NUM => Q[p].ext # INVALID_PAGE_NUM

Extends(G, H) == Len(G) <= Len(H) /\ \A g \in 1..Len(G) : H[g] = G[g]

LEMMA GrowsSame ==
  ASSUME NEW P \in Files
  PROVE  Grows(P, P)
  BY DEF Grows, Files, Pages

LEMMA ExtendsSame ==
  ASSUME NEW G \in Groups
  PROVE  Extends(G, G)
  BY DEF Extends, Groups

LEMMA LocalFields ==
  ASSUME NEW r \in Locals
  PROVE  /\ r.cols \in Seq(Cols) /\ r.sizes \in Seq(Nat) /\ r.plist \in Seq(PageNos)
         /\ r.old \in Seq(Versions) /\ r.at \in Seq(Entries)
         /\ r.g \in Nat /\ r.i \in Nat /\ r.c \in Nat \ {0} /\ r.num \in Nat /\ r.last \in Nat
         /\ r.pc \in Pcs /\ r.op \in Ops /\ r.kind \in {"undo", "ext"} /\ r.xid \in Xids
         /\ r.undo \in PageOrNone /\ r.new \in PageOrNone
         /\ r.pos \in Positions /\ r.upos \in Positions
  BY DEF Locals

LEMMA ColIs ==
  ASSUME NEW G \in Groups, NEW r \in Locals, r.g \in 1..Len(G), NEW k \in 1..Len(r.cols)
  PROVE  Col(G, r, k) \in PageNos
<1>1. r.cols[k] \in Cols
  BY LocalFields
<1>2. G[r.g] \in [Cols -> PageNos]
  BY DEF Groups
<1> QED
  BY <1>1, <1>2 DEF Col

LEMMA InPageGrows ==
  ASSUME NEW P \in Files, NEW Q \in Files, Grows(P, Q), NEW u, InPage(P, u)
  PROVE  InPage(Q, u)
<1>1. Len(P[u.page].items) <= Len(Q[u.page].items)
  BY DEF Grows, InPage
<1>2. Len(P[u.page].items) \in Nat /\ Len(Q[u.page].items) \in Nat
  BY DEF InPage, Files, Pages
<1> QED
  BY <1>1, <1>2 DEF InPage

LEMMA LinkedGrows ==
  ASSUME NEW P \in Files, NEW Q \in Files, Grows(P, Q), NEW v, LinkedIn(P, v)
  PROVE  LinkedIn(Q, v)
  BY InPageGrows DEF LinkedIn

\* What a worker relies on stays true while the others work.
LEMMA ShapeGrows ==
  ASSUME NEW P \in Files, NEW Q \in Files, Grows(P, Q), NEW G \in Groups, NEW H \in Groups, Extends(G, H),
         NEW r \in Locals, Shape(P, G, r)
  PROVE  Shape(Q, H, r)
<1>1. /\ r.cols \in Seq(Cols) /\ r.plist \in Seq(PageNos) /\ Len(r.cols) \in Nat /\ Len(r.plist) \in Nat
      /\ Len(G) \in Nat /\ Len(H) \in Nat /\ Len(G) <= Len(H) /\ r.g \in Nat /\ r.old \in Seq(Versions)
      /\ Len(r.old) \in Nat /\ r.c \in Nat
  BY LocalFields DEF Extends, Groups
<1>2. Statement(r)
  BY DEF Shape
<1>3. Inserting(H, r)
  <2>1. Inserting(G, r)
    BY DEF Shape
  <2>2. r.g \in 1..Len(G) => r.g \in 1..Len(H) /\ H[r.g] = G[r.g]
    BY <1>1 DEF Extends
  <2> QED
    BY <2>1, <2>2 DEF Inserting
<1>4. ASSUME r.g \in 1..Len(G), NEW k \in 1..Len(r.cols)
      PROVE  /\ Col(H, r, k) = Col(G, r, k) /\ Col(G, r, k) \in PageNos /\ r.g \in 1..Len(H)
             /\ Len(P[Col(G, r, k)].items) <= Len(Q[Col(G, r, k)].items)
             /\ Len(P[Col(G, r, k)].items) \in Nat /\ Len(Q[Col(G, r, k)].items) \in Nat
  <2>1. Col(H, r, k) = Col(G, r, k) /\ r.g \in 1..Len(H)
    BY <1>1, <1>4 DEF Col, Extends
  <2>2. Col(G, r, k) \in PageNos
    BY <1>4, ColIs
  <2>3. P[Col(G, r, k)].items \in Seq(Items) /\ Q[Col(G, r, k)].items \in Seq(Items)
    BY <2>2 DEF Files, Pages
  <2> QED
    BY <2>1, <2>2, <2>3 DEF Grows
<1>5. RowAt(Q, H, r)
  <2> SUFFICES ASSUME Reading(r) \/ Changing(r)
               PROVE  /\ r.g \in 1..Len(H) /\ r.i > 0
                      /\ \A k \in 1..Len(r.cols) :
                           k < r.c \/ (k = r.c /\ r.pc # "column") \/ r.pc = "found" \/ Changing(r) =>
                             r.i <= Len(Q[Col(H, r, k)].items)
    BY DEF RowAt
  <2>1. /\ r.g \in 1..Len(G) /\ r.i > 0
        /\ \A k \in 1..Len(r.cols) :
             k < r.c \/ (k = r.c /\ r.pc # "column") \/ r.pc = "found" \/ Changing(r) =>
               r.i <= Len(P[Col(G, r, k)].items)
    BY DEF Shape, RowAt
  <2>2. r.i \in Nat
    BY LocalFields
  <2>3. r.g \in 1..Len(H)
    BY <1>1, <2>1
  <2>4. ASSUME NEW k \in 1..Len(r.cols),
               k < r.c \/ (k = r.c /\ r.pc # "column") \/ r.pc = "found" \/ Changing(r)
        PROVE  r.i <= Len(Q[Col(H, r, k)].items)
    <3>1. r.i <= Len(P[Col(G, r, k)].items)
      BY <2>1, <2>4
    <3> QED
      BY <1>4, <2>1, <2>2, <3>1
  <2> QED
    BY <2>1, <2>3, <2>4
<1>6. Scanned(Q, H, r)
  <2>1. Scanned(P, G, r)
    BY DEF Shape
  <2>2. \A k \in 1..Len(r.old) : LinkedIn(Q, r.old[k])
    BY <2>1, LinkedGrows DEF Scanned
  <2>3. r.pc = "chain" => ChainHead(Q[Col(H, r, r.c)], r.kind) # INVALID_PAGE_NUM
    <3> SUFFICES ASSUME r.pc = "chain"
                 PROVE  ChainHead(Q[Col(H, r, r.c)], r.kind) # INVALID_PAGE_NUM
      OBVIOUS
    <3>1. r.op = "update" /\ r.c \in 1..Len(r.cols)
      BY <1>2 DEF Statement, UpdatePcs
    <3>2. Changing(r)
      BY <3>1 DEF Changing, Updating, UpdatePcs
    <3>3. r.g \in 1..Len(G)
      BY <3>2 DEF Shape, RowAt
    <3>4. Col(H, r, r.c) = Col(G, r, r.c) /\ Col(G, r, r.c) \in PageNos
      BY <1>4, <3>1, <3>3
    <3>5. ChainHead(P[Col(G, r, r.c)], r.kind) # INVALID_PAGE_NUM
      BY <2>1 DEF Scanned
    <3> QED
      BY <3>4, <3>5 DEF ChainHead, Grows
  <2>4. r.pc = "walk" => InPage(Q, r.pos)
    BY <2>1, InPageGrows DEF Scanned
  <2>5. HasCopy(r) => InPage(Q, r.upos)
    BY <2>1, InPageGrows DEF Scanned
  <2> QED
    BY <2>1, <2>2, <2>3, <2>4, <2>5 DEF Scanned
<1> QED
  BY <1>2, <1>3, <1>5, <1>6 DEF Shape

-----------------------------------------------------------------------------
(* The operations on a page *)

LEMMA PageFields ==
  ASSUME NEW n \in Pages
  PROVE  /\ n.items \in Seq(Items) /\ Len(n.items) \in Nat /\ n.free \in Int
         /\ n.type \in {"none", "data", "ext", "undo"} /\ n.ext \in PageOrNone /\ n.undo \in PageOrNone
         /\ \A i \in 1..Len(n.items) : n.items[i] \in Items
  BY DEF Pages

\* The page keeps its type and its chains.
SameHead(m, n) == n \in Pages /\ n.type = m.type /\ n.ext = m.ext /\ n.undo = m.undo

Appended(m, n, v) ==
  /\ SameHead(m, n) /\ n.free = m.free - (v.size + ItemSize)
  /\ Len(n.items) = Len(m.items) + 1
  /\ \A i \in 1..Len(m.items) : n.items[i] = m.items[i]
  /\ n.items[Len(m.items) + 1] = [place |-> 0, moved |-> FALSE, ver |-> v]

LEMMA WriteRowIs ==
  ASSUME NEW m \in Pages, NEW v \in Versions
  PROVE  Appended(m, WriteRowOnePage(m, v), v)
<1> DEFINE e == [place |-> 0, moved |-> FALSE, ver |-> v]
           b == Append(m.items, e)
           f == m.free - (v.size + ItemSize)
           n == [m EXCEPT !.items = b, !.free = f]
<1>1. e \in Items
  BY DEF Items
<1>2. v.size \in Nat /\ m.free \in Int /\ m.items \in Seq(Items)
  BY DEF Versions, Pages
<1>3. b \in Seq(Items) /\ Len(b) = Len(m.items) + 1 /\ b[Len(m.items) + 1] = e
      /\ \A i \in 1..Len(m.items) : b[i] = m.items[i]
  BY <1>1, <1>2
<1>4. f \in Int
  BY <1>2
<1>5. WriteRowOnePage(m, v) = n
  BY DEF WriteRowOnePage
<1> HIDE DEF b, f, e
<1>6. n \in Pages /\ n.type = m.type /\ n.ext = m.ext /\ n.undo = m.undo /\ n.free = f /\ n.items = b
  BY <1>3, <1>4 DEF Pages
<1> QED
  BY <1>3, <1>5, <1>6 DEF Appended, SameHead, e, f

\* Entry i becomes x, the others stay.
Rewritten(m, n, i, x) ==
  /\ SameHead(m, n) /\ Len(n.items) = Len(m.items) /\ n.items[i] = x
  /\ \A j \in 1..Len(m.items) : j # i => n.items[j] = m.items[j]

Rewrite(m, i, x, f) == [m EXCEPT !.items = [@ EXCEPT ![i] = x], !.free = f]

LEMMA RewriteIs ==
  ASSUME NEW m \in Pages, NEW i \in 1..Len(m.items), NEW x \in Items, NEW f \in Int
  PROVE  Rewritten(m, Rewrite(m, i, x, f), i, x) /\ Rewrite(m, i, x, f).free = f
<1> DEFINE b == [m.items EXCEPT ![i] = x]
           n == [m EXCEPT !.items = b, !.free = f]
<1>1. m.items \in Seq(Items)
  BY DEF Pages
<1>2. b \in Seq(Items) /\ Len(b) = Len(m.items) /\ b[i] = x
      /\ \A j \in 1..Len(m.items) : j # i => b[j] = m.items[j]
  BY <1>1
<1> HIDE DEF b
<1>3. n \in Pages /\ n.type = m.type /\ n.ext = m.ext /\ n.undo = m.undo /\ n.free = f /\ n.items = b
  BY <1>2 DEF Pages
<1>4. n = Rewrite(m, i, x, f)
  BY DEF b, Rewrite
<1> QED
  BY <1>2, <1>3, <1>4 DEF Rewritten, SameHead

\* An entry with another version, place or mark.
WithVer(x, v)   == [x EXCEPT !.ver = v]
MovedTo(x, v)   == [x EXCEPT !.place = @ + 1, !.ver = v]
MovedAway(x)    == [x EXCEPT !.place = @ + 1, !.moved = TRUE]

LEMMA EntryIs ==
  ASSUME NEW x \in Items, NEW v \in Versions
  PROVE  /\ WithVer(x, v) \in Items /\ WithVer(x, v).ver = v
         /\ MovedTo(x, v) \in Items /\ MovedTo(x, v).ver = v
<1>1. x.place \in Nat /\ x.place + 1 \in Nat
  BY DEF Items
<1>2. WithVer(x, v) \in Items /\ WithVer(x, v).ver = v
  BY DEF Items, WithVer
<1>3. MovedTo(x, v) \in Items /\ MovedTo(x, v).ver = v
  BY <1>1 DEF Items, MovedTo
<1> QED
  BY <1>2, <1>3

LEMMA MovedAwayIs ==
  ASSUME NEW x \in Items
  PROVE  MovedAway(x) \in Items /\ MovedAway(x).ver = x.ver
<1>1. x.place \in Nat /\ x.place + 1 \in Nat
  BY DEF Items
<1> QED
  BY <1>1 DEF Items, MovedAway

LEMMA ReplaceIs ==
  ASSUME NEW m \in Pages, NEW i \in 1..Len(m.items), NEW place, NEW v \in Versions,
         NEW n, n = ReplaceRowData(m, i, place, v)
  PROVE  /\ SameHead(m, n) /\ n.free = m.free
         /\ n = m \/ Rewritten(m, n, i, WithVer(m.items[i], v))
<1>1. CASE m.items[i].place # place
  BY <1>1 DEF ReplaceRowData, SameHead
<1>2. CASE m.items[i].place = place
  <2> DEFINE x == WithVer(m.items[i], v)
             k == Rewrite(m, i, x, m.free)
  <2>1. m.items[i] \in Items /\ m.items \in Seq(Items) /\ m.free \in Int
    BY DEF Pages
  <2>2. x \in Items
    BY <2>1, EntryIs
  <2>3. Rewritten(m, k, i, x) /\ k.free = m.free
    BY <2>1, <2>2, RewriteIs
  <2>4. n = [m EXCEPT !.items[i].ver = v]
    BY <1>2 DEF ReplaceRowData
  <2>5. n = k
    BY <2>1, <2>4 DEF Pages, WithVer, Rewrite
  <2> QED
    BY <2>3, <2>5 DEF Rewritten
<1> QED
  BY <1>1, <1>2

LEMMA RelocateIs ==
  ASSUME NEW m \in Pages, NEW i \in 1..Len(m.items), NEW v \in Versions
  PROVE  /\ Rewritten(m, Relocated(m, i, v), i, MovedTo(m.items[i], v))
         /\ Relocated(m, i, v).free = m.free - (v.size + ItemSize)
<1> DEFINE x == MovedTo(m.items[i], v)
           f == m.free - (v.size + ItemSize)
           k == Rewrite(m, i, x, f)
<1>1. m.items[i] \in Items /\ m.items \in Seq(Items) /\ m.free \in Int /\ v.size \in Nat
  BY DEF Pages, Versions
<1>2. x \in Items
  BY <1>1, EntryIs
<1>5. f \in Int
  BY <1>1
<1> HIDE DEF x, f
<1>3. Rewritten(m, k, i, x) /\ k.free = f
  BY <1>2, <1>5, RewriteIs
<1>4. Relocated(m, i, v) = k
  BY <1>1 DEF Relocated, MovedTo, Pages, Rewrite, x, f
<1> QED
  BY <1>3, <1>4 DEF x, f

LEMMA RedirectIs ==
  ASSUME NEW m \in Pages, NEW i \in 1..Len(m.items)
  PROVE  /\ Rewritten(m, Redirected(m, i), i, MovedAway(m.items[i]))
         /\ Redirected(m, i).free = m.free
<1> DEFINE x == MovedAway(m.items[i])
           k == Rewrite(m, i, x, m.free)
<1>1. m.items[i] \in Items /\ m.items \in Seq(Items) /\ m.free \in Int
  BY DEF Pages
<1>2. x \in Items
  BY <1>1, MovedAwayIs
<1>3. Rewritten(m, k, i, x) /\ k.free = m.free
  BY <1>1, <1>2, RewriteIs
<1>4. Redirected(m, i) = k
  BY <1>1 DEF Redirected, MovedAway, Pages, Rewrite
<1> QED
  BY <1>3, <1>4

\* One page is replaced.
Puts(P, Q, p, n) == Q \in Files /\ Q[p] = n /\ \A q \in PageNos : q # p => Q[q] = P[q]

LEMMA PutIs ==
  ASSUME NEW P \in Files, NEW p \in PageNos, NEW n \in Pages, NEW Q, Q = [P EXCEPT ![p] = n]
  PROVE  Puts(P, Q, p, n)
  BY DEF Puts, Files

LEMMA PutGrows ==
  ASSUME NEW P \in Files, NEW p \in PageNos, NEW n \in Pages, NEW Q, Puts(P, Q, p, n),
         SameHead(P[p], n), Len(P[p].items) <= Len(n.items)
  PROVE  Q \in Files /\ Grows(P, Q)
<1>1. Q \in Files /\ Q[p] = n /\ \A q \in PageNos : q # p => Q[q] = P[q]
  BY DEF Puts
<1>2. \A q \in PageNos : Len(P[q].items) \in Nat
  BY DEF Files, Pages
<1> QED
  BY <1>1, <1>2 DEF Grows, SameHead

-----------------------------------------------------------------------------
(* The steps of a worker, on its record *)

\* Facts about the record of a worker at a place.
LEMMA InStatement ==
  ASSUME NEW r \in Locals, Statement(r), r.pc # "idle"
  PROVE  /\ r.op # "none" /\ r.xid \in 1..MaxStatements /\ r.high = r.xid
         /\ r.c \in 1..Len(r.cols) /\ Len(r.cols) \in Nat /\ Len(r.sizes) = Len(r.cols)
         /\ r.cols[r.c] \in Cols /\ r.sizes[r.c] \in Nat /\ r.c + 1 \in Nat \ {0}
         /\ r.c < Len(r.cols) => r.c + 1 \in 1..Len(r.cols)
         /\ 1 \in 1..Len(r.cols) /\ 1 \in Nat \ {0}
  BY DEF Statement, Locals

\* The columns and the place of the row stay.
SameRow(r, q) ==
  /\ q.op = r.op /\ q.xid = r.xid /\ q.high = r.high /\ q.cols = r.cols /\ q.sizes = r.sizes
  /\ q.g = r.g /\ q.i = r.i

SameInsert(r, q) ==
  /\ q.op = r.op /\ q.xid = r.xid /\ q.high = r.high /\ q.cols = r.cols /\ q.sizes = r.sizes
  /\ q.old = r.old

LEMMA InsertShape ==
  ASSUME NEW P, NEW G, NEW r \in Locals, NEW q \in Locals, Shape(P, G, r), r.pc # "idle", r.op = "insert",
         SameInsert(r, q), q.pc \in InsertPcs \cup ExtPcs \cup {"end"}, q.c \in 1..Len(q.cols),
         q.pc = "startext" => q.num = NumCols, q.pc = "extend" => q.num <= NumCols,
         Inserting(G, q)
  PROVE  Shape(P, G, q)
<1>1. Statement(q)
  BY DEF Shape, Statement, SameInsert, InsertPcs, ScanPcs, UpdatePcs, DeletePcs, ExtPcs, Batch
<1>2. ~Changing(q) /\ ~Reading(q) /\ ~HasUndo(q) /\ ~HasCopy(q)
  BY DEF SameInsert, Changing, Reading, HasUndo, HasCopy, Updating, InsertPcs, ExtPcs, DeletePcs
<1>3. RowAt(P, G, q)
  BY <1>2 DEF RowAt
<1>4. q.pc \notin {"column", "walk", "found", "chain", "newrow"}
  BY DEF InsertPcs, ExtPcs
<1>5. Scanned(P, G, q)
  BY <1>2, <1>4 DEF Shape, Scanned, SameInsert
<1> QED
  BY <1>1, <1>3, <1>5 DEF Shape

LEMMA NextGroupStep ==
  ASSUME NEW P \in Files, NEW G \in Groups, NEW r \in Locals, Shape(P, G, r), r.pc = "group", NEW q,
         q = IF r.g < Len(G) THEN [r EXCEPT !.pc = "member", !.g = @ + 1]
             ELSE [r EXCEPT !.pc = "startext", !.g = 0, !.num = NumCols]
  PROVE  q \in Locals /\ Shape(P, G, q)
<1>1. /\ r.op = "insert" /\ r.c = 1 /\ r.plist = << >> /\ r.c \in 1..Len(r.cols) /\ r.g \in Nat
      /\ Len(G) \in Nat
  BY DEF Shape, Statement, Inserting, InsertPcs, Locals, Groups
<1>2. CASE r.g < Len(G)
  <2>1. r.g + 1 \in 1..Len(G) /\ r.g + 1 \in Nat
    BY <1>1, <1>2
  <2>2. q \in Locals
    BY <1>2, <2>1 DEF Locals, Pcs, InsertPcs
  <2>3. SameInsert(r, q) /\ q.pc = "member" /\ q.c = r.c /\ q.plist = r.plist /\ q.g = r.g + 1
    BY <1>2, <2>1 DEF Locals, SameInsert
  <2>4. Inserting(G, q)
    BY <1>1, <2>1, <2>3 DEF Inserting, ExtPcs
  <2> QED
    BY <1>1, <2>2, <2>3, <2>4, InsertShape DEF InsertPcs, ExtPcs, SameInsert
<1>3. CASE ~(r.g < Len(G))
  <2>2. q \in Locals
    BY <1>3, TableSpaceAssumption DEF Locals, Pcs, ExtPcs
  <2>3. SameInsert(r, q) /\ q.pc = "startext" /\ q.c = r.c /\ q.plist = r.plist /\ q.num = NumCols
    BY <1>3 DEF Locals, SameInsert
  <2>4. Inserting(G, q)
    BY <1>1, <2>3 DEF Inserting, ExtPcs
  <2> QED
    BY <1>1, <2>2, <2>3, <2>4, InsertShape DEF InsertPcs, ExtPcs, SameInsert
<1> QED
  BY <1>2, <1>3

LEMMA MemberPageStep ==
  ASSUME NEW P \in Files, NEW G \in Groups, NEW r \in Locals, Shape(P, G, r), r.pc = "member",
         NEW p, p = G[r.g][r.c], NEW fits \in BOOLEAN, NEW q,
         q = IF ~fits THEN [r EXCEPT !.pc = "group", !.c = 1, !.plist = << >>]
             ELSE IF r.c < NumCols THEN [r EXCEPT !.c = @ + 1, !.plist = Append(@, p)]
             ELSE [r EXCEPT !.pc = "lockgroup", !.c = 1, !.plist = Append(@, p)]
  PROVE  q \in Locals /\ Shape(P, G, q) /\ p \in PageNos
<1>1. /\ r.op = "insert" /\ r.g \in 1..Len(G) /\ Len(r.plist) = r.c - 1 /\ r.c \in 1..NumCols
      /\ \A k \in 1..Len(r.plist) : r.plist[k] = G[r.g][k]
      /\ NumCols \in Nat \ {0} /\ Len(r.cols) = NumCols /\ r.plist \in Seq(PageNos)
  BY TableSpaceAssumption DEF Shape, Statement, Inserting, InsertPcs, Locals, Groups
<1>2. p \in PageNos
  BY <1>1 DEF Groups, Cols
<1>3. CASE ~fits
  <2>1. << >> \in Seq(PageNos) /\ 1 \in Nat \ {0}
    OBVIOUS
  <2>2. q \in Locals
    BY <1>3, <2>1 DEF Locals, Pcs, InsertPcs
  <2>3. SameInsert(r, q) /\ q.pc = "group" /\ q.c = 1 /\ q.plist = << >>
    BY <1>3 DEF Locals, SameInsert
  <2>4. Inserting(G, q)
    BY <2>3 DEF Inserting, ExtPcs
  <2>5. q.c \in 1..Len(q.cols)
    BY <1>1, <2>3 DEF SameInsert
  <2>6. q.pc \in InsertPcs /\ q.pc # "startext" /\ q.pc # "extend" /\ r.pc # "idle"
    BY <2>3 DEF InsertPcs
  <2> QED
    BY ONLY r \in Locals, Shape(P, G, r), <1>1, <1>2, <2>2, <2>3, <2>4, <2>5, <2>6, InsertShape
<1>4. PICK a : a = Append(r.plist, p)
  OBVIOUS
<1>5. /\ a \in Seq(PageNos) /\ Len(a) = r.c
      /\ \A k \in 1..Len(a) : a[k] = G[r.g][k]
  BY <1>1, <1>2, <1>4
<1>6. CASE fits /\ r.c < NumCols
  <2>1. r.c + 1 \in Nat \ {0}
    BY <1>1
  <2>2. q = [r EXCEPT !.c = r.c + 1, !.plist = a]
    BY <1>4, <1>6
  <2>3. q \in Locals /\ SameInsert(r, q) /\ q.pc = "member" /\ q.c = r.c + 1 /\ q.plist = a /\ q.g = r.g
    <3>1. q \in Locals
      BY ONLY r \in Locals, <1>5, <2>1, <2>2 DEF Locals
    <3>2. SameInsert(r, q) /\ q.pc = r.pc /\ q.c = r.c + 1 /\ q.plist = a /\ q.g = r.g
      BY ONLY r \in Locals, <2>2 DEF Locals, SameInsert
    <3> QED
      BY <3>1, <3>2
  <2>4. Inserting(G, q)
    BY <1>1, <1>5, <2>3 DEF Inserting, ExtPcs
  <2>5. q.c \in 1..Len(q.cols)
    BY <1>1, <1>6, <2>3 DEF SameInsert
  <2>6. q.pc \in InsertPcs /\ q.pc # "startext" /\ q.pc # "extend" /\ r.pc # "idle"
    BY <2>3 DEF InsertPcs
  <2> QED
    BY ONLY r \in Locals, Shape(P, G, r), <1>1, <1>2, <2>3, <2>4, <2>5, <2>6, InsertShape
<1>7. CASE fits /\ ~(r.c < NumCols)
  <2>2. q = [r EXCEPT !.pc = "lockgroup", !.c = 1, !.plist = a]
    BY <1>4, <1>7
  <2>3. q \in Locals
    <3>1. 1 \in Nat \ {0} /\ "lockgroup" \in Pcs
      BY DEF Pcs, InsertPcs
    <3> QED
      BY ONLY r \in Locals, <1>5, <2>2, <3>1 DEF Locals
  <2>4. SameInsert(r, q) /\ q.pc = "lockgroup" /\ q.c = 1 /\ q.plist = a /\ q.g = r.g
    BY <2>2 DEF Locals, SameInsert
  <2>5. Inserting(G, q)
    BY <1>1, <1>5, <1>7, <2>4 DEF Inserting, ExtPcs
  <2>6. q.c \in 1..Len(q.cols)
    BY <1>1, <2>4 DEF SameInsert
  <2>7. q.pc \in InsertPcs /\ q.pc # "startext" /\ q.pc # "extend" /\ r.pc # "idle"
    BY <2>4 DEF InsertPcs
  <2> QED
    BY ONLY r \in Locals, Shape(P, G, r), <1>1, <1>2, <2>3, <2>4, <2>5, <2>6, <2>7, InsertShape
<1> QED
  BY <1>3, <1>6, <1>7

\* The places at which an insert has its pages.
LEMMA InsertPages ==
  ASSUME NEW P \in Files, NEW G \in Groups, NEW r \in Locals, Shape(P, G, r),
         r.pc \in {"lockgroup", "check", "write"}
  PROVE  /\ r.op = "insert" /\ r.g \in 1..Len(G) /\ Len(r.plist) = NumCols /\ Len(r.cols) = NumCols
         /\ NumCols \in Nat \ {0} /\ r.c \in 1..NumCols /\ r.plist \in Seq(PageNos)
         /\ \A k \in 1..NumCols : r.plist[k] = G[r.g][k] /\ r.plist[k] \in PageNos
         /\ r.pc = "check" => r.c = 1
<1>1. r.op = "insert" /\ Len(r.cols) = NumCols /\ r.c \in 1..Len(r.cols)
  BY DEF Shape, Statement, InsertPcs
<1>2. /\ r.g \in 1..Len(G) /\ Len(r.plist) = NumCols
      /\ \A k \in 1..Len(r.plist) : r.plist[k] = G[r.g][k]
      /\ r.pc = "check" => r.c = 1
  BY DEF Shape, Inserting
<1>3. r.plist \in Seq(PageNos)
  BY DEF Locals
<1> QED
  BY <1>1, <1>2, <1>3, TableSpaceAssumption

LEMMA LockGroupStep ==
  ASSUME NEW P \in Files, NEW G \in Groups, NEW r \in Locals, Shape(P, G, r), r.pc = "lockgroup", NEW q,
         q = IF r.c < NumCols THEN [r EXCEPT !.c = @ + 1] ELSE [r EXCEPT !.pc = "check", !.c = 1]
  PROVE  q \in Locals /\ Shape(P, G, q)
<1>1. r.op = "insert" /\ r.c \in 1..NumCols /\ Len(r.cols) = NumCols /\ NumCols \in Nat \ {0}
  BY InsertPages
<1>2. r.c + 1 \in Nat \ {0} /\ 1 \in Nat \ {0}
  BY <1>1
<1>3. q \in Locals
  BY <1>2 DEF Locals, Pcs, InsertPcs
<1>4. /\ SameInsert(r, q) /\ q.plist = r.plist /\ q.g = r.g
      /\ (q.pc = "lockgroup" /\ q.c = r.c + 1 /\ r.c < NumCols) \/ (q.pc = "check" /\ q.c = 1)
  BY DEF Locals, SameInsert
<1>5. Inserting(G, q)
  BY <1>1, <1>4 DEF Inserting, Shape, ExtPcs
<1>6. /\ q.c \in 1..Len(q.cols) /\ q.pc \in InsertPcs
      /\ q.pc # "startext" /\ q.pc # "extend" /\ r.pc # "idle"
  BY <1>1, <1>4 DEF SameInsert, InsertPcs
<1> QED
  BY ONLY r \in Locals, Shape(P, G, r), <1>1, <1>3, <1>4, <1>5, <1>6, InsertShape

LEMMA CheckStep ==
  ASSUME NEW P \in Files, NEW G \in Groups, NEW r \in Locals, Shape(P, G, r), r.pc = "check", NEW q,
         q = [r EXCEPT !.pc = "write"] \/ q = [r EXCEPT !.pc = "member", !.plist = << >>]
  PROVE  q \in Locals /\ Shape(P, G, q)
<1>1. r.op = "insert" /\ r.c = 1 /\ Len(r.cols) = NumCols /\ NumCols \in Nat \ {0}
  BY InsertPages
<1>2. << >> \in Seq(PageNos)
  OBVIOUS
<1>3. q \in Locals
  <2>1. "write" \in Pcs /\ "member" \in Pcs
    BY DEF Pcs, InsertPcs
  <2>2. CASE q = [r EXCEPT !.pc = "write"]
    BY <2>1, <2>2 DEF Locals
  <2>3. CASE q = [r EXCEPT !.pc = "member", !.plist = << >>]
    BY <1>2, <2>1, <2>3 DEF Locals
  <2> QED
    BY <2>2, <2>3
<1>4. /\ SameInsert(r, q) /\ q.g = r.g /\ q.c = r.c
      /\ (q.pc = "write" /\ q.plist = r.plist) \/ (q.pc = "member" /\ q.plist = << >>)
  <2>1. CASE q = [r EXCEPT !.pc = "write"]
    BY <2>1 DEF Locals, SameInsert
  <2>2. CASE q = [r EXCEPT !.pc = "member", !.plist = << >>]
    BY <2>2 DEF Locals, SameInsert
  <2> QED
    BY <2>1, <2>2
<1>5. Inserting(G, q)
  BY <1>1, <1>4 DEF Inserting, Shape, ExtPcs
<1>6. /\ q.c \in 1..Len(q.cols) /\ q.pc \in InsertPcs
      /\ q.pc # "startext" /\ q.pc # "extend" /\ r.pc # "idle"
  BY <1>1, <1>4 DEF SameInsert, InsertPcs
<1> QED
  BY ONLY r \in Locals, Shape(P, G, r), <1>1, <1>3, <1>4, <1>5, <1>6, InsertShape

LEMMA WriteColumnStep ==
  ASSUME NEW P \in Files, NEW G \in Groups, NEW r \in Locals, Shape(P, G, r), r.pc = "write", NEW q,
         (r.c < NumCols /\ q = [r EXCEPT !.c = @ + 1]) \/ (r.c = NumCols /\ q = [r EXCEPT !.pc = "end"])
  PROVE  q \in Locals /\ Shape(P, G, q)
<1>1. r.op = "insert" /\ r.c \in 1..NumCols /\ Len(r.cols) = NumCols /\ NumCols \in Nat \ {0}
  BY InsertPages
<1>2. r.c + 1 \in Nat \ {0}
  BY <1>1
<1>3. q \in Locals
  <2>1. "end" \in Pcs
    BY DEF Pcs
  <2>2. CASE q = [r EXCEPT !.c = @ + 1]
    BY <1>2, <2>2 DEF Locals
  <2>3. CASE q = [r EXCEPT !.pc = "end"]
    BY <2>1, <2>3 DEF Locals
  <2> QED
    BY <2>2, <2>3
<1>4. /\ SameInsert(r, q) /\ q.plist = r.plist /\ q.g = r.g
      /\ (q.pc = "write" /\ q.c = r.c + 1 /\ r.c < NumCols) \/ (q.pc = "end" /\ q.c = r.c)
  BY DEF Locals, SameInsert
<1>5. Inserting(G, q)
  BY <1>1, <1>4 DEF Inserting, Shape, ExtPcs
<1>6. /\ q.c \in 1..Len(q.cols) /\ q.pc \in InsertPcs \cup {"end"}
      /\ q.pc # "startext" /\ q.pc # "extend" /\ r.pc # "idle"
  BY <1>1, <1>4 DEF SameInsert, InsertPcs
<1> QED
  BY ONLY r \in Locals, Shape(P, G, r), <1>1, <1>3, <1>4, <1>5, <1>6, InsertShape

LEMMA EndShape ==
  ASSUME NEW P, NEW G, NEW r \in Locals, Shape(P, G, r), r.pc # "idle", NEW q, q = [r EXCEPT !.pc = "end"]
  PROVE  q \in Locals /\ Shape(P, G, q)
<1>1. "end" \in Pcs
  BY DEF Pcs
<1>2. q \in Locals
  BY <1>1 DEF Locals
<1>3. /\ q.pc = "end" /\ q.op = r.op /\ q.xid = r.xid /\ q.high = r.high /\ q.cols = r.cols
      /\ q.sizes = r.sizes /\ q.c = r.c /\ q.old = r.old
  BY DEF Locals
<1>4. Statement(q)
  BY <1>3 DEF Shape, Statement, InsertPcs, ScanPcs, UpdatePcs, DeletePcs, ExtPcs
<1>5. ~Changing(q) /\ ~Reading(q) /\ ~HasUndo(q) /\ ~HasCopy(q)
  BY <1>3 DEF Changing, Reading, HasUndo, HasCopy, Updating, UpdatePcs, ExtPcs, DeletePcs
<1>6. Inserting(G, q)
  BY <1>3 DEF Inserting, ExtPcs
<1>7. RowAt(P, G, q)
  BY <1>5 DEF RowAt
<1>8. Scanned(P, G, q)
  BY <1>3, <1>5 DEF Shape, Scanned
<1> QED
  BY <1>2, <1>4, <1>6, <1>7, <1>8 DEF Shape

\* A statement that is at a row it found, and stays there.
SameChange(r, q) == SameRow(r, q) /\ q.old = r.old /\ q.at = r.at

LEMMA ChangeShape ==
  ASSUME NEW P, NEW G, NEW r \in Locals, NEW q \in Locals, Shape(P, G, r), Changing(r), Changing(q),
         SameChange(r, q), q.c \in 1..Len(q.cols), r.pc # "idle",
         q.pc \in UpdatePcs \cup ExtPcs => q.op = "update", q.pc \in DeletePcs => q.op = "delete",
         q.pc \in {"startext", "chain"} => q.num = 1, q.pc = "extend" => q.num <= 1,
         HasUndo(q) => q.undo \in PageNos,
         HasCopy(q) => q.upos.page = q.undo /\ InPage(P, q.upos),
         q.pc = "chain" => ChainHead(P[Col(G, q, q.c)], q.kind) # INVALID_PAGE_NUM,
         q.pc = "newrow" => q.new \in PageNos
  PROVE  Shape(P, G, q)
<1>1. q.pc \in UpdatePcs \cup ExtPcs \cup DeletePcs
  BY DEF Changing, Updating
<1>2. q.pc \notin InsertPcs /\ q.pc \notin ScanPcs /\ q.pc \notin {"column", "walk", "found", "idle"}
  BY <1>1 DEF UpdatePcs, ExtPcs, DeletePcs, InsertPcs, ScanPcs
<1>3. q.op \in {"update", "delete"} /\ q.op # "insert"
  BY <1>1
<1>4. Statement(q)
  <2>1. /\ r.op # "none" /\ r.xid \in 1..MaxStatements /\ r.high = r.xid
        /\ Len(r.sizes) = Len(r.cols)
    BY DEF Shape, Statement
  <2>2. q.pc \in ExtPcs \cup UpdatePcs => q.op = "update"
    OBVIOUS
  <2> QED
    BY <1>2, <1>3, <2>1, <2>2 DEF Statement, SameChange, SameRow, Batch, ExtPcs
<1>5. Inserting(G, q)
  BY <1>2, <1>3 DEF Inserting, InsertPcs
<1>6. RowAt(P, G, q)
  BY DEF Shape, RowAt, SameChange, SameRow, Col
<1>7. Scanned(P, G, q)
  BY <1>2 DEF Shape, Scanned, SameChange, SameRow
<1> QED
  BY <1>4, <1>5, <1>6, <1>7 DEF Shape

LEMMA StartExtStep ==
  ASSUME NEW P \in Files, NEW G \in Groups, NEW r \in Locals, Shape(P, G, r), r.pc = "startext",
         NEW q, q = [r EXCEPT !.pc = "extend"]
  PROVE  q \in Locals /\ Shape(P, G, q)
<1>1. "extend" \in Pcs
  BY DEF Pcs, ExtPcs
<1>2. q \in Locals
  BY <1>1 DEF Locals
<1>3. /\ q.pc = "extend" /\ SameChange(r, q) /\ SameInsert(r, q) /\ q.c = r.c /\ q.num = r.num
      /\ q.kind = r.kind /\ q.undo = r.undo /\ q.upos = r.upos /\ q.plist = r.plist
  BY DEF Locals, SameChange, SameRow, SameInsert
<1>4. r.op \in {"insert", "update"} /\ r.num = Batch(r) /\ r.c \in 1..Len(r.cols)
  BY DEF Shape, Statement, ExtPcs
<1>5. CASE r.op = "insert"
  <2>1. Inserting(G, q)
    BY <1>3, <1>5 DEF Shape, Inserting, ExtPcs
  <2>2. q.num <= NumCols
    BY <1>3, <1>4, <1>5, TableSpaceAssumption DEF Batch
  <2>3. q.pc \in ExtPcs /\ q.c \in 1..Len(q.cols) /\ r.pc # "idle" /\ q.pc # "startext"
    BY <1>3, <1>4 DEF ExtPcs, SameInsert
  <2> QED
    BY ONLY <1>2, <1>3, <1>5, <2>1, <2>2, <2>3, r \in Locals, Shape(P, G, r), InsertShape
<1>6. CASE r.op = "update"
  <2>1. Changing(r) /\ Changing(q) /\ q.op = "update"
    BY <1>3, <1>6 DEF Changing, Updating, ExtPcs, SameChange, SameRow
  <2>2. q.num <= 1 /\ q.pc # "startext" /\ q.pc \notin {"chain", "newrow"} /\ q.c \in 1..Len(q.cols)
        /\ q.pc \notin DeletePcs /\ r.pc # "idle"
    BY <1>3, <1>4, <1>6 DEF Batch, SameChange, SameRow, DeletePcs
  <2>3. (HasUndo(q) <=> HasUndo(r)) /\ (HasCopy(q) <=> HasCopy(r))
    BY <1>3, <2>1 DEF HasUndo, HasCopy, Second, Updating, ExtPcs, SameChange, SameRow
  <2>4. /\ HasUndo(q) => q.undo \in PageNos
        /\ HasCopy(q) => q.upos.page = q.undo /\ InPage(P, q.upos)
    BY <1>3, <2>3 DEF Shape, Scanned
  <2> QED
    BY ONLY <1>2, <1>3, <1>6, <2>1, <2>2, <2>4, r \in Locals, Shape(P, G, r), ChangeShape
<1> QED
  BY <1>4, <1>5, <1>6

LEMMA AddPageStep ==
  ASSUME NEW P \in Files, NEW G \in Groups, NEW r \in Locals, Shape(P, G, r), r.pc = "extend", r.num > 0,
         NEW n \in Nat, NEW q, q = [r EXCEPT !.num = @ - 1, !.last = n]
  PROVE  q \in Locals /\ Shape(P, G, q)
<1>1. r.num - 1 \in Nat /\ r.num \in Nat
  BY DEF Locals
<1>2. q \in Locals
  BY <1>1 DEF Locals
<1>3. /\ q.pc = "extend" /\ SameChange(r, q) /\ SameInsert(r, q) /\ q.c = r.c /\ q.num = r.num - 1
      /\ q.kind = r.kind /\ q.undo = r.undo /\ q.upos = r.upos /\ q.plist = r.plist
  BY DEF Locals, SameChange, SameRow, SameInsert
<1>4. r.op \in {"insert", "update"} /\ r.num <= Batch(r) /\ r.c \in 1..Len(r.cols)
  BY DEF Shape, Statement, ExtPcs
<1>5. CASE r.op = "insert"
  <2>1. Inserting(G, q)
    BY <1>3, <1>5 DEF Shape, Inserting, ExtPcs
  <2>2. q.num <= NumCols
    BY <1>1, <1>3, <1>4, <1>5, TableSpaceAssumption DEF Batch
  <2>3. q.pc \in ExtPcs /\ q.c \in 1..Len(q.cols) /\ r.pc # "idle" /\ q.pc # "startext"
    BY <1>3, <1>4 DEF ExtPcs, SameInsert
  <2> QED
    BY ONLY <1>2, <1>3, <1>5, <2>1, <2>2, <2>3, r \in Locals, Shape(P, G, r), InsertShape
<1>6. CASE r.op = "update"
  <2>1. Changing(r) /\ Changing(q) /\ q.op = "update"
    BY <1>3, <1>6 DEF Changing, Updating, ExtPcs, SameChange, SameRow
  <2>2. q.num <= 1 /\ q.pc # "startext" /\ q.pc \notin {"chain", "newrow"} /\ q.c \in 1..Len(q.cols)
        /\ q.pc \notin DeletePcs /\ r.pc # "idle"
    BY <1>1, <1>3, <1>4, <1>6 DEF Batch, SameChange, SameRow, DeletePcs
  <2>3. (HasUndo(q) <=> HasUndo(r)) /\ (HasCopy(q) <=> HasCopy(r))
    BY <1>3, <2>1 DEF HasUndo, HasCopy, Second, Updating, ExtPcs, SameChange, SameRow
  <2>4. /\ HasUndo(q) => q.undo \in PageNos
        /\ HasCopy(q) => q.upos.page = q.undo /\ InPage(P, q.upos)
    BY <1>3, <2>3 DEF Shape, Scanned
  <2> QED
    BY ONLY <1>2, <1>3, <1>6, <2>1, <2>2, <2>4, r \in Locals, Shape(P, G, r), ChangeShape
<1> QED
  BY <1>4, <1>5, <1>6

\* InsertGroupItem, when the last page can be read back.
LEMMA GroupItemStep ==
  ASSUME NEW P \in Files, NEW G \in Groups, NEW r \in Locals, Shape(P, G, r), r.pc = "extend",
         r.op = "insert", NEW q, q = [r EXCEPT !.pc = "group"]
  PROVE  q \in Locals /\ Shape(P, G, q)
<1>1. "group" \in Pcs
  BY DEF Pcs, InsertPcs
<1>2. q \in Locals
  BY <1>1 DEF Locals
<1>3. q.pc = "group" /\ SameInsert(r, q) /\ q.c = r.c /\ q.plist = r.plist
  BY DEF Locals, SameInsert
<1>4. Inserting(G, q)
  BY <1>3 DEF Shape, Inserting, ExtPcs
<1>5. q.pc \in InsertPcs /\ q.c \in 1..Len(q.cols) /\ r.pc # "idle" /\ q.pc # "startext" /\ q.pc # "extend"
  BY <1>3 DEF InsertPcs, SameInsert, Shape, Statement
<1> QED
  BY ONLY <1>2, <1>3, <1>4, <1>5, r.op = "insert", r \in Locals, Shape(P, G, r), InsertShape

SameStatement(r, q) ==
  q.op = r.op /\ q.xid = r.xid /\ q.high = r.high /\ q.cols = r.cols /\ q.sizes = r.sizes

LEMMA ScanShape ==
  ASSUME NEW P, NEW G, NEW r \in Locals, NEW q \in Locals, Shape(P, G, r), r.pc # "idle",
         r.op \in {"update", "delete"}, SameStatement(r, q), q.pc \in ScanPcs, q.c \in 1..Len(q.cols),
         RowAt(P, G, q), \A k \in 1..Len(q.old) : LinkedIn(P, q.old[k]),
         q.pc = "column" => q.skip \/ Len(q.old) = q.c - 1,
         q.pc = "walk" => Len(q.old) = q.c - 1 /\ InPage(P, q.pos),
         q.pc = "found" => Len(q.old) = Len(q.cols)
  PROVE  Shape(P, G, q)
<1>1. /\ q.pc \notin InsertPcs /\ q.pc \notin UpdatePcs /\ q.pc \notin DeletePcs /\ q.pc \notin ExtPcs
      /\ q.pc \notin {"idle", "startext", "extend", "chain", "newrow", "group", "member", "lockgroup",
                      "check", "write"}
  BY DEF InsertPcs, ScanPcs, UpdatePcs, DeletePcs, ExtPcs
<1>2. Statement(q)
  BY <1>1 DEF Shape, Statement, SameStatement
<1>3. ~Changing(q) /\ ~HasUndo(q) /\ ~HasCopy(q)
  BY <1>1 DEF Changing, Updating, HasUndo, HasCopy
<1>4. Inserting(G, q)
  BY <1>1 DEF Inserting
<1>5. Scanned(P, G, q)
  BY <1>1, <1>3 DEF Scanned
<1> QED
  BY <1>2, <1>4, <1>5 DEF Shape

RowNext(r) == [r EXCEPT !.pc = "column", !.i = @ + 1, !.c = 1, !.skip = FALSE, !.old = << >>, !.at = << >>]
GroupNext(r) == [RowNext(r) EXCEPT !.g = @ + 1, !.i = 1]
ColumnNext(r, pc) == IF r.c < Len(r.cols) THEN [r EXCEPT !.pc = pc, !.c = @ + 1] ELSE RowNext(r)

LEMMA RowNextIs ==
  ASSUME NEW r \in Locals
  PROVE  /\ RowNext(r) \in Locals /\ SameStatement(r, RowNext(r))
         /\ RowNext(r).pc = "column" /\ RowNext(r).i = r.i + 1 /\ RowNext(r).c = 1
         /\ RowNext(r).skip = FALSE /\ RowNext(r).old = << >> /\ RowNext(r).g = r.g
<1>1. /\ r.i + 1 \in Nat /\ 1 \in Nat \ {0} /\ << >> \in Seq(Versions) /\ << >> \in Seq(Entries)
      /\ "column" \in Pcs /\ FALSE \in BOOLEAN
  BY DEF Locals, Pcs, ScanPcs
<1>2. RowNext(r) \in Locals
  BY <1>1 DEF Locals, RowNext
<1> QED
  BY <1>2 DEF Locals, RowNext, SameStatement

LEMMA RowNextStep ==
  ASSUME NEW P \in Files, NEW G \in Groups, NEW r \in Locals, Shape(P, G, r), r.op \in {"update", "delete"},
         r.pc # "idle", r.g \in 1..Len(G), NEW q, q = RowNext(r)
  PROVE  q \in Locals /\ Shape(P, G, q)
<1>1. /\ q \in Locals /\ SameStatement(r, q) /\ q.pc = "column" /\ q.i = r.i + 1 /\ q.c = 1
      /\ q.skip = FALSE /\ q.old = << >> /\ q.g = r.g
  BY RowNextIs
<1>2. r.i \in Nat /\ 1 \in 1..Len(r.cols)
  BY InStatement DEF Locals, Shape
<1>3. RowAt(P, G, q)
  <2>1. ~Changing(q)
    BY <1>1 DEF Changing, Updating, UpdatePcs, ExtPcs, DeletePcs
  <2> QED
    BY <1>1, <1>2, <2>1 DEF RowAt
<1>4. /\ q.pc \in ScanPcs /\ q.c \in 1..Len(q.cols) /\ \A k \in 1..Len(q.old) : LinkedIn(P, q.old[k])
      /\ Len(q.old) = q.c - 1 /\ q.pc # "walk" /\ q.pc # "found"
  BY <1>1, <1>2 DEF ScanPcs, SameStatement
<1> QED
  BY ONLY r \in Locals, Shape(P, G, r), r.op \in {"update", "delete"}, r.pc # "idle", <1>1, <1>3, <1>4,
     ScanShape

LEMMA GroupNextStep ==
  ASSUME NEW P \in Files, NEW G \in Groups, NEW r \in Locals, Shape(P, G, r), r.pc = "scan",
         r.g < Len(G), NEW q, q = GroupNext(r)
  PROVE  q \in Locals /\ Shape(P, G, q)
<1>1. PICK n : n = RowNext(r)
  OBVIOUS
<1>2. /\ n \in Locals /\ SameStatement(r, n) /\ n.pc = "column" /\ n.i = r.i + 1 /\ n.c = 1
      /\ n.skip = FALSE /\ n.old = << >> /\ n.g = r.g
  BY <1>1, RowNextIs
<1>3. r.g + 1 \in Nat /\ r.g + 1 \in 1..Len(G) /\ 1 \in Nat
  BY DEF Locals, Groups
<1>4. q = [n EXCEPT !.g = r.g + 1, !.i = 1]
  BY <1>1, <1>2 DEF GroupNext
<1>5. /\ q \in Locals /\ SameStatement(r, q) /\ q.pc = "column" /\ q.i = 1 /\ q.c = 1
      /\ q.skip = FALSE /\ q.old = << >> /\ q.g = r.g + 1
  BY ONLY <1>2, <1>3, <1>4 DEF Locals, SameStatement
<1>6. 1 \in 1..Len(r.cols) /\ r.op \in {"update", "delete"} /\ r.pc # "idle"
  BY InStatement DEF Shape, Statement, ScanPcs
<1>7. RowAt(P, G, q)
  <2>1. ~Changing(q)
    BY <1>5 DEF Changing, Updating, UpdatePcs, ExtPcs, DeletePcs
  <2> QED
    BY <1>3, <1>5, <2>1 DEF RowAt
<1>8. /\ q.pc \in ScanPcs /\ q.c \in 1..Len(q.cols) /\ \A k \in 1..Len(q.old) : LinkedIn(P, q.old[k])
      /\ Len(q.old) = q.c - 1 /\ q.pc # "walk" /\ q.pc # "found"
  BY <1>5, <1>6 DEF ScanPcs, SameStatement
<1> QED
  BY ONLY r \in Locals, Shape(P, G, r), <1>5, <1>6, <1>7, <1>8, ScanShape

\* The end of a group.
LEMMA ScanAgainStep ==
  ASSUME NEW P \in Files, NEW G \in Groups, NEW r \in Locals, Shape(P, G, r), r.pc = "column",
         NEW q, q = [r EXCEPT !.pc = "scan"]
  PROVE  q \in Locals /\ Shape(P, G, q)
<1>1. "scan" \in Pcs
  BY DEF Pcs, ScanPcs
<1>2. q \in Locals /\ SameStatement(r, q) /\ q.pc = "scan" /\ q.c = r.c /\ q.old = r.old
  BY <1>1 DEF Locals, SameStatement
<1>3. r.op \in {"update", "delete"} /\ r.pc # "idle" /\ r.c \in 1..Len(r.cols)
  BY DEF Shape, Statement, ScanPcs
<1>4. RowAt(P, G, q)
  BY <1>2 DEF RowAt, Reading, Changing, Updating, UpdatePcs, ExtPcs, DeletePcs
<1>5. /\ q.pc \in ScanPcs /\ q.c \in 1..Len(q.cols) /\ \A k \in 1..Len(q.old) : LinkedIn(P, q.old[k])
      /\ q.pc # "column" /\ q.pc # "walk" /\ q.pc # "found"
  BY <1>2, <1>3 DEF ScanPcs, SameStatement, Shape, Scanned
<1> QED
  BY ONLY r \in Locals, Shape(P, G, r), <1>2, <1>3, <1>4, <1>5, ScanShape

Done(r, found) ==
  LET old == r.old \o found
  IN  IF r.c < Len(r.cols)
      THEN [r EXCEPT !.pc = "column", !.c = @ + 1, !.old = old, !.skip = (found = << >>)]
      ELSE IF found = << >> THEN RowNext(r)
      ELSE [r EXCEPT !.pc = "found", !.c = 1, !.old = old]

\* A worker that reads column c of a row which the page of that column has.
AtColumn(P, G, r) == r.pc \in {"column", "walk"} /\ r.i <= Len(P[Col(G, r, r.c)].items)

LEMMA AtColumnIs ==
  ASSUME NEW P \in Files, NEW G \in Groups, NEW r \in Locals, Shape(P, G, r), AtColumn(P, G, r)
  PROVE  /\ r.op \in {"update", "delete"} /\ r.pc # "idle" /\ r.g \in 1..Len(G) /\ r.i > 0
         /\ \A k \in 1..Len(r.cols) : k <= r.c => r.i <= Len(P[Col(G, r, k)].items)
         /\ \A k \in 1..Len(r.old) : LinkedIn(P, r.old[k])
         /\ r.old \in Seq(Versions) /\ r.c \in 1..Len(r.cols) /\ Len(r.cols) \in Nat
<1>1. r.op \in {"update", "delete"} /\ r.pc # "idle" /\ r.c \in 1..Len(r.cols) /\ Len(r.cols) \in Nat
  BY DEF Shape, Statement, ScanPcs, AtColumn, Locals
<1>2. Reading(r)
  BY DEF AtColumn, Reading
<1>3. /\ r.g \in 1..Len(G) /\ r.i > 0
      /\ \A k \in 1..Len(r.cols) : k < r.c => r.i <= Len(P[Col(G, r, k)].items)
  BY <1>2 DEF Shape, RowAt
<1>4. \A k \in 1..Len(r.cols) : k <= r.c => r.i <= Len(P[Col(G, r, k)].items)
  BY <1>1, <1>3 DEF AtColumn
<1> QED
  BY <1>1, <1>3, <1>4 DEF Shape, Scanned, Locals

LEMMA FoundStep ==
  ASSUME NEW P \in Files, NEW G \in Groups, NEW r \in Locals, Shape(P, G, r), AtColumn(P, G, r),
         Len(r.old) = r.c - 1, NEW v \in Versions, LinkedIn(P, v), NEW q, q = Done(r, <<v>>)
  PROVE  q \in Locals /\ Shape(P, G, q)
<1>1. /\ r.op \in {"update", "delete"} /\ r.pc # "idle" /\ r.g \in 1..Len(G) /\ r.i > 0
      /\ \A k \in 1..Len(r.cols) : k <= r.c => r.i <= Len(P[Col(G, r, k)].items)
      /\ \A k \in 1..Len(r.old) : LinkedIn(P, r.old[k])
      /\ r.old \in Seq(Versions) /\ r.c \in 1..Len(r.cols) /\ Len(r.cols) \in Nat
  BY AtColumnIs
<1>2. PICK old : old = r.old \o <<v>>
  OBVIOUS
<1>3. /\ old \in Seq(Versions) /\ Len(old) = r.c
      /\ \A k \in 1..Len(r.old) : old[k] = r.old[k]
      /\ old[r.c] = v
  BY <1>1, <1>2
<1>4. \A k \in 1..Len(old) : LinkedIn(P, old[k])
  <2> TAKE k \in 1..Len(old)
  <2>1. CASE k = r.c
    BY <1>3, <2>1
  <2>2. CASE k # r.c
    <3>1. k \in 1..Len(r.old)
      BY <1>1, <1>3, <2>2
    <3> QED
      BY <1>1, <1>3, <3>1
  <2> QED
    BY <2>1, <2>2
<1>5. <<v>> # << >>
  OBVIOUS
<1>6. CASE r.c < Len(r.cols)
  <2>1. r.c + 1 \in Nat \ {0} /\ "column" \in Pcs
    BY <1>1 DEF Pcs, ScanPcs
  <2>2. q = [r EXCEPT !.pc = "column", !.c = r.c + 1, !.old = old, !.skip = FALSE]
    BY <1>2, <1>5, <1>6 DEF Done
  <2>3. q \in Locals
    BY ONLY r \in Locals, <1>3, <2>1, <2>2 DEF Locals
  <2>4. /\ SameStatement(r, q) /\ q.pc = "column" /\ q.c = r.c + 1 /\ q.old = old /\ q.g = r.g /\ q.i = r.i
    BY ONLY r \in Locals, <2>2 DEF Locals, SameStatement
  <2>5. RowAt(P, G, q)
    <3>1. ~Changing(q)
      BY <2>4 DEF Changing, Updating, UpdatePcs, ExtPcs, DeletePcs
    <3>2. \A k \in 1..Len(r.cols) : k < r.c + 1 => k <= r.c
      BY <1>1
    <3>3. \A k \in 1..Len(r.cols) : Col(G, q, k) = Col(G, r, k)
      BY <2>4 DEF Col, SameStatement
    <3> QED
      BY ONLY <1>1, <2>4, <3>1, <3>2, <3>3 DEF RowAt, SameStatement
  <2>6. /\ q.pc \in ScanPcs /\ q.c \in 1..Len(q.cols) /\ \A k \in 1..Len(q.old) : LinkedIn(P, q.old[k])
        /\ Len(q.old) = q.c - 1 /\ q.pc # "walk" /\ q.pc # "found"
    BY ONLY <1>1, <1>3, <1>4, <1>6, <2>4 DEF ScanPcs, SameStatement
  <2> QED
    BY ONLY r \in Locals, Shape(P, G, r), <1>1, <2>3, <2>4, <2>5, <2>6, ScanShape
<1>7. CASE ~(r.c < Len(r.cols))
  <2>1. 1 \in Nat \ {0} /\ "found" \in Pcs
    BY DEF Pcs, ScanPcs
  <2>2. q = [r EXCEPT !.pc = "found", !.c = 1, !.old = old]
    BY <1>2, <1>5, <1>7 DEF Done
  <2>3. q \in Locals
    BY ONLY r \in Locals, <1>3, <2>1, <2>2 DEF Locals
  <2>4. /\ SameStatement(r, q) /\ q.pc = "found" /\ q.c = 1 /\ q.old = old /\ q.g = r.g /\ q.i = r.i
    BY ONLY r \in Locals, <2>2 DEF Locals, SameStatement
  <2>5. RowAt(P, G, q)
    <3>1. \A k \in 1..Len(r.cols) : k <= r.c
      BY <1>1, <1>7
    <3> QED
      BY <1>1, <2>4, <3>1 DEF RowAt, Col, SameStatement
  <2>6. /\ q.pc \in ScanPcs /\ q.c \in 1..Len(q.cols) /\ \A k \in 1..Len(q.old) : LinkedIn(P, q.old[k])
        /\ Len(q.old) = Len(q.cols) /\ q.pc # "walk" /\ q.pc # "column"
    BY <1>1, <1>3, <1>4, <1>7, <2>4 DEF ScanPcs, SameStatement
  <2> QED
    BY ONLY r \in Locals, Shape(P, G, r), <1>1, <2>3, <2>4, <2>5, <2>6, ScanShape
<1> QED
  BY <1>6, <1>7

LEMMA NotFoundStep ==
  ASSUME NEW P \in Files, NEW G \in Groups, NEW r \in Locals, Shape(P, G, r), AtColumn(P, G, r),
         NEW q, q = Done(r, << >>)
  PROVE  q \in Locals /\ Shape(P, G, q)
<1>1. /\ r.op \in {"update", "delete"} /\ r.pc # "idle" /\ r.g \in 1..Len(G) /\ r.i > 0
      /\ \A k \in 1..Len(r.cols) : k <= r.c => r.i <= Len(P[Col(G, r, k)].items)
      /\ \A k \in 1..Len(r.old) : LinkedIn(P, r.old[k])
      /\ r.old \in Seq(Versions) /\ r.c \in 1..Len(r.cols) /\ Len(r.cols) \in Nat
  BY AtColumnIs
<1>2. r.old \o << >> = r.old
  BY <1>1
<1>6. CASE r.c < Len(r.cols)
  <2>1. r.c + 1 \in Nat \ {0} /\ "column" \in Pcs
    BY <1>1 DEF Pcs, ScanPcs
  <2>2. q = [r EXCEPT !.pc = "column", !.c = r.c + 1, !.old = r.old, !.skip = TRUE]
    BY <1>2, <1>6 DEF Done
  <2>3. q \in Locals
    BY ONLY r \in Locals, <2>1, <2>2 DEF Locals
  <2>4. /\ SameStatement(r, q) /\ q.pc = "column" /\ q.c = r.c + 1 /\ q.old = r.old /\ q.g = r.g /\ q.i = r.i
        /\ q.skip = TRUE
    BY ONLY r \in Locals, <2>2 DEF Locals, SameStatement
  <2>5. RowAt(P, G, q)
    <3>1. ~Changing(q)
      BY <2>4 DEF Changing, Updating, UpdatePcs, ExtPcs, DeletePcs
    <3>2. \A k \in 1..Len(r.cols) : k < r.c + 1 => k <= r.c
      BY <1>1
    <3>3. \A k \in 1..Len(r.cols) : Col(G, q, k) = Col(G, r, k)
      BY <2>4 DEF Col, SameStatement
    <3> QED
      BY ONLY <1>1, <2>4, <3>1, <3>2, <3>3 DEF RowAt, SameStatement
  <2>6. /\ q.pc \in ScanPcs /\ q.c \in 1..Len(q.cols) /\ \A k \in 1..Len(q.old) : LinkedIn(P, q.old[k])
        /\ q.skip /\ q.pc # "walk" /\ q.pc # "found"
    BY <1>1, <1>6, <2>4 DEF ScanPcs, SameStatement
  <2> QED
    BY ONLY r \in Locals, Shape(P, G, r), <1>1, <2>3, <2>4, <2>5, <2>6, ScanShape
<1>7. CASE ~(r.c < Len(r.cols))
  <2>1. q = RowNext(r)
    BY <1>7 DEF Done
  <2> QED
    BY <1>1, <2>1, RowNextStep
<1> QED
  BY <1>6, <1>7

Back(r, seen, v) ==
  IF seen THEN Done(r, <<v>>)
  ELSE IF v.undo = NoPosition THEN Done(r, << >>)
  ELSE [r EXCEPT !.pc = "walk", !.pos = v.undo]

LEMMA BackStep ==
  ASSUME NEW P \in Files, NEW G \in Groups, NEW r \in Locals, Shape(P, G, r), AtColumn(P, G, r),
         Len(r.old) = r.c - 1, NEW v \in Versions, LinkedIn(P, v), NEW seen \in BOOLEAN,
         NEW q, q = Back(r, seen, v)
  PROVE  q \in Locals /\ Shape(P, G, q)
<1>1. CASE seen
  BY <1>1, FoundStep DEF Back
<1>2. CASE ~seen /\ v.undo = NoPosition
  BY <1>2, NotFoundStep DEF Back
<1>3. CASE ~seen /\ v.undo # NoPosition
  <2>1. /\ r.op \in {"update", "delete"} /\ r.pc # "idle" /\ r.g \in 1..Len(G) /\ r.i > 0
        /\ \A k \in 1..Len(r.cols) : k <= r.c => r.i <= Len(P[Col(G, r, k)].items)
        /\ \A k \in 1..Len(r.old) : LinkedIn(P, r.old[k])
        /\ r.old \in Seq(Versions) /\ r.c \in 1..Len(r.cols) /\ Len(r.cols) \in Nat
    BY AtColumnIs
  <2>2. "walk" \in Pcs /\ v.undo \in Positions /\ InPage(P, v.undo)
    BY <1>3 DEF Pcs, ScanPcs, Versions, LinkedIn
  <2>3. q = [r EXCEPT !.pc = "walk", !.pos = v.undo]
    BY <1>3 DEF Back
  <2>4. q \in Locals
    BY ONLY r \in Locals, <2>2, <2>3 DEF Locals
  <2>5. /\ SameStatement(r, q) /\ q.pc = "walk" /\ q.c = r.c /\ q.old = r.old /\ q.g = r.g /\ q.i = r.i
        /\ q.pos = v.undo
    BY ONLY r \in Locals, <2>3 DEF Locals, SameStatement
  <2>6. RowAt(P, G, q)
    <3>1. ~Changing(q)
      BY <2>5 DEF Changing, Updating, UpdatePcs, ExtPcs, DeletePcs
    <3> QED
      BY <2>1, <2>5, <3>1 DEF RowAt, Col, SameStatement
  <2>7. /\ q.pc \in ScanPcs /\ q.c \in 1..Len(q.cols) /\ \A k \in 1..Len(q.old) : LinkedIn(P, q.old[k])
        /\ Len(q.old) = q.c - 1 /\ InPage(P, q.pos) /\ q.pc # "column" /\ q.pc # "found"
    BY <2>1, <2>2, <2>5 DEF ScanPcs, SameStatement
  <2> QED
    BY ONLY r \in Locals, Shape(P, G, r), <2>1, <2>4, <2>5, <2>6, <2>7, ScanShape
<1> QED
  BY <1>1, <1>2, <1>3

LEMMA MatchStep ==
  ASSUME NEW P \in Files, NEW G \in Groups, NEW r \in Locals, Shape(P, G, r), r.pc = "found",
         NEW at \in Seq(Entries), Len(at) = Len(r.cols),
         NEW q, q = [r EXCEPT !.pc = IF r.op = "update" THEN "first" ELSE "delete", !.at = at]
  PROVE  q \in Locals /\ Shape(P, G, q)
<1>1. "first" \in Pcs /\ "delete" \in Pcs
  BY DEF Pcs, UpdatePcs, DeletePcs
<1>2. q \in Locals
  BY <1>1 DEF Locals
<1>3. /\ SameRow(r, q) /\ q.c = r.c /\ q.old = r.old /\ q.at = at
      /\ q.pc = IF r.op = "update" THEN "first" ELSE "delete"
  BY DEF Locals, SameRow
<1>4. /\ r.op \in {"update", "delete"} /\ r.op # "none" /\ r.xid \in 1..MaxStatements /\ r.high = r.xid
      /\ r.c \in 1..Len(r.cols) /\ Len(r.sizes) = Len(r.cols)
  BY DEF Shape, Statement, ScanPcs
<1>5. /\ q.pc \notin InsertPcs /\ q.pc \notin ScanPcs /\ q.pc \notin ExtPcs
      /\ q.pc \notin {"column", "walk", "found", "chain", "newrow", "startext", "extend"}
      /\ q.pc \in UpdatePcs => q.op = "update"
      /\ q.pc \in DeletePcs => q.op = "delete"
  BY <1>3, <1>4 DEF InsertPcs, ScanPcs, ExtPcs, UpdatePcs, DeletePcs, SameRow
<1>6. Statement(q)
  BY ONLY <1>3, <1>4, <1>5 DEF Statement, SameRow
<1>7. Inserting(G, q)
  BY <1>5 DEF Inserting, InsertPcs
<1>8. RowAt(P, G, q)
  <2>1. /\ r.g \in 1..Len(G) /\ r.i > 0
        /\ \A k \in 1..Len(r.cols) : r.i <= Len(P[Col(G, r, k)].items)
    BY DEF Shape, RowAt, Reading
  <2> QED
    BY <1>3, <2>1 DEF RowAt, Col, SameRow
<1>9. Scanned(P, G, q)
  <2>1. ~HasUndo(q) /\ ~HasCopy(q)
    BY <1>3 DEF HasUndo, HasCopy, Second, ExtPcs
  <2>2. Len(r.old) = Len(r.cols) /\ \A k \in 1..Len(r.old) : LinkedIn(P, r.old[k])
    BY DEF Shape, Scanned
  <2> QED
    BY ONLY <1>3, <1>5, <2>1, <2>2, Len(at) = Len(r.cols) DEF Scanned, SameRow
<1> QED
  BY <1>2, <1>6, <1>7, <1>8, <1>9 DEF Shape

\* Facts about a statement that changes the row it found.
LEMMA ChangingIs ==
  ASSUME NEW P \in Files, NEW G \in Groups, NEW r \in Locals, Shape(P, G, r),
         r.pc \in UpdatePcs \cup DeletePcs \/ (r.pc \in ExtPcs /\ r.op = "update")
  PROVE  /\ Changing(r) /\ r.pc # "idle" /\ r.g \in 1..Len(G) /\ r.i > 0 /\ r.i \in Nat
         /\ r.pc \in UpdatePcs => r.op = "update"
         /\ r.pc \in DeletePcs => r.op = "delete"
         /\ r.op \in {"update", "delete"}
         /\ r.c \in 1..Len(r.cols) /\ Len(r.cols) \in Nat /\ Len(r.sizes) = Len(r.cols)
         /\ Len(r.old) = Len(r.cols) /\ Len(r.at) = Len(r.cols)
         /\ Col(G, r, r.c) \in PageNos /\ r.i \in 1..Len(P[Col(G, r, r.c)].items)
         /\ r.old[r.c] \in Versions /\ LinkedIn(P, r.old[r.c]) /\ r.at[r.c] \in Entries
         /\ r.sizes[r.c] \in Nat /\ r.xid \in 1..MaxStatements
<1>1. /\ r.pc # "idle"
      /\ r.pc \in UpdatePcs => r.op = "update"
      /\ r.pc \in DeletePcs => r.op = "delete"
  BY DEF Shape, Statement, UpdatePcs, DeletePcs, ExtPcs
<1>2. Changing(r) /\ r.op \in {"update", "delete"}
  BY <1>1 DEF Changing, Updating
<1>3. /\ r.xid \in 1..MaxStatements /\ r.c \in 1..Len(r.cols) /\ Len(r.sizes) = Len(r.cols)
      /\ Len(r.cols) \in Nat
  BY <1>1, InStatement DEF Shape
<1>4. /\ r.g \in 1..Len(G) /\ r.i > 0
      /\ \A k \in 1..Len(r.cols) : r.i <= Len(P[Col(G, r, k)].items)
  BY <1>2 DEF Shape, RowAt
<1>5. /\ Len(r.old) = Len(r.cols) /\ Len(r.at) = Len(r.cols)
      /\ \A k \in 1..Len(r.old) : LinkedIn(P, r.old[k])
  BY <1>2 DEF Shape, Scanned
<1>6. /\ r.old \in Seq(Versions) /\ r.at \in Seq(Entries) /\ r.sizes \in Seq(Nat) /\ r.i \in Nat
  BY DEF Locals
<1>7. Col(G, r, r.c) \in PageNos
  BY <1>3, <1>4, ColIs
<1>8. Len(P[Col(G, r, r.c)].items) \in Nat
  BY <1>7 DEF Files, Pages
<1>9. r.i \in 1..Len(P[Col(G, r, r.c)].items)
  BY <1>3, <1>4, <1>6, <1>8
<1> QED
  BY ONLY <1>1, <1>2, <1>3, <1>4, <1>5, <1>6, <1>7, <1>9

LEMMA HeadStep ==
  ASSUME NEW P \in Files, NEW G \in Groups, NEW r \in Locals, Shape(P, G, r), r.pc \in {"first", "grow"},
         NEW k \in {"undo", "ext"}, k = "ext" <=> r.pc = "grow", NEW q,
         q = [r EXCEPT !.kind = k, !.num = 1,
                       !.pc = IF ChainHead(P[Col(G, r, r.c)], k) = INVALID_PAGE_NUM THEN "startext" ELSE "chain"]
  PROVE  q \in Locals /\ Shape(P, G, q)
<1>1. r.pc \in UpdatePcs \cup DeletePcs
  BY DEF UpdatePcs
<1>2. Changing(r) /\ r.pc # "idle" /\ r.c \in 1..Len(r.cols) /\ r.op = "update"
  BY <1>1, ChangingIs DEF UpdatePcs
<1>3. "startext" \in Pcs /\ "chain" \in Pcs
  BY DEF Pcs, UpdatePcs, ExtPcs
<1>4. q \in Locals
  BY <1>3 DEF Locals
<1>5. /\ SameChange(r, q) /\ q.c = r.c /\ q.kind = k /\ q.num = 1 /\ q.undo = r.undo /\ q.upos = r.upos
      /\ q.pc = IF ChainHead(P[Col(G, r, r.c)], k) = INVALID_PAGE_NUM THEN "startext" ELSE "chain"
  BY DEF Locals, SameChange, SameRow
<1>6. /\ Changing(q) /\ q.c \in 1..Len(q.cols) /\ q.op = "update" /\ q.pc \notin DeletePcs
      /\ q.pc # "extend" /\ q.pc # "newrow"
      /\ q.pc = "chain" => ChainHead(P[Col(G, q, q.c)], q.kind) # INVALID_PAGE_NUM
  BY <1>2, <1>5 DEF Changing, Updating, SameChange, SameRow, UpdatePcs, ExtPcs, DeletePcs, Col
<1>7. /\ HasUndo(q) => q.undo \in PageNos
      /\ HasCopy(q) => q.upos.page = q.undo /\ InPage(P, q.upos)
  <2>1. HasUndo(q) \/ HasCopy(q) => r.pc = "grow"
    BY <1>5 DEF HasUndo, HasCopy, Second
  <2>2. r.pc = "grow" => HasUndo(r) /\ HasCopy(r)
    BY <1>2 DEF HasUndo, HasCopy, Updating, UpdatePcs
  <2> QED
    BY <1>5, <2>1, <2>2 DEF Shape, Scanned
<1> QED
  BY ONLY r \in Locals, Shape(P, G, r), <1>2, <1>4, <1>5, <1>6, <1>7, ChangeShape

Got(r, p) ==
  IF r.kind = "undo" THEN [r EXCEPT !.pc = "origin", !.undo = p] ELSE [r EXCEPT !.pc = "newrow", !.new = p]

LEMMA GotStep ==
  ASSUME NEW P \in Files, NEW G \in Groups, NEW r \in Locals, Shape(P, G, r),
         r.pc = "chain" \/ (r.pc = "extend" /\ r.op = "update"), NEW p \in PageNos, NEW q, q = Got(r, p)
  PROVE  q \in Locals /\ Shape(P, G, q)
<1>1. Changing(r) /\ r.pc # "idle" /\ r.c \in 1..Len(r.cols) /\ r.op = "update"
  BY ChangingIs DEF UpdatePcs, ExtPcs
<1>2. "origin" \in Pcs /\ "newrow" \in Pcs /\ p \in PageOrNone /\ r.kind \in {"undo", "ext"}
  BY DEF Pcs, UpdatePcs, PageOrNone, Locals
<1>3. q \in Locals
  <2>1. CASE r.kind = "undo"
    <3>1. q = [r EXCEPT !.pc = "origin", !.undo = p]
      BY <2>1 DEF Got
    <3> QED
      BY ONLY r \in Locals, <1>2, <3>1 DEF Locals
  <2>2. CASE r.kind # "undo"
    <3>1. q = [r EXCEPT !.pc = "newrow", !.new = p]
      BY <2>2 DEF Got
    <3> QED
      BY ONLY r \in Locals, <1>2, <3>1 DEF Locals
  <2> QED
    BY <2>1, <2>2
<1>4. /\ SameChange(r, q) /\ q.c = r.c /\ q.kind = r.kind /\ q.upos = r.upos
      /\ r.kind = "undo" => q.pc = "origin" /\ q.undo = p
      /\ r.kind = "ext" => q.pc = "newrow" /\ q.new = p /\ q.undo = r.undo
  BY DEF Locals, Got, SameChange, SameRow
<1>5. /\ Changing(q) /\ q.c \in 1..Len(q.cols) /\ q.op = "update" /\ q.pc \notin DeletePcs
      /\ q.pc \notin {"startext", "extend", "chain"}
      /\ q.pc = "newrow" => q.new \in PageNos
  BY <1>1, <1>2, <1>4 DEF Changing, Updating, SameChange, SameRow, UpdatePcs, ExtPcs, DeletePcs
<1>6. /\ HasUndo(q) => q.undo \in PageNos
      /\ HasCopy(q) => q.upos.page = q.undo /\ InPage(P, q.upos)
  <2>1. CASE r.kind = "undo"
    BY <1>4, <2>1 DEF HasUndo, HasCopy, Second
  <2>2. CASE r.kind = "ext"
    <3>1. HasUndo(r) /\ HasCopy(r)
      BY <1>1, <2>2 DEF HasUndo, HasCopy, Second, Updating, UpdatePcs, ExtPcs
    <3> QED
      BY <1>4, <2>2, <3>1 DEF Shape, Scanned
  <2> QED
    BY <1>2, <2>1, <2>2
<1> QED
  BY ONLY r \in Locals, Shape(P, G, r), <1>1, <1>3, <1>4, <1>5, <1>6, ChangeShape

\* A step that only goes to another place, with what it needs there.
LEMMA GoStep ==
  ASSUME NEW P \in Files, NEW G \in Groups, NEW r \in Locals, Shape(P, G, r), NEW pc, NEW q,
         q = [r EXCEPT !.pc = pc],
         <<r.pc, pc>> \in {<<"chain", "startext">>, <<"origin", "undo">>, <<"undo", "move">>,
                           <<"delete", "remove">>}
  PROVE  q \in Locals /\ Shape(P, G, q)
<1>1. r.pc \in UpdatePcs \cup DeletePcs /\ pc \in Pcs
  BY DEF UpdatePcs, DeletePcs, ExtPcs, Pcs
<1>2. /\ Changing(r) /\ r.pc # "idle" /\ r.c \in 1..Len(r.cols)
      /\ r.pc \in UpdatePcs => r.op = "update"
      /\ r.pc \in DeletePcs => r.op = "delete"
  BY <1>1, ChangingIs
<1>3. q \in Locals
  BY <1>1 DEF Locals
<1>4. /\ SameChange(r, q) /\ q.c = r.c /\ q.kind = r.kind /\ q.upos = r.upos /\ q.undo = r.undo
      /\ q.num = r.num /\ q.pc = pc
  BY DEF Locals, SameChange, SameRow
<1>5. /\ q.pc \in UpdatePcs \cup ExtPcs => q.op = "update"
      /\ q.pc \in DeletePcs => q.op = "delete"
      /\ q.pc \notin {"chain", "extend", "newrow"}
      /\ q.c \in 1..Len(q.cols)
  BY <1>2, <1>4 DEF SameChange, SameRow, UpdatePcs, DeletePcs, ExtPcs
<1>6. Changing(q)
  BY <1>4, <1>5 DEF Changing, Updating, UpdatePcs, DeletePcs, ExtPcs
<1>7. q.pc \in {"startext", "chain"} => q.num = 1
  BY <1>2, <1>4 DEF Shape, Statement, Batch, UpdatePcs
<1>8. (HasUndo(q) => HasUndo(r)) /\ (HasCopy(q) => HasCopy(r))
  <2>1. CASE r.pc = "delete"
    BY <1>4, <2>1 DEF HasUndo, HasCopy, Updating, UpdatePcs, ExtPcs
  <2>2. CASE r.pc # "delete"
    <3>1. r.op = "update" /\ q.op = "update"
      BY <1>2, <1>4, <2>2 DEF UpdatePcs, SameChange, SameRow
    <3> QED
      BY <1>4, <2>2, <3>1 DEF HasUndo, HasCopy, Updating, UpdatePcs, ExtPcs, Second
  <2> QED
    BY <2>1, <2>2
<1>9. /\ HasUndo(q) => q.undo \in PageNos
      /\ HasCopy(q) => q.upos.page = q.undo /\ InPage(P, q.upos)
  BY <1>4, <1>8 DEF Shape, Scanned
<1> QED
  BY ONLY r \in Locals, Shape(P, G, r), <1>2, <1>3, <1>4, <1>5, <1>6, <1>7, <1>9, ChangeShape

LEMMA MoveStep ==
  ASSUME NEW P \in Files, NEW G \in Groups, NEW r \in Locals, Shape(P, G, r), r.pc = "move",
         NEW pc \in {"inplace", "grow"}, NEW u \in Positions, u.page = r.undo, InPage(P, u),
         NEW q, q = [r EXCEPT !.pc = pc, !.upos = u]
  PROVE  q \in Locals /\ Shape(P, G, q)
<1>1. r.pc \in UpdatePcs \cup DeletePcs /\ pc \in Pcs
  BY DEF UpdatePcs, Pcs
<1>2. Changing(r) /\ r.pc # "idle" /\ r.c \in 1..Len(r.cols) /\ r.op = "update"
  BY <1>1, ChangingIs DEF UpdatePcs
<1>3. q \in Locals
  BY <1>1 DEF Locals
<1>4. /\ SameChange(r, q) /\ q.c = r.c /\ q.undo = r.undo /\ q.pc = pc /\ q.upos = u
  BY DEF Locals, SameChange, SameRow
<1>5. /\ q.op = "update" /\ q.pc \notin DeletePcs
      /\ q.pc \notin {"startext", "chain", "extend", "newrow"}
      /\ q.c \in 1..Len(q.cols) /\ Changing(q)
  BY <1>2, <1>4 DEF SameChange, SameRow, Changing, Updating, UpdatePcs, DeletePcs
<1>6. q.undo \in PageNos /\ q.upos.page = q.undo /\ InPage(P, q.upos)
  BY <1>4 DEF InPage
<1> QED
  BY ONLY r \in Locals, Shape(P, G, r), <1>2, <1>3, <1>4, <1>5, <1>6, ChangeShape

LEMMA ColumnNextStep ==
  ASSUME NEW P \in Files, NEW G \in Groups, NEW r \in Locals, Shape(P, G, r), NEW pc,
         (r.pc \in {"inplace", "grow", "newrow"} /\ pc = "first") \/ (r.pc = "remove" /\ pc = "delete"),
         NEW q, q = ColumnNext(r, pc)
  PROVE  q \in Locals /\ Shape(P, G, q)
<1>1. r.pc \in UpdatePcs \cup DeletePcs /\ pc \in Pcs
  BY DEF UpdatePcs, DeletePcs, Pcs
<1>2. /\ Changing(r) /\ r.pc # "idle" /\ r.c \in 1..Len(r.cols) /\ r.g \in 1..Len(G)
      /\ r.pc \in UpdatePcs => r.op = "update"
      /\ r.pc \in DeletePcs => r.op = "delete"
      /\ r.op \in {"update", "delete"} /\ Len(r.cols) \in Nat
  BY <1>1, ChangingIs
<1>3. CASE r.c < Len(r.cols)
  <2>1. r.c + 1 \in Nat \ {0} /\ r.c + 1 \in 1..Len(r.cols)
    BY <1>2, <1>3
  <2>2. q = [r EXCEPT !.pc = pc, !.c = r.c + 1]
    BY <1>3 DEF ColumnNext
  <2>3. q \in Locals
    BY ONLY r \in Locals, <1>1, <2>1, <2>2 DEF Locals
  <2>4. SameChange(r, q) /\ q.c = r.c + 1 /\ q.pc = pc
    BY ONLY r \in Locals, <2>2 DEF Locals, SameChange, SameRow
  <2>5. /\ q.pc \in UpdatePcs \cup ExtPcs => q.op = "update"
        /\ q.pc \in DeletePcs => q.op = "delete"
        /\ q.pc \notin {"chain", "extend", "newrow", "startext"}
        /\ q.c \in 1..Len(q.cols)
    BY <1>2, <2>1, <2>4 DEF SameChange, SameRow, UpdatePcs, DeletePcs, ExtPcs
  <2>6. Changing(q) /\ ~HasUndo(q) /\ ~HasCopy(q)
    BY <2>4, <2>5 DEF Changing, Updating, UpdatePcs, DeletePcs, ExtPcs, HasUndo, HasCopy, Second
  <2> QED
    BY ONLY r \in Locals, Shape(P, G, r), <1>2, <2>3, <2>4, <2>5, <2>6, ChangeShape
<1>4. CASE ~(r.c < Len(r.cols))
  BY <1>2, <1>4, RowNextStep DEF ColumnNext
<1> QED
  BY <1>3, <1>4

-----------------------------------------------------------------------------
(* The first half of the invariant: types, and what each worker relies on *)

Inv1 == Types /\ Shapes

\* What a step of worker w leaves.
Step1(w) ==
  /\ s'[w] \in Locals /\ s' = [s EXCEPT ![w] = s'[w]] /\ Shape(pages', groups', s'[w])
  /\ pages' \in Files /\ Grows(pages, pages') /\ AllLinked(pages')
  /\ groups' \in Groups /\ Extends(groups, groups')
  /\ pageCnt' \in Nat \ {0} /\ savedCnt' \in 1..pageCnt'
  /\ locks' \in LockStates(Workers, Locks)
  /\ nextXid' \in 1..(MaxStatements + 1) /\ running' \in SUBSET (1..(nextXid' - 1)) /\ wild' \in BOOLEAN

LEMMA Step1Inv ==
  ASSUME Inv1, NEW w \in Workers, Step1(w)
  PROVE  Inv1'
<1>1. s' \in [Workers -> Locals] /\ \A u \in Workers \ {w} : s'[u] = s[u]
  BY DEF Inv1, Types, Step1
<1>2. Types'
  BY <1>1 DEF Types, Step1
<1>3. ASSUME NEW u \in Workers PROVE Shape(pages', groups', s'[u])
  <2>1. CASE u = w
    BY <2>1 DEF Step1
  <2>2. CASE u # w
    <3>1. s'[u] = s[u] /\ s[u] \in Locals /\ Shape(pages, groups, s[u])
      BY <1>1, <2>2 DEF Inv1, Types, Shapes
    <3>2. pages \in Files /\ pages' \in Files /\ Grows(pages, pages') /\ groups \in Groups
          /\ groups' \in Groups /\ Extends(groups, groups')
      BY DEF Inv1, Types, Step1
    <3>3. Shape(pages', groups', s[u])
      BY ONLY <3>1, <3>2, ShapeGrows
    <3> QED
      BY <3>1, <3>3
  <2> QED
    BY <2>1, <2>2
<1> QED
  BY <1>2, <1>3 DEF Inv1, Shapes, Step1

LEMMA LockTypes ==
  ASSUME locks \in LockStates(Workers, Locks), NEW w \in Workers
  PROVE  /\ \A l \in Locks, mode \in {READ, WRITE} :
              LockPage(w, l, mode) => locks' \in LockStates(Workers, Locks)
         /\ \A l \in Locks : Visit(w, l) => locks' \in LockStates(Workers, Locks)
         /\ \A ls \in Seq(Locks) : UnLockPages(w, ls) => locks' \in LockStates(Workers, Locks)
         /\ \A l \in Locks, ls \in Seq(Locks) : LockFor(w, l, ls) => locks' \in LockStates(Workers, Locks)
<1>1. \A l \in Locks, mode \in {READ, WRITE} :
        AcquireRWLockLocal(locks, w, l, mode) \in LockStates(Workers, Locks)
  BY AcquireIs
<1>2. \A l \in Locks : LockPage(w, l, READ) \/ LockPage(w, l, WRITE) => locks' \in LockStates(Workers, Locks)
  BY <1>1 DEF LockPage
<1>3. ASSUME NEW l \in Locks, Visit(w, l) PROVE locks' \in LockStates(Workers, Locks)
  <2>1. PICK M : M = AcquireRWLockLocal(locks, w, l, READ)
    OBVIOUS
  <2>2. M \in LockStates(Workers, Locks)
    BY <1>1, <2>1
  <2>3. locks' = ReleaseRWLockLocal(M, w, l)
    BY <1>3, <2>1 DEF Visit
  <2> QED
    BY ONLY <2>2, <2>3, ReleaseIs, w \in Workers, l \in Locks
<1>4. ASSUME NEW ls \in Seq(Locks), UnLockPages(w, ls) PROVE locks' \in LockStates(Workers, Locks)
  BY <1>4, ReleasedType DEF UnLockPages
<1>5. ASSUME NEW l \in Locks, NEW ls \in Seq(Locks), LockFor(w, l, ls) PROVE locks' \in LockStates(Workers, Locks)
  <2>1. PICK M : M = AcquireRWLockLocal(locks, w, l, WRITE)
    OBVIOUS
  <2>2. M \in LockStates(Workers, Locks)
    BY <1>1, <2>1
  <2>3. locks' = Released(M, w, ls)
    BY <1>5, <2>1 DEF LockFor
  <2> QED
    BY ONLY <2>2, <2>3, ReleasedType, w \in Workers, ls \in Seq(Locks)
<1> QED
  BY <1>1, <1>3, <1>4, <1>5 DEF LockPage

LEMMA LocksAre ==
  /\ ExtLock \in Locks
  /\ \A p \in PageNos : p \in Locks /\ p # ExtLock
  /\ \A ls \in Seq(PageNos) : ls \in Seq(Locks)
<1>1. ExtLock \in Locks /\ PageNos \subseteq Locks /\ \A p \in PageNos : p # ExtLock
  BY TableSpaceAssumption DEF Locks, ExtLock, PageNos
<1> QED
  BY <1>1

\* A step that leaves the file alone.
LEMMA QuietStep ==
  ASSUME Inv1, NEW w \in Workers, NEW q \in Locals, Shape(pages, groups, q), s' = [s EXCEPT ![w] = q],
         UNCHANGED <<pages, pageCnt, savedCnt, groups, nextXid, running, wild>>,
         locks' \in LockStates(Workers, Locks)
  PROVE  Step1(w) /\ s'[w] = q
<1>1. s'[w] = q
  BY DEF Inv1, Types
<1>2. Grows(pages, pages) /\ Extends(groups, groups)
  BY GrowsSame, ExtendsSame DEF Inv1, Types
<1> QED
  BY <1>1, <1>2 DEF Step1, Inv1, Types, Shapes

\* A step that writes pages.
LEMMA PageStep ==
  ASSUME Inv1, NEW w \in Workers, NEW q \in Locals, Shape(pages', groups, q), s' = [s EXCEPT ![w] = q],
         UNCHANGED <<pageCnt, savedCnt, groups, nextXid, running>>, wild' \in BOOLEAN,
         pages' \in Files, Grows(pages, pages'), AllLinked(pages'),
         locks' \in LockStates(Workers, Locks)
  PROVE  Step1(w) /\ s'[w] = q
<1>1. s'[w] = q
  BY DEF Inv1, Types
<1>2. Extends(groups, groups)
  BY ExtendsSame DEF Inv1, Types
<1> QED
  BY <1>1, <1>2 DEF Step1, Inv1, Types, Shapes

LEMMA Known ==
  ASSUME Inv1, NEW w \in Workers
  PROVE  /\ s[w] \in Locals /\ Shape(pages, groups, s[w]) /\ pages \in Files /\ groups \in Groups
         /\ AllLinked(pages) /\ locks \in LockStates(Workers, Locks)
  BY DEF Inv1, Types, Shapes

Begun(x, n, active, op, cols, sizes, pc) ==
  [Idle EXCEPT !.pc = pc, !.op = op, !.xid = x, !.high = n, !.active = active, !.cols = cols, !.sizes = sizes]

LEMMA IdleIs ==
  /\ Idle \in Locals
  /\ \A P, G : Shape(P, G, Idle)
<1>1. /\ INVALID_XTID \in Xids /\ NoPosition \in Positions /\ "idle" \in Pcs /\ "none" \in Ops
      /\ INVALID_PAGE_NUM \in PageOrNone /\ 1 \in Nat \ {0} /\ << >> \in Seq(Cols) /\ << >> \in Seq(Nat)
      /\ << >> \in Seq(PageNos) /\ << >> \in Seq(Versions) /\ << >> \in Seq(Entries) /\ {} \in SUBSET Xids
  BY DEF Xids, NoPosition, Positions, Pcs, Ops, PageOrNone
<1>2. Idle \in Locals
  BY <1>1 DEF Idle, Locals
<1>3. Idle.pc = "idle" /\ Idle.op = "none" /\ Idle.old = << >>
  BY DEF Idle
<1>4. ~Changing(Idle) /\ ~Reading(Idle) /\ ~HasUndo(Idle) /\ ~HasCopy(Idle)
  BY <1>3 DEF Changing, Reading, HasUndo, HasCopy, Updating, UpdatePcs, ExtPcs, DeletePcs
<1>5. ASSUME NEW P, NEW G PROVE Shape(P, G, Idle)
  BY <1>3, <1>4 DEF Shape, Statement, Inserting, RowAt, Scanned, ExtPcs
<1> QED
  BY <1>2, <1>5

Starting(op, pc, cols, sizes) ==
  /\ cols \in Seq(Cols) /\ sizes \in Seq(Nat) /\ Len(cols) > 0 /\ Len(sizes) = Len(cols)
  /\ \/ op = "insert" /\ pc = "group" /\ Len(cols) = NumCols
     \/ op \in {"update", "delete"} /\ pc = "scan"

LEMMA BeginStep ==
  ASSUME NEW P, NEW G, NEW x \in 1..MaxStatements, NEW active \in SUBSET Xids, NEW op, NEW pc,
         NEW cols, NEW sizes, Starting(op, pc, cols, sizes),
         NEW q, q = Begun(x, x, active, op, cols, sizes, pc)
  PROVE  q \in Locals /\ Shape(P, G, q) /\ q.pc = pc /\ q.op = op /\ q.xid = x /\ q.g = 0
<1>1. x \in Xids /\ x \in Nat /\ op \in Ops /\ pc \in Pcs
  BY ModifyAssumption DEF Xids, Ops, Pcs, InsertPcs, ScanPcs, Starting
<1>2. Idle \in Locals
  BY IdleIs
<1>3. q \in Locals
  BY ONLY q = Begun(x, x, active, op, cols, sizes, pc), active \in SUBSET Xids,
     Starting(op, pc, cols, sizes), <1>1, <1>2 DEF Begun, Locals, Starting
<1>4. /\ q.pc = pc /\ q.op = op /\ q.xid = x /\ q.high = x /\ q.cols = cols /\ q.sizes = sizes
      /\ q.c = 1 /\ q.plist = << >> /\ q.old = << >> /\ q.g = 0
  BY DEF Begun, Idle
<1>5. q.c \in 1..Len(q.cols)
  BY <1>4 DEF Starting
<1>6. Statement(q)
  BY <1>4, <1>5 DEF Starting, Statement, InsertPcs, ScanPcs, UpdatePcs, DeletePcs, ExtPcs
<1>7. Inserting(G, q)
  BY <1>4 DEF Starting, Inserting, ExtPcs
<1>8. ~Changing(q) /\ ~Reading(q) /\ ~HasUndo(q) /\ ~HasCopy(q)
  BY <1>4 DEF Starting, Changing, Reading, HasUndo, HasCopy, Updating, UpdatePcs, ExtPcs, DeletePcs
<1>9. RowAt(P, G, q) /\ Scanned(P, G, q)
  BY <1>4, <1>8 DEF RowAt, Scanned, Starting
<1> QED
  BY <1>3, <1>4, <1>6, <1>7, <1>9 DEF Shape

LEMMA Begin1 ==
  ASSUME Inv1, NEW w \in Workers, NEW op, NEW pc,
         NEW cols, NEW sizes, Starting(op, pc, cols, sizes),
         Begin(w, op, cols, sizes, pc)
  PROVE  /\ Step1(w) /\ s'[w].pc = pc /\ s'[w].op = op /\ s'[w].xid = nextXid /\ s'[w].g = 0
         /\ s[w].pc = "idle" /\ nextXid' = nextXid + 1 /\ running' = running \cup {nextXid}
         /\ UNCHANGED <<pages, pageCnt, savedCnt, groups, locks, wild>>
<1> DEFINE q == Begun(nextXid, nextXid, running, op, cols, sizes, pc)
<1>1. /\ s[w].pc = "idle" /\ nextXid <= MaxStatements /\ nextXid' = nextXid + 1
      /\ running' = running \cup {nextXid} /\ s' = [s EXCEPT ![w] = q]
      /\ UNCHANGED <<pages, pageCnt, savedCnt, groups, locks, wild>>
  BY DEF Begin, At, Begun
<1>2. nextXid \in 1..MaxStatements /\ running \in SUBSET Xids
  BY <1>1, ModifyAssumption DEF Inv1, Types, Xids
<1> HIDE DEF q
<1>3. q \in Locals /\ Shape(pages, groups, q) /\ q.pc = pc /\ q.op = op /\ q.xid = nextXid /\ q.g = 0
  <2>1. q = Begun(nextXid, nextXid, running, op, cols, sizes, pc)
    BY DEF q
  <2> QED
    BY ONLY <1>2, <2>1, BeginStep, Starting(op, pc, cols, sizes)
<1>4. s'[w] = q
  BY <1>1 DEF Inv1, Types
<1>5. Grows(pages, pages) /\ Extends(groups, groups)
  BY GrowsSame, ExtendsSame DEF Inv1, Types
<1>6. nextXid' \in 1..(MaxStatements + 1) /\ running' \in SUBSET (1..(nextXid' - 1))
  BY <1>1, <1>2, ModifyAssumption DEF Inv1, Types
<1> QED
  BY <1>1, <1>3, <1>4, <1>5, <1>6 DEF Step1, Inv1, Types, Shapes

LEMMA Starts ==
  ASSUME Inv1, NEW w \in Workers, StartInsert(w) \/ StartUpdate(w) \/ StartDelete(w)
  PROVE  /\ Step1(w) /\ s'[w].xid = nextXid /\ s'[w].g = 0
         /\ (s'[w].pc = "group" /\ s'[w].op = "insert") \/ (s'[w].pc = "scan" /\ s'[w].op \in {"update", "delete"})
         /\ s[w].pc = "idle" /\ nextXid' = nextXid + 1 /\ running' = running \cup {nextXid}
         /\ UNCHANGED <<pages, pageCnt, savedCnt, groups, locks, wild>>
<1>1. /\ AllCols \in Seq(Cols) /\ AllCols \in Seq(Nat) /\ Len(AllCols) = NumCols /\ NumCols > 0
  BY TableSpaceAssumption DEF AllCols, Cols
<1>2. CASE StartInsert(w)
  <2>1. PICK x \in Rows : Begin(w, "insert", AllCols, x, "group")
    BY <1>2 DEF StartInsert
  <2>2. x \in Seq(Nat) /\ Len(x) = NumCols
    BY ModifyAssumption, TableSpaceAssumption DEF Cols
  <2>3. Len(AllCols) > 0 /\ Len(x) = Len(AllCols)
    BY <1>1, <2>2
  <2> QED
    BY <1>1, <2>1, <2>2, <2>3, Begin1 DEF Starting
<1>3. CASE StartUpdate(w)
  <2>1. PICK u \in Updates : Begin(w, "update", u.cols, u.sizes, "scan")
    BY <1>3 DEF StartUpdate
  <2>2. u \in [cols : Seq(Cols), sizes : Seq(Nat \ {0})] /\ Len(u.cols) > 0
        /\ Len(u.sizes) = Len(u.cols)
    BY ModifyAssumption
  <2>3. u.cols \in Seq(Cols) /\ u.sizes \in Seq(Nat \ {0}) /\ PageRoom \in Nat
    BY <2>2, TableSpaceAssumption
  <2>4. u.sizes \in Seq(Nat)
    BY <2>3
  <2> QED
    BY <2>1, <2>2, <2>3, <2>4, Begin1 DEF Starting
<1>4. CASE StartDelete(w)
  BY <1>1, <1>4, Begin1 DEF StartDelete, Starting
<1> QED
  BY <1>2, <1>3, <1>4

LEMMA EndStatement1 ==
  ASSUME Inv1, NEW w \in Workers, EndStatement(w)
  PROVE  /\ Step1(w) /\ s'[w] = Idle /\ s[w].pc = "end" /\ running' = running \ {s[w].xid}
         /\ UNCHANGED <<pages, pageCnt, savedCnt, groups, locks, nextXid, wild>>
<1>1. s'[w] = Idle
  BY DEF EndStatement, Inv1, Types
<1>2. Grows(pages, pages) /\ Extends(groups, groups)
  BY GrowsSame, ExtendsSame DEF Inv1, Types
<1>3. running' \in SUBSET (1..(nextXid - 1))
  BY DEF EndStatement, Inv1, Types
<1> QED
  BY <1>1, <1>2, <1>3, IdleIs DEF EndStatement, At, Step1, Inv1, Types, Shapes

-----------------------------------------------------------------------------
(* The second half of the invariant: the use of the pages, and the locks *)

UseOK(P, r) ==
  /\ HasUndo(r) => P[r.undo].type = "undo"
  /\ r.pc = "newrow" => P[r.new].type = "ext"

\* A page is in one group at most, its type is that of a data page, the header page counts it.
GroupsOK(P, G, n) ==
  /\ \A g, h \in 1..Len(G), c, d \in Cols : G[g][c] = G[h][d] => g = h /\ c = d
  /\ \A g \in 1..Len(G), c \in Cols : G[g][c] <= n /\ P[G[g][c]].type = "data"

\* The pages of the chains likewise.
ChainsOK(P, n) ==
  /\ \A p \in PageNos : P[p].undo # INVALID_PAGE_NUM => P[p].undo <= n /\ P[P[p].undo].type = "undo"
  /\ \A p \in PageNos : P[p].ext # INVALID_PAGE_NUM => P[p].ext <= n /\ P[P[p].ext].type = "ext"
  /\ \A p, q \in PageNos : P[p].undo = P[q].undo => p = q \/ P[p].undo = INVALID_PAGE_NUM
  /\ \A p, q \in PageNos : P[p].ext = P[q].ext => p = q \/ P[p].ext = INVALID_PAGE_NUM

\* The pages that the header page does not count yet.
FreshFrom(P, n, m) == \A p \in PageNos : p > n => P[p] = IF p <= m THEN InitPage ELSE NoPage

\* Who extends the table.  While the disk has room there is one worker that does.
Extenders ==
  IF pageCnt <= MaxPages
  THEN /\ (\A w \in Workers : s[w].pc # "extend") => pageCnt = savedCnt
       /\ \A w \in Workers : s[w].pc = "extend" =>
            /\ pageCnt = savedCnt + Batch(s[w]) - s[w].num
            /\ s[w].num < Batch(s[w]) => s[w].last = pageCnt
  ELSE \A w \in Workers : s[w].pc = "extend" /\ s[w].num = 0 => s[w].last > MaxPages

Storage ==
  /\ GroupsOK(pages, groups, savedCnt) /\ ChainsOK(pages, savedCnt)
  /\ FreshFrom(pages, savedCnt, pageCnt) /\ Extenders
  /\ \A w \in Workers : UseOK(pages, s[w])

\* How often a worker has a lock: the pages of an insert, the page of the column that is changed,
\* the undo page, the extension lock.
Bit(b) == IF b THEN 1 ELSE 0
GroupLocks(r) ==
  IF r.pc = "lockgroup" THEN r.c - 1 ELSE IF r.pc \in {"check", "write"} THEN NumCols ELSE 0
OriginLocks(r) ==
  IF Updating(r) /\ r.pc \in {"chain", "startext", "extend"} THEN (IF r.kind = "ext" THEN 2 ELSE 1)
  ELSE IF r.pc \in {"undo", "move", "inplace", "grow", "newrow", "remove"} THEN 1 ELSE 0
UndoLocked(r) == (Updating(r) /\ Second(r)) \/ r.pc \in {"move", "inplace", "grow", "newrow"}

Count(G, r, l) ==
  Bit(\E k \in 1..GroupLocks(r) : r.plist[k] = l)
    + (IF OriginLocks(r) # 0 /\ l = Col(G, r, r.c) THEN OriginLocks(r) ELSE 0)
    + Bit(UndoLocked(r) /\ l = r.undo) + Bit(r.pc = "extend" /\ l = ExtLock)
Held(G, r) == [l \in Locks |-> Count(G, r, l)]
Num(r) == GroupLocks(r) + Bit(OriginLocks(r) # 0) + Bit(UndoLocked(r)) + Bit(r.pc = "extend")

LocksOK ==
  pageCnt <= MaxPages => \A w \in Workers : Has(locks, Locks, w, Held(groups, s[w]), Num(s[w]))

Inv == Inv1 /\ Storage /\ LocksOK

LEMMA FreshPagesAre ==
  /\ InitPage \in Pages /\ NoPage \in Pages
  /\ InitPage.type = "data" /\ InitPage.undo = 0 /\ InitPage.ext = 0 /\ InitPage.items = << >>
  /\ NoPage.type = "none" /\ NoPage.undo = 0 /\ NoPage.ext = 0 /\ NoPage.items = << >>
  /\ InitPage.free = PageRoom
<1>1. PageRoom \in Int /\ << >> \in Seq(Items)
  BY TableSpaceAssumption
<1> QED
  BY <1>1 DEF InitPage, NoPage, Pages, PageOrNone

\* A worker that extends the table, while the disk has room: it is the only one.
LEMMA OneExtender ==
  ASSUME Inv, pageCnt <= MaxPages, NEW v \in Workers, NEW w \in Workers,
         s[v].pc = "extend", s[w].pc = "extend"
  PROVE  v = w
<1>1. ASSUME NEW u \in Workers, s[u].pc = "extend"
      PROVE  locks.rw[ExtLock].writer = u
  <2>1. Has(locks, Locks, u, Held(groups, s[u]), Num(s[u]))
    BY DEF Inv, LocksOK
  <2>2. ExtLock \in Locks
    BY LocksAre
  <2>3. Held(groups, s[u]) \in [Locks -> Nat]
    BY <2>1 DEF Has
  <2>4. GroupLocks(s[u]) = 0
    BY <1>1 DEF GroupLocks
  <2>5. OriginLocks(s[u]) \in {0, 1, 2}
    BY DEF OriginLocks
  <2>6. Held(groups, s[u])[ExtLock] > 0
    BY <1>1, <2>2, <2>4, <2>5 DEF Held, Count, Bit
  <2> QED
    BY <2>1, <2>2, <2>6 DEF Has
<1> QED
  BY <1>1

\* The page that an update has added to the table is fresh, and so are the pages of an insert.
LEMMA Added ==
  ASSUME Inv, NEW w \in Workers, s[w].pc = "extend", s[w].num = 0, s[w].last \in PageNos
  PROVE  /\ pageCnt <= MaxPages /\ s[w].last = pageCnt /\ pageCnt = savedCnt + Batch(s[w])
         /\ \A p \in PageNos : p > savedCnt => pages[p] = InitPage \/ pages[p] = NoPage
         /\ pages[s[w].last] = InitPage
<1>1. s[w].last \in Nat /\ s[w].last <= MaxPages /\ MaxPages \in Nat /\ pageCnt \in Nat /\ savedCnt \in Nat
  BY TableSpaceAssumption DEF PageNos, Inv, Inv1, Types
<1>2. pageCnt <= MaxPages
  BY <1>1 DEF Inv, Storage, Extenders
<1>3. Batch(s[w]) \in Nat \ {0}
  BY TableSpaceAssumption DEF Batch
<1>4. pageCnt = savedCnt + Batch(s[w]) /\ s[w].last = pageCnt
  BY <1>1, <1>2, <1>3 DEF Inv, Storage, Extenders
<1> QED
  BY <1>1, <1>2, <1>3, <1>4 DEF Inv, Storage, FreshFrom

-----------------------------------------------------------------------------
(* The first half is preserved: the steps that leave the file alone *)

Quiet == UNCHANGED <<pages, pageCnt, savedCnt, groups, nextXid, running, wild>>

LEMMA NextGroup1 ==
  ASSUME Inv1, NEW w \in Workers, NextGroup(w)
  PROVE  /\ Step1(w) /\ s[w].pc = "group" /\ Quiet /\ locks' = locks
         /\ s'[w] = IF s[w].g < Len(groups) THEN [s[w] EXCEPT !.pc = "member", !.g = @ + 1]
                    ELSE [s[w] EXCEPT !.pc = "startext", !.g = 0, !.num = NumCols]
<1> DEFINE r == s[w]
           q == IF r.g < Len(groups) THEN [r EXCEPT !.pc = "member", !.g = @ + 1]
                ELSE [r EXCEPT !.pc = "startext", !.g = 0, !.num = NumCols]
<1>1. r \in Locals /\ Shape(pages, groups, r) /\ pages \in Files /\ groups \in Groups
      /\ locks \in LockStates(Workers, Locks)
  BY Known
<1>2. r.pc = "group" /\ s' = [s EXCEPT ![w] = q] /\ Quiet /\ locks' = locks
  BY DEF NextGroup, At, Quiet
<1>3. PICK n : n = q
  OBVIOUS
<1>4. n \in Locals /\ Shape(pages, groups, n)
  BY <1>1, <1>2, <1>3, NextGroupStep
<1>5. s' = [s EXCEPT ![w] = n]
  BY <1>2, <1>3
<1> HIDE DEF q
<1>6. Step1(w) /\ s'[w] = n
  BY <1>1, <1>2, <1>4, <1>5, QuietStep DEF Quiet
<1> QED
  BY <1>2, <1>3, <1>6 DEF q

LEMMA MemberPage1 ==
  ASSUME Inv1, NEW w \in Workers, MemberPage(w)
  PROVE  /\ Step1(w) /\ s[w].pc = "member" /\ Quiet
         /\ \E fits \in BOOLEAN : \E p \in PageNos :
              /\ Visit(w, p)
              /\ s'[w] = IF ~fits THEN [s[w] EXCEPT !.pc = "group", !.c = 1, !.plist = << >>]
                         ELSE IF s[w].c < NumCols THEN [s[w] EXCEPT !.c = @ + 1, !.plist = Append(@, p)]
                         ELSE [s[w] EXCEPT !.pc = "lockgroup", !.c = 1, !.plist = Append(@, p)]
<1> DEFINE r == s[w]
<1>1. r \in Locals /\ Shape(pages, groups, r) /\ pages \in Files /\ groups \in Groups
      /\ locks \in LockStates(Workers, Locks)
  BY Known
<1>2. PICK p : p = groups[r.g][r.c]
  OBVIOUS
<1>3. PICK fits \in BOOLEAN : fits <=> HasFreeSpace(pages[p], Room(w, r.c))
  BY DEF HasFreeSpace
<1>4. PICK q : q = IF ~fits THEN [r EXCEPT !.pc = "group", !.c = 1, !.plist = << >>]
                   ELSE IF r.c < NumCols THEN [r EXCEPT !.c = @ + 1, !.plist = Append(@, p)]
                   ELSE [r EXCEPT !.pc = "lockgroup", !.c = 1, !.plist = Append(@, p)]
  OBVIOUS
<1>5. r.pc = "member" /\ Visit(w, p) /\ Quiet
  BY <1>2 DEF MemberPage, At, Quiet
<1>6. s' = [s EXCEPT ![w] = q]
  BY <1>2, <1>3, <1>4 DEF MemberPage
<1>7. q \in Locals /\ Shape(pages, groups, q) /\ p \in PageNos
  BY <1>1, <1>2, <1>4, <1>5, MemberPageStep
<1>8. locks' \in LockStates(Workers, Locks)
  BY <1>1, <1>5, <1>7, LockTypes, LocksAre
<1>9. Step1(w) /\ s'[w] = q
  BY <1>5, <1>6, <1>7, <1>8, QuietStep DEF Quiet
<1> QED
  BY <1>4, <1>5, <1>7, <1>9

LEMMA LockGroupPages1 ==
  ASSUME Inv1, NEW w \in Workers, LockGroupPages(w)
  PROVE  /\ Step1(w) /\ s[w].pc = "lockgroup" /\ Quiet /\ LockPage(w, s[w].plist[s[w].c], WRITE)
         /\ s'[w] = IF s[w].c < NumCols THEN [s[w] EXCEPT !.c = @ + 1] ELSE [s[w] EXCEPT !.pc = "check", !.c = 1]
<1> DEFINE r == s[w]
<1>1. r \in Locals /\ Shape(pages, groups, r) /\ pages \in Files /\ groups \in Groups
      /\ locks \in LockStates(Workers, Locks)
  BY Known
<1>2. PICK q : q = IF r.c < NumCols THEN [r EXCEPT !.c = @ + 1] ELSE [r EXCEPT !.pc = "check", !.c = 1]
  OBVIOUS
<1>3. r.pc = "lockgroup" /\ LockPage(w, r.plist[r.c], WRITE) /\ Quiet
  BY DEF LockGroupPages, At, Quiet
<1>4. s' = [s EXCEPT ![w] = q]
  BY <1>2 DEF LockGroupPages
<1>5. q \in Locals /\ Shape(pages, groups, q)
  BY <1>1, <1>2, <1>3, LockGroupStep
<1>6. r.plist[r.c] \in PageNos
  BY <1>1, <1>3, InsertPages
<1>7. locks' \in LockStates(Workers, Locks)
  BY <1>1, <1>3, <1>6, LockTypes, LocksAre
<1>8. Step1(w) /\ s'[w] = q
  BY <1>3, <1>4, <1>5, <1>7, QuietStep DEF Quiet
<1> QED
  BY <1>2, <1>3, <1>8

LEMMA FreeSpaceCheck1 ==
  ASSUME Inv1, NEW w \in Workers, FreeSpaceCheck(w)
  PROVE  /\ Step1(w) /\ s[w].pc = "check" /\ Quiet
         /\ \/ /\ s'[w] = [s[w] EXCEPT !.pc = "write"] /\ locks' = locks
               /\ \A c \in Cols : HasFreeSpace(pages[s[w].plist[c]], Room(w, c))
            \/ s'[w] = [s[w] EXCEPT !.pc = "member", !.plist = << >>] /\ UnLockPages(w, s[w].plist)
<1> DEFINE r == s[w]
<1>1. r \in Locals /\ Shape(pages, groups, r) /\ pages \in Files /\ groups \in Groups
      /\ locks \in LockStates(Workers, Locks)
  BY Known
<1>2. r.pc = "check" /\ Quiet
  BY DEF FreeSpaceCheck, At, Quiet
<1>3. PICK q : /\ s' = [s EXCEPT ![w] = q]
               /\ \/ /\ q = [r EXCEPT !.pc = "write"] /\ locks' = locks
                     /\ \A c \in Cols : HasFreeSpace(pages[r.plist[c]], Room(w, c))
                  \/ q = [r EXCEPT !.pc = "member", !.plist = << >>] /\ UnLockPages(w, r.plist)
  BY DEF FreeSpaceCheck
<1>4. q \in Locals /\ Shape(pages, groups, q)
  BY <1>1, <1>2, <1>3, CheckStep
<1>5. r.plist \in Seq(PageNos)
  BY <1>1, <1>2, InsertPages
<1>6. locks' \in LockStates(Workers, Locks)
  BY <1>1, <1>3, <1>5, LockTypes, LocksAre
<1>7. Step1(w) /\ s'[w] = q
  BY <1>2, <1>3, <1>4, <1>6, QuietStep DEF Quiet
<1> QED
  BY <1>2, <1>3, <1>7

LEMMA StartExtension1 ==
  ASSUME Inv1, NEW w \in Workers, StartExtensionTbl(w)
  PROVE  /\ Step1(w) /\ s[w].pc = "startext" /\ Quiet /\ LockPage(w, ExtLock, WRITE)
         /\ s'[w] = [s[w] EXCEPT !.pc = "extend"]
<1> DEFINE r == s[w]
<1>1. r \in Locals /\ Shape(pages, groups, r) /\ pages \in Files /\ groups \in Groups
      /\ locks \in LockStates(Workers, Locks)
  BY Known
<1>2. PICK q : q = [r EXCEPT !.pc = "extend"]
  OBVIOUS
<1>3. r.pc = "startext" /\ LockPage(w, ExtLock, WRITE) /\ Quiet
  BY DEF StartExtensionTbl, At, Quiet
<1>4. s' = [s EXCEPT ![w] = q]
  BY <1>2 DEF StartExtensionTbl
<1>5. q \in Locals /\ Shape(pages, groups, q)
  BY <1>1, <1>2, <1>3, StartExtStep
<1>6. locks' \in LockStates(Workers, Locks)
  BY <1>1, <1>3, LockTypes, LocksAre
<1>7. Step1(w) /\ s'[w] = q
  BY <1>3, <1>4, <1>5, <1>6, QuietStep DEF Quiet
<1> QED
  BY <1>2, <1>3, <1>7

\* The operators that change the record of a worker.
LEMMA RecordSteps ==
  ASSUME s \in [Workers -> Locals], NEW w \in Workers
  PROVE  /\ NextRow(w) = [s EXCEPT ![w] = RowNext(s[w])]
         /\ \A found : ColumnDone(w, found) = [s EXCEPT ![w] = Done(s[w], found)]
         /\ \A p : GotPage(w, p) = [s EXCEPT ![w] = Got(s[w], p)]
         /\ \A pc : NextColumn(w, pc) = [s EXCEPT ![w] = ColumnNext(s[w], pc)]
<1>1. NextRow(w) = [s EXCEPT ![w] = RowNext(s[w])]
  BY DEF NextRow, RowNext
<1>2. ASSUME NEW found PROVE ColumnDone(w, found) = [s EXCEPT ![w] = Done(s[w], found)]
  <2>1. CASE s[w].c < Len(s[w].cols)
    BY <2>1 DEF ColumnDone, Done
  <2>2. CASE ~(s[w].c < Len(s[w].cols)) /\ found = << >>
    BY <1>1, <2>2 DEF ColumnDone, Done
  <2>3. CASE ~(s[w].c < Len(s[w].cols)) /\ found # << >>
    BY <2>3 DEF ColumnDone, Done
  <2> QED
    BY <2>1, <2>2, <2>3
<1>3. ASSUME NEW p PROVE GotPage(w, p) = [s EXCEPT ![w] = Got(s[w], p)]
  BY DEF GotPage, Got
<1>4. ASSUME NEW pc PROVE NextColumn(w, pc) = [s EXCEPT ![w] = ColumnNext(s[w], pc)]
  <2>1. CASE s[w].c < Len(s[w].cols)
    BY <2>1 DEF NextColumn, ColumnNext
  <2>2. CASE ~(s[w].c < Len(s[w].cols))
    BY <1>1, <2>2 DEF NextColumn, ColumnNext
  <2> QED
    BY <2>1, <2>2
<1> QED
  BY <1>1, <1>2, <1>3, <1>4

LEMMA OlderIs ==
  ASSUME s \in [Workers -> Locals], NEW w \in Workers, NEW v
  PROVE  \E seen \in BOOLEAN : (seen <=> Visible(w, v)) /\ Older(w, v) = [s EXCEPT ![w] = Back(s[w], seen, v)]
<1>1. PICK seen \in BOOLEAN : seen <=> Visible(w, v)
  BY DEF Visible
<1>2. Older(w, v) = [s EXCEPT ![w] = Back(s[w], seen, v)]
  <2>1. CASE seen
    BY <1>1, <2>1, RecordSteps DEF Older, Back
  <2>2. CASE ~seen /\ v.undo = NoPosition
    BY <1>1, <2>2, RecordSteps DEF Older, Back
  <2>3. CASE ~seen /\ v.undo # NoPosition
    BY <1>1, <2>3 DEF Older, Back
  <2> QED
    BY <2>1, <2>2, <2>3
<1> QED
  BY <1>1, <1>2

LEMMA ScanGroup1 ==
  ASSUME Inv1, NEW w \in Workers, ScanGroup(w)
  PROVE  /\ Step1(w) /\ s[w].pc = "scan" /\ Quiet /\ locks' = locks
         /\ \/ s[w].g < Len(groups) /\ s'[w] = GroupNext(s[w])
            \/ s'[w] = [s[w] EXCEPT !.pc = "end"]
<1> DEFINE r == s[w]
<1>1. r \in Locals /\ Shape(pages, groups, r) /\ pages \in Files /\ groups \in Groups
      /\ locks \in LockStates(Workers, Locks) /\ s \in [Workers -> Locals]
  BY Known DEF Inv1, Types
<1>2. r.pc = "scan" /\ Quiet /\ locks' = locks
  BY DEF ScanGroup, At, Quiet
<1>3. CASE r.g < Len(groups)
  <2>1. s' = [NextRow(w) EXCEPT ![w].g = @ + 1, ![w].i = 1]
    BY <1>3 DEF ScanGroup
  <2>2. s' = [s EXCEPT ![w] = GroupNext(r)]
    BY <1>1, <2>1, RecordSteps DEF GroupNext
  <2>3. PICK q : q = GroupNext(r)
    OBVIOUS
  <2>4. q \in Locals /\ Shape(pages, groups, q)
    BY <1>1, <1>2, <1>3, <2>3, GroupNextStep
  <2>5. Step1(w) /\ s'[w] = q
    BY <1>1, <1>2, <2>2, <2>3, <2>4, QuietStep DEF Quiet
  <2> QED
    BY <1>2, <1>3, <2>3, <2>5
<1>4. CASE ~(r.g < Len(groups))
  <2>1. PICK q : q = [r EXCEPT !.pc = "end"]
    OBVIOUS
  <2>2. s' = [s EXCEPT ![w] = q]
    BY <1>4, <2>1 DEF ScanGroup
  <2>3. q \in Locals /\ Shape(pages, groups, q)
    BY <1>1, <1>2, <2>1, EndShape
  <2>4. Step1(w) /\ s'[w] = q
    BY <1>1, <1>2, <2>2, <2>3, QuietStep DEF Quiet
  <2> QED
    BY <1>2, <2>1, <2>4
<1> QED
  BY <1>3, <1>4

LEMMA OriginIs ==
  ASSUME NEW w
  PROVE  Origin(w) = Col(groups, s[w], s[w].c)
  BY DEF Origin, Col

\* The version of entry i of a page.
LEMMA ItemIs ==
  ASSUME NEW P \in Files, AllLinked(P), NEW p \in PageNos, NEW i \in 1..Len(P[p].items)
  PROVE  P[p].items[i] \in Items /\ P[p].items[i].ver \in Versions /\ LinkedIn(P, P[p].items[i].ver)
<1>1. P[p].items[i] \in Items
  BY DEF Files, Pages
<1> QED
  BY <1>1 DEF AllLinked, Items

LEMMA ScanColumn1 ==
  ASSUME Inv1, NEW w \in Workers, ScanColumn(w)
  PROVE  /\ Step1(w) /\ s[w].pc = "column" /\ Quiet /\ Visit(w, Origin(w)) /\ Origin(w) \in PageNos
         /\ \/ s'[w] = [s[w] EXCEPT !.pc = "scan"]
            \/ s[w].i <= Len(pages[Origin(w)].items) /\ s'[w] = Done(s[w], << >>)
            \/ /\ s[w].i \in 1..Len(pages[Origin(w)].items) /\ ~s[w].skip
               /\ \E seen \in BOOLEAN :
                    LET v == pages[Origin(w)].items[s[w].i].ver
                    IN  (seen <=> Visible(w, v)) /\ s'[w] = Back(s[w], seen, v)
<1> DEFINE r == s[w]
           p == Col(groups, r, r.c)
           items == pages[p].items
<1>1. r \in Locals /\ Shape(pages, groups, r) /\ pages \in Files /\ groups \in Groups
      /\ locks \in LockStates(Workers, Locks) /\ s \in [Workers -> Locals] /\ AllLinked(pages)
  BY Known DEF Inv1, Types
<1>2. r.pc = "column" /\ Quiet /\ Visit(w, p) /\ Origin(w) = p
  BY OriginIs DEF ScanColumn, At, Quiet
<1>3. r.c \in 1..Len(r.cols) /\ r.g \in 1..Len(groups) /\ r.i > 0 /\ r.i \in Nat
  <2>1. Reading(r)
    BY <1>2 DEF Reading
  <2> QED
    BY <1>1, <1>2, <2>1 DEF Shape, Statement, RowAt, Locals
<1>4. p \in PageNos
  BY <1>1, <1>3, ColIs
<1>5. locks' \in LockStates(Workers, Locks)
  BY <1>1, <1>2, <1>4, LockTypes, LocksAre
<1>6. Len(items) \in Nat
  BY <1>1, <1>4 DEF Files, Pages
<1>7. s' = IF r.i > Len(items) THEN [s EXCEPT ![w].pc = "scan"]
           ELSE IF items[r.i].moved THEN [s EXCEPT ![w].pc = "scan"]
           ELSE IF r.skip THEN ColumnDone(w, << >>)
           ELSE Older(w, items[r.i].ver)
  BY <1>2 DEF ScanColumn
<1> HIDE DEF p
<1>8. CASE s' = [s EXCEPT ![w].pc = "scan"]
  <2>1. PICK q : q = [r EXCEPT !.pc = "scan"]
    OBVIOUS
  <2>2. s' = [s EXCEPT ![w] = q]
    BY <1>8, <2>1
  <2>3. q \in Locals /\ Shape(pages, groups, q)
    BY <1>1, <1>2, <2>1, ScanAgainStep
  <2>4. Step1(w) /\ s'[w] = q
    BY <1>2, <1>5, <2>2, <2>3, QuietStep DEF Quiet
  <2> QED
    BY <1>2, <1>4, <2>1, <2>4
<1>9. CASE r.i <= Len(items) /\ s' = ColumnDone(w, << >>)
  <2>1. PICK q : q = Done(r, << >>)
    OBVIOUS
  <2>2. s' = [s EXCEPT ![w] = q]
    BY <1>1, <1>9, <2>1, RecordSteps
  <2>3. AtColumn(pages, groups, r)
    BY <1>2, <1>9 DEF AtColumn, p
  <2>4. q \in Locals /\ Shape(pages, groups, q)
    BY <1>1, <2>1, <2>3, NotFoundStep
  <2>5. Step1(w) /\ s'[w] = q
    BY <1>2, <1>5, <2>2, <2>4, QuietStep DEF Quiet
  <2> QED
    BY <1>2, <1>4, <1>9, <2>1, <2>5
<1>10. CASE r.i <= Len(items) /\ ~r.skip /\ s' = Older(w, items[r.i].ver)
  <2>1. PICK v : v = items[r.i].ver
    OBVIOUS
  <2>2. PICK seen \in BOOLEAN : (seen <=> Visible(w, v)) /\ s' = [s EXCEPT ![w] = Back(r, seen, v)]
    BY <1>1, <1>10, <2>1, OlderIs
  <2>3. PICK q : q = Back(r, seen, v)
    OBVIOUS
  <2>4. AtColumn(pages, groups, r) /\ r.i \in 1..Len(items)
    BY <1>2, <1>3, <1>6, <1>10 DEF AtColumn, p
  <2>5. v \in Versions /\ LinkedIn(pages, v)
    BY <1>1, <1>4, <2>1, <2>4, ItemIs
  <2>6. Len(r.old) = r.c - 1
    BY <1>1, <1>2, <1>10 DEF Shape, Scanned
  <2>7. q \in Locals /\ Shape(pages, groups, q)
    BY <1>1, <2>3, <2>4, <2>5, <2>6, BackStep
  <2>8. Step1(w) /\ s'[w] = q
    BY <1>2, <1>5, <2>2, <2>3, <2>7, QuietStep DEF Quiet
  <2> QED
    BY <1>2, <1>4, <1>10, <2>1, <2>2, <2>3, <2>4, <2>8
<1> HIDE DEF r, items
<1>11. \/ s' = [s EXCEPT ![w].pc = "scan"]
       \/ r.i <= Len(items) /\ s' = ColumnDone(w, << >>)
       \/ r.i <= Len(items) /\ ~r.skip /\ s' = Older(w, items[r.i].ver)
  BY ONLY <1>3, <1>6, <1>7
<1> QED
  BY ONLY <1>8, <1>9, <1>10, <1>11

LEMMA CurrentRead1 ==
  ASSUME Inv1, NEW w \in Workers, CurrentReadVersion(w)
  PROVE  /\ Step1(w) /\ s[w].pc = "walk" /\ Visit(w, s[w].pos.page) /\ InPage(pages, s[w].pos)
         /\ UNCHANGED <<pages, pageCnt, savedCnt, groups, nextXid, running>>
         /\ \E seen \in BOOLEAN :
              LET v == pages[s[w].pos.page].items[s[w].pos.item].ver
              IN  (seen <=> Visible(w, v)) /\ s'[w] = Back(s[w], seen, v)
<1> DEFINE r == s[w]
<1>1. r \in Locals /\ Shape(pages, groups, r) /\ pages \in Files /\ groups \in Groups
      /\ locks \in LockStates(Workers, Locks) /\ s \in [Workers -> Locals] /\ AllLinked(pages)
  BY Known DEF Inv1, Types
<1>2. /\ r.pc = "walk" /\ Visit(w, r.pos.page)
      /\ UNCHANGED <<pages, pageCnt, savedCnt, groups, nextXid, running>>
  BY DEF CurrentReadVersion, At
<1>3. PICK v : v = pages[r.pos.page].items[r.pos.item].ver
  OBVIOUS
<1>4. s' = Older(w, v)
  BY <1>3 DEF CurrentReadVersion
<1>5. InPage(pages, r.pos) /\ Len(r.old) = r.c - 1
  BY <1>1, <1>2 DEF Shape, Scanned
<1>6. v \in Versions /\ LinkedIn(pages, v) /\ r.pos.page \in PageNos
  BY <1>1, <1>3, <1>5, ItemIs DEF InPage
<1>7. PICK seen \in BOOLEAN : (seen <=> Visible(w, v)) /\ s' = [s EXCEPT ![w] = Back(r, seen, v)]
  BY <1>1, <1>4, OlderIs
<1>8. PICK q : q = Back(r, seen, v)
  OBVIOUS
<1>9. AtColumn(pages, groups, r)
  <2>1. r.c \in 1..Len(r.cols) /\ r.pc # "column"
    BY <1>1, <1>2 DEF Shape, Statement
  <2> QED
    BY <1>1, <1>2, <2>1 DEF Shape, RowAt, Reading, AtColumn
<1>10. q \in Locals /\ Shape(pages, groups, q)
  BY <1>1, <1>5, <1>6, <1>8, <1>9, BackStep
<1>11. locks' \in LockStates(Workers, Locks)
  BY <1>1, <1>2, <1>6, LockTypes, LocksAre
<1>12. wild' \in BOOLEAN /\ Grows(pages, pages') /\ pages' \in Files /\ AllLinked(pages')
       /\ Shape(pages', groups, q)
  BY <1>1, <1>2, <1>10, GrowsSame DEF CurrentReadVersion, Overdrawn
<1>13. Step1(w) /\ s'[w] = q
  BY <1>2, <1>7, <1>8, <1>10, <1>11, <1>12, PageStep
<1> QED
  BY <1>2, <1>3, <1>5, <1>7, <1>8, <1>13

LEMMA RowMatches1 ==
  ASSUME Inv1, NEW w \in Workers, RowMatches(w)
  PROVE  /\ Step1(w) /\ s[w].pc = "found" /\ Quiet /\ locks' = locks
         /\ \E at \in Seq(Entries) :
              s'[w] = [s[w] EXCEPT !.pc = IF s[w].op = "update" THEN "first" ELSE "delete", !.at = at]
<1> DEFINE r == s[w]
           item(k) == pages[groups[r.g][r.cols[k]]].items[r.i]
           at == [k \in DOMAIN r.cols |-> [place |-> item(k).place, moved |-> item(k).moved]]
<1>1. r \in Locals /\ Shape(pages, groups, r) /\ pages \in Files /\ groups \in Groups
      /\ locks \in LockStates(Workers, Locks) /\ s \in [Workers -> Locals] /\ AllLinked(pages)
  BY Known DEF Inv1, Types
<1>2. r.pc = "found" /\ Quiet /\ locks' = locks
  BY DEF RowMatches, At, Quiet
<1>3. s' = [s EXCEPT ![w].pc = IF r.op = "update" THEN "first" ELSE "delete", ![w].at = at]
  BY DEF RowMatches
<1>4. /\ r.g \in 1..Len(groups) /\ r.i > 0 /\ r.i \in Nat /\ r.cols \in Seq(Cols)
      /\ \A k \in 1..Len(r.cols) : r.i <= Len(pages[Col(groups, r, k)].items)
  BY <1>1, <1>2 DEF Shape, RowAt, Reading, Locals
<1>5. ASSUME NEW k \in 1..Len(r.cols) PROVE item(k) \in Items
  <2>1. Col(groups, r, k) \in PageNos
    BY <1>1, <1>4, ColIs
  <2>2. Len(pages[Col(groups, r, k)].items) \in Nat
    BY <1>1, <2>1 DEF Files, Pages
  <2>3. r.i \in 1..Len(pages[Col(groups, r, k)].items)
    BY <1>4, <2>2
  <2>4. pages[Col(groups, r, k)].items[r.i] \in Items
    BY <1>1, <2>1, <2>3, ItemIs
  <2> QED
    BY <2>4 DEF Col
<1> HIDE DEF item
<1>6. at \in [1..Len(r.cols) -> Entries] /\ Len(r.cols) \in Nat
  BY <1>4, <1>5 DEF Items, Entries
<1>7. at \in Seq(Entries) /\ Len(at) = Len(r.cols)
  BY <1>6
<1> HIDE DEF at
<1>8. PICK q : q = [r EXCEPT !.pc = IF r.op = "update" THEN "first" ELSE "delete", !.at = at]
  OBVIOUS
<1>9. s' = [s EXCEPT ![w] = q]
  BY <1>3, <1>8
<1>10. q \in Locals /\ Shape(pages, groups, q)
  BY <1>1, <1>2, <1>7, <1>8, MatchStep
<1>11. Step1(w) /\ s'[w] = q
  BY <1>1, <1>2, <1>9, <1>10, QuietStep DEF Quiet
<1> QED
  BY <1>2, <1>7, <1>8, <1>11

LEMMA RowDiffers1 ==
  ASSUME Inv1, NEW w \in Workers, RowDiffers(w)
  PROVE  Step1(w) /\ s[w].pc = "found" /\ Quiet /\ locks' = locks /\ s'[w] = RowNext(s[w])
<1> DEFINE r == s[w]
<1>1. r \in Locals /\ Shape(pages, groups, r) /\ pages \in Files /\ groups \in Groups
      /\ locks \in LockStates(Workers, Locks) /\ s \in [Workers -> Locals]
  BY Known DEF Inv1, Types
<1>2. r.pc = "found" /\ Quiet /\ locks' = locks
  BY DEF RowDiffers, At, Quiet
<1>3. PICK q : q = RowNext(r)
  OBVIOUS
<1>4. s' = [s EXCEPT ![w] = q]
  BY <1>1, <1>3, RecordSteps DEF RowDiffers
<1>5. r.op \in {"update", "delete"} /\ r.pc # "idle" /\ r.g \in 1..Len(groups)
  BY <1>1, <1>2 DEF Shape, Statement, RowAt, Reading, ScanPcs
<1>6. q \in Locals /\ Shape(pages, groups, q)
  BY <1>1, <1>3, <1>5, RowNextStep
<1>7. Step1(w) /\ s'[w] = q
  BY <1>1, <1>2, <1>4, <1>6, QuietStep DEF Quiet
<1> QED
  BY <1>2, <1>3, <1>7

\* The step of an update or a delete that only takes or gives back locks.
LEMMA GoStep1 ==
  ASSUME Inv1, NEW w \in Workers, Quiet, locks' \in LockStates(Workers, Locks), NEW pc,
         s' = [s EXCEPT ![w].pc = pc],
         <<s[w].pc, pc>> \in {<<"chain", "startext">>, <<"origin", "undo">>, <<"undo", "move">>,
                              <<"delete", "remove">>}
         \/ (pc = "end" /\ s[w].pc # "idle")
  PROVE  Step1(w) /\ s'[w] = [s[w] EXCEPT !.pc = pc]
<1>1. s[w] \in Locals /\ Shape(pages, groups, s[w]) /\ pages \in Files /\ groups \in Groups
  BY Known
<1>2. PICK q : q = [s[w] EXCEPT !.pc = pc]
  OBVIOUS
<1>3. s' = [s EXCEPT ![w] = q]
  BY <1>2
<1>4. q \in Locals /\ Shape(pages, groups, q)
  <2>1. CASE pc = "end" /\ s[w].pc # "idle"
    BY <1>1, <1>2, <2>1, EndShape
  <2>2. CASE <<s[w].pc, pc>> \in {<<"chain", "startext">>, <<"origin", "undo">>, <<"undo", "move">>,
                                  <<"delete", "remove">>}
    BY <1>1, <1>2, <2>2, GoStep
  <2> QED
    BY <2>1, <2>2
<1>5. Step1(w) /\ s'[w] = q
  BY <1>3, <1>4, QuietStep DEF Quiet
<1> QED
  BY <1>2, <1>5

LEMMA OriginAt ==
  ASSUME Inv1, NEW w \in Workers,
         s[w].pc \in UpdatePcs \cup DeletePcs \/ (s[w].pc \in ExtPcs /\ s[w].op = "update")
  PROVE  /\ Origin(w) = Col(groups, s[w], s[w].c) /\ Origin(w) \in PageNos /\ Origin(w) \in Locks
         /\ s[w].i \in 1..Len(pages[Origin(w)].items)
         /\ HasUndo(s[w]) => s[w].undo \in PageNos /\ s[w].undo \in Locks
<1>1. s[w] \in Locals /\ Shape(pages, groups, s[w]) /\ pages \in Files /\ groups \in Groups
  BY Known
<1>2. Col(groups, s[w], s[w].c) \in PageNos /\ s[w].i \in 1..Len(pages[Col(groups, s[w], s[w].c)].items)
  BY <1>1, ChangingIs
<1>3. HasUndo(s[w]) => s[w].undo \in PageNos
  BY <1>1 DEF Shape, Scanned
<1> QED
  BY <1>2, <1>3, OriginIs, LocksAre

LEMMA LockFirstPage1 ==
  ASSUME Inv1, NEW w \in Workers, LockFirstPage(w)
  PROVE  /\ Step1(w) /\ s[w].pc = "first" /\ Quiet
         /\ \/ locks' = locks /\ s'[w] = [s[w] EXCEPT !.pc = "end"]
            \/ /\ LockPage(w, Origin(w), WRITE)
               /\ s'[w] = [s[w] EXCEPT !.kind = "undo", !.num = 1,
                             !.pc = IF ChainHead(pages[Col(groups, s[w], s[w].c)], "undo") = INVALID_PAGE_NUM
                                    THEN "startext" ELSE "chain"]
<1> DEFINE r == s[w]
           h == ChainHead(pages[Col(groups, r, r.c)], "undo")
<1>1. r \in Locals /\ Shape(pages, groups, r) /\ pages \in Files /\ groups \in Groups
      /\ locks \in LockStates(Workers, Locks) /\ s \in [Workers -> Locals]
  BY Known DEF Inv1, Types
<1>2. r.pc = "first" /\ Quiet
  BY DEF LockFirstPage, At, Quiet
<1>3. Origin(w) = Col(groups, r, r.c) /\ Origin(w) \in Locks
  BY <1>2, OriginAt DEF UpdatePcs
<1>4. CASE s' = [s EXCEPT ![w].pc = "end"] /\ locks' = locks
  <2>1. Step1(w) /\ s'[w] = [r EXCEPT !.pc = "end"]
    BY <1>1, <1>2, <1>4, GoStep1
  <2> QED
    BY <1>2, <1>4, <2>1
<1>5. CASE /\ LockPage(w, Origin(w), WRITE)
           /\ s' = [s EXCEPT ![w].kind = "undo", ![w].num = 1,
                             ![w].pc = IF pages[Origin(w)].undo = INVALID_PAGE_NUM THEN "startext" ELSE "chain"]
  <2>4. PICK q : q = [r EXCEPT !.kind = "undo", !.num = 1, !.pc = IF h = INVALID_PAGE_NUM THEN "startext" ELSE "chain"]
    OBVIOUS
  <2>5. s' = [s EXCEPT ![w] = q]
    BY <1>3, <1>5, <2>4 DEF ChainHead
  <2>6. q \in Locals /\ Shape(pages, groups, q)
    BY <1>1, <1>2, <2>4, HeadStep
  <2>7. locks' \in LockStates(Workers, Locks)
    BY <1>1, <1>3, <1>5, LockTypes
  <2>8. Step1(w) /\ s'[w] = q
    BY <1>2, <2>5, <2>6, <2>7, QuietStep DEF Quiet
  <2> QED
    BY <1>2, <1>5, <2>4, <2>8
<1> QED
  BY <1>4, <1>5 DEF LockFirstPage

LEMMA LockChainPage1 ==
  ASSUME Inv1, NEW w \in Workers, LockChainPage(w)
  PROVE  /\ Step1(w) /\ s[w].pc = "chain" /\ Quiet
         /\ \E p \in PageNos :
              /\ p = ChainHead(pages[Origin(w)], s[w].kind)
              /\ \/ /\ HasFreeSpace(pages[p], Needed(w)) /\ LockFor(w, p, <<p, Origin(w)>>)
                    /\ s'[w] = Got(s[w], p)
                 \/ LockFor(w, p, <<p>>) /\ s'[w] = [s[w] EXCEPT !.pc = "startext"]
<1> DEFINE r == s[w]
<1>1. r \in Locals /\ Shape(pages, groups, r) /\ pages \in Files /\ groups \in Groups
      /\ locks \in LockStates(Workers, Locks) /\ s \in [Workers -> Locals]
  BY Known DEF Inv1, Types
<1>2. r.pc = "chain" /\ Quiet
  BY DEF LockChainPage, At, Quiet
<1>3. Origin(w) = Col(groups, r, r.c) /\ Origin(w) \in PageNos /\ Origin(w) \in Locks
  BY <1>2, OriginAt DEF UpdatePcs
<1>4. PICK p : p = ChainHead(pages[Origin(w)], r.kind)
  OBVIOUS
<1>5. p \in PageNos
  <2>1. p # INVALID_PAGE_NUM
    BY <1>1, <1>2, <1>3, <1>4 DEF Shape, Scanned
  <2>2. p \in PageOrNone
    BY <1>1, <1>3, <1>4 DEF ChainHead, Files, Pages
  <2> QED
    BY <2>1, <2>2 DEF PageOrNone
<1>6. <<p>> \in Seq(Locks) /\ <<p, Origin(w)>> \in Seq(Locks) /\ p \in Locks
  BY <1>3, <1>5, LocksAre
<1>7. CASE HasFreeSpace(pages[p], Needed(w)) /\ LockFor(w, p, <<p, Origin(w)>>) /\ s' = GotPage(w, p)
  <2>1. PICK q : q = Got(r, p)
    OBVIOUS
  <2>2. s' = [s EXCEPT ![w] = q]
    BY <1>1, <1>7, <2>1, RecordSteps
  <2>3. q \in Locals /\ Shape(pages, groups, q)
    BY <1>1, <1>2, <1>5, <2>1, GotStep
  <2>4. locks' \in LockStates(Workers, Locks)
    BY <1>1, <1>6, <1>7, LockTypes
  <2>5. Step1(w) /\ s'[w] = q
    BY <1>2, <2>2, <2>3, <2>4, QuietStep DEF Quiet
  <2> QED
    BY <1>2, <1>4, <1>5, <1>7, <2>1, <2>5
<1>8. CASE LockFor(w, p, <<p>>) /\ s' = [s EXCEPT ![w].pc = "startext"]
  <2>1. locks' \in LockStates(Workers, Locks)
    BY <1>1, <1>6, <1>8, LockTypes
  <2>2. Step1(w) /\ s'[w] = [r EXCEPT !.pc = "startext"]
    BY <1>2, <1>8, <2>1, GoStep1
  <2> QED
    BY <1>2, <1>4, <1>5, <1>8, <2>2
<1> QED
  BY <1>4, <1>7, <1>8 DEF LockChainPage

LEMMA LockOrigin1 ==
  ASSUME Inv1, NEW w \in Workers, LockOrigin(w)
  PROVE  /\ Step1(w) /\ s[w].pc = "origin" /\ Quiet /\ LockPage(w, Origin(w), WRITE)
         /\ s'[w] = [s[w] EXCEPT !.pc = "undo"]
<1>1. s[w].pc = "origin" /\ Quiet /\ LockPage(w, Origin(w), WRITE) /\ s' = [s EXCEPT ![w].pc = "undo"]
  BY DEF LockOrigin, At, Quiet
<1>2. Origin(w) \in Locks
  BY <1>1, OriginAt DEF UpdatePcs
<1>3. locks' \in LockStates(Workers, Locks)
  BY <1>1, <1>2, LockTypes, Known
<1>4. Step1(w) /\ s'[w] = [s[w] EXCEPT !.pc = "undo"]
  BY <1>1, <1>3, GoStep1
<1> QED
  BY <1>1, <1>4

LEMMA LockUndo1 ==
  ASSUME Inv1, NEW w \in Workers, LockUndo(w)
  PROVE  /\ Step1(w) /\ s[w].pc = "undo" /\ Quiet
         /\ \/ /\ TupleUpdateSatisfy(Old(w)) /\ LockPage(w, s[w].undo, WRITE)
               /\ s'[w] = [s[w] EXCEPT !.pc = "move"]
            \/ LockFor(w, s[w].undo, <<s[w].undo, Origin(w)>>) /\ s'[w] = [s[w] EXCEPT !.pc = "end"]
<1>1. s[w].pc = "undo" /\ Quiet
  BY DEF LockUndo, At, Quiet
<1>2. s[w].op = "update" /\ locks \in LockStates(Workers, Locks)
  BY <1>1, Known DEF Shape, Statement, UpdatePcs
<1>3. HasUndo(s[w])
  BY <1>1, <1>2 DEF HasUndo, Updating, UpdatePcs
<1>4. Origin(w) \in Locks /\ s[w].undo \in Locks
  BY <1>1, <1>3, OriginAt DEF UpdatePcs
<1>5. CASE TupleUpdateSatisfy(Old(w)) /\ LockPage(w, s[w].undo, WRITE) /\ s' = [s EXCEPT ![w].pc = "move"]
  <2>1. locks' \in LockStates(Workers, Locks)
    BY <1>2, <1>4, <1>5, LockTypes
  <2>2. Step1(w) /\ s'[w] = [s[w] EXCEPT !.pc = "move"]
    BY <1>1, <1>5, <2>1, GoStep1
  <2> QED
    BY <1>1, <1>5, <2>2
<1>6. CASE LockFor(w, s[w].undo, <<s[w].undo, Origin(w)>>) /\ s' = [s EXCEPT ![w].pc = "end"]
  <2>1. <<s[w].undo, Origin(w)>> \in Seq(Locks)
    BY <1>4
  <2>2. locks' \in LockStates(Workers, Locks)
    BY <1>2, <1>4, <1>6, <2>1, LockTypes
  <2>3. Step1(w) /\ s'[w] = [s[w] EXCEPT !.pc = "end"]
    BY <1>1, <1>6, <2>2, GoStep1
  <2> QED
    BY <1>1, <1>6, <2>3
<1> QED
  BY <1>5, <1>6 DEF LockUndo

LEMMA LockForDelete1 ==
  ASSUME Inv1, NEW w \in Workers, LockForDelete(w)
  PROVE  /\ Step1(w) /\ s[w].pc = "delete" /\ Quiet
         /\ \/ /\ TupleUpdateSatisfy(Old(w)) /\ LockPage(w, Origin(w), WRITE)
               /\ s'[w] = [s[w] EXCEPT !.pc = "remove"]
            \/ LockFor(w, Origin(w), <<Origin(w)>>) /\ s'[w] = [s[w] EXCEPT !.pc = "end"]
<1>1. s[w].pc = "delete" /\ Quiet
  BY DEF LockForDelete, At, Quiet
<1>2. locks \in LockStates(Workers, Locks)
  BY Known
<1>3. Origin(w) \in Locks /\ <<Origin(w)>> \in Seq(Locks)
  BY <1>1, OriginAt DEF DeletePcs
<1>4. CASE TupleUpdateSatisfy(Old(w)) /\ LockPage(w, Origin(w), WRITE) /\ s' = [s EXCEPT ![w].pc = "remove"]
  <2>1. locks' \in LockStates(Workers, Locks)
    BY <1>2, <1>3, <1>4, LockTypes
  <2>2. Step1(w) /\ s'[w] = [s[w] EXCEPT !.pc = "remove"]
    BY <1>1, <1>4, <2>1, GoStep1
  <2> QED
    BY <1>1, <1>4, <2>2
<1>5. CASE LockFor(w, Origin(w), <<Origin(w)>>) /\ s' = [s EXCEPT ![w].pc = "end"]
  <2>1. locks' \in LockStates(Workers, Locks)
    BY <1>2, <1>3, <1>5, LockTypes
  <2>2. Step1(w) /\ s'[w] = [s[w] EXCEPT !.pc = "end"]
    BY <1>1, <1>5, <2>1, GoStep1
  <2> QED
    BY <1>1, <1>5, <2>2
<1> QED
  BY <1>4, <1>5 DEF LockForDelete

-----------------------------------------------------------------------------
(* The first half is preserved: the steps that write pages *)

Writes(P, Q, p, n) == Puts(P, Q, p, n) /\ Grows(P, Q) /\ AllLinked(Q) /\ SameHead(P[p], n)

LEMMA WritesIs ==
  ASSUME NEW P \in Files, AllLinked(P), NEW p \in PageNos, NEW n \in Pages, SameHead(P[p], n),
         Len(P[p].items) <= Len(n.items),
         \A j \in 1..Len(n.items) : LinkedIn(P, n.items[j].ver),
         NEW Q, Q = [P EXCEPT ![p] = n]
  PROVE  Writes(P, Q, p, n)
<1>1. Puts(P, Q, p, n)
  BY PutIs
<1>2. Q \in Files /\ Grows(P, Q)
  BY <1>1, PutGrows
<1>3. ASSUME NEW q \in PageNos, NEW j \in 1..Len(Q[q].items) PROVE LinkedIn(Q, Q[q].items[j].ver)
  <2>1. LinkedIn(P, Q[q].items[j].ver)
    BY <1>1 DEF Puts, AllLinked
  <2> QED
    BY <1>2, <2>1, LinkedGrows
<1> QED
  BY <1>1, <1>2, <1>3 DEF Writes, AllLinked

LEMMA AppendWrites ==
  ASSUME NEW P \in Files, AllLinked(P), NEW p \in PageNos, NEW v \in Versions, LinkedIn(P, v),
         NEW n, n = WriteRowOnePage(P[p], v), NEW Q, Q = [P EXCEPT ![p] = n]
  PROVE  Writes(P, Q, p, n) /\ Appended(P[p], n, v)
<1>1. P[p] \in Pages
  BY DEF Files
<1>2. Appended(P[p], n, v)
  BY <1>1, WriteRowIs
<1>3. /\ n \in Pages /\ SameHead(P[p], n) /\ Len(n.items) = Len(P[p].items) + 1 /\ Len(P[p].items) \in Nat
      /\ n.items[Len(P[p].items) + 1].ver = v
      /\ \A i \in 1..Len(P[p].items) : n.items[i] = P[p].items[i]
  BY <1>1, <1>2, PageFields DEF Appended, SameHead
<1>4. ASSUME NEW j \in 1..Len(n.items) PROVE LinkedIn(P, n.items[j].ver)
  <2>1. CASE j = Len(P[p].items) + 1
    BY <1>3, <2>1
  <2>2. CASE j # Len(P[p].items) + 1
    <3>1. j \in 1..Len(P[p].items)
      BY <1>3, <2>2
    <3> QED
      BY <1>3, <3>1 DEF AllLinked
  <2> QED
    BY <2>1, <2>2
<1>5. Len(P[p].items) <= Len(n.items)
  BY <1>3
<1> QED
  BY <1>2, <1>3, <1>4, <1>5, WritesIs

LEMMA RewriteWrites ==
  ASSUME NEW P \in Files, AllLinked(P), NEW p \in PageNos, NEW i \in 1..Len(P[p].items), NEW x,
         LinkedIn(P, x.ver), NEW n, Rewritten(P[p], n, i, x), NEW Q, Q = [P EXCEPT ![p] = n]
  PROVE  Writes(P, Q, p, n)
<1>1. P[p] \in Pages
  BY DEF Files
<1>2. /\ n \in Pages /\ SameHead(P[p], n) /\ Len(n.items) = Len(P[p].items) /\ Len(P[p].items) \in Nat
      /\ n.items[i] = x
      /\ \A j \in 1..Len(P[p].items) : j # i => n.items[j] = P[p].items[j]
  BY <1>1, PageFields DEF Rewritten, SameHead
<1>3. ASSUME NEW j \in 1..Len(n.items) PROVE LinkedIn(P, n.items[j].ver)
  BY <1>2 DEF AllLinked
<1>4. Len(P[p].items) <= Len(n.items)
  BY <1>2
<1> QED
  BY <1>2, <1>3, <1>4, WritesIs

LEMMA SameWrites ==
  ASSUME NEW P \in Files, AllLinked(P), NEW p \in PageNos, NEW n, n = P[p], NEW Q, Q = [P EXCEPT ![p] = n]
  PROVE  Writes(P, Q, p, n)
<1>1. P[p] \in Pages /\ Len(P[p].items) \in Nat
  BY DEF Files, Pages
<1>2. SameHead(P[p], n)
  BY <1>1 DEF SameHead
<1>3. Len(P[p].items) <= Len(n.items)
  BY <1>1
<1>4. \A j \in 1..Len(n.items) : LinkedIn(P, n.items[j].ver)
  BY DEF AllLinked
<1> QED
  BY <1>1, <1>2, <1>3, <1>4, WritesIs

\* A version that a statement writes.
LEMMA NewVersionIs ==
  ASSUME NEW row \in Xids, NEW size \in Nat, NEW xid \in Xids, NEW u \in Positions,
         NEW v, v = NewVersion(row, size, xid, u)
  PROVE  /\ v \in Versions /\ v.row = row /\ v.size = size /\ v.tmin = xid /\ v.tmax = INVALID_XTID
         /\ v.undo = u
<1>1. INVALID_XTID \in Xids
  BY DEF Xids
<1> QED
  BY <1>1 DEF NewVersion, Versions

LEMMA EndedIs ==
  ASSUME NEW v \in Versions, NEW x \in Xids, NEW e, e = Ended(v, x)
  PROVE  e \in Versions /\ e.row = v.row /\ e.size = v.size /\ e.tmin = v.tmin /\ e.tmax = x /\ e.undo = v.undo
  BY DEF Ended, Versions

LEMMA NoPositionIs == NoPosition \in Positions
  BY DEF NoPosition, Positions

LEMMA WriteColumn1 ==
  ASSUME Inv1, NEW w \in Workers, WriteColumn(w)
  PROVE  /\ Step1(w) /\ s[w].pc = "write" /\ UNCHANGED <<pageCnt, savedCnt, groups, nextXid, running, wild>>
         /\ \E v \in Versions, p \in PageNos, n \in Pages :
              /\ v = NewVersion(s[w].xid, s[w].sizes[s[w].c], s[w].xid, NoPosition)
              /\ p = s[w].plist[s[w].c] /\ Writes(pages, pages', p, n) /\ Appended(pages[p], n, v)
         /\ \/ s[w].c < NumCols /\ s'[w] = [s[w] EXCEPT !.c = @ + 1] /\ locks' = locks
            \/ s[w].c = NumCols /\ s'[w] = [s[w] EXCEPT !.pc = "end"] /\ UnLockPages(w, s[w].plist)
<1> DEFINE r == s[w]
<1>1. r \in Locals /\ Shape(pages, groups, r) /\ pages \in Files /\ groups \in Groups
      /\ locks \in LockStates(Workers, Locks) /\ s \in [Workers -> Locals] /\ AllLinked(pages)
  BY Known DEF Inv1, Types
<1>2. r.pc = "write" /\ UNCHANGED <<pageCnt, savedCnt, groups, nextXid, running, wild>>
  BY DEF WriteColumn, At
<1>3. PICK v : v = NewVersion(r.xid, r.sizes[r.c], r.xid, NoPosition)
  OBVIOUS
<1>4. PICK p : p = r.plist[r.c]
  OBVIOUS
<1>5. PICK n : n = WriteRowOnePage(pages[p], v)
  OBVIOUS
<1>6. pages' = [pages EXCEPT ![p] = n]
  BY <1>3, <1>4, <1>5 DEF WriteColumn
<1>7. p \in PageNos /\ r.plist \in Seq(PageNos)
  BY <1>1, <1>2, <1>4, InsertPages
<1>8. r.xid \in Xids /\ r.sizes[r.c] \in Nat
  <2>1. Statement(r)
    BY <1>1 DEF Shape
  <2> QED
    BY <1>1, <1>2, <2>1, InStatement DEF Locals
<1>9. v \in Versions /\ LinkedIn(pages, v)
  BY <1>3, <1>8, NewVersionIs, NoPositionIs DEF LinkedIn
<1>10. Writes(pages, pages', p, n) /\ Appended(pages[p], n, v)
  BY <1>1, <1>5, <1>6, <1>7, <1>9, AppendWrites
<1>11. pages' \in Files /\ Grows(pages, pages') /\ AllLinked(pages') /\ n \in Pages
  BY <1>10 DEF Writes, Puts, SameHead
<1>12. PICK q : /\ s' = [s EXCEPT ![w] = q]
                /\ \/ r.c < NumCols /\ q = [r EXCEPT !.c = @ + 1] /\ locks' = locks
                   \/ r.c = NumCols /\ q = [r EXCEPT !.pc = "end"] /\ UnLockPages(w, r.plist)
  BY DEF WriteColumn
<1>13. Shape(pages', groups, r)
  BY <1>1, <1>11, ShapeGrows, ExtendsSame
<1>14. q \in Locals /\ Shape(pages', groups, q)
  BY <1>1, <1>2, <1>11, <1>12, <1>13, WriteColumnStep
<1>15. locks' \in LockStates(Workers, Locks)
  BY <1>1, <1>7, <1>12, LockTypes, LocksAre
<1>16. wild' \in BOOLEAN
  BY <1>2 DEF Inv1, Types
<1>17. Step1(w) /\ s'[w] = q
  BY <1>2, <1>11, <1>12, <1>14, <1>15, <1>16, PageStep
<1> QED
  BY <1>2, <1>3, <1>4, <1>7, <1>9, <1>10, <1>11, <1>12, <1>17

\* What a statement that changes a row has at hand.
LEMMA ChangeAt ==
  ASSUME Inv1, NEW w \in Workers, s[w].pc \in {"move", "inplace", "grow", "newrow", "remove"}
  PROVE  /\ Old(w) = s[w].old[s[w].c] /\ Old(w) \in Versions /\ LinkedIn(pages, Old(w))
         /\ Entry(w) \in Entries /\ s[w].xid \in Xids /\ s[w].sizes[s[w].c] \in Nat
         /\ Origin(w) = Col(groups, s[w], s[w].c) /\ Origin(w) \in PageNos /\ Origin(w) \in Locks
         /\ s[w].i \in 1..Len(pages[Origin(w)].items)
         /\ s[w].pc # "remove" => HasUndo(s[w]) /\ s[w].undo \in PageNos /\ s[w].undo \in Locks
         /\ s[w].pc \in {"inplace", "grow", "newrow"} =>
              Changed(w) \in Versions /\ LinkedIn(pages, Changed(w))
<1> DEFINE r == s[w]
<1>1. r \in Locals /\ Shape(pages, groups, r) /\ pages \in Files /\ groups \in Groups
      /\ locks \in LockStates(Workers, Locks)
  BY Known
<1>2. r.pc \in UpdatePcs \cup DeletePcs
  BY DEF UpdatePcs, DeletePcs
<1>3. /\ r.old[r.c] \in Versions /\ LinkedIn(pages, r.old[r.c]) /\ r.at[r.c] \in Entries
      /\ r.sizes[r.c] \in Nat
  BY <1>1, <1>2, ChangingIs
<1>4. r.xid \in Xids
  BY <1>1 DEF Locals
<1>5. /\ Origin(w) = Col(groups, r, r.c) /\ Origin(w) \in PageNos /\ Origin(w) \in Locks
      /\ r.i \in 1..Len(pages[Origin(w)].items)
      /\ HasUndo(r) => r.undo \in PageNos /\ r.undo \in Locks
  BY <1>2, OriginAt
<1>6. r.pc # "remove" => HasUndo(r)
  BY <1>1, ChangingIs DEF HasUndo, Updating, UpdatePcs
<1>7. ASSUME r.pc \in {"inplace", "grow", "newrow"}
      PROVE  Changed(w) \in Versions /\ LinkedIn(pages, Changed(w))
  <2>1. HasCopy(r)
    BY <1>1, <1>7, ChangingIs DEF HasCopy, Updating, UpdatePcs
  <2>2. InPage(pages, r.upos) /\ r.upos \in Positions
    BY <1>1, <2>1 DEF Shape, Scanned, Locals
  <2>3. PICK v : v = NewVersion(r.old[r.c].row, r.sizes[r.c], r.xid, r.upos)
    OBVIOUS
  <2>4. r.old[r.c].row \in Xids
    BY <1>3 DEF Versions
  <2>5. v \in Versions /\ v.undo = r.upos
    BY ONLY <1>3, <1>4, <2>2, <2>3, <2>4, NewVersionIs
  <2>6. Changed(w) = v
    BY <2>3 DEF Changed, Old
  <2> QED
    BY <2>2, <2>5, <2>6 DEF LinkedIn
<1>8. Old(w) = r.old[r.c] /\ Entry(w) = r.at[r.c]
  BY DEF Old, Entry
<1>9. s[w] = r
  OBVIOUS
<1> HIDE DEF r
<1> QED
  BY ONLY <1>3, <1>4, <1>5, <1>6, <1>7, <1>8, <1>9

LEMMA MoveOld1 ==
  ASSUME Inv1, NEW w \in Workers, MoveOld(w)
  PROVE  /\ Step1(w) /\ s[w].pc = "move" /\ UNCHANGED <<pageCnt, savedCnt, groups, locks, nextXid, running>>
         /\ \E n \in Pages, pc \in {"inplace", "grow"}, u \in Positions :
              /\ Writes(pages, pages', s[w].undo, n) /\ Appended(pages[s[w].undo], n, Ended(Old(w), s[w].xid))
              /\ u = [page |-> s[w].undo, item |-> Len(n.items)]
              /\ s'[w] = [s[w] EXCEPT !.pc = pc, !.upos = u]
<1> DEFINE r == s[w]
<1>1. r \in Locals /\ Shape(pages, groups, r) /\ pages \in Files /\ groups \in Groups
      /\ locks \in LockStates(Workers, Locks) /\ s \in [Workers -> Locals] /\ AllLinked(pages)
  BY Known DEF Inv1, Types
<1>2. r.pc = "move" /\ UNCHANGED <<pageCnt, savedCnt, groups, locks, nextXid, running>>
  BY DEF MoveOld, At
<1>3. Old(w) \in Versions /\ LinkedIn(pages, Old(w)) /\ r.xid \in Xids /\ r.undo \in PageNos
  BY <1>2, ChangeAt
<1>4. PICK v : v = Ended(Old(w), r.xid)
  OBVIOUS
<1>5. PICK n : n = WriteRowOnePage(pages[r.undo], v)
  OBVIOUS
<1>6. pages' = [pages EXCEPT ![r.undo] = n] /\ wild' \in BOOLEAN
  BY <1>4, <1>5 DEF MoveOld, Underruns
<1>7. v \in Versions /\ LinkedIn(pages, v)
  BY <1>3, <1>4, EndedIs DEF LinkedIn
<1>8. Writes(pages, pages', r.undo, n) /\ Appended(pages[r.undo], n, v)
  BY <1>1, <1>3, <1>5, <1>6, <1>7, AppendWrites
<1>9. /\ pages' \in Files /\ Grows(pages, pages') /\ AllLinked(pages') /\ n \in Pages /\ pages'[r.undo] = n
      /\ pages[r.undo] \in Pages
  BY <1>1, <1>3, <1>8 DEF Writes, Puts, SameHead, Files
<1>10. Len(n.items) \in Nat /\ Len(n.items) > 0
  BY <1>8, <1>9, PageFields DEF Appended
<1>11. PICK u : u = [page |-> r.undo, item |-> Len(n.items)]
  OBVIOUS
<1>12. u \in Positions /\ u.page = r.undo /\ InPage(pages', u)
  BY <1>3, <1>9, <1>10, <1>11 DEF Positions, InPage
<1>13. PICK pc \in {"inplace", "grow"} : pc = IF r.sizes[r.c] <= Old(w).size THEN "inplace" ELSE "grow"
  OBVIOUS
<1>14. PICK q : q = [r EXCEPT !.pc = pc, !.upos = u]
  OBVIOUS
<1>15. s' = [s EXCEPT ![w] = q]
  BY <1>4, <1>5, <1>11, <1>13, <1>14 DEF MoveOld
<1>16. Shape(pages', groups, r)
  BY <1>1, <1>9, ShapeGrows, ExtendsSame
<1>17. q \in Locals /\ Shape(pages', groups, q)
  BY <1>1, <1>2, <1>9, <1>12, <1>13, <1>14, <1>16, MoveStep
<1>19. Step1(w) /\ s'[w] = q
  BY <1>1, <1>2, <1>6, <1>9, <1>15, <1>17, PageStep
<1> QED
  BY <1>2, <1>4, <1>8, <1>9, <1>11, <1>12, <1>13, <1>14, <1>19

\* A step that writes a version in place, and goes on to the next column.
LEMMA ReplaceStep1 ==
  ASSUME Inv1, NEW w \in Workers, NEW pc,
         (s[w].pc \in {"inplace"} /\ pc = "first") \/ (s[w].pc = "remove" /\ pc = "delete"),
         NEW v \in Versions, LinkedIn(pages, v),
         pages' = [pages EXCEPT ![Origin(w)] = ReplaceRowData(@, s[w].i, Entry(w).place, v)],
         s' = NextColumn(w, pc), locks' \in LockStates(Workers, Locks), wild' = Entry(w).moved,
         UNCHANGED <<pageCnt, savedCnt, groups, nextXid, running>>
  PROVE  /\ Step1(w) /\ s'[w] = ColumnNext(s[w], pc)
         /\ \E n \in Pages :
              /\ Writes(pages, pages', Origin(w), n) /\ n.free = pages[Origin(w)].free
              /\ \/ n = pages[Origin(w)]
                 \/ Rewritten(pages[Origin(w)], n, s[w].i, WithVer(pages[Origin(w)].items[s[w].i], v))
<1> DEFINE r == s[w]
<1>1. r \in Locals /\ Shape(pages, groups, r) /\ pages \in Files /\ groups \in Groups
      /\ locks \in LockStates(Workers, Locks) /\ s \in [Workers -> Locals] /\ AllLinked(pages)
  BY Known DEF Inv1, Types
<1>2. PICK p : p = Origin(w)
  OBVIOUS
<1>3. p \in PageNos /\ r.i \in 1..Len(pages[p].items) /\ Entry(w) \in Entries
  BY <1>2, ChangeAt
<1>4. PICK n : n = ReplaceRowData(pages[p], r.i, Entry(w).place, v)
  OBVIOUS
<1>5. pages' = [pages EXCEPT ![p] = n]
  BY <1>2, <1>4
<1>6. pages[p] \in Pages /\ pages[p].items[r.i] \in Items
  BY <1>1, <1>3, ItemIs DEF Files
<1>7. PICK x : x = WithVer(pages[p].items[r.i], v)
  OBVIOUS
<1>8. x.ver = v
  BY <1>6, <1>7, EntryIs
<1>9. SameHead(pages[p], n) /\ n.free = pages[p].free /\ (n = pages[p] \/ Rewritten(pages[p], n, r.i, x))
  BY <1>3, <1>4, <1>6, <1>7, ReplaceIs
<1>10. Writes(pages, pages', p, n)
  <2>1. CASE n = pages[p]
    BY <1>1, <1>3, <1>5, <2>1, SameWrites
  <2>2. CASE Rewritten(pages[p], n, r.i, x)
    BY <1>1, <1>3, <1>5, <1>8, <2>2, RewriteWrites
  <2> QED
    BY <1>9, <2>1, <2>2
<1>11. pages' \in Files /\ Grows(pages, pages') /\ AllLinked(pages') /\ n \in Pages
  BY <1>10 DEF Writes, Puts, SameHead
<1>12. PICK q : q = ColumnNext(r, pc)
  OBVIOUS
<1>13. s' = [s EXCEPT ![w] = q]
  BY <1>1, <1>12, RecordSteps
<1>14. Shape(pages', groups, r)
  BY <1>1, <1>11, ShapeGrows, ExtendsSame
<1>15. q \in Locals /\ Shape(pages', groups, q)
  BY <1>1, <1>11, <1>12, <1>14, ColumnNextStep
<1>16. wild' \in BOOLEAN
  BY <1>3 DEF Entries
<1>17. Step1(w) /\ s'[w] = q
  BY <1>11, <1>13, <1>15, <1>16, PageStep
<1> QED
  BY <1>2, <1>7, <1>9, <1>10, <1>11, <1>12, <1>17

LEMMA WriteInPlace1 ==
  ASSUME Inv1, NEW w \in Workers, WriteInPlace(w)
  PROVE  /\ Step1(w) /\ s[w].pc = "inplace" /\ UNCHANGED <<pageCnt, savedCnt, groups, nextXid, running>>
         /\ s'[w] = ColumnNext(s[w], "first") /\ UnLockPages(w, <<s[w].undo, Origin(w)>>)
         /\ \E n \in Pages :
              /\ Writes(pages, pages', Origin(w), n) /\ n.free = pages[Origin(w)].free
              /\ \/ n = pages[Origin(w)]
                 \/ Rewritten(pages[Origin(w)], n, s[w].i, WithVer(pages[Origin(w)].items[s[w].i], Changed(w)))
<1>1. /\ s[w].pc = "inplace" /\ UNCHANGED <<pageCnt, savedCnt, groups, nextXid, running>>
      /\ UnLockPages(w, <<s[w].undo, Origin(w)>>) /\ wild' = Entry(w).moved /\ s' = NextColumn(w, "first")
      /\ pages' = [pages EXCEPT ![Origin(w)] = ReplaceRowData(@, s[w].i, Entry(w).place, Changed(w))]
  BY DEF WriteInPlace, At
<1>2. /\ Changed(w) \in Versions /\ LinkedIn(pages, Changed(w)) /\ s[w].undo \in Locks
      /\ Origin(w) \in Locks /\ locks \in LockStates(Workers, Locks)
  BY <1>1, ChangeAt, Known
<1>3. <<s[w].undo, Origin(w)>> \in Seq(Locks)
  BY <1>2
<1>4. locks' \in LockStates(Workers, Locks)
  BY <1>1, <1>2, <1>3, LockTypes
<1> QED
  BY <1>1, <1>2, <1>4, ReplaceStep1

LEMMA Remove1 ==
  ASSUME Inv1, NEW w \in Workers, Remove(w)
  PROVE  /\ Step1(w) /\ s[w].pc = "remove" /\ UNCHANGED <<pageCnt, savedCnt, groups, nextXid, running>>
         /\ s'[w] = ColumnNext(s[w], "delete") /\ UnLockPages(w, <<Origin(w)>>)
         /\ \E n \in Pages :
              /\ Writes(pages, pages', Origin(w), n) /\ n.free = pages[Origin(w)].free
              /\ \/ n = pages[Origin(w)]
                 \/ Rewritten(pages[Origin(w)], n, s[w].i,
                              WithVer(pages[Origin(w)].items[s[w].i], Ended(Old(w), s[w].xid)))
<1>1. /\ s[w].pc = "remove" /\ UNCHANGED <<pageCnt, savedCnt, groups, nextXid, running>>
      /\ UnLockPages(w, <<Origin(w)>>) /\ wild' = Entry(w).moved /\ s' = NextColumn(w, "delete")
      /\ pages' = [pages EXCEPT ![Origin(w)] =
                     ReplaceRowData(@, s[w].i, Entry(w).place, Ended(Old(w), s[w].xid))]
  BY DEF Remove, At
<1>2. Old(w) \in Versions /\ LinkedIn(pages, Old(w)) /\ s[w].xid \in Xids /\ Origin(w) \in Locks
  BY <1>1, ChangeAt
<1>3. Ended(Old(w), s[w].xid) \in Versions /\ LinkedIn(pages, Ended(Old(w), s[w].xid))
  BY <1>2, EndedIs DEF LinkedIn
<1>4. <<Origin(w)>> \in Seq(Locks) /\ locks \in LockStates(Workers, Locks)
  BY <1>2, Known
<1>5. locks' \in LockStates(Workers, Locks)
  BY <1>1, <1>4, LockTypes
<1> QED
  BY <1>1, <1>3, <1>5, ReplaceStep1

LEMMA GrowsTrans ==
  ASSUME NEW P \in Files, NEW M \in Files, NEW Q \in Files, Grows(P, M), Grows(M, Q)
  PROVE  Grows(P, Q)
<1>1. \A p \in PageNos : Len(P[p].items) \in Nat /\ Len(M[p].items) \in Nat /\ Len(Q[p].items) \in Nat
  BY DEF Files, Pages
<1> QED
  BY <1>1 DEF Grows

LEMMA Grow1 ==
  ASSUME Inv1, NEW w \in Workers, Grow(w)
  PROVE  /\ Step1(w) /\ s[w].pc = "grow" /\ UNCHANGED <<pageCnt, savedCnt, groups, nextXid, running, wild>>
         /\ \/ /\ HasFreeSpace(pages[Origin(w)], ItemSize + s[w].sizes[s[w].c])
               /\ s'[w] = ColumnNext(s[w], "first")
               /\ LockFor(w, Origin(w), <<Origin(w), Origin(w), s[w].undo, Origin(w)>>)
               /\ \E n \in Pages :
                    /\ Writes(pages, pages', Origin(w), n)
                    /\ n.free = pages[Origin(w)].free - (Changed(w).size + ItemSize)
                    /\ Rewritten(pages[Origin(w)], n, s[w].i, MovedTo(pages[Origin(w)].items[s[w].i], Changed(w)))
            \/ /\ UnLockPages(w, <<s[w].undo, Origin(w)>>) /\ pages' = pages
               /\ s'[w] = [s[w] EXCEPT !.pc = "end"]
            \/ /\ LockPage(w, Origin(w), WRITE) /\ pages' = pages /\ ~Oversize(NewSize(w))
               /\ s'[w] = [s[w] EXCEPT !.kind = "ext", !.num = 1,
                             !.pc = IF ChainHead(pages[Col(groups, s[w], s[w].c)], "ext") = INVALID_PAGE_NUM
                                    THEN "startext" ELSE "chain"]
<1> DEFINE r == s[w]
           h == ChainHead(pages[Col(groups, r, r.c)], "ext")
<1>1. r \in Locals /\ Shape(pages, groups, r) /\ pages \in Files /\ groups \in Groups
      /\ locks \in LockStates(Workers, Locks) /\ s \in [Workers -> Locals] /\ AllLinked(pages)
  BY Known DEF Inv1, Types
<1>2. r.pc = "grow" /\ UNCHANGED <<pageCnt, savedCnt, groups, nextXid, running, wild>>
  BY DEF Grow, At
<1>3. PICK p : p = Origin(w)
  OBVIOUS
<1>4. /\ p \in PageNos /\ p \in Locks /\ r.undo \in Locks /\ r.i \in 1..Len(pages[p].items)
      /\ Changed(w) \in Versions /\ LinkedIn(pages, Changed(w)) /\ p = Col(groups, r, r.c)
  BY <1>2, <1>3, ChangeAt
<1>5. CASE /\ HasFreeSpace(pages[p], ItemSize + r.sizes[r.c])
           /\ pages' = [pages EXCEPT ![p] = Relocated(@, r.i, Changed(w))]
           /\ LockFor(w, p, <<p, p, r.undo, p>>)
           /\ s' = NextColumn(w, "first")
  <2>1. PICK n : n = Relocated(pages[p], r.i, Changed(w))
    OBVIOUS
  <2>2. pages' = [pages EXCEPT ![p] = n]
    BY <1>5, <2>1
  <2>3. pages[p] \in Pages /\ pages[p].items[r.i] \in Items
    BY <1>1, <1>4, ItemIs DEF Files
  <2>4. PICK x : x = MovedTo(pages[p].items[r.i], Changed(w))
    OBVIOUS
  <2>5. x.ver = Changed(w)
    BY <1>4, <2>3, <2>4, EntryIs
  <2>6. Rewritten(pages[p], n, r.i, x) /\ n.free = pages[p].free - (Changed(w).size + ItemSize)
    BY <1>4, <2>1, <2>3, <2>4, RelocateIs
  <2>7. Writes(pages, pages', p, n)
    BY <1>1, <1>4, <2>2, <2>5, <2>6, RewriteWrites
  <2>8. pages' \in Files /\ Grows(pages, pages') /\ AllLinked(pages') /\ n \in Pages
    BY <2>7 DEF Writes, Puts, SameHead
  <2>9. PICK q : q = ColumnNext(r, "first")
    OBVIOUS
  <2>10. s' = [s EXCEPT ![w] = q]
    BY <1>1, <1>5, <2>9, RecordSteps
  <2>11. Shape(pages', groups, r)
    BY <1>1, <2>8, ShapeGrows, ExtendsSame
  <2>12. q \in Locals /\ Shape(pages', groups, q)
    BY <1>1, <1>2, <2>8, <2>9, <2>11, ColumnNextStep
  <2>13. <<p, p, r.undo, p>> \in Seq(Locks)
    BY <1>4
  <2>14. locks' \in LockStates(Workers, Locks)
    BY <1>1, <1>4, <1>5, <2>13, LockTypes
  <2>15. wild' \in BOOLEAN
    BY <1>2 DEF Inv1, Types
  <2>16. Step1(w) /\ s'[w] = q
    BY <1>2, <2>8, <2>10, <2>12, <2>14, <2>15, PageStep
  <2> QED
    BY ONLY <1>2, <1>3, <1>5, <2>4, <2>6, <2>7, <2>8, <2>9, <2>16
<1>6. CASE /\ LockPage(w, p, WRITE) /\ pages' = pages /\ ~Oversize(NewSize(w))
           /\ s' = [s EXCEPT ![w].kind = "ext", ![w].num = 1,
                             ![w].pc = IF pages[p].ext = INVALID_PAGE_NUM THEN "startext" ELSE "chain"]
  <2>1. PICK q : q = [r EXCEPT !.kind = "ext", !.num = 1, !.pc = IF h = INVALID_PAGE_NUM THEN "startext" ELSE "chain"]
    OBVIOUS
  <2>2. s' = [s EXCEPT ![w] = q]
    BY <1>4, <1>6, <2>1 DEF ChainHead
  <2>3. q \in Locals /\ Shape(pages, groups, q)
    BY <1>1, <1>2, <2>1, HeadStep
  <2>4. locks' \in LockStates(Workers, Locks)
    BY <1>1, <1>4, <1>6, LockTypes
  <2>5. Step1(w) /\ s'[w] = q
    BY <1>2, <1>6, <2>2, <2>3, <2>4, QuietStep
  <2> QED
    BY <1>2, <1>3, <1>6, <2>1, <2>5
<1>7. CASE UnLockPages(w, <<r.undo, p>>) /\ s' = [s EXCEPT ![w].pc = "end"] /\ pages' = pages
  <2>1. <<r.undo, p>> \in Seq(Locks)
    BY <1>4
  <2>2. locks' \in LockStates(Workers, Locks)
    BY <1>1, <1>7, <2>1, LockTypes
  <2>3. Step1(w) /\ s'[w] = [r EXCEPT !.pc = "end"]
    BY <1>2, <1>7, <2>2, GoStep1 DEF Quiet
  <2> QED
    BY <1>2, <1>3, <1>7, <2>3
<1> QED
  BY <1>3, <1>5, <1>6, <1>7 DEF Grow, NewSize

LEMMA WriteNewRow1 ==
  ASSUME Inv, NEW w \in Workers, WriteNewRow(w)
  PROVE  /\ Step1(w) /\ s[w].pc = "newrow" /\ UNCHANGED <<pageCnt, savedCnt, groups, nextXid, running, wild>>
         /\ s'[w] = ColumnNext(s[w], "first")
         /\ LockFor(w, s[w].new, <<s[w].new, s[w].new, s[w].undo, Origin(w)>>)
         /\ s[w].new \in PageNos /\ s[w].new # Origin(w)
         /\ \E M \in Files, m \in Pages, n \in Pages :
              /\ Writes(pages, M, s[w].new, m) /\ Appended(pages[s[w].new], m, Changed(w))
              /\ M[Origin(w)] = pages[Origin(w)]
              /\ Writes(M, pages', Origin(w), n) /\ n.free = pages[Origin(w)].free
              /\ Rewritten(pages[Origin(w)], n, s[w].i, MovedAway(pages[Origin(w)].items[s[w].i]))
<1> DEFINE r == s[w]
<1>1. r \in Locals /\ Shape(pages, groups, r) /\ pages \in Files /\ groups \in Groups
      /\ locks \in LockStates(Workers, Locks) /\ s \in [Workers -> Locals] /\ AllLinked(pages)
  BY Known DEF Inv, Inv1, Types
<1>2. /\ r.pc = "newrow" /\ UNCHANGED <<pageCnt, savedCnt, groups, nextXid, running, wild>>
      /\ LockFor(w, r.new, <<r.new, r.new, r.undo, Origin(w)>>) /\ s' = NextColumn(w, "first")
  BY DEF WriteNewRow, At
<1>3. PICK p : p = Origin(w)
  OBVIOUS
<1>4. PICK v : v = Changed(w)
  OBVIOUS
<1>5. /\ p \in PageNos /\ p \in Locks /\ r.undo \in Locks /\ r.i \in 1..Len(pages[p].items)
      /\ v \in Versions /\ LinkedIn(pages, v) /\ p = Col(groups, r, r.c)
  BY <1>2, <1>3, <1>4, ChangeAt DEF Inv
<1>6. r.new \in PageNos
  BY <1>1, <1>2 DEF Shape, Scanned
<1>7. r.new # p
  <2>1. pages[r.new].type = "ext"
    BY <1>2 DEF Inv, Storage, UseOK
  <2>2. r.g \in 1..Len(groups) /\ r.c \in 1..Len(r.cols)
    BY <1>1, <1>2, ChangingIs DEF UpdatePcs
  <2>3. r.cols[r.c] \in Cols
    BY <1>1, <2>2, LocalFields
  <2>4. pages[p].type = "data"
    BY <1>5, <2>2, <2>3 DEF Inv, Storage, GroupsOK, Col
  <2> QED
    BY <2>1, <2>4
<1>8. PICK m : m = WriteRowOnePage(pages[r.new], v)
  OBVIOUS
<1>9. PICK M : M = [pages EXCEPT ![r.new] = m]
  OBVIOUS
<1>10. PICK n : n = Redirected(pages[p], r.i)
  OBVIOUS
<1>11. Writes(pages, M, r.new, m) /\ Appended(pages[r.new], m, v)
  BY <1>1, <1>5, <1>6, <1>8, <1>9, AppendWrites
<1>12. M \in Files /\ Grows(pages, M) /\ AllLinked(M) /\ m \in Pages /\ M[p] = pages[p]
  BY <1>5, <1>7, <1>11 DEF Writes, Puts, SameHead
<1>13. pages' = [M EXCEPT ![p] = n]
  BY <1>1, <1>3, <1>4, <1>7, <1>8, <1>9, <1>10 DEF WriteNewRow, Files
<1>14. pages[p] \in Pages /\ pages[p].items[r.i] \in Items
  BY <1>1, <1>5, ItemIs DEF Files
<1>15. PICK x : x = MovedAway(pages[p].items[r.i])
  OBVIOUS
<1>16. x.ver = pages[p].items[r.i].ver /\ LinkedIn(M, x.ver)
  <2>1. x.ver = pages[p].items[r.i].ver
    BY <1>14, <1>15, MovedAwayIs
  <2>2. LinkedIn(pages, x.ver)
    BY <1>1, <1>5, <2>1, ItemIs
  <2> QED
    BY <1>1, <1>12, <2>1, <2>2, LinkedGrows
<1>17. Rewritten(pages[p], n, r.i, x) /\ n.free = pages[p].free
  BY <1>5, <1>10, <1>14, <1>15, RedirectIs
<1>18. Writes(M, pages', p, n)
  <2>1. r.i \in 1..Len(M[p].items) /\ Rewritten(M[p], n, r.i, x)
    BY <1>5, <1>12, <1>17
  <2> QED
    BY ONLY <1>5, <1>12, <1>13, <1>16, <2>1, RewriteWrites
<1>19. pages' \in Files /\ Grows(pages, pages') /\ AllLinked(pages') /\ n \in Pages
  BY <1>1, <1>12, <1>18, GrowsTrans DEF Writes, Puts, SameHead
<1>20. PICK q : q = ColumnNext(r, "first")
  OBVIOUS
<1>21. s' = [s EXCEPT ![w] = q]
  BY <1>1, <1>2, <1>20, RecordSteps
<1>22. Shape(pages', groups, r)
  BY <1>1, <1>19, ShapeGrows, ExtendsSame
<1>23. q \in Locals /\ Shape(pages', groups, q)
  BY <1>1, <1>2, <1>19, <1>20, <1>22, ColumnNextStep
<1>24. <<r.new, r.new, r.undo, Origin(w)>> \in Seq(Locks) /\ r.new \in Locks
  BY <1>3, <1>5, <1>6, LocksAre
<1>25. locks' \in LockStates(Workers, Locks)
  BY <1>1, <1>2, <1>24, LockTypes
<1>26. wild' \in BOOLEAN
  BY <1>2 DEF Inv, Inv1, Types
<1>27. Step1(w) /\ s'[w] = q
  BY <1>2, <1>19, <1>21, <1>23, <1>25, <1>26, PageStep DEF Inv
<1> QED
  BY ONLY <1>2, <1>3, <1>4, <1>6, <1>7, <1>11, <1>12, <1>15, <1>17, <1>18, <1>19, <1>20, <1>27

-----------------------------------------------------------------------------
(* The first half is preserved: the steps that extend the table *)

LEMMA AddPage1 ==
  ASSUME Inv, NEW w \in Workers, AddPage(w)
  PROVE  /\ Step1(w) /\ s[w].pc = "extend" /\ s[w].num > 0 /\ pageCnt' = pageCnt + 1
         /\ UNCHANGED <<savedCnt, groups, locks, nextXid, running, wild>>
         /\ s'[w] = [s[w] EXCEPT !.num = @ - 1, !.last = pageCnt + 1]
         /\ \A p \in PageNos : pages'[p] = IF p = pageCnt + 1 THEN InitPage ELSE pages[p]
<1> DEFINE r == s[w]
<1>1. r \in Locals /\ Shape(pages, groups, r) /\ pages \in Files /\ groups \in Groups
      /\ locks \in LockStates(Workers, Locks) /\ s \in [Workers -> Locals] /\ AllLinked(pages)
      /\ pageCnt \in Nat \ {0} /\ savedCnt \in 1..pageCnt
  BY Known DEF Inv, Inv1, Types
<1>2. /\ r.pc = "extend" /\ r.num > 0 /\ pageCnt' = pageCnt + 1
      /\ UNCHANGED <<savedCnt, groups, locks, nextXid, running, wild>>
  BY DEF AddPage, At
<1>3. \A p \in PageNos : pages'[p] = IF p = pageCnt + 1 THEN InitPage ELSE pages[p]
  BY <1>1, <1>2 DEF AddPage, Files
<1>4. pages' \in Files
  BY <1>1, <1>2, FreshPagesAre DEF AddPage, Files
<1>5. \A p \in PageNos : p = pageCnt + 1 => pages[p] = NoPage
  BY <1>1 DEF Inv, Storage, FreshFrom, PageNos
<1>6. Grows(pages, pages')
  <2>1. Grows(pages, pages)
    BY <1>1, GrowsSame
  <2> QED
    BY <1>3, <1>5, <2>1, FreshPagesAre DEF Grows
<1>7. AllLinked(pages')
  <2> SUFFICES ASSUME NEW p \in PageNos, NEW i \in 1..Len(pages'[p].items)
               PROVE  LinkedIn(pages', pages'[p].items[i].ver)
    BY DEF AllLinked
  <2>1. p # pageCnt + 1
    BY <1>3, FreshPagesAre
  <2>2. pages'[p] = pages[p]
    BY <1>3, <2>1
  <2>3. LinkedIn(pages, pages[p].items[i].ver)
    BY <1>1, <2>2 DEF AllLinked
  <2> QED
    BY <1>1, <1>4, <1>6, <2>2, <2>3, LinkedGrows
<1>8. PICK q : q = [r EXCEPT !.num = @ - 1, !.last = pageCnt + 1]
  OBVIOUS
<1>9. s' = [s EXCEPT ![w] = q]
  BY <1>2, <1>8 DEF AddPage
<1>10. Shape(pages', groups, r)
  BY <1>1, <1>4, <1>6, ShapeGrows, ExtendsSame
<1>11. pageCnt + 1 \in Nat \ {0}
  BY <1>1
<1>12. q \in Locals /\ Shape(pages', groups, q)
  BY <1>1, <1>2, <1>4, <1>8, <1>10, <1>11, AddPageStep
<1>13. s'[w] = q
  BY <1>1, <1>9
<1>14. savedCnt' \in 1..pageCnt'
  BY <1>1, <1>2
<1>15. Extends(groups, groups)
  BY <1>1, ExtendsSame
<1>16. Step1(w)
  BY <1>1, <1>2, <1>4, <1>6, <1>7, <1>9, <1>11, <1>12, <1>13, <1>14, <1>15 DEF Step1, Inv, Inv1, Types
<1> QED
  BY <1>2, <1>3, <1>8, <1>13, <1>16

LEMMA MemberPagesAre ==
  ASSUME NEW last \in PageNos, NEW n \in Nat \ {0}, last = n + NumCols
  PROVE  /\ MemberPages(last) \in [Cols -> PageNos]
         /\ \A c \in Cols : MemberPages(last)[c] = n + c /\ n + c \in PageNos /\ n + c > n /\ n + c <= last
<1>1. \A c \in Cols : /\ last - NumCols + c = n + c /\ n + c \in PageNos
                      /\ n + c > n /\ n + c <= last
  BY TableSpaceAssumption DEF Cols, PageNos
<1> QED
  BY <1>1 DEF MemberPages

LEMMA InsertGroupItem1 ==
  ASSUME Inv, NEW w \in Workers, InsertGroupItem(w)
  PROVE  /\ Step1(w) /\ s[w].pc = "extend" /\ s[w].op = "insert" /\ s[w].num = 0 /\ savedCnt' = pageCnt
         /\ UNCHANGED <<pages, pageCnt, nextXid, running, wild>>
         /\ \/ /\ s[w].last \in PageNos /\ groups' = Append(groups, MemberPages(s[w].last))
               /\ MemberPages(s[w].last) \in [Cols -> PageNos]
               /\ UnLockPages(w, <<ExtLock>>) /\ s'[w] = [s[w] EXCEPT !.pc = "group"]
            \/ /\ s[w].last \notin PageNos /\ groups' = groups /\ locks' = locks
               /\ s'[w] = [s[w] EXCEPT !.pc = "end"]
<1> DEFINE r == s[w]
<1>1. r \in Locals /\ Shape(pages, groups, r) /\ pages \in Files /\ groups \in Groups
      /\ locks \in LockStates(Workers, Locks) /\ s \in [Workers -> Locals] /\ AllLinked(pages)
      /\ pageCnt \in Nat \ {0} /\ savedCnt \in 1..pageCnt
  BY Known DEF Inv, Inv1, Types
<1>2. /\ r.pc = "extend" /\ r.op = "insert" /\ r.num = 0 /\ savedCnt' = pageCnt
      /\ UNCHANGED <<pages, pageCnt, nextXid, running, wild>>
  BY DEF InsertGroupItem, At, UpdateMetaData
<1>3. savedCnt' \in 1..pageCnt' /\ Grows(pages, pages)
  BY <1>1, <1>2, GrowsSame
<1>4. CASE /\ r.last \in PageNos /\ groups' = Append(groups, MemberPages(r.last))
           /\ UnLockPages(w, <<ExtLock>>) /\ s' = [s EXCEPT ![w].pc = "group"]
  <2>1. r.last = pageCnt /\ pageCnt = savedCnt + NumCols
    BY <1>2, <1>4, Added DEF Batch
  <2>2. MemberPages(r.last) \in [Cols -> PageNos]
    BY <1>1, <1>4, <2>1, MemberPagesAre
  <2>3. PICK m : m = MemberPages(r.last)
    OBVIOUS
  <2>4. groups' \in Groups /\ Extends(groups, groups')
    <3>1. groups' = Append(groups, m) /\ m \in [Cols -> PageNos]
      BY <1>4, <2>2, <2>3
    <3> QED
      BY ONLY <1>1, <3>1 DEF Groups, Extends
  <2>5. PICK q : q = [r EXCEPT !.pc = "group"]
    OBVIOUS
  <2>6. s' = [s EXCEPT ![w] = q]
    BY <1>4, <2>5
  <2>7. Shape(pages, groups', r)
    BY <1>1, <1>3, <2>4, ShapeGrows
  <2>8. q \in Locals /\ Shape(pages, groups', q)
    BY <1>1, <1>2, <2>4, <2>5, <2>7, GroupItemStep
  <2>9. <<ExtLock>> \in Seq(Locks)
    BY LocksAre
  <2>10. locks' \in LockStates(Workers, Locks)
    BY <1>1, <1>4, <2>9, LockTypes
  <2>11. s'[w] = q
    BY <1>1, <2>6
  <2>12. Step1(w)
    BY <1>1, <1>2, <1>3, <2>4, <2>6, <2>8, <2>10, <2>11 DEF Step1, Inv, Inv1, Types
  <2> QED
    BY <1>2, <1>4, <2>2, <2>5, <2>11, <2>12
<1>5. CASE r.last \notin PageNos /\ groups' = groups /\ locks' = locks /\ s' = [s EXCEPT ![w].pc = "end"]
  <2>1. PICK q : q = [r EXCEPT !.pc = "end"]
    OBVIOUS
  <2>2. s' = [s EXCEPT ![w] = q]
    BY <1>5, <2>1
  <2>3. q \in Locals /\ Shape(pages, groups, q)
    BY <1>1, <1>2, <2>1, EndShape
  <2>4. s'[w] = q
    BY <1>1, <2>2
  <2>5. Step1(w)
    BY <1>1, <1>2, <1>3, <1>5, <2>2, <2>3, <2>4, ExtendsSame DEF Step1, Inv, Inv1, Types
  <2> QED
    BY <1>2, <1>5, <2>1, <2>4, <2>5
<1> QED
  BY <1>4, <1>5 DEF InsertGroupItem

\* Page l becomes the head of the chain of kind k of page f.
Chains(P, Q, f, l, k) ==
  /\ Q \in Files
  /\ \A p \in PageNos : p # f /\ p # l => Q[p] = P[p]
  /\ Q[l].type = k /\ Q[l].items = << >> /\ Q[l].free = PageRoom
  /\ Q[l].undo = (IF k = "undo" THEN P[f].undo ELSE INVALID_PAGE_NUM)
  /\ Q[l].ext = (IF k = "ext" THEN P[f].ext ELSE INVALID_PAGE_NUM)
  /\ Q[f].type = P[f].type /\ Q[f].items = P[f].items /\ Q[f].free = P[f].free
  /\ Q[f].undo = (IF k = "undo" THEN l ELSE P[f].undo)
  /\ Q[f].ext = (IF k = "ext" THEN l ELSE P[f].ext)

LEMMA ChainedIs ==
  ASSUME NEW P \in Files, NEW f \in PageNos, NEW l \in PageNos, f # l, P[l] = InitPage,
         NEW k \in {"undo", "ext"}, NEW Q, Q = Chained(P, f, l, k)
  PROVE  Chains(P, Q, f, l, k)
<1> DEFINE b == [P[l] EXCEPT !.type = k, !.undo = IF k = "undo" THEN P[f].undo ELSE @,
                             !.ext = IF k = "ext" THEN P[f].ext ELSE @]
           a == [P[f] EXCEPT !.undo = IF k = "undo" THEN l ELSE @, !.ext = IF k = "ext" THEN l ELSE @]
           M == [P EXCEPT ![l] = b]
<1>1. P[f] \in Pages /\ P[l] \in Pages /\ l \in PageOrNone
  BY DEF Files, PageOrNone
<1>2. Q = [M EXCEPT ![f] = a]
  BY DEF Chained, Files
<1>3. /\ b \in Pages /\ b.type = k /\ b.items = P[l].items /\ b.free = P[l].free
      /\ b.undo = (IF k = "undo" THEN P[f].undo ELSE P[l].undo)
      /\ b.ext = (IF k = "ext" THEN P[f].ext ELSE P[l].ext)
  BY <1>1 DEF Pages
<1>4. /\ a \in Pages /\ a.type = P[f].type /\ a.items = P[f].items /\ a.free = P[f].free
      /\ a.undo = (IF k = "undo" THEN l ELSE P[f].undo)
      /\ a.ext = (IF k = "ext" THEN l ELSE P[f].ext)
  BY <1>1 DEF Pages
<1> HIDE DEF a, b
<1>5. Q \in Files /\ Q[f] = a /\ Q[l] = b /\ \A p \in PageNos : p # f /\ p # l => Q[p] = P[p]
  BY <1>2, <1>3, <1>4 DEF Files
<1> QED
  BY <1>3, <1>4, <1>5, FreshPagesAre DEF Chains

LEMMA ChainsGrows ==
  ASSUME NEW P \in Files, AllLinked(P), NEW f \in PageNos, NEW l \in PageNos, f # l, P[l] = InitPage,
         NEW k \in {"undo", "ext"}, NEW Q, Chains(P, Q, f, l, k)
  PROVE  Grows(P, Q) /\ AllLinked(Q)
<1>1. Q \in Files
  BY DEF Chains
<1>2. ASSUME NEW p \in PageNos PROVE Q[p].items = P[p].items /\ Len(P[p].items) \in Nat
  <2>1. Len(P[p].items) \in Nat
    BY DEF Files, Pages
  <2>2. Q[l].items = P[l].items /\ Q[f].items = P[f].items
    BY FreshPagesAre DEF Chains
  <2>3. p # f /\ p # l => Q[p] = P[p]
    BY DEF Chains
  <2> QED
    BY <2>1, <2>2, <2>3
<1>3. l # INVALID_PAGE_NUM
  BY DEF PageNos
<1>4. ASSUME NEW p \in PageNos
      PROVE  /\ P[p].undo # INVALID_PAGE_NUM => Q[p].undo # INVALID_PAGE_NUM
             /\ P[p].ext # INVALID_PAGE_NUM => Q[p].ext # INVALID_PAGE_NUM
  <2>1. CASE p = f
    BY <1>3, <2>1 DEF Chains
  <2>2. CASE p = l
    BY <2>2, FreshPagesAre
  <2>3. CASE p # f /\ p # l
    BY <2>3 DEF Chains
  <2> QED
    BY <2>1, <2>2, <2>3
<1>5. Grows(P, Q)
  BY <1>2, <1>4 DEF Grows
<1>6. AllLinked(Q)
  BY <1>1, <1>2, <1>5, LinkedGrows DEF AllLinked
<1> QED
  BY <1>5, <1>6

LEMMA LinkPage1 ==
  ASSUME Inv, NEW w \in Workers, LinkPage(w)
  PROVE  /\ Step1(w) /\ s[w].pc = "extend" /\ s[w].op = "update" /\ s[w].num = 0 /\ savedCnt' = pageCnt
         /\ UNCHANGED <<pageCnt, groups, nextXid, running, wild>> /\ Origin(w) \in PageNos
         /\ \/ /\ s[w].last \in PageNos /\ Origin(w) <= savedCnt
               /\ Chains(pages, pages', Origin(w), s[w].last, s[w].kind)
               /\ LockFor(w, s[w].last, <<s[w].last, ExtLock, Origin(w)>>)
               /\ s'[w] = Got(s[w], s[w].last)
            \/ /\ s[w].last \notin PageNos /\ pages' = pages
               /\ UnLockPages(w, IF s[w].kind = "undo" THEN <<ExtLock>> ELSE <<ExtLock, s[w].undo, Origin(w)>>)
               /\ s'[w] = [s[w] EXCEPT !.pc = "end"]
<1> DEFINE r == s[w]
<1>1. r \in Locals /\ Shape(pages, groups, r) /\ pages \in Files /\ groups \in Groups
      /\ locks \in LockStates(Workers, Locks) /\ s \in [Workers -> Locals] /\ AllLinked(pages)
      /\ pageCnt \in Nat \ {0} /\ savedCnt \in 1..pageCnt
  BY Known DEF Inv, Inv1, Types
<1>2. /\ r.pc = "extend" /\ r.op = "update" /\ r.num = 0 /\ savedCnt' = pageCnt
      /\ UNCHANGED <<pageCnt, groups, nextXid, running, wild>>
  BY DEF LinkPage, At, UpdateMetaData
<1>3. savedCnt' \in 1..pageCnt' /\ Grows(pages, pages) /\ Extends(groups, groups)
  BY <1>1, <1>2, GrowsSame, ExtendsSame
<1>4. PICK p : p = Origin(w)
  OBVIOUS
<1>5. /\ p \in PageNos /\ p \in Locks /\ p = Col(groups, r, r.c)
      /\ HasUndo(r) => r.undo \in Locks
  BY <1>2, <1>4, OriginAt DEF Inv, ExtPcs
<1>6. p <= savedCnt
  <2>1. r.g \in 1..Len(groups) /\ r.c \in 1..Len(r.cols)
    BY <1>1, <1>2, ChangingIs DEF ExtPcs
  <2>2. r.cols[r.c] \in Cols
    BY <1>1, <2>1, LocalFields
  <2> QED
    BY <1>5, <2>1, <2>2 DEF Inv, Storage, GroupsOK, Col
<1>7. r.kind \in {"undo", "ext"}
  BY <1>1, LocalFields
<1>8. CASE /\ r.last \in PageNos /\ pages' = Chained(pages, p, r.last, r.kind)
           /\ LockFor(w, r.last, <<r.last, ExtLock, p>>)
           /\ s' = GotPage(w, r.last)
  <2>1. r.last = pageCnt /\ pageCnt = savedCnt + 1 /\ pages[r.last] = InitPage
    BY <1>2, <1>8, Added DEF Batch
  <2>2. p # r.last
    BY <1>1, <1>5, <1>6, <2>1 DEF PageNos
  <2>3. Chains(pages, pages', p, r.last, r.kind)
    BY <1>1, <1>5, <1>7, <1>8, <2>1, <2>2, ChainedIs
  <2>4. Grows(pages, pages') /\ AllLinked(pages') /\ pages' \in Files
    <3>1. pages' \in Files
      BY <2>3 DEF Chains
    <3> QED
      BY ONLY <1>1, <1>5, <1>7, <1>8, <2>1, <2>2, <2>3, <3>1, ChainsGrows
  <2>5. PICK q : q = Got(r, r.last)
    OBVIOUS
  <2>6. s' = [s EXCEPT ![w] = q]
    BY <1>1, <1>8, <2>5, RecordSteps
  <2>7. Shape(pages', groups, r)
    BY <1>1, <2>4, ShapeGrows, ExtendsSame
  <2>8. q \in Locals /\ Shape(pages', groups, q)
    BY <1>1, <1>2, <1>8, <2>4, <2>5, <2>7, GotStep
  <2>9. <<r.last, ExtLock, p>> \in Seq(Locks) /\ r.last \in Locks
    BY <1>5, <1>8, LocksAre
  <2>10. locks' \in LockStates(Workers, Locks)
    BY <1>1, <1>8, <2>9, LockTypes
  <2>11. s'[w] = q
    BY <1>1, <2>6
  <2>12. Step1(w)
    BY <1>1, <1>2, <1>3, <2>4, <2>6, <2>8, <2>10, <2>11 DEF Step1, Inv, Inv1, Types
  <2> QED
    BY ONLY <1>2, <1>4, <1>5, <1>6, <1>8, <2>3, <2>5, <2>11, <2>12
<1>9. CASE /\ r.last \notin PageNos /\ pages' = pages
           /\ UnLockPages(w, IF r.kind = "undo" THEN <<ExtLock>> ELSE <<ExtLock, r.undo, p>>)
           /\ s' = [s EXCEPT ![w].pc = "end"]
  <2>1. PICK q : q = [r EXCEPT !.pc = "end"]
    OBVIOUS
  <2>2. s' = [s EXCEPT ![w] = q]
    BY <1>9, <2>1
  <2>3. q \in Locals /\ Shape(pages, groups, q)
    BY <1>1, <1>2, <2>1, EndShape
  <2>4. s'[w] = q
    BY <1>1, <2>2
  <2>5. PICK ls : ls = IF r.kind = "undo" THEN <<ExtLock>> ELSE <<ExtLock, r.undo, p>>
    OBVIOUS
  <2>6. ls \in Seq(Locks)
    <3>1. CASE r.kind = "undo"
      BY <2>5, <3>1, LocksAre
    <3>2. CASE r.kind = "ext"
      <4>1. HasUndo(r)
        BY <1>2, <3>2 DEF HasUndo, Updating, Second, ExtPcs
      <4>2. ls = <<ExtLock, r.undo, p>> /\ r.undo \in Locks /\ ExtLock \in Locks
        BY <1>5, <2>5, <3>2, <4>1, LocksAre
      <4> QED
        BY ONLY <1>5, <4>2
    <3> QED
      BY <1>7, <3>1, <3>2
  <2>7. locks' \in LockStates(Workers, Locks)
    BY <1>1, <1>9, <2>5, <2>6, LockTypes
  <2>8. Step1(w)
    BY <1>1, <1>2, <1>3, <1>9, <2>2, <2>3, <2>4, <2>7 DEF Step1, Inv, Inv1, Types
  <2> QED
    BY <1>2, <1>4, <1>5, <1>9, <2>1, <2>4, <2>8
<1> QED
  BY <1>4, <1>8, <1>9 DEF LinkPage

-----------------------------------------------------------------------------
(* The second half is preserved: the locks of the worker that takes the step *)

\* The table of a thread has room for the locks of a statement.
LocksFit == NumCols <= MaxLocalLocks /\ 4 <= MaxLocalLocks

\* Page o is locked k times, page u b times, the extension lock e times.
H(o, k, u, b, e) ==
  [l \in Locks |-> (IF l = o THEN k ELSE 0) + (IF l = u THEN b ELSE 0) + (IF l = ExtLock THEN e ELSE 0)]
N(k, b, e) == Bit(k # 0) + b + e

\* A thread with these locks, of two pages and the extension lock.
Profile(L, w, o, k, u, b, e) ==
  /\ L \in LockStates(Workers, Locks)
  /\ k \in 0..3 /\ b \in {0, 1} /\ e \in {0, 1}
  /\ k # 0 => o \in PageNos
  /\ b = 1 => u \in PageNos /\ u # o
  /\ Has(L, Locks, w, H(o, k, u, b, e), N(k, b, e))

LEMMA LockOriginLeaves ==
  ASSUME LocksFit, NEW L, NEW w \in Workers, NEW o, NEW k, NEW u, NEW b, NEW e, Profile(L, w, o, k, u, b, e),
         k <= 2, o \in PageNos, CanAcquire(L, w, o, WRITE),
         NEW M, M = AcquireRWLockLocal(L, w, o, WRITE)
  PROVE  Profile(M, w, o, k + 1, u, b, e) /\ Others(L, M, Workers, Locks, w)
<1>1. /\ L \in LockStates(Workers, Locks) /\ k \in 0..2 /\ b \in {0, 1} /\ e \in {0, 1}
      /\ b = 1 => u \in PageNos /\ u # o
      /\ Has(L, Locks, w, H(o, k, u, b, e), N(k, b, e))
  BY DEF Profile
<1>2. o \in Locks /\ o # ExtLock
  BY LocksAre
<1>3. N(k, b, e) < MaxLocalLocks
  BY <1>1, LocalLockAssumption DEF N, Bit, LocksFit
<1>4. H(o, k, u, b, e)[o] = k
  BY <1>1, <1>2 DEF H
<1>5. Leaves(L, M, Workers, Locks, w, Plus(H(o, k, u, b, e), o),
             IF H(o, k, u, b, e)[o] = 0 THEN N(k, b, e) + 1 ELSE N(k, b, e))
  BY <1>1, <1>2, <1>3, AcquireLeaves, ModifyAssumption
<1>6. Plus(H(o, k, u, b, e), o) = H(o, k + 1, u, b, e)
  BY <1>1, <1>2 DEF H, Plus
<1>7. (IF H(o, k, u, b, e)[o] = 0 THEN N(k, b, e) + 1 ELSE N(k, b, e)) = N(k + 1, b, e)
  BY <1>1, <1>4 DEF N, Bit
<1> QED
  BY <1>1, <1>5, <1>6, <1>7 DEF Profile, Leaves

LEMMA LockUndoLeaves ==
  ASSUME LocksFit, NEW L, NEW w \in Workers, NEW o, NEW k, NEW u, NEW e, Profile(L, w, o, k, u, 0, e),
         u \in PageNos, u # o, CanAcquire(L, w, u, WRITE),
         NEW M, M = AcquireRWLockLocal(L, w, u, WRITE)
  PROVE  Profile(M, w, o, k, u, 1, e) /\ Others(L, M, Workers, Locks, w)
<1>1. /\ L \in LockStates(Workers, Locks) /\ k \in 0..3 /\ e \in {0, 1}
      /\ Has(L, Locks, w, H(o, k, u, 0, e), N(k, 0, e))
  BY DEF Profile
<1>2. u \in Locks /\ u # ExtLock
  BY LocksAre
<1>3. N(k, 0, e) < MaxLocalLocks
  BY <1>1, LocalLockAssumption DEF N, Bit, LocksFit
<1>4. H(o, k, u, 0, e)[u] = 0
  BY <1>1, <1>2 DEF H
<1>5. Leaves(L, M, Workers, Locks, w, Plus(H(o, k, u, 0, e), u),
             IF H(o, k, u, 0, e)[u] = 0 THEN N(k, 0, e) + 1 ELSE N(k, 0, e))
  BY <1>1, <1>2, <1>3, AcquireLeaves, ModifyAssumption
<1>6. Plus(H(o, k, u, 0, e), u) = H(o, k, u, 1, e)
  BY <1>1, <1>2 DEF H, Plus
<1>7. (IF H(o, k, u, 0, e)[u] = 0 THEN N(k, 0, e) + 1 ELSE N(k, 0, e)) = N(k, 1, e)
  BY <1>1, <1>4 DEF N, Bit
<1> QED
  BY <1>1, <1>5, <1>6, <1>7 DEF Profile, Leaves

LEMMA LockExtLeaves ==
  ASSUME LocksFit, NEW L, NEW w \in Workers, NEW o, NEW k, NEW u, NEW b, Profile(L, w, o, k, u, b, 0),
         CanAcquire(L, w, ExtLock, WRITE),
         NEW M, M = AcquireRWLockLocal(L, w, ExtLock, WRITE)
  PROVE  Profile(M, w, o, k, u, b, 1) /\ Others(L, M, Workers, Locks, w)
<1>1. /\ L \in LockStates(Workers, Locks) /\ k \in 0..3 /\ b \in {0, 1}
      /\ k # 0 => o \in PageNos
      /\ b = 1 => u \in PageNos /\ u # o
      /\ Has(L, Locks, w, H(o, k, u, b, 0), N(k, b, 0))
  BY DEF Profile
<1>2. ExtLock \in Locks /\ (k # 0 => o # ExtLock) /\ (b = 1 => u # ExtLock)
  BY <1>1, LocksAre
<1>3. N(k, b, 0) < MaxLocalLocks
  BY <1>1, LocalLockAssumption DEF N, Bit, LocksFit
<1>4. H(o, k, u, b, 0)[ExtLock] = 0
  BY <1>1, <1>2 DEF H
<1>5. Leaves(L, M, Workers, Locks, w, Plus(H(o, k, u, b, 0), ExtLock),
             IF H(o, k, u, b, 0)[ExtLock] = 0 THEN N(k, b, 0) + 1 ELSE N(k, b, 0))
  BY <1>1, <1>2, <1>3, AcquireLeaves, ModifyAssumption
<1>6. Plus(H(o, k, u, b, 0), ExtLock) = H(o, k, u, b, 1)
  BY <1>1, <1>2 DEF H, Plus
<1>7. (IF H(o, k, u, b, 0)[ExtLock] = 0 THEN N(k, b, 0) + 1 ELSE N(k, b, 0)) = N(k, b, 1)
  BY <1>1, <1>4 DEF N, Bit
<1> QED
  BY <1>1, <1>5, <1>6, <1>7 DEF Profile, Leaves

LEMMA FreeOriginLeaves ==
  ASSUME NEW L, NEW w \in Workers, NEW o, NEW k, NEW u, NEW b, NEW e, Profile(L, w, o, k, u, b, e),
         o \in PageNos, NEW M, M = ReleaseRWLockLocal(L, w, o)
  PROVE  /\ Profile(M, w, o, IF k > 0 THEN k - 1 ELSE 0, u, b, e)
         /\ Others(L, M, Workers, Locks, w)
<1> DEFINE j == IF k > 0 THEN k - 1 ELSE 0
<1>1. /\ L \in LockStates(Workers, Locks) /\ k \in 0..3 /\ b \in {0, 1} /\ e \in {0, 1}
      /\ b = 1 => u \in PageNos /\ u # o
      /\ Has(L, Locks, w, H(o, k, u, b, e), N(k, b, e))
  BY DEF Profile
<1>2. o \in Locks /\ o # ExtLock
  BY LocksAre
<1>4. H(o, k, u, b, e)[o] = k
  BY <1>1, <1>2 DEF H
<1>5. Leaves(L, M, Workers, Locks, w, Minus(H(o, k, u, b, e), o),
             IF H(o, k, u, b, e)[o] = 1 THEN N(k, b, e) - 1 ELSE N(k, b, e))
  BY <1>1, <1>2, ReleaseLeaves, ModifyAssumption
<1>6. Minus(H(o, k, u, b, e), o) = H(o, j, u, b, e)
  BY <1>1, <1>2 DEF H, Minus
<1>7. (IF H(o, k, u, b, e)[o] = 1 THEN N(k, b, e) - 1 ELSE N(k, b, e)) = N(j, b, e)
  BY <1>1, <1>4 DEF N, Bit
<1>8. j \in 0..3
  BY <1>1
<1> QED
  BY <1>1, <1>5, <1>6, <1>7, <1>8 DEF Profile, Leaves

LEMMA FreeUndoLeaves ==
  ASSUME NEW L, NEW w \in Workers, NEW o, NEW k, NEW u, NEW e, Profile(L, w, o, k, u, 1, e),
         NEW M, M = ReleaseRWLockLocal(L, w, u)
  PROVE  Profile(M, w, o, k, u, 0, e) /\ Others(L, M, Workers, Locks, w)
<1>1. /\ L \in LockStates(Workers, Locks) /\ k \in 0..3 /\ e \in {0, 1}
      /\ u \in PageNos /\ u # o /\ (k # 0 => o \in PageNos)
      /\ Has(L, Locks, w, H(o, k, u, 1, e), N(k, 1, e))
  BY DEF Profile
<1>2. u \in Locks /\ u # ExtLock
  BY <1>1, LocksAre
<1>4. H(o, k, u, 1, e)[u] = 1
  BY <1>1, <1>2 DEF H
<1>5. Leaves(L, M, Workers, Locks, w, Minus(H(o, k, u, 1, e), u),
             IF H(o, k, u, 1, e)[u] = 1 THEN N(k, 1, e) - 1 ELSE N(k, 1, e))
  BY <1>1, <1>2, ReleaseLeaves, ModifyAssumption
<1>6. Minus(H(o, k, u, 1, e), u) = H(o, k, u, 0, e)
  BY <1>1, <1>2 DEF H, Minus
<1>7. (IF H(o, k, u, 1, e)[u] = 1 THEN N(k, 1, e) - 1 ELSE N(k, 1, e)) = N(k, 0, e)
  BY <1>1, <1>4 DEF N, Bit
<1> QED
  BY <1>1, <1>5, <1>6, <1>7 DEF Profile, Leaves

LEMMA FreeExtLeaves ==
  ASSUME NEW L, NEW w \in Workers, NEW o, NEW k, NEW u, NEW b, Profile(L, w, o, k, u, b, 1),
         NEW M, M = ReleaseRWLockLocal(L, w, ExtLock)
  PROVE  Profile(M, w, o, k, u, b, 0) /\ Others(L, M, Workers, Locks, w)
<1>1. /\ L \in LockStates(Workers, Locks) /\ k \in 0..3 /\ b \in {0, 1}
      /\ k # 0 => o \in PageNos
      /\ b = 1 => u \in PageNos /\ u # o
      /\ Has(L, Locks, w, H(o, k, u, b, 1), N(k, b, 1))
  BY DEF Profile
<1>2. ExtLock \in Locks /\ (k # 0 => o # ExtLock) /\ (b = 1 => u # ExtLock)
  BY <1>1, LocksAre
<1>4. H(o, k, u, b, 1)[ExtLock] = 1
  BY <1>1, <1>2 DEF H
<1>5. Leaves(L, M, Workers, Locks, w, Minus(H(o, k, u, b, 1), ExtLock),
             IF H(o, k, u, b, 1)[ExtLock] = 1 THEN N(k, b, 1) - 1 ELSE N(k, b, 1))
  BY <1>1, <1>2, ReleaseLeaves, ModifyAssumption
<1>6. Minus(H(o, k, u, b, 1), ExtLock) = H(o, k, u, b, 0)
  BY <1>1, <1>2 DEF H, Minus
<1>7. (IF H(o, k, u, b, 1)[ExtLock] = 1 THEN N(k, b, 1) - 1 ELSE N(k, b, 1)) = N(k, b, 0)
  BY <1>1, <1>4 DEF N, Bit
<1> QED
  BY <1>1, <1>5, <1>6, <1>7 DEF Profile, Leaves

\* A page that is locked and unlocked again.
LEMMA PassLeaves ==
  ASSUME LocksFit, NEW L, NEW w \in Workers, NEW o, NEW k, NEW u, NEW b, NEW e, Profile(L, w, o, k, u, b, e),
         NEW p \in PageNos, p # o, b = 1 => p # u, CanAcquire(L, w, p, WRITE),
         NEW M, M = AcquireRWLockLocal(L, w, p, WRITE), NEW R, R = ReleaseRWLockLocal(M, w, p),
         NEW T, T = ReleaseRWLockLocal(R, w, p)
  PROVE  /\ Profile(R, w, o, k, u, b, e) /\ Others(L, R, Workers, Locks, w)
         /\ Profile(T, w, o, k, u, b, e) /\ Others(L, T, Workers, Locks, w)
<1> DEFINE h == H(o, k, u, b, e)
           n == N(k, b, e)
           h1 == Plus(h, p)
<1>1. /\ L \in LockStates(Workers, Locks) /\ k \in 0..3 /\ b \in {0, 1} /\ e \in {0, 1}
      /\ Has(L, Locks, w, h, n)
  BY DEF Profile
<1>2. p \in Locks /\ p # ExtLock
  BY LocksAre
<1>3. n < MaxLocalLocks /\ n \in Nat
  BY <1>1, LocalLockAssumption DEF N, Bit, LocksFit
<1>4. h[p] = 0 /\ h \in [Locks -> Nat]
  BY <1>1, <1>2 DEF H
<1> HIDE DEF h, n
<1>5. Leaves(L, M, Workers, Locks, w, h1, n + 1)
  <2>1. Leaves(L, M, Workers, Locks, w, h1, IF h[p] = 0 THEN n + 1 ELSE n)
    BY <1>1, <1>2, <1>3, AcquireLeaves, ModifyAssumption
  <2> QED
    BY <1>4, <2>1
<1>6. h1[p] = 1 /\ Minus(h1, p) = h /\ Minus(h, p) = h /\ n + 1 - 1 = n
  <2>1. h1 \in [Locks -> Nat] /\ h1[p] = 1 /\ \A l \in Locks : l # p => h1[l] = h[l]
    BY <1>2, <1>4 DEF Plus
  <2> HIDE DEF h1
  <2>2. Minus(h1, p) \in [Locks -> Nat] /\ \A l \in Locks : Minus(h1, p)[l] = h[l]
    BY <1>2, <1>4, <2>1 DEF Minus
  <2>3. Minus(h, p) = h
    BY <1>2, <1>4 DEF Minus
  <2> QED
    BY <1>3, <1>4, <2>1, <2>2, <2>3
<1> HIDE DEF h1
<1>7. Leaves(M, R, Workers, Locks, w, h, n)
  <2>0. PICK m : m = n + 1
    OBVIOUS
  <2>1. M \in LockStates(Workers, Locks) /\ Has(M, Locks, w, h1, m)
    BY <1>5, <2>0 DEF Leaves
  <2>2. Leaves(M, R, Workers, Locks, w, Minus(h1, p), IF h1[p] = 1 THEN m - 1 ELSE m)
    BY <1>2, <2>1, ReleaseLeaves, ModifyAssumption
  <2>3. (IF h1[p] = 1 THEN m - 1 ELSE m) = n
    BY <1>3, <1>6, <2>0
  <2> QED
    BY <1>6, <2>2, <2>3
<1>8. Leaves(R, T, Workers, Locks, w, h, n)
  <2>1. Leaves(R, T, Workers, Locks, w, Minus(h, p), IF h[p] = 1 THEN n - 1 ELSE n)
    BY <1>2, <1>7, ReleaseLeaves, ModifyAssumption DEF Leaves
  <2> QED
    BY <1>4, <1>6, <2>1
<1>9. Leaves(L, R, Workers, Locks, w, h, n) /\ Leaves(L, T, Workers, Locks, w, h, n)
  BY <1>5, <1>7, <1>8, LeavesTrans
<1> QED
  BY <1>9 DEF Profile, Leaves, h, n

GroupPcs == {"lockgroup", "check", "write"}

\* The locks of a worker that is not about to write a row to the pages of a group.
LEMMA HeldIs ==
  ASSUME NEW G, NEW r, r.pc \notin GroupPcs, NEW o, NEW k, NEW u, NEW b, NEW e,
         OriginLocks(r) = k, k # 0 => Col(G, r, r.c) = o, Bit(UndoLocked(r)) = b, b = 1 => r.undo = u,
         Bit(r.pc = "extend") = e
  PROVE  Held(G, r) = H(o, k, u, b, e) /\ Num(r) = N(k, b, e)
<1>1. GroupLocks(r) = 0
  BY DEF GroupLocks, GroupPcs
<1>2. k \in {0, 1, 2} /\ b \in {0, 1} /\ e \in {0, 1}
  BY DEF OriginLocks, Bit
<1>3. ASSUME NEW l \in Locks
      PROVE  Count(G, r, l) = (IF l = o THEN k ELSE 0) + (IF l = u THEN b ELSE 0) + (IF l = ExtLock THEN e ELSE 0)
  <2>1. Bit(\E j \in 1..GroupLocks(r) : r.plist[j] = l) = 0
    BY <1>1 DEF Bit
  <2>2. (IF OriginLocks(r) # 0 /\ l = Col(G, r, r.c) THEN OriginLocks(r) ELSE 0) = (IF l = o THEN k ELSE 0)
    BY <1>2
  <2>3. Bit(UndoLocked(r) /\ l = r.undo) = (IF l = u THEN b ELSE 0)
    BY DEF Bit
  <2>4. Bit(r.pc = "extend" /\ l = ExtLock) = (IF l = ExtLock THEN e ELSE 0)
    BY DEF Bit
  <2>5. PICK x, y, z, t : /\ x = Bit(\E j \in 1..GroupLocks(r) : r.plist[j] = l)
                          /\ y = (IF OriginLocks(r) # 0 /\ l = Col(G, r, r.c) THEN OriginLocks(r) ELSE 0)
                          /\ z = Bit(UndoLocked(r) /\ l = r.undo)
                          /\ t = Bit(r.pc = "extend" /\ l = ExtLock)
    OBVIOUS
  <2>6. Count(G, r, l) = x + y + z + t
    BY <2>5 DEF Count
  <2>7. x = 0 /\ y = (IF l = o THEN k ELSE 0) /\ z = (IF l = u THEN b ELSE 0) /\ t = (IF l = ExtLock THEN e ELSE 0)
    BY <2>1, <2>2, <2>3, <2>4, <2>5
  <2> QED
    BY ONLY <1>2, <2>6, <2>7
<1>4. Num(r) = N(k, b, e)
  BY <1>1, <1>2 DEF Num, N, Bit
<1> QED
  BY <1>3, <1>4 DEF Held, H

LEMMA OriginData ==
  ASSUME Inv, NEW w \in Workers,
         s[w].pc \in UpdatePcs \cup DeletePcs \/ (s[w].pc \in ExtPcs /\ s[w].op = "update")
  PROVE  /\ Col(groups, s[w], s[w].c) = Origin(w) /\ Origin(w) \in PageNos /\ Origin(w) \in Locks
         /\ pages[Origin(w)].type = "data" /\ Origin(w) <= savedCnt
         /\ HasUndo(s[w]) => /\ s[w].undo \in PageNos /\ s[w].undo \in Locks /\ s[w].undo # Origin(w)
                             /\ pages[s[w].undo].type = "undo"
         /\ s[w].cols[s[w].c] \in Cols /\ s[w].g \in 1..Len(groups)
<1>1. s[w] \in Locals /\ Shape(pages, groups, s[w]) /\ pages \in Files /\ groups \in Groups
  BY Known DEF Inv
<1>2. /\ Origin(w) = Col(groups, s[w], s[w].c) /\ Origin(w) \in PageNos /\ Origin(w) \in Locks
      /\ HasUndo(s[w]) => s[w].undo \in PageNos /\ s[w].undo \in Locks
  BY OriginAt DEF Inv
<1>3. s[w].g \in 1..Len(groups) /\ s[w].c \in 1..Len(s[w].cols)
  BY <1>1, ChangingIs
<1>4. s[w].cols[s[w].c] \in Cols
  BY <1>1, <1>3, LocalFields
<1>5. pages[Origin(w)].type = "data" /\ Origin(w) <= savedCnt
  BY <1>2, <1>3, <1>4 DEF Inv, Storage, GroupsOK, Col
<1>6. HasUndo(s[w]) => pages[s[w].undo].type = "undo"
  BY DEF Inv, Storage, UseOK
<1> QED
  BY <1>2, <1>3, <1>4, <1>5, <1>6

LEMMA ProfileOf ==
  ASSUME Inv, pageCnt <= MaxPages, NEW w \in Workers, s[w].pc \notin GroupPcs, NEW o,
         OriginLocks(s[w]) # 0 \/ UndoLocked(s[w]) => o = Origin(w)
  PROVE  Profile(locks, w, o, OriginLocks(s[w]), s[w].undo, Bit(UndoLocked(s[w])), Bit(s[w].pc = "extend"))
<1> DEFINE r == s[w]
<1>1. r \in Locals /\ Shape(pages, groups, r) /\ locks \in LockStates(Workers, Locks)
  BY Known DEF Inv
<1>2. Has(locks, Locks, w, Held(groups, r), Num(r))
  BY DEF Inv, LocksOK
<1>3. OriginLocks(r) # 0 \/ UndoLocked(r) => r.pc \in UpdatePcs \cup DeletePcs \/ (r.pc \in ExtPcs /\ r.op = "update")
  BY DEF OriginLocks, UndoLocked, Updating, UpdatePcs, DeletePcs, ExtPcs
<1>4. UndoLocked(r) => HasUndo(r)
  BY <1>1 DEF UndoLocked, HasUndo, Updating, Second, Shape, Statement, UpdatePcs
<1>5. OriginLocks(r) # 0 \/ UndoLocked(r) =>
        /\ o \in PageNos /\ o = Col(groups, r, r.c)
        /\ UndoLocked(r) => r.undo \in PageNos /\ r.undo # o
  BY <1>3, <1>4, OriginData
<1>6. OriginLocks(r) \in 0..3 /\ Bit(UndoLocked(r)) \in {0, 1} /\ Bit(r.pc = "extend") \in {0, 1}
      /\ (Bit(UndoLocked(r)) = 1 <=> UndoLocked(r))
  BY DEF OriginLocks, Bit
<1>7. Held(groups, r) = H(o, OriginLocks(r), r.undo, Bit(UndoLocked(r)), Bit(r.pc = "extend"))
      /\ Num(r) = N(OriginLocks(r), Bit(UndoLocked(r)), Bit(r.pc = "extend"))
  BY <1>5, HeldIs
<1> QED
  BY <1>1, <1>2, <1>5, <1>6, <1>7 DEF Profile

\* What the step of worker w leaves of the locks.
Locked(w) ==
  pageCnt' <= MaxPages => Leaves(locks, locks', Workers, Locks, w, Held(groups', s'[w]), Num(s'[w]))

LEMMA LockedBy ==
  ASSUME NEW w, s'[w].pc \notin GroupPcs, NEW o, NEW k, NEW u, NEW b, NEW e,
         Profile(locks', w, o, k, u, b, e), Others(locks, locks', Workers, Locks, w),
         OriginLocks(s'[w]) = k, k # 0 => Col(groups', s'[w], s'[w].c) = o,
         Bit(UndoLocked(s'[w])) = b, b = 1 => s'[w].undo = u, Bit(s'[w].pc = "extend") = e
  PROVE  Locked(w)
<1>1. Held(groups', s'[w]) = H(o, k, u, b, e) /\ Num(s'[w]) = N(k, b, e)
  BY HeldIs
<1> QED
  BY <1>1 DEF Locked, Leaves, Profile

\* The places at which a worker has no lock.
FreePcs == {"idle", "end", "group", "member", "scan", "column", "walk", "found", "first", "origin", "delete"}
Free(r) == r.pc \in FreePcs \/ (r.pc = "startext" /\ r.op = "insert")

LEMMA FreeIs ==
  ASSUME NEW r, Free(r)
  PROVE  /\ r.pc \notin GroupPcs /\ OriginLocks(r) = 0 /\ ~UndoLocked(r) /\ Bit(UndoLocked(r)) = 0
         /\ Bit(r.pc = "extend") = 0 /\ r.pc # "extend"
         /\ \A G, o, u : Held(G, r) = H(o, 0, u, 0, 0)
         /\ Num(r) = 0 /\ N(0, 0, 0) = 0
<1>1. r.pc \notin GroupPcs /\ r.pc # "extend"
  BY DEF Free, FreePcs, GroupPcs
<1>2. OriginLocks(r) = 0 /\ ~UndoLocked(r)
  BY DEF Free, FreePcs, OriginLocks, UndoLocked, Updating, Second, ExtPcs
<1>3. Bit(UndoLocked(r)) = 0 /\ Bit(r.pc = "extend") = 0
  BY <1>1, <1>2 DEF Bit
<1>4. N(0, 0, 0) = 0
  BY DEF N, Bit
<1>5. \A G, o, u : Held(G, r) = H(o, 0, u, 0, 0) /\ Num(r) = 0
  BY <1>1, <1>2, <1>3, <1>4, HeldIs
<1> QED
  BY <1>1, <1>2, <1>3, <1>4, <1>5

\* A step that ends without a lock.
LEMMA FreeBy ==
  ASSUME NEW w, Free(s'[w]), NEW o, NEW u, Profile(locks', w, o, 0, u, 0, 0),
         Others(locks, locks', Workers, Locks, w)
  PROVE  Locked(w)
<1>1. /\ s'[w].pc \notin GroupPcs /\ OriginLocks(s'[w]) = 0 /\ Bit(UndoLocked(s'[w])) = 0
      /\ Bit(s'[w].pc = "extend") = 0
  BY FreeIs
<1> QED
  BY <1>1, LockedBy

LEMMA FreeProfile ==
  ASSUME Inv, pageCnt <= MaxPages, NEW w \in Workers, Free(s[w])
  PROVE  Profile(locks, w, 0, 0, 0, 0, 0)
<1>1. Has(locks, Locks, w, Held(groups, s[w]), Num(s[w])) /\ locks \in LockStates(Workers, Locks)
  BY Known DEF Inv, LocksOK
<1>2. Held(groups, s[w]) = H(0, 0, 0, 0, 0) /\ Num(s[w]) = N(0, 0, 0)
  BY FreeIs
<1> QED
  BY <1>1, <1>2 DEF Profile

LEMMA FreeStep ==
  ASSUME Inv, NEW w \in Workers, Free(s[w]), Free(s'[w]), pageCnt' = pageCnt,
         locks' = locks \/ \E p \in PageNos : Visit(w, p)
  PROVE  Locked(w)
<1> SUFFICES ASSUME pageCnt <= MaxPages PROVE Locked(w)
  BY DEF Locked
<1>1. Profile(locks, w, 0, 0, 0, 0, 0)
  BY FreeProfile
<1>2. CASE locks' = locks
  <2>1. Others(locks, locks', Workers, Locks, w)
    BY <1>2 DEF Others
  <2>2. Profile(locks', w, 0, 0, 0, 0, 0)
    BY <1>1, <1>2
  <2> QED
    BY <2>1, <2>2, FreeBy
<1>3. CASE \E p \in PageNos : Visit(w, p)
  <2>1. PICK p \in PageNos : Visit(w, p)
    BY <1>3
  <2>2. p \in Locks
    BY LocksAre
  <2>3. locks \in LockStates(Workers, Locks) /\ Has(locks, Locks, w, H(0, 0, 0, 0, 0), 0)
    BY <1>1, FreeIs DEF Profile
  <2>4. Leaves(locks, locks', Workers, Locks, w, H(0, 0, 0, 0, 0), 0)
    BY <2>1, <2>2, <2>3, VisitLeaves, ModifyAssumption DEF Visit
  <2>5. Profile(locks', w, 0, 0, 0, 0, 0) /\ Others(locks, locks', Workers, Locks, w)
    BY <2>4, FreeIs DEF Leaves, Profile
  <2> QED
    BY <2>5, FreeBy
<1> QED
  BY <1>2, <1>3

\* The steps of a search or of a scan, and the beginning and the end of a statement.
LEMMA SearchLocks ==
  ASSUME Inv, NEW w \in Workers,
         \/ StartInsert(w) \/ StartUpdate(w) \/ StartDelete(w) \/ EndStatement(w)
         \/ NextGroup(w) \/ ScanGroup(w) \/ RowMatches(w) \/ RowDiffers(w)
         \/ ScanColumn(w) \/ CurrentReadVersion(w)
  PROVE  Locked(w) /\ Free(s[w]) /\ Free(s'[w]) /\ s'[w].pc # "origin" /\ pageCnt' = pageCnt
<1> DEFINE r == s[w]
<1>0. Inv1 /\ r \in Locals /\ Shape(pages, groups, r)
  BY Known DEF Inv
<1>1. CASE StartInsert(w) \/ StartUpdate(w) \/ StartDelete(w)
  <2>1. Free(r) /\ Free(s'[w]) /\ s'[w].pc # "origin" /\ pageCnt' = pageCnt /\ locks' = locks
    BY <1>0, <1>1, Starts DEF Free, FreePcs
  <2> QED
    BY <2>1, FreeStep
<1>2. CASE EndStatement(w)
  <2>1. Free(r) /\ Free(s'[w]) /\ s'[w].pc # "origin" /\ pageCnt' = pageCnt /\ locks' = locks
    BY <1>0, <1>2, EndStatement1 DEF Free, FreePcs, Idle
  <2> QED
    BY <2>1, FreeStep
<1>3. CASE NextGroup(w)
  <2>1. /\ r.pc = "group" /\ Quiet /\ locks' = locks
        /\ s'[w] = IF r.g < Len(groups) THEN [r EXCEPT !.pc = "member", !.g = @ + 1]
                   ELSE [r EXCEPT !.pc = "startext", !.g = 0, !.num = NumCols]
    BY <1>0, <1>3, NextGroup1
  <2>2. r.op = "insert"
    BY <1>0, <2>1 DEF Shape, Statement, InsertPcs
  <2>3. Free(r) /\ Free(s'[w]) /\ s'[w].pc # "origin" /\ pageCnt' = pageCnt
    BY <1>0, <2>1, <2>2 DEF Free, FreePcs, Quiet, Locals
  <2> QED
    BY <2>1, <2>3, FreeStep
<1>4. CASE ScanGroup(w)
  <2>1. /\ r.pc = "scan" /\ Quiet /\ locks' = locks
        /\ s'[w] = GroupNext(r) \/ s'[w] = [r EXCEPT !.pc = "end"]
    BY <1>0, <1>4, ScanGroup1
  <2>2. Free(r) /\ Free(s'[w]) /\ s'[w].pc # "origin" /\ pageCnt' = pageCnt
    BY <1>0, <2>1 DEF Free, FreePcs, Quiet, Locals, GroupNext, RowNext
  <2> QED
    BY <2>1, <2>2, FreeStep
<1>5. CASE RowMatches(w)
  <2>1. /\ r.pc = "found" /\ Quiet /\ locks' = locks
        /\ \E at \in Seq(Entries) :
             s'[w] = [r EXCEPT !.pc = IF r.op = "update" THEN "first" ELSE "delete", !.at = at]
    BY <1>0, <1>5, RowMatches1
  <2>2. Free(r) /\ Free(s'[w]) /\ s'[w].pc # "origin" /\ pageCnt' = pageCnt
    BY <1>0, <2>1 DEF Free, FreePcs, Quiet, Locals
  <2> QED
    BY <2>1, <2>2, FreeStep
<1>6. CASE RowDiffers(w)
  <2>1. r.pc = "found" /\ Quiet /\ locks' = locks /\ s'[w] = RowNext(r)
    BY <1>0, <1>6, RowDiffers1
  <2>2. Free(r) /\ Free(s'[w]) /\ s'[w].pc # "origin" /\ pageCnt' = pageCnt
    BY <1>0, <2>1 DEF Free, FreePcs, Quiet, Locals, RowNext
  <2> QED
    BY <2>1, <2>2, FreeStep
<1>7. ASSUME NEW seen, NEW v PROVE Free(Back(r, seen, v)) /\ Back(r, seen, v).pc # "origin"
  BY <1>0 DEF Free, FreePcs, Back, Done, RowNext, Locals
<1>8. Free(Done(r, << >>)) /\ Done(r, << >>).pc # "origin"
  BY <1>0 DEF Free, FreePcs, Done, RowNext, Locals
<1>9. CASE ScanColumn(w)
  <2>1. /\ r.pc = "column" /\ Quiet /\ \E p \in PageNos : Visit(w, p)
        /\ \/ s'[w] = [r EXCEPT !.pc = "scan"]
           \/ s'[w] = Done(r, << >>)
           \/ \E seen, v : s'[w] = Back(r, seen, v)
    BY <1>0, <1>9, ScanColumn1
  <2>2. Free([r EXCEPT !.pc = "scan"]) /\ [r EXCEPT !.pc = "scan"].pc # "origin"
    BY <1>0 DEF Free, FreePcs, Locals
  <2>3. Free(r) /\ pageCnt' = pageCnt
    BY <2>1 DEF Free, FreePcs, Quiet
  <2>4. Free(s'[w]) /\ s'[w].pc # "origin"
    BY <1>7, <1>8, <2>1, <2>2
  <2> QED
    BY <2>1, <2>3, <2>4, FreeStep
<1>10. CASE CurrentReadVersion(w)
  <2>1. /\ r.pc = "walk" /\ pageCnt' = pageCnt /\ \E p \in PageNos : Visit(w, p)
        /\ \E seen, v : s'[w] = Back(r, seen, v)
    BY <1>0, <1>10, CurrentRead1 DEF InPage
  <2>3. Free(r) /\ Free(s'[w]) /\ s'[w].pc # "origin" /\ pageCnt' = pageCnt
    BY <1>7, <2>1 DEF Free, FreePcs
  <2> QED
    BY <2>1, <2>3, FreeStep
<1> QED
  BY <1>1, <1>2, <1>3, <1>4, <1>5, <1>6, <1>9, <1>10

-----------------------------------------------------------------------------
(* The locks of an insert *)

\* The first m pages of ls.
Firsts(ls, m) == [l \in Locks |-> Bit(\E k \in 1..m : ls[k] = l)]

LEMMA HeldGroup ==
  ASSUME NEW G, NEW r, r.pc \in GroupPcs
  PROVE  Held(G, r) = Firsts(r.plist, GroupLocks(r)) /\ (GroupLocks(r) \in Nat => Num(r) = GroupLocks(r))
<1>1. OriginLocks(r) = 0 /\ ~UndoLocked(r) /\ r.pc # "extend"
  BY DEF GroupPcs, OriginLocks, UndoLocked, Updating, Second, UpdatePcs, ExtPcs
<1>2. ASSUME NEW l \in Locks PROVE Count(G, r, l) = Bit(\E k \in 1..GroupLocks(r) : r.plist[k] = l)
  <2>1. PICK x, y, z, t : /\ x = Bit(\E k \in 1..GroupLocks(r) : r.plist[k] = l)
                          /\ y = (IF OriginLocks(r) # 0 /\ l = Col(G, r, r.c) THEN OriginLocks(r) ELSE 0)
                          /\ z = Bit(UndoLocked(r) /\ l = r.undo)
                          /\ t = Bit(r.pc = "extend" /\ l = ExtLock)
    OBVIOUS
  <2>2. Count(G, r, l) = x + y + z + t
    BY <2>1 DEF Count
  <2>3. x \in Int
    BY <2>1 DEF Bit
  <2>4. y = 0 /\ z = 0 /\ t = 0
    BY <1>1, <2>1 DEF Bit
  <2>5. Count(G, r, l) = x
    BY ONLY <2>2, <2>3, <2>4
  <2> QED
    BY <2>1, <2>5
<1>3. GroupLocks(r) \in Nat => Num(r) = GroupLocks(r)
  BY <1>1 DEF Num, Bit
<1> QED
  BY <1>2, <1>3 DEF Held, Firsts

LEMMA GroupLocked ==
  ASSUME NEW w, s'[w].pc \in GroupPcs, NEW m \in Nat, GroupLocks(s'[w]) = m,
         Leaves(locks, locks', Workers, Locks, w, Firsts(s'[w].plist, m), m)
  PROVE  Locked(w)
<1>1. Held(groups', s'[w]) = Firsts(s'[w].plist, m) /\ Num(s'[w]) = m
  BY HeldGroup
<1> QED
  BY <1>1 DEF Locked

\* The pages of an insert are different ones.
LEMMA InsertAt ==
  ASSUME Inv, NEW w \in Workers, s[w].pc \in GroupPcs
  PROVE  /\ s[w].op = "insert" /\ s[w].c \in 1..NumCols /\ Len(s[w].plist) = NumCols /\ s[w].plist \in Seq(PageNos)
         /\ s[w].plist \in Seq(Locks) /\ s[w].g \in 1..Len(groups) /\ NumCols \in Nat \ {0}
         /\ \A k \in 1..NumCols : s[w].plist[k] = groups[s[w].g][k] /\ s[w].plist[k] \in PageNos /\ s[w].plist[k] \in Locks
         /\ \A j, k \in 1..NumCols : s[w].plist[j] = s[w].plist[k] => j = k
         /\ GroupLocks(s[w]) \in 0..NumCols
         /\ pageCnt <= MaxPages => Has(locks, Locks, w, Firsts(s[w].plist, GroupLocks(s[w])), GroupLocks(s[w]))
<1> DEFINE r == s[w]
<1>1. r \in Locals /\ Shape(pages, groups, r) /\ groups \in Groups
  BY Known DEF Inv
<1>2. r.op = "insert" /\ r.c \in 1..NumCols /\ NumCols \in Nat \ {0} /\ r.plist \in Seq(PageNos)
  BY <1>1, TableSpaceAssumption DEF Shape, Statement, GroupPcs, InsertPcs, Locals
<1>3. /\ r.g \in 1..Len(groups) /\ Len(r.plist) = NumCols
      /\ \A k \in 1..NumCols : r.plist[k] = groups[r.g][k]
  BY <1>1 DEF Shape, Inserting, GroupPcs
<1>4. \A k \in 1..NumCols : r.plist[k] \in PageNos /\ r.plist[k] \in Locks
  BY <1>2, <1>3, LocksAre
<1>5. r.plist \in Seq(Locks)
  BY <1>2, LocksAre
<1>6. \A j, k \in 1..NumCols : r.plist[j] = r.plist[k] => j = k
  BY <1>3 DEF Inv, Storage, GroupsOK, Cols
<1>7. GroupLocks(r) \in 0..NumCols
  BY <1>2 DEF GroupLocks
<1>8. pageCnt <= MaxPages => Has(locks, Locks, w, Firsts(r.plist, GroupLocks(r)), GroupLocks(r))
  <2>1. pageCnt <= MaxPages => Has(locks, Locks, w, Held(groups, r), Num(r))
    BY DEF Inv, LocksOK
  <2>2. Held(groups, r) = Firsts(r.plist, GroupLocks(r)) /\ Num(r) = GroupLocks(r)
    BY <1>2, <1>7, HeldGroup
  <2> QED
    BY <2>1, <2>2
<1> QED
  BY ONLY <1>2, <1>3, <1>4, <1>5, <1>6, <1>7, <1>8

LEMMA MemberPageLocks ==
  ASSUME Inv, NEW w \in Workers, MemberPage(w)
  PROVE  Locked(w)
<1> DEFINE r == s[w]
<1>1. PICK fits \in BOOLEAN, p \in PageNos :
        /\ r.pc = "member" /\ Quiet /\ Visit(w, p)
        /\ s'[w] = IF ~fits THEN [r EXCEPT !.pc = "group", !.c = 1, !.plist = << >>]
                   ELSE IF r.c < NumCols THEN [r EXCEPT !.c = @ + 1, !.plist = Append(@, p)]
                   ELSE [r EXCEPT !.pc = "lockgroup", !.c = 1, !.plist = Append(@, p)]
  BY MemberPage1 DEF Inv
<1>2. Free(r) /\ r \in Locals /\ pageCnt' = pageCnt
  BY <1>1, Known DEF Free, FreePcs, Quiet, Inv
<1>3. CASE ~fits \/ r.c < NumCols
  <2>1. Free(s'[w])
    BY <1>1, <1>2, <1>3 DEF Free, FreePcs, Locals
  <2> QED
    BY <1>1, <1>2, <2>1, FreeStep
<1>4. CASE fits /\ ~(r.c < NumCols)
  <2> SUFFICES ASSUME pageCnt <= MaxPages PROVE Locked(w)
    BY <1>2 DEF Locked
  <2>1. s'[w].pc = "lockgroup" /\ s'[w].c = 1
    BY <1>1, <1>2, <1>4 DEF Locals
  <2>2. Profile(locks, w, 0, 0, 0, 0, 0)
    BY <1>2, FreeProfile
  <2>3. locks \in LockStates(Workers, Locks) /\ Has(locks, Locks, w, H(0, 0, 0, 0, 0), 0) /\ p \in Locks
    BY <1>2, <2>2, FreeIs, LocksAre DEF Profile
  <2>4. Leaves(locks, locks', Workers, Locks, w, H(0, 0, 0, 0, 0), 0)
    BY <1>1, <2>3, VisitLeaves, ModifyAssumption DEF Visit
  <2>5. Firsts(s'[w].plist, 0) = H(0, 0, 0, 0, 0)
    BY DEF Firsts, H, Bit
  <2>6. GroupLocks(s'[w]) = 0 /\ s'[w].pc \in GroupPcs
    BY <2>1 DEF GroupLocks, GroupPcs
  <2> QED
    BY <2>4, <2>5, <2>6, GroupLocked
<1> QED
  BY <1>3, <1>4

LEMMA LockGroupLocks ==
  ASSUME Inv, LocksFit, NEW w \in Workers, LockGroupPages(w)
  PROVE  Locked(w)
<1> DEFINE r == s[w]
           c == r.c
           ls == r.plist
<1>1. /\ r.pc = "lockgroup" /\ Quiet /\ LockPage(w, ls[c], WRITE)
      /\ s'[w] = IF c < NumCols THEN [r EXCEPT !.c = @ + 1] ELSE [r EXCEPT !.pc = "check", !.c = 1]
  BY LockGroupPages1 DEF Inv
<1>2. r \in Locals /\ locks \in LockStates(Workers, Locks)
  BY Known DEF Inv
<1> SUFFICES ASSUME pageCnt <= MaxPages PROVE Locked(w)
  BY <1>1 DEF Locked, Quiet
<1>3. /\ c \in 1..NumCols /\ NumCols \in Nat \ {0} /\ ls[c] \in Locks
      /\ \A j, k \in 1..NumCols : ls[j] = ls[k] => j = k
      /\ Has(locks, Locks, w, Firsts(ls, c - 1), c - 1)
  BY <1>1, InsertAt DEF GroupPcs, GroupLocks
<1>4. c - 1 < MaxLocalLocks /\ c - 1 \in Nat
  BY <1>3, LocalLockAssumption DEF LocksFit
<1>5. Firsts(ls, c - 1)[ls[c]] = 0
  BY <1>3 DEF Firsts, Bit
<1>6. Plus(Firsts(ls, c - 1), ls[c]) = Firsts(ls, c)
  <2>1. PICK h : h = Firsts(ls, c - 1)
    OBVIOUS
  <2>2. h \in [Locks -> Nat] /\ \A l \in Locks : h[l] = Bit(\E k \in 1..(c - 1) : ls[k] = l)
    BY <2>1 DEF Firsts, Bit
  <2>3. Plus(h, ls[c]) \in [Locks -> Nat] /\ Firsts(ls, c) \in [Locks -> Nat]
    BY <1>3, <2>2 DEF Plus, Firsts, Bit
  <2>4. ASSUME NEW l \in Locks PROVE Plus(h, ls[c])[l] = Firsts(ls, c)[l]
    <3>1. CASE l = ls[c]
      <4>1. Plus(h, ls[c])[l] = 1
        BY <1>3, <1>5, <2>1, <2>2, <3>1 DEF Plus
      <4>2. \E k \in 1..c : ls[k] = l
        BY <1>3, <3>1
      <4>3. Firsts(ls, c)[l] = 1
        BY <4>2 DEF Firsts, Bit
      <4> QED
        BY <4>1, <4>3
    <3>2. CASE l # ls[c]
      <4>1. (\E k \in 1..c : ls[k] = l) <=> (\E k \in 1..(c - 1) : ls[k] = l)
        BY <1>3, <3>2
      <4>2. Plus(h, ls[c])[l] = h[l]
        BY <1>3, <2>2, <3>2 DEF Plus
      <4>3. Firsts(ls, c)[l] = Bit(\E k \in 1..c : ls[k] = l)
        BY DEF Firsts
      <4> QED
        BY <2>2, <4>1, <4>2, <4>3 DEF Bit
    <3> QED
      BY <3>1, <3>2
  <2>5. Plus(h, ls[c]) = Firsts(ls, c)
    BY <2>3, <2>4
  <2> QED
    BY <2>1, <2>5
<1>7. Leaves(locks, locks', Workers, Locks, w, Firsts(ls, c), c)
  <2>1. PICK h, n : h = Firsts(ls, c - 1) /\ n = c - 1
    OBVIOUS
  <2>2. Has(locks, Locks, w, h, n) /\ n < MaxLocalLocks /\ ls[c] \in Locks /\ CanAcquire(locks, w, ls[c], WRITE)
        /\ locks' = AcquireRWLockLocal(locks, w, ls[c], WRITE)
    BY <1>1, <1>3, <1>4, <2>1 DEF LockPage
  <2>3. Leaves(locks, locks', Workers, Locks, w, Plus(h, ls[c]), IF h[ls[c]] = 0 THEN n + 1 ELSE n)
    BY <1>2, <2>2, AcquireLeaves, ModifyAssumption
  <2>4. Plus(h, ls[c]) = Firsts(ls, c) /\ (IF h[ls[c]] = 0 THEN n + 1 ELSE n) = c
    BY <1>3, <1>5, <1>6, <2>1
  <2> QED
    BY <2>3, <2>4
<1>8. s'[w].pc \in GroupPcs /\ GroupLocks(s'[w]) = c /\ s'[w].plist = ls
  <2>1. CASE c < NumCols
    <3>1. s'[w].pc = "lockgroup" /\ s'[w].c = c + 1 /\ s'[w].plist = ls
      BY <1>1, <1>2, <2>1 DEF Locals
    <3> QED
      BY <1>3, <3>1 DEF GroupPcs, GroupLocks
  <2>2. CASE ~(c < NumCols)
    <3>1. s'[w].pc = "check" /\ s'[w].plist = ls /\ c = NumCols
      BY <1>1, <1>2, <1>3, <2>2 DEF Locals
    <3> QED
      BY <3>1 DEF GroupPcs, GroupLocks
  <2> QED
    BY <2>1, <2>2
<1>9. c \in Nat
  BY <1>3
<1> QED
  BY <1>7, <1>8, <1>9, GroupLocked

\* An insert that has written the row, or has found that the room is gone, unlocks its pages.
LEMMA InsertUnlocks ==
  ASSUME Inv, NEW w \in Workers, s[w].pc \in {"check", "write"}, Free(s'[w]), pageCnt' = pageCnt,
         UnLockPages(w, s[w].plist)
  PROVE  Locked(w)
<1> DEFINE r == s[w]
           ls == r.plist
<1> SUFFICES ASSUME pageCnt <= MaxPages PROVE Locked(w)
  BY DEF Locked
<1>1. locks \in LockStates(Workers, Locks)
  BY Known DEF Inv
<1>2. /\ ls \in Seq(Locks) /\ Len(ls) = NumCols
      /\ \A j, k \in 1..Len(ls) : ls[j] = ls[k] => j = k
      /\ Has(locks, Locks, w, Firsts(ls, NumCols), Len(ls))
  BY InsertAt DEF GroupPcs, GroupLocks
<1>3. Firsts(ls, NumCols) = OneEach(Locks, ls, 1)
  BY <1>2 DEF Firsts, OneEach, Bit
<1>4. locks' = Released(locks, w, ls)
  BY DEF UnLockPages
<1>5. Leaves(locks, locks', Workers, Locks, w, None(Locks), 0)
  BY <1>1, <1>2, <1>3, <1>4, ReleasedAll, ModifyAssumption
<1>6. None(Locks) = H(0, 0, 0, 0, 0)
  BY DEF None, H
<1>7. Profile(locks', w, 0, 0, 0, 0, 0) /\ Others(locks, locks', Workers, Locks, w)
  BY <1>5, <1>6, FreeIs DEF Leaves, Profile
<1> QED
  BY <1>7, FreeBy

\* A step that keeps the locks of an insert.
LEMMA InsertKeeps ==
  ASSUME Inv, NEW w \in Workers, s[w].pc \in GroupPcs, s'[w].pc \in GroupPcs, s'[w].plist = s[w].plist,
         GroupLocks(s'[w]) = GroupLocks(s[w]), pageCnt' = pageCnt, locks' = locks
  PROVE  Locked(w)
<1> SUFFICES ASSUME pageCnt <= MaxPages PROVE Locked(w)
  BY DEF Locked
<1>1. PICK m : m = GroupLocks(s[w])
  OBVIOUS
<1>2. m \in Nat /\ Has(locks, Locks, w, Firsts(s[w].plist, m), m) /\ locks \in LockStates(Workers, Locks)
  BY <1>1, InsertAt, Known DEF Inv
<1>3. Leaves(locks, locks', Workers, Locks, w, Firsts(s'[w].plist, m), m)
  BY <1>2, LeavesSame
<1> QED
  BY <1>1, <1>2, <1>3, GroupLocked

LEMMA CheckLocks ==
  ASSUME Inv, NEW w \in Workers, FreeSpaceCheck(w)
  PROVE  Locked(w)
<1>1. /\ s[w].pc = "check" /\ Quiet /\ s[w] \in Locals
      /\ \/ s'[w] = [s[w] EXCEPT !.pc = "write"] /\ locks' = locks
         \/ s'[w] = [s[w] EXCEPT !.pc = "member", !.plist = << >>] /\ UnLockPages(w, s[w].plist)
  BY FreeSpaceCheck1, Known DEF Inv
<1>2. pageCnt' = pageCnt
  BY <1>1 DEF Quiet
<1>3. CASE s'[w] = [s[w] EXCEPT !.pc = "write"] /\ locks' = locks
  <2>1. s'[w].pc = "write" /\ s'[w].plist = s[w].plist
    BY <1>1, <1>3 DEF Locals
  <2>2. GroupLocks(s'[w]) = GroupLocks(s[w]) /\ s[w].pc \in GroupPcs /\ s'[w].pc \in GroupPcs
    BY <1>1, <2>1 DEF GroupLocks, GroupPcs
  <2> QED
    BY <1>2, <1>3, <2>1, <2>2, InsertKeeps
<1>4. CASE s'[w] = [s[w] EXCEPT !.pc = "member", !.plist = << >>] /\ UnLockPages(w, s[w].plist)
  <2>1. Free(s'[w])
    BY <1>1, <1>4 DEF Locals, Free, FreePcs
  <2> QED
    BY <1>1, <1>2, <1>4, <2>1, InsertUnlocks
<1> QED
  BY <1>1, <1>3, <1>4

LEMMA WriteColumnLocks ==
  ASSUME Inv, NEW w \in Workers, WriteColumn(w)
  PROVE  Locked(w)
<1>1. /\ s[w].pc = "write" /\ pageCnt' = pageCnt /\ s[w] \in Locals
      /\ \/ s'[w] = [s[w] EXCEPT !.c = @ + 1] /\ locks' = locks
         \/ s'[w] = [s[w] EXCEPT !.pc = "end"] /\ UnLockPages(w, s[w].plist)
  BY WriteColumn1, Known DEF Inv
<1>3. CASE s'[w] = [s[w] EXCEPT !.c = @ + 1] /\ locks' = locks
  <2>1. s'[w].pc = "write" /\ s'[w].plist = s[w].plist
    BY <1>1, <1>3 DEF Locals
  <2>2. GroupLocks(s'[w]) = GroupLocks(s[w]) /\ s[w].pc \in GroupPcs /\ s'[w].pc \in GroupPcs
    BY <1>1, <2>1 DEF GroupLocks, GroupPcs
  <2> QED
    BY <1>1, <1>3, <2>1, <2>2, InsertKeeps
<1>4. CASE s'[w] = [s[w] EXCEPT !.pc = "end"] /\ UnLockPages(w, s[w].plist)
  <2>1. Free(s'[w])
    BY <1>1, <1>4 DEF Locals, Free, FreePcs
  <2> QED
    BY <1>1, <1>4, <2>1, InsertUnlocks
<1> QED
  BY <1>1, <1>3, <1>4

-----------------------------------------------------------------------------
(* The locks of an update and of a delete *)

\* How often the page of the column, the undo page and the extension lock are locked.
LockRow(r, k, b, e) ==
  \/ Free(r) /\ k = 0 /\ b = 0 /\ e = 0
  \/ r.pc \in {"undo", "remove"} /\ k = 1 /\ b = 0 /\ e = 0
  \/ r.pc \in {"move", "inplace", "grow", "newrow"} /\ k = 1 /\ b = 1 /\ e = 0
  \/ r.op = "update" /\ r.pc \in {"chain", "startext"} /\ r.kind = "undo" /\ k = 1 /\ b = 0 /\ e = 0
  \/ r.op = "update" /\ r.pc \in {"chain", "startext"} /\ r.kind = "ext" /\ k = 2 /\ b = 1 /\ e = 0
  \/ r.op = "update" /\ r.pc = "extend" /\ r.kind = "undo" /\ k = 1 /\ b = 0 /\ e = 1
  \/ r.op = "update" /\ r.pc = "extend" /\ r.kind = "ext" /\ k = 2 /\ b = 1 /\ e = 1
  \/ r.op = "insert" /\ r.pc = "extend" /\ k = 0 /\ b = 0 /\ e = 1

LEMMA LockRowIs ==
  ASSUME NEW r, NEW k, NEW b, NEW e, LockRow(r, k, b, e)
  PROVE  /\ r.pc \notin GroupPcs /\ OriginLocks(r) = k /\ Bit(UndoLocked(r)) = b
         /\ Bit(r.pc = "extend") = e /\ (UndoLocked(r) <=> b = 1)
<1>1. CASE Free(r) /\ k = 0 /\ b = 0 /\ e = 0
  BY <1>1, FreeIs
<1>2. CASE ~Free(r)
  BY <1>2 DEF LockRow, GroupPcs, OriginLocks, UndoLocked, Updating, UpdatePcs, ExtPcs, Second, Bit
<1>3. CASE Free(r) /\ ~(k = 0 /\ b = 0 /\ e = 0)
  BY <1>3 DEF LockRow, Free, FreePcs
<1> QED
  BY <1>1, <1>2, <1>3

LEMMA Before ==
  ASSUME Inv, pageCnt <= MaxPages, NEW w \in Workers, NEW k, NEW b, NEW e, LockRow(s[w], k, b, e),
         NEW o, k # 0 \/ b = 1 => o = Origin(w)
  PROVE  Profile(locks, w, o, k, s[w].undo, b, e)
<1>1. /\ s[w].pc \notin GroupPcs /\ OriginLocks(s[w]) = k /\ Bit(UndoLocked(s[w])) = b
      /\ Bit(s[w].pc = "extend") = e /\ (UndoLocked(s[w]) <=> b = 1)
  BY LockRowIs
<1> QED
  BY <1>1, ProfileOf

LEMMA After ==
  ASSUME NEW w, NEW k, NEW b, NEW e, LockRow(s'[w], k, b, e), NEW o, NEW u,
         Profile(locks', w, o, k, u, b, e), Others(locks, locks', Workers, Locks, w),
         k # 0 => Col(groups', s'[w], s'[w].c) = o, b = 1 => s'[w].undo = u
  PROVE  Locked(w)
<1>1. /\ s'[w].pc \notin GroupPcs /\ OriginLocks(s'[w]) = k /\ Bit(UndoLocked(s'[w])) = b
      /\ Bit(s'[w].pc = "extend") = e
  BY LockRowIs
<1> QED
  BY <1>1, LockedBy

LEMMA StartExtensionLocks ==
  ASSUME Inv, LocksFit, NEW w \in Workers, StartExtensionTbl(w)
  PROVE  Locked(w)
<1> DEFINE r == s[w]
           o == Origin(w)
<1>1. /\ r.pc = "startext" /\ Quiet /\ LockPage(w, ExtLock, WRITE)
      /\ s'[w] = [r EXCEPT !.pc = "extend"] /\ r \in Locals /\ Shape(pages, groups, r)
  BY StartExtension1, Known DEF Inv
<1>2. r.op \in {"insert", "update"} /\ r.kind \in {"undo", "ext"}
  BY <1>1 DEF Shape, Statement, ExtPcs, Locals
<1>3. /\ s'[w].pc = "extend" /\ s'[w].op = r.op /\ s'[w].kind = r.kind /\ s'[w].undo = r.undo
      /\ s'[w].c = r.c /\ s'[w].g = r.g /\ s'[w].cols = r.cols
  BY <1>1 DEF Locals
<1> SUFFICES ASSUME pageCnt <= MaxPages PROVE Locked(w)
  BY <1>1 DEF Locked, Quiet
<1>4. \E k, b : LockRow(r, k, b, 0) /\ LockRow(s'[w], k, b, 1)
  BY <1>1, <1>2, <1>3 DEF LockRow, Free, FreePcs
<1>5. PICK k, b : LockRow(r, k, b, 0) /\ LockRow(s'[w], k, b, 1)
  BY <1>4
<1>6. Profile(locks, w, o, k, r.undo, b, 0)
  BY <1>5, Before
<1>7. Profile(locks', w, o, k, r.undo, b, 1) /\ Others(locks, locks', Workers, Locks, w)
  BY <1>1, <1>6, LockExtLeaves DEF LockPage
<1>8. k # 0 => Col(groups', s'[w], s'[w].c) = o
  <2>1. k # 0 => r.op = "update"
    BY <1>1, <1>2, <1>5 DEF LockRow, Free, FreePcs
  <2>2. r.op = "update" => Col(groups, r, r.c) = o
    BY <1>1, OriginData DEF ExtPcs
  <2> QED
    BY <1>1, <1>3, <2>1, <2>2 DEF Quiet, Col
<1> QED
  BY <1>3, <1>5, <1>7, <1>8, After

\* A step that locks the page of the column once more.
LEMMA OriginLocked ==
  ASSUME Inv, LocksFit, NEW w \in Workers, pageCnt' = pageCnt, groups' = groups,
         LockPage(w, Origin(w), WRITE), s[w].pc \in UpdatePcs \cup DeletePcs,
         NEW k, NEW b, LockRow(s[w], k, b, 0), LockRow(s'[w], k + 1, b, 0),
         s'[w].undo = s[w].undo, s'[w].c = s[w].c, s'[w].g = s[w].g, s'[w].cols = s[w].cols
  PROVE  Locked(w)
<1> DEFINE o == Origin(w)
<1> SUFFICES ASSUME pageCnt <= MaxPages PROVE Locked(w)
  BY DEF Locked
<1>1. o \in PageNos /\ Col(groups, s[w], s[w].c) = o
  BY OriginData
<1>2. Profile(locks, w, o, k, s[w].undo, b, 0)
  BY Before
<1>3. k \in 0..3
  BY <1>2 DEF Profile
<1>4. k <= 2
  BY <1>3 DEF LockRow
<1>5. Profile(locks', w, o, k + 1, s[w].undo, b, 0) /\ Others(locks, locks', Workers, Locks, w)
  BY <1>1, <1>2, <1>4, LockOriginLeaves DEF LockPage
<1>6. Col(groups', s'[w], s'[w].c) = o
  BY <1>1 DEF Col
<1> QED
  BY <1>5, <1>6, After

LEMMA LockFirstPageLocks ==
  ASSUME Inv, LocksFit, NEW w \in Workers, LockFirstPage(w)
  PROVE  Locked(w)
<1> DEFINE r == s[w]
<1>1. /\ r.pc = "first" /\ Quiet /\ r \in Locals /\ Shape(pages, groups, r)
      /\ \/ locks' = locks /\ s'[w] = [r EXCEPT !.pc = "end"]
         \/ /\ LockPage(w, Origin(w), WRITE)
            /\ \E pc \in {"startext", "chain"} : s'[w] = [r EXCEPT !.kind = "undo", !.num = 1, !.pc = pc]
  BY LockFirstPage1, Known DEF Inv
<1>2. r.op = "update" /\ Free(r) /\ pageCnt' = pageCnt /\ groups' = groups
  BY <1>1 DEF Shape, Statement, UpdatePcs, Quiet, Free, FreePcs
<1>3. CASE locks' = locks /\ s'[w] = [r EXCEPT !.pc = "end"]
  <2>1. Free(s'[w])
    BY <1>1, <1>3 DEF Free, FreePcs, Locals
  <2> QED
    BY <1>2, <1>3, <2>1, FreeStep
<1>4. CASE /\ LockPage(w, Origin(w), WRITE)
           /\ \E pc \in {"startext", "chain"} : s'[w] = [r EXCEPT !.kind = "undo", !.num = 1, !.pc = pc]
  <2>1. PICK pc \in {"startext", "chain"} : s'[w] = [r EXCEPT !.kind = "undo", !.num = 1, !.pc = pc]
    BY <1>4
  <2>2. /\ s'[w].pc = pc /\ s'[w].kind = "undo" /\ s'[w].op = r.op /\ s'[w].undo = r.undo
        /\ s'[w].c = r.c /\ s'[w].g = r.g /\ s'[w].cols = r.cols
    BY <1>1, <2>1 DEF Locals
  <2>3. LockRow(r, 0, 0, 0) /\ LockRow(s'[w], 0 + 1, 0, 0)
    BY <1>1, <1>2, <2>1, <2>2 DEF LockRow, Free, FreePcs
  <2>4. r.pc \in UpdatePcs \cup DeletePcs
    BY <1>1 DEF UpdatePcs
  <2> QED
    BY <1>1, <1>2, <1>4, <2>2, <2>3, <2>4, OriginLocked
<1> QED
  BY <1>1, <1>3, <1>4

LEMMA LockOriginLocks ==
  ASSUME Inv, LocksFit, NEW w \in Workers, LockOrigin(w)
  PROVE  Locked(w)
<1> DEFINE r == s[w]
<1>1. /\ r.pc = "origin" /\ Quiet /\ LockPage(w, Origin(w), WRITE)
      /\ s'[w] = [r EXCEPT !.pc = "undo"] /\ r \in Locals
  BY LockOrigin1, Known DEF Inv
<1>3. /\ s'[w].pc = "undo" /\ s'[w].undo = r.undo
      /\ s'[w].c = r.c /\ s'[w].g = r.g /\ s'[w].cols = r.cols
  BY <1>1 DEF Locals
<1>4. LockRow(r, 0, 0, 0) /\ LockRow(s'[w], 0 + 1, 0, 0)
  BY <1>1, <1>3 DEF LockRow, Free, FreePcs
<1>5. r.pc \in UpdatePcs \cup DeletePcs /\ pageCnt' = pageCnt /\ groups' = groups
  BY <1>1 DEF UpdatePcs, Quiet
<1> QED
  BY <1>1, <1>3, <1>4, <1>5, OriginLocked

\* The locks that LockFor gives back, one by one.
LEMMA LockFor1 ==
  ASSUME NEW w \in Workers, locks \in LockStates(Workers, Locks), NEW l \in Locks, NEW a \in Locks,
         LockFor(w, l, <<a>>), NEW M, M = AcquireRWLockLocal(locks, w, l, WRITE)
  PROVE  /\ CanAcquire(locks, w, l, WRITE)
         /\ locks' = ReleaseRWLockLocal(M, w, a)
<1>1. M \in LockStates(Workers, Locks)
  BY AcquireIs DEF WRITE
<1> QED
  BY <1>1, ReleasedFew DEF LockFor

LEMMA LockFor2 ==
  ASSUME NEW w \in Workers, locks \in LockStates(Workers, Locks), NEW l \in Locks, NEW a \in Locks, NEW b \in Locks,
         LockFor(w, l, <<a, b>>), NEW M, M = AcquireRWLockLocal(locks, w, l, WRITE)
  PROVE  /\ CanAcquire(locks, w, l, WRITE)
         /\ locks' = ReleaseRWLockLocal(ReleaseRWLockLocal(M, w, a), w, b)
<1>1. M \in LockStates(Workers, Locks)
  BY AcquireIs DEF WRITE
<1> QED
  BY <1>1, ReleasedFew DEF LockFor

LEMMA LockFor3 ==
  ASSUME NEW w \in Workers, locks \in LockStates(Workers, Locks), NEW l \in Locks, NEW a \in Locks, NEW b \in Locks, NEW c \in Locks,
         LockFor(w, l, <<a, b, c>>), NEW M, M = AcquireRWLockLocal(locks, w, l, WRITE)
  PROVE  /\ CanAcquire(locks, w, l, WRITE)
         /\ locks' = ReleaseRWLockLocal(ReleaseRWLockLocal(ReleaseRWLockLocal(M, w, a), w, b), w, c)
<1>1. M \in LockStates(Workers, Locks)
  BY AcquireIs DEF WRITE
<1> QED
  BY <1>1, ReleasedFew DEF LockFor

LEMMA LockFor4 ==
  ASSUME NEW w \in Workers, locks \in LockStates(Workers, Locks), NEW l \in Locks, NEW a \in Locks, NEW b \in Locks, NEW c \in Locks, NEW d \in Locks,
         LockFor(w, l, <<a, b, c, d>>), NEW M, M = AcquireRWLockLocal(locks, w, l, WRITE)
  PROVE  /\ CanAcquire(locks, w, l, WRITE)
         /\ locks' = ReleaseRWLockLocal(ReleaseRWLockLocal(ReleaseRWLockLocal(ReleaseRWLockLocal(M, w, a), w, b), w, c), w, d)
<1>1. M \in LockStates(Workers, Locks)
  BY AcquireIs DEF WRITE
<1> QED
  BY <1>1, ReleasedFew DEF LockFor

LEMMA LockForDeleteLocks ==
  ASSUME Inv, LocksFit, NEW w \in Workers, LockForDelete(w)
  PROVE  Locked(w)
<1> DEFINE r == s[w]
           o == Origin(w)
<1>1. /\ r.pc = "delete" /\ Quiet /\ r \in Locals /\ locks \in LockStates(Workers, Locks)
      /\ \/ LockPage(w, o, WRITE) /\ s'[w] = [r EXCEPT !.pc = "remove"]
         \/ LockFor(w, o, <<o>>) /\ s'[w] = [r EXCEPT !.pc = "end"]
  BY LockForDelete1, Known DEF Inv
<1>2. r.pc \in UpdatePcs \cup DeletePcs /\ pageCnt' = pageCnt /\ groups' = groups
  BY <1>1 DEF DeletePcs, Quiet
<1>3. LockRow(r, 0, 0, 0)
  BY <1>1 DEF LockRow, Free, FreePcs
<1>4. CASE LockPage(w, o, WRITE) /\ s'[w] = [r EXCEPT !.pc = "remove"]
  <2>1. /\ s'[w].pc = "remove" /\ s'[w].undo = r.undo
        /\ s'[w].c = r.c /\ s'[w].g = r.g /\ s'[w].cols = r.cols
    BY <1>1, <1>4 DEF Locals
  <2>2. LockRow(s'[w], 0 + 1, 0, 0)
    BY <2>1 DEF LockRow
  <2> QED
    BY <1>2, <1>3, <1>4, <2>1, <2>2, OriginLocked
<1>5. CASE LockFor(w, o, <<o>>) /\ s'[w] = [r EXCEPT !.pc = "end"]
  <2> SUFFICES ASSUME pageCnt <= MaxPages PROVE Locked(w)
    BY <1>2 DEF Locked
  <2>1. o \in PageNos /\ o \in Locks
    BY <1>2, OriginData
  <2>2. Profile(locks, w, o, 0, r.undo, 0, 0)
    BY <1>3, Before
  <2>3. PICK M : M = AcquireRWLockLocal(locks, w, o, WRITE)
    OBVIOUS
  <2>4. CanAcquire(locks, w, o, WRITE) /\ locks' = ReleaseRWLockLocal(M, w, o)
    BY <1>1, <1>5, <2>1, <2>3, LockFor1
  <2>5. Profile(M, w, o, 1, r.undo, 0, 0) /\ Others(locks, M, Workers, Locks, w)
    <3>1. Profile(M, w, o, 0 + 1, r.undo, 0, 0) /\ Others(locks, M, Workers, Locks, w)
      BY <2>1, <2>2, <2>3, <2>4, LockOriginLeaves
    <3> QED
      BY <3>1
  <2>6. Profile(locks', w, o, 0, r.undo, 0, 0) /\ Others(M, locks', Workers, Locks, w)
    <3>1. Profile(locks', w, o, IF 1 > 0 THEN 1 - 1 ELSE 0, r.undo, 0, 0) /\ Others(M, locks', Workers, Locks, w)
      BY <2>1, <2>4, <2>5, FreeOriginLeaves
    <3> QED
      BY <3>1
  <2>7. Others(locks, locks', Workers, Locks, w)
    BY <2>5, <2>6, OthersTrans
  <2>8. Free(s'[w])
    BY <1>1, <1>5 DEF Free, FreePcs, Locals
  <2> QED
    BY <2>6, <2>7, <2>8, FreeBy
<1> QED
  BY <1>1, <1>4, <1>5

LEMMA LockUndoLocks ==
  ASSUME Inv, LocksFit, NEW w \in Workers, LockUndo(w)
  PROVE  Locked(w)
<1>0. PICK r, o, u : r = s[w] /\ o = Origin(w) /\ u = s[w].undo
  OBVIOUS
<1>1. /\ r.pc = "undo" /\ Quiet /\ r \in Locals /\ locks \in LockStates(Workers, Locks)
      /\ \/ LockPage(w, u, WRITE) /\ s'[w] = [r EXCEPT !.pc = "move"]
         \/ LockFor(w, u, <<u, o>>) /\ s'[w] = [r EXCEPT !.pc = "end"]
  BY <1>0, LockUndo1, Known DEF Inv
<1>2. r.pc \in UpdatePcs \cup DeletePcs /\ pageCnt' = pageCnt /\ groups' = groups /\ Shape(pages, groups, r)
  BY <1>0, <1>1, Known DEF UpdatePcs, Quiet, Inv
<1>3. HasUndo(r)
  BY <1>1, <1>2 DEF HasUndo, Updating, UpdatePcs, Shape, Statement
<1>4. /\ o \in PageNos /\ o \in Locks /\ u \in PageNos /\ u \in Locks /\ u # o
      /\ Col(groups, r, r.c) = o
  BY <1>0, <1>2, <1>3, OriginData
<1> SUFFICES ASSUME pageCnt <= MaxPages PROVE Locked(w)
  BY <1>2 DEF Locked
<1>5. LockRow(r, 1, 0, 0)
  BY <1>1 DEF LockRow
<1>6. Profile(locks, w, o, 1, u, 0, 0)
  BY <1>0, <1>5, Before
<1>7. CASE LockPage(w, u, WRITE) /\ s'[w] = [r EXCEPT !.pc = "move"]
  <2>1. /\ s'[w].pc = "move" /\ s'[w].undo = r.undo
        /\ s'[w].c = r.c /\ s'[w].g = r.g /\ s'[w].cols = r.cols
    BY <1>1, <1>7 DEF Locals
  <2>2. LockRow(s'[w], 1, 1, 0)
    BY <2>1 DEF LockRow
  <2>3. Profile(locks', w, o, 1, u, 1, 0) /\ Others(locks, locks', Workers, Locks, w)
    BY <1>4, <1>6, <1>7, LockUndoLeaves DEF LockPage
  <2>4. Col(groups', s'[w], s'[w].c) = o /\ s'[w].undo = u
    BY <1>0, <1>2, <1>4, <2>1 DEF Col
  <2> QED
    BY <2>2, <2>3, <2>4, After
<1>8. CASE LockFor(w, u, <<u, o>>) /\ s'[w] = [r EXCEPT !.pc = "end"]
  <2>1. PICK M, R : M = AcquireRWLockLocal(locks, w, u, WRITE) /\ R = ReleaseRWLockLocal(M, w, u)
    OBVIOUS
  <2>2. CanAcquire(locks, w, u, WRITE) /\ locks' = ReleaseRWLockLocal(R, w, o)
    BY <1>1, <1>4, <1>8, <2>1, LockFor2
  <2>3. Profile(M, w, o, 1, u, 1, 0) /\ Others(locks, M, Workers, Locks, w)
    BY <1>4, <1>6, <2>1, <2>2, LockUndoLeaves
  <2>4. Profile(R, w, o, 1, u, 0, 0) /\ Others(M, R, Workers, Locks, w)
    BY <2>1, <2>3, FreeUndoLeaves
  <2>5. Profile(locks', w, o, IF 1 > 0 THEN 1 - 1 ELSE 0, u, 0, 0) /\ Others(R, locks', Workers, Locks, w)
    BY <1>4, <2>2, <2>4, FreeOriginLeaves
  <2>6. Profile(locks', w, o, 0, u, 0, 0)
    BY <2>5
  <2>7. Others(locks, locks', Workers, Locks, w)
    BY <2>3, <2>4, <2>5, OthersTrans
  <2>8. Free(s'[w])
    BY <1>1, <1>8 DEF Free, FreePcs, Locals
  <2> QED
    BY <2>6, <2>7, <2>8, FreeBy
<1> QED
  BY <1>1, <1>7, <1>8

\* The head of a chain is neither the page it hangs on nor the undo page.
LEMMA HeadIs ==
  ASSUME Inv, NEW w \in Workers, s[w].pc = "chain", NEW p \in PageNos, p = ChainHead(pages[Origin(w)], s[w].kind)
  PROVE  /\ p # Origin(w) /\ p <= savedCnt /\ pages[p].type = s[w].kind
         /\ s[w].kind = "ext" => p # s[w].undo
<1>1. s[w] \in Locals /\ Shape(pages, groups, s[w]) /\ pages \in Files
  BY Known DEF Inv
<1>2. s[w].op = "update" /\ s[w].kind \in {"undo", "ext"}
  BY <1>1 DEF Shape, Statement, UpdatePcs, Locals
<1>3. Origin(w) \in PageNos /\ pages[Origin(w)].type = "data"
  BY OriginData DEF UpdatePcs
<1>4. p # 0
  BY LocksAre DEF ExtLock
<1>5. p <= savedCnt /\ pages[p].type = s[w].kind
  BY <1>2, <1>3, <1>4 DEF Inv, Storage, ChainsOK, ChainHead
<1>6. s[w].kind = "ext" => pages[s[w].undo].type = "undo"
  <2>1. s[w].kind = "ext" => HasUndo(s[w])
    BY <1>2 DEF HasUndo, Updating, Second, UpdatePcs
  <2> QED
    BY <2>1 DEF Inv, Storage, UseOK
<1> QED
  BY <1>2, <1>3, <1>5, <1>6

LEMMA LockChainPageLocks ==
  ASSUME Inv, LocksFit, NEW w \in Workers, LockChainPage(w)
  PROVE  Locked(w)
<1>0. PICK r, o, u : r = s[w] /\ o = Origin(w) /\ u = s[w].undo
  OBVIOUS
<1>1. PICK p \in PageNos :
        /\ r.pc = "chain" /\ Quiet /\ r \in Locals /\ locks \in LockStates(Workers, Locks)
        /\ p = ChainHead(pages[o], r.kind) /\ Shape(pages, groups, r)
        /\ \/ LockFor(w, p, <<p, o>>) /\ s'[w] = Got(r, p)
           \/ LockFor(w, p, <<p>>) /\ s'[w] = [r EXCEPT !.pc = "startext"]
  BY <1>0, LockChainPage1, Known DEF Inv
<1>2. r.op = "update" /\ r.kind \in {"undo", "ext"} /\ pageCnt' = pageCnt /\ groups' = groups
  BY <1>1 DEF Shape, Statement, UpdatePcs, Locals, Quiet
<1>3. /\ o \in PageNos /\ o \in Locks /\ p \in Locks /\ p # o /\ Col(groups, r, r.c) = o
      /\ r.kind = "ext" => p # u
  BY <1>0, <1>1, OriginData, HeadIs, LocksAre DEF UpdatePcs
<1> SUFFICES ASSUME pageCnt <= MaxPages PROVE Locked(w)
  BY <1>2 DEF Locked
<1>4. PICK k, b : /\ k = (IF r.kind = "ext" THEN 2 ELSE 1) /\ b = (IF r.kind = "ext" THEN 1 ELSE 0)
  OBVIOUS
<1>5. LockRow(r, k, b, 0)
  BY <1>1, <1>2, <1>4 DEF LockRow
<1>6. Profile(locks, w, o, k, u, b, 0)
  BY <1>0, <1>5, Before
<1>7. PICK M, R : M = AcquireRWLockLocal(locks, w, p, WRITE) /\ R = ReleaseRWLockLocal(M, w, p)
  OBVIOUS
<1>8. CanAcquire(locks, w, p, WRITE) => Profile(R, w, o, k, u, b, 0) /\ Others(locks, R, Workers, Locks, w)
  <2>1. b = 1 => p # u
    BY <1>3, <1>4
  <2> QED
    BY <1>3, <1>6, <1>7, <2>1, PassLeaves
<1>9. CASE LockFor(w, p, <<p, o>>) /\ s'[w] = Got(r, p)
  <2>1. CanAcquire(locks, w, p, WRITE) /\ locks' = ReleaseRWLockLocal(R, w, o)
    BY <1>1, <1>3, <1>7, <1>9, LockFor2
  <2>2. Profile(locks', w, o, IF k > 0 THEN k - 1 ELSE 0, u, b, 0) /\ Others(R, locks', Workers, Locks, w)
    BY <1>3, <1>8, <2>1, FreeOriginLeaves
  <2>3. Others(locks, locks', Workers, Locks, w)
    BY <1>8, <2>1, <2>2, OthersTrans
  <2>4. CASE r.kind = "undo"
    <3>1. Free(s'[w])
      BY <1>1, <1>9, <2>4 DEF Got, Free, FreePcs, Locals
    <3>2. (IF k > 0 THEN k - 1 ELSE 0) = 0 /\ b = 0
      BY <1>4, <2>4
    <3>3. Profile(locks', w, o, 0, u, 0, 0)
      BY <2>2, <3>2
    <3> QED
      BY <2>3, <3>1, <3>3, FreeBy
  <2>5. CASE r.kind = "ext"
    <3>1. /\ s'[w].pc = "newrow" /\ s'[w].undo = r.undo
          /\ s'[w].c = r.c /\ s'[w].g = r.g /\ s'[w].cols = r.cols
      BY <1>1, <1>9, <2>5 DEF Got, Locals
    <3>2. (IF k > 0 THEN k - 1 ELSE 0) = 1 /\ b = 1
      BY <1>4, <2>5
    <3>3. Profile(locks', w, o, 1, u, 1, 0)
      BY <2>2, <3>2
    <3>4. LockRow(s'[w], 1, 1, 0)
      BY <3>1 DEF LockRow
    <3>5. Col(groups', s'[w], s'[w].c) = o /\ s'[w].undo = u
      BY <1>0, <1>2, <1>3, <3>1 DEF Col
    <3> QED
      BY <2>3, <3>3, <3>4, <3>5, After
  <2> QED
    BY <1>2, <2>4, <2>5
<1>10. CASE LockFor(w, p, <<p>>) /\ s'[w] = [r EXCEPT !.pc = "startext"]
  <2>1. CanAcquire(locks, w, p, WRITE) /\ locks' = R
    BY <1>1, <1>3, <1>7, <1>10, LockFor1
  <2>2. /\ s'[w].pc = "startext" /\ s'[w].undo = r.undo /\ s'[w].op = r.op /\ s'[w].kind = r.kind
        /\ s'[w].c = r.c /\ s'[w].g = r.g /\ s'[w].cols = r.cols
    BY <1>1, <1>10 DEF Locals
  <2>3. LockRow(s'[w], k, b, 0)
    BY <1>2, <1>4, <2>2 DEF LockRow
  <2>4. Profile(locks', w, o, k, u, b, 0) /\ Others(locks, locks', Workers, Locks, w)
    BY <1>8, <2>1
  <2>5. Col(groups', s'[w], s'[w].c) = o /\ s'[w].undo = u
    BY <1>0, <1>2, <1>3, <2>2 DEF Col
  <2> QED
    BY <2>3, <2>4, <2>5, After
<1> QED
  BY <1>1, <1>9, <1>10

\* A step that leaves the locks alone, and the places at which they are held.
LEMMA SameLocks ==
  ASSUME Inv, NEW w \in Workers, pageCnt' \in Nat, pageCnt <= pageCnt', groups' = groups, locks' = locks,
         NEW k, NEW b, NEW e, LockRow(s[w], k, b, e), LockRow(s'[w], k, b, e),
         s'[w].undo = s[w].undo, s'[w].c = s[w].c, s'[w].g = s[w].g, s'[w].cols = s[w].cols
  PROVE  Locked(w)
<1> SUFFICES ASSUME pageCnt' <= MaxPages PROVE Locked(w)
  BY DEF Locked
<1>1. pageCnt <= MaxPages
  BY TableSpaceAssumption DEF Inv, Inv1, Types
<1>2. Profile(locks, w, Origin(w), k, s[w].undo, b, e)
  BY <1>1, Before
<1>3. Others(locks, locks', Workers, Locks, w)
  BY DEF Others
<1>4. Col(groups', s'[w], s'[w].c) = Origin(w)
  BY DEF Col, Origin
<1> QED
  BY <1>2, <1>3, <1>4, After

LEMMA MoveOldLocks ==
  ASSUME Inv, NEW w \in Workers, MoveOld(w)
  PROVE  Locked(w)
<1>1. PICK pc \in {"inplace", "grow"}, u \in Positions :
        /\ s[w].pc = "move" /\ UNCHANGED <<pageCnt, savedCnt, groups, locks, nextXid, running>>
        /\ s'[w] = [s[w] EXCEPT !.pc = pc, !.upos = u] /\ s[w] \in Locals
  BY MoveOld1, Known DEF Inv
<1>2. /\ s'[w].pc \in {"inplace", "grow"} /\ s'[w].undo = s[w].undo
      /\ s'[w].c = s[w].c /\ s'[w].g = s[w].g /\ s'[w].cols = s[w].cols
  BY <1>1 DEF Locals
<1>3. LockRow(s[w], 1, 1, 0) /\ LockRow(s'[w], 1, 1, 0)
  BY <1>1, <1>2 DEF LockRow
<1>4. pageCnt' \in Nat /\ pageCnt <= pageCnt' /\ groups' = groups /\ locks' = locks
  BY <1>1 DEF Inv, Inv1, Types
<1> QED
  BY <1>2, <1>3, <1>4, SameLocks

LEMMA AddPageLocks ==
  ASSUME Inv, NEW w \in Workers, AddPage(w)
  PROVE  Locked(w)
<1>1. /\ s[w].pc = "extend" /\ pageCnt' = pageCnt + 1 /\ UNCHANGED <<groups, locks>>
      /\ s'[w] = [s[w] EXCEPT !.num = @ - 1, !.last = pageCnt + 1]
      /\ s[w] \in Locals /\ Shape(pages, groups, s[w])
  BY AddPage1, Known DEF Inv
<1>2. /\ s'[w].pc = "extend" /\ s'[w].undo = s[w].undo /\ s'[w].op = s[w].op /\ s'[w].kind = s[w].kind
      /\ s'[w].c = s[w].c /\ s'[w].g = s[w].g /\ s'[w].cols = s[w].cols
  BY <1>1 DEF Locals
<1>3. s[w].op \in {"insert", "update"} /\ s[w].kind \in {"undo", "ext"}
  BY <1>1 DEF Shape, Statement, ExtPcs, Locals
<1>4. PICK k, b : LockRow(s[w], k, b, 1) /\ LockRow(s'[w], k, b, 1)
  BY <1>1, <1>2, <1>3 DEF LockRow
<1>5. pageCnt' \in Nat /\ pageCnt <= pageCnt' /\ groups' = groups /\ locks' = locks
  BY <1>1 DEF Inv, Inv1, Types
<1> QED
  BY <1>2, <1>4, <1>5, SameLocks

\* While the disk has room the last page that was added can be read back.
LEMMA LastIn ==
  ASSUME Inv, NEW w \in Workers, s[w].pc = "extend", s[w].num = 0, pageCnt <= MaxPages
  PROVE  s[w].last \in PageNos
<1>1. pageCnt \in Nat /\ savedCnt \in 1..pageCnt
  BY DEF Inv, Inv1, Types
<1>2. Batch(s[w]) \in Nat \ {0}
  BY TableSpaceAssumption DEF Batch
<1>3. s[w].last = pageCnt /\ pageCnt = savedCnt + Batch(s[w])
  BY <1>1, <1>2 DEF Inv, Storage, Extenders
<1> QED
  BY <1>1, <1>2, <1>3, TableSpaceAssumption DEF PageNos

LEMMA InsertGroupItemLocks ==
  ASSUME Inv, NEW w \in Workers, InsertGroupItem(w)
  PROVE  Locked(w)
<1>0. PICK r : r = s[w]
  OBVIOUS
<1>1. /\ r.pc = "extend" /\ r.op = "insert" /\ r.num = 0 /\ pageCnt' = pageCnt /\ r \in Locals
      /\ locks \in LockStates(Workers, Locks)
      /\ \/ r.last \in PageNos /\ UnLockPages(w, <<ExtLock>>) /\ s'[w] = [r EXCEPT !.pc = "group"]
         \/ r.last \notin PageNos
  BY <1>0, InsertGroupItem1, Known DEF Inv
<1> SUFFICES ASSUME pageCnt <= MaxPages PROVE Locked(w)
  BY <1>1 DEF Locked
<1>2. r.last \in PageNos
  BY <1>0, <1>1, LastIn
<1>3. LockRow(r, 0, 0, 1)
  BY <1>1 DEF LockRow
<1>4. Profile(locks, w, Origin(w), 0, r.undo, 0, 1)
  BY <1>0, <1>3, Before
<1>5. locks' = ReleaseRWLockLocal(locks, w, ExtLock)
  BY <1>1, <1>2, ReleasedFew, LocksAre DEF UnLockPages
<1>6. Profile(locks', w, Origin(w), 0, r.undo, 0, 0) /\ Others(locks, locks', Workers, Locks, w)
  BY <1>4, <1>5, FreeExtLeaves
<1>7. Free(s'[w])
  BY <1>1, <1>2 DEF Free, FreePcs, Locals
<1> QED
  BY <1>6, <1>7, FreeBy

LEMMA LinkPageLocks ==
  ASSUME Inv, LocksFit, NEW w \in Workers, LinkPage(w)
  PROVE  Locked(w)
<1>0. PICK r, o, u, p : r = s[w] /\ o = Origin(w) /\ u = s[w].undo /\ p = s[w].last
  OBVIOUS
<1>1. /\ r.pc = "extend" /\ r.op = "update" /\ r.num = 0 /\ pageCnt' = pageCnt /\ groups' = groups
      /\ r \in Locals /\ locks \in LockStates(Workers, Locks) /\ o \in PageNos
      /\ \/ p \in PageNos /\ o <= savedCnt /\ LockFor(w, p, <<p, ExtLock, o>>) /\ s'[w] = Got(r, p)
         \/ p \notin PageNos
  BY <1>0, LinkPage1, Known DEF Inv
<1> SUFFICES ASSUME pageCnt <= MaxPages PROVE Locked(w)
  BY <1>1 DEF Locked
<1>2. p \in PageNos /\ o <= savedCnt /\ LockFor(w, p, <<p, ExtLock, o>>) /\ s'[w] = Got(r, p)
  BY <1>0, <1>1, LastIn
<1>3. p = pageCnt /\ pageCnt = savedCnt + 1 /\ pages[p].type = "data"
  BY <1>0, <1>1, <1>2, Added, FreshPagesAre DEF Batch
<1>4. r.kind \in {"undo", "ext"} /\ (r.kind = "ext" => HasUndo(r))
  BY <1>1 DEF Locals, HasUndo, Second, Updating, ExtPcs
<1>5. /\ o \in Locks /\ p \in Locks /\ ExtLock \in Locks /\ Col(groups, r, r.c) = o
      /\ r.kind = "ext" => pages[u].type = "undo"
  BY <1>0, <1>1, <1>2, <1>4, OriginData, LocksAre DEF ExtPcs
<1>6. p # o /\ (r.kind = "ext" => p # u)
  <2>1. savedCnt \in Nat
    BY DEF Inv, Inv1, Types
  <2>2. o # savedCnt + 1
    BY <1>1, <1>2, <2>1, TableSpaceAssumption DEF PageNos
  <2> QED
    BY <1>3, <1>5, <2>2
<1>7. PICK k, b : /\ k = (IF r.kind = "ext" THEN 2 ELSE 1) /\ b = (IF r.kind = "ext" THEN 1 ELSE 0)
  OBVIOUS
<1>8. LockRow(r, k, b, 1)
  BY <1>1, <1>4, <1>7 DEF LockRow
<1>9. Profile(locks, w, o, k, u, b, 1)
  BY <1>0, <1>8, Before
<1>10. PICK M, R, T : /\ M = AcquireRWLockLocal(locks, w, p, WRITE) /\ R = ReleaseRWLockLocal(M, w, p)
                      /\ T = ReleaseRWLockLocal(R, w, ExtLock)
  OBVIOUS
<1>11. CanAcquire(locks, w, p, WRITE) /\ locks' = ReleaseRWLockLocal(T, w, o)
  BY <1>1, <1>2, <1>5, <1>10, LockFor3
<1>12. Profile(R, w, o, k, u, b, 1) /\ Others(locks, R, Workers, Locks, w)
  <2>1. b = 1 => p # u
    BY <1>6, <1>7
  <2> QED
    BY <1>2, <1>6, <1>9, <1>10, <1>11, <2>1, PassLeaves
<1>13. Profile(T, w, o, k, u, b, 0) /\ Others(R, T, Workers, Locks, w)
  BY <1>10, <1>12, FreeExtLeaves
<1>14. Profile(locks', w, o, IF k > 0 THEN k - 1 ELSE 0, u, b, 0) /\ Others(T, locks', Workers, Locks, w)
  BY <1>1, <1>11, <1>13, FreeOriginLeaves
<1>15. Others(locks, locks', Workers, Locks, w)
  BY <1>12, <1>13, <1>14, OthersTrans
<1>16. CASE r.kind = "undo"
  <2>1. Free(s'[w])
    BY <1>1, <1>2, <1>16 DEF Got, Free, FreePcs, Locals
  <2>2. (IF k > 0 THEN k - 1 ELSE 0) = 0 /\ b = 0
    BY <1>7, <1>16
  <2>3. Profile(locks', w, o, 0, u, 0, 0)
    BY <1>14, <2>2
  <2> QED
    BY <1>15, <2>1, <2>3, FreeBy
<1>17. CASE r.kind = "ext"
  <2>1. /\ s'[w].pc = "newrow" /\ s'[w].undo = r.undo
        /\ s'[w].c = r.c /\ s'[w].g = r.g /\ s'[w].cols = r.cols
    BY <1>1, <1>2, <1>17 DEF Got, Locals
  <2>2. (IF k > 0 THEN k - 1 ELSE 0) = 1 /\ b = 1
    BY <1>7, <1>17
  <2>3. Profile(locks', w, o, 1, u, 1, 0)
    BY <1>14, <2>2
  <2>4. LockRow(s'[w], 1, 1, 0)
    BY <2>1 DEF LockRow
  <2>5. Col(groups', s'[w], s'[w].c) = o /\ s'[w].undo = u
    BY <1>0, <1>1, <1>5, <2>1 DEF Col
  <2> QED
    BY <1>15, <2>3, <2>4, <2>5, After
<1> QED
  BY <1>4, <1>16, <1>17

\* A step to the next column, or to the next row, ends without a lock.
LEMMA ColumnNextFree ==
  ASSUME NEW r \in Locals, NEW pc \in {"first", "delete"}
  PROVE  Free(ColumnNext(r, pc))
  BY DEF ColumnNext, RowNext, Free, FreePcs, Locals

LEMMA WriteInPlaceLocks ==
  ASSUME Inv, NEW w \in Workers, WriteInPlace(w)
  PROVE  Locked(w)
<1>0. PICK r, o, u : r = s[w] /\ o = Origin(w) /\ u = s[w].undo
  OBVIOUS
<1>1. /\ r.pc = "inplace" /\ pageCnt' = pageCnt /\ r \in Locals /\ locks \in LockStates(Workers, Locks)
      /\ s'[w] = ColumnNext(r, "first") /\ UnLockPages(w, <<u, o>>)
  BY <1>0, WriteInPlace1, Known DEF Inv
<1>2. o \in PageNos /\ o \in Locks /\ u \in PageNos /\ u \in Locks
  BY <1>0, <1>1, ChangeAt DEF Inv
<1> SUFFICES ASSUME pageCnt <= MaxPages PROVE Locked(w)
  BY <1>1 DEF Locked
<1>3. LockRow(r, 1, 1, 0)
  BY <1>1 DEF LockRow
<1>4. Profile(locks, w, o, 1, u, 1, 0)
  BY <1>0, <1>3, Before
<1>5. PICK R : R = ReleaseRWLockLocal(locks, w, u)
  OBVIOUS
<1>6. locks' = ReleaseRWLockLocal(R, w, o)
  BY <1>1, <1>2, <1>5, ReleasedFew DEF UnLockPages
<1>7. Profile(R, w, o, 1, u, 0, 0) /\ Others(locks, R, Workers, Locks, w)
  BY <1>4, <1>5, FreeUndoLeaves
<1>8. Profile(locks', w, o, IF 1 > 0 THEN 1 - 1 ELSE 0, u, 0, 0) /\ Others(R, locks', Workers, Locks, w)
  BY <1>2, <1>6, <1>7, FreeOriginLeaves
<1>9. Profile(locks', w, o, 0, u, 0, 0) /\ Others(locks, locks', Workers, Locks, w)
  BY <1>7, <1>8, OthersTrans
<1>10. Free(s'[w])
  BY <1>1, ColumnNextFree
<1> QED
  BY <1>9, <1>10, FreeBy

LEMMA RemoveLocks ==
  ASSUME Inv, NEW w \in Workers, Remove(w)
  PROVE  Locked(w)
<1>0. PICK r, o : r = s[w] /\ o = Origin(w)
  OBVIOUS
<1>1. /\ r.pc = "remove" /\ pageCnt' = pageCnt /\ r \in Locals /\ locks \in LockStates(Workers, Locks)
      /\ s'[w] = ColumnNext(r, "delete") /\ UnLockPages(w, <<o>>)
  BY <1>0, Remove1, Known DEF Inv
<1>2. o \in PageNos /\ o \in Locks
  BY <1>0, <1>1, ChangeAt DEF Inv
<1> SUFFICES ASSUME pageCnt <= MaxPages PROVE Locked(w)
  BY <1>1 DEF Locked
<1>3. LockRow(r, 1, 0, 0)
  BY <1>1 DEF LockRow
<1>4. Profile(locks, w, o, 1, r.undo, 0, 0)
  BY <1>0, <1>3, Before
<1>6. locks' = ReleaseRWLockLocal(locks, w, o)
  BY <1>1, <1>2, ReleasedFew DEF UnLockPages
<1>8. Profile(locks', w, o, IF 1 > 0 THEN 1 - 1 ELSE 0, r.undo, 0, 0) /\ Others(locks, locks', Workers, Locks, w)
  BY <1>2, <1>4, <1>6, FreeOriginLeaves
<1>9. Profile(locks', w, o, 0, r.undo, 0, 0)
  BY <1>8
<1>10. Free(s'[w])
  BY <1>1, ColumnNextFree
<1> QED
  BY <1>8, <1>9, <1>10, FreeBy

LEMMA GrowLocks ==
  ASSUME Inv, LocksFit, NEW w \in Workers, Grow(w)
  PROVE  Locked(w)
<1>0. PICK r, o, u : r = s[w] /\ o = Origin(w) /\ u = s[w].undo
  OBVIOUS
<1>1. /\ r.pc = "grow" /\ pageCnt' = pageCnt /\ groups' = groups /\ r \in Locals
      /\ locks \in LockStates(Workers, Locks) /\ Shape(pages, groups, r)
      /\ \/ s'[w] = ColumnNext(r, "first") /\ LockFor(w, o, <<o, o, u, o>>)
         \/ s'[w] = [r EXCEPT !.pc = "end"] /\ UnLockPages(w, <<u, o>>)
         \/ /\ LockPage(w, o, WRITE)
            /\ \E pc \in {"startext", "chain"} : s'[w] = [r EXCEPT !.kind = "ext", !.num = 1, !.pc = pc]
  BY <1>0, Grow1, Known DEF Inv
<1>2. o \in PageNos /\ o \in Locks /\ u \in PageNos /\ u \in Locks /\ r.op = "update"
  BY <1>0, <1>1, ChangeAt DEF Inv, Shape, Statement, UpdatePcs
<1>3. LockRow(r, 1, 1, 0)
  BY <1>1 DEF LockRow
<1>4. CASE s'[w] = ColumnNext(r, "first") /\ LockFor(w, o, <<o, o, u, o>>)
  <2> SUFFICES ASSUME pageCnt <= MaxPages PROVE Locked(w)
    BY <1>1 DEF Locked
  <2>1. Profile(locks, w, o, 1, u, 1, 0)
    BY <1>0, <1>3, Before
  <2>2. PICK M, R, S, T : /\ M = AcquireRWLockLocal(locks, w, o, WRITE) /\ R = ReleaseRWLockLocal(M, w, o)
                          /\ S = ReleaseRWLockLocal(R, w, o) /\ T = ReleaseRWLockLocal(S, w, u)
    OBVIOUS
  <2>3. CanAcquire(locks, w, o, WRITE) /\ locks' = ReleaseRWLockLocal(T, w, o)
    BY <1>1, <1>2, <1>4, <2>2, LockFor4
  <2>4. Profile(M, w, o, 1 + 1, u, 1, 0) /\ Others(locks, M, Workers, Locks, w)
    BY <1>2, <2>1, <2>2, <2>3, LockOriginLeaves
  <2>5. Profile(R, w, o, IF 1 + 1 > 0 THEN 1 + 1 - 1 ELSE 0, u, 1, 0) /\ Others(M, R, Workers, Locks, w)
    BY <1>2, <2>2, <2>4, FreeOriginLeaves
  <2>6. Profile(R, w, o, 1, u, 1, 0)
    BY <2>5
  <2>7. Profile(S, w, o, IF 1 > 0 THEN 1 - 1 ELSE 0, u, 1, 0) /\ Others(R, S, Workers, Locks, w)
    BY <1>2, <2>2, <2>6, FreeOriginLeaves
  <2>8. Profile(S, w, o, 0, u, 1, 0)
    BY <2>7
  <2>9. Profile(T, w, o, 0, u, 0, 0) /\ Others(S, T, Workers, Locks, w)
    BY <2>2, <2>8, FreeUndoLeaves
  <2>10. Profile(locks', w, o, IF 0 > 0 THEN 0 - 1 ELSE 0, u, 0, 0) /\ Others(T, locks', Workers, Locks, w)
    BY <1>2, <2>3, <2>9, FreeOriginLeaves
  <2>11. Profile(locks', w, o, 0, u, 0, 0)
    BY <2>10
  <2>12. Others(locks, locks', Workers, Locks, w)
    BY <2>4, <2>5, <2>7, <2>9, <2>10, OthersTrans
  <2>13. Free(s'[w])
    BY <1>1, <1>4, ColumnNextFree
  <2> QED
    BY <2>11, <2>12, <2>13, FreeBy
<1>5. CASE /\ LockPage(w, o, WRITE)
           /\ \E pc \in {"startext", "chain"} : s'[w] = [r EXCEPT !.kind = "ext", !.num = 1, !.pc = pc]
  <2>1. PICK pc \in {"startext", "chain"} : s'[w] = [r EXCEPT !.kind = "ext", !.num = 1, !.pc = pc]
    BY <1>5
  <2>2. /\ s'[w].pc = pc /\ s'[w].kind = "ext" /\ s'[w].op = r.op /\ s'[w].undo = r.undo
        /\ s'[w].c = r.c /\ s'[w].g = r.g /\ s'[w].cols = r.cols
    BY <1>1, <2>1 DEF Locals
  <2>3. LockRow(s'[w], 1 + 1, 1, 0)
    BY <1>2, <2>1, <2>2 DEF LockRow
  <2>4. r.pc \in UpdatePcs \cup DeletePcs
    BY <1>1 DEF UpdatePcs
  <2> QED
    BY <1>0, <1>1, <1>3, <1>5, <2>2, <2>3, <2>4, OriginLocked
<1>6. CASE s'[w] = [r EXCEPT !.pc = "end"] /\ UnLockPages(w, <<u, o>>)
  <2> SUFFICES ASSUME pageCnt <= MaxPages PROVE Locked(w)
    BY <1>1 DEF Locked
  <2>1. Profile(locks, w, o, 1, u, 1, 0)
    BY <1>0, <1>3, Before
  <2>2. PICK R : R = ReleaseRWLockLocal(locks, w, u)
    OBVIOUS
  <2>3. locks' = ReleaseRWLockLocal(R, w, o)
    BY <1>1, <1>2, <1>6, <2>2, ReleasedFew DEF UnLockPages
  <2>4. Profile(R, w, o, 1, u, 0, 0) /\ Others(locks, R, Workers, Locks, w)
    BY <2>1, <2>2, FreeUndoLeaves
  <2>5. Profile(locks', w, o, IF 1 > 0 THEN 1 - 1 ELSE 0, u, 0, 0) /\ Others(R, locks', Workers, Locks, w)
    BY <1>2, <2>3, <2>4, FreeOriginLeaves
  <2>6. Profile(locks', w, o, 0, u, 0, 0) /\ Others(locks, locks', Workers, Locks, w)
    BY <2>4, <2>5, OthersTrans
  <2>7. Free(s'[w])
    BY <1>1, <1>6 DEF Free, FreePcs, Locals
  <2> QED
    BY <2>6, <2>7, FreeBy
<1> QED
  BY <1>1, <1>4, <1>5, <1>6

LEMMA WriteNewRowLocks ==
  ASSUME Inv, LocksFit, NEW w \in Workers, WriteNewRow(w)
  PROVE  Locked(w)
<1>0. PICK r, o, u, p : r = s[w] /\ o = Origin(w) /\ u = s[w].undo /\ p = s[w].new
  OBVIOUS
<1>1. /\ r.pc = "newrow" /\ pageCnt' = pageCnt /\ r \in Locals /\ locks \in LockStates(Workers, Locks)
      /\ s'[w] = ColumnNext(r, "first") /\ LockFor(w, p, <<p, p, u, o>>) /\ p \in PageNos /\ p # o
  BY <1>0, WriteNewRow1, Known DEF Inv
<1>2. o \in PageNos /\ o \in Locks /\ u \in PageNos /\ u \in Locks /\ p \in Locks /\ HasUndo(r)
  BY <1>0, <1>1, ChangeAt, LocksAre DEF Inv
<1>3. p # u
  <2>1. pages[p].type = "ext" /\ pages[u].type = "undo"
    BY <1>0, <1>1, <1>2 DEF Inv, Storage, UseOK
  <2> QED
    BY <2>1
<1> SUFFICES ASSUME pageCnt <= MaxPages PROVE Locked(w)
  BY <1>1 DEF Locked
<1>4. LockRow(r, 1, 1, 0)
  BY <1>1 DEF LockRow
<1>5. Profile(locks, w, o, 1, u, 1, 0)
  BY <1>0, <1>4, Before
<1>6. PICK M, R, S, T : /\ M = AcquireRWLockLocal(locks, w, p, WRITE) /\ R = ReleaseRWLockLocal(M, w, p)
                        /\ S = ReleaseRWLockLocal(R, w, p) /\ T = ReleaseRWLockLocal(S, w, u)
  OBVIOUS
<1>7. CanAcquire(locks, w, p, WRITE) /\ locks' = ReleaseRWLockLocal(T, w, o)
  BY <1>1, <1>2, <1>6, LockFor4
<1>8. Profile(S, w, o, 1, u, 1, 0) /\ Others(locks, S, Workers, Locks, w)
  BY <1>1, <1>3, <1>5, <1>6, <1>7, PassLeaves
<1>9. Profile(T, w, o, 1, u, 0, 0) /\ Others(S, T, Workers, Locks, w)
  BY <1>6, <1>8, FreeUndoLeaves
<1>10. Profile(locks', w, o, IF 1 > 0 THEN 1 - 1 ELSE 0, u, 0, 0) /\ Others(T, locks', Workers, Locks, w)
  BY <1>2, <1>7, <1>9, FreeOriginLeaves
<1>11. Profile(locks', w, o, 0, u, 0, 0) /\ Others(locks, locks', Workers, Locks, w)
  BY <1>8, <1>9, <1>10, OthersTrans
<1>12. Free(s'[w])
  BY <1>1, ColumnNextFree
<1> QED
  BY <1>11, <1>12, FreeBy

-----------------------------------------------------------------------------
(* The locks of the other workers *)

\* The groups only grow, and a worker that has locked the page of a column has its group.
LEMMA HeldExtends ==
  ASSUME NEW P, NEW G, NEW K, NEW r, Shape(P, G, r), Extends(G, K)
  PROVE  Held(K, r) = Held(G, r)
<1>1. OriginLocks(r) # 0 => Col(K, r, r.c) = Col(G, r, r.c)
  <2> SUFFICES ASSUME OriginLocks(r) # 0 PROVE Col(K, r, r.c) = Col(G, r, r.c)
    OBVIOUS
  <2>1. Changing(r)
    BY DEF OriginLocks, Changing, Updating, UpdatePcs, DeletePcs, ExtPcs, Shape, Statement
  <2>2. r.g \in 1..Len(G)
    BY <2>1 DEF Shape, RowAt
  <2> QED
    BY <2>2 DEF Extends, Col
<1>2. ASSUME NEW l \in Locks PROVE Count(K, r, l) = Count(G, r, l)
  <2>1. (IF OriginLocks(r) # 0 /\ l = Col(K, r, r.c) THEN OriginLocks(r) ELSE 0)
         = (IF OriginLocks(r) # 0 /\ l = Col(G, r, r.c) THEN OriginLocks(r) ELSE 0)
    BY <1>1
  <2> QED
    BY <2>1 DEF Count
<1> QED
  BY <1>2 DEF Held

LEMMA LocksStep ==
  ASSUME Inv, NEW w \in Workers, Step1(w), Locked(w), pageCnt <= pageCnt'
  PROVE  LocksOK'
<1> SUFFICES ASSUME pageCnt' <= MaxPages, NEW v \in Workers
             PROVE  Has(locks', Locks, v, Held(groups', s'[v]), Num(s'[v]))
  BY DEF LocksOK, Locks, Has, Held, Num, Count, Bit, GroupLocks, OriginLocks, UndoLocked, Updating, Second, Col
<1>1. Leaves(locks, locks', Workers, Locks, w, Held(groups', s'[w]), Num(s'[w]))
  BY DEF Locked
<1>2. CASE v = w
  BY <1>1, <1>2 DEF Leaves
<1>3. CASE v # w
  <2>1. s'[v] = s[v] /\ Shape(pages, groups, s[v]) /\ Extends(groups, groups')
    BY <1>3 DEF Step1, Inv, Inv1, Types, Shapes
  <2>2. Held(groups', s[v]) = Held(groups, s[v])
    BY <2>1, HeldExtends
  <2>3. pageCnt <= MaxPages
    BY TableSpaceAssumption DEF Step1, Inv, Inv1, Types
  <2>4. Has(locks, Locks, v, Held(groups, s[v]), Num(s[v]))
    BY <2>3 DEF Inv, LocksOK
  <2>5. Has(locks', Locks, v, Held(groups, s[v]), Num(s[v]))
    BY <1>1, <1>3, <2>4, OthersHave DEF Leaves
  <2> QED
    BY <2>1, <2>2, <2>5
<1> QED
  BY <1>2, <1>3

LEMMA ExtWriter ==
  ASSUME NEW L, NEW G, NEW u, NEW r, Has(L, Locks, u, Held(G, r), Num(r)), r.pc = "extend"
  PROVE  L.rw[ExtLock].writer = u
<1>1. ExtLock \in Locks
  BY LocksAre
<1>2. GroupLocks(r) = 0 /\ OriginLocks(r) \in {0, 1, 2}
  BY DEF GroupLocks, OriginLocks
<1>3. Held(G, r)[ExtLock] > 0
  BY <1>1, <1>2 DEF Held, Count, Bit
<1> QED
  BY <1>1, <1>3 DEF Has

-----------------------------------------------------------------------------
(* The use of the pages *)

KeepsUse(P, Q) == \A p \in PageNos : P[p].type \in {"undo", "ext"} => Q[p].type = P[p].type

LEMMA UseKept ==
  ASSUME NEW P, NEW Q, KeepsUse(P, Q), NEW G, NEW r, Shape(P, G, r), UseOK(P, r)
  PROVE  UseOK(Q, r)
<1>1. HasUndo(r) => r.undo \in PageNos
  BY DEF Shape, Scanned
<1>2. r.pc = "newrow" => r.new \in PageNos
  BY DEF Shape, Scanned
<1> QED
  BY <1>1, <1>2 DEF UseOK, KeepsUse

\* The pages of the workers that do not take the step.
LEMMA UseStep ==
  ASSUME Inv, NEW w \in Workers, Step1(w), KeepsUse(pages, pages'), UseOK(pages', s'[w])
  PROVE  \A v \in Workers : UseOK(pages', s'[v])
<1> SUFFICES ASSUME NEW v \in Workers, v # w PROVE UseOK(pages', s'[v])
  OBVIOUS
<1>1. s'[v] = s[v] /\ Shape(pages, groups, s[v]) /\ UseOK(pages, s[v])
  BY DEF Step1, Inv, Inv1, Types, Shapes, Storage
<1> QED
  BY <1>1, UseKept

\* A worker that keeps its undo page.
LEMMA UseSame ==
  ASSUME NEW P, NEW Q, KeepsUse(P, Q), NEW G, NEW r, Shape(P, G, r), UseOK(P, r),
         NEW q, q.undo = r.undo, q.pc # "newrow", HasUndo(q) => HasUndo(r)
  PROVE  UseOK(Q, q)
<1>1. UseOK(Q, r)
  BY UseKept
<1> QED
  BY <1>1 DEF UseOK

LEMMA NoUse ==
  ASSUME NEW P, NEW q, q.pc # "newrow", ~HasUndo(q)
  PROVE  UseOK(P, q)
  BY DEF UseOK

\* A page that has a use in a chain is counted by the header page.
LEMMA UsedIsCounted ==
  ASSUME Inv, NEW p \in PageNos, pages[p].type \in {"undo", "ext"}
  PROVE  p <= savedCnt
<1>1. p > savedCnt => pages[p] = InitPage \/ pages[p] = NoPage
  BY DEF Inv, Storage, FreshFrom
<1>2. p \in Nat /\ savedCnt \in Nat
  BY TableSpaceAssumption DEF PageNos, Inv, Inv1, Types
<1> QED
  BY <1>1, <1>2, FreshPagesAre

\* A step that leaves the heads of the pages alone, and the pages that are not counted yet.
Calm(P, Q, n) ==
  \A p \in PageNos :
    /\ Q[p].type = P[p].type /\ Q[p].undo = P[p].undo /\ Q[p].ext = P[p].ext
    /\ p > n => Q[p] = P[p]

LEMMA WritesCalm ==
  ASSUME NEW P, NEW Q, NEW p \in PageNos, NEW m, Writes(P, Q, p, m), NEW n \in Nat, p <= n
  PROVE  Calm(P, Q, n)
<1>1. ~(p > n)
  BY TableSpaceAssumption DEF PageNos
<1> QED
  BY <1>1 DEF Writes, Puts, SameHead, Calm

LEMMA StorageCalm ==
  ASSUME Inv, NEW w \in Workers, Step1(w), Calm(pages, pages', savedCnt),
         UNCHANGED <<pageCnt, savedCnt, groups>>, s[w].pc # "extend", s'[w].pc # "extend",
         UseOK(pages', s'[w])
  PROVE  Storage'
<1>1. GroupsOK(pages', groups, savedCnt)
  <2>1. \A g \in 1..Len(groups), c \in Cols : groups[g][c] \in PageNos
    BY DEF Inv, Inv1, Types, Groups
  <2> QED
    BY <2>1 DEF Inv, Storage, GroupsOK, Calm
<1>2. ChainsOK(pages', savedCnt)
  <2>1. \A p \in PageNos : /\ pages[p].undo # INVALID_PAGE_NUM => pages[p].undo \in PageNos
                           /\ pages[p].ext # INVALID_PAGE_NUM => pages[p].ext \in PageNos
    BY DEF Inv, Inv1, Types, Files, Pages, PageOrNone
  <2> QED
    BY <2>1 DEF Inv, Storage, ChainsOK, Calm
<1>3. FreshFrom(pages', savedCnt, pageCnt)
  BY DEF Inv, Storage, FreshFrom, Calm
<1>4. s' \in [Workers -> Locals] /\ \A v \in Workers : v # w => s'[v] = s[v]
  BY DEF Step1, Inv, Inv1, Types
<1>5. Extenders'
  BY <1>4 DEF Inv, Storage, Extenders, Batch
<1>6. KeepsUse(pages, pages')
  BY DEF KeepsUse, Calm
<1>7. \A v \in Workers : UseOK(pages', s'[v])
  BY <1>6, UseStep
<1> QED
  BY <1>1, <1>2, <1>3, <1>5, <1>7 DEF Storage

LEMMA StartExtensionStorage ==
  ASSUME Inv, LocksOK', NEW w \in Workers, StartExtensionTbl(w)
  PROVE  Storage'
<1>1. /\ s[w].pc = "startext" /\ Quiet /\ Step1(w) /\ s'[w] = [s[w] EXCEPT !.pc = "extend"]
      /\ s[w] \in Locals /\ Shape(pages, groups, s[w])
  BY StartExtension1, Known DEF Inv
<1>2. s' \in [Workers -> Locals] /\ \A v \in Workers : v # w => s'[v] = s[v]
  BY <1>1 DEF Step1, Inv, Inv1, Types
<1>3. /\ s'[w].pc = "extend" /\ s'[w].undo = s[w].undo /\ s'[w].op = s[w].op /\ s'[w].kind = s[w].kind
      /\ s'[w].num = s[w].num /\ s[w].num = Batch(s[w]) /\ Batch(s'[w]) = Batch(s[w])
  BY <1>1 DEF Locals, Shape, Statement, Batch
<1>4. KeepsUse(pages, pages') /\ pages' = pages /\ pageCnt' = pageCnt /\ savedCnt' = savedCnt /\ groups' = groups
  BY <1>1 DEF KeepsUse, Quiet
<1>5. UseOK(pages', s'[w])
  <2>1. HasUndo(s'[w]) => HasUndo(s[w])
    BY <1>1, <1>3 DEF HasUndo, Updating, Second, ExtPcs
  <2> QED
    BY <1>1, <1>3, <1>4, <2>1, UseSame DEF Inv, Storage
<1>6. \A v \in Workers : UseOK(pages', s'[v])
  BY <1>1, <1>4, <1>5, UseStep
<1>7. Batch(s[w]) \in Nat \ {0} /\ savedCnt \in Nat /\ pageCnt \in Nat
  BY TableSpaceAssumption DEF Batch, Inv, Inv1, Types
<1>8. pageCnt <= MaxPages => \A v \in Workers : v # w => s[v].pc # "extend"
  <2> SUFFICES ASSUME pageCnt <= MaxPages, NEW v \in Workers, v # w, s[v].pc = "extend" PROVE FALSE
    OBVIOUS
  <2>1. \A u \in Workers : Has(locks', Locks, u, Held(groups', s'[u]), Num(s'[u]))
    BY <1>4 DEF LocksOK, Locks, Has, Held, Num, Count, Bit, GroupLocks, OriginLocks, UndoLocked, Updating, Second, Col
  <2>2. locks'.rw[ExtLock].writer = v
    BY <1>2, <2>1, ExtWriter
  <2>3. locks'.rw[ExtLock].writer = w
    BY <1>3, <2>1, ExtWriter
  <2> QED
    BY <2>2, <2>3
<1>9. Extenders'
  <2>1. CASE pageCnt <= MaxPages
    <3>1. pageCnt = savedCnt
      BY <1>1, <1>8, <2>1 DEF Inv, Storage, Extenders
    <3>2. \A v \in Workers : s'[v].pc = "extend" => v = w
      BY <1>2, <1>8, <2>1
    <3>3. pageCnt' <= MaxPages
      BY <1>4, <2>1
    <3>4. pageCnt' = savedCnt' + Batch(s'[w]) - s'[w].num /\ ~(s'[w].num < Batch(s'[w]))
      BY <1>3, <1>4, <1>7, <3>1
    <3> QED
      BY <1>3, <3>2, <3>3, <3>4 DEF Extenders, Batch
  <2>2. CASE ~(pageCnt <= MaxPages)
    <3>1. \A v \in Workers : s[v].pc = "extend" /\ s[v].num = 0 => s[v].last > MaxPages
      BY <2>2 DEF Inv, Storage, Extenders
    <3>2. s'[w].num # 0
      BY <1>3, <1>7
    <3>3. \A v \in Workers : s'[v].pc = "extend" /\ s'[v].num = 0 => s'[v].last > MaxPages
      BY <1>2, <3>1, <3>2
    <3> QED
      BY <1>4, <2>2, <3>3 DEF Extenders
  <2> QED
    BY <2>1, <2>2
<1>10. (GroupsOK(pages, groups, savedCnt) /\ ChainsOK(pages, savedCnt) /\ FreshFrom(pages, savedCnt, pageCnt))'
  BY <1>4 DEF Inv, Storage, GroupsOK, ChainsOK, FreshFrom
<1> QED
  BY <1>6, <1>9, <1>10 DEF Storage

LEMMA AddPageStorage ==
  ASSUME Inv, NEW w \in Workers, AddPage(w)
  PROVE  Storage'
<1>1. /\ s[w].pc = "extend" /\ s[w].num > 0 /\ Step1(w) /\ pageCnt' = pageCnt + 1 /\ savedCnt' = savedCnt
      /\ groups' = groups /\ s'[w] = [s[w] EXCEPT !.num = @ - 1, !.last = pageCnt + 1]
      /\ \A p \in PageNos : pages'[p] = IF p = pageCnt + 1 THEN InitPage ELSE pages[p]
      /\ s[w] \in Locals /\ Shape(pages, groups, s[w]) /\ pages \in Files
  BY AddPage1, Known DEF Inv
<1>2. s' \in [Workers -> Locals] /\ \A v \in Workers : v # w => s'[v] = s[v]
  BY <1>1 DEF Step1, Inv, Inv1, Types
<1>3. /\ s'[w].pc = "extend" /\ s'[w].undo = s[w].undo /\ s'[w].op = s[w].op /\ s'[w].kind = s[w].kind
      /\ s'[w].num = s[w].num - 1 /\ s'[w].last = pageCnt + 1 /\ Batch(s'[w]) = Batch(s[w]) /\ s[w].num \in Nat
  BY <1>1 DEF Locals, Batch
<1>4. pageCnt \in Nat /\ savedCnt \in Nat /\ savedCnt <= pageCnt /\ MaxPages \in Nat /\ Batch(s[w]) \in Nat \ {0}
      /\ PageNos \subseteq Nat
  BY TableSpaceAssumption DEF Inv, Inv1, Types, Batch, PageNos
<1>5. ASSUME NEW p \in PageNos
      PROVE  /\ pages'[p].undo = pages[p].undo /\ pages'[p].ext = pages[p].ext
             /\ p <= savedCnt => pages'[p] = pages[p]
             /\ pages[p].type \in {"undo", "ext"} => pages'[p] = pages[p]
  <2>1. CASE p = pageCnt + 1
    <3>1. pages[p] = NoPage
      BY <1>4, <2>1 DEF Inv, Storage, FreshFrom
    <3> QED
      BY <1>1, <1>4, <2>1, <3>1, FreshPagesAre
  <2>2. CASE p # pageCnt + 1
    BY <1>1, <2>2
  <2> QED
    BY <2>1, <2>2
<1>6. GroupsOK(pages', groups, savedCnt)
  <2>1. \A g \in 1..Len(groups), c \in Cols : groups[g][c] \in PageNos
    BY DEF Inv, Inv1, Types, Groups
  <2> QED
    BY <1>5, <2>1 DEF Inv, Storage, GroupsOK
<1>7. ChainsOK(pages', savedCnt)
  <2>1. \A p \in PageNos : /\ pages[p].undo # INVALID_PAGE_NUM => pages[p].undo \in PageNos
                           /\ pages[p].ext # INVALID_PAGE_NUM => pages[p].ext \in PageNos
    BY DEF Inv, Inv1, Types, Files, Pages, PageOrNone
  <2> QED
    BY <1>5, <2>1 DEF Inv, Storage, ChainsOK
<1>8. FreshFrom(pages', savedCnt, pageCnt + 1)
  <2> SUFFICES ASSUME NEW p \in PageNos, p > savedCnt
               PROVE  pages'[p] = IF p <= pageCnt + 1 THEN InitPage ELSE NoPage
    BY DEF FreshFrom
  <2>1. pages[p] = IF p <= pageCnt THEN InitPage ELSE NoPage
    BY DEF Inv, Storage, FreshFrom
  <2>2. p \in Nat
    BY <1>4
  <2> QED
    BY <1>1, <1>4, <2>1, <2>2
<1>9. KeepsUse(pages, pages')
  BY <1>5 DEF KeepsUse
<1>10. UseOK(pages', s'[w])
  <2>1. HasUndo(s'[w]) => HasUndo(s[w])
    BY <1>1, <1>3 DEF HasUndo, Updating, Second, ExtPcs
  <2> QED
    BY <1>1, <1>3, <1>9, <2>1, UseSame DEF Inv, Storage
<1>11. \A v \in Workers : UseOK(pages', s'[v])
  BY <1>1, <1>9, <1>10, UseStep
<1>12. pageCnt <= MaxPages => \A v \in Workers : s'[v].pc = "extend" => v = w
  BY <1>1, <1>2, OneExtender
<1>13. Extenders'
  <2>1. CASE pageCnt + 1 <= MaxPages
    <3>1. pageCnt <= MaxPages /\ pageCnt' <= MaxPages
      BY <1>1, <1>4, <2>1
    <3>2. pageCnt = savedCnt + Batch(s[w]) - s[w].num
      BY <1>1, <3>1 DEF Inv, Storage, Extenders
    <3>3. pageCnt' = savedCnt' + Batch(s'[w]) - s'[w].num /\ s'[w].last = pageCnt'
      BY <1>1, <1>3, <1>4, <3>2
    <3> QED
      BY <1>3, <1>12, <3>1, <3>3 DEF Extenders, Batch
  <2>2. CASE ~(pageCnt + 1 <= MaxPages)
    <3>1. ASSUME NEW v \in Workers, s'[v].pc = "extend", s'[v].num = 0 PROVE s'[v].last > MaxPages
      <4>1. CASE v = w
        BY <1>3, <1>4, <2>2, <4>1
      <4>2. CASE v # w
        <5>1. ~(pageCnt <= MaxPages)
          BY <1>12, <3>1, <4>2
        <5> QED
          BY <1>2, <3>1, <4>2, <5>1 DEF Inv, Storage, Extenders
      <4> QED
        BY <4>1, <4>2
    <3>2. ~(pageCnt' <= MaxPages)
      BY <1>1, <2>2
    <3> QED
      BY <3>1, <3>2 DEF Extenders
  <2> QED
    BY <2>1, <2>2
<1>14. (GroupsOK(pages, groups, savedCnt) /\ ChainsOK(pages, savedCnt) /\ FreshFrom(pages, savedCnt, pageCnt))'
  BY <1>1, <1>6, <1>7, <1>8
<1> QED
  BY <1>11, <1>13, <1>14 DEF Storage

\* The header page counts the pages that were added.
LEMMA CountedStorage ==
  ASSUME Inv, NEW w \in Workers, Step1(w), s[w].pc = "extend", savedCnt' = pageCnt, pageCnt' = pageCnt,
         s'[w].pc # "extend"
  PROVE  /\ Extenders' /\ FreshFrom(pages, pageCnt, pageCnt) /\ ChainsOK(pages, pageCnt)
         /\ GroupsOK(pages, groups, pageCnt) /\ pageCnt \in Nat /\ savedCnt \in Nat /\ savedCnt <= pageCnt
<1>1. s' \in [Workers -> Locals] /\ \A v \in Workers : v # w => s'[v] = s[v]
  BY DEF Step1, Inv, Inv1, Types
<1>2. pageCnt \in Nat /\ savedCnt \in Nat /\ savedCnt <= pageCnt /\ PageNos \subseteq Nat
  BY TableSpaceAssumption DEF Inv, Inv1, Types, PageNos
<1>3. Extenders'
  <2>1. CASE pageCnt <= MaxPages
    <3>1. \A v \in Workers : s'[v].pc # "extend"
      BY <1>1, <2>1, OneExtender
    <3> QED
      BY <2>1, <3>1 DEF Extenders
  <2>2. CASE ~(pageCnt <= MaxPages)
    BY <1>1, <2>2 DEF Inv, Storage, Extenders
  <2> QED
    BY <2>1, <2>2
<1>4. FreshFrom(pages, pageCnt, pageCnt)
  <2>1. ASSUME NEW p \in PageNos, p > pageCnt PROVE pages[p] = NoPage /\ ~(p <= pageCnt)
    <3>1. p > savedCnt /\ ~(p <= pageCnt)
      BY <1>2, <2>1
    <3> QED
      BY <3>1 DEF Inv, Storage, FreshFrom
  <2> QED
    BY <2>1 DEF FreshFrom
<1>5. ChainsOK(pages, pageCnt)
  <2>1. \A p \in PageNos : /\ pages[p].undo # INVALID_PAGE_NUM => pages[p].undo \in PageNos
                           /\ pages[p].ext # INVALID_PAGE_NUM => pages[p].ext \in PageNos
    BY DEF Inv, Inv1, Types, Files, Pages, PageOrNone
  <2>2. \A p \in PageNos : p <= savedCnt => p <= pageCnt
    BY <1>2
  <2> QED
    BY <2>1, <2>2 DEF Inv, Storage, ChainsOK
<1>6. GroupsOK(pages, groups, pageCnt)
  <2>1. \A g \in 1..Len(groups), c \in Cols : groups[g][c] \in PageNos
    BY DEF Inv, Inv1, Types, Groups
  <2>2. \A p \in PageNos : p <= savedCnt => p <= pageCnt
    BY <1>2
  <2> QED
    BY <2>1, <2>2 DEF Inv, Storage, GroupsOK
<1> QED
  BY <1>2, <1>3, <1>4, <1>5, <1>6

LEMMA InsertGroupItemStorage ==
  ASSUME Inv, NEW w \in Workers, InsertGroupItem(w)
  PROVE  Storage'
<1>0. PICK m : m = MemberPages(s[w].last)
  OBVIOUS
<1>1. /\ s[w].pc = "extend" /\ s[w].op = "insert" /\ s[w].num = 0 /\ savedCnt' = pageCnt /\ Step1(w)
      /\ pages' = pages /\ pageCnt' = pageCnt
      /\ \/ s[w].last \in PageNos /\ groups' = Append(groups, m) /\ s'[w] = [s[w] EXCEPT !.pc = "group"]
         \/ groups' = groups /\ s'[w] = [s[w] EXCEPT !.pc = "end"]
      /\ s[w] \in Locals /\ groups \in Groups
  BY <1>0, InsertGroupItem1, Known DEF Inv
<1>2. s'[w].pc \in {"group", "end"}
  BY <1>1 DEF Locals
<1>3. /\ Extenders' /\ FreshFrom(pages, pageCnt, pageCnt) /\ ChainsOK(pages, pageCnt)
      /\ GroupsOK(pages, groups, pageCnt) /\ pageCnt \in Nat /\ savedCnt \in Nat /\ savedCnt <= pageCnt
  BY <1>1, <1>2, CountedStorage
<1>4. UseOK(pages', s'[w])
  BY <1>2, NoUse DEF HasUndo, Updating, Second, UpdatePcs, ExtPcs
<1>5. KeepsUse(pages, pages')
  BY <1>1 DEF KeepsUse
<1>6. \A v \in Workers : UseOK(pages', s'[v])
  BY <1>1, <1>4, <1>5, UseStep
<1>7. GroupsOK(pages', groups', pageCnt)
  <2>1. CASE groups' = groups
    BY <1>1, <1>3, <2>1
  <2>2. CASE s[w].last \in PageNos /\ groups' = Append(groups, m)
    <3>1. s[w].last = pageCnt /\ pageCnt = savedCnt + NumCols /\ pageCnt <= MaxPages
      BY <1>1, <2>2, Added DEF Batch
    <3>2. savedCnt \in Nat \ {0} /\ NumCols \in Nat
      BY TableSpaceAssumption DEF Inv, Inv1, Types
    <3>3. /\ m \in [Cols -> PageNos]
          /\ \A c \in Cols : m[c] = savedCnt + c /\ m[c] > savedCnt /\ m[c] <= pageCnt
      BY <1>0, <2>2, <3>1, <3>2, MemberPagesAre
    <3>4. \A c \in Cols : pages[m[c]].type = "data"
      <4>1. \A c \in Cols : pages[m[c]] = InitPage
        BY <3>3 DEF Inv, Storage, FreshFrom
      <4> QED
        BY <4>1, FreshPagesAre
    <3>5. \A c, d \in Cols : m[c] = m[d] => c = d
      BY <3>2, <3>3 DEF Cols
    <3>6. \A g \in 1..Len(groups), c, d \in Cols : groups[g][c] # m[d]
      <4>1. \A g \in 1..Len(groups), c \in Cols : groups[g][c] <= savedCnt /\ groups[g][c] \in Nat
        BY TableSpaceAssumption DEF Inv, Inv1, Types, Groups, Storage, GroupsOK, PageNos
      <4> QED
        BY <3>2, <3>3, <4>1 DEF Cols
    <3>7. /\ Len(groups') = Len(groups) + 1 /\ groups'[Len(groups) + 1] = m
          /\ \A g \in 1..Len(groups) : groups'[g] = groups[g]
      BY <1>1, <2>2, <3>3 DEF Groups
    <3>8. Len(groups) \in Nat
      BY <1>1 DEF Groups
    <3>9. ASSUME NEW g \in 1..Len(groups'), NEW c \in Cols
          PROVE  groups'[g][c] <= pageCnt /\ pages[groups'[g][c]].type = "data"
      <4>1. CASE g = Len(groups) + 1
        BY <3>3, <3>4, <3>7, <4>1
      <4>2. CASE g # Len(groups) + 1
        BY <1>3, <3>7, <3>8, <4>2 DEF GroupsOK
      <4> QED
        BY <4>1, <4>2
    <3>10. ASSUME NEW g \in 1..Len(groups'), NEW h \in 1..Len(groups'), NEW c \in Cols, NEW d \in Cols,
                  groups'[g][c] = groups'[h][d]
           PROVE  g = h /\ c = d
      <4>1. (g = Len(groups) + 1 \/ g \in 1..Len(groups)) /\ (h = Len(groups) + 1 \/ h \in 1..Len(groups))
        BY <3>7, <3>8
      <4>2. CASE g = Len(groups) + 1 /\ h = Len(groups) + 1
        BY <3>5, <3>7, <3>10, <4>2
      <4>3. CASE g = Len(groups) + 1 /\ h \in 1..Len(groups)
        BY <3>6, <3>7, <3>10, <4>3
      <4>4. CASE g \in 1..Len(groups) /\ h = Len(groups) + 1
        BY <3>6, <3>7, <3>10, <4>4
      <4>5. CASE g \in 1..Len(groups) /\ h \in 1..Len(groups)
        BY <1>3, <3>7, <3>10, <4>5 DEF GroupsOK
      <4> QED
        BY <4>1, <4>2, <4>3, <4>4, <4>5
    <3> QED
      BY <1>1, <3>9, <3>10 DEF GroupsOK
  <2> QED
    BY <1>1, <2>1, <2>2
<1>8. (GroupsOK(pages, groups, savedCnt) /\ ChainsOK(pages, savedCnt) /\ FreshFrom(pages, savedCnt, pageCnt))'
  BY <1>1, <1>3, <1>7
<1> QED
  BY <1>3, <1>6, <1>8 DEF Storage

\* A fresh page that becomes the head of a chain.
LEMMA ChainsStorage ==
  ASSUME NEW P \in Files, NEW Q, NEW f \in PageNos, NEW l \in PageNos, NEW k \in {"undo", "ext"}, Chains(P, Q, f, l, k),
         NEW n \in Nat, l = n + 1, f <= n, P[l] = InitPage, ChainsOK(P, n)
  PROVE  ChainsOK(Q, l)
<1>1. PageNos \subseteq Nat /\ f # l /\ 0 \notin PageNos /\ l \in Nat
  BY TableSpaceAssumption DEF PageNos
<1>2. \A p \in PageNos : /\ P[p].undo # 0 => P[p].undo \in PageNos /\ P[p].undo <= n /\ P[p].undo # l
                         /\ P[p].ext # 0 => P[p].ext \in PageNos /\ P[p].ext <= n /\ P[p].ext # l
  BY <1>1 DEF Files, Pages, PageOrNone, ChainsOK
<1>3. P[l].undo = 0 /\ P[l].ext = 0
  BY FreshPagesAre
<1>4. \A p \in PageNos : p # l => Q[p].type = P[p].type
  BY DEF Chains
<1>5. ASSUME k = "undo"
      PROVE  /\ Q[f].undo = l /\ Q[l].undo = P[f].undo /\ \A p \in PageNos : p # f /\ p # l => Q[p].undo = P[p].undo
             /\ \A p \in PageNos : Q[p].ext = P[p].ext
             /\ Q[l].type = "undo"
  BY <1>3, <1>5 DEF Chains
<1>6. ASSUME k = "ext"
      PROVE  /\ Q[f].ext = l /\ Q[l].ext = P[f].ext /\ \A p \in PageNos : p # f /\ p # l => Q[p].ext = P[p].ext
             /\ \A p \in PageNos : Q[p].undo = P[p].undo
             /\ Q[l].type = "ext"
  BY <1>3, <1>6 DEF Chains
<1>7. \A p \in PageNos : p <= n => p <= l
  BY <1>1
<1>10. \A p \in PageNos : /\ P[p].undo # 0 => P[p].undo <= l /\ Q[P[p].undo].type = "undo"
                          /\ P[p].ext # 0 => P[p].ext <= l /\ Q[P[p].ext].type = "ext"
  BY <1>2, <1>4, <1>7 DEF ChainsOK
<1>11. /\ \A p, q \in PageNos : P[p].undo = P[q].undo => p = q \/ P[p].undo = 0
       /\ \A p, q \in PageNos : P[p].ext = P[q].ext => p = q \/ P[p].ext = 0
  BY DEF ChainsOK
<1>8. CASE k = "undo"
  <2>1. ASSUME NEW p \in PageNos, Q[p].undo # 0 PROVE Q[p].undo <= l /\ Q[Q[p].undo].type = "undo"
    <3>1. CASE p = f
      BY <1>1, <1>5, <3>1, <1>8
    <3>2. CASE p # f
      <4>1. \E q \in PageNos : Q[p].undo = P[q].undo
        BY <1>5, <3>2, <1>8
      <4> QED
        BY <1>10, <2>1, <4>1
    <3> QED
      BY <3>1, <3>2
  <2>2. ASSUME NEW p \in PageNos, Q[p].ext # 0 PROVE Q[p].ext <= l /\ Q[Q[p].ext].type = "ext"
    <3>1. Q[p].ext = P[p].ext
      BY <1>5, <1>8
    <3> QED
      BY <1>10, <2>2, <3>1
  <2>3. \A p, q \in PageNos : Q[p].undo = Q[q].undo => p = q \/ Q[p].undo = 0
    <3>1. /\ Q[f].undo = l /\ Q[l].undo = P[f].undo
          /\ \A p \in PageNos : p # f /\ p # l => Q[p].undo = P[p].undo
      BY <1>5, <1>8
    <3> QED
      BY ONLY f \in PageNos, l \in PageNos, <1>1, <1>2, <1>3, <1>11, <3>1
  <2>4. \A p, q \in PageNos : Q[p].ext = Q[q].ext => p = q \/ Q[p].ext = 0
    <3>1. \A p \in PageNos : Q[p].ext = P[p].ext
      BY <1>5, <1>8
    <3> QED
      BY ONLY <1>11, <3>1
  <2> QED
    BY <2>1, <2>2, <2>3, <2>4 DEF ChainsOK
<1>9. CASE k = "ext"
  <2>1. ASSUME NEW p \in PageNos, Q[p].ext # 0 PROVE Q[p].ext <= l /\ Q[Q[p].ext].type = "ext"
    <3>1. CASE p = f
      BY <1>1, <1>6, <3>1, <1>9
    <3>2. CASE p # f
      <4>1. \E q \in PageNos : Q[p].ext = P[q].ext
        BY <1>6, <3>2, <1>9
      <4> QED
        BY <1>10, <2>1, <4>1
    <3> QED
      BY <3>1, <3>2
  <2>2. ASSUME NEW p \in PageNos, Q[p].undo # 0 PROVE Q[p].undo <= l /\ Q[Q[p].undo].type = "undo"
    <3>1. Q[p].undo = P[p].undo
      BY <1>6, <1>9
    <3> QED
      BY <1>10, <2>2, <3>1
  <2>3. \A p, q \in PageNos : Q[p].ext = Q[q].ext => p = q \/ Q[p].ext = 0
    <3>1. /\ Q[f].ext = l /\ Q[l].ext = P[f].ext
          /\ \A p \in PageNos : p # f /\ p # l => Q[p].ext = P[p].ext
      BY <1>6, <1>9
    <3> QED
      BY ONLY f \in PageNos, l \in PageNos, <1>1, <1>2, <1>3, <1>11, <3>1
  <2>4. \A p, q \in PageNos : Q[p].undo = Q[q].undo => p = q \/ Q[p].undo = 0
    <3>1. \A p \in PageNos : Q[p].undo = P[p].undo
      BY <1>6, <1>9
    <3> QED
      BY ONLY <1>11, <3>1
  <2> QED
    BY <2>1, <2>2, <2>3, <2>4 DEF ChainsOK
<1> QED
  BY <1>8, <1>9

LEMMA LinkPageStorage ==
  ASSUME Inv, NEW w \in Workers, LinkPage(w)
  PROVE  Storage'
<1>0. PICK r, o, l, k : r = s[w] /\ o = Origin(w) /\ l = s[w].last /\ k = s[w].kind
  OBVIOUS
<1>1. /\ r.pc = "extend" /\ r.op = "update" /\ r.num = 0 /\ savedCnt' = pageCnt /\ Step1(w)
      /\ pageCnt' = pageCnt /\ groups' = groups /\ o \in PageNos
      /\ \/ l \in PageNos /\ o <= savedCnt /\ Chains(pages, pages', o, l, k) /\ s'[w] = Got(r, l)
         \/ pages' = pages /\ s'[w] = [r EXCEPT !.pc = "end"]
      /\ r \in Locals /\ k \in {"undo", "ext"} /\ pages \in Files /\ Shape(pages, groups, r)
  BY <1>0, LinkPage1, Known DEF Inv, Locals
<1>2. s'[w].pc \in {"origin", "newrow", "end"}
  BY <1>1 DEF Locals, Got
<1>3. /\ Extenders' /\ FreshFrom(pages, pageCnt, pageCnt) /\ ChainsOK(pages, pageCnt)
      /\ GroupsOK(pages, groups, pageCnt) /\ pageCnt \in Nat /\ savedCnt \in Nat /\ savedCnt <= pageCnt
  BY <1>0, <1>1, <1>2, CountedStorage
<1>4. CASE pages' = pages /\ s'[w] = [r EXCEPT !.pc = "end"]
  <2>1. s'[w].pc = "end"
    BY <1>1, <1>4 DEF Locals
  <2>2. UseOK(pages', s'[w])
    BY <2>1, NoUse DEF HasUndo, Updating, Second, UpdatePcs, ExtPcs
  <2>3. KeepsUse(pages, pages')
    BY <1>4 DEF KeepsUse
  <2>4. \A v \in Workers : UseOK(pages', s'[v])
    BY <1>1, <2>2, <2>3, UseStep
  <2>5. (GroupsOK(pages, groups, savedCnt) /\ ChainsOK(pages, savedCnt) /\ FreshFrom(pages, savedCnt, pageCnt))'
    BY <1>1, <1>3, <1>4
  <2> QED
    BY <1>3, <2>4, <2>5 DEF Storage
<1>5. CASE l \in PageNos /\ o <= savedCnt /\ Chains(pages, pages', o, l, k) /\ s'[w] = Got(r, l)
  <2>1. l = pageCnt /\ pageCnt = savedCnt + 1 /\ pages[l] = InitPage
    BY <1>0, <1>1, <1>5, Added DEF Batch
  <2>2. ChainsOK(pages', pageCnt)
    BY <1>1, <1>3, <1>5, <2>1, ChainsStorage DEF Inv, Storage
  <2>3. \A p \in PageNos : (p # l => pages'[p].type = pages[p].type) /\ (p > pageCnt => pages'[p] = pages[p])
    <3>1. o # l /\ ~(o > pageCnt) /\ ~(l > pageCnt)
      BY <1>1, <1>3, <1>5, <2>1, TableSpaceAssumption DEF PageNos
    <3> QED
      BY <1>5, <3>1 DEF Chains
  <2>4. FreshFrom(pages', pageCnt, pageCnt)
    BY <1>3, <2>3 DEF FreshFrom
  <2>5. GroupsOK(pages', groups, pageCnt)
    <3>1. \A g \in 1..Len(groups), c \in Cols : groups[g][c] \in PageNos
      BY DEF Inv, Inv1, Types, Groups
    <3>2. \A g \in 1..Len(groups), c \in Cols : groups[g][c] <= savedCnt
      BY DEF Inv, Storage, GroupsOK
    <3>3. \A p \in PageNos : p <= savedCnt => p # l
      BY <1>3, <2>1, TableSpaceAssumption DEF PageNos
    <3> QED
      BY <1>3, <2>3, <3>1, <3>2, <3>3 DEF GroupsOK
  <2>6. KeepsUse(pages, pages')
    BY <2>1, <2>3, FreshPagesAre DEF KeepsUse
  <2>7. pages'[l].type = k
    BY <1>5 DEF Chains
  <2>8. UseOK(pages', s'[w])
    <3>1. CASE k = "undo"
      <4>1. s'[w].undo = l /\ s'[w].pc = "origin"
        BY <1>0, <1>1, <1>5, <3>1 DEF Got, Locals
      <4> QED
        BY <2>7, <3>1, <4>1 DEF UseOK
    <3>2. CASE k = "ext"
      <4>1. s'[w].undo = r.undo /\ s'[w].pc = "newrow" /\ s'[w].new = l
        BY <1>0, <1>1, <1>5, <3>2 DEF Got, Locals
      <4>2. HasUndo(r)
        BY <1>0, <1>1, <3>2 DEF HasUndo, Updating, Second, ExtPcs
      <4>3. UseOK(pages', r)
        BY <1>0, <1>1, <2>6, UseKept DEF Inv, Storage
      <4> QED
        BY <2>7, <3>2, <4>1, <4>2, <4>3 DEF UseOK
    <3> QED
      BY <1>1, <3>1, <3>2
  <2>9. \A v \in Workers : UseOK(pages', s'[v])
    BY <1>1, <2>6, <2>8, UseStep
  <2>10. (GroupsOK(pages, groups, savedCnt) /\ ChainsOK(pages, savedCnt) /\ FreshFrom(pages, savedCnt, pageCnt))'
    BY <1>1, <2>2, <2>4, <2>5
  <2> QED
    BY <1>3, <2>9, <2>10 DEF Storage
<1> QED
  BY <1>1, <1>4, <1>5

-----------------------------------------------------------------------------
(* Every step preserves the invariant *)

\* A step that leaves the heads of the pages alone.
LEMMA CalmStep ==
  ASSUME Inv, NEW w \in Workers, Step1(w), Locked(w), Calm(pages, pages', savedCnt),
         UNCHANGED <<pageCnt, savedCnt, groups>>, s[w].pc # "extend", s'[w].pc # "extend",
         UseOK(pages', s'[w])
  PROVE  Inv'
<1>1. pageCnt <= pageCnt'
  BY DEF Inv, Inv1, Types
<1>2. LocksOK'
  BY <1>1, LocksStep
<1>3. Storage'
  BY StorageCalm
<1>4. Inv1'
  BY Step1Inv DEF Inv
<1> QED
  BY <1>2, <1>3, <1>4 DEF Inv

\* A step that leaves the file alone and the undo page of the worker too.
LEMMA FileSameStep ==
  ASSUME Inv, NEW w \in Workers, Step1(w), Locked(w), UNCHANGED <<pages, pageCnt, savedCnt, groups>>,
         s[w].pc # "extend", s'[w].pc # "extend", s'[w].pc # "newrow",
         ~HasUndo(s'[w]) \/ (HasUndo(s[w]) /\ s'[w].undo = s[w].undo)
  PROVE  Inv'
<1>1. Calm(pages, pages', savedCnt) /\ KeepsUse(pages, pages')
  BY DEF Calm, KeepsUse
<1>2. UseOK(pages', s'[w])
  <2>1. CASE ~HasUndo(s'[w])
    BY <2>1, NoUse
  <2>2. CASE HasUndo(s[w]) /\ s'[w].undo = s[w].undo
    <3>1. Shape(pages, groups, s[w]) /\ UseOK(pages, s[w])
      BY Known DEF Inv, Storage
    <3> QED
      BY <1>1, <2>2, <3>1, UseSame
  <2> QED
    BY <2>1, <2>2
<1> QED
  BY <1>1, <1>2, CalmStep

LEMMA FreeHasNoUndo ==
  ASSUME NEW r, Free(r), r.pc # "origin"
  PROVE  ~HasUndo(r) /\ r.pc # "extend" /\ r.pc # "newrow"
  BY DEF Free, FreePcs, HasUndo, Updating, Second, UpdatePcs, ExtPcs

LEMMA SearchInv ==
  ASSUME Inv, NEW w \in Workers,
         \/ StartInsert(w) \/ StartUpdate(w) \/ StartDelete(w) \/ EndStatement(w)
         \/ NextGroup(w) \/ ScanGroup(w) \/ RowMatches(w) \/ RowDiffers(w)
         \/ ScanColumn(w) \/ CurrentReadVersion(w)
  PROVE  Inv'
<1>1. Locked(w) /\ Free(s[w]) /\ Free(s'[w]) /\ s'[w].pc # "origin"
  BY SearchLocks
<1>2. Step1(w) /\ UNCHANGED <<pages, pageCnt, savedCnt, groups>>
  <2>1. CASE StartInsert(w) \/ StartUpdate(w) \/ StartDelete(w)
    BY <2>1, Starts DEF Inv
  <2>2. CASE EndStatement(w)
    BY <2>2, EndStatement1 DEF Inv
  <2>3. CASE NextGroup(w)
    BY <2>3, NextGroup1 DEF Inv, Quiet
  <2>4. CASE ScanGroup(w)
    BY <2>4, ScanGroup1 DEF Inv, Quiet
  <2>5. CASE RowMatches(w)
    BY <2>5, RowMatches1 DEF Inv, Quiet
  <2>6. CASE RowDiffers(w)
    BY <2>6, RowDiffers1 DEF Inv, Quiet
  <2>7. CASE ScanColumn(w)
    BY <2>7, ScanColumn1 DEF Inv, Quiet
  <2>8. CASE CurrentReadVersion(w)
    BY <2>8, CurrentRead1 DEF Inv
  <2> QED
    BY <2>1, <2>2, <2>3, <2>4, <2>5, <2>6, <2>7, <2>8
<1>3. ~HasUndo(s'[w]) /\ s'[w].pc # "extend" /\ s'[w].pc # "newrow" /\ s[w].pc # "extend"
  BY <1>1, FreeHasNoUndo DEF Free, FreePcs
<1> QED
  BY <1>1, <1>2, <1>3, FileSameStep

LEMMA InsertHasNoUndo ==
  ASSUME NEW r, r.pc \in {"group", "member", "lockgroup", "check", "write", "end"}
  PROVE  ~HasUndo(r) /\ r.pc # "extend" /\ r.pc # "newrow"
  BY DEF HasUndo, Updating, Second, UpdatePcs, ExtPcs

LEMMA InsertInv ==
  ASSUME Inv, LocksFit, NEW w \in Workers, MemberPage(w) \/ LockGroupPages(w) \/ FreeSpaceCheck(w) \/ WriteColumn(w)
  PROVE  Inv'
<1> DEFINE ins == {"group", "member", "lockgroup", "check", "write", "end"}
<1>0. s[w] \in Locals
  BY Known DEF Inv
<1>1. Locked(w)
  BY MemberPageLocks, LockGroupLocks, CheckLocks, WriteColumnLocks
<1>2. CASE MemberPage(w)
  <2>1. Step1(w) /\ Quiet /\ s[w].pc = "member"
    BY <1>2, MemberPage1 DEF Inv
  <2>2. s'[w].pc \in ins
    BY <1>0, <1>2, MemberPage1 DEF Inv, Locals
  <2>3. ~HasUndo(s'[w]) /\ s'[w].pc # "extend" /\ s'[w].pc # "newrow"
    BY <2>2, InsertHasNoUndo
  <2> QED
    BY <1>1, <2>1, <2>3, FileSameStep DEF Quiet
<1>3. CASE LockGroupPages(w)
  <2>1. /\ Step1(w) /\ Quiet /\ s[w].pc = "lockgroup"
        /\ s'[w] = IF s[w].c < NumCols THEN [s[w] EXCEPT !.c = @ + 1] ELSE [s[w] EXCEPT !.pc = "check", !.c = 1]
    BY <1>3, LockGroupPages1 DEF Inv
  <2>2. s'[w].pc \in ins
    BY <1>0, <2>1 DEF Locals
  <2>3. ~HasUndo(s'[w]) /\ s'[w].pc # "extend" /\ s'[w].pc # "newrow"
    BY <2>2, InsertHasNoUndo
  <2> QED
    BY <1>1, <2>1, <2>3, FileSameStep DEF Quiet
<1>4. CASE FreeSpaceCheck(w)
  <2>1. /\ Step1(w) /\ Quiet /\ s[w].pc = "check"
        /\ s'[w] = [s[w] EXCEPT !.pc = "write"] \/ s'[w] = [s[w] EXCEPT !.pc = "member", !.plist = << >>]
    BY <1>4, FreeSpaceCheck1 DEF Inv
  <2>2. s'[w].pc \in ins
    BY <1>0, <2>1 DEF Locals
  <2>3. ~HasUndo(s'[w]) /\ s'[w].pc # "extend" /\ s'[w].pc # "newrow"
    BY <2>2, InsertHasNoUndo
  <2> QED
    BY <1>1, <2>1, <2>3, FileSameStep DEF Quiet
<1>5. CASE WriteColumn(w)
  <2>1. PICK p \in PageNos, n \in Pages :
          /\ Step1(w) /\ s[w].pc = "write" /\ UNCHANGED <<pageCnt, savedCnt, groups>>
          /\ p = s[w].plist[s[w].c] /\ Writes(pages, pages', p, n)
          /\ s'[w] = [s[w] EXCEPT !.c = @ + 1] \/ s'[w] = [s[w] EXCEPT !.pc = "end"]
    BY <1>5, WriteColumn1 DEF Inv
  <2>2. s'[w].pc \in ins
    BY <1>0, <2>1 DEF Locals
  <2>3. ~HasUndo(s'[w]) /\ s'[w].pc # "extend" /\ s'[w].pc # "newrow"
    BY <2>2, InsertHasNoUndo
  <2>4. p = groups[s[w].g][s[w].c] /\ s[w].g \in 1..Len(groups) /\ s[w].c \in Cols
    BY <2>1, InsertAt DEF GroupPcs, Cols
  <2>5. p <= savedCnt /\ savedCnt \in Nat
    BY <2>4 DEF Inv, Inv1, Types, Storage, GroupsOK
  <2>6. Calm(pages, pages', savedCnt)
    BY <2>1, <2>5, WritesCalm
  <2>7. UseOK(pages', s'[w])
    BY <2>3, NoUse
  <2> QED
    BY <1>1, <2>1, <2>3, <2>6, <2>7, CalmStep
<1> QED
  BY <1>2, <1>3, <1>4, <1>5

LEMMA ExtendInv ==
  ASSUME Inv, LocksFit, NEW w \in Workers,
         StartExtensionTbl(w) \/ AddPage(w) \/ InsertGroupItem(w) \/ LinkPage(w)
  PROVE  Inv'
<1>0. Inv1 /\ pageCnt \in Nat
  BY DEF Inv, Inv1, Types
<1>1. Step1(w) /\ Locked(w) /\ pageCnt <= pageCnt'
  <2>1. CASE StartExtensionTbl(w)
    <3>1. Step1(w) /\ pageCnt' = pageCnt
      BY <1>0, <2>1, StartExtension1 DEF Quiet
    <3>2. Locked(w)
      BY <2>1, StartExtensionLocks
    <3> QED
      BY <1>0, <3>1, <3>2
  <2>2. CASE AddPage(w)
    <3>1. Step1(w) /\ pageCnt' = pageCnt + 1
      BY <1>0, <2>2, AddPage1
    <3>2. Locked(w)
      BY <2>2, AddPageLocks
    <3> QED
      BY <1>0, <3>1, <3>2
  <2>3. CASE InsertGroupItem(w)
    <3>1. Step1(w) /\ pageCnt' = pageCnt
      BY <1>0, <2>3, InsertGroupItem1
    <3>2. Locked(w)
      BY <2>3, InsertGroupItemLocks
    <3> QED
      BY <1>0, <3>1, <3>2
  <2>4. CASE LinkPage(w)
    <3>1. Step1(w) /\ pageCnt' = pageCnt
      BY <1>0, <2>4, LinkPage1
    <3>2. Locked(w)
      BY <2>4, LinkPageLocks
    <3> QED
      BY <1>0, <3>1, <3>2
  <2> QED
    BY <2>1, <2>2, <2>3, <2>4
<1>2. LocksOK'
  BY <1>1, LocksStep
<1>3. Storage'
  BY <1>2, StartExtensionStorage, AddPageStorage, InsertGroupItemStorage, LinkPageStorage
<1>4. Inv1'
  BY <1>1, Step1Inv DEF Inv
<1> QED
  BY <1>2, <1>3, <1>4 DEF Inv

\* The pages that an update writes are counted by the header page.
LEMMA ChangedCounted ==
  ASSUME Inv, NEW w \in Workers, s[w].pc \in {"move", "inplace", "grow", "newrow", "remove"}
  PROVE  /\ Origin(w) \in PageNos /\ Origin(w) <= savedCnt /\ savedCnt \in Nat
         /\ s[w].pc # "remove" => HasUndo(s[w]) /\ s[w].undo \in PageNos /\ s[w].undo <= savedCnt
         /\ s[w].pc = "newrow" => s[w].new \in PageNos /\ s[w].new <= savedCnt
<1>1. s[w].pc \in UpdatePcs \cup DeletePcs
  BY DEF UpdatePcs, DeletePcs
<1>2. Origin(w) \in PageNos /\ Origin(w) <= savedCnt /\ savedCnt \in Nat
  BY <1>1, OriginData DEF Inv, Inv1, Types
<1>3. s[w].pc # "remove" => HasUndo(s[w]) /\ s[w].undo \in PageNos
  BY ChangeAt DEF Inv
<1>4. s[w].pc # "remove" => s[w].undo <= savedCnt
  <2>1. s[w].pc # "remove" => pages[s[w].undo].type = "undo"
    BY <1>3 DEF Inv, Storage, UseOK
  <2> QED
    BY <1>3, <2>1, UsedIsCounted
<1>5. s[w].pc = "newrow" => s[w].new \in PageNos /\ s[w].new <= savedCnt
  <2>1. s[w].pc = "newrow" => s[w].new \in PageNos
    BY Known DEF Inv, Shape, Scanned
  <2>2. s[w].pc = "newrow" => pages[s[w].new].type = "ext"
    BY DEF Inv, Storage, UseOK
  <2> QED
    BY <2>1, <2>2, UsedIsCounted
<1> QED
  BY <1>2, <1>3, <1>4, <1>5

\* A step to the next column or row after a write.
LEMMA WrittenInv ==
  ASSUME Inv, NEW w \in Workers, Step1(w), Locked(w), Calm(pages, pages', savedCnt),
         UNCHANGED <<pageCnt, savedCnt, groups>>, s[w].pc # "extend", NEW pc \in {"first", "delete"},
         s'[w] = ColumnNext(s[w], pc)
  PROVE  Inv'
<1>1. s[w] \in Locals
  BY Known DEF Inv
<1>2. s'[w].pc \in {"first", "delete", "column"}
  BY <1>1 DEF ColumnNext, RowNext, Locals
<1>3. ~HasUndo(s'[w]) /\ s'[w].pc # "extend" /\ s'[w].pc # "newrow"
  BY <1>2 DEF HasUndo, Updating, Second, UpdatePcs, ExtPcs
<1>4. UseOK(pages', s'[w])
  BY <1>3, NoUse
<1> QED
  BY <1>3, <1>4, CalmStep

LEMMA WritingInv ==
  ASSUME Inv, LocksFit, NEW w \in Workers, WriteInPlace(w) \/ Remove(w) \/ WriteNewRow(w) \/ MoveOld(w)
  PROVE  Inv'
<1>0. Inv1
  BY DEF Inv
<1>1. CASE WriteInPlace(w)
  <2>1. PICK n : /\ s[w].pc = "inplace" /\ Step1(w) /\ UNCHANGED <<pageCnt, savedCnt, groups>>
                 /\ s'[w] = ColumnNext(s[w], "first") /\ Writes(pages, pages', Origin(w), n)
    BY <1>0, <1>1, WriteInPlace1
  <2>2. Calm(pages, pages', savedCnt)
    BY <2>1, ChangedCounted, WritesCalm
  <2> QED
    BY <1>1, <2>1, <2>2, WriteInPlaceLocks, WrittenInv
<1>2. CASE Remove(w)
  <2>1. PICK n : /\ s[w].pc = "remove" /\ Step1(w) /\ UNCHANGED <<pageCnt, savedCnt, groups>>
                 /\ s'[w] = ColumnNext(s[w], "delete") /\ Writes(pages, pages', Origin(w), n)
    BY <1>0, <1>2, Remove1
  <2>2. Calm(pages, pages', savedCnt)
    BY <2>1, ChangedCounted, WritesCalm
  <2> QED
    BY <1>2, <2>1, <2>2, RemoveLocks, WrittenInv
<1>3. CASE WriteNewRow(w)
  <2>1. PICK M, m, n :
          /\ s[w].pc = "newrow" /\ Step1(w) /\ UNCHANGED <<pageCnt, savedCnt, groups>>
          /\ s'[w] = ColumnNext(s[w], "first") /\ Writes(pages, M, s[w].new, m) /\ Writes(M, pages', Origin(w), n)
    BY <1>3, WriteNewRow1
  <2>2. Calm(pages, M, savedCnt) /\ Calm(M, pages', savedCnt)
    BY <2>1, ChangedCounted, WritesCalm
  <2>3. Calm(pages, pages', savedCnt)
    BY <2>2 DEF Calm
  <2> QED
    BY <1>3, <2>1, <2>3, WriteNewRowLocks, WrittenInv
<1>4. CASE MoveOld(w)
  <2>1. /\ s[w].pc = "move" /\ Step1(w) /\ UNCHANGED <<pageCnt, savedCnt, groups>>
        /\ \E n \in Pages : Writes(pages, pages', s[w].undo, n)
        /\ \E pc \in {"inplace", "grow"}, u \in Positions : s'[w] = [s[w] EXCEPT !.pc = pc, !.upos = u]
    BY <1>0, <1>4, MoveOld1
  <2>2. Calm(pages, pages', savedCnt)
    BY <2>1, ChangedCounted, WritesCalm
  <2>3. s[w] \in Locals /\ Shape(pages, groups, s[w]) /\ UseOK(pages, s[w]) /\ HasUndo(s[w])
    BY <1>0, <2>1, Known, ChangedCounted DEF Inv, Storage
  <2>4. s'[w].pc \in {"inplace", "grow"} /\ s'[w].undo = s[w].undo
    BY <2>1, <2>3 DEF Locals
  <2>5. KeepsUse(pages, pages')
    BY <2>2 DEF KeepsUse, Calm
  <2>6. UseOK(pages', s'[w])
    BY <2>3, <2>4, <2>5, UseSame
  <2> QED
    BY <1>4, <2>1, <2>2, <2>4, <2>6, MoveOldLocks, CalmStep
<1> QED
  BY <1>1, <1>2, <1>3, <1>4

LEMMA LockingInv ==
  ASSUME Inv, LocksFit, NEW w \in Workers,
         LockFirstPage(w) \/ LockOrigin(w) \/ LockUndo(w) \/ LockForDelete(w)
  PROVE  Inv'
<1>0. Inv1 /\ s[w] \in Locals /\ Shape(pages, groups, s[w])
  BY Known DEF Inv
<1>1. Locked(w)
  BY LockFirstPageLocks, LockOriginLocks, LockUndoLocks, LockForDeleteLocks
<1>2. CASE LockFirstPage(w)
  <2>1. /\ s[w].pc = "first" /\ Step1(w) /\ Quiet
        /\ \/ s'[w] = [s[w] EXCEPT !.pc = "end"]
           \/ \E pc \in {"startext", "chain"} : s'[w] = [s[w] EXCEPT !.kind = "undo", !.num = 1, !.pc = pc]
    BY <1>0, <1>2, LockFirstPage1
  <2>2. s'[w].pc = "end" \/ (s'[w].pc \in {"startext", "chain"} /\ s'[w].kind = "undo")
    BY <1>0, <2>1 DEF Locals
  <2>3. ~HasUndo(s'[w]) /\ s'[w].pc # "extend" /\ s'[w].pc # "newrow"
    BY <2>2 DEF HasUndo, Updating, Second, UpdatePcs, ExtPcs
  <2> QED
    BY <1>1, <2>1, <2>3, FileSameStep DEF Quiet
<1>3. CASE LockOrigin(w)
  <2>1. s[w].pc = "origin" /\ Step1(w) /\ Quiet /\ s'[w] = [s[w] EXCEPT !.pc = "undo"]
    BY <1>0, <1>3, LockOrigin1
  <2>2. s'[w].pc = "undo" /\ s'[w].undo = s[w].undo
    BY <1>0, <2>1 DEF Locals
  <2>3. HasUndo(s[w])
    BY <1>0, <2>1 DEF HasUndo, Updating, UpdatePcs, Shape, Statement
  <2> QED
    BY <1>1, <2>1, <2>2, <2>3, FileSameStep DEF Quiet
<1>4. CASE LockUndo(w)
  <2>1. /\ s[w].pc = "undo" /\ Step1(w) /\ Quiet
        /\ s'[w] = [s[w] EXCEPT !.pc = "move"] \/ s'[w] = [s[w] EXCEPT !.pc = "end"]
    BY <1>0, <1>4, LockUndo1
  <2>2. s'[w].pc \in {"move", "end"} /\ s'[w].undo = s[w].undo
    BY <1>0, <2>1 DEF Locals
  <2>3. HasUndo(s[w])
    BY <1>0, <2>1 DEF HasUndo, Updating, UpdatePcs, Shape, Statement
  <2> QED
    BY <1>1, <2>1, <2>2, <2>3, FileSameStep DEF Quiet
<1>5. CASE LockForDelete(w)
  <2>1. /\ s[w].pc = "delete" /\ Step1(w) /\ Quiet
        /\ s'[w] = [s[w] EXCEPT !.pc = "remove"] \/ s'[w] = [s[w] EXCEPT !.pc = "end"]
    BY <1>0, <1>5, LockForDelete1
  <2>2. s'[w].pc \in {"remove", "end"}
    BY <1>0, <2>1 DEF Locals
  <2>3. ~HasUndo(s'[w]) /\ s'[w].pc # "extend" /\ s'[w].pc # "newrow"
    BY <2>2 DEF HasUndo, Updating, Second, UpdatePcs, ExtPcs
  <2> QED
    BY <1>1, <2>1, <2>3, FileSameStep DEF Quiet
<1> QED
  BY <1>2, <1>3, <1>4, <1>5

LEMMA GrowInv ==
  ASSUME Inv, LocksFit, NEW w \in Workers, Grow(w)
  PROVE  Inv'
<1>0. Inv1 /\ s[w] \in Locals
  BY Known DEF Inv
<1>1. /\ s[w].pc = "grow" /\ Step1(w) /\ UNCHANGED <<pageCnt, savedCnt, groups>>
      /\ \/ s'[w] = ColumnNext(s[w], "first") /\ \E n : Writes(pages, pages', Origin(w), n)
         \/ pages' = pages /\ s'[w] = [s[w] EXCEPT !.pc = "end"]
         \/ pages' = pages /\ \E pc \in {"startext", "chain"} : s'[w] = [s[w] EXCEPT !.kind = "ext", !.num = 1, !.pc = pc]
  BY <1>0, Grow1
<1>2. Locked(w)
  BY GrowLocks
<1>3. CASE s'[w] = ColumnNext(s[w], "first") /\ \E n : Writes(pages, pages', Origin(w), n)
  <2>1. Calm(pages, pages', savedCnt)
    BY <1>1, <1>3, ChangedCounted, WritesCalm
  <2> QED
    BY <1>1, <1>2, <1>3, <2>1, WrittenInv
<1>4. CASE pages' = pages /\ \E pc \in {"startext", "chain"} : s'[w] = [s[w] EXCEPT !.kind = "ext", !.num = 1, !.pc = pc]
  <2>1. s'[w].pc \in {"startext", "chain"} /\ s'[w].undo = s[w].undo
    BY <1>0, <1>4 DEF Locals
  <2>2. HasUndo(s[w])
    BY <1>1, ChangedCounted
  <2> QED
    BY <1>1, <1>2, <1>4, <2>1, <2>2, FileSameStep
<1>5. CASE pages' = pages /\ s'[w] = [s[w] EXCEPT !.pc = "end"]
  <2>1. s'[w].pc = "end"
    BY <1>0, <1>5 DEF Locals
  <2>2. ~HasUndo(s'[w])
    BY <2>1 DEF HasUndo, Updating, Second, UpdatePcs, ExtPcs
  <2> QED
    BY <1>1, <1>2, <1>5, <2>1, <2>2, FileSameStep
<1> QED
  BY <1>1, <1>3, <1>4, <1>5

LEMMA ChainInv ==
  ASSUME Inv, LocksFit, NEW w \in Workers, LockChainPage(w)
  PROVE  Inv'
<1>0. PICK r : r = s[w]
  OBVIOUS
<1>1. PICK p \in PageNos :
        /\ r.pc = "chain" /\ Step1(w) /\ Quiet /\ p = ChainHead(pages[Origin(w)], r.kind)
        /\ s'[w] = Got(r, p) \/ s'[w] = [r EXCEPT !.pc = "startext"]
        /\ r \in Locals /\ Shape(pages, groups, r) /\ UseOK(pages, r)
  BY <1>0, LockChainPage1, Known DEF Inv, Storage
<1>2. r.op = "update" /\ r.kind \in {"undo", "ext"} /\ UNCHANGED <<pages, pageCnt, savedCnt, groups>>
  BY <1>1 DEF Shape, Statement, UpdatePcs, Locals, Quiet
<1>3. pages[p].type = r.kind
  BY <1>0, <1>1, HeadIs
<1>4. r.kind = "ext" => HasUndo(r)
  BY <1>1, <1>2 DEF HasUndo, Updating, Second, UpdatePcs
<1>5. UseOK(pages', s'[w]) /\ s'[w].pc # "extend"
  <2>1. CASE s'[w] = Got(r, p) /\ r.kind = "undo"
    <3>1. s'[w].pc = "origin" /\ s'[w].undo = p
      BY <1>1, <2>1 DEF Got, Locals
    <3> QED
      BY <1>2, <1>3, <2>1, <3>1 DEF UseOK
  <2>2. CASE s'[w] = Got(r, p) /\ r.kind = "ext"
    <3>1. s'[w].pc = "newrow" /\ s'[w].undo = r.undo /\ s'[w].new = p
      BY <1>1, <2>2 DEF Got, Locals
    <3> QED
      BY <1>1, <1>2, <1>3, <1>4, <2>2, <3>1 DEF UseOK
  <2>3. CASE s'[w] = [r EXCEPT !.pc = "startext"]
    <3>1. s'[w].pc = "startext" /\ s'[w].undo = r.undo /\ s'[w].kind = r.kind
      BY <1>1, <2>3 DEF Locals
    <3>2. HasUndo(s'[w]) => HasUndo(r)
      BY <1>4, <3>1 DEF HasUndo, Second
    <3> QED
      BY <1>1, <1>2, <3>1, <3>2 DEF UseOK
  <2> QED
    BY <1>1, <1>2, <2>1, <2>2, <2>3
<1>6. Calm(pages, pages', savedCnt)
  BY <1>2 DEF Calm
<1> QED
  BY <1>0, <1>1, <1>2, <1>5, <1>6, LockChainPageLocks, CalmStep

LEMMA NextInv ==
  ASSUME Inv, LocksFit, Next
  PROVE  Inv'
<1>1. PICK w \in Workers : Insert(w) \/ Extension(w) \/ Scan(w) \/ Update(w) \/ Delete(w) \/ EndStatement(w)
  BY DEF Next
<1>2. CASE Insert(w)
  BY <1>2, SearchInv, InsertInv, ExtendInv DEF Insert
<1>3. CASE Extension(w)
  BY <1>3, ExtendInv DEF Extension
<1>4. CASE Scan(w)
  BY <1>4, SearchInv DEF Scan
<1>5. CASE Update(w)
  BY <1>5, SearchInv, LockingInv, ChainInv, ExtendInv, WritingInv, GrowInv DEF Update
<1>6. CASE Delete(w)
  BY <1>6, SearchInv, LockingInv, WritingInv DEF Delete
<1>7. CASE EndStatement(w)
  BY <1>7, SearchInv
<1> QED
  BY <1>1, <1>2, <1>3, <1>4, <1>5, <1>6, <1>7

LEMMA StutterInv ==
  ASSUME Inv, UNCHANGED vars
  PROVE  Inv'
<1>1. Inv1'
  BY DEF Inv, Inv1, Types, Shapes, vars
<1>2. Storage'
  BY DEF Inv, Storage, Extenders, vars
<1>3. LocksOK'
  <2>1. pageCnt' = pageCnt /\ locks' = locks /\ groups' = groups /\ s' = s
    BY DEF vars
  <2>2. LocksOK
    BY DEF Inv
  <2> QED
    BY <2>1, <2>2 DEF LocksOK
<1> QED
  BY <1>1, <1>2, <1>3 DEF Inv

LEMMA NoLocksAtFirst ==
  ASSUME NEW L, L = InitRWLocks(Workers, Locks)
  PROVE  L \in LockStates(Workers, Locks) /\ \A w \in Workers : Has(L, Locks, w, H(0, 0, 0, 0, 0), 0)
<1>1. L.tab = [t \in Workers |-> << >>] /\ L.rw = [l \in Locks |-> [writer |-> NoThread, readers |-> 0]]
  BY DEF InitRWLocks
<1>2. L \in [tab : [Workers -> Seq(TabEntries(Locks))], rw : [Locks -> RWStates(Workers)]]
  BY DEF InitRWLocks, RWStates
<1>3. L \in LockStates(Workers, Locks)
  BY <1>1, <1>2, LocalLockAssumption DEF LockStates
<1>4. ASSUME NEW w \in Workers PROVE Has(L, Locks, w, H(0, 0, 0, 0, 0), 0)
  <2>1. H(0, 0, 0, 0, 0) \in [Locks -> Nat] /\ \A l \in Locks : H(0, 0, 0, 0, 0)[l] = 0
    BY DEF H
  <2>2. L.tab[w] = << >> /\ \A l \in Locks : L.rw[l].writer # w
    BY <1>1, ModifyAssumption
  <2> QED
    BY <2>1, <2>2 DEF Has
<1> QED
  BY <1>3, <1>4

LEMMA InitInv ==
  ASSUME Init
  PROVE  Inv
<1>1. /\ pages = [p \in PageNos |-> NoPage] /\ pageCnt = 1 /\ savedCnt = 1 /\ groups = << >>
      /\ locks = InitRWLocks(Workers, Locks) /\ s = [w \in Workers |-> Idle]
      /\ nextXid = 1 /\ running = {} /\ wild = FALSE
  BY DEF Init
<1>2. Types
  <2>1. pages \in Files
    BY <1>1, FreshPagesAre DEF Files
  <2>2. s \in [Workers -> Locals]
    BY <1>1, IdleIs
  <2>3. locks \in LockStates(Workers, Locks)
    BY <1>1, NoLocksAtFirst
  <2>4. nextXid \in 1..(MaxStatements + 1)
    BY <1>1, ModifyAssumption
  <2> QED
    <3>1. groups \in Groups
      BY <1>1 DEF Groups
    <3>2. pageCnt \in Nat \ {0} /\ savedCnt \in 1..pageCnt
      BY <1>1
    <3>3. wild \in BOOLEAN
      BY <1>1
    <3>4. running \in SUBSET (1..(nextXid - 1))
      BY <1>1
    <3> QED
      BY <2>1, <2>2, <2>3, <2>4, <3>1, <3>2, <3>3, <3>4 DEF Types
<1>3. Shapes
  BY <1>1, IdleIs, FreshPagesAre DEF Shapes, AllLinked
<1>4. \A w \in Workers : s[w] = Idle /\ Free(s[w]) /\ s[w].pc = "idle"
  BY <1>1 DEF Idle, Free, FreePcs
<1>5. Storage
  <2>1. GroupsOK(pages, groups, savedCnt)
    BY <1>1 DEF GroupsOK
  <2>2. \A p \in PageNos : pages[p] = NoPage
    BY <1>1
  <2>3. ChainsOK(pages, savedCnt)
    BY <2>2, FreshPagesAre DEF ChainsOK
  <2>4. FreshFrom(pages, savedCnt, pageCnt)
    <3>1. \A p \in PageNos : p > 1 => ~(p <= 1)
      BY TableSpaceAssumption DEF PageNos
    <3> QED
      BY <1>1, <2>2, <3>1 DEF FreshFrom
  <2>5. Extenders
    BY <1>1, <1>4 DEF Extenders
  <2>6. \A w \in Workers : UseOK(pages, s[w])
    BY <1>4, NoUse, FreeHasNoUndo
  <2> QED
    BY <2>1, <2>3, <2>4, <2>5, <2>6 DEF Storage
<1>6. LocksOK
  BY <1>1, <1>4, FreeIs, NoLocksAtFirst DEF LocksOK
<1> QED
  BY <1>2, <1>3, <1>5, <1>6 DEF Inv, Inv1

\* The invariant: the types, what a worker may rely on at each place (Shapes), the use of the pages
\* (Storage) and the locks each worker has there (LocksOK).
THEOREM InvHolds ==
  ASSUME LocksFit
  PROVE  Spec => []Inv
<1>1. Init => Inv
  BY InitInv
<1>2. Inv /\ [Next]_vars => Inv'
  BY NextInv, StutterInv
<1> QED
  BY <1>1, <1>2, PTL DEF Spec

LEMMA InvTypes == Inv => TypeOK
<1> SUFFICES ASSUME Inv PROVE TypeOK
  OBVIOUS
<1>1. Types
  BY DEF Inv, Inv1
<1>2. ASSUME NEW p \in PageNos
      PROVE  /\ pages[p].type \in {"none", "data", "ext", "undo"}
             /\ pages[p].ext \in {INVALID_PAGE_NUM} \cup PageNos
             /\ pages[p].undo \in {INVALID_PAGE_NUM} \cup PageNos
             /\ pages[p].free \in Int
             /\ \A i \in DOMAIN pages[p].items : pages[p].items[i].ver \in Versions
  <2>1. pages[p] \in Pages
    BY <1>1 DEF Types, Files
  <2>2. pages[p].items \in Seq(Items)
    BY <2>1 DEF Pages
  <2>3. \A i \in DOMAIN pages[p].items : pages[p].items[i] \in Items
    BY <2>2
  <2> QED
    BY <2>1, <2>3 DEF Pages, PageOrNone, Items
<1>3. ASSUME NEW w \in Workers
      PROVE  /\ Len(locks.tab[w]) <= MaxLocalLocks
             /\ \A i \in DOMAIN locks.tab[w] :
                  locks.tab[w][i] \in [lock : Locks, mode : {READ, WRITE}, cnt : Nat \ {0}]
  <2>1. locks.tab[w] \in Seq(TabEntries(Locks)) /\ Len(locks.tab[w]) <= MaxLocalLocks
    BY <1>1 DEF Types, LockStates
  <2>2. \A i \in DOMAIN locks.tab[w] : locks.tab[w][i] \in TabEntries(Locks)
    BY <2>1
  <2> QED
    BY <2>1, <2>2 DEF TabEntries
<1>4. \A l \in Locks : locks.rw[l] \in [writer : Workers \cup {NoThread}, readers : Int]
  BY <1>1 DEF Types, LockStates, RWStates
<1>5. nextXid \in 1..(MaxStatements + 1) /\ running \subseteq Xids
  BY <1>1, ModifyAssumption DEF Types, Xids
<1> QED
  BY <1>1, <1>2, <1>3, <1>4, <1>5 DEF TypeOK, Types, Groups

LEMMA InvIdle == Inv => IdleHoldsNoLock
<1> SUFFICES ASSUME Inv, NEW w \in Workers, s[w].pc = "idle", pageCnt <= MaxPages
             PROVE  locks.tab[w] = << >> /\ \A l \in Locks : locks.rw[l].writer # w
  BY DEF IdleHoldsNoLock
<1>1. Free(s[w])
  BY DEF Free, FreePcs
<1>2. Has(locks, Locks, w, H(0, 0, 0, 0, 0), 0)
  BY <1>1, FreeIs DEF Inv, LocksOK
<1>3. \A l \in Locks : H(0, 0, 0, 0, 0)[l] = 0
  BY DEF H
<1>4. locks.tab[w] \in Seq(TabEntries(Locks))
  BY DEF Inv, Inv1, Types, LockStates
<1>5. Len(locks.tab[w]) = 0 /\ \A l \in Locks : locks.rw[l].writer # w
  BY <1>2, <1>3 DEF Has
<1> QED
  BY <1>4, <1>5

LEMMA InvAccounted == Inv => PagesAccounted
<1> SUFFICES ASSUME Inv, NEW p \in PageNos
             PROVE  /\ Cardinality(References(p)) <= 1
                    /\ References(p) # {} => p <= savedCnt
                    /\ \A r \in References(p) : pages[p].type = (IF r[1] = "group" THEN "data" ELSE r[1])
  BY DEF PagesAccounted
<1>1. /\ \A g, h \in 1..Len(groups), c, d \in Cols : groups[g][c] = groups[h][d] => g = h /\ c = d
      /\ \A g \in 1..Len(groups), c \in Cols : groups[g][c] <= savedCnt /\ pages[groups[g][c]].type = "data"
  BY DEF Inv, Storage, GroupsOK
<1>2. p # 0
  BY LocksAre DEF ExtLock
<1>3. /\ \A q \in PageNos : pages[q].undo = p => p <= savedCnt /\ pages[p].type = "undo"
      /\ \A q \in PageNos : pages[q].ext = p => p <= savedCnt /\ pages[p].type = "ext"
      /\ \A q, r \in PageNos : pages[q].undo = p /\ pages[r].undo = p => q = r
      /\ \A q, r \in PageNos : pages[q].ext = p /\ pages[r].ext = p => q = r
  BY <1>2 DEF Inv, Storage, ChainsOK
<1>4. DOMAIN groups = 1..Len(groups)
  BY DEF Inv, Inv1, Types, Groups
<1>5. ASSUME NEW x \in References(p)
      PROVE  \/ \E g \in 1..Len(groups), c \in Cols : x = <<"group", g, c>> /\ groups[g][c] = p
             \/ \E q \in PageNos : x = <<"undo", q, 0>> /\ pages[q].undo = p
             \/ \E q \in PageNos : x = <<"ext", q, 0>> /\ pages[q].ext = p
  <2>1. CASE \E g \in {h \in DOMAIN groups : \E c \in Cols : groups[h][c] = p},
                c \in {d \in Cols : \E h \in DOMAIN groups : groups[h][d] = p} : x = <<"group", g, c>>
    <3>1. PICK g \in DOMAIN groups, c \in Cols :
            x = <<"group", g, c>> /\ (\E d \in Cols : groups[g][d] = p) /\ \E h \in DOMAIN groups : groups[h][c] = p
      BY <2>1
    <3>2. groups[g][c] = p
      BY <1>1, <1>4, <3>1
    <3> QED
      BY <1>4, <3>1, <3>2
  <2>2. CASE \E q \in {r \in PageNos : pages[r].undo = p} : x = <<"undo", q, 0>>
    BY <2>2
  <2>3. CASE \E q \in {r \in PageNos : pages[r].ext = p} : x = <<"ext", q, 0>>
    BY <2>3
  <2> QED
    BY <2>1, <2>2, <2>3 DEF References
<1>6. ASSUME NEW x \in References(p)
      PROVE  p <= savedCnt /\ pages[p].type = (IF x[1] = "group" THEN "data" ELSE x[1])
  <2>1. CASE \E g \in 1..Len(groups), c \in Cols : x = <<"group", g, c>> /\ groups[g][c] = p
    BY <1>1, <2>1
  <2>2. CASE \E q \in PageNos : x = <<"undo", q, 0>> /\ pages[q].undo = p
    BY <1>3, <2>2
  <2>3. CASE \E q \in PageNos : x = <<"ext", q, 0>> /\ pages[q].ext = p
    BY <1>3, <2>3
  <2> QED
    BY <1>5, <2>1, <2>2, <2>3
<1>7. ASSUME NEW x \in References(p), NEW y \in References(p) PROVE x = y
  <2>1. pages[p].type = (IF x[1] = "group" THEN "data" ELSE x[1])
        /\ pages[p].type = (IF y[1] = "group" THEN "data" ELSE y[1])
    BY <1>6
  <2>2. CASE \E g \in 1..Len(groups), c \in Cols : x = <<"group", g, c>> /\ groups[g][c] = p
    <3>1. y[1] = "group"
      BY <1>5, <2>1, <2>2
    <3>2. \E g \in 1..Len(groups), c \in Cols : y = <<"group", g, c>> /\ groups[g][c] = p
      BY <1>5, <3>1
    <3> QED
      BY <1>1, <2>2, <3>2
  <2>3. CASE \E q \in PageNos : x = <<"undo", q, 0>> /\ pages[q].undo = p
    <3>1. y[1] = "undo"
      BY <1>5, <2>1, <2>3
    <3>2. \E q \in PageNos : y = <<"undo", q, 0>> /\ pages[q].undo = p
      BY <1>5, <3>1
    <3> QED
      BY <1>3, <2>3, <3>2
  <2>4. CASE \E q \in PageNos : x = <<"ext", q, 0>> /\ pages[q].ext = p
    <3>1. y[1] = "ext"
      BY <1>5, <2>1, <2>4
    <3>2. \E q \in PageNos : y = <<"ext", q, 0>> /\ pages[q].ext = p
      BY <1>5, <3>1
    <3> QED
      BY <1>3, <2>4, <3>2
  <2> QED
    BY <1>5, <2>2, <2>3, <2>4
<1>8. Cardinality(References(p)) <= 1
  <2>1. CASE References(p) = {}
    BY <2>1, FS_EmptySet
  <2>2. CASE References(p) # {}
    <3>1. PICK x : x \in References(p)
      BY <2>2
    <3>2. References(p) = {x}
      BY <1>7, <3>1
    <3>3. Cardinality({x}) = 1
      BY FS_Singleton
    <3>4. PICK n : n = Cardinality(References(p))
      OBVIOUS
    <3>5. n = 1
      BY <3>2, <3>3, <3>4
    <3> QED
      BY <3>4, <3>5
  <2> QED
    BY <2>1, <2>2
<1> QED
  BY <1>6, <1>8

-----------------------------------------------------------------------------
(* The theorems *)

\* The state of the modifications keeps its types, whatever the workers do with the table: the
\* page links stay page numbers, no table of locks exceeds MAX_LOCAL_LOCK_NUM.
THEOREM ModifyTypes ==
  ASSUME LocksFit
  PROVE  Spec => []TypeOK
  BY InvHolds, InvTypes, PTL

\* ExtensionTbl, InsertGroupItem and GetSpaceSpecifyPage give every page one use, the one its type
\* says, and the header page counts it, however the extensions of several workers interleave and
\* also after the disk has run full.
THEOREM ModifyPages ==
  ASSUME LocksFit
  PROVE  Spec => []PagesAccounted
  BY InvHolds, InvAccounted, PTL

\* pax_ExecInsert, pax_ExecUpdate and pax_ExecDelete give back every lock they took, through
\* every path but that of a full disk, and the ones that unlock a page twice take no lock away
\* from another worker.
THEOREM ModifyLocks ==
  ASSUME LocksFit
  PROVE  Spec => []IdleHoldsNoLock
  BY InvHolds, InvIdle, PTL

=============================================================================

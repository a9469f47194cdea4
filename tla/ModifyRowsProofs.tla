--------------------------- MODULE ModifyRowsProofs ---------------------------
(***************************************************************************)
(* Theorems about what Modify does to the rows, on top of the invariant    *)
(* Inv of ModifyProofs (types, shape of the statements, use of the pages,  *)
(* who holds which lock).                                                  *)
(*                                                                         *)
(*   ModifyWaits   the locks have an order, Level, and every worker waits  *)
(*                 for a lock above all the ones it holds;                 *)
(*   ModifyChains  Chained3: where versions and the copies that workers    *)
(*                 have of them lead, and whose transactions have ended;   *)
(*   ModifyRows    AllAligned: an insert that writes is one row ahead in   *)
(*                 the columns before the one at hand, and alone;          *)
(*   ModifyRoom    AllFit: the room that was found under a lock is there   *)
(*                 until that lock is given back; Sized: what needs an     *)
(*                 extension page is smaller than a page.                  *)
(*                                                                         *)
(* Like those of ModifyProofs, the predicates take pages, groups and the   *)
(* record of a worker as arguments.                                        *)
(***************************************************************************)
EXTENDS ModifyProofs

USE DEF INVALID_PAGE_NUM, PAGE_HEAD_PAGE_NUM, ItemSize

-----------------------------------------------------------------------------
(* The order of the locks *)

\* The data pages by column, then undo pages, extension pages and the extension lock.
InGroup(l) == \E g \in 1..Len(groups), c \in Cols : groups[g][c] = l
Level(l) ==
  IF l = ExtLock THEN NumCols + 3
  ELSE IF InGroup(l) THEN CHOOSE c \in Cols : \E g \in 1..Len(groups) : groups[g][c] = l
  ELSE IF pages[l].type = "undo" THEN NumCols + 1
  ELSE IF pages[l].type = "ext" THEN NumCols + 2 ELSE 0

\* The level of every lock that a worker may take.
LEMMA LevelIs ==
  ASSUME Inv
  PROVE  /\ \A l : Level(l) \in Nat
         /\ Level(ExtLock) = NumCols + 3
         /\ \A g \in 1..Len(groups), c \in Cols : Level(groups[g][c]) = c
         /\ \A p \in PageNos : /\ pages[p].type = "undo" => Level(p) = NumCols + 1
                               /\ pages[p].type = "ext" => Level(p) = NumCols + 2
         /\ NumCols \in Nat \ {0} /\ \A c \in Cols : c \in 1..NumCols
<1>1. NumCols \in Nat \ {0} /\ Cols = 1..NumCols
  BY TableSpaceAssumption DEF Cols
<1>2. ASSUME NEW l, l # ExtLock, InGroup(l)
      PROVE  Level(l) \in Cols /\ \E g \in 1..Len(groups) : groups[g][Level(l)] = l
  <2> DEFINE P(c) == \E g \in 1..Len(groups) : groups[g][c] = l
  <2>1. \E c \in Cols : P(c)
    BY <1>2 DEF InGroup
  <2>2. Level(l) = CHOOSE c \in Cols : P(c)
    BY <1>2 DEF Level
  <2> HIDE DEF P
  <2>3. Level(l) \in Cols /\ P(Level(l))
    BY <2>1, <2>2
  <2> QED
    BY <2>3 DEF P
<1>3. \A l : Level(l) \in Nat
  <2> TAKE l
  <2>1. CASE l # ExtLock /\ InGroup(l)
    BY <1>1, <1>2, <2>1
  <2>2. CASE ~(l # ExtLock /\ InGroup(l))
    BY <1>1, <2>2 DEF Level
  <2> QED
    BY <2>1, <2>2
<1>4. Level(ExtLock) = NumCols + 3
  BY DEF Level
<1>5. GroupsOK(pages, groups, savedCnt) /\ groups \in Groups
  BY DEF Inv, Inv1, Types, Storage
<1>6. ASSUME NEW g \in 1..Len(groups), NEW c \in Cols PROVE Level(groups[g][c]) = c
  <2>1. groups[g][c] \in PageNos
    BY <1>5 DEF Groups
  <2>2. groups[g][c] # ExtLock
    BY <2>1, LocksAre
  <2>3. InGroup(groups[g][c])
    BY DEF InGroup
  <2>4. PICK d \in Cols, h \in 1..Len(groups) : d = Level(groups[g][c]) /\ groups[h][d] = groups[g][c]
    BY <1>1, <1>2, <2>2, <2>3
  <2> QED
    BY <1>5, <2>4 DEF GroupsOK
<1>7. ASSUME NEW p \in PageNos, pages[p].type \in {"undo", "ext"} PROVE ~InGroup(p) /\ p # ExtLock
  BY <1>5, <1>7, LocksAre DEF GroupsOK, InGroup
<1>8. \A p \in PageNos : /\ pages[p].type = "undo" => Level(p) = NumCols + 1
                         /\ pages[p].type = "ext" => Level(p) = NumCols + 2
  BY <1>7 DEF Level
<1> QED
  BY <1>1, <1>3, <1>4, <1>6, <1>8

\* What a worker has, and that it wants more than that.
LEMMA HoldsIs ==
  ASSUME Inv, pageCnt <= MaxPages, NEW v \in Workers, NEW l, Holds(v, l)
  PROVE  l \in Locks /\ Count(groups, s[v], l) > 0
<1>1. /\ Has(locks, Locks, v, Held(groups, s[v]), Num(s[v])) /\ locks \in LockStates(Workers, Locks)
  BY DEF Inv, Inv1, Types, LocksOK
<1>2. locks.tab[v] \in Seq(TabEntries(Locks))
  BY <1>1 DEF LockStates
<1>3. PICK i \in 1..Len(locks.tab[v]) : locks.tab[v][i].lock = l
  <2>1. PICK t : t = locks.tab[v]
    OBVIOUS
  <2>2. DOMAIN t = 1..Len(t)
    BY <1>2, <2>1
  <2>3. PICK i \in DOMAIN t : t[i].lock = l
    BY <2>1 DEF Holds
  <2> QED
    BY <2>1, <2>2, <2>3
<1>4. l \in Locks
  <2>1. PICK t : t = locks.tab[v]
    OBVIOUS
  <2>2. t[i] \in TabEntries(Locks)
    BY <1>2, <1>3, <2>1
  <2> QED
    BY <1>3, <2>1, <2>2 DEF TabEntries
<1>5. Len(locks.tab[v]) = Num(s[v])
  BY <1>1 DEF Has
<1>6. \E j \in 1..Num(s[v]) : locks.tab[v][j].lock = l
  BY <1>3, <1>5
<1>7. Held(groups, s[v])[l] > 0
  BY <1>1, <1>4, <1>6 DEF Has
<1> QED
  BY <1>4, <1>7 DEF Held

\* The locks of a worker outside an insert.
LEMMA ProfileHolds ==
  ASSUME NEW G, NEW r, NEW l, Count(G, r, l) > 0, r.pc \notin GroupPcs
  PROVE  \/ OriginLocks(r) # 0 /\ l = Col(G, r, r.c)
         \/ UndoLocked(r) /\ l = r.undo
         \/ r.pc = "extend" /\ l = ExtLock
<1>1. GroupLocks(r) = 0
  BY DEF GroupLocks, GroupPcs
<1>2. ~ \E k \in 1..GroupLocks(r) : r.plist[k] = l
  BY <1>1
<1> QED
  BY <1>2 DEF Count, Bit

\* A lock that a worker waits for is above every lock it holds.
LEMMA WantsMore ==
  ASSUME Inv, pageCnt <= MaxPages, NEW v \in Workers, Wanted(v) # << >>, NEW l, Holds(v, l)
  PROVE  Level(l) < Level(Wanted(v)[1])
<1> DEFINE r == s[v]
<1>1. l \in Locks /\ Count(groups, r, l) > 0
  BY HoldsIs
<1>2. CASE r.pc = "lockgroup"
  <2>1. /\ r.c \in 1..NumCols /\ r.g \in 1..Len(groups) /\ Cols = 1..NumCols /\ NumCols \in Nat
        /\ \A k \in 1..NumCols : r.plist[k] = groups[r.g][k]
    BY <1>2, InsertAt DEF GroupPcs, Cols
  <2>2. Count(groups, r, l) = Held(groups, r)[l] /\ Held(groups, r) = Firsts(r.plist, r.c - 1)
    BY <1>1, <1>2, HeldGroup DEF Held, GroupPcs, GroupLocks
  <2>3. PICK k \in 1..(r.c - 1) : r.plist[k] = l
    BY <1>1, <2>2 DEF Firsts, Bit
  <2>4. Wanted(v)[1] = groups[r.g][r.c] /\ l = groups[r.g][k] /\ k \in Cols /\ r.c \in Cols /\ k < r.c
    BY <1>2, <2>1, <2>3 DEF Wanted
  <2> QED
    BY <2>1, <2>4, LevelIs
<1>3. CASE \/ r.pc \in {"member", "column", "walk", "first", "origin", "delete"}
           \/ (r.pc = "startext" /\ r.op = "insert")
  <2>1. Free(r)
    BY <1>3 DEF Free, FreePcs
  <2>2. r.pc \notin GroupPcs /\ OriginLocks(r) = 0 /\ ~UndoLocked(r) /\ r.pc # "extend"
    BY <2>1, FreeIs
  <2> QED
    BY <1>1, <2>2, ProfileHolds
<1>4. CASE r.pc \in {"chain", "undo", "newrow"} \/ (r.pc = "startext" /\ r.op # "insert")
  <2>0. r \in Locals /\ Shape(pages, groups, r) /\ UseOK(pages, r)
    BY Known DEF Inv, Storage
  <2>1. r.op = "update" /\ r.pc \notin GroupPcs /\ r.pc # "extend" /\ Updating(r)
    BY <1>4, <2>0 DEF Shape, Statement, UpdatePcs, ExtPcs, GroupPcs, Updating
  <2>2. /\ Col(groups, r, r.c) = Origin(v) /\ Origin(v) = groups[r.g][r.cols[r.c]]
        /\ r.cols[r.c] \in Cols /\ r.g \in 1..Len(groups)
        /\ HasUndo(r) => r.undo \in PageNos /\ pages[r.undo].type = "undo"
    BY <1>4, <2>1, OriginData DEF UpdatePcs, ExtPcs, Origin
  <2>3. Level(Origin(v)) \in 1..NumCols
    BY <2>2, LevelIs
  <2>4. UndoLocked(r) => Level(r.undo) = NumCols + 1
    <3>1. UndoLocked(r) => HasUndo(r)
      BY <2>1 DEF UndoLocked, HasUndo, Second
    <3> QED
      BY <2>2, <3>1, LevelIs
  <2>5. Level(l) \in 1..NumCols \/ (UndoLocked(r) /\ Level(l) = NumCols + 1)
    BY <1>1, <2>1, <2>2, <2>3, <2>4, ProfileHolds
  <2>6. CASE r.pc = "startext"
    <3>1. Wanted(v)[1] = ExtLock
      BY <2>6 DEF Wanted
    <3> QED
      BY <2>5, <3>1, LevelIs
  <2>7. CASE r.pc = "undo"
    <3>1. Wanted(v)[1] = r.undo /\ ~UndoLocked(r) /\ HasUndo(r)
      BY <2>1, <2>7 DEF Wanted, UndoLocked, HasUndo, Second, ExtPcs
    <3>2. Level(r.undo) = NumCols + 1
      BY <2>2, <3>1, LevelIs
    <3> QED
      BY <2>5, <3>1, <3>2, LevelIs
  <2>8. CASE r.pc = "newrow"
    <3>1. Wanted(v)[1] = r.new /\ r.new \in PageNos /\ pages[r.new].type = "ext"
      BY <2>0, <2>8 DEF Wanted, Shape, Scanned, UseOK
    <3> QED
      BY <2>5, <3>1, LevelIs
  <2>9. CASE r.pc = "chain"
    <3>1. PICK p : p = ChainHead(pages[Origin(v)], r.kind)
      OBVIOUS
    <3>2. Wanted(v)[1] = p
      BY <2>9, <3>1 DEF Wanted
    <3>3. p # INVALID_PAGE_NUM
      BY <2>0, <2>2, <2>9, <3>1 DEF Shape, Scanned
    <3>4. pages[Origin(v)] \in Pages /\ r.kind \in {"undo", "ext"}
      <4>1. pages \in Files /\ Origin(v) \in PageNos
        BY <1>4, <2>1, OriginData, Known DEF Inv, UpdatePcs, ExtPcs
      <4> QED
        BY <2>0, <4>1, LocalFields DEF Files
    <3>5. p \in PageNos
      BY <3>1, <3>3, <3>4 DEF ChainHead, Pages, PageOrNone
    <3>6. pages[p].type = r.kind
      BY <2>9, <3>1, <3>5, HeadIs
    <3>7. CASE r.kind = "undo"
      <4>1. ~UndoLocked(r)
        BY <2>9, <3>7 DEF UndoLocked, Second
      <4> QED
        BY <2>5, <3>2, <3>5, <3>6, <3>7, <4>1, LevelIs
    <3>8. CASE r.kind = "ext"
      BY <2>5, <3>2, <3>5, <3>6, <3>8, LevelIs
    <3> QED
      BY <3>4, <3>7, <3>8
  <2> QED
    BY <1>4, <2>6, <2>7, <2>8, <2>9
<1>5. r.pc \in {"member", "column", "walk", "lockgroup", "startext", "first", "origin",
               "delete", "chain", "undo", "newrow"}
  BY DEF Wanted
<1> QED
  BY <1>2, <1>3, <1>4, <1>5

-----------------------------------------------------------------------------
(* Paths of waits *)

\* f[n][w] are the workers that n waits lead to from w.
Walking(f) ==
  f = [n \in 0..Cardinality(Workers) |->
         [w \in Workers |-> IF n = 0 THEN {w} ELSE UNION {f[n - 1][v] : v \in WaitsFor(w)}]]

\* Workers wait for workers.
LEMMA WaitsAre ==
  ASSUME NEW w \in Workers
  PROVE  WaitsFor(w) \in SUBSET Workers
BY DEF WaitsFor

\* The paths of NoCircularWait exist.
LEMMA WalkingIs ==
  \E f : Walking(f)
<1> DEFINE S == [Workers -> SUBSET Workers]
           m == Cardinality(Workers)
           a == [w \in Workers |-> {w}]
           step == [k \in 1..m |-> [x \in S |-> [w \in Workers |-> UNION {x[v] : v \in WaitsFor(w)}]]]
<1>1. m \in Nat
  BY ModifyAssumption, FS_CardinalityType
<1>2. a \in S
  OBVIOUS
<1>3. ASSUME NEW x \in S PROVE [w \in Workers |-> UNION {x[v] : v \in WaitsFor(w)}] \in S
  <2>1. ASSUME NEW w \in Workers PROVE UNION {x[v] : v \in WaitsFor(w)} \in SUBSET Workers
    BY WaitsAre
  <2> QED
    BY <2>1
<1> HIDE DEF S, m, a
<1>4. step \in [1..m -> [S -> S]]
  BY <1>3
<1>5. \A k \in 1..m, x \in S : step[k][x] = [w \in Workers |-> UNION {x[v] : v \in WaitsFor(w)}]
  OBVIOUS
<1> HIDE DEF step
<1>6. PICK f \in [0..m -> S] : f[0] = a /\ \A k \in 1..m : f[k] = step[k][f[k - 1]]
  <2>1. HasIteration(m, S, a, step)
    BY <1>1, <1>2, <1>4, Iteration
  <2> QED
    BY <2>1 DEF HasIteration, Iterates
<1>7. \A k \in 1..m : k - 1 \in 0..m /\ f[k - 1] \in S
  BY <1>1, <1>6
<1>8. \A k \in 1..m : f[k] = [w \in Workers |-> UNION {f[k - 1][v] : v \in WaitsFor(w)}]
  BY <1>5, <1>6, <1>7
<1> DEFINE F(n) == [w \in Workers |-> IF n = 0 THEN {w} ELSE UNION {f[n - 1][v] : v \in WaitsFor(w)}]
<1>9. ASSUME NEW n \in 0..m PROVE f[n] = F(n)
  <2>1. CASE n = 0
    BY <1>6, <2>1 DEF a
  <2>2. CASE n # 0
    <3>1. n \in 1..m
      BY <1>1, <2>2
    <3>2. f[n] = [w \in Workers |-> UNION {f[n - 1][v] : v \in WaitsFor(w)}]
      BY <1>8, <3>1
    <3> QED
      BY <2>2, <3>2
  <2> QED
    BY <2>1, <2>2
<1> HIDE DEF F
<1>10. f = [n \in 0..m |-> F(n)]
  BY <1>6, <1>9
<1> QED
  BY <1>10 DEF Walking, F, m

\* Every wait of a path is for a lock of a higher level.
LEMMA WaitsRise ==
  ASSUME Inv, pageCnt <= MaxPages, NEW w \in Workers, NEW v \in WaitsFor(w)
  PROVE  /\ v \in Workers /\ Wanted(w) # << >>
         /\ Wanted(v) # << >> => Level(Wanted(w)[1]) < Level(Wanted(v)[1])
<1>1. v \in Workers /\ Wanted(w) # << >> /\ Holds(v, Wanted(w)[1])
  BY DEF WaitsFor
<1> QED
  BY <1>1, WantsMore

\* A path of n waits climbs n levels, so it never returns to where it began.
LEMMA InvWaits ==
  ASSUME Inv, pageCnt <= MaxPages
  PROVE  NoCircularWait
<1> DEFINE R == CHOOSE x : Walking(x)
           m == Cardinality(Workers)
<1>1. Walking(R)
  BY WalkingIs, Zenon
<1>2. NoCircularWait = \A n \in 1..m, w \in Workers : w \notin R[n][w]
  BY Zenon DEF NoCircularWait, Walking
<1> HIDE DEF R
<1>3. m \in Nat
  BY ModifyAssumption, FS_CardinalityType
<1>4. \A n \in 0..m : R[n] = [w \in Workers |-> IF n = 0 THEN {w} ELSE UNION {R[n - 1][v] : v \in WaitsFor(w)}]
  BY <1>1 DEF Walking
<1> HIDE DEF m
<1> DEFINE Leads(n, w, v) == /\ v \in Workers /\ (n = 0 => v = w)
                             /\ n > 0 => /\ Wanted(w) # << >>
                                         /\ Wanted(v) # << >> => Level(Wanted(w)[1]) < Level(Wanted(v)[1])
           T == {n \in 0..m : \A w \in Workers : \A v \in R[n][w] : Leads(n, w, v)}
<1>5. 0 \in T
  <2>1. 0 \in 0..m
    BY <1>3
  <2>2. \A w \in Workers : R[0][w] = {w}
    BY <1>4, <2>1
  <2>3. \A w \in Workers : \A v \in R[0][w] : Leads(0, w, v)
    BY <2>2
  <2> QED
    BY <2>1, <2>3
<1>6. ASSUME NEW n \in 1..m, n - 1 \in T PROVE n \in T
  <2>1. SUFFICES ASSUME NEW w \in Workers, NEW v \in R[n][w] PROVE Leads(n, w, v)
    BY <1>3
  <2>2. n \in 0..m /\ n # 0 /\ n - 1 \in 0..m
    BY <1>3
  <2>3. PICK u \in WaitsFor(w) : v \in R[n - 1][u]
    <3>1. R[n][w] = UNION {R[n - 1][u] : u \in WaitsFor(w)}
      BY <1>4, <2>2
    <3> QED
      BY <3>1
  <2>4. /\ u \in Workers /\ Wanted(w) # << >>
        /\ Wanted(u) # << >> => Level(Wanted(w)[1]) < Level(Wanted(u)[1])
    BY WaitsRise
  <2>5. Leads(n - 1, u, v)
    BY <1>6, <2>3, <2>4
  <2>6. \A l : Level(l) \in Nat
    BY LevelIs
  <2>7. CASE n - 1 = 0
    BY <2>2, <2>4, <2>5, <2>7
  <2>8. CASE n - 1 > 0
    BY <2>2, <2>4, <2>5, <2>6, <2>8
  <2> QED
    BY <2>2, <2>7, <2>8
<1>7. \A n \in 0..m : n \in T
  <2> HIDE DEF T
  <2> QED
    BY <1>3, <1>5, <1>6, IntervalInduction
<1>8. ASSUME NEW n \in 1..m, NEW w \in Workers, w \in R[n][w] PROVE FALSE
  <2>1. n \in 0..m /\ n > 0
    BY <1>3
  <2>2. Leads(n, w, w)
    BY <1>7, <1>8, <2>1
  <2>3. Level(Wanted(w)[1]) \in Nat
    BY LevelIs
  <2> QED
    BY <2>1, <2>2, <2>3
<1> QED
  BY <1>2, <1>8 DEF m

\* GetSpaceSpecifyPage, LockGroupPages and pax_ExecUpdate never let workers wait for each other in
\* a circle: a worker that waits holds only locks of a lower Level than the one it waits for.  As
\* long as the disk has room: the lock that a failed extension leaves behind is never given back.
THEOREM ModifyWaits ==
  ASSUME LocksFit
  PROVE  Spec => [](pageCnt <= MaxPages => NoCircularWait)
<1>1. Inv => (pageCnt <= MaxPages => NoCircularWait)
  BY InvWaits
<1> QED
  BY <1>1, InvHolds, PTL

-----------------------------------------------------------------------------
(* The chains of versions *)

\* A transaction that has ended.
Fin(N0, R, x) == x \in 1..(N0 - 1) /\ x \notin R

\* The version at a position of an undo page.
Ver(P, u)    == P[u.page].items[u.item].ver
InUndo(P, u) == InPage(P, u) /\ P[u.page].type = "undo"

\* The version before v.
Chain(P, v) ==
  v.undo # NoPosition =>
    /\ InUndo(P, v.undo) /\ Ver(P, v.undo).row = v.row
    /\ Ver(P, v.undo).tmin < v.tmin /\ Ver(P, v.undo).tmax = v.tmin

\* What an undo page has is the work of transactions that have ended.
VersionOK(P, N0, R, type, v) ==
  /\ Chain(P, v) /\ v.tmin \in 1..(N0 - 1)
  /\ type = "undo" => v.tmin \notin R
VersionsOK(P, N0, R) ==
  \A p \in PageNos : \A i \in 1..Len(P[p].items) : VersionOK(P, N0, R, P[p].type, P[p].items[i].ver)

\* The snapshot: transactions that were running when the statement began.
Snap(N0, R, r) ==
  r.pc # "idle" => r.xid \in R /\ \A x \in R : x < r.xid => x \in r.active

\* The versions that were scanned are those of the row, and of transactions that have ended.
HasOld(r) == Changing(r) \/ r.pc \in {"walk", "found"} \/ (r.pc = "column" /\ ~r.skip)
RowName(P, G, r, k) == P[Col(G, r, k)].items[r.i].ver.row
OldAt(P, G, N0, R, r, k) ==
  /\ Chain(P, r.old[k]) /\ r.old[k].row = RowName(P, G, r, k)
  /\ Fin(N0, R, r.old[k].tmin) /\ r.old[k].tmin < r.xid
OldOK(P, G, N0, R, r) ==
  /\ HasOld(r) => \A k \in 1..Len(r.old) : OldAt(P, G, N0, R, r, k)
  /\ r.pc = "walk" => P[r.pos.page].type = "undo" /\ Ver(P, r.pos).row = RowName(P, G, r, r.c)
  /\ HasCopy(r) => /\ P[r.upos.page].type = "undo" /\ Ver(P, r.upos).row = r.old[r.c].row
                   /\ Ver(P, r.upos).tmin = r.old[r.c].tmin /\ Ver(P, r.upos).tmax = r.xid

\* What a statement has written lies behind its scan.
Passed(r, g, i) ==
  \/ g < r.g
  \/ g = r.g /\ (r.pc = "scan" \/ i < r.i \/ (i = r.i /\ Changing(r)))
Scanning(r) == Reading(r) \/ Changing(r) \/ r.pc = "scan"
Behind(P, G, r) ==
  Scanning(r) =>
    \A g \in 1..Len(G), c \in Cols : \A i \in 1..Len(P[G[g][c]].items) :
      P[G[g][c]].items[i].ver.tmin = r.xid => Passed(r, g, i)

Rec(P, G, N0, R, r) == Snap(N0, R, r) /\ OldOK(P, G, N0, R, r) /\ Behind(P, G, r)

Distinct ==
  \A v, w \in Workers : s[v].pc # "idle" /\ s[w].pc # "idle" /\ s[v].xid = s[w].xid => v = w

Chained3 ==
  /\ VersionsOK(pages, nextXid, running) /\ Distinct
  /\ \A w \in Workers : Rec(pages, groups, nextXid, running, s[w])

-----------------------------------------------------------------------------
(* What every step leaves *)

\* Rows keep their places, undo pages what they have.
Keeps(P, Q) ==
  \A p \in PageNos : \A i \in 1..Len(P[p].items) :
    /\ i <= Len(Q[p].items) /\ Q[p].items[i].ver.row = P[p].items[i].ver.row
    /\ P[p].type = "undo" => Q[p].type = "undo" /\ Q[p].items[i].ver = P[p].items[i].ver

\* A version in an undo page stays where it is and is never changed.
LEMMA VersKept ==
  ASSUME NEW P \in Files, NEW Q \in Files, Keeps(P, Q), NEW u, InUndo(P, u)
  PROVE  InUndo(Q, u) /\ Ver(Q, u) = Ver(P, u)
<1>1. u.page \in PageNos /\ u.item \in 1..Len(P[u.page].items) /\ P[u.page].type = "undo"
  BY DEF InUndo, InPage
<1>2. Len(Q[u.page].items) \in Nat
  BY <1>1, PageFields DEF Files
<1>3. /\ u.item <= Len(Q[u.page].items) /\ Q[u.page].type = "undo"
      /\ Q[u.page].items[u.item].ver = P[u.page].items[u.item].ver
  BY <1>1 DEF Keeps
<1> QED
  BY <1>1, <1>2, <1>3 DEF InUndo, InPage, Ver

\* A chain in undo pages stays a chain.
LEMMA ChainKept ==
  ASSUME NEW P \in Files, NEW Q \in Files, Keeps(P, Q), NEW v, Chain(P, v)
  PROVE  Chain(Q, v)
BY VersKept DEF Chain

\* The columns of a row that a worker has copies of.
LEMMA OldCols ==
  ASSUME NEW P \in Files, NEW G \in Groups, NEW r \in Locals, Shape(P, G, r), HasOld(r), NEW k \in 1..Len(r.old)
  PROVE  /\ k \in 1..Len(r.cols) /\ Col(G, r, k) \in PageNos /\ r.g \in 1..Len(G)
         /\ r.i \in 1..Len(P[Col(G, r, k)].items) /\ (Reading(r) \/ Changing(r))
<1>0. r.pc # "idle"
  BY DEF HasOld, Changing, Updating, UpdatePcs, ExtPcs, DeletePcs
<1>1. r.c \in 1..Len(r.cols) /\ Len(r.cols) \in Nat
  BY <1>0, InStatement DEF Shape
<1>2. Reading(r) \/ Changing(r)
  BY DEF HasOld, Reading
<1>3. r.g \in 1..Len(G) /\ r.i > 0 /\ r.i \in Nat
  BY <1>2, LocalFields DEF Shape, RowAt
<1>4. CASE r.pc = "found" \/ Changing(r)
  <2>1. k \in 1..Len(r.cols)
    BY <1>4 DEF Shape, Scanned
  <2>2. r.i <= Len(P[Col(G, r, k)].items)
    BY <1>2, <1>4, <2>1 DEF Shape, RowAt
  <2>3. Col(G, r, k) \in PageNos
    BY <1>3, <2>1, ColIs
  <2>4. Len(P[Col(G, r, k)].items) \in Nat
    BY <2>3, PageFields DEF Files
  <2> QED
    BY <1>2, <1>3, <2>1, <2>2, <2>3, <2>4
<1>5. CASE ~(r.pc = "found" \/ Changing(r))
  <2>0. Len(r.old) = r.c - 1
    BY <1>5 DEF HasOld, Shape, Scanned
  <2>1. k \in 1..Len(r.cols) /\ k < r.c
    BY <1>1, <2>0
  <2>2. r.i <= Len(P[Col(G, r, k)].items)
    BY <1>2, <2>1 DEF Shape, RowAt
  <2>3. Col(G, r, k) \in PageNos
    BY <1>3, <2>1, ColIs
  <2>4. Len(P[Col(G, r, k)].items) \in Nat
    BY <2>3, PageFields DEF Files
  <2> QED
    BY <1>2, <1>3, <2>1, <2>2, <2>3, <2>4
<1> QED
  BY <1>4, <1>5

\* Transactions begin and end.
Later(N0, R, M, S) == N0 \in Nat /\ M \in Nat /\ N0 <= M /\ S \in SUBSET (R \cup {N0})

\* A transaction that has ended has ended for good.
LEMMA FinKept ==
  ASSUME NEW N0, NEW R, NEW M, NEW S, Later(N0, R, M, S), NEW x, Fin(N0, R, x)
  PROVE  Fin(M, S, x)
BY DEF Later, Fin

LEMMA NameKept ==
  ASSUME NEW P \in Files, NEW Q \in Files, Keeps(P, Q), NEW G \in Groups, NEW H1 \in Groups, Extends(G, H1),
         NEW r \in Locals, r.g \in 1..Len(G), NEW k \in 1..Len(r.cols), r.i \in 1..Len(P[Col(G, r, k)].items)
  PROVE  RowName(Q, H1, r, k) = RowName(P, G, r, k)
<1>1. Col(H1, r, k) = Col(G, r, k)
  BY DEF Col, Extends
<1>2. Col(G, r, k) \in PageNos
  BY ColIs
<1> QED
  BY <1>1, <1>2 DEF RowName, Keeps

\* The copies that a worker has are still those of its row after a step.
LEMMA OldKept ==
  ASSUME NEW P \in Files, NEW Q \in Files, Keeps(P, Q), NEW G \in Groups, NEW H1 \in Groups, Extends(G, H1),
         NEW N0, NEW R, NEW M, NEW S, Later(N0, R, M, S),
         NEW r \in Locals, Shape(P, G, r), OldOK(P, G, N0, R, r)
  PROVE  OldOK(Q, H1, M, S, r)
<1>1. ASSUME HasOld(r), NEW k \in 1..Len(r.old) PROVE OldAt(Q, H1, M, S, r, k)
  <2>1. /\ k \in 1..Len(r.cols) /\ r.g \in 1..Len(G)
        /\ r.i \in 1..Len(P[Col(G, r, k)].items)
    BY <1>1, OldCols
  <2>2. RowName(Q, H1, r, k) = RowName(P, G, r, k)
    BY <2>1, NameKept
  <2>3. OldAt(P, G, N0, R, r, k)
    BY <1>1 DEF OldOK
  <2> QED
    BY <2>2, <2>3, ChainKept, FinKept DEF OldAt
<1>2. ASSUME r.pc = "walk" PROVE Q[r.pos.page].type = "undo" /\ Ver(Q, r.pos).row = RowName(Q, H1, r, r.c)
  <2>1. InUndo(P, r.pos) /\ Ver(P, r.pos).row = RowName(P, G, r, r.c)
    BY <1>2 DEF OldOK, InUndo, Shape, Scanned
  <2>2. InUndo(Q, r.pos) /\ Ver(Q, r.pos) = Ver(P, r.pos)
    BY <2>1, VersKept
  <2>3. AtColumn(P, G, r)
    <3>1. r.c \in 1..Len(r.cols)
      BY <1>2, InStatement DEF Shape
    <3> QED
      BY <1>2, <3>1 DEF Shape, RowAt, Reading, AtColumn
  <2>4. /\ r.g \in 1..Len(G) /\ r.i > 0 /\ r.c \in 1..Len(r.cols) /\ r.i \in Nat
        /\ r.i <= Len(P[Col(G, r, r.c)].items)
    BY <2>3, AtColumnIs, LocalFields DEF AtColumn
  <2>5. Len(P[Col(G, r, r.c)].items) \in Nat
    BY <2>4, ColIs, PageFields DEF Files
  <2>6. RowName(Q, H1, r, r.c) = RowName(P, G, r, r.c)
    BY <2>4, <2>5, NameKept
  <2> QED
    BY <2>1, <2>2, <2>6 DEF InUndo
<1>3. ASSUME HasCopy(r)
      PROVE  /\ Q[r.upos.page].type = "undo" /\ Ver(Q, r.upos).row = r.old[r.c].row
             /\ Ver(Q, r.upos).tmin = r.old[r.c].tmin /\ Ver(Q, r.upos).tmax = r.xid
  <2>1. InUndo(P, r.upos)
    BY <1>3 DEF OldOK, InUndo, Shape, Scanned
  <2>2. InUndo(Q, r.upos) /\ Ver(Q, r.upos) = Ver(P, r.upos)
    BY <2>1, VersKept
  <2> QED
    BY <1>3, <2>2 DEF OldOK, InUndo
<1> QED
  BY <1>1, <1>2, <1>3 DEF OldOK

\* Every version of the new file was there before or is sound.
NewOK(P, Q, x, N0, R) ==
  \A p \in PageNos : \A i \in 1..Len(Q[p].items) :
    \/ /\ i <= Len(P[p].items) /\ Q[p].items[i].ver = P[p].items[i].ver
       /\ Q[p].type = "undo" => P[p].type = "undo"
    \/ /\ VersionOK(Q, N0, R, Q[p].type, Q[p].items[i].ver)
       /\ Q[p].items[i].ver.tmin = x \/ Q[p].items[i].ver.tmin \notin R

\* The versions on the pages, when those that are new may be there.
LEMMA VersionsKept ==
  ASSUME NEW P \in Files, NEW Q \in Files, Keeps(P, Q), NEW N0, NEW R, NEW M, NEW S, Later(N0, R, M, S),
         VersionsOK(P, N0, R), NEW x, NewOK(P, Q, x, M, S)
  PROVE  VersionsOK(Q, M, S)
<1> SUFFICES ASSUME NEW p \in PageNos, NEW i \in 1..Len(Q[p].items)
             PROVE  VersionOK(Q, M, S, Q[p].type, Q[p].items[i].ver)
  BY DEF VersionsOK
<1>1. CASE /\ i <= Len(P[p].items) /\ Q[p].items[i].ver = P[p].items[i].ver
           /\ Q[p].type = "undo" => P[p].type = "undo"
  <2>1. Len(P[p].items) \in Nat
    BY PageFields DEF Files
  <2>2. i \in 1..Len(P[p].items)
    BY <1>1, <2>1
  <2>3. VersionOK(P, N0, R, P[p].type, P[p].items[i].ver)
    BY <2>2 DEF VersionsOK
  <2>4. PICK v : v = P[p].items[i].ver
    OBVIOUS
  <2>5. Chain(Q, v)
    BY <2>3, <2>4, ChainKept DEF VersionOK
  <2>6. v.tmin \in 1..(M - 1) /\ (Q[p].type = "undo" => v.tmin \notin S)
    BY <1>1, <2>3, <2>4 DEF VersionOK, Later
  <2> QED
    BY <1>1, <2>4, <2>5, <2>6 DEF VersionOK
<1>2. CASE VersionOK(Q, M, S, Q[p].type, Q[p].items[i].ver)
  BY <1>2
<1> QED
  BY <1>1, <1>2 DEF NewOK

\* The groups that a step adds are empty.
EmptyFrom(Q, H1, n) == \A g \in 1..Len(H1), c \in Cols : g > n => Q[H1[g][c]].items = << >>

\* What others write does not carry the identifier of the worker.
LEMMA BehindKept ==
  ASSUME NEW P \in Files, NEW Q \in Files, NEW G \in Groups, NEW H1 \in Groups, Extends(G, H1),
         EmptyFrom(Q, H1, Len(G)), NEW x, NEW N0, NEW R, NewOK(P, Q, x, N0, R),
         NEW r \in Locals, r.xid # x, r.xid \in R, Behind(P, G, r)
  PROVE  Behind(Q, H1, r)
<1> SUFFICES ASSUME Scanning(r), NEW g \in 1..Len(H1), NEW c \in Cols, NEW i \in 1..Len(Q[H1[g][c]].items),
                    Q[H1[g][c]].items[i].ver.tmin = r.xid
             PROVE  Passed(r, g, i)
  BY DEF Behind
<1>1. g \in 1..Len(G)
  <2>1. Len(G) \in Nat /\ Len(H1) \in Nat
    BY DEF Groups
  <2> QED
    BY <2>1 DEF EmptyFrom
<1>2. PICK p \in PageNos : p = G[g][c] /\ p = H1[g][c]
  BY <1>1 DEF Extends, Groups
<1>3. i <= Len(P[p].items) /\ Q[p].items[i].ver = P[p].items[i].ver
  BY <1>2 DEF NewOK
<1>4. Len(P[p].items) \in Nat
  BY PageFields DEF Files
<1>5. i \in 1..Len(P[p].items) /\ P[p].items[i].ver.tmin = r.xid
  BY <1>2, <1>3, <1>4
<1> QED
  BY <1>1, <1>2, <1>5 DEF Behind


\* The worker itself: what it wrote in a data page is at its row.
WroteAt(P, Q, o, n) ==
  \A p \in PageNos : \A i \in 1..Len(Q[p].items) :
    \/ i <= Len(P[p].items) /\ Q[p].items[i].ver = P[p].items[i].ver
    \/ p = o /\ i = n
    \/ Q[p].type # "data"

\* What a worker writes is at its place in the scan.
LEMMA BehindOwn ==
  ASSUME NEW P \in Files, NEW Q \in Files, NEW G \in Groups, NEW n, GroupsOK(Q, G, n),
         NEW r \in Locals, Changing(r), r.g \in 1..Len(G), NEW k \in 1..Len(r.cols), WroteAt(P, Q, Col(G, r, k), r.i),
         Behind(P, G, r)
  PROVE  Behind(Q, G, r)
<1> SUFFICES ASSUME NEW g \in 1..Len(G), NEW c \in Cols, NEW i \in 1..Len(Q[G[g][c]].items),
                    Q[G[g][c]].items[i].ver.tmin = r.xid
             PROVE  Passed(r, g, i)
  BY DEF Behind
<1>1. PICK p \in PageNos : p = G[g][c] /\ Q[p].type = "data"
  BY DEF Groups, GroupsOK
<1>2. CASE i <= Len(P[p].items) /\ Q[p].items[i].ver = P[p].items[i].ver
  <2>1. Len(P[p].items) \in Nat
    BY PageFields DEF Files
  <2>2. i \in 1..Len(P[p].items) /\ P[p].items[i].ver.tmin = r.xid
    BY <1>1, <1>2, <2>1
  <2> QED
    BY <1>1, <2>2 DEF Behind, Scanning
<1>3. CASE p = Col(G, r, k) /\ i = r.i
  <2>1. r.cols[k] \in Cols
    BY LocalFields
  <2>2. G[g][c] = G[r.g][r.cols[k]]
    BY <1>1, <1>3 DEF Col
  <2>3. g = r.g
    BY <2>1, <2>2 DEF GroupsOK
  <2> QED
    BY <1>3, <2>3 DEF Passed
<1> QED
  BY <1>1, <1>2, <1>3 DEF WroteAt

-----------------------------------------------------------------------------
(* What a worker has seen, in the same file *)

LEMMA NoScan ==
  ASSUME NEW P, NEW G, NEW N0, NEW R, NEW q,
         q.pc \in InsertPcs \cup {"idle", "end"} \/ (q.pc \in ExtPcs /\ q.op # "update")
  PROVE  OldOK(P, G, N0, R, q) /\ Behind(P, G, q)
BY DEF OldOK, Behind, HasOld, HasCopy, Scanning, Reading, Changing, Updating,
       InsertPcs, UpdatePcs, ExtPcs, DeletePcs

\* The same place in the statement.
SamePlace(r, q) ==
  q.xid = r.xid /\ q.active = r.active /\ q.cols = r.cols /\ q.g = r.g /\ q.i = r.i /\ q.old = r.old

LEMMA SnapSame ==
  ASSUME NEW N0, NEW R, NEW r, NEW q, Snap(N0, R, r), r.pc # "idle", q.xid = r.xid, q.active = r.active
  PROVE  Snap(N0, R, q)
BY DEF Snap

\* A step on the way through an update or a delete.
LEMMA ChangeRec ==
  ASSUME NEW P, NEW G, NEW N0, NEW R, NEW r, NEW q, Rec(P, G, N0, R, r), r.pc # "idle", Changing(r), Changing(q),
         SamePlace(r, q), HasCopy(q) => HasCopy(r) /\ q.c = r.c /\ q.upos = r.upos
  PROVE  Rec(P, G, N0, R, q)
<1>1. Snap(N0, R, q)
  BY SnapSame DEF Rec, SamePlace
<1>2. HasOld(r)
  BY DEF HasOld
<1>3. \A k : Col(G, q, k) = Col(G, r, k) /\ RowName(P, G, q, k) = RowName(P, G, r, k)
  BY DEF Col, RowName, SamePlace
<1>4. ASSUME NEW k \in 1..Len(q.old) PROVE OldAt(P, G, N0, R, q, k)
  <2>1. OldAt(P, G, N0, R, r, k)
    BY <1>2 DEF Rec, OldOK, SamePlace
  <2> QED
    BY <1>3, <2>1 DEF OldAt, SamePlace
<1>5. q.pc # "walk" /\ q.pc # "scan" /\ r.pc # "scan"
  BY DEF Changing, Updating, UpdatePcs, ExtPcs, DeletePcs
<1>6. OldOK(P, G, N0, R, q)
  BY <1>4, <1>5 DEF OldOK, Rec, SamePlace
<1>7. \A g, i : Passed(r, g, i) => Passed(q, g, i)
  BY <1>5 DEF Passed, SamePlace
<1>8. Behind(P, G, q)
  BY <1>7 DEF Behind, Rec, Scanning, SamePlace
<1> QED
  BY <1>1, <1>6, <1>8 DEF Rec

\* The scan at another row, with no copies yet.
LEMMA FreshRowRec ==
  ASSUME NEW P, NEW G, NEW N0, NEW R, NEW r \in Locals, NEW q \in Locals,
         Rec(P, G, N0, R, r), Scanning(r), r.pc # "idle",
         q.xid = r.xid, q.active = r.active, q.pc = "column", q.old = << >>,
         \/ r.pc # "scan" /\ q.g = r.g /\ q.i = r.i + 1
         \/ q.g = r.g + 1
  PROVE  Rec(P, G, N0, R, q)
<1>1. Snap(N0, R, q)
  BY SnapSame DEF Rec
<1>2. OldOK(P, G, N0, R, q)
  BY DEF OldOK, HasCopy, Updating, UpdatePcs, ExtPcs
<1>3. r.g \in Nat /\ r.i \in Nat
  BY LocalFields
<1>4. \A g \in Nat, i \in Nat : Passed(r, g, i) => Passed(q, g, i)
  BY <1>3 DEF Passed
<1>5. ASSUME NEW g \in 1..Len(G), NEW c \in Cols, NEW i \in 1..Len(P[G[g][c]].items),
             P[G[g][c]].items[i].ver.tmin = q.xid
      PROVE  Passed(q, g, i)
  <2>1. Passed(r, g, i)
    BY <1>5 DEF Rec, Behind
  <2> QED
    BY <1>4, <2>1
<1>6. Behind(P, G, q)
  BY <1>5 DEF Behind
<1> QED
  BY <1>1, <1>2, <1>6 DEF Rec

LEMMA RowNextFields ==
  ASSUME NEW r \in Locals
  PROVE  /\ RowNext(r).xid = r.xid /\ RowNext(r).active = r.active
         /\ GroupNext(r).xid = r.xid /\ GroupNext(r).active = r.active /\ GroupNext(r).pc = "column"
         /\ GroupNext(r).old = << >> /\ GroupNext(r).g = r.g + 1
<1>1. RowNext(r).xid = r.xid /\ RowNext(r).active = r.active
  BY DEF RowNext, Locals
<1>2. PICK q : q = RowNext(r)
  OBVIOUS
<1>3. q \in Locals /\ q.pc = "column" /\ q.old = << >> /\ q.g = r.g
  BY <1>2, RowNextIs
<1>4. PICK x : x = [q EXCEPT !.g = @ + 1, !.i = 1]
  OBVIOUS
<1>5. x.xid = q.xid /\ x.active = q.active /\ x.pc = q.pc /\ x.old = q.old /\ x.g = q.g + 1
  BY <1>3, <1>4 DEF Locals
<1>6. GroupNext(r) = x
  BY <1>2, <1>4 DEF GroupNext
<1> QED
  BY <1>1, <1>2, <1>3, <1>5, <1>6

LEMMA RowNextRec ==
  ASSUME NEW P, NEW G, NEW N0, NEW R, NEW r \in Locals, Rec(P, G, N0, R, r), Reading(r) \/ Changing(r)
  PROVE  Rec(P, G, N0, R, RowNext(r))
<1>1. Scanning(r) /\ r.pc # "idle" /\ r.pc # "scan"
  BY DEF Scanning, Reading, Changing, Updating, UpdatePcs, ExtPcs, DeletePcs
<1> QED
  BY <1>1, RowNextIs, RowNextFields, FreshRowRec

\* On to the next column of the SET list, or to the next row.
LEMMA ColumnNextRec ==
  ASSUME NEW P, NEW G, NEW N0, NEW R, NEW r \in Locals, Rec(P, G, N0, R, r), r.pc # "idle", Changing(r),
         NEW pc, (pc = "first" /\ r.op = "update") \/ pc = "delete"
  PROVE  Rec(P, G, N0, R, ColumnNext(r, pc))
<1>1. CASE r.c < Len(r.cols)
  <2>1. PICK q : q = [r EXCEPT !.pc = pc, !.c = @ + 1]
    OBVIOUS
  <2>2. SamePlace(r, q) /\ q.pc = pc /\ q.op = r.op
    BY <2>1 DEF Locals, SamePlace
  <2>3. Changing(q) /\ ~HasCopy(q)
    BY <2>2 DEF Changing, Updating, UpdatePcs, DeletePcs, HasCopy, Second, ExtPcs
  <2>4. Rec(P, G, N0, R, q)
    BY <2>2, <2>3, ChangeRec
  <2> QED
    BY <1>1, <2>1, <2>4 DEF ColumnNext
<1>2. CASE ~(r.c < Len(r.cols))
  BY <1>2, RowNextRec DEF ColumnNext
<1> QED
  BY <1>1, <1>2

LEMMA NoneRec ==
  ASSUME NEW P, NEW G, NEW N0, NEW R, NEW r \in Locals, Rec(P, G, N0, R, r), r.pc \in {"column", "walk"}
  PROVE  Rec(P, G, N0, R, Done(r, << >>))
<1>0. Reading(r) /\ r.pc # "idle"
  BY DEF Reading
<1>1. CASE r.c < Len(r.cols)
  <2>1. PICK q : q = Done(r, << >>)
    OBVIOUS
  <2>2. q.pc = "column" /\ q.skip = TRUE /\ q.xid = r.xid /\ q.active = r.active /\ q.g = r.g /\ q.i = r.i
    BY <1>1, <2>1 DEF Done, Locals
  <2>3. Snap(N0, R, q)
    BY <1>0, <2>2, SnapSame DEF Rec
  <2>4. OldOK(P, G, N0, R, q)
    BY <2>2 DEF OldOK, HasOld, HasCopy, Changing, Updating, UpdatePcs, ExtPcs, DeletePcs
  <2>5. \A g, i : Passed(r, g, i) => Passed(q, g, i)
    BY <2>2 DEF Passed, Changing, Updating, UpdatePcs, ExtPcs, DeletePcs
  <2>6. Behind(P, G, q)
    BY <1>0, <2>2, <2>5 DEF Behind, Rec, Scanning
  <2> QED
    BY <2>1, <2>3, <2>4, <2>6 DEF Rec
<1>2. CASE ~(r.c < Len(r.cols))
  BY <1>0, <1>2, RowNextRec DEF Done
<1> QED
  BY <1>1, <1>2

\* The scan has found a visible version of a column.
LEMMA FoundRec ==
  ASSUME NEW P, NEW G, NEW N0, NEW R, NEW r \in Locals, Rec(P, G, N0, R, r), r.pc \in {"column", "walk"},
         HasOld(r), Len(r.old) = r.c - 1, r.c \in 1..Len(r.cols),
         NEW v \in Versions, Chain(P, v), v.row = RowName(P, G, r, r.c), Fin(N0, R, v.tmin), v.tmin < r.xid
  PROVE  Rec(P, G, N0, R, Done(r, <<v>>))
<1>0. Reading(r) /\ r.pc # "idle" /\ r.old \in Seq(Versions) /\ r.c \in Nat
  BY LocalFields DEF Reading
<1>1. PICK q : q = Done(r, <<v>>)
  OBVIOUS
<1>2. PICK old : old = r.old \o <<v>>
  OBVIOUS
<1>3. Len(old) = r.c /\ old[r.c] = v /\ \A k \in 1..Len(r.old) : old[k] = r.old[k]
  <2>1. PICK o \in Seq(Versions) : o = r.old
    BY <1>0
  <2>2. Len(o \o <<v>>) = Len(o) + 1 /\ (o \o <<v>>)[Len(o) + 1] = v
    OBVIOUS
  <2>3. \A k \in 1..Len(o) : (o \o <<v>>)[k] = o[k]
    OBVIOUS
  <2> QED
    BY <1>0, <1>2, <2>1, <2>2, <2>3
<1>4. <<v>> # << >>
  OBVIOUS
<1>5. /\ q.pc \in {"column", "found"} /\ q.xid = r.xid /\ q.active = r.active
      /\ q.g = r.g /\ q.i = r.i /\ q.cols = r.cols /\ q.old = old
  <2>1. CASE r.c < Len(r.cols)
    <3>1. q = [r EXCEPT !.pc = "column", !.c = @ + 1, !.old = old, !.skip = (<<v>> = << >>)]
      BY <1>1, <1>2, <2>1 DEF Done
    <3> QED
      BY <3>1 DEF Locals
  <2>2. CASE ~(r.c < Len(r.cols))
    <3>1. q = [r EXCEPT !.pc = "found", !.c = 1, !.old = old]
      BY <1>1, <1>2, <1>4, <2>2 DEF Done
    <3> QED
      BY <3>1 DEF Locals
  <2> QED
    BY <2>1, <2>2
<1>6. Snap(N0, R, q)
  BY <1>0, <1>5, SnapSame DEF Rec
<1>7. \A k : RowName(P, G, q, k) = RowName(P, G, r, k)
  BY <1>5 DEF Col, RowName
<1>8. ASSUME NEW k \in 1..Len(q.old) PROVE OldAt(P, G, N0, R, q, k)
  <2>1. CASE k = r.c
    BY <1>3, <1>5, <1>7, <2>1 DEF OldAt
  <2>2. CASE k # r.c
    <3>1. k \in 1..Len(r.old) /\ q.old[k] = r.old[k]
      BY <1>0, <1>3, <1>5, <2>2
    <3>2. OldAt(P, G, N0, R, r, k)
      BY <3>1 DEF Rec, OldOK
    <3> QED
      BY <1>5, <1>7, <3>1, <3>2 DEF OldAt
  <2> QED
    BY <2>1, <2>2
<1>9. OldOK(P, G, N0, R, q)
  BY <1>5, <1>8 DEF OldOK, HasCopy, Updating, UpdatePcs, ExtPcs
<1>10. \A g, i : Passed(r, g, i) => Passed(q, g, i)
  BY <1>5 DEF Passed, Changing, Updating, UpdatePcs, ExtPcs, DeletePcs
<1>11. Behind(P, G, q)
  BY <1>0, <1>5, <1>10 DEF Behind, Rec, Scanning, Reading
<1> QED
  BY <1>1, <1>6, <1>9, <1>11 DEF Rec

\* The scan goes back to an older version.
LEMMA BackRec ==
  ASSUME NEW P, NEW G, NEW N0, NEW R, NEW r \in Locals, Rec(P, G, N0, R, r), r.pc \in {"column", "walk"},
         HasOld(r), Len(r.old) = r.c - 1, r.c \in 1..Len(r.cols),
         NEW v \in Versions, Chain(P, v), v.row = RowName(P, G, r, r.c),
         NEW seen \in BOOLEAN, seen => Fin(N0, R, v.tmin) /\ v.tmin < r.xid
  PROVE  Rec(P, G, N0, R, Back(r, seen, v))
<1>1. CASE seen
  BY <1>1, FoundRec DEF Back
<1>2. CASE ~seen /\ v.undo = NoPosition
  BY <1>2, NoneRec DEF Back
<1>3. CASE ~seen /\ v.undo # NoPosition
  <2>0. Reading(r) /\ r.pc # "idle"
    BY DEF Reading
  <2>1. PICK q : q = [r EXCEPT !.pc = "walk", !.pos = v.undo]
    OBVIOUS
  <2>2. /\ q.pc = "walk" /\ q.xid = r.xid /\ q.active = r.active /\ q.pos = v.undo /\ q.c = r.c
        /\ q.g = r.g /\ q.i = r.i /\ q.cols = r.cols /\ q.old = r.old
    BY <2>1 DEF Locals
  <2>3. Snap(N0, R, q)
    BY <2>0, <2>2, SnapSame DEF Rec
  <2>4. \A k : RowName(P, G, q, k) = RowName(P, G, r, k)
    BY <2>2 DEF Col, RowName
  <2>5. ASSUME NEW k \in 1..Len(q.old) PROVE OldAt(P, G, N0, R, q, k)
    <3>1. OldAt(P, G, N0, R, r, k)
      BY <2>2 DEF Rec, OldOK
    <3> QED
      BY <2>2, <2>4, <3>1 DEF OldAt
  <2>6. P[q.pos.page].type = "undo" /\ Ver(P, q.pos).row = RowName(P, G, q, q.c)
    BY <1>3, <2>2, <2>4 DEF Chain, InUndo
  <2>7. OldOK(P, G, N0, R, q)
    BY <2>2, <2>5, <2>6 DEF OldOK, HasCopy, Updating, UpdatePcs, ExtPcs
  <2>8. \A g, i : Passed(r, g, i) => Passed(q, g, i)
    BY <2>2 DEF Passed, Changing, Updating, UpdatePcs, ExtPcs, DeletePcs
  <2>9. Behind(P, G, q)
    BY <2>0, <2>2, <2>8 DEF Behind, Rec, Scanning, Reading
  <2>10. Rec(P, G, N0, R, q)
    BY <2>3, <2>7, <2>9 DEF Rec
  <2> QED
    BY <1>3, <2>1, <2>10 DEF Back
<1> QED
  BY <1>1, <1>2, <1>3

\* The old version is in the undo page.
LEMMA MoveRec ==
  ASSUME NEW P, NEW G, NEW N0, NEW R, NEW r \in Locals, Rec(P, G, N0, R, r), r.pc = "move", r.op = "update",
         NEW u, P[u.page].type = "undo", Ver(P, u).row = r.old[r.c].row, Ver(P, u).tmin = r.old[r.c].tmin,
         Ver(P, u).tmax = r.xid, NEW pc \in {"inplace", "grow"}, NEW q, q = [r EXCEPT !.pc = pc, !.upos = u]
  PROVE  Rec(P, G, N0, R, q)
<1>1. /\ q.pc = pc /\ q.op = r.op /\ SamePlace(r, q) /\ q.c = r.c /\ q.upos = u
  BY DEF Locals, SamePlace
<1>2. Changing(r) /\ Changing(q) /\ ~HasCopy(r) /\ r.pc # "idle"
  BY <1>1 DEF Changing, Updating, UpdatePcs, DeletePcs, HasCopy, Second, ExtPcs
<1>3. Snap(N0, R, q)
  BY <1>1, <1>2, SnapSame DEF Rec, SamePlace
<1>4. \A k : RowName(P, G, q, k) = RowName(P, G, r, k)
  BY <1>1 DEF Col, RowName, SamePlace
<1>5. ASSUME NEW k \in 1..Len(q.old) PROVE OldAt(P, G, N0, R, q, k)
  <2>1. OldAt(P, G, N0, R, r, k)
    BY <1>1, <1>2 DEF Rec, OldOK, SamePlace, HasOld
  <2> QED
    BY <1>1, <1>4, <2>1 DEF OldAt, SamePlace
<1>6. OldOK(P, G, N0, R, q)
  BY <1>1, <1>5 DEF OldOK, SamePlace
<1>7. \A g, i : Passed(r, g, i) => Passed(q, g, i)
  BY <1>1, <1>2 DEF Passed, SamePlace
<1>8. Behind(P, G, q)
  BY <1>1, <1>2, <1>7 DEF Behind, Rec, Scanning, SamePlace
<1> QED
  BY <1>3, <1>6, <1>8 DEF Rec

LEMMA SeenIs ==
  ASSUME NEW w \in Workers, NEW N0 \in Nat, NEW R, Snap(N0, R, s[w]), s[w].pc # "idle", s[w].high = s[w].xid,
         s[w].xid \in Nat,
         NEW v, Visible(w, v), v.tmin \in 1..(N0 - 1), v.tmin # s[w].xid
  PROVE  Fin(N0, R, v.tmin) /\ v.tmin < s[w].xid
BY DEF Visible, InSnapshot, Snap, Fin

-----------------------------------------------------------------------------
(* The step of a worker *)

\* A step of one worker keeps Chained3 when it only adds versions that may be there.
LEMMA ChainStep ==
  ASSUME Inv, Chained3, NEW w \in Workers, Step1(w), Keeps(pages, pages'), NEW x,
         \A v \in Workers : v # w /\ s[v].pc # "idle" => s[v].xid # x,
         NewOK(pages, pages', x, nextXid', running'), EmptyFrom(pages', groups', Len(groups)),
         Later(nextXid, running, nextXid', running'), \A y \in running : y = x \/ y \in running',
         s'[w].pc # "idle" => s'[w].xid = x, Rec(pages', groups', nextXid', running', s'[w])
  PROVE  Chained3'
<1>1. /\ pages \in Files /\ pages' \in Files /\ groups \in Groups /\ groups' \in Groups
      /\ Extends(groups, groups') /\ s \in [Workers -> Locals] /\ running \in SUBSET (1..(nextXid - 1))
  BY DEF Inv, Inv1, Types, Step1
<1>2. \A v \in Workers : v # w => s'[v] = s[v]
  BY <1>1 DEF Step1
<1>3. VersionsOK(pages', nextXid', running')
  BY <1>1, VersionsKept DEF Chained3
<1>4. Distinct'
  <2> SUFFICES ASSUME NEW u \in Workers, NEW v \in Workers,
                      s'[u].pc # "idle", s'[v].pc # "idle", s'[u].xid = s'[v].xid,
                      u # v
               PROVE  FALSE
    BY DEF Distinct
  <2>1. CASE u = w
    BY <1>2, <2>1
  <2>2. CASE v = w
    BY <1>2, <2>2
  <2>3. CASE u # w /\ v # w
    BY <1>2, <2>3 DEF Chained3, Distinct
  <2> QED
    BY <2>1, <2>2, <2>3
<1>5. ASSUME NEW v \in Workers, v # w PROVE Rec(pages', groups', nextXid', running', s[v])
  <2>1. s[v] \in Locals /\ Shape(pages, groups, s[v]) /\ Rec(pages, groups, nextXid, running, s[v])
    BY Known DEF Inv, Chained3
  <2>2. OldOK(pages', groups', nextXid', running', s[v])
    BY <1>1, <2>1, OldKept DEF Rec
  <2>3. CASE s[v].pc = "idle"
    BY <2>2, <2>3, NoScan DEF Rec, Snap
  <2>4. CASE s[v].pc # "idle"
    <3>1. s[v].xid # x /\ s[v].xid \in running /\ s[v].xid \in running'
      BY <1>5, <2>1, <2>4 DEF Rec, Snap
    <3>2. Behind(pages', groups', s[v])
      BY <1>1, <2>1, <3>1, BehindKept DEF Rec
    <3>3. ASSUME NEW y \in running', y < s[v].xid PROVE y \in s[v].active
      <4>1. y \in running
        BY <1>1, <3>1, <3>3 DEF Later
      <4> QED
        BY <2>1, <2>4, <3>3, <4>1 DEF Rec, Snap
    <3> QED
      BY <2>2, <3>1, <3>2, <3>3 DEF Rec, Snap
  <2> QED
    BY <2>3, <2>4
<1>6. \A v \in Workers : Rec(pages', groups', nextXid', running', s'[v])
  BY <1>2, <1>5
<1> QED
  BY <1>3, <1>4, <1>6 DEF Chained3

LEMMA KeepsSame ==
  ASSUME NEW P \in Files
  PROVE  Keeps(P, P) /\ \A x, N0, R : NewOK(P, P, x, N0, R)
<1>1. \A p \in PageNos : Len(P[p].items) \in Nat
  BY PageFields DEF Files
<1> QED
  BY <1>1 DEF Keeps, NewOK

LEMMA NoNewGroups ==
  ASSUME NEW Q, NEW G \in Groups
  PROVE  EmptyFrom(Q, G, Len(G))
<1>1. Len(G) \in Nat
  BY DEF Groups
<1> QED
  BY <1>1 DEF EmptyFrom

LEMMA SameXids ==
  ASSUME Inv, Chained3, NEW w \in Workers, s[w].pc # "idle", nextXid' = nextXid, running' = running
  PROVE  /\ \A v \in Workers : v # w /\ s[v].pc # "idle" => s[v].xid # s[w].xid
         /\ Later(nextXid, running, nextXid', running') /\ \A y \in running : y = s[w].xid \/ y \in running'
<1>1. nextXid \in Nat
  BY DEF Inv, Inv1, Types
<1> QED
  BY <1>1 DEF Chained3, Distinct, Later

LEMMA WriteChain ==
  ASSUME Inv, Chained3, NEW w \in Workers, Step1(w), Keeps(pages, pages'),
         NewOK(pages, pages', s[w].xid, nextXid, running), UNCHANGED <<groups, nextXid, running>>,
         s[w].pc # "idle", s'[w].xid = s[w].xid, Rec(pages', groups, nextXid, running, s'[w])
  PROVE  Chained3'
<1>1. groups \in Groups
  BY DEF Inv, Inv1, Types
<1>2. EmptyFrom(pages', groups', Len(groups))
  BY <1>1, NoNewGroups
<1> QED
  BY <1>2, SameXids, ChainStep

\* A step that writes no page.
LEMMA QuietChain ==
  ASSUME Inv, Chained3, NEW w \in Workers, Step1(w), UNCHANGED <<pages, groups, nextXid, running>>,
         s[w].pc # "idle", s'[w].xid = s[w].xid, Rec(pages, groups, nextXid, running, s'[w])
  PROVE  Chained3'
<1>1. pages \in Files
  BY DEF Inv, Inv1, Types
<1>2. Keeps(pages, pages') /\ NewOK(pages, pages', s[w].xid, nextXid, running)
  BY <1>1, KeepsSame
<1> QED
  BY <1>2, WriteChain

SameTypes(P, Q) == \A p \in PageNos : Q[p].type = P[p].type

\* A worker that changes a row knows as much of the new file as it did of the old one.
LEMMA OwnRec ==
  ASSUME Inv, Inv', Chained3, NEW w \in Workers, UNCHANGED <<groups, nextXid, running>>,
         s[w].pc \in UpdatePcs \cup DeletePcs \/ (s[w].pc \in ExtPcs /\ s[w].op = "update"), Keeps(pages, pages'),
         WroteAt(pages, pages', Origin(w), s[w].i)
  PROVE  /\ Rec(pages', groups, nextXid, running, s[w]) /\ s[w] \in Locals /\ s[w].pc # "idle" /\ Changing(s[w])
         /\ s[w].pc \in UpdatePcs => s[w].op = "update"
<1>1. /\ s[w] \in Locals /\ Shape(pages, groups, s[w]) /\ pages \in Files /\ pages' \in Files /\ groups \in Groups
      /\ Rec(pages, groups, nextXid, running, s[w])
  <2>1. pages' \in Files
    BY DEF Inv, Inv1, Types
  <2>2. s[w] \in Locals /\ Shape(pages, groups, s[w]) /\ pages \in Files /\ groups \in Groups
    BY Known DEF Inv
  <2> QED
    BY <2>1, <2>2 DEF Chained3
<1>2. /\ Changing(s[w]) /\ s[w].g \in 1..Len(groups) /\ s[w].c \in 1..Len(s[w].cols) /\ s[w].pc # "idle"
      /\ s[w].pc \in UpdatePcs => s[w].op = "update"
  BY <1>1, ChangingIs
<1>3. Later(nextXid, running, nextXid, running)
  <2>1. nextXid \in Nat
    BY DEF Inv, Inv1, Types
  <2> QED
    BY <2>1 DEF Later
<1>4. OldOK(pages', groups, nextXid, running, s[w])
  BY <1>1, <1>3, ExtendsSame, OldKept DEF Rec
<1>5. GroupsOK(pages', groups, savedCnt')
  BY DEF Inv, Storage
<1>6. Origin(w) = Col(groups, s[w], s[w].c)
  BY OriginIs
<1>7. Behind(pages', groups, s[w])
  BY <1>1, <1>2, <1>5, <1>6, BehindOwn DEF Rec
<1> QED
  BY <1>1, <1>2, <1>4, <1>7 DEF Rec

-----------------------------------------------------------------------------
(* Writing a version *)

\* A version is added to a page.
LEMMA AppendChain ==
  ASSUME NEW P \in Files, NEW Q \in Files, NEW p \in PageNos, NEW n \in Pages,
         Writes(P, Q, p, n), NEW v, Appended(P[p], n, v),
         NEW x, NEW N0, NEW R, Chain(P, v), v.tmin \in 1..(N0 - 1), v.tmin = x \/ v.tmin \notin R,
         P[p].type = "undo" => v.tmin \notin R
  PROVE  /\ Keeps(P, Q) /\ NewOK(P, Q, x, N0, R) /\ SameTypes(P, Q)
         /\ \A o, i : P[p].type # "data" => WroteAt(P, Q, o, i)
         /\ Q[p].items[Len(P[p].items) + 1].ver = v
<1>1. /\ Q[p] = n /\ \A q \in PageNos : q # p => Q[q] = P[q]
      /\ n.type = P[p].type /\ Len(n.items) = Len(P[p].items) + 1
      /\ \A i \in 1..Len(P[p].items) : n.items[i] = P[p].items[i]
      /\ n.items[Len(P[p].items) + 1] = [place |-> 0, moved |-> FALSE, ver |-> v]
  BY DEF Writes, Puts, Appended, SameHead
<1>2. \A q \in PageNos : Len(P[q].items) \in Nat
  BY PageFields DEF Files
<1>3. n.items[Len(P[p].items) + 1].ver = v
  BY <1>1
<1>4. SameTypes(P, Q)
  BY <1>1 DEF SameTypes
<1>5. Keeps(P, Q)
  <2> SUFFICES ASSUME NEW q \in PageNos, NEW i \in 1..Len(P[q].items)
               PROVE  /\ i <= Len(Q[q].items) /\ Q[q].items[i].ver.row = P[q].items[i].ver.row
                      /\ P[q].type = "undo" => Q[q].type = "undo" /\ Q[q].items[i].ver = P[q].items[i].ver
    BY DEF Keeps
  <2>1. i <= Len(Q[q].items) /\ Q[q].items[i] = P[q].items[i] /\ Q[q].type = P[q].type
    BY <1>1, <1>2
  <2> QED
    BY <2>1
<1>6. VersionOK(Q, N0, R, Q[p].type, v)
  BY <1>1, <1>5, ChainKept DEF VersionOK
<1>7. ASSUME NEW q \in PageNos, NEW i \in 1..Len(Q[q].items)
      PROVE  \/ i <= Len(P[q].items) /\ Q[q].items[i].ver = P[q].items[i].ver
             \/ q = p /\ i = Len(P[p].items) + 1
  BY <1>1, <1>2
<1>8. NewOK(P, Q, x, N0, R)
  BY <1>1, <1>3, <1>4, <1>6, <1>7 DEF NewOK, SameTypes
<1>9. \A o, i : P[p].type # "data" => WroteAt(P, Q, o, i)
  BY <1>1, <1>7 DEF WroteAt
<1> QED
  BY <1>1, <1>3, <1>4, <1>5, <1>8, <1>9

\* A version in a page of rows is replaced by one of the same row.
LEMMA RewriteChain ==
  ASSUME NEW P \in Files, NEW Q \in Files, NEW p \in PageNos, NEW n \in Pages, Writes(P, Q, p, n),
         NEW i \in 1..Len(P[p].items), NEW y, n = P[p] \/ Rewritten(P[p], n, i, y),
         P[p].type # "undo", y.ver.row = P[p].items[i].ver.row,
         NEW x, NEW N0, NEW R, Chain(P, y.ver), y.ver.tmin \in 1..(N0 - 1), y.ver.tmin = x \/ y.ver.tmin \notin R
  PROVE  /\ Keeps(P, Q) /\ NewOK(P, Q, x, N0, R) /\ SameTypes(P, Q) /\ WroteAt(P, Q, p, i)
<1>0. \A q \in PageNos : Len(P[q].items) \in Nat
  BY PageFields DEF Files
<1>1. /\ Q[p] = n /\ \A q \in PageNos : q # p => Q[q] = P[q]
      /\ n.type = P[p].type
  BY DEF Writes, Puts, SameHead
<1>2. CASE n = P[p]
  <2>1. \A q \in PageNos : Q[q] = P[q]
    BY <1>1, <1>2
  <2>2. \A q \in PageNos : \A j \in 1..Len(P[q].items) : j <= Len(P[q].items)
    BY <1>0
  <2>3. Keeps(P, Q)
    BY <2>1, <2>2 DEF Keeps
  <2>4. NewOK(P, Q, x, N0, R)
    BY <2>1, <2>2 DEF NewOK
  <2>5. SameTypes(P, Q) /\ WroteAt(P, Q, p, i)
    BY <2>1, <2>2 DEF SameTypes, WroteAt
  <2> QED
    BY <2>3, <2>4, <2>5
<1>3. CASE Rewritten(P[p], n, i, y)
  <2>1. /\ Len(n.items) = Len(P[p].items) /\ n.items[i] = y
        /\ \A j \in 1..Len(P[p].items) : j # i => n.items[j] = P[p].items[j]
    BY <1>3 DEF Rewritten
  <2>2. SameTypes(P, Q)
    BY <1>1 DEF SameTypes
  <2>3. Keeps(P, Q)
    <3> SUFFICES ASSUME NEW q \in PageNos, NEW j \in 1..Len(P[q].items)
                 PROVE  /\ j <= Len(Q[q].items) /\ Q[q].items[j].ver.row = P[q].items[j].ver.row
                        /\ P[q].type = "undo" => Q[q].type = "undo" /\ Q[q].items[j].ver = P[q].items[j].ver
      BY DEF Keeps
    <3>1. j <= Len(P[q].items)
      BY <1>0
    <3>2. CASE q # p
      BY <1>1, <3>1, <3>2
    <3>3. CASE q = p /\ j # i
      BY <1>1, <2>1, <3>1, <3>3
    <3>4. CASE q = p /\ j = i
      BY <1>1, <2>1, <3>1, <3>4
    <3> QED
      BY <3>2, <3>3, <3>4
  <2>4. VersionOK(Q, N0, R, Q[p].type, y.ver)
    BY <1>1, <2>3, ChainKept DEF VersionOK
  <2>5. ASSUME NEW q \in PageNos, NEW j \in 1..Len(Q[q].items)
        PROVE  \/ j <= Len(P[q].items) /\ Q[q].items[j].ver = P[q].items[j].ver
               \/ q = p /\ j = i
    BY <1>0, <1>1, <2>1
  <2>6. NewOK(P, Q, x, N0, R)
    BY <1>1, <2>1, <2>2, <2>4, <2>5 DEF NewOK, SameTypes
  <2>7. WroteAt(P, Q, p, i)
    BY <2>5 DEF WroteAt
  <2> QED
    BY <2>2, <2>3, <2>6, <2>7
<1> QED
  BY <1>2, <1>3

\* The same versions in the same places.
SameVers(P, Q) ==
  \A p \in PageNos : /\ Q[p].type = P[p].type /\ Len(Q[p].items) = Len(P[p].items)
                     /\ \A i \in 1..Len(P[p].items) : Q[p].items[i].ver = P[p].items[i].ver

LEMMA SameVersKeep ==
  ASSUME NEW P \in Files, NEW M \in Files, NEW Q \in Files, SameVers(M, Q), Keeps(P, M),
         SameTypes(P, M), NEW x, NEW N0, NEW R,
         NewOK(P, M, x, N0, R), NEW o, NEW i, WroteAt(P, M, o, i)
  PROVE  Keeps(P, Q) /\ NewOK(P, Q, x, N0, R) /\ SameTypes(P, Q) /\ WroteAt(P, Q, o, i)
<1>1. \A p \in PageNos : Len(P[p].items) \in Nat /\ Len(M[p].items) \in Nat
  BY PageFields DEF Files
<1>2. Keeps(M, Q)
  BY <1>1 DEF Keeps, SameVers
<1>3. Keeps(P, Q)
  BY <1>1 DEF Keeps, SameVers
<1>4. SameTypes(P, Q)
  BY DEF SameTypes, SameVers
<1>5. ASSUME NEW p \in PageNos, NEW j \in 1..Len(Q[p].items)
      PROVE  j \in 1..Len(M[p].items) /\ Q[p].type = M[p].type /\ Q[p].items[j].ver = M[p].items[j].ver
  BY DEF SameVers
<1>6. \A t, v : VersionOK(M, N0, R, t, v) => VersionOK(Q, N0, R, t, v)
  BY <1>2, ChainKept DEF VersionOK
<1>7. NewOK(P, Q, x, N0, R)
  BY <1>5, <1>6 DEF NewOK
<1>8. WroteAt(P, Q, o, i)
  BY <1>5 DEF WroteAt
<1> QED
  BY <1>3, <1>4, <1>7, <1>8

-----------------------------------------------------------------------------
(* The actions *)

\* A new snapshot has every transaction that is running.
LEMMA StartSnap ==
  ASSUME Inv1, NEW w \in Workers, StartInsert(w) \/ StartUpdate(w) \/ StartDelete(w)
  PROVE  s'[w].active = running
<1>1. ASSUME NEW op, NEW cols, NEW sizes, NEW pc, Begin(w, op, cols, sizes, pc) PROVE s'[w].active = running
  <2>1. s \in [Workers -> Locals]
    BY DEF Inv1, Types
  <2>2. PICK q : q = [Idle EXCEPT !.pc = pc, !.op = op, !.xid = nextXid,
                                  !.high = nextXid, !.active = running, !.cols = cols, !.sizes = sizes]
    OBVIOUS
  <2>3. s' = [s EXCEPT ![w] = q]
    BY <1>1, <2>2 DEF Begin
  <2>4. q.active = running
    BY <2>2 DEF Idle
  <2> QED
    BY <2>1, <2>3, <2>4
<1> QED
  BY <1>1 DEF StartInsert, StartUpdate, StartDelete

LEMMA StartChain ==
  ASSUME Inv, Chained3, NEW w \in Workers, StartInsert(w) \/ StartUpdate(w) \/ StartDelete(w)
  PROVE  Chained3'
<1>1. /\ Step1(w) /\ s'[w].xid = nextXid /\ s'[w].g = 0
      /\ (s'[w].pc = "group" /\ s'[w].op = "insert") \/ (s'[w].pc = "scan" /\ s'[w].op \in {"update", "delete"})
      /\ nextXid' = nextXid + 1 /\ running' = running \cup {nextXid}
      /\ UNCHANGED <<pages, groups>>
  BY Starts DEF Inv
<1>2. s'[w].active = running
  BY StartSnap DEF Inv
<1>3. pages \in Files /\ groups \in Groups /\ nextXid \in Nat /\ running \in SUBSET (1..(nextXid - 1))
  BY DEF Inv, Inv1, Types
<1>4. Snap(nextXid', running', s'[w])
  BY <1>1, <1>2, <1>3 DEF Snap
<1>5. OldOK(pages, groups, nextXid', running', s'[w]) /\ Behind(pages, groups, s'[w])
  <2>1. CASE s'[w].pc = "group"
    BY <2>1, NoScan DEF InsertPcs
  <2>2. CASE s'[w].pc = "scan"
    <3>1. OldOK(pages, groups, nextXid', running', s'[w])
      BY <2>2 DEF OldOK, HasOld, HasCopy, Changing, Updating, UpdatePcs, ExtPcs, DeletePcs
    <3>2. ASSUME NEW g \in 1..Len(groups), NEW c \in Cols, NEW i \in 1..Len(pages[groups[g][c]].items)
          PROVE  pages[groups[g][c]].items[i].ver.tmin # nextXid
      <4>1. groups[g][c] \in PageNos
        BY <1>3 DEF Groups
      <4>2. pages[groups[g][c]].items[i].ver.tmin \in 1..(nextXid - 1)
        BY <4>1 DEF Chained3, VersionsOK, VersionOK
      <4> QED
        BY <1>3, <4>2
    <3>3. Behind(pages, groups, s'[w])
      BY <1>1, <3>2 DEF Behind
    <3> QED
      BY <3>1, <3>3
  <2> QED
    BY <1>1, <2>1, <2>2
<1>6. Rec(pages', groups', nextXid', running', s'[w])
  BY <1>1, <1>4, <1>5 DEF Rec
<1>7. \A v \in Workers : v # w /\ s[v].pc # "idle" => s[v].xid # nextXid
  BY <1>3 DEF Chained3, Rec, Snap
<1>8. Later(nextXid, running, nextXid', running') /\ \A y \in running : y = nextXid \/ y \in running'
  BY <1>1, <1>3 DEF Later
<1>9. /\ Keeps(pages, pages') /\ NewOK(pages, pages', nextXid, nextXid', running')
      /\ EmptyFrom(pages', groups', Len(groups))
  BY <1>1, <1>3, KeepsSame, NoNewGroups
<1>10. PICK x : x = nextXid
  OBVIOUS
<1>11. /\ \A v \in Workers : v # w /\ s[v].pc # "idle" => s[v].xid # x
       /\ NewOK(pages, pages', x, nextXid', running') /\ \A y \in running : y = x \/ y \in running'
       /\ s'[w].xid = x
  BY <1>1, <1>7, <1>8, <1>9, <1>10
<1>12. Step1(w)
  BY <1>1
<1> QED
  BY <1>6, <1>8, <1>9, <1>11, <1>12, ChainStep

LEMMA EndChain ==
  ASSUME Inv, Chained3, NEW w \in Workers, EndStatement(w)
  PROVE  Chained3'
<1>1. /\ Step1(w) /\ s'[w] = Idle /\ s[w].pc = "end" /\ running' = running \ {s[w].xid}
      /\ UNCHANGED <<pages, groups, nextXid>>
  BY EndStatement1 DEF Inv
<1>2. pages \in Files /\ groups \in Groups /\ nextXid \in Nat
  BY DEF Inv, Inv1, Types
<1>3. Idle.pc = "idle"
  BY DEF Idle
<1>4. Rec(pages', groups', nextXid', running', s'[w])
  BY <1>1, <1>3, NoScan DEF Rec, Snap
<1>5. \A v \in Workers : v # w /\ s[v].pc # "idle" => s[v].xid # s[w].xid
  BY <1>1 DEF Chained3, Distinct
<1>6. Later(nextXid, running, nextXid', running') /\ \A y \in running : y = s[w].xid \/ y \in running'
  BY <1>1, <1>2 DEF Later
<1>7. /\ Keeps(pages, pages') /\ NewOK(pages, pages', s[w].xid, nextXid', running')
      /\ EmptyFrom(pages', groups', Len(groups))
  BY <1>1, <1>2, KeepsSame, NoNewGroups
<1> QED
  BY <1>1, <1>3, <1>4, <1>5, <1>6, <1>7, ChainStep

\* A step to a place where nothing has been scanned.
LEMMA UnscannedRec ==
  ASSUME NEW P, NEW G, NEW N0, NEW R, NEW r, NEW q, Snap(N0, R, r), r.pc # "idle", q.xid = r.xid, q.active = r.active,
         q.pc \in InsertPcs \cup {"end"} \/ (q.pc \in ExtPcs /\ q.op # "update")
  PROVE  Rec(P, G, N0, R, q)
BY NoScan, SnapSame DEF Rec

LEMMA InsertSteps ==
  ASSUME Inv1, NEW w \in Workers,
         NextGroup(w) \/ MemberPage(w) \/ LockGroupPages(w) \/ FreeSpaceCheck(w)
  PROVE  /\ Step1(w) /\ Quiet /\ s[w].pc \in InsertPcs /\ s'[w].xid = s[w].xid /\ s'[w].active = s[w].active
         /\ s'[w].pc \in InsertPcs \/ (s'[w].pc \in ExtPcs /\ s'[w].op # "update")
<1>0. s[w] \in Locals /\ (s[w].pc \in InsertPcs => s[w].op = "insert")
  BY Known DEF Shape, Statement, InsertPcs
<1>1. PICK r \in Locals : r = s[w]
  BY <1>0
<1>2. PICK q : q = s'[w]
  OBVIOUS
<1>3. CASE NextGroup(w)
  <2>1. /\ Step1(w) /\ r.pc = "group" /\ Quiet
        /\ q = [r EXCEPT !.pc = "member", !.g = @ + 1] \/ q = [r EXCEPT !.pc = "startext", !.g = 0, !.num = NumCols]
    BY <1>1, <1>2, <1>3, NextGroup1
  <2>2. /\ q.xid = r.xid /\ q.active = r.active /\ q.op = r.op /\ q.pc \in {"member", "startext"}
    BY <2>1 DEF Locals
  <2> QED
    BY <1>0, <1>1, <1>2, <2>1, <2>2 DEF InsertPcs, ExtPcs
<1>4. CASE MemberPage(w)
  <2>1. PICK p : /\ Step1(w) /\ r.pc = "member" /\ Quiet
                 /\ \/ q = [r EXCEPT !.pc = "group", !.c = 1, !.plist = << >>]
                    \/ q = [r EXCEPT !.c = @ + 1, !.plist = Append(@, p)]
                    \/ q = [r EXCEPT !.pc = "lockgroup", !.c = 1, !.plist = Append(@, p)]
    BY <1>1, <1>2, <1>4, MemberPage1
  <2>2. /\ q.xid = r.xid /\ q.active = r.active /\ q.pc \in {"member", "group", "lockgroup"}
    BY <2>1 DEF Locals
  <2> QED
    BY <1>1, <1>2, <2>1, <2>2 DEF InsertPcs
<1>5. CASE LockGroupPages(w)
  <2>1. /\ Step1(w) /\ r.pc = "lockgroup" /\ Quiet
        /\ q = [r EXCEPT !.c = @ + 1] \/ q = [r EXCEPT !.pc = "check", !.c = 1]
    BY <1>1, <1>2, <1>5, LockGroupPages1
  <2>2. /\ q.xid = r.xid /\ q.active = r.active /\ q.pc \in {"lockgroup", "check"}
    BY <2>1 DEF Locals
  <2> QED
    BY <1>1, <1>2, <2>1, <2>2 DEF InsertPcs
<1>6. CASE FreeSpaceCheck(w)
  <2>1. /\ Step1(w) /\ r.pc = "check" /\ Quiet
        /\ q = [r EXCEPT !.pc = "write"] \/ q = [r EXCEPT !.pc = "member", !.plist = << >>]
    BY <1>1, <1>2, <1>6, FreeSpaceCheck1
  <2>2. /\ q.xid = r.xid /\ q.active = r.active /\ q.pc \in {"write", "member"}
    BY <2>1 DEF Locals
  <2> QED
    BY <1>1, <1>2, <2>1, <2>2 DEF InsertPcs
<1> QED
  BY <1>3, <1>4, <1>5, <1>6

LEMMA InsertChain ==
  ASSUME Inv, Chained3, NEW w \in Workers,
         NextGroup(w) \/ MemberPage(w) \/ LockGroupPages(w) \/ FreeSpaceCheck(w)
  PROVE  Chained3'
<1>1. /\ Step1(w) /\ Quiet /\ s[w].pc \in InsertPcs /\ s'[w].xid = s[w].xid /\ s'[w].active = s[w].active
      /\ s'[w].pc \in InsertPcs \/ (s'[w].pc \in ExtPcs /\ s'[w].op # "update")
  BY InsertSteps DEF Inv
<1>2. s[w].pc # "idle" /\ Snap(nextXid, running, s[w])
  BY <1>1 DEF Chained3, Rec, InsertPcs
<1>3. Rec(pages, groups, nextXid, running, s'[w])
  BY <1>1, <1>2, UnscannedRec
<1> QED
  BY <1>1, <1>2, <1>3, QuietChain DEF Quiet

LEMMA WriteColumnChain ==
  ASSUME Inv, Chained3, NEW w \in Workers, WriteColumn(w)
  PROVE  Chained3'
<1>1. /\ Step1(w) /\ s[w].pc = "write" /\ UNCHANGED <<groups, nextXid, running>>
      /\ \/ s'[w] = [s[w] EXCEPT !.c = @ + 1]
         \/ s'[w] = [s[w] EXCEPT !.pc = "end"]
  BY WriteColumn1 DEF Inv
<1>2. PICK v \in Versions, p \in PageNos, n \in Pages :
        /\ v = NewVersion(s[w].xid, s[w].sizes[s[w].c], s[w].xid, NoPosition)
        /\ p = s[w].plist[s[w].c] /\ Writes(pages, pages', p, n) /\ Appended(pages[p], n, v)
  BY WriteColumn1 DEF Inv
<1>3. /\ s[w] \in Locals /\ pages \in Files /\ pages' \in Files /\ Snap(nextXid, running, s[w])
      /\ running \in SUBSET (1..(nextXid - 1))
  <2>1. s[w] \in Locals /\ pages \in Files /\ pages' \in Files
    BY <1>1, Known DEF Inv, Step1
  <2> QED
    BY <2>1 DEF Inv, Inv1, Types, Chained3, Rec
<1>4. s[w].xid \in running /\ s[w].xid \in 1..(nextXid - 1) /\ s[w].pc # "idle"
  BY <1>1, <1>3 DEF Snap
<1>5. v.undo = NoPosition /\ v.tmin = s[w].xid
  BY <1>2 DEF NewVersion
<1>6. Chain(pages, v)
  BY <1>5 DEF Chain
<1>7. pages[p].type # "undo"
  <2>1. s[w].c \in 1..NumCols /\ s[w].g \in 1..Len(groups) /\ p = groups[s[w].g][s[w].c]
    BY <1>1, <1>2, InsertAt DEF GroupPcs
  <2> QED
    BY <2>1 DEF Inv, Storage, GroupsOK, Cols
<1>8. Keeps(pages, pages') /\ NewOK(pages, pages', s[w].xid, nextXid, running)
  BY <1>2, <1>3, <1>4, <1>5, <1>6, <1>7, AppendChain
<1>9. s'[w].xid = s[w].xid /\ s'[w].active = s[w].active /\ s'[w].pc \in {"write", "end"}
  BY <1>1, <1>3 DEF Locals
<1>10. Rec(pages', groups, nextXid, running, s'[w])
  BY <1>3, <1>4, <1>9, UnscannedRec DEF InsertPcs
<1> QED
  BY <1>1, <1>4, <1>8, <1>9, <1>10, WriteChain

\* The step of a worker that changes a row, the file as it is.
LEMMA ChangeChain ==
  ASSUME Inv, Chained3, NEW w \in Workers, Step1(w), UNCHANGED <<pages, groups, nextXid, running>>, s[w].pc # "idle",
         Changing(s[w]), Changing(s'[w]), SamePlace(s[w], s'[w]),
         HasCopy(s'[w]) => HasCopy(s[w]) /\ s'[w].c = s[w].c /\ s'[w].upos = s[w].upos
  PROVE  Chained3'
<1>1. Rec(pages, groups, nextXid, running, s[w])
  BY DEF Chained3
<1>2. Rec(pages, groups, nextXid, running, s'[w])
  BY <1>1, ChangeRec
<1> QED
  BY <1>2, QuietChain DEF SamePlace

\* The statement ends.
LEMMA EndsChain ==
  ASSUME Inv, Chained3, NEW w \in Workers, Step1(w), UNCHANGED <<pages, groups, nextXid, running>>, s[w].pc # "idle",
         s'[w] = [s[w] EXCEPT !.pc = "end"]
  PROVE  Chained3'
<1>1. s[w] \in Locals
  BY Known DEF Inv
<1>2. s'[w].xid = s[w].xid /\ s'[w].active = s[w].active /\ s'[w].pc = "end"
  BY <1>1 DEF Locals
<1>3. Rec(pages, groups, nextXid, running, s'[w])
  BY <1>2, UnscannedRec DEF Chained3, Rec
<1> QED
  BY <1>2, <1>3, QuietChain

LEMMA GroupItemChain ==
  ASSUME Inv, Chained3, NEW w \in Workers, InsertGroupItem(w)
  PROVE  Chained3'
<1>1. /\ Step1(w) /\ s[w].pc = "extend" /\ s[w].op = "insert" /\ s[w].num = 0
      /\ UNCHANGED <<pages, nextXid, running>>
  BY InsertGroupItem1
<1>2. CASE s'[w] = [s[w] EXCEPT !.pc = "end"] /\ groups' = groups
  BY <1>1, <1>2, EndsChain
<1>3. CASE /\ s[w].last \in PageNos /\ groups' = Append(groups, MemberPages(s[w].last))
           /\ MemberPages(s[w].last) \in [Cols -> PageNos] /\ s'[w] = [s[w] EXCEPT !.pc = "group"]
  <2>1. /\ s[w] \in Locals /\ pages \in Files /\ groups \in Groups /\ savedCnt \in Nat \ {0}
        /\ Snap(nextXid, running, s[w])
    BY Known DEF Inv, Inv1, Types, Chained3, Rec
  <2>2. s'[w].xid = s[w].xid /\ s'[w].active = s[w].active /\ s'[w].pc = "group" /\ s[w].pc # "idle"
    BY <1>1, <1>3, <2>1 DEF Locals
  <2>3. Rec(pages', groups', nextXid', running', s'[w])
    BY <1>1, <2>1, <2>2, UnscannedRec DEF InsertPcs
  <2>4. /\ s[w].last = savedCnt + NumCols
        /\ \A p \in PageNos : p > savedCnt => pages[p] = InitPage \/ pages[p] = NoPage
    BY <1>1, <1>3, Added DEF Batch
  <2>5. \A c \in Cols : MemberPages(s[w].last)[c] \in PageNos /\ MemberPages(s[w].last)[c] > savedCnt
    BY <1>3, <2>1, <2>4, MemberPagesAre
  <2>6. \A c \in Cols : pages[MemberPages(s[w].last)[c]].items = << >>
    BY <2>4, <2>5, FreshPagesAre
  <2>7. EmptyFrom(pages', groups', Len(groups))
    <3> SUFFICES ASSUME NEW g \in 1..Len(groups'), NEW c \in Cols, g > Len(groups)
                 PROVE  pages[groups'[g][c]].items = << >>
      BY <1>1 DEF EmptyFrom
    <3>1. groups'[g] = MemberPages(s[w].last)
      BY <1>3, <2>1 DEF Groups
    <3> QED
      BY <2>6, <3>1
  <2>8. Keeps(pages, pages') /\ NewOK(pages, pages', s[w].xid, nextXid', running')
    BY <1>1, <2>1, KeepsSame
  <2>9. /\ \A v \in Workers : v # w /\ s[v].pc # "idle" => s[v].xid # s[w].xid
        /\ Later(nextXid, running, nextXid', running') /\ \A y \in running : y = s[w].xid \/ y \in running'
    BY <1>1, <2>2, SameXids
  <2>10. Step1(w)
    BY <1>1
  <2> QED
    BY <2>2, <2>3, <2>7, <2>8, <2>9, <2>10, ChainStep
<1> QED
  BY <1>2, <1>3, InsertGroupItem1

LEMMA AtUpdate ==
  ASSUME Inv, NEW w \in Workers,
         s[w].pc \in UpdatePcs \cup DeletePcs \/ (s[w].pc \in ExtPcs /\ s[w].op = "update")
  PROVE  /\ s[w] \in Locals /\ Changing(s[w]) /\ s[w].pc # "idle" /\ s[w].op \in {"update", "delete"}
         /\ s[w].pc \in UpdatePcs \cup ExtPcs => s[w].op = "update"
<1>1. s[w] \in Locals /\ Shape(pages, groups, s[w]) /\ pages \in Files /\ groups \in Groups
  BY Known DEF Inv
<1> QED
  BY <1>1, ChangingIs DEF UpdatePcs, ExtPcs, DeletePcs

LEMMA StartExtensionChain ==
  ASSUME Inv, Chained3, NEW w \in Workers, StartExtensionTbl(w)
  PROVE  Chained3'
<1>1. /\ Step1(w) /\ s[w].pc = "startext" /\ UNCHANGED <<pages, groups, nextXid, running>>
      /\ s'[w] = [s[w] EXCEPT !.pc = "extend"]
  BY StartExtension1 DEF Inv, Quiet
<1>2. s[w] \in Locals
  BY Known DEF Inv
<1>3. /\ SamePlace(s[w], s'[w]) /\ s'[w].pc = "extend" /\ s'[w].op = s[w].op /\ s'[w].c = s[w].c
      /\ s'[w].upos = s[w].upos /\ s'[w].kind = s[w].kind
  BY <1>1, <1>2 DEF SamePlace, Locals
<1>4. CASE s[w].op = "update"
  <2>1. Changing(s[w]) /\ Changing(s'[w]) /\ (HasCopy(s'[w]) => HasCopy(s[w]))
    BY <1>1, <1>3, <1>4 DEF Changing, Updating, HasCopy, Second, ExtPcs
  <2> QED
    BY <1>1, <1>3, <2>1, ChangeChain
<1>5. CASE s[w].op # "update"
  <2>1. Rec(pages, groups, nextXid, running, s'[w])
    BY <1>1, <1>3, <1>5, UnscannedRec DEF Chained3, Rec, SamePlace, ExtPcs
  <2> QED
    BY <1>1, <1>3, <2>1, QuietChain DEF SamePlace
<1> QED
  BY <1>4, <1>5

\* A page without versions becomes another one.
LEMMA EmptyPages ==
  ASSUME NEW P \in Files, NEW Q \in Files,
         \A p \in PageNos : \/ Q[p].type = P[p].type /\ Q[p].items = P[p].items
                           \/ (Q[p].items = << >> /\ P[p].items = << >>)
  PROVE  /\ Keeps(P, Q) /\ \A x, N0, R : NewOK(P, Q, x, N0, R)
         /\ \A o, i : WroteAt(P, Q, o, i)
<1>1. \A p \in PageNos : Len(P[p].items) \in Nat
  BY PageFields DEF Files
<1>2. ASSUME NEW p \in PageNos, NEW i \in 1..Len(P[p].items)
      PROVE  i <= Len(Q[p].items) /\ Q[p].items[i] = P[p].items[i] /\ Q[p].type = P[p].type
  BY <1>1
<1>3. ASSUME NEW p \in PageNos, NEW i \in 1..Len(Q[p].items)
      PROVE  i <= Len(P[p].items) /\ Q[p].items[i] = P[p].items[i] /\ Q[p].type = P[p].type
  BY <1>1
<1>4. Keeps(P, Q)
  BY <1>2 DEF Keeps
<1>5. \A x, N0, R : NewOK(P, Q, x, N0, R)
  BY <1>3 DEF NewOK
<1>6. \A o, i : WroteAt(P, Q, o, i)
  BY <1>3 DEF WroteAt
<1> QED
  BY <1>4, <1>5, <1>6

LEMMA AddPageChain ==
  ASSUME Inv, Inv', Chained3, NEW w \in Workers, AddPage(w)
  PROVE  Chained3'
<1>1. /\ Step1(w) /\ s[w].pc = "extend" /\ UNCHANGED <<groups, nextXid, running>>
      /\ s'[w] = [s[w] EXCEPT !.num = @ - 1, !.last = pageCnt + 1]
      /\ \A p \in PageNos : pages'[p] = IF p = pageCnt + 1 THEN InitPage ELSE pages[p]
  BY AddPage1
<1>2. /\ pages \in Files /\ pages' \in Files /\ s[w] \in Locals /\ FreshFrom(pages, savedCnt, pageCnt)
      /\ pageCnt \in Nat /\ savedCnt \in Nat /\ savedCnt <= pageCnt
  <2>1. pages' \in Files
    BY DEF Inv, Inv1, Types
  <2>2. pages \in Files /\ s[w] \in Locals
    BY Known DEF Inv
  <2> QED
    BY <2>1, <2>2 DEF Inv, Inv1, Types, Storage
<1>3. \A p \in PageNos : p = pageCnt + 1 => pages[p] = NoPage
  BY <1>2 DEF FreshFrom
<1>4. \A p \in PageNos : (pages'[p].type = pages[p].type /\ pages'[p].items = pages[p].items)
                         \/ (pages'[p].items = << >> /\ pages[p].items = << >>)
  BY <1>1, <1>3, FreshPagesAre
<1>5. /\ Keeps(pages, pages') /\ NewOK(pages, pages', s[w].xid, nextXid, running)
      /\ WroteAt(pages, pages', Origin(w), s[w].i)
  BY <1>2, <1>4, EmptyPages
<1>6. /\ SamePlace(s[w], s'[w]) /\ s'[w].pc = "extend" /\ s'[w].op = s[w].op /\ s'[w].c = s[w].c
      /\ s'[w].upos = s[w].upos /\ s'[w].kind = s[w].kind
  BY <1>1, <1>2 DEF SamePlace, Locals
<1>7. Rec(pages', groups, nextXid, running, s'[w])
  <2>1. CASE s[w].op = "update"
    <3>1. Changing(s[w]) /\ Changing(s'[w]) /\ (HasCopy(s'[w]) => HasCopy(s[w]))
      BY <1>1, <1>6, <2>1 DEF Changing, Updating, HasCopy, Second, ExtPcs
    <3>2. Rec(pages', groups, nextXid, running, s[w])
      BY <1>1, <1>5, <2>1, OwnRec DEF ExtPcs
    <3> QED
      BY <1>1, <1>6, <3>1, <3>2, ChangeRec
  <2>2. CASE s[w].op # "update"
    BY <1>1, <1>6, <2>2, UnscannedRec DEF Chained3, Rec, SamePlace, ExtPcs
  <2> QED
    BY <2>1, <2>2
<1> QED
  BY <1>1, <1>5, <1>6, <1>7, WriteChain DEF SamePlace

LEMMA GotFields ==
  ASSUME NEW r \in Locals, NEW p, NEW q, q = Got(r, p), r.op = "update"
  PROVE  /\ SamePlace(r, q) /\ q.c = r.c /\ q.upos = r.upos /\ q.op = r.op /\ Changing(q)
         /\ q.pc = (IF r.kind = "undo" THEN "origin" ELSE "newrow")
         /\ HasCopy(q) => r.kind = "ext"
<1>1. r.kind \in {"undo", "ext"}
  BY LocalFields
<1>2. /\ SamePlace(r, q) /\ q.c = r.c /\ q.upos = r.upos /\ q.op = r.op
      /\ q.pc = (IF r.kind = "undo" THEN "origin" ELSE "newrow")
  BY <1>1 DEF Got, SamePlace, Locals
<1> QED
  BY <1>1, <1>2 DEF Changing, Updating, UpdatePcs, HasCopy, Second, ExtPcs

LEMMA LinkPageChain ==
  ASSUME Inv, Inv', Chained3, NEW w \in Workers, LinkPage(w)
  PROVE  Chained3'
<1>1. /\ Step1(w) /\ s[w].pc = "extend" /\ s[w].op = "update" /\ s[w].num = 0
      /\ UNCHANGED <<groups, nextXid, running>> /\ Origin(w) \in PageNos
  BY LinkPage1
<1>2. CASE s'[w] = [s[w] EXCEPT !.pc = "end"] /\ pages' = pages
  BY <1>1, <1>2, EndsChain
<1>3. CASE /\ s[w].last \in PageNos /\ Origin(w) <= savedCnt
           /\ Chains(pages, pages', Origin(w), s[w].last, s[w].kind)
           /\ s'[w] = Got(s[w], s[w].last)
  <2>1. pages \in Files /\ pages' \in Files /\ s[w] \in Locals
    BY <1>1, Known DEF Inv, Step1
  <2>2. pages[s[w].last] = InitPage
    BY <1>1, <1>3, Added
  <2>3. \A p \in PageNos : (pages'[p].type = pages[p].type /\ pages'[p].items = pages[p].items)
                           \/ (pages'[p].items = << >> /\ pages[p].items = << >>)
    BY <1>3, <2>2, FreshPagesAre DEF Chains
  <2>4. /\ Keeps(pages, pages') /\ NewOK(pages, pages', s[w].xid, nextXid, running)
        /\ WroteAt(pages, pages', Origin(w), s[w].i)
    BY <2>1, <2>3, EmptyPages
  <2>5. Rec(pages', groups, nextXid, running, s[w]) /\ Changing(s[w]) /\ s[w].pc # "idle"
    BY <1>1, <2>4, OwnRec DEF ExtPcs
  <2>6. /\ SamePlace(s[w], s'[w]) /\ s'[w].c = s[w].c /\ s'[w].upos = s[w].upos /\ Changing(s'[w])
        /\ HasCopy(s'[w]) => s[w].kind = "ext"
    BY <1>1, <1>3, <2>1, GotFields
  <2>7. HasCopy(s'[w]) => HasCopy(s[w])
    BY <1>1, <2>6 DEF HasCopy, Updating, Second, ExtPcs
  <2>8. Rec(pages', groups, nextXid, running, s'[w])
    BY <2>5, <2>6, <2>7, ChangeRec
  <2> QED
    BY <1>1, <2>4, <2>5, <2>6, <2>8, WriteChain DEF SamePlace
<1> QED
  BY <1>2, <1>3, LinkPage1

LEMMA LockingChain ==
  ASSUME Inv, Chained3, NEW w \in Workers,
         LockFirstPage(w) \/ LockChainPage(w) \/ LockOrigin(w) \/ LockUndo(w) \/ LockForDelete(w)
  PROVE  Chained3'
<1>1. PICK r : r = s[w]
  OBVIOUS
<1>2. PICK q : q = s'[w]
  OBVIOUS
<1>3. r \in Locals
  BY <1>1, Known DEF Inv
<1>4. /\ Step1(w) /\ UNCHANGED <<pages, groups, nextXid, running>>
      /\ \/ r.pc = "first" /\ \E pc \in {"startext", "chain"} : q = [r EXCEPT !.kind = "undo", !.num = 1, !.pc = pc]
         \/ r.pc = "chain" /\ \E p : q = Got(r, p)
         \/ r.pc = "chain" /\ q = [r EXCEPT !.pc = "startext"]
         \/ r.pc = "origin" /\ q = [r EXCEPT !.pc = "undo"]
         \/ r.pc = "undo" /\ q = [r EXCEPT !.pc = "move"]
         \/ r.pc = "delete" /\ q = [r EXCEPT !.pc = "remove"]
         \/ r.pc \in {"first", "undo", "delete"} /\ q = [r EXCEPT !.pc = "end"]
  <2>1. CASE LockFirstPage(w)
    BY <1>1, <1>2, <2>1, LockFirstPage1 DEF Inv, Quiet
  <2>2. CASE LockChainPage(w)
    BY <1>1, <1>2, <2>2, LockChainPage1 DEF Inv, Quiet
  <2>3. CASE LockOrigin(w)
    BY <1>1, <1>2, <2>3, LockOrigin1 DEF Inv, Quiet
  <2>4. CASE LockUndo(w)
    BY <1>1, <1>2, <2>4, LockUndo1 DEF Inv, Quiet
  <2>5. CASE LockForDelete(w)
    BY <1>1, <1>2, <2>5, LockForDelete1 DEF Inv, Quiet
  <2> QED
    BY <2>1, <2>2, <2>3, <2>4, <2>5
<1>5. /\ Changing(r) /\ r.pc # "idle" /\ r.op \in {"update", "delete"}
      /\ r.pc \in UpdatePcs \cup ExtPcs => r.op = "update"
  BY <1>1, <1>4, AtUpdate DEF UpdatePcs, DeletePcs
<1>6. SUFFICES ASSUME q # [r EXCEPT !.pc = "end"]
               PROVE  /\ Changing(q) /\ SamePlace(r, q)
                      /\ HasCopy(q) => HasCopy(r) /\ q.c = r.c /\ q.upos = r.upos
  BY <1>1, <1>2, <1>4, <1>5, EndsChain, ChangeChain
<1>7. CASE r.pc = "first" /\ \E pc \in {"startext", "chain"} : q = [r EXCEPT !.kind = "undo", !.num = 1, !.pc = pc]
  <2>1. SamePlace(r, q) /\ q.pc \in {"startext", "chain"} /\ q.kind = "undo" /\ q.op = r.op
    BY <1>3, <1>7 DEF SamePlace, Locals
  <2> QED
    BY <1>5, <1>7, <2>1 DEF Changing, Updating, UpdatePcs, ExtPcs, HasCopy, Second
<1>8. CASE r.pc = "chain" /\ \E p : q = Got(r, p)
  <2>1. /\ SamePlace(r, q) /\ q.c = r.c /\ q.upos = r.upos /\ q.op = r.op /\ Changing(q)
        /\ HasCopy(q) => r.kind = "ext"
    BY <1>3, <1>5, <1>8, GotFields DEF UpdatePcs
  <2> QED
    BY <1>5, <1>8, <2>1 DEF UpdatePcs, HasCopy, Updating, Second
<1>9. CASE r.pc = "chain" /\ q = [r EXCEPT !.pc = "startext"]
  <2>1. SamePlace(r, q) /\ q.pc = "startext" /\ q.kind = r.kind /\ q.op = r.op /\ q.c = r.c /\ q.upos = r.upos
    BY <1>3, <1>9 DEF SamePlace, Locals
  <2> QED
    BY <1>5, <1>9, <2>1 DEF Changing, Updating, UpdatePcs, ExtPcs, HasCopy, Second
<1>10. CASE \E pc \in {"undo", "move"} : r.pc \in {"origin", "undo"} /\ q = [r EXCEPT !.pc = pc]
  <2>1. SamePlace(r, q) /\ q.pc \in {"undo", "move"} /\ q.op = r.op
    BY <1>3, <1>10 DEF SamePlace, Locals
  <2> QED
    BY <1>5, <1>10, <2>1 DEF Changing, Updating, UpdatePcs, ExtPcs, HasCopy, Second
<1>11. CASE r.pc = "delete" /\ q = [r EXCEPT !.pc = "remove"]
  <2>1. SamePlace(r, q) /\ q.pc = "remove"
    BY <1>3, <1>11 DEF SamePlace, Locals
  <2> QED
    BY <2>1 DEF Changing, Updating, UpdatePcs, DeletePcs, ExtPcs, HasCopy, Second
<1> QED
  BY <1>4, <1>6, <1>7, <1>8, <1>9, <1>10, <1>11

LEMMA ScanStepsChain ==
  ASSUME Inv, Chained3, NEW w \in Workers, ScanGroup(w) \/ RowMatches(w) \/ RowDiffers(w)
  PROVE  Chained3'
<1>1. s[w] \in Locals /\ Rec(pages, groups, nextXid, running, s[w])
  BY Known DEF Inv, Chained3
<1>2. CASE ScanGroup(w)
  <2>1. /\ Step1(w) /\ s[w].pc = "scan" /\ UNCHANGED <<pages, groups, nextXid, running>>
        /\ s'[w] = GroupNext(s[w]) \/ s'[w] = [s[w] EXCEPT !.pc = "end"]
    BY <1>2, ScanGroup1 DEF Inv, Quiet
  <2>2. CASE s'[w] = [s[w] EXCEPT !.pc = "end"]
    BY <2>1, <2>2, EndsChain
  <2>3. CASE s'[w] = GroupNext(s[w])
    <3>1. /\ s'[w].xid = s[w].xid /\ s'[w].active = s[w].active /\ s'[w].pc = "column"
          /\ s'[w].old = << >> /\ s'[w].g = s[w].g + 1
      BY <1>1, <2>3, RowNextFields
    <3>2. s'[w] \in Locals /\ Scanning(s[w])
      BY <2>1 DEF Step1, Scanning
    <3>3. Rec(pages, groups, nextXid, running, s'[w])
      BY <1>1, <2>1, <3>1, <3>2, FreshRowRec
    <3> QED
      BY <2>1, <3>1, <3>3, QuietChain
  <2> QED
    BY <2>1, <2>2, <2>3
<1>3. CASE RowMatches(w)
  <2>1. /\ Step1(w) /\ s[w].pc = "found" /\ UNCHANGED <<pages, groups, nextXid, running>>
    BY <1>3, RowMatches1 DEF Inv, Quiet
  <2>2. PICK at, pc : /\ s'[w] = [s[w] EXCEPT !.pc = pc, !.at = at]
                      /\ (pc = "first" /\ s[w].op = "update") \/ pc = "delete"
    BY <1>3, RowMatches1 DEF Inv
  <2>3. /\ SamePlace(s[w], s'[w]) /\ s'[w].pc = pc /\ s'[w].op = s[w].op
    BY <1>1, <2>2 DEF SamePlace, Locals
  <2>4. Changing(s'[w]) /\ ~HasCopy(s'[w]) /\ ~Changing(s[w]) /\ s'[w].pc # "scan" /\ s'[w].pc # "walk"
    BY <2>1, <2>2, <2>3 DEF Changing, Updating, UpdatePcs, DeletePcs, HasCopy, Second, ExtPcs
  <2>5. Snap(nextXid, running, s'[w])
    BY <1>1, <2>1, <2>3, SnapSame DEF Rec, SamePlace
  <2>6. \A k : RowName(pages, groups, s'[w], k) = RowName(pages, groups, s[w], k)
    BY <2>3 DEF Col, RowName, SamePlace
  <2>7. ASSUME NEW k \in 1..Len(s'[w].old) PROVE OldAt(pages, groups, nextXid, running, s'[w], k)
    <3>1. OldAt(pages, groups, nextXid, running, s[w], k)
      BY <1>1, <2>1, <2>3 DEF Rec, OldOK, SamePlace, HasOld
    <3> QED
      BY <2>3, <2>6, <3>1 DEF OldAt, SamePlace
  <2>8. OldOK(pages, groups, nextXid, running, s'[w])
    BY <2>4, <2>7 DEF OldOK
  <2>9. \A g, i : Passed(s[w], g, i) => Passed(s'[w], g, i)
    BY <2>1, <2>3, <2>4 DEF Passed, SamePlace
  <2>10. Behind(pages, groups, s'[w])
    BY <1>1, <2>1, <2>3, <2>9 DEF Behind, Rec, Scanning, SamePlace, Reading
  <2>11. Rec(pages, groups, nextXid, running, s'[w])
    BY <2>5, <2>8, <2>10 DEF Rec
  <2> QED
    BY <2>1, <2>3, <2>11, QuietChain DEF SamePlace
<1>4. CASE RowDiffers(w)
  <2>1. /\ Step1(w) /\ s[w].pc = "found" /\ UNCHANGED <<pages, groups, nextXid, running>> /\ s'[w] = RowNext(s[w])
    BY <1>4, RowDiffers1 DEF Inv, Quiet
  <2>2. Rec(pages, groups, nextXid, running, s'[w]) /\ s'[w].xid = s[w].xid
    BY <1>1, <2>1, RowNextRec, RowNextFields DEF Reading
  <2> QED
    BY <2>1, <2>2, QuietChain
<1> QED
  BY <1>2, <1>3, <1>4

LEMMA DoneXid ==
  ASSUME NEW r \in Locals
  PROVE  /\ \A f : Done(r, f).xid = r.xid
         /\ \A seen, v : Back(r, seen, v).xid = r.xid
<1>1. ASSUME NEW f PROVE Done(r, f).xid = r.xid
  <2>1. PICK old : old = r.old \o f
    OBVIOUS
  <2>2. PICK b : b = (f = << >>)
    OBVIOUS
  <2>3. \/ Done(r, f) = [r EXCEPT !.pc = "column", !.c = @ + 1, !.old = old, !.skip = b]
        \/ Done(r, f) = RowNext(r)
        \/ Done(r, f) = [r EXCEPT !.pc = "found", !.c = 1, !.old = old]
    BY <2>1, <2>2 DEF Done
  <2>4. [r EXCEPT !.pc = "column", !.c = @ + 1, !.old = old, !.skip = b].xid = r.xid
    BY DEF Locals
  <2>5. [r EXCEPT !.pc = "found", !.c = 1, !.old = old].xid = r.xid
    BY DEF Locals
  <2> QED
    BY <2>3, <2>4, <2>5, RowNextFields
<1>2. ASSUME NEW u PROVE [r EXCEPT !.pc = "walk", !.pos = u].xid = r.xid
  BY DEF Locals
<1> QED
  BY <1>1, <1>2 DEF Back

LEMMA ScanColumnChain ==
  ASSUME Inv, Chained3, NEW w \in Workers, ScanColumn(w)
  PROVE  Chained3'
<1>1. /\ s[w] \in Locals /\ pages \in Files /\ groups \in Groups /\ Shape(pages, groups, s[w])
      /\ AllLinked(pages) /\ Rec(pages, groups, nextXid, running, s[w])
  BY Known DEF Inv, Chained3
<1>2. /\ Step1(w) /\ s[w].pc = "column" /\ UNCHANGED <<pages, groups, nextXid, running>> /\ Origin(w) \in PageNos
  BY ScanColumn1 DEF Inv, Quiet
<1>3. CASE s'[w] = [s[w] EXCEPT !.pc = "scan"]
  <2>1. PICK q : q = s'[w]
    OBVIOUS
  <2>2. q.pc = "scan" /\ q.xid = s[w].xid /\ q.active = s[w].active /\ q.g = s[w].g
    BY <1>1, <1>3, <2>1 DEF Locals
  <2>3. Snap(nextXid, running, q)
    BY <1>1, <1>2, <2>2, SnapSame DEF Rec
  <2>4. OldOK(pages, groups, nextXid, running, q)
    BY <2>2 DEF OldOK, HasOld, HasCopy, Changing, Updating, UpdatePcs, ExtPcs, DeletePcs
  <2>5. \A g, i : Passed(s[w], g, i) => Passed(q, g, i)
    BY <2>2 DEF Passed
  <2>6. Behind(pages, groups, q)
    BY <1>1, <1>2, <2>2, <2>5 DEF Behind, Rec, Scanning, Reading
  <2>7. Rec(pages, groups, nextXid, running, s'[w])
    BY <2>1, <2>3, <2>4, <2>6 DEF Rec
  <2> QED
    BY <1>2, <2>1, <2>2, <2>7, QuietChain
<1>4. CASE s'[w] = Done(s[w], << >>)
  <2>1. Rec(pages, groups, nextXid, running, s'[w]) /\ s'[w].xid = s[w].xid
    BY <1>1, <1>2, <1>4, NoneRec, DoneXid
  <2> QED
    BY <1>2, <2>1, QuietChain
<1>5. CASE /\ s[w].i \in 1..Len(pages[Origin(w)].items) /\ ~s[w].skip
           /\ \E seen \in BOOLEAN :
                LET v == pages[Origin(w)].items[s[w].i].ver
                IN  (seen <=> Visible(w, v)) /\ s'[w] = Back(s[w], seen, v)
  <2>1. PICK v : v = pages[Origin(w)].items[s[w].i].ver
    OBVIOUS
  <2>2. PICK seen \in BOOLEAN : (seen <=> Visible(w, v)) /\ s'[w] = Back(s[w], seen, v)
    BY <1>5, <2>1
  <2>3. v \in Versions
    BY <1>1, <1>2, <1>5, <2>1, ItemIs
  <2>4. VersionOK(pages, nextXid, running, pages[Origin(w)].type, v)
    BY <1>2, <1>5, <2>1 DEF Chained3, VersionsOK
  <2>5. /\ s[w].c \in 1..Len(s[w].cols) /\ s[w].high = s[w].xid /\ s[w].xid \in Nat /\ s[w].cols[s[w].c] \in Cols
        /\ s[w].g \in 1..Len(groups) /\ Len(s[w].old) = s[w].c - 1
    <3>1. /\ s[w].c \in 1..Len(s[w].cols) /\ s[w].high = s[w].xid /\ s[w].xid \in Nat /\ s[w].cols[s[w].c] \in Cols
      BY <1>1, <1>2, InStatement DEF Shape
    <3>2. s[w].g \in 1..Len(groups) /\ Len(s[w].old) = s[w].c - 1
      BY <1>1, <1>2, <1>5 DEF Shape, RowAt, Reading, Scanned
    <3> QED
      BY <3>1, <3>2
  <2>6. Origin(w) = Col(groups, s[w], s[w].c) /\ Origin(w) = groups[s[w].g][s[w].cols[s[w].c]]
    BY OriginIs DEF Origin
  <2>7. v.row = RowName(pages, groups, s[w], s[w].c)
    BY <2>1, <2>6 DEF RowName
  <2>8. v.tmin # s[w].xid
    <3>1. ~Passed(s[w], s[w].g, s[w].i)
      <4>1. s[w].g \in Nat /\ s[w].i \in Nat
        BY <1>1, LocalFields
      <4> QED
        BY <1>2, <4>1 DEF Passed, Changing, Updating, UpdatePcs, ExtPcs, DeletePcs
    <3> QED
      BY <1>1, <1>2, <1>5, <2>1, <2>5, <2>6, <3>1 DEF Rec, Behind, Scanning, Reading
  <2>9. seen => Fin(nextXid, running, v.tmin) /\ v.tmin < s[w].xid
    <3>1. nextXid \in Nat
      BY DEF Inv, Inv1, Types
    <3> QED
      BY <1>1, <1>2, <2>2, <2>4, <2>5, <2>8, <3>1, SeenIs DEF VersionOK, Rec
  <2>10. HasOld(s[w])
    BY <1>2, <1>5 DEF HasOld
  <2>11. Rec(pages, groups, nextXid, running, Back(s[w], seen, v))
    BY <1>1, <1>2, <2>3, <2>4, <2>5, <2>7, <2>9, <2>10, BackRec DEF VersionOK
  <2>12. s'[w].xid = s[w].xid
    BY <1>1, <2>2, DoneXid
  <2> QED
    BY <1>2, <2>2, <2>11, <2>12, QuietChain
<1> QED
  BY <1>3, <1>4, <1>5, ScanColumn1 DEF Inv

LEMMA CurrentReadChain ==
  ASSUME Inv, Chained3, NEW w \in Workers, CurrentReadVersion(w)
  PROVE  Chained3'
<1>1. /\ s[w] \in Locals /\ pages \in Files /\ groups \in Groups /\ Shape(pages, groups, s[w])
      /\ AllLinked(pages) /\ Rec(pages, groups, nextXid, running, s[w])
  BY Known DEF Inv, Chained3
<1>2. /\ Step1(w) /\ s[w].pc = "walk" /\ UNCHANGED <<pages, groups, nextXid, running>> /\ InPage(pages, s[w].pos)
  BY CurrentRead1 DEF Inv
<1>3. PICK v : v = pages[s[w].pos.page].items[s[w].pos.item].ver
  OBVIOUS
<1>4. PICK seen \in BOOLEAN : (seen <=> Visible(w, v)) /\ s'[w] = Back(s[w], seen, v)
  BY <1>3, CurrentRead1 DEF Inv
<1>5. v \in Versions
  BY <1>1, <1>2, <1>3, ItemIs DEF InPage
<1>6. VersionOK(pages, nextXid, running, pages[s[w].pos.page].type, v)
  BY <1>2, <1>3 DEF Chained3, VersionsOK, InPage
<1>7. /\ s[w].c \in 1..Len(s[w].cols) /\ s[w].high = s[w].xid /\ s[w].xid \in Nat
      /\ Len(s[w].old) = s[w].c - 1
  <2>1. /\ s[w].c \in 1..Len(s[w].cols) /\ s[w].high = s[w].xid /\ s[w].xid \in Nat
    BY <1>1, <1>2, InStatement DEF Shape
  <2>2. Len(s[w].old) = s[w].c - 1
    BY <1>1, <1>2 DEF Shape, Scanned
  <2> QED
    BY <2>1, <2>2
<1>8. v.row = RowName(pages, groups, s[w], s[w].c) /\ pages[s[w].pos.page].type = "undo"
  BY <1>1, <1>2, <1>3 DEF Rec, OldOK, Ver
<1>9. v.tmin # s[w].xid
  BY <1>1, <1>2, <1>6, <1>8 DEF VersionOK, Rec, Snap
<1>10. seen => Fin(nextXid, running, v.tmin) /\ v.tmin < s[w].xid
  <2>1. nextXid \in Nat
    BY DEF Inv, Inv1, Types
  <2> QED
    BY <1>1, <1>2, <1>4, <1>6, <1>7, <1>9, <2>1, SeenIs DEF VersionOK, Rec
<1>11. HasOld(s[w])
  BY <1>2 DEF HasOld
<1>12. Rec(pages, groups, nextXid, running, Back(s[w], seen, v))
  BY <1>1, <1>2, <1>5, <1>6, <1>7, <1>8, <1>10, <1>11, BackRec DEF VersionOK
<1>13. s'[w].xid = s[w].xid
  BY <1>1, <1>4, DoneXid
<1> QED
  BY <1>2, <1>4, <1>12, <1>13, QuietChain

LEMMA OldFacts ==
  ASSUME Inv, Chained3, NEW w \in Workers, s[w].pc \in {"move", "inplace", "grow", "newrow", "remove"}
  PROVE  /\ Chain(pages, Old(w)) /\ Old(w).row = pages[Origin(w)].items[s[w].i].ver.row
         /\ Old(w).tmin \in 1..(nextXid - 1) /\ Old(w).tmin \notin running
         /\ s[w].xid \in running /\ s[w].xid \in 1..(nextXid - 1) /\ s[w].xid \in Xids
         /\ s[w].pc \in {"inplace", "grow", "newrow"} =>
              Changed(w).row = Old(w).row /\ Changed(w).tmin = s[w].xid /\ Chain(pages, Changed(w))
<1>1. /\ s[w] \in Locals /\ pages \in Files /\ groups \in Groups /\ Shape(pages, groups, s[w])
      /\ Rec(pages, groups, nextXid, running, s[w])
  BY Known DEF Inv, Chained3
<1>2. /\ Changing(s[w]) /\ s[w].pc # "idle" /\ s[w].c \in 1..Len(s[w].cols) /\ Len(s[w].old) = Len(s[w].cols)
      /\ s[w].pc \in UpdatePcs => s[w].op = "update"
  BY <1>1, ChangingIs DEF UpdatePcs, DeletePcs
<1>3. OldAt(pages, groups, nextXid, running, s[w], s[w].c)
  BY <1>1, <1>2 DEF Rec, OldOK, HasOld
<1>4. Old(w) = s[w].old[s[w].c] /\ Origin(w) = Col(groups, s[w], s[w].c)
  BY OriginIs DEF Old
<1>5. /\ Chain(pages, Old(w)) /\ Old(w).row = pages[Origin(w)].items[s[w].i].ver.row
      /\ Fin(nextXid, running, Old(w).tmin) /\ Old(w).tmin < s[w].xid
  BY <1>3, <1>4 DEF OldAt, RowName
<1>6. s[w].xid \in running /\ s[w].xid \in 1..(nextXid - 1)
  BY <1>1, <1>2 DEF Rec, Snap, Inv, Inv1, Types
<1>7. s[w].xid \in Xids
  BY <1>1, LocalFields
<1>8. ASSUME s[w].pc \in {"inplace", "grow", "newrow"}
      PROVE  Changed(w).row = Old(w).row /\ Changed(w).tmin = s[w].xid /\ Chain(pages, Changed(w))
  <2>1. HasCopy(s[w])
    BY <1>2, <1>8 DEF HasCopy, Updating, UpdatePcs
  <2>2. InUndo(pages, s[w].upos)
    BY <1>1, <2>1 DEF Rec, OldOK, InUndo, Shape, Scanned
  <2>3. PICK v : v = Changed(w)
    OBVIOUS
  <2>4. v.row = Old(w).row /\ v.tmin = s[w].xid /\ v.undo = s[w].upos
    BY <2>3 DEF Changed, NewVersion
  <2>5. /\ Ver(pages, s[w].upos).row = Old(w).row /\ Ver(pages, s[w].upos).tmin = Old(w).tmin
        /\ Ver(pages, s[w].upos).tmax = s[w].xid
    BY <1>1, <1>4, <2>1 DEF Rec, OldOK
  <2>6. Chain(pages, v)
    BY <1>5, <2>2, <2>4, <2>5 DEF Chain
  <2> QED
    BY <2>3, <2>4, <2>6
<1> QED
  BY <1>5, <1>6, <1>7, <1>8 DEF Fin

\* The end of a write.
LEMMA WrittenChain ==
  ASSUME Inv, Inv', Chained3, NEW w \in Workers, Step1(w), UNCHANGED <<groups, nextXid, running>>,
         s[w].pc \in {"inplace", "grow", "newrow", "remove"},
         NEW pc, pc = IF s[w].pc = "remove" THEN "delete" ELSE "first", s'[w] = ColumnNext(s[w], pc),
         Keeps(pages, pages'), NewOK(pages, pages', s[w].xid, nextXid, running),
         WroteAt(pages, pages', Origin(w), s[w].i)
  PROVE  Chained3'
<1>1. /\ Rec(pages', groups, nextXid, running, s[w]) /\ s[w] \in Locals /\ s[w].pc # "idle" /\ Changing(s[w])
      /\ s[w].pc \in UpdatePcs => s[w].op = "update"
  BY OwnRec DEF UpdatePcs, DeletePcs
<1>2. (pc = "first" /\ s[w].op = "update") \/ pc = "delete"
  BY <1>1 DEF UpdatePcs
<1>3. Rec(pages', groups, nextXid, running, s'[w])
  BY <1>1, <1>2, ColumnNextRec
<1>4. s'[w].xid = s[w].xid
  <2>1. [s[w] EXCEPT !.pc = pc, !.c = @ + 1].xid = s[w].xid
    BY <1>1 DEF Locals
  <2> QED
    BY <1>1, <2>1, RowNextFields DEF ColumnNext
<1> QED
  BY <1>1, <1>3, <1>4, WriteChain

\* MoveOld: the copy of the old version ends with the identifier of the worker.
LEMMA MoveOldChain ==
  ASSUME Inv, Inv', Chained3, NEW w \in Workers, MoveOld(w)
  PROVE  Chained3'
<1>1. /\ Step1(w) /\ s[w].pc = "move" /\ UNCHANGED <<groups, nextXid, running>>
  BY MoveOld1 DEF Inv
<1>2. PICK n \in Pages, pc \in {"inplace", "grow"}, u \in Positions :
        /\ Writes(pages, pages', s[w].undo, n) /\ Appended(pages[s[w].undo], n, Ended(Old(w), s[w].xid))
        /\ u = [page |-> s[w].undo, item |-> Len(n.items)]
        /\ s'[w] = [s[w] EXCEPT !.pc = pc, !.upos = u]
  BY MoveOld1 DEF Inv
<1>3. /\ Old(w) \in Versions /\ s[w].undo \in PageNos /\ pages \in Files /\ pages' \in Files /\ HasUndo(s[w])
      /\ pages[s[w].undo].type = "undo" /\ Old(w) = s[w].old[s[w].c]
  <2>1. Old(w) \in Versions /\ s[w].undo \in PageNos /\ HasUndo(s[w]) /\ Old(w) = s[w].old[s[w].c]
    BY <1>1, ChangeAt DEF Inv
  <2>2. pages \in Files /\ pages' \in Files
    BY <1>1, Known DEF Inv, Step1
  <2> QED
    BY <2>1, <2>2 DEF Inv, Storage, UseOK
<1>4. /\ Chain(pages, Old(w)) /\ Old(w).tmin \in 1..(nextXid - 1) /\ Old(w).tmin \notin running /\ s[w].xid \in Xids
  BY <1>1, OldFacts
<1>5. PICK e : e = Ended(Old(w), s[w].xid)
  OBVIOUS
<1>6. e.row = Old(w).row /\ e.tmin = Old(w).tmin /\ e.tmax = s[w].xid /\ e.undo = Old(w).undo
  BY <1>3, <1>4, <1>5, EndedIs
<1>7. Chain(pages, e)
  BY <1>4, <1>6 DEF Chain
<1>8. /\ Keeps(pages, pages') /\ NewOK(pages, pages', s[w].xid, nextXid, running) /\ SameTypes(pages, pages')
      /\ WroteAt(pages, pages', Origin(w), s[w].i)
      /\ pages'[s[w].undo].items[Len(pages[s[w].undo].items) + 1].ver = e
  <2>1. PICK p \in PageNos : p = s[w].undo
    BY <1>3
  <2>2. Writes(pages, pages', p, n) /\ Appended(pages[p], n, e)
    BY <1>2, <1>5, <2>1
  <2>3. e.tmin \in 1..(nextXid - 1) /\ e.tmin \notin running /\ pages[p].type = "undo"
    BY <1>3, <1>4, <1>6, <2>1
  <2>4. PICK x : x = s[w].xid
    OBVIOUS
  <2>5. e.tmin = x \/ e.tmin \notin running
    BY <2>3
  <2>6. /\ Keeps(pages, pages') /\ NewOK(pages, pages', x, nextXid, running) /\ SameTypes(pages, pages')
    BY <1>3, <1>7, <2>2, <2>3, <2>5, AppendChain
  <2>7. WroteAt(pages, pages', Origin(w), s[w].i)
    BY <1>3, <1>7, <2>2, <2>3, <2>5, AppendChain
  <2>8. pages'[p].items[Len(pages[p].items) + 1].ver = e
    BY <2>2 DEF Writes, Puts, Appended
  <2> QED
    BY <2>1, <2>4, <2>6, <2>7, <2>8
<1>9. /\ Rec(pages', groups, nextXid, running, s[w]) /\ s[w] \in Locals /\ s[w].op = "update"
  BY <1>1, <1>8, OwnRec DEF UpdatePcs
<1>10. u.page = s[w].undo /\ u.item = Len(pages[s[w].undo].items) + 1
  BY <1>2 DEF Appended
<1>11. /\ pages'[u.page].type = "undo" /\ Ver(pages', u) = e
  BY <1>3, <1>8, <1>10 DEF SameTypes, Ver
<1>12. Rec(pages', groups, nextXid, running, s'[w])
  <2>1. PICK r \in Locals : r = s[w]
    BY <1>9
  <2>2. PICK q : q = s'[w]
    OBVIOUS
  <2>3. /\ Rec(pages', groups, nextXid, running, r) /\ r.pc = "move" /\ r.op = "update"
        /\ q = [r EXCEPT !.pc = pc, !.upos = u]
    BY <1>1, <1>2, <1>9, <2>1, <2>2
  <2>4. /\ Ver(pages', u).row = r.old[r.c].row /\ Ver(pages', u).tmin = r.old[r.c].tmin
        /\ Ver(pages', u).tmax = r.xid
    BY <1>3, <1>6, <1>11, <2>1
  <2>5. Rec(pages', groups, nextXid, running, q)
    BY <1>11, <2>3, <2>4, MoveRec
  <2> QED
    BY <2>2, <2>5
<1>13. s'[w].xid = s[w].xid
  BY <1>2, <1>9 DEF Locals
<1> QED
  BY <1>1, <1>8, <1>12, <1>13, WriteChain

\* WriteInPlace leads to the copy in the undo page; Remove marks the end of the version.
LEMMA ReplaceChain ==
  ASSUME Inv, Inv', Chained3, NEW w \in Workers, WriteInPlace(w) \/ Remove(w)
  PROVE  Chained3'
<1>1. PICK pc, v :
        /\ Step1(w) /\ s[w].pc \in {"inplace", "remove"} /\ UNCHANGED <<groups, nextXid, running>>
        /\ pc = (IF s[w].pc = "remove" THEN "delete" ELSE "first") /\ s'[w] = ColumnNext(s[w], pc)
        /\ v = (IF s[w].pc = "remove" THEN Ended(Old(w), s[w].xid) ELSE Changed(w))
        /\ \E n \in Pages :
              /\ Writes(pages, pages', Origin(w), n)
              /\ \/ n = pages[Origin(w)]
                 \/ Rewritten(pages[Origin(w)], n, s[w].i, WithVer(pages[Origin(w)].items[s[w].i], v))
  <2>1. CASE WriteInPlace(w)
    BY <2>1, WriteInPlace1 DEF Inv
  <2>2. CASE Remove(w)
    BY <2>2, Remove1 DEF Inv
  <2> QED
    BY <2>1, <2>2
<1>2. PICK n \in Pages :
        /\ Writes(pages, pages', Origin(w), n)
        /\ \/ n = pages[Origin(w)]
           \/ Rewritten(pages[Origin(w)], n, s[w].i, WithVer(pages[Origin(w)].items[s[w].i], v))
  BY <1>1
<1>3. /\ Old(w) \in Versions /\ Origin(w) \in PageNos /\ s[w].i \in 1..Len(pages[Origin(w)].items)
      /\ pages \in Files /\ pages' \in Files /\ AllLinked(pages)
      /\ s[w].pc = "inplace" => Changed(w) \in Versions
  BY <1>1, ChangeAt, Known DEF Inv, Step1
<1>4. pages[Origin(w)].type = "data"
  BY <1>1, OriginData DEF UpdatePcs, DeletePcs
<1>5. /\ v \in Versions /\ Chain(pages, v) /\ v.row = pages[Origin(w)].items[s[w].i].ver.row
      /\ v.tmin \in 1..(nextXid - 1) /\ (v.tmin = s[w].xid \/ v.tmin \notin running)
  <2>1. /\ Chain(pages, Old(w)) /\ Old(w).row = pages[Origin(w)].items[s[w].i].ver.row
        /\ Old(w).tmin \in 1..(nextXid - 1) /\ Old(w).tmin \notin running
        /\ s[w].xid \in 1..(nextXid - 1) /\ s[w].xid \in Xids
        /\ s[w].pc = "inplace" =>
              Changed(w).row = Old(w).row /\ Changed(w).tmin = s[w].xid /\ Chain(pages, Changed(w))
    BY <1>1, OldFacts
  <2>2. CASE s[w].pc = "inplace"
    BY <1>1, <1>3, <2>1, <2>2
  <2>3. CASE s[w].pc = "remove"
    <3>1. v = Ended(Old(w), s[w].xid)
      BY <1>1, <2>3
    <3>2. v \in Versions /\ v.row = Old(w).row /\ v.tmin = Old(w).tmin /\ v.undo = Old(w).undo
      BY <1>3, <2>1, <3>1, EndedIs
    <3>3. Chain(pages, v)
      BY <2>1, <3>2 DEF Chain
    <3> QED
      BY <2>1, <3>2, <3>3
  <2> QED
    BY <1>1, <2>2, <2>3
<1>6. PICK y : y = WithVer(pages[Origin(w)].items[s[w].i], v)
  OBVIOUS
<1>7. y.ver = v
  <2>1. pages[Origin(w)].items[s[w].i] \in Items
    BY <1>3, ItemIs
  <2> QED
    BY <1>5, <1>6, <2>1, EntryIs
<1>8. /\ Keeps(pages, pages') /\ NewOK(pages, pages', s[w].xid, nextXid, running)
      /\ WroteAt(pages, pages', Origin(w), s[w].i)
  BY <1>2, <1>3, <1>4, <1>5, <1>6, <1>7, RewriteChain
<1> QED
  BY <1>1, <1>8, WrittenChain

\* Grow: the new version finds room elsewhere on the page, or the search goes on.
LEMMA GrowChain ==
  ASSUME Inv, Inv', Chained3, NEW w \in Workers, Grow(w)
  PROVE  Chained3'
<1>1. Step1(w) /\ s[w].pc = "grow" /\ UNCHANGED <<groups, nextXid, running>>
  BY Grow1 DEF Inv
<1>2. CASE /\ s'[w] = ColumnNext(s[w], "first")
           /\ \E n \in Pages :
                /\ Writes(pages, pages', Origin(w), n)
                /\ Rewritten(pages[Origin(w)], n, s[w].i, MovedTo(pages[Origin(w)].items[s[w].i], Changed(w)))
  <2>1. PICK n \in Pages :
          /\ Writes(pages, pages', Origin(w), n)
          /\ Rewritten(pages[Origin(w)], n, s[w].i, MovedTo(pages[Origin(w)].items[s[w].i], Changed(w)))
    BY <1>2
  <2>2. /\ Origin(w) \in PageNos /\ s[w].i \in 1..Len(pages[Origin(w)].items)
        /\ pages \in Files /\ pages' \in Files /\ AllLinked(pages) /\ Changed(w) \in Versions
    BY <1>1, ChangeAt, Known DEF Inv, Step1
  <2>3. pages[Origin(w)].type = "data"
    BY <1>1, OriginData DEF UpdatePcs
  <2>4. /\ Old(w).row = pages[Origin(w)].items[s[w].i].ver.row /\ s[w].xid \in 1..(nextXid - 1)
        /\ Changed(w).row = Old(w).row /\ Changed(w).tmin = s[w].xid /\ Chain(pages, Changed(w))
    BY <1>1, OldFacts
  <2>5. PICK y : y = MovedTo(pages[Origin(w)].items[s[w].i], Changed(w))
    OBVIOUS
  <2>6. y.ver = Changed(w)
    <3>1. pages[Origin(w)].items[s[w].i] \in Items
      BY <2>2, ItemIs
    <3> QED
      BY <2>2, <2>5, <3>1, EntryIs
  <2>7. PICK x : x = s[w].xid
    OBVIOUS
  <2>8. /\ Rewritten(pages[Origin(w)], n, s[w].i, y) /\ Chain(pages, y.ver) /\ y.ver.tmin = x
        /\ y.ver.tmin \in 1..(nextXid - 1) /\ y.ver.row = pages[Origin(w)].items[s[w].i].ver.row
    BY <2>1, <2>4, <2>5, <2>6, <2>7
  <2>9. /\ Keeps(pages, pages') /\ NewOK(pages, pages', x, nextXid, running)
        /\ WroteAt(pages, pages', Origin(w), s[w].i)
    BY <2>1, <2>2, <2>3, <2>8, RewriteChain
  <2> QED
    BY <1>1, <1>2, <2>7, <2>9, WrittenChain
<1>3. CASE /\ pages' = pages
           /\ s'[w] = [s[w] EXCEPT !.kind = "ext", !.num = 1,
                         !.pc = IF ChainHead(pages[Col(groups, s[w], s[w].c)], "ext") = INVALID_PAGE_NUM
                                THEN "startext" ELSE "chain"]
  <2>1. s[w] \in Locals /\ Changing(s[w]) /\ s[w].pc # "idle" /\ s[w].op = "update"
    BY <1>1, AtUpdate DEF UpdatePcs
  <2>2. PICK pc \in {"startext", "chain"} : s'[w] = [s[w] EXCEPT !.kind = "ext", !.num = 1, !.pc = pc]
    BY <1>3
  <2>3. /\ SamePlace(s[w], s'[w]) /\ s'[w].pc = pc /\ s'[w].op = s[w].op /\ s'[w].c = s[w].c /\ s'[w].upos = s[w].upos
    BY <2>1, <2>2 DEF SamePlace, Locals
  <2>4. Changing(s'[w]) /\ HasCopy(s[w])
    BY <1>1, <2>1, <2>2, <2>3 DEF Changing, Updating, UpdatePcs, ExtPcs, HasCopy
  <2> QED
    BY <1>1, <1>3, <2>1, <2>3, <2>4, ChangeChain
<1>4. CASE pages' = pages /\ s'[w] = [s[w] EXCEPT !.pc = "end"]
  BY <1>1, <1>4, EndsChain
<1> QED
  BY <1>2, <1>3, <1>4, Grow1 DEF Inv

\* WriteNewRow: the new version goes to another page, and the entry leads there.
LEMMA NewRowChain ==
  ASSUME Inv, Inv', Chained3, NEW w \in Workers, WriteNewRow(w)
  PROVE  Chained3'
<1>1. /\ Step1(w) /\ s[w].pc = "newrow" /\ UNCHANGED <<groups, nextXid, running>>
      /\ s'[w] = ColumnNext(s[w], "first") /\ s[w].new \in PageNos /\ s[w].new # Origin(w)
  BY WriteNewRow1
<1>2. PICK M \in Files, m \in Pages, n \in Pages :
        /\ Writes(pages, M, s[w].new, m) /\ Appended(pages[s[w].new], m, Changed(w))
        /\ M[Origin(w)] = pages[Origin(w)]
        /\ Writes(M, pages', Origin(w), n)
        /\ Rewritten(pages[Origin(w)], n, s[w].i, MovedAway(pages[Origin(w)].items[s[w].i]))
  BY WriteNewRow1
<1>3. /\ Origin(w) \in PageNos /\ s[w].i \in 1..Len(pages[Origin(w)].items)
      /\ pages \in Files /\ pages' \in Files /\ AllLinked(pages) /\ Changed(w) \in Versions
  BY <1>1, ChangeAt, Known DEF Inv, Step1
<1>4. pages[s[w].new].type = "ext"
  BY <1>1 DEF Inv, Storage, UseOK
<1>5. s[w].xid \in 1..(nextXid - 1) /\ Changed(w).tmin = s[w].xid /\ Chain(pages, Changed(w))
  BY <1>1, OldFacts
<1>6. PICK x : x = s[w].xid
  OBVIOUS
<1>7. PICK p \in PageNos : p = s[w].new
  BY <1>1
<1>8. PICK v : v = Changed(w)
  OBVIOUS
<1>9. /\ Writes(pages, M, p, m) /\ Appended(pages[p], m, v) /\ pages[p].type = "ext" /\ Chain(pages, v)
      /\ v.tmin \in 1..(nextXid - 1) /\ v.tmin = x
  BY <1>2, <1>4, <1>5, <1>6, <1>7, <1>8
<1>10. Keeps(pages, M) /\ NewOK(pages, M, x, nextXid, running) /\ SameTypes(pages, M)
  BY <1>3, <1>9, AppendChain
<1>11. WroteAt(pages, M, Origin(w), s[w].i)
  BY <1>3, <1>9, AppendChain
<1>12. SameVers(M, pages')
  <2>1. /\ pages'[Origin(w)] = n /\ \A q \in PageNos : q # Origin(w) => pages'[q] = M[q]
        /\ n.type = M[Origin(w)].type
    BY <1>2 DEF Writes, Puts, SameHead
  <2>2. PICK a : a = pages[Origin(w)].items[s[w].i]
    OBVIOUS
  <2>3. MovedAway(a).ver = a.ver
    BY <1>3, <2>2, ItemIs, MovedAwayIs
  <2>4. PICK y : y = MovedAway(a)
    OBVIOUS
  <2>5. /\ Len(n.items) = Len(M[Origin(w)].items) /\ n.items[s[w].i].ver = M[Origin(w)].items[s[w].i].ver
        /\ \A j \in 1..Len(M[Origin(w)].items) : j # s[w].i => n.items[j] = M[Origin(w)].items[j]
    BY <1>2, <2>2, <2>3, <2>4 DEF Rewritten
  <2> QED
    BY <2>1, <2>5 DEF SameVers
<1>13. /\ Keeps(pages, pages') /\ NewOK(pages, pages', x, nextXid, running)
       /\ WroteAt(pages, pages', Origin(w), s[w].i)
  BY <1>3, <1>10, <1>11, <1>12, SameVersKeep
<1> QED
  BY <1>1, <1>6, <1>13, WrittenChain

\* Every step keeps the chains.
LEMMA NextChain ==
  ASSUME Inv, Inv', Chained3, Next
  PROVE  Chained3'
<1>1. PICK w \in Workers : Insert(w) \/ Extension(w) \/ Scan(w) \/ Update(w) \/ Delete(w) \/ EndStatement(w)
  BY DEF Next
<1>2. CASE Insert(w)
  BY <1>2, StartChain, InsertChain, WriteColumnChain, GroupItemChain DEF Insert
<1>3. CASE Extension(w)
  BY <1>3, StartExtensionChain, AddPageChain DEF Extension
<1>4. CASE Scan(w)
  BY <1>4, ScanStepsChain, ScanColumnChain, CurrentReadChain DEF Scan
<1>5. CASE Update(w)
  BY <1>5, StartChain, LockingChain, LinkPageChain, MoveOldChain, ReplaceChain, GrowChain, NewRowChain DEF Update
<1>6. CASE Delete(w)
  BY <1>6, StartChain, LockingChain, ReplaceChain DEF Delete
<1>7. CASE EndStatement(w)
  BY <1>7, EndChain
<1> QED
  BY <1>1, <1>2, <1>3, <1>4, <1>5, <1>6, <1>7

LEMMA StutterChain ==
  ASSUME Chained3, UNCHANGED vars
  PROVE  Chained3'
BY DEF Chained3, Distinct, vars

\* An empty table.
LEMMA InitChain ==
  ASSUME Init
  PROVE  Chained3
<1>1. /\ \A p \in PageNos : pages[p].items = << >>
      /\ \A w \in Workers : s[w].pc = "idle"
  <2>1. NoPage.items = << >> /\ Idle.pc = "idle"
    BY FreshPagesAre DEF Idle
  <2> QED
    BY <2>1 DEF Init
<1>2. VersionsOK(pages, nextXid, running)
  BY <1>1 DEF VersionsOK
<1>3. Distinct
  BY <1>1 DEF Distinct
<1>4. \A w \in Workers : Rec(pages, groups, nextXid, running, s[w])
  BY <1>1, NoScan DEF Rec, Snap
<1> QED
  BY <1>2, <1>3, <1>4 DEF Chained3

LEMMA InvChain == Inv /\ Chained3 => VersionChain
<1> SUFFICES ASSUME Inv, Chained3, NEW p \in PageNos, NEW i \in DOMAIN pages[p].items,
                    pages[p].items[i].ver.undo # NoPosition
             PROVE  LET v == pages[p].items[i].ver
                        u == v.undo
                    IN  /\ pages[u.page].type = "undo"
                        /\ u.item \in DOMAIN pages[u.page].items
                        /\ LET o == pages[u.page].items[u.item].ver
                           IN  o.row = v.row /\ o.tmin < v.tmin /\ o.tmax = v.tmin
  BY DEF VersionChain
<1>1. \A q \in PageNos : DOMAIN pages[q].items = 1..Len(pages[q].items)
  <2>1. \A q \in PageNos : pages[q].items \in Seq(Items)
    BY PageFields DEF Inv, Inv1, Types, Files
  <2> QED
    BY <2>1
<1>2. PICK v : v = pages[p].items[i].ver
  OBVIOUS
<1>3. Chain(pages, v)
  BY <1>1, <1>2 DEF Chained3, VersionsOK, VersionOK
<1>4. /\ InUndo(pages, v.undo) /\ Ver(pages, v.undo).row = v.row
      /\ Ver(pages, v.undo).tmin < v.tmin /\ Ver(pages, v.undo).tmax = v.tmin
  BY <1>2, <1>3 DEF Chain
<1>5. v.undo.page \in PageNos /\ v.undo.item \in 1..Len(pages[v.undo.page].items) /\ pages[v.undo.page].type = "undo"
  BY <1>4 DEF InUndo, InPage
<1>6. v.undo.item \in DOMAIN pages[v.undo.page].items
  BY <1>1, <1>5
<1> QED
  BY <1>2, <1>4, <1>5, <1>6 DEF Ver

\* pax_ExecUpdate leaves a chain of versions that CurrentReadVersion can follow: each leads to an
\* older version of the same row, in an undo page, that ended when the newer one began.  However
\* many updates and deletes are under way, also when some of them worked on stale copies, and
\* whether or not the disk has run full.  Of versions whose older version lies on an undo page that
\* two updates have overdrawn the theorem says nothing: their chains are lost (VersionChain).
THEOREM ModifyChains ==
  ASSUME LocksFit
  PROVE  Spec => []VersionChain
<1>1. Init => Inv /\ Chained3
  BY InitInv, InitChain
<1>2. Inv /\ Chained3 /\ [Next]_vars => (Inv /\ Chained3)'
  BY NextInv, StutterInv, NextChain, StutterChain
<1> QED
  BY <1>1, <1>2, InvChain, PTL DEF Spec

-----------------------------------------------------------------------------
(* The columns of a row *)

Length(P, G, g, c) == Len(P[G[g][c]].items)
RowOf(P, G, g, c, i) == P[G[g][c]].items[i].ver.row

\* Entry i of the pages of a group that have one belongs to one row.
Together(P, G, g) ==
  \A c, d \in Cols : \A i \in 1..Length(P, G, g, c) :
    i <= Length(P, G, g, d) => RowOf(P, G, g, c, i) = RowOf(P, G, g, d, i)
Even(P, G, g) == \A c, d \in Cols : Length(P, G, g, c) = Length(P, G, g, d)

\* An insert that writes has added its row to the columns before the one at hand.
Ahead(P, G, r) ==
  \A k \in Cols :
    /\ Length(P, G, r.g, k) = Length(P, G, r.g, r.c) + Bit(k < r.c)
    /\ k < r.c => RowOf(P, G, r.g, k, Length(P, G, r.g, k)) = r.xid
Fills(r, g) == r.pc = "write" /\ r.g = g
Aligned(g) ==
  /\ Together(pages, groups, g)
  /\ \A w \in Workers : Fills(s[w], g) => Ahead(pages, groups, s[w])
  /\ (\A w \in Workers : ~Fills(s[w], g)) => Even(pages, groups, g)
AllAligned == \A g \in 1..Len(groups) : Aligned(g)

SameRows(P, Q, p) ==
  /\ Len(Q[p].items) = Len(P[p].items)
  /\ \A i \in 1..Len(P[p].items) : Q[p].items[i].ver.row = P[p].items[i].ver.row

LEMMA ColsAre == NumCols \in Nat \ {0} /\ Cols = 1..NumCols
BY TableSpaceAssumption DEF Cols

\* The lengths of the pages of a group are numbers.
LEMMA LengthIs ==
  ASSUME NEW P \in Files, NEW G \in Groups, NEW g \in 1..Len(G), NEW c \in Cols
  PROVE  G[g][c] \in PageNos /\ Length(P, G, g, c) \in Nat
<1>1. G[g][c] \in PageNos
  BY DEF Groups
<1> QED
  BY <1>1, PageFields DEF Files, Length

\* What is said of a group is about the lengths and the rows of its pages alone.
LEMMA AlignedKept ==
  ASSUME NEW P \in Files, NEW Q \in Files, NEW G \in Groups, NEW H1 \in Groups, Extends(G, H1), NEW g \in 1..Len(G),
         \A c \in Cols : SameRows(P, Q, G[g][c])
  PROVE  /\ Together(P, G, g) => Together(Q, H1, g)
         /\ Even(P, G, g) => Even(Q, H1, g)
         /\ \A r : r.g = g /\ r.c \in Cols /\ Ahead(P, G, r) => Ahead(Q, H1, r)
<1>1. H1[g] = G[g]
  BY DEF Extends
<1>2. \A c \in Cols : Length(Q, H1, g, c) = Length(P, G, g, c) /\ Length(P, G, g, c) \in Nat
  BY <1>1, LengthIs DEF Length, SameRows
<1>3. \A c \in Cols : \A i \in 1..Length(P, G, g, c) : RowOf(Q, H1, g, c, i) = RowOf(P, G, g, c, i)
  BY <1>1 DEF Length, SameRows, RowOf
<1>4. Together(P, G, g) => Together(Q, H1, g)
  BY <1>2, <1>3 DEF Together
<1>5. Even(P, G, g) => Even(Q, H1, g)
  BY <1>2 DEF Even
<1>6. ASSUME NEW r, r.g = g, r.c \in Cols, Ahead(P, G, r), NEW k \in Cols
      PROVE  /\ Length(Q, H1, r.g, k) = Length(Q, H1, r.g, r.c) + Bit(k < r.c)
             /\ k < r.c => RowOf(Q, H1, r.g, k, Length(Q, H1, r.g, k)) = r.xid
  <2>1. /\ Length(P, G, g, k) = Length(P, G, g, r.c) + Bit(k < r.c)
        /\ k < r.c => RowOf(P, G, g, k, Length(P, G, g, k)) = r.xid
    BY <1>6 DEF Ahead
  <2>2. Length(Q, H1, r.g, k) = Length(Q, H1, r.g, r.c) + Bit(k < r.c)
    BY <1>2, <1>6, <2>1
  <2>3. k < r.c => Length(P, G, g, k) \in 1..Length(P, G, g, k)
    BY <1>2, <1>6, <2>1 DEF Bit
  <2> QED
    BY <1>2, <1>3, <1>6, <2>1, <2>2, <2>3
<1>7. \A r : r.g = g /\ r.c \in Cols /\ Ahead(P, G, r) => Ahead(Q, H1, r)
  BY <1>6 DEF Ahead
<1> QED
  BY <1>4, <1>5, <1>7

\* LockGroupPages: the insert holds the pages of all columns.
LEMMA GroupOwner ==
  ASSUME Inv, pageCnt <= MaxPages, NEW w \in Workers, s[w].pc \in {"check", "write"}, NEW c \in Cols
  PROVE  /\ groups[s[w].g][c] \in PageNos /\ groups[s[w].g][c] = s[w].plist[c]
         /\ locks.rw[groups[s[w].g][c]].writer = w /\ Holds(w, groups[s[w].g][c])
<1>1. /\ \A k \in 1..NumCols :
           /\ s[w].plist[k] = groups[s[w].g][k]
           /\ s[w].plist[k] \in PageNos /\ s[w].plist[k] \in Locks
      /\ Has(locks, Locks, w, Firsts(s[w].plist, GroupLocks(s[w])), GroupLocks(s[w]))
  BY InsertAt DEF GroupPcs
<1>2. GroupLocks(s[w]) = NumCols /\ NumCols \in Nat
  BY ColsAre DEF GroupLocks
<1>3. PICK l \in Locks : l = s[w].plist[c] /\ l = groups[s[w].g][c] /\ l \in PageNos
  BY <1>1, ColsAre
<1>4. Firsts(s[w].plist, NumCols)[l] = 1
  BY <1>3, ColsAre DEF Firsts, Bit
<1>5. Has(locks, Locks, w, Firsts(s[w].plist, NumCols), NumCols)
  BY <1>1, <1>2
<1>6. /\ locks.rw[l].writer = w /\ \E i \in 1..NumCols : locks.tab[w][i].lock = l
      /\ Len(locks.tab[w]) = NumCols
  BY <1>4, <1>5 DEF Has
<1>7. Holds(w, l)
  <2>1. PICK t : t = locks.tab[w]
    OBVIOUS
  <2>2. t \in Seq(TabEntries(Locks))
    BY <2>1 DEF Inv, Inv1, Types, LockStates
  <2>3. DOMAIN t = 1..NumCols
    BY <1>6, <2>1, <2>2
  <2> QED
    BY <1>6, <2>1, <2>3 DEF Holds
<1> QED
  BY <1>3, <1>6, <1>7

\* ... and is the only one that does.
LEMMA OneWriter ==
  ASSUME Inv, pageCnt <= MaxPages, NEW v \in Workers, NEW w \in Workers, s[v].pc \in {"check", "write"},
         s[w].pc \in {"check", "write"}, s[v].g = s[w].g
  PROVE  v = w
<1>1. 1 \in Cols
  BY ColsAre
<1> QED
  BY <1>1, GroupOwner

\* The place of an insert that checks or writes.
LEMMA FillsAt ==
  ASSUME Inv, NEW w \in Workers, s[w].pc \in {"check", "write"}
  PROVE  s[w].g \in 1..Len(groups) /\ s[w].c \in Cols /\ (s[w].pc = "check" => s[w].c = 1)
<1>1. s[w].g \in 1..Len(groups) /\ s[w].c \in 1..NumCols
  BY InsertAt DEF GroupPcs
<1>2. s[w].pc = "check" => s[w].c = 1
  BY Known, InsertPages DEF Inv
<1> QED
  BY <1>1, <1>2, ColsAre

\* A step that leaves the rows of the data pages in their places and starts or ends no write.
LEMMA RowsStep ==
  ASSUME Inv, AllAligned, NEW w \in Workers, Step1(w), groups' = groups,
         \A p \in PageNos : pages[p].type = "data" => SameRows(pages, pages', p),
         s[w].pc # "write", s'[w].pc # "write"
  PROVE  AllAligned'
<1> SUFFICES ASSUME NEW g \in 1..Len(groups) PROVE Aligned(g)'
  BY DEF AllAligned
<1>1. /\ pages \in Files /\ pages' \in Files /\ groups \in Groups /\ Extends(groups, groups)
      /\ s' = [s EXCEPT ![w] = s'[w]] /\ s \in [Workers -> Locals]
  BY ExtendsSame DEF Inv, Inv1, Types, Step1
<1>2. \A c \in Cols : SameRows(pages, pages', groups[g][c])
  BY <1>1, LengthIs DEF Inv, Storage, GroupsOK
<1>3. Aligned(g)
  BY DEF AllAligned
<1>4. \A v \in Workers : v # w => s'[v] = s[v]
  BY <1>1
<1>5. Together(pages', groups, g)
  BY <1>1, <1>2, <1>3, AlignedKept DEF Aligned
<1>6. ASSUME NEW v \in Workers, Fills(s'[v], g) PROVE Ahead(pages', groups, s'[v])
  <2>1. v # w /\ s'[v] = s[v] /\ Fills(s[v], g)
    BY <1>4, <1>6 DEF Fills
  <2>2. Ahead(pages, groups, s[v]) /\ s[v].g = g /\ s[v].c \in Cols
    BY <1>3, <2>1, FillsAt DEF Aligned, Fills
  <2> QED
    BY <1>1, <1>2, <2>1, <2>2, AlignedKept
<1>7. (\A v \in Workers : ~Fills(s'[v], g)) => \A v \in Workers : ~Fills(s[v], g)
  BY <1>4 DEF Fills
<1>8. (\A v \in Workers : ~Fills(s'[v], g)) => Even(pages', groups, g)
  BY <1>1, <1>2, <1>3, <1>7, AlignedKept DEF Aligned
<1> QED
  BY <1>5, <1>6, <1>8 DEF Aligned

LEMMA RowsSame ==
  ASSUME NEW P, NEW Q, NEW p, Q[p] = P[p]
  PROVE  SameRows(P, Q, p)
BY DEF SameRows

\* A step that writes no page.
LEMMA QuietRows ==
  ASSUME Inv, AllAligned, NEW w \in Workers, Step1(w), groups' = groups, pages' = pages,
         s[w].pc # "write", s'[w].pc # "write"
  PROVE  AllAligned'
<1>1. \A p \in PageNos : SameRows(pages, pages', p)
  BY RowsSame
<1> QED
  BY <1>1, RowsStep

\* FreeSpaceCheck: the insert that begins to write has all the pages of the group to itself.
LEMMA CheckRows ==
  ASSUME Inv, pageCnt <= MaxPages, AllAligned, NEW w \in Workers, FreeSpaceCheck(w)
  PROVE  AllAligned'
<1>1. Step1(w) /\ s[w].pc = "check" /\ UNCHANGED <<pages, groups>>
  BY FreeSpaceCheck1 DEF Inv, Quiet
<1>2. s[w] \in Locals
  BY Known DEF Inv
<1>3. CASE s'[w] = [s[w] EXCEPT !.pc = "member", !.plist = << >>]
  <2>1. s'[w].pc = "member"
    BY <1>2, <1>3 DEF Locals
  <2> QED
    BY <1>1, <2>1, QuietRows
<1>4. CASE s'[w] = [s[w] EXCEPT !.pc = "write"]
  <2> SUFFICES ASSUME NEW g \in 1..Len(groups) PROVE Aligned(g)'
    BY <1>1 DEF AllAligned
  <2>1. Aligned(g)
    BY DEF AllAligned
  <2>2. s'[w].pc = "write" /\ s'[w].g = s[w].g /\ s'[w].c = 1
    BY <1>1, <1>2, <1>4, FillsAt DEF Locals
  <2>3. \A v \in Workers : v # w => s'[v] = s[v]
    <3>1. s' = [s EXCEPT ![w] = s'[w]] /\ s \in [Workers -> Locals]
      BY <1>1 DEF Inv, Inv1, Types, Step1
    <3> QED
      BY <3>1
  <2>4. CASE s[w].g # g
    <3>1. \A v \in Workers : Fills(s'[v], g) <=> v # w /\ Fills(s[v], g)
      BY <1>1, <2>2, <2>3, <2>4 DEF Fills
    <3>2. ~Fills(s[w], g)
      BY <1>1 DEF Fills
    <3> QED
      BY <1>1, <2>1, <2>3, <3>1, <3>2 DEF Aligned
  <2>5. CASE s[w].g = g
    <3>1. \A v \in Workers : ~Fills(s[v], g)
      BY <1>1, <2>5, OneWriter DEF Fills
    <3>2. Even(pages, groups, g)
      BY <2>1, <3>1 DEF Aligned
    <3>3. Ahead(pages, groups, s'[w])
      <4> SUFFICES ASSUME NEW k \in Cols
                   PROVE  Length(pages, groups, g, k) = Length(pages, groups, g, 1) + Bit(k < 1) /\ ~(k < 1)
        BY <2>2, <2>5 DEF Ahead
      <4>1. Length(pages, groups, g, k) = Length(pages, groups, g, 1) /\ Length(pages, groups, g, 1) \in Nat
        BY <3>2, ColsAre, LengthIs DEF Even, Inv, Inv1, Types
      <4> QED
        BY <4>1, ColsAre DEF Bit
    <3>4. \A v \in Workers : Fills(s'[v], g) => v = w
      BY <2>3, <3>1
    <3>5. Fills(s'[w], g)
      BY <2>2, <2>5 DEF Fills
    <3> QED
      BY <1>1, <2>1, <3>3, <3>4, <3>5 DEF Aligned
  <2> QED
    BY <2>4, <2>5
<1> QED
  BY <1>3, <1>4, FreeSpaceCheck1 DEF Inv

\* InsertGroupItem: the pages of the new group are empty.
LEMMA GroupItemRows ==
  ASSUME Inv, AllAligned, NEW w \in Workers, InsertGroupItem(w)
  PROVE  AllAligned'
<1>1. /\ Step1(w) /\ s[w].pc = "extend" /\ s[w].op = "insert" /\ s[w].num = 0 /\ pages' = pages
  BY InsertGroupItem1
<1>2. s[w] \in Locals /\ pages \in Files /\ groups \in Groups /\ savedCnt \in Nat \ {0} /\ groups' \in Groups
      /\ Extends(groups, groups')
  BY <1>1, Known DEF Inv, Inv1, Types, Step1
<1>3. CASE s'[w] = [s[w] EXCEPT !.pc = "end"] /\ groups' = groups
  <2>1. s'[w].pc = "end"
    BY <1>2, <1>3 DEF Locals
  <2> QED
    BY <1>1, <1>3, <2>1, QuietRows
<1>4. CASE /\ s[w].last \in PageNos /\ groups' = Append(groups, MemberPages(s[w].last))
           /\ MemberPages(s[w].last) \in [Cols -> PageNos] /\ s'[w] = [s[w] EXCEPT !.pc = "group"]
  <2>1. s'[w].pc = "group"
    BY <1>2, <1>4 DEF Locals
  <2>2. \A v \in Workers : v # w => s'[v] = s[v]
    <3>1. s' = [s EXCEPT ![w] = s'[w]] /\ s \in [Workers -> Locals]
      BY <1>1 DEF Inv, Inv1, Types, Step1
    <3> QED
      BY <3>1
  <2>3. \A v \in Workers, g \in Nat : Fills(s'[v], g) => v # w /\ Fills(s[v], g) /\ g \in 1..Len(groups)
    BY <2>1, <2>2, FillsAt DEF Fills
  <2> SUFFICES ASSUME NEW g \in 1..Len(groups') PROVE Aligned(g)'
    BY DEF AllAligned
  <2>4. CASE g \in 1..Len(groups)
    <3>1. Aligned(g)
      BY <2>4 DEF AllAligned
    <3>2. \A c \in Cols : SameRows(pages, pages', groups[g][c])
      BY <1>1, RowsSame
    <3>3. Together(pages', groups', g)
      BY <1>1, <1>2, <2>4, <3>1, <3>2, AlignedKept DEF Aligned
    <3>4. ASSUME NEW v \in Workers, Fills(s'[v], g) PROVE Ahead(pages', groups', s'[v])
      <4>1. v # w /\ s'[v] = s[v] /\ Fills(s[v], g)
        BY <2>2, <2>3, <2>4, <3>4
      <4>2. Ahead(pages, groups, s[v]) /\ s[v].g = g /\ s[v].c \in Cols
        BY <3>1, <4>1, FillsAt DEF Aligned, Fills
      <4> QED
        BY <1>1, <1>2, <2>4, <3>2, <4>1, <4>2, AlignedKept
    <3>5. (\A v \in Workers : ~Fills(s'[v], g)) => \A v \in Workers : ~Fills(s[v], g)
      BY <1>1, <2>2 DEF Fills
    <3>6. (\A v \in Workers : ~Fills(s'[v], g)) => Even(pages', groups', g)
      BY <1>1, <1>2, <2>4, <3>1, <3>2, <3>5, AlignedKept DEF Aligned
    <3> QED
      BY <3>3, <3>4, <3>6 DEF Aligned
  <2>5. CASE g \notin 1..Len(groups)
    <3>1. groups'[g] = MemberPages(s[w].last) /\ g \in Nat
      BY <1>2, <1>4, <2>5 DEF Groups
    <3>2. /\ s[w].last = savedCnt + NumCols
          /\ \A p \in PageNos : p > savedCnt => pages[p] = InitPage \/ pages[p] = NoPage
      BY <1>1, <1>4, Added DEF Batch
    <3>3. \A c \in Cols : MemberPages(s[w].last)[c] \in PageNos /\ MemberPages(s[w].last)[c] > savedCnt
      BY <1>2, <1>4, <3>2, MemberPagesAre
    <3>4. \A c \in Cols : Length(pages', groups', g, c) = 0
      BY <1>1, <3>1, <3>2, <3>3, FreshPagesAre DEF Length
    <3>5. Together(pages', groups', g) /\ Even(pages', groups', g)
      BY <3>4 DEF Together, Even
    <3>6. \A v \in Workers : ~Fills(s'[v], g)
      BY <2>3, <2>5, <3>1
    <3> QED
      BY <3>5, <3>6 DEF Aligned
  <2> QED
    BY <2>4, <2>5
<1> QED
  BY <1>3, <1>4, InsertGroupItem1

\* Column c has one more row.
OneMore(P, Q, G, g, c, row) ==
  \A k \in Cols :
    /\ Length(Q, G, g, k) = Length(P, G, g, k) + Bit(k = c)
    /\ \A i \in 1..Length(P, G, g, k) : RowOf(Q, G, g, k, i) = RowOf(P, G, g, k, i)
    /\ k = c => RowOf(Q, G, g, k, Length(P, G, g, k) + 1) = row

\* The lengths of the pages of a group after one of them is written.
LEMMA WrittenLengths ==
  ASSUME NEW P \in Files, NEW Q \in Files, NEW G \in Groups, NEW g \in 1..Len(G), NEW c \in Cols,
         \A k \in Cols : G[g][k] = G[g][c] => k = c, NEW n, NEW v, Puts(P, Q, G[g][c], n), Appended(P[G[g][c]], n, v)
  PROVE  OneMore(P, Q, G, g, c, v.row)
<1> SUFFICES ASSUME NEW k \in Cols
             PROVE  /\ Length(Q, G, g, k) = Length(P, G, g, k) + Bit(k = c)
                    /\ \A i \in 1..Length(P, G, g, k) : RowOf(Q, G, g, k, i) = RowOf(P, G, g, k, i)
                    /\ k = c => RowOf(Q, G, g, k, Length(P, G, g, k) + 1) = v.row
  BY DEF OneMore
<1>1. G[g][k] \in PageNos /\ Length(P, G, g, k) \in Nat
  BY LengthIs
<1>2. CASE k # c
  BY <1>1, <1>2 DEF Puts, Length, RowOf, Bit
<1>3. CASE k = c
  <2>1. Q[G[g][c]] = n
    BY DEF Puts
  <2>2. /\ Len(n.items) = Len(P[G[g][c]].items) + 1
        /\ \A i \in 1..Len(P[G[g][c]].items) : n.items[i] = P[G[g][c]].items[i]
        /\ n.items[Len(P[G[g][c]].items) + 1].ver = v
    BY DEF Appended
  <2> QED
    BY <1>3, <2>1, <2>2 DEF Length, RowOf, Bit
<1> QED
  BY <1>2, <1>3

\* One more column of the row: the pages up to it have the row, the others do not yet.
LEMMA ColumnWritten ==
  ASSUME NEW P \in Files, NEW Q \in Files, NEW G \in Groups, NEW r, r.g \in 1..Len(G), r.c \in Cols,
         \A k \in Cols : G[r.g][k] = G[r.g][r.c] => k = r.c,
         NEW n, NEW v, Puts(P, Q, G[r.g][r.c], n), Appended(P[G[r.g][r.c]], n, v), v.row = r.xid,
         Together(P, G, r.g), Ahead(P, G, r)
  PROVE  /\ Together(Q, G, r.g)
         /\ \A q : q.g = r.g /\ q.xid = r.xid /\ q.c = r.c + 1 /\ q.c \in Cols => Ahead(Q, G, q)
         /\ r.c = NumCols => Even(Q, G, r.g)
<1>1. PICK g, c, x, L : g = r.g /\ c = r.c /\ x = r.xid /\ L = Length(P, G, r.g, r.c)
  OBVIOUS
<1>2. g \in 1..Len(G) /\ c \in Cols /\ L \in Nat /\ \A k \in Cols : k \in Nat
  BY <1>1, ColsAre, LengthIs
<1>3. \A k \in Cols : Length(P, G, g, k) = L + Bit(k < c) /\ (k < c => RowOf(P, G, g, k, L + 1) = x)
  BY <1>1, <1>2 DEF Ahead, Bit
<1>4. \A k \in Cols :
        /\ Length(Q, G, g, k) = Length(P, G, g, k) + Bit(k = c)
        /\ \A i \in 1..Length(P, G, g, k) : RowOf(Q, G, g, k, i) = RowOf(P, G, g, k, i)
        /\ k = c => RowOf(Q, G, g, k, Length(P, G, g, k) + 1) = x
  <2>1. /\ Puts(P, Q, G[g][c], n) /\ Appended(P[G[g][c]], n, v) /\ v.row = x
        /\ \A k \in Cols : G[g][k] = G[g][c] => k = c
    BY <1>1
  <2>2. OneMore(P, Q, G, g, c, v.row)
    BY <1>2, <2>1, WrittenLengths
  <2> QED
    BY <2>1, <2>2 DEF OneMore
<1>5. \A k \in Cols : /\ Length(P, G, g, k) = IF k < c THEN L + 1 ELSE L
                      /\ Length(Q, G, g, k) = IF k <= c THEN L + 1 ELSE L
  BY <1>2, <1>3, <1>4 DEF Bit
<1>6. \A k \in Cols : k <= c => RowOf(Q, G, g, k, L + 1) = x
  <2> TAKE k \in Cols
  <2>1. CASE k < c
    <3>1. L + 1 \in 1..Length(P, G, g, k)
      BY <1>2, <1>5, <2>1
    <3> QED
      BY <1>3, <1>4, <2>1, <3>1
  <2>2. CASE k = c
    <3>1. Length(P, G, g, k) = L
      BY <1>2, <1>5, <2>2
    <3> QED
      BY <1>4, <2>2, <3>1
  <2> QED
    BY <1>2, <2>1, <2>2
<1>7. Together(Q, G, g)
  <2> SUFFICES ASSUME NEW a \in Cols, NEW b \in Cols, NEW i \in 1..Length(Q, G, g, a), i <= Length(Q, G, g, b)
               PROVE  RowOf(Q, G, g, a, i) = RowOf(Q, G, g, b, i)
    BY DEF Together
  <2>1. CASE i = L + 1
    <3>1. a <= c /\ b <= c
      BY <1>2, <1>5, <2>1
    <3> QED
      BY <1>6, <2>1, <3>1
  <2>2. CASE i # L + 1
    <3>1. i \in 1..Length(P, G, g, a) /\ i \in 1..Length(P, G, g, b) /\ i <= Length(P, G, g, b)
      BY <1>2, <1>5, <2>2
    <3>2. RowOf(P, G, g, a, i) = RowOf(P, G, g, b, i)
      BY <1>1, <3>1 DEF Together
    <3> QED
      BY <1>4, <3>1, <3>2
  <2> QED
    BY <2>1, <2>2
<1>8. ASSUME NEW q, q.g = g, q.xid = x, q.c = c + 1, q.c \in Cols PROVE Ahead(Q, G, q)
  <2> SUFFICES ASSUME NEW k \in Cols
               PROVE  /\ Length(Q, G, g, k) = Length(Q, G, g, c + 1) + Bit(k < c + 1)
                      /\ k < c + 1 => RowOf(Q, G, g, k, Length(Q, G, g, k)) = x
    BY <1>8 DEF Ahead
  <2>1. Length(Q, G, g, c + 1) = L
    BY <1>2, <1>5, <1>8
  <2>2. Length(Q, G, g, k) = IF k <= c THEN L + 1 ELSE L
    BY <1>5
  <2>3. k < c + 1 <=> k <= c
    BY <1>2
  <2> QED
    BY <1>2, <1>6, <2>1, <2>2, <2>3 DEF Bit
<1>9. c = NumCols => Even(Q, G, g)
  <2> SUFFICES ASSUME c = NumCols PROVE \A k \in Cols : Length(Q, G, g, k) = L + 1
    BY DEF Even
  <2> QED
    BY <1>5, ColsAre
<1> QED
  BY <1>1, <1>7, <1>8, <1>9

\* InsertRowDataWithGroup.
LEMMA WriteColumnRows ==
  ASSUME Inv, pageCnt <= MaxPages, AllAligned, NEW w \in Workers, WriteColumn(w)
  PROVE  AllAligned'
<1>1. /\ Step1(w) /\ s[w].pc = "write" /\ groups' = groups
      /\ \/ s[w].c < NumCols /\ s'[w] = [s[w] EXCEPT !.c = @ + 1]
         \/ s[w].c = NumCols /\ s'[w] = [s[w] EXCEPT !.pc = "end"]
  BY WriteColumn1 DEF Inv
<1>2. PICK v \in Versions, p \in PageNos, n \in Pages :
        /\ v = NewVersion(s[w].xid, s[w].sizes[s[w].c], s[w].xid, NoPosition)
        /\ p = s[w].plist[s[w].c] /\ Writes(pages, pages', p, n) /\ Appended(pages[p], n, v)
  BY WriteColumn1 DEF Inv
<1>3. /\ s[w] \in Locals /\ pages \in Files /\ pages' \in Files /\ groups \in Groups /\ Extends(groups, groups)
      /\ s' = [s EXCEPT ![w] = s'[w]] /\ s \in [Workers -> Locals]
  BY <1>1, Known, ExtendsSame DEF Inv, Inv1, Types, Step1
<1>4. s[w].g \in 1..Len(groups) /\ s[w].c \in Cols
  BY <1>1, FillsAt
<1>5. p = groups[s[w].g][s[w].c] /\ v.row = s[w].xid /\ Puts(pages, pages', p, n)
  <2>1. v.row = s[w].xid
    BY <1>2 DEF NewVersion
  <2> QED
    BY <1>1, <1>2, <1>4, <2>1, GroupOwner DEF Writes
<1>6. \A u \in Workers : u # w => s'[u] = s[u]
  BY <1>3
<1>7. \A h \in 1..Len(groups), k \in Cols : groups[h][k] = p => h = s[w].g /\ k = s[w].c
  BY <1>4, <1>5 DEF Inv, Storage, GroupsOK
<1>8. \A u \in Workers : Fills(s[u], s[w].g) => u = w
  BY <1>1, OneWriter DEF Fills
<1> SUFFICES ASSUME NEW g \in 1..Len(groups) PROVE Aligned(g)'
  BY <1>1 DEF AllAligned
<1>9. Aligned(g)
  BY DEF AllAligned
<1>10. s'[w].g = s[w].g /\ s'[w].xid = s[w].xid
  BY <1>1, <1>3 DEF Locals
<1>11. CASE g # s[w].g
  <2>1. \A c \in Cols : SameRows(pages, pages', groups[g][c])
    <3> TAKE c \in Cols
    <3>1. groups[g][c] \in PageNos /\ groups[g][c] # p
      BY <1>3, <1>7, <1>11, LengthIs
    <3> QED
      BY <1>5, <3>1, RowsSame DEF Puts
  <2>2. ~Fills(s[w], g) /\ ~Fills(s'[w], g)
    BY <1>10, <1>11 DEF Fills
  <2>3. Together(pages', groups, g)
    BY <1>3, <1>9, <2>1, AlignedKept DEF Aligned
  <2>4. ASSUME NEW u \in Workers, Fills(s'[u], g) PROVE Ahead(pages', groups, s'[u])
    <3>1. s'[u] = s[u] /\ Fills(s[u], g)
      BY <1>6, <2>2, <2>4
    <3>2. Ahead(pages, groups, s[u]) /\ s[u].g = g /\ s[u].c \in Cols
      BY <1>9, <3>1, FillsAt DEF Aligned, Fills
    <3> QED
      BY <1>3, <2>1, <3>1, <3>2, AlignedKept
  <2>5. (\A u \in Workers : ~Fills(s'[u], g)) => Even(pages', groups, g)
    <3>1. (\A u \in Workers : ~Fills(s'[u], g)) => \A u \in Workers : ~Fills(s[u], g)
      BY <1>6, <2>2
    <3> QED
      BY <1>3, <1>9, <2>1, <3>1, AlignedKept DEF Aligned
  <2> QED
    BY <1>1, <2>3, <2>4, <2>5 DEF Aligned
<1>12. CASE g = s[w].g
  <2>1. Together(pages, groups, s[w].g) /\ Ahead(pages, groups, s[w])
    BY <1>1, <1>9, <1>12 DEF Aligned, Fills
  <2>2. \A k \in Cols : groups[s[w].g][k] = groups[s[w].g][s[w].c] => k = s[w].c
    BY <1>4, <1>5, <1>7
  <2>3. Puts(pages, pages', groups[s[w].g][s[w].c], n) /\ Appended(pages[groups[s[w].g][s[w].c]], n, v)
    BY <1>2, <1>5
  <2>4. /\ Together(pages', groups, s[w].g)
        /\ \A q : q.g = s[w].g /\ q.xid = s[w].xid /\ q.c = s[w].c + 1 /\ q.c \in Cols => Ahead(pages', groups, q)
        /\ s[w].c = NumCols => Even(pages', groups, s[w].g)
    BY <1>3, <1>4, <1>5, <2>1, <2>2, <2>3, ColumnWritten
  <2>5. CASE s[w].c < NumCols /\ s'[w] = [s[w] EXCEPT !.c = @ + 1]
    <3>1. s'[w].c = s[w].c + 1 /\ s'[w].c \in Cols /\ s'[w].pc = "write"
      BY <1>1, <1>3, <1>4, <2>5, ColsAre DEF Locals
    <3>2. Ahead(pages', groups, s'[w]) /\ Fills(s'[w], g)
      BY <1>10, <1>12, <2>4, <3>1 DEF Fills
    <3>3. \A u \in Workers : Fills(s'[u], g) => u = w
      BY <1>6, <1>8, <1>12
    <3> QED
      BY <1>1, <1>12, <2>4, <3>2, <3>3 DEF Aligned
  <2>6. CASE s[w].c = NumCols /\ s'[w] = [s[w] EXCEPT !.pc = "end"]
    <3>1. s'[w].pc = "end"
      BY <1>3, <2>6 DEF Locals
    <3>2. \A u \in Workers : ~Fills(s'[u], g)
      BY <1>6, <1>8, <1>12, <3>1 DEF Fills
    <3> QED
      BY <1>1, <1>12, <2>4, <2>6, <3>2 DEF Aligned
  <2> QED
    BY <1>1, <2>5, <2>6
<1> QED
  BY <1>11, <1>12

LEMMA FreeWritesNot ==
  ASSUME NEW r, Free(r)
  PROVE  r.pc \notin {"write", "newrow"}
BY DEF Free, FreePcs

LEMMA NextWritesNot ==
  ASSUME NEW r \in Locals, NEW pc \in {"first", "delete"}
  PROVE  ColumnNext(r, pc).pc \notin {"write", "newrow"}
BY ColumnNextFree, FreeWritesNot

\* The steps that only read pages and take or give back locks.
Reads(w) ==
  \/ StartInsert(w) \/ StartUpdate(w) \/ StartDelete(w) \/ EndStatement(w)
  \/ NextGroup(w) \/ ScanGroup(w) \/ RowMatches(w) \/ RowDiffers(w)
  \/ ScanColumn(w) \/ CurrentReadVersion(w)
  \/ MemberPage(w) \/ LockGroupPages(w) \/ StartExtensionTbl(w)
  \/ LockFirstPage(w) \/ LockOrigin(w) \/ LockUndo(w) \/ LockForDelete(w)

LEMMA ReadsOnly ==
  ASSUME Inv, NEW w \in Workers, Reads(w)
  PROVE  /\ Step1(w) /\ UNCHANGED <<pages, groups, pageCnt, savedCnt>>
         /\ s[w].pc \notin {"write", "newrow"} /\ s'[w].pc \notin {"write", "newrow"}
<1>0. Inv1
  BY DEF Inv
<1>1. s[w] \in Locals
  BY <1>0, Known
<1>2. CASE StartInsert(w) \/ StartUpdate(w) \/ StartDelete(w)
  <2>1. Step1(w) /\ UNCHANGED <<pages, groups, pageCnt, savedCnt>> /\ s[w].pc = "idle"
    BY <1>0, <1>2, Starts
  <2>2. s'[w].pc \in {"group", "scan"}
    BY <1>0, <1>2, Starts
  <2> QED
    BY <2>1, <2>2
<1>3. CASE EndStatement(w)
  <2>1. /\ Step1(w) /\ UNCHANGED <<pages, groups, pageCnt, savedCnt>> /\ s[w].pc = "end"
        /\ s'[w] = Idle
    BY <1>0, <1>3, EndStatement1
  <2>2. Idle.pc = "idle"
    BY DEF Idle
  <2> QED
    BY <2>1, <2>2
<1>4. CASE NextGroup(w) \/ ScanGroup(w) \/ RowMatches(w) \/ RowDiffers(w) \/ ScanColumn(w) \/ CurrentReadVersion(w)
  <2>1. Free(s[w]) /\ Free(s'[w])
    BY <1>4, SearchLocks
  <2>2. Step1(w) /\ UNCHANGED <<pages, groups, pageCnt, savedCnt>>
    BY <1>0, <1>4, NextGroup1, ScanGroup1, RowMatches1, RowDiffers1, ScanColumn1, CurrentRead1 DEF Quiet
  <2>3. s[w].pc \notin {"write", "newrow"} /\ s'[w].pc \notin {"write", "newrow"}
    BY <2>1, FreeWritesNot
  <2> QED
    BY <2>2, <2>3
<1>5. CASE MemberPage(w)
  <2>1. Step1(w) /\ s[w].pc = "member" /\ Quiet
    BY <1>0, <1>5, MemberPage1
  <2>2. PICK fits \in BOOLEAN, p \in PageNos :
          s'[w] = IF ~fits THEN [s[w] EXCEPT !.pc = "group", !.c = 1, !.plist = << >>]
                  ELSE IF s[w].c < NumCols THEN [s[w] EXCEPT !.c = @ + 1, !.plist = Append(@, p)]
                  ELSE [s[w] EXCEPT !.pc = "lockgroup", !.c = 1, !.plist = Append(@, p)]
    BY <1>0, <1>5, MemberPage1
  <2>3. s'[w].pc \in {"group", "member", "lockgroup"}
    BY <1>1, <2>1, <2>2 DEF Locals
  <2> QED
    BY <2>1, <2>3 DEF Quiet
<1>6. CASE LockGroupPages(w)
  <2>1. /\ Step1(w) /\ s[w].pc = "lockgroup" /\ Quiet
        /\ s'[w] = IF s[w].c < NumCols THEN [s[w] EXCEPT !.c = @ + 1] ELSE [s[w] EXCEPT !.pc = "check", !.c = 1]
    BY <1>0, <1>6, LockGroupPages1
  <2>2. s'[w].pc \in {"lockgroup", "check"}
    BY <1>1, <2>1 DEF Locals
  <2> QED
    BY <2>1, <2>2 DEF Quiet
<1>7. CASE StartExtensionTbl(w)
  <2>1. Step1(w) /\ s[w].pc = "startext" /\ Quiet /\ s'[w] = [s[w] EXCEPT !.pc = "extend"]
    BY <1>0, <1>7, StartExtension1
  <2>2. s'[w].pc = "extend"
    BY <1>1, <2>1 DEF Locals
  <2> QED
    BY <2>1, <2>2 DEF Quiet
<1>8. CASE LockFirstPage(w)
  <2>1. Step1(w) /\ s[w].pc = "first" /\ Quiet
    BY <1>0, <1>8, LockFirstPage1
  <2>2. \/ s'[w] = [s[w] EXCEPT !.pc = "end"]
        \/ \E pc \in {"startext", "chain"} : s'[w] = [s[w] EXCEPT !.kind = "undo", !.num = 1, !.pc = pc]
    BY <1>0, <1>8, LockFirstPage1
  <2>3. s'[w].pc \in {"startext", "chain", "end"}
    BY <1>1, <2>2 DEF Locals
  <2> QED
    BY <2>1, <2>3 DEF Quiet
<1>9. CASE LockOrigin(w) \/ LockUndo(w) \/ LockForDelete(w)
  <2>1. /\ Step1(w) /\ s[w].pc \in {"origin", "undo", "delete"} /\ Quiet
    BY <1>0, <1>9, LockOrigin1, LockUndo1, LockForDelete1
  <2>2. PICK pc \in {"undo", "move", "remove", "end"} : s'[w] = [s[w] EXCEPT !.pc = pc]
    BY <1>0, <1>9, LockOrigin1, LockUndo1, LockForDelete1
  <2>3. s'[w].pc \in {"undo", "move", "remove", "end"}
    BY <1>1, <2>2 DEF Locals
  <2> QED
    BY <2>1, <2>3 DEF Quiet
<1> QED
  BY <1>2, <1>3, <1>4, <1>5, <1>6, <1>7, <1>8, <1>9 DEF Reads

\* ExtensionTbl and GetSpaceSpecifyPage: new pages are empty.
LEMMA ExtendRows ==
  ASSUME Inv, AllAligned, NEW w \in Workers, AddPage(w) \/ LinkPage(w)
  PROVE  AllAligned'
<1>1. Step1(w) /\ s[w].pc = "extend" /\ groups' = groups
  BY AddPage1, LinkPage1
<1>2. s[w] \in Locals /\ pages \in Files /\ pageCnt \in Nat /\ savedCnt \in Nat /\ savedCnt <= pageCnt
  BY Known DEF Inv, Inv1, Types
<1>3. CASE AddPage(w)
  <2>1. /\ s'[w] = [s[w] EXCEPT !.num = @ - 1, !.last = pageCnt + 1]
        /\ \A p \in PageNos : pages'[p] = IF p = pageCnt + 1 THEN InitPage ELSE pages[p]
    BY <1>3, AddPage1
  <2>2. s'[w].pc = "extend"
    BY <1>1, <1>2, <2>1 DEF Locals
  <2>3. ASSUME NEW p \in PageNos, pages[p].type = "data" PROVE SameRows(pages, pages', p)
    <3>1. p # pageCnt + 1
      <4>1. p = pageCnt + 1 => pages[p] = NoPage
        BY <1>2 DEF Inv, Storage, FreshFrom
      <4> QED
        BY <2>3, <4>1, FreshPagesAre
    <3> QED
      BY <2>1, <3>1, RowsSame
  <2> QED
    BY <1>1, <2>2, <2>3, RowsStep
<1>4. CASE LinkPage(w)
  <2>1. CASE s'[w] = [s[w] EXCEPT !.pc = "end"] /\ pages' = pages
    <3>1. s'[w].pc = "end"
      BY <1>2, <2>1 DEF Locals
    <3> QED
      BY <1>1, <2>1, <3>1, QuietRows
  <2>2. CASE /\ s[w].last \in PageNos /\ Chains(pages, pages', Origin(w), s[w].last, s[w].kind)
             /\ s'[w] = Got(s[w], s[w].last)
    <3>1. s[w].op = "update" /\ s[w].num = 0
      BY <1>4, LinkPage1
    <3>2. s'[w].pc \in {"origin", "newrow"}
      BY <1>2, <2>2, <3>1, GotFields
    <3>3. pages[s[w].last] = InitPage
      BY <1>1, <2>2, <3>1, Added
    <3>4. ASSUME NEW p \in PageNos PROVE pages'[p].items = pages[p].items
      <4>1. CASE p = s[w].last
        BY <2>2, <3>3, <4>1, FreshPagesAre DEF Chains
      <4>2. CASE p # s[w].last
        BY <2>2, <4>2 DEF Chains
      <4> QED
        BY <4>1, <4>2
    <3>5. \A p \in PageNos : SameRows(pages, pages', p)
      BY <3>4 DEF SameRows
    <3> QED
      BY <1>1, <3>2, <3>5, RowsStep
  <2> QED
    BY <1>4, <2>1, <2>2, LinkPage1
<1> QED
  BY <1>3, <1>4

\* The pages that a write is not about.
LEMMA PutRows ==
  ASSUME NEW P, NEW Q, NEW o, NEW n, Writes(P, Q, o, n), NEW p \in PageNos, p # o
  PROVE  SameRows(P, Q, p)
BY RowsSame DEF Writes, Puts

\* An entry is rewritten for the same row.
LEMMA EntryRows ==
  ASSUME NEW P, NEW Q, NEW o, NEW n, Writes(P, Q, o, n), NEW i \in 1..Len(P[o].items), NEW x,
         n = P[o] \/ (Rewritten(P[o], n, i, x) /\ x.ver.row = P[o].items[i].ver.row)
  PROVE  \A p \in PageNos : SameRows(P, Q, p)
<1>1. SameRows(P, Q, o)
  <2>1. Q[o] = n
    BY DEF Writes, Puts
  <2>2. CASE n = P[o]
    BY <2>1, <2>2, RowsSame
  <2>3. CASE Rewritten(P[o], n, i, x) /\ x.ver.row = P[o].items[i].ver.row
    <3>1. /\ Len(n.items) = Len(P[o].items) /\ n.items[i] = x
          /\ \A j \in 1..Len(P[o].items) : j # i => n.items[j] = P[o].items[j]
      BY <2>3 DEF Rewritten
    <3>2. \A j \in 1..Len(P[o].items) : n.items[j].ver.row = P[o].items[j].ver.row
      BY <2>3, <3>1
    <3> QED
      BY <2>1, <3>1, <3>2 DEF SameRows
  <2> QED
    BY <2>2, <2>3
<1> QED
  BY <1>1, PutRows

\* Updates and deletes keep every entry with its row.
LEMMA ChangeRows ==
  ASSUME Inv, Chained3, AllAligned, NEW w \in Workers,
         MoveOld(w) \/ WriteInPlace(w) \/ Remove(w) \/ Grow(w) \/ WriteNewRow(w)
  PROVE  AllAligned'
<1>0. Inv1 /\ s[w] \in Locals /\ pages \in Files /\ AllLinked(pages)
  BY Known DEF Inv
<1>1. CASE MoveOld(w)
  <2>1. Step1(w) /\ s[w].pc = "move" /\ groups' = groups
    BY <1>0, <1>1, MoveOld1
  <2>2. PICK n \in Pages, pc \in {"inplace", "grow"}, u \in Positions :
          /\ Writes(pages, pages', s[w].undo, n) /\ Appended(pages[s[w].undo], n, Ended(Old(w), s[w].xid))
          /\ u = [page |-> s[w].undo, item |-> Len(n.items)]
          /\ s'[w] = [s[w] EXCEPT !.pc = pc, !.upos = u]
    BY <1>0, <1>1, MoveOld1
  <2>3. s'[w].pc # "write"
    BY <1>0, <2>2 DEF Locals
  <2>4. pages[s[w].undo].type = "undo"
    <3>1. HasUndo(s[w])
      BY <1>0, <2>1, ChangeAt
    <3> QED
      BY <2>1, <3>1, OriginData DEF UpdatePcs
  <2>5. \A p \in PageNos : pages[p].type = "data" => SameRows(pages, pages', p)
    BY <2>2, <2>4, PutRows
  <2> QED
    BY <2>1, <2>3, <2>5, RowsStep
<1>2. ASSUME s[w].pc \in {"inplace", "grow", "newrow", "remove"}
      PROVE  /\ s[w].i \in 1..Len(pages[Origin(w)].items) /\ pages[Origin(w)].items[s[w].i] \in Items
             /\ Origin(w) \in PageNos /\ Old(w).row = pages[Origin(w)].items[s[w].i].ver.row
             /\ Ended(Old(w), s[w].xid) \in Versions /\ Ended(Old(w), s[w].xid).row = Old(w).row
             /\ s[w].pc # "remove" => Changed(w) \in Versions /\ Changed(w).row = Old(w).row
  <2>1. /\ s[w].i \in 1..Len(pages[Origin(w)].items) /\ Origin(w) \in PageNos
        /\ Old(w) \in Versions /\ s[w].xid \in Xids
        /\ s[w].pc # "remove" => Changed(w) \in Versions
    BY <1>0, <1>2, ChangeAt
  <2>2. pages[Origin(w)].items[s[w].i] \in Items
    BY <1>0, <2>1, ItemIs
  <2>3. /\ Old(w).row = pages[Origin(w)].items[s[w].i].ver.row
        /\ s[w].pc # "remove" => Changed(w).row = Old(w).row
    BY <1>2, OldFacts
  <2>4. Ended(Old(w), s[w].xid) \in Versions /\ Ended(Old(w), s[w].xid).row = Old(w).row
    BY <2>1, EndedIs
  <2> QED
    BY <2>1, <2>2, <2>3, <2>4
<1>3. CASE WriteInPlace(w) \/ Remove(w)
  <2>1. PICK pc, v :
          /\ pc \in {"first", "delete"} /\ Step1(w) /\ s[w].pc \in {"inplace", "remove"}
          /\ groups' = groups /\ s'[w] = ColumnNext(s[w], pc)
          /\ v = (IF s[w].pc = "remove" THEN Ended(Old(w), s[w].xid) ELSE Changed(w))
          /\ \E n \in Pages :
                /\ Writes(pages, pages', Origin(w), n)
                /\ \/ n = pages[Origin(w)]
                   \/ Rewritten(pages[Origin(w)], n, s[w].i, WithVer(pages[Origin(w)].items[s[w].i], v))
    <3>1. CASE WriteInPlace(w)
      BY <1>0, <3>1, WriteInPlace1
    <3>2. CASE Remove(w)
      BY <1>0, <3>2, Remove1
    <3> QED
      BY <1>3, <3>1, <3>2
  <2>2. PICK n \in Pages :
          /\ Writes(pages, pages', Origin(w), n)
          /\ \/ n = pages[Origin(w)]
             \/ Rewritten(pages[Origin(w)], n, s[w].i, WithVer(pages[Origin(w)].items[s[w].i], v))
    BY <2>1
  <2>3. v \in Versions /\ v.row = pages[Origin(w)].items[s[w].i].ver.row
    BY <1>2, <2>1
  <2>4. PICK x : x = WithVer(pages[Origin(w)].items[s[w].i], v)
    OBVIOUS
  <2>5. x.ver = v
    BY <1>2, <2>1, <2>3, <2>4, EntryIs
  <2>6. /\ s[w].i \in 1..Len(pages[Origin(w)].items)
        /\ \/ n = pages[Origin(w)]
           \/ (Rewritten(pages[Origin(w)], n, s[w].i, x) /\ x.ver.row = pages[Origin(w)].items[s[w].i].ver.row)
    BY <1>2, <2>1, <2>2, <2>3, <2>4, <2>5
  <2>7. \A p \in PageNos : SameRows(pages, pages', p)
    BY <2>2, <2>6, EntryRows
  <2>8. s'[w].pc # "write"
    BY <1>0, <2>1, NextWritesNot
  <2>9. Step1(w) /\ s[w].pc # "write" /\ groups' = groups
    BY <2>1
  <2> QED
    BY <2>7, <2>8, <2>9, RowsStep
<1>4. CASE Grow(w)
  <2>1. Step1(w) /\ s[w].pc = "grow" /\ groups' = groups
    BY <1>0, <1>4, Grow1
  <2>2. CASE /\ s'[w] = ColumnNext(s[w], "first")
             /\ \E n \in Pages :
                  /\ Writes(pages, pages', Origin(w), n)
                  /\ Rewritten(pages[Origin(w)], n, s[w].i, MovedTo(pages[Origin(w)].items[s[w].i], Changed(w)))
    <3>1. PICK n \in Pages :
            /\ Writes(pages, pages', Origin(w), n)
            /\ Rewritten(pages[Origin(w)], n, s[w].i, MovedTo(pages[Origin(w)].items[s[w].i], Changed(w)))
      BY <2>2
    <3>2. PICK x : x = MovedTo(pages[Origin(w)].items[s[w].i], Changed(w))
      OBVIOUS
    <3>3. x.ver = Changed(w)
      BY <1>2, <2>1, <3>2, EntryIs
    <3>4. /\ s[w].i \in 1..Len(pages[Origin(w)].items)
          /\ Rewritten(pages[Origin(w)], n, s[w].i, x) /\ x.ver.row = pages[Origin(w)].items[s[w].i].ver.row
      BY <1>2, <2>1, <3>1, <3>2, <3>3
    <3>5. \A p \in PageNos : SameRows(pages, pages', p)
      BY <3>1, <3>4, EntryRows
    <3>6. s'[w].pc # "write"
      BY <1>0, <2>2, NextWritesNot
    <3> QED
      BY <2>1, <3>5, <3>6, RowsStep
  <2>3. CASE /\ pages' = pages
             /\ s'[w] = [s[w] EXCEPT !.kind = "ext", !.num = 1,
                           !.pc = IF ChainHead(pages[Col(groups, s[w], s[w].c)], "ext") = INVALID_PAGE_NUM
                                  THEN "startext" ELSE "chain"]
    <3>1. PICK pc \in {"startext", "chain"} : s'[w] = [s[w] EXCEPT !.kind = "ext", !.num = 1, !.pc = pc]
      BY <2>3
    <3>2. s'[w].pc # "write"
      BY <1>0, <3>1 DEF Locals
    <3> QED
      BY <2>1, <2>3, <3>2, QuietRows
  <2>4. CASE pages' = pages /\ s'[w] = [s[w] EXCEPT !.pc = "end"]
    <3>1. s'[w].pc # "write"
      BY <1>0, <2>4 DEF Locals
    <3> QED
      BY <2>1, <2>4, <3>1, QuietRows
  <2> QED
    BY <1>0, <1>4, <2>2, <2>3, <2>4, Grow1
<1>5. CASE WriteNewRow(w)
  <2>1. /\ Step1(w) /\ s[w].pc = "newrow" /\ groups' = groups
        /\ s'[w] = ColumnNext(s[w], "first") /\ s[w].new \in PageNos /\ s[w].new # Origin(w)
    BY <1>5, WriteNewRow1
  <2>2. PICK M \in Files, m \in Pages, n \in Pages :
          /\ Writes(pages, M, s[w].new, m) /\ M[Origin(w)] = pages[Origin(w)]
          /\ Writes(M, pages', Origin(w), n)
          /\ Rewritten(pages[Origin(w)], n, s[w].i, MovedAway(pages[Origin(w)].items[s[w].i]))
    BY <1>5, WriteNewRow1
  <2>3. PICK x : x = MovedAway(pages[Origin(w)].items[s[w].i])
    OBVIOUS
  <2>4. x.ver = pages[Origin(w)].items[s[w].i].ver
    BY <1>2, <2>1, <2>3, MovedAwayIs
  <2>5. /\ s[w].i \in 1..Len(M[Origin(w)].items)
        /\ Rewritten(M[Origin(w)], n, s[w].i, x) /\ x.ver.row = M[Origin(w)].items[s[w].i].ver.row
    BY <1>2, <2>1, <2>2, <2>3, <2>4
  <2>6. \A p \in PageNos : SameRows(M, pages', p)
    BY <2>2, <2>5, EntryRows
  <2>7. pages[s[w].new].type = "ext"
    BY <2>1 DEF Inv, Storage, UseOK
  <2>8. \A p \in PageNos : pages[p].type = "data" => M[p] = pages[p]
    BY <2>2, <2>7 DEF Writes, Puts
  <2>9. \A p \in PageNos : pages[p].type = "data" => SameRows(pages, pages', p)
    BY <2>6, <2>8 DEF SameRows
  <2>10. s'[w].pc # "write"
    BY <1>0, <2>1, NextWritesNot
  <2> QED
    BY <2>1, <2>9, <2>10, RowsStep
<1> QED
  BY <1>1, <1>3, <1>4, <1>5

LEMMA ChainPageStep ==
  ASSUME Inv, NEW w \in Workers, LockChainPage(w)
  PROVE  Step1(w) /\ s[w].pc = "chain" /\ UNCHANGED <<pages, groups, pageCnt, savedCnt>> /\ s'[w].pc # "write"
<1>1. Step1(w) /\ s[w].pc = "chain" /\ Quiet
  BY LockChainPage1 DEF Inv
<1>2. PICK p \in PageNos : s'[w] = Got(s[w], p) \/ s'[w] = [s[w] EXCEPT !.pc = "startext"]
  BY LockChainPage1 DEF Inv
<1>3. s[w] \in Locals
  BY Known DEF Inv
<1>4. s'[w].pc # "write"
  BY <1>2, <1>3 DEF Got, Locals
<1> QED
  BY <1>1, <1>4 DEF Quiet

\* The file only grows: as long as it fits the disk it has always done so.
LEMMA PagesAdded ==
  ASSUME Inv, Next
  PROVE  pageCnt \in Nat /\ pageCnt' \in Nat /\ pageCnt <= pageCnt'
<1>1. pageCnt \in Nat
  BY DEF Inv, Inv1, Types
<1>2. PICK w \in Workers : Insert(w) \/ Extension(w) \/ Scan(w) \/ Update(w) \/ Delete(w) \/ EndStatement(w)
  BY DEF Next
<1>3. pageCnt' = pageCnt \/ pageCnt' = pageCnt + 1
  BY <1>2 DEF Insert, Extension, Scan, Update, Delete, EndStatement, StartInsert, StartUpdate, StartDelete, Begin,
     NextGroup, MemberPage, LockGroupPages, FreeSpaceCheck, WriteColumn, InsertGroupItem, StartExtensionTbl, AddPage,
     ScanGroup, ScanColumn, CurrentReadVersion, RowMatches, RowDiffers, LockFirstPage, LockChainPage, LinkPage,
     LockOrigin, LockUndo, MoveOld, WriteInPlace, Grow, WriteNewRow, LockForDelete, Remove
<1> QED
  BY <1>1, <1>3

RowsOK == pageCnt <= MaxPages => AllAligned

\* Every step keeps the rows together.
LEMMA NextRows ==
  ASSUME Inv, Chained3, RowsOK, Next
  PROVE  RowsOK'
<1> SUFFICES ASSUME pageCnt' <= MaxPages PROVE AllAligned'
  BY DEF RowsOK
<1>1. pageCnt <= MaxPages
  BY PagesAdded, TableSpaceAssumption
<1>2. AllAligned
  BY <1>1 DEF RowsOK
<1>3. PICK w \in Workers : Insert(w) \/ Extension(w) \/ Scan(w) \/ Update(w) \/ Delete(w) \/ EndStatement(w)
  BY DEF Next
<1>4. CASE Reads(w)
  <2>1. Step1(w) /\ UNCHANGED <<pages, groups>> /\ s[w].pc # "write" /\ s'[w].pc # "write"
    BY <1>4, ReadsOnly
  <2> QED
    BY <1>2, <2>1, QuietRows
<1>5. CASE LockChainPage(w)
  <2>1. Step1(w) /\ UNCHANGED <<pages, groups>> /\ s[w].pc # "write" /\ s'[w].pc # "write"
    BY <1>5, ChainPageStep
  <2> QED
    BY <1>2, <2>1, QuietRows
<1>6. CASE FreeSpaceCheck(w) \/ WriteColumn(w) \/ InsertGroupItem(w)
  BY <1>1, <1>2, <1>6, CheckRows, WriteColumnRows, GroupItemRows
<1>7. CASE AddPage(w) \/ LinkPage(w)
  BY <1>2, <1>7, ExtendRows
<1>8. CASE MoveOld(w) \/ WriteInPlace(w) \/ Remove(w) \/ Grow(w) \/ WriteNewRow(w)
  BY <1>2, <1>8, ChangeRows
<1> QED
  BY <1>3, <1>4, <1>5, <1>6, <1>7, <1>8 DEF Insert, Extension, Scan, Update, Delete, Reads

\* AllAligned says more than RowsAligned.
LEMMA InvRows == Inv /\ RowsOK => (pageCnt <= MaxPages => RowsAligned)
<1> SUFFICES ASSUME Inv, AllAligned, pageCnt <= MaxPages, NEW g \in DOMAIN groups, NEW c \in Cols, NEW d \in Cols
             PROVE  LET a == pages[groups[g][c]].items
                        b == pages[groups[g][d]].items
                    IN  /\ \A i \in DOMAIN a \cap DOMAIN b : a[i].ver.row = b[i].ver.row
                        /\ Len(a) # Len(b) =>
                             \E w \in Workers : s[w].pc = "write" /\ \A e \in Cols : Holds(w, groups[g][e])
  BY DEF RowsAligned, RowsOK
<1>1. groups \in Groups /\ pages \in Files
  BY DEF Inv, Inv1, Types
<1>2. g \in 1..Len(groups)
  BY <1>1 DEF Groups
<1>3. Aligned(g)
  BY <1>2 DEF AllAligned
<1>4. PICK a, b : a = pages[groups[g][c]].items /\ b = pages[groups[g][d]].items
  OBVIOUS
<1>5. a \in Seq(Items) /\ b \in Seq(Items)
  BY <1>1, <1>2, <1>4, LengthIs, PageFields DEF Files
<1>6. \A i \in DOMAIN a \cap DOMAIN b : a[i].ver.row = b[i].ver.row
  <2> TAKE i \in DOMAIN a \cap DOMAIN b
  <2>1. i \in 1..Len(a) /\ i <= Len(b)
    BY <1>5
  <2>2. Together(pages, groups, g)
    BY <1>3 DEF Aligned
  <2> QED
    BY <1>4, <2>1, <2>2 DEF Together, Length, RowOf
<1>7. ASSUME Len(a) # Len(b)
      PROVE  \E w \in Workers : s[w].pc = "write" /\ \A e \in Cols : Holds(w, groups[g][e])
  <2>1. ~Even(pages, groups, g)
    BY <1>4, <1>7 DEF Even, Length
  <2>2. PICK w \in Workers : s[w].pc = "write" /\ s[w].g = g
    BY <1>3, <2>1 DEF Aligned, Fills
  <2> QED
    BY <2>2, GroupOwner
<1> QED
  BY <1>4, <1>6, <1>7

\* InsertRowDataWithGroup keeps the columns of a row together: entry i of the pages of a group is
\* the same row, also while inserts, updates and deletes of other workers go on, and only the
\* insert that holds all the pages may be ahead in some.
THEOREM ModifyRows ==
  ASSUME LocksFit
  PROVE  Spec => [](pageCnt <= MaxPages => RowsAligned)
<1>1. Init => Inv /\ Chained3 /\ RowsOK
  <2>1. Init => RowsOK
    BY DEF Init, RowsOK, AllAligned
  <2> QED
    BY <2>1, InitInv, InitChain
<1>2. Inv /\ Chained3 /\ RowsOK /\ [Next]_vars => (Inv /\ Chained3 /\ RowsOK)'
  <2>1. RowsOK /\ UNCHANGED vars => RowsOK'
    BY DEF RowsOK, AllAligned, Aligned, vars
  <2> QED
    BY <2>1, NextInv, StutterInv, NextChain, StutterChain, NextRows
<1> QED
  BY <1>1, <1>2, InvRows, PTL DEF Spec

-----------------------------------------------------------------------------
(* The room of the pages *)

\* The room a worker has found is still there when it writes: an insert has it in the page of
\* every column it has yet to write, an update at the head of the chain of extension pages.
Fits(P, G, r) ==
  /\ r.pc = "write" =>
       \A k \in Cols : r.c <= k => HasFreeSpace(P[r.plist[k]], r.sizes[k] + RowHead + ItemSize)
  /\ r.pc = "newrow" => /\ P[Col(G, r, r.c)].ext = r.new
                        /\ r.sizes[r.c] + ItemSize <= P[r.new].free
DataRoom == \A p \in PageNos : pages[p].type \in {"data", "ext"} => pages[p].free >= 0
AllFit == DataRoom /\ \A w \in Workers : Fits(pages, groups, s[w])

\* The value that an update is looking for an extension page for is smaller than a page: the first
\* test of GetSpaceSpecifyPage.
Wants(r) == r.op = "update" /\ Second(r) => r.sizes[r.c] + ItemSize <= PageRoom
Sized == \A w \in Workers : Wants(s[w])

LEMMA WantsNot ==
  ASSUME NEW r, r.pc \notin {"chain", "startext", "extend"} \/ Free(r) \/ r.kind = "undo"
  PROVE  Wants(r)
BY DEF Wants, Second, ExtPcs, Free, FreePcs

LEMMA WantsSame ==
  ASSUME NEW r, NEW q, Wants(r), r.pc \in {"chain", "startext", "extend"}, q.kind = r.kind, q.op = r.op,
         q.sizes = r.sizes, q.c = r.c
  PROVE  Wants(q)
BY DEF Wants, Second, ExtPcs

LEMMA SizedStep ==
  ASSUME Inv, Sized, NEW w \in Workers, Step1(w), Wants(s'[w])
  PROVE  Sized'
BY DEF Sized, Step1, Inv, Inv1, Types

LEMMA SearchSized ==
  ASSUME Inv, NEW w \in Workers, Reads(w) \/ FreeSpaceCheck(w) \/ WriteColumn(w) \/ InsertGroupItem(w), Wants(s[w])
  PROVE  Step1(w) /\ Wants(s'[w])
<1>0. Inv1 /\ s[w] \in Locals
  BY Known DEF Inv
<1>1. CASE \/ StartInsert(w) \/ StartUpdate(w) \/ StartDelete(w) \/ EndStatement(w)
           \/ NextGroup(w) \/ ScanGroup(w) \/ RowMatches(w) \/ RowDiffers(w)
           \/ ScanColumn(w) \/ CurrentReadVersion(w)
  <2>1. Free(s'[w])
    BY <1>1, SearchLocks
  <2>2. Step1(w)
    BY <1>1, ReadsOnly DEF Reads
  <2> QED
    BY <2>1, <2>2, WantsNot
<1>2. CASE MemberPage(w)
  <2>1. Step1(w) /\ \E fits \in BOOLEAN, p \in PageNos :
          s'[w] = IF ~fits THEN [s[w] EXCEPT !.pc = "group", !.c = 1, !.plist = << >>]
                  ELSE IF s[w].c < NumCols THEN [s[w] EXCEPT !.c = @ + 1, !.plist = Append(@, p)]
                  ELSE [s[w] EXCEPT !.pc = "lockgroup", !.c = 1, !.plist = Append(@, p)]
    BY <1>0, <1>2, MemberPage1
  <2>2. s[w].pc = "member"
    BY <1>0, <1>2, MemberPage1
  <2>3. s'[w].pc \in {"group", "member", "lockgroup"}
    BY <1>0, <2>1, <2>2 DEF Locals
  <2> QED
    BY <2>1, <2>3, WantsNot
<1>3. CASE LockGroupPages(w)
  <2>1. /\ Step1(w) /\ s[w].pc = "lockgroup"
        /\ s'[w] = IF s[w].c < NumCols THEN [s[w] EXCEPT !.c = @ + 1] ELSE [s[w] EXCEPT !.pc = "check", !.c = 1]
    BY <1>0, <1>3, LockGroupPages1
  <2>2. s'[w].pc \in {"lockgroup", "check"}
    BY <1>0, <2>1 DEF Locals
  <2> QED
    BY <2>1, <2>2, WantsNot
<1>4. CASE FreeSpaceCheck(w)
  <2>1. Step1(w) /\ (s'[w] = [s[w] EXCEPT !.pc = "write"] \/ s'[w] = [s[w] EXCEPT !.pc = "member", !.plist = << >>])
    BY <1>0, <1>4, FreeSpaceCheck1
  <2>2. s'[w].pc \in {"write", "member"}
    BY <1>0, <2>1 DEF Locals
  <2> QED
    BY <2>1, <2>2, WantsNot
<1>5. CASE WriteColumn(w)
  <2>1. Step1(w) /\ s[w].pc = "write" /\ (s'[w] = [s[w] EXCEPT !.c = @ + 1] \/ s'[w] = [s[w] EXCEPT !.pc = "end"])
    BY <1>0, <1>5, WriteColumn1
  <2>2. s'[w].pc \in {"write", "end"}
    BY <1>0, <2>1 DEF Locals
  <2> QED
    BY <2>1, <2>2, WantsNot
<1>6. CASE InsertGroupItem(w)
  <2>1. Step1(w) /\ (s'[w] = [s[w] EXCEPT !.pc = "group"] \/ s'[w] = [s[w] EXCEPT !.pc = "end"])
    BY <1>6, InsertGroupItem1
  <2>2. s'[w].pc \in {"group", "end"}
    BY <1>0, <2>1 DEF Locals
  <2> QED
    BY <2>1, <2>2, WantsNot
<1>7. CASE StartExtensionTbl(w)
  <2>1. Step1(w) /\ s[w].pc = "startext" /\ s'[w] = [s[w] EXCEPT !.pc = "extend"]
    BY <1>0, <1>7, StartExtension1
  <2>2. s'[w].kind = s[w].kind /\ s'[w].op = s[w].op /\ s'[w].sizes = s[w].sizes /\ s'[w].c = s[w].c
    BY <1>0, <2>1 DEF Locals
  <2> QED
    BY <2>1, <2>2, WantsSame
<1>8. CASE LockFirstPage(w)
  <2>1. /\ Step1(w)
        /\ \/ s'[w] = [s[w] EXCEPT !.pc = "end"]
           \/ \E pc \in {"startext", "chain"} : s'[w] = [s[w] EXCEPT !.kind = "undo", !.num = 1, !.pc = pc]
    BY <1>0, <1>8, LockFirstPage1
  <2>2. s'[w].pc = "end" \/ s'[w].kind = "undo"
    BY <1>0, <2>1 DEF Locals
  <2> QED
    BY <2>1, <2>2, WantsNot
<1>9. CASE LockOrigin(w) \/ LockUndo(w) \/ LockForDelete(w)
  <2>1. Step1(w) /\ \E pc \in {"undo", "move", "remove", "end"} : s'[w] = [s[w] EXCEPT !.pc = pc]
    BY <1>0, <1>9, LockOrigin1, LockUndo1, LockForDelete1
  <2>2. s'[w].pc \in {"undo", "move", "remove", "end"}
    BY <1>0, <2>1 DEF Locals
  <2> QED
    BY <2>1, <2>2, WantsNot
<1> QED
  BY <1>1, <1>2, <1>3, <1>4, <1>5, <1>6, <1>7, <1>8, <1>9 DEF Reads

LEMMA NextSized ==
  ASSUME Inv, Sized, Next
  PROVE  Sized'
<1>1. PICK w \in Workers : Insert(w) \/ Extension(w) \/ Scan(w) \/ Update(w) \/ Delete(w) \/ EndStatement(w)
  BY DEF Next
<1>0. Inv1 /\ s[w] \in Locals /\ Wants(s[w])
  BY Known DEF Inv, Sized
<1>2. CASE Reads(w) \/ FreeSpaceCheck(w) \/ WriteColumn(w) \/ InsertGroupItem(w)
  BY <1>0, <1>2, SearchSized, SizedStep
<1>3. CASE AddPage(w)
  <2>1. Step1(w) /\ s[w].pc = "extend" /\ s'[w] = [s[w] EXCEPT !.num = @ - 1, !.last = pageCnt + 1]
    BY <1>3, AddPage1
  <2>2. s'[w].kind = s[w].kind /\ s'[w].op = s[w].op /\ s'[w].sizes = s[w].sizes /\ s'[w].c = s[w].c
    BY <1>0, <2>1 DEF Locals
  <2> QED
    BY <1>0, <2>1, <2>2, WantsSame, SizedStep
<1>4. CASE LockChainPage(w)
  <2>1. /\ Step1(w) /\ s[w].pc = "chain"
        /\ (\E p : s'[w] = Got(s[w], p)) \/ s'[w] = [s[w] EXCEPT !.pc = "startext"]
    BY <1>0, <1>4, LockChainPage1
  <2>2. CASE s'[w] = [s[w] EXCEPT !.pc = "startext"]
    <3>1. s'[w].kind = s[w].kind /\ s'[w].op = s[w].op /\ s'[w].sizes = s[w].sizes /\ s'[w].c = s[w].c
      BY <1>0, <2>2 DEF Locals
    <3> QED
      BY <1>0, <2>1, <3>1, WantsSame, SizedStep
  <2>3. CASE \E p : s'[w] = Got(s[w], p)
    <3>1. s'[w].pc \in {"origin", "newrow"}
      BY <1>0, <2>3 DEF Got, Locals
    <3> QED
      BY <2>1, <3>1, WantsNot, SizedStep
  <2> QED
    BY <2>1, <2>2, <2>3
<1>5. CASE LinkPage(w)
  <2>1. Step1(w) /\ ((\E p : s'[w] = Got(s[w], p)) \/ s'[w] = [s[w] EXCEPT !.pc = "end"])
    BY <1>5, LinkPage1
  <2>2. s'[w].pc \in {"origin", "newrow", "end"}
    BY <1>0, <2>1 DEF Got, Locals
  <2> QED
    BY <2>1, <2>2, WantsNot, SizedStep
<1>6. CASE MoveOld(w)
  <2>1. Step1(w) /\ \E pc \in {"inplace", "grow"}, u \in Positions : s'[w] = [s[w] EXCEPT !.pc = pc, !.upos = u]
    BY <1>0, <1>6, MoveOld1
  <2>2. s'[w].pc \in {"inplace", "grow"}
    BY <1>0, <2>1 DEF Locals
  <2> QED
    BY <2>1, <2>2, WantsNot, SizedStep
<1>7. CASE WriteInPlace(w) \/ Remove(w) \/ WriteNewRow(w)
  <2>1. Step1(w) /\ \E pc \in {"first", "delete"} : s'[w] = ColumnNext(s[w], pc)
    BY <1>0, <1>7, WriteInPlace1, Remove1, WriteNewRow1
  <2>2. Free(s'[w])
    BY <1>0, <2>1, ColumnNextFree
  <2> QED
    BY <2>1, <2>2, WantsNot, SizedStep
<1>8. CASE Grow(w)
  <2>1. /\ Step1(w) /\ s[w].pc = "grow"
        /\ \/ s'[w] = ColumnNext(s[w], "first")
           \/ s'[w] = [s[w] EXCEPT !.pc = "end"]
           \/ /\ ~Oversize(NewSize(w))
              /\ \E pc \in {"startext", "chain"} : s'[w] = [s[w] EXCEPT !.kind = "ext", !.num = 1, !.pc = pc]
    BY <1>0, <1>8, Grow1
  <2>2. CASE s'[w] = ColumnNext(s[w], "first") \/ s'[w] = [s[w] EXCEPT !.pc = "end"]
    <3>1. Free(s'[w])
      BY <1>0, <2>2, ColumnNextFree DEF Free, FreePcs, Locals
    <3> QED
      BY <2>1, <3>1, WantsNot, SizedStep
  <2>3. CASE /\ ~Oversize(NewSize(w))
             /\ \E pc \in {"startext", "chain"} : s'[w] = [s[w] EXCEPT !.kind = "ext", !.num = 1, !.pc = pc]
    <3>1. s'[w].sizes = s[w].sizes /\ s'[w].c = s[w].c
      BY <1>0, <2>3 DEF Locals
    <3>2. s[w].sizes[s[w].c] \in Nat
      BY <1>0, <2>1, ChangeAt
    <3>3. s[w].sizes[s[w].c] + ItemSize <= PageRoom
      BY <2>3, <3>2, TableSpaceAssumption DEF Oversize, NewSize
    <3>4. Wants(s'[w])
      BY <3>1, <3>3 DEF Wants
    <3> QED
      BY <2>1, <3>4, SizedStep
  <2> QED
    BY <2>1, <2>2, <2>3
<1> QED
  BY <1>1, <1>2, <1>3, <1>4, <1>5, <1>6, <1>7, <1>8 DEF Insert, Extension, Scan, Update, Delete, Reads

LEMMA InitSized ==
  ASSUME Init
  PROVE  Sized
BY FreshPagesAre, WantsNot DEF Init, Sized, Idle

\* The origin page of a row stays locked while it is changed.
LEMMA OriginOwner ==
  ASSUME Inv, pageCnt <= MaxPages, NEW w \in Workers,
         \/ s[w].pc \in {"move", "inplace", "grow", "newrow", "remove"}
         \/ s[w].pc = "extend" /\ s[w].op = "update"
  PROVE  Origin(w) \in PageNos /\ locks.rw[Origin(w)].writer = w
<1>1. Origin(w) \in PageNos /\ Origin(w) \in Locks
  BY OriginData DEF UpdatePcs, DeletePcs, ExtPcs
<1>2. s[w].pc \notin GroupPcs /\ OriginLocks(s[w]) \in {1, 2}
  BY DEF GroupPcs, OriginLocks, Updating, ExtPcs
<1>3. PICK o, k, u, b, e :
        /\ o = Origin(w) /\ k = OriginLocks(s[w]) /\ u = s[w].undo
        /\ b = Bit(UndoLocked(s[w])) /\ e = Bit(s[w].pc = "extend")
  OBVIOUS
<1>4. Profile(locks, w, o, k, u, b, e)
  BY <1>2, <1>3, ProfileOf
<1>5. H(o, k, u, b, e)[o] > 0
  BY <1>1, <1>2, <1>3, <1>4 DEF H, Profile
<1>6. locks.rw[o].writer = w
  BY <1>1, <1>3, <1>4, <1>5 DEF Profile, Has
<1> QED
  BY <1>1, <1>3, <1>6

\* What a step may do to the room and the chain of a page: only the holder of a data page
\* changes it, and only the holder of a data page changes the head of its chain.
Owns(w) ==
  \A p \in PageNos :
    \/ pages'[p].free = pages[p].free /\ pages'[p].ext = pages[p].ext
    \/ pages[p].type = "data" /\ locks.rw[p].writer = w
    \/ pages[p].type = "undo" \/ p > savedCnt
    \/ \E o \in PageNos : pages[o].ext = p /\ locks.rw[o].writer = w

\* What the others have found is not touched.
LEMMA FitStep ==
  ASSUME Inv, pageCnt <= MaxPages, AllFit, NEW w \in Workers, Step1(w), Owns(w), DataRoom',
         Fits(pages', groups', s'[w])
  PROVE  AllFit'
<1> SUFFICES ASSUME NEW v \in Workers, v # w PROVE Fits(pages', groups', s'[v])
  BY DEF AllFit
<1>1. s'[v] = s[v] /\ groups \in Groups /\ Extends(groups, groups') /\ pages \in Files /\ savedCnt \in Nat
  BY DEF Inv, Inv1, Types, Step1
<1>2. Fits(pages, groups, s[v])
  BY DEF AllFit
<1>3. s[v].pc = "write" => \A k \in Cols : s[v].c <= k =>
        HasFreeSpace(pages'[s[v].plist[k]], s[v].sizes[k] + RowHead + ItemSize)
  <2> SUFFICES ASSUME s[v].pc = "write", NEW k \in Cols, s[v].c <= k
               PROVE  HasFreeSpace(pages'[s[v].plist[k]], s[v].sizes[k] + RowHead + ItemSize)
    OBVIOUS
  <2>1. PICK p \in PageNos : p = s[v].plist[k] /\ p = groups[s[v].g][k] /\ locks.rw[p].writer = v
    BY GroupOwner
  <2>2. pages[p].type = "data" /\ p <= savedCnt
    BY <2>1, FillsAt DEF Inv, Storage, GroupsOK
  <2>3. \A o \in PageNos : pages[o].ext # p
    BY <2>1, <2>2, LocksAre DEF Inv, Storage, ChainsOK, ExtLock
  <2>4. pages'[p].free = pages[p].free
    BY <1>1, <2>1, <2>2, <2>3 DEF Owns, PageNos
  <2>5. HasFreeSpace(pages[p], s[v].sizes[k] + RowHead + ItemSize)
    BY <1>2, <2>1 DEF Fits
  <2> QED
    BY <2>1, <2>4, <2>5 DEF HasFreeSpace
<1>4. ASSUME s[v].pc = "newrow"
      PROVE  /\ pages'[Col(groups', s[v], s[v].c)].ext = s[v].new
             /\ s[v].sizes[s[v].c] + ItemSize <= pages'[s[v].new].free
  <2>1. /\ Origin(v) \in PageNos /\ locks.rw[Origin(v)].writer = v /\ pages[Origin(v)].type = "data"
        /\ Origin(v) = Col(groups, s[v], s[v].c) /\ s[v].g \in 1..Len(groups) /\ Origin(v) <= savedCnt
    BY <1>4, OriginOwner, OriginData DEF UpdatePcs
  <2>2. Col(groups', s[v], s[v].c) = Origin(v)
    BY <1>1, <2>1 DEF Extends, Col
  <2>3. pages[Origin(v)].ext = s[v].new /\ s[v].sizes[s[v].c] + ItemSize <= pages[s[v].new].free
    BY <1>2, <1>4, <2>1 DEF Fits
  <2>4. s[v].new \in PageNos /\ s[v].new <= savedCnt /\ pages[s[v].new].type = "ext"
    <3>1. s[v].new \in PageNos /\ s[v].new <= savedCnt
      BY <1>4, ChangedCounted
    <3> QED
      BY <1>4, <3>1 DEF Inv, Storage, UseOK
  <2>5. \A o \in PageNos : pages[o].ext # Origin(v)
    BY <2>1, LocksAre DEF Inv, Storage, ChainsOK, ExtLock
  <2>6. pages'[Origin(v)].ext = pages[Origin(v)].ext
    BY <1>1, <2>1, <2>5 DEF Owns, PageNos
  <2>7. \A o \in PageNos : pages[o].ext = s[v].new => o = Origin(v)
    BY <2>1, <2>3, <2>4, LocksAre DEF Inv, Storage, ChainsOK, ExtLock
  <2>8. pages'[s[v].new].free = pages[s[v].new].free
    BY <1>1, <2>1, <2>4, <2>7 DEF Owns, PageNos
  <2> QED
    BY <2>2, <2>3, <2>6, <2>8
<1> QED
  BY <1>1, <1>3, <1>4 DEF Fits

\* A step that writes no page.
LEMMA QuietFits ==
  ASSUME Inv, pageCnt <= MaxPages, AllFit, NEW w \in Workers, Step1(w), pages' = pages,
         Fits(pages, groups', s'[w])
  PROVE  AllFit'
<1>1. Owns(w) /\ DataRoom'
  BY DEF Owns, AllFit, DataRoom
<1> QED
  BY <1>1, FitStep

\* A worker that is about to write nothing.
LEMMA NothingToFit ==
  ASSUME NEW P, NEW G, NEW r, r.pc \notin {"write", "newrow"}
  PROVE  Fits(P, G, r)
BY DEF Fits

\* FreeSpaceCheck: the room is looked at once more under the locks.
LEMMA CheckFits ==
  ASSUME Inv, pageCnt <= MaxPages, AllFit, NEW w \in Workers, FreeSpaceCheck(w)
  PROVE  AllFit'
<1>1. Step1(w) /\ s[w].pc = "check" /\ UNCHANGED <<pages, groups>>
  BY FreeSpaceCheck1 DEF Inv, Quiet
<1>2. s[w] \in Locals
  BY Known DEF Inv
<1>3. CASE s'[w] = [s[w] EXCEPT !.pc = "member", !.plist = << >>]
  <2>1. s'[w].pc = "member"
    BY <1>2, <1>3 DEF Locals
  <2> QED
    BY <1>1, <2>1, QuietFits, NothingToFit
<1>4. CASE /\ s'[w] = [s[w] EXCEPT !.pc = "write"]
           /\ \A c \in Cols : HasFreeSpace(pages[s[w].plist[c]], Room(w, c))
  <2>1. s'[w].pc = "write" /\ s'[w].plist = s[w].plist /\ s'[w].sizes = s[w].sizes
    BY <1>2, <1>4 DEF Locals
  <2>2. Fits(pages, groups', s'[w])
    BY <1>4, <2>1 DEF Fits, Room
  <2> QED
    BY <1>1, <2>2, QuietFits
<1> QED
  BY <1>3, <1>4, FreeSpaceCheck1 DEF Inv

\* GetSpaceSpecifyPage: the head of the chain has room, and the origin page stays locked.
LEMMA ChainFits ==
  ASSUME Inv, pageCnt <= MaxPages, AllFit, NEW w \in Workers, LockChainPage(w)
  PROVE  AllFit'
<1>1. Step1(w) /\ s[w].pc = "chain" /\ UNCHANGED <<pages, groups>>
  BY ChainPageStep
<1>2. s[w] \in Locals /\ s[w].op = "update" /\ s[w].kind \in {"undo", "ext"}
  BY <1>1, AtUpdate, LocalFields DEF UpdatePcs
<1>3. PICK p \in PageNos :
        /\ p = ChainHead(pages[Origin(w)], s[w].kind)
        /\ \/ HasFreeSpace(pages[p], Needed(w)) /\ s'[w] = Got(s[w], p)
           \/ s'[w] = [s[w] EXCEPT !.pc = "startext"]
  BY LockChainPage1 DEF Inv
<1>4. CASE s'[w] = [s[w] EXCEPT !.pc = "startext"]
  <2>1. s'[w].pc = "startext"
    BY <1>2, <1>4 DEF Locals
  <2> QED
    BY <1>1, <2>1, QuietFits, NothingToFit
<1>5. CASE HasFreeSpace(pages[p], Needed(w)) /\ s'[w] = Got(s[w], p)
  <2>1. CASE s[w].kind = "undo"
    <3>1. s'[w].pc = "origin"
      BY <1>2, <1>5, <2>1, GotFields
    <3> QED
      BY <1>1, <3>1, QuietFits, NothingToFit
  <2>2. CASE s[w].kind = "ext"
    <3>1. s'[w] = [s[w] EXCEPT !.pc = "newrow", !.new = p]
      BY <1>5, <2>2 DEF Got
    <3>2. /\ s'[w].pc = "newrow" /\ s'[w].new = p /\ s'[w].g = s[w].g /\ s'[w].c = s[w].c
          /\ s'[w].cols = s[w].cols /\ s'[w].sizes = s[w].sizes
      BY <1>2, <3>1 DEF Locals
    <3>3. Col(groups', s'[w], s'[w].c) = Origin(w)
      BY <1>1, <3>2, OriginIs DEF Col
    <3>4. p = pages[Origin(w)].ext
      BY <1>3, <2>2 DEF ChainHead
    <3>5. /\ Needed(w) = ItemSize + s[w].sizes[s[w].c] /\ s[w].sizes[s[w].c] \in Nat /\ pages[p].free \in Int
      <4>1. s[w].sizes[s[w].c] \in Nat
        BY <1>1, Known, ChangingIs DEF Inv, UpdatePcs
      <4>2. pages[p].free \in Int
        BY PageFields DEF Inv, Inv1, Types, Files
      <4> QED
        BY <2>2, <4>1, <4>2 DEF Needed, NewSize
    <3>6. s[w].sizes[s[w].c] + ItemSize <= pages[p].free
      BY <1>5, <3>5 DEF HasFreeSpace
    <3>7. Fits(pages, groups', s'[w])
      BY <3>2, <3>3, <3>4, <3>6 DEF Fits
    <3> QED
      BY <1>1, <3>7, QuietFits
  <2> QED
    BY <1>2, <2>1, <2>2
<1> QED
  BY <1>3, <1>4, <1>5

\* InsertRowDataWithGroup: the pages of the other columns are other pages.
LEMMA WriteColumnFits ==
  ASSUME Inv, pageCnt <= MaxPages, AllFit, NEW w \in Workers, WriteColumn(w)
  PROVE  AllFit'
<1>1. /\ Step1(w) /\ s[w].pc = "write" /\ groups' = groups
      /\ \/ s[w].c < NumCols /\ s'[w] = [s[w] EXCEPT !.c = @ + 1]
         \/ s[w].c = NumCols /\ s'[w] = [s[w] EXCEPT !.pc = "end"]
  BY WriteColumn1 DEF Inv
<1>2. PICK v \in Versions, p \in PageNos, n \in Pages :
        /\ v = NewVersion(s[w].xid, s[w].sizes[s[w].c], s[w].xid, NoPosition)
        /\ p = s[w].plist[s[w].c] /\ Writes(pages, pages', p, n) /\ Appended(pages[p], n, v)
  BY WriteColumn1 DEF Inv
<1>3. s[w] \in Locals /\ pages \in Files /\ groups \in Groups /\ s[w].c \in Cols /\ s[w].g \in 1..Len(groups)
  BY <1>1, Known, FillsAt DEF Inv
<1>4. /\ pages'[p] = n /\ n.type = pages[p].type /\ n.ext = pages[p].ext
      /\ n.free = pages[p].free - (s[w].sizes[s[w].c] + ItemSize)
      /\ \A q \in PageNos : q # p => pages'[q] = pages[q]
  <2>1. v.size = s[w].sizes[s[w].c]
    BY <1>2 DEF NewVersion
  <2> QED
    BY <1>2, <2>1 DEF Writes, Puts, Appended, SameHead
<1>5. Fits(pages, groups, s[w])
  BY DEF AllFit
<1>6. HasFreeSpace(pages[p], s[w].sizes[s[w].c] + RowHead + ItemSize)
  BY <1>1, <1>2, <1>3, <1>5, ColsAre DEF Fits
<1>7. s[w].sizes[s[w].c] \in Nat /\ pages[p].free \in Int
  <2>1. s[w].sizes[s[w].c] \in Nat
    BY <1>1, Known, InStatement DEF Inv, Shape
  <2> QED
    BY <1>3, <2>1, PageFields DEF Files
<1>8. n.free >= 0
  BY <1>4, <1>6, <1>7 DEF HasFreeSpace, RowHead
<1>9. DataRoom'
  BY <1>4, <1>8 DEF AllFit, DataRoom
<1>10. pages[p].type = "data" /\ locks.rw[p].writer = w
  <2>1. /\ groups[s[w].g][s[w].c] = s[w].plist[s[w].c]
        /\ locks.rw[groups[s[w].g][s[w].c]].writer = w
    BY <1>1, <1>3, GroupOwner
  <2>2. p = groups[s[w].g][s[w].c] /\ locks.rw[p].writer = w
    BY <1>2, <2>1
  <2> QED
    BY <1>3, <2>2 DEF Inv, Storage, GroupsOK
<1>11. Owns(w)
  BY <1>4, <1>10 DEF Owns
<1>12. CASE s[w].c < NumCols /\ s'[w] = [s[w] EXCEPT !.c = @ + 1]
  <2>1. /\ s'[w].c = s[w].c + 1 /\ s'[w].pc = "write" /\ s'[w].plist = s[w].plist /\ s'[w].sizes = s[w].sizes
    BY <1>1, <1>3, <1>12 DEF Locals
  <2>2. ASSUME NEW k \in Cols, s[w].c + 1 <= k
        PROVE  HasFreeSpace(pages'[s[w].plist[k]], s[w].sizes[k] + RowHead + ItemSize)
    <3>1. k # s[w].c /\ s[w].c <= k
      BY <1>3, <2>2, ColsAre
    <3>2. s[w].plist[k] \in PageNos /\ s[w].plist[k] # p
      BY <1>1, <1>2, <1>3, <3>1, InsertAt, ColsAre DEF GroupPcs
    <3> QED
      BY <1>1, <1>4, <1>5, <3>1, <3>2 DEF Fits
  <2>3. Fits(pages', groups', s'[w])
    BY <2>1, <2>2 DEF Fits
  <2> QED
    BY <1>1, <1>9, <1>11, <2>3, FitStep
<1>13. CASE s'[w] = [s[w] EXCEPT !.pc = "end"]
  <2>1. s'[w].pc = "end"
    BY <1>3, <1>13 DEF Locals
  <2> QED
    BY <1>1, <1>9, <1>11, <2>1, FitStep, NothingToFit
<1> QED
  BY <1>1, <1>12, <1>13

LEMMA GroupItemFits ==
  ASSUME Inv, pageCnt <= MaxPages, AllFit, NEW w \in Workers, InsertGroupItem(w)
  PROVE  AllFit'
<1>1. Step1(w) /\ pages' = pages
  BY InsertGroupItem1
<1>2. s'[w] = [s[w] EXCEPT !.pc = "group"] \/ s'[w] = [s[w] EXCEPT !.pc = "end"]
  BY InsertGroupItem1
<1>3. s[w] \in Locals
  BY Known DEF Inv
<1>4. s'[w].pc \in {"group", "end"}
  BY <1>2, <1>3 DEF Locals
<1> QED
  BY <1>1, <1>4, QuietFits, NothingToFit

LEMMA AddPageFits ==
  ASSUME Inv, pageCnt <= MaxPages, AllFit, NEW w \in Workers, AddPage(w)
  PROVE  AllFit'
<1>1. /\ Step1(w) /\ s[w].pc = "extend" /\ s'[w] = [s[w] EXCEPT !.num = @ - 1, !.last = pageCnt + 1]
      /\ \A p \in PageNos : pages'[p] = IF p = pageCnt + 1 THEN InitPage ELSE pages[p]
  BY AddPage1
<1>2. s[w] \in Locals /\ pageCnt \in Nat /\ savedCnt \in Nat /\ savedCnt <= pageCnt
  BY Known DEF Inv, Inv1, Types
<1>3. s'[w].pc = "extend"
  BY <1>1, <1>2 DEF Locals
<1>4. Owns(w)
  BY <1>1, <1>2 DEF Owns
<1>5. DataRoom'
  BY <1>1, FreshPagesAre, TableSpaceAssumption DEF AllFit, DataRoom
<1> QED
  BY <1>1, <1>3, <1>4, <1>5, FitStep, NothingToFit

\* A fresh extension page has room for the value it was made for.
LEMMA LinkPageFits ==
  ASSUME Inv, pageCnt <= MaxPages, AllFit, NEW w \in Workers, Wants(s[w]), LinkPage(w)
  PROVE  AllFit'
<1>1. /\ Step1(w) /\ s[w].pc = "extend" /\ s[w].op = "update" /\ s[w].num = 0 /\ groups' = groups
  BY LinkPage1
<1>2. s[w] \in Locals /\ pages \in Files /\ savedCnt \in Nat /\ Statement(s[w]) /\ s[w].kind \in {"undo", "ext"}
  BY Known, LocalFields DEF Inv, Inv1, Types, Shape
<1>3. CASE s'[w] = [s[w] EXCEPT !.pc = "end"] /\ pages' = pages
  <2>1. s'[w].pc = "end"
    BY <1>2, <1>3 DEF Locals
  <2> QED
    BY <1>1, <1>3, <2>1, QuietFits, NothingToFit
<1>4. CASE /\ s[w].last \in PageNos /\ Chains(pages, pages', Origin(w), s[w].last, s[w].kind)
           /\ s'[w] = Got(s[w], s[w].last)
  <2>1. PICK l \in PageNos : l = s[w].last /\ l > savedCnt
    <3>1. s[w].last = pageCnt /\ pageCnt = savedCnt + Batch(s[w])
      BY <1>1, <1>4, Added
    <3> QED
      BY <1>1, <1>2, <1>4, <3>1 DEF Batch
  <2>2. Origin(w) \in PageNos /\ locks.rw[Origin(w)].writer = w /\ pages[Origin(w)].type = "data"
    BY <1>1, OriginOwner, OriginData DEF ExtPcs
  <2>3. /\ \A p \in PageNos : p # Origin(w) /\ p # l => pages'[p] = pages[p]
        /\ pages'[l].free = PageRoom /\ pages'[Origin(w)].free = pages[Origin(w)].free
        /\ pages'[Origin(w)].type = pages[Origin(w)].type
        /\ s[w].kind = "ext" => pages'[Origin(w)].ext = l
    BY <1>4, <2>1 DEF Chains
  <2>4. Owns(w)
    BY <2>1, <2>2, <2>3 DEF Owns
  <2>5. DataRoom'
    <3> SUFFICES ASSUME NEW p \in PageNos, pages'[p].type \in {"data", "ext"} PROVE pages'[p].free >= 0
      BY DEF DataRoom
    <3>1. CASE p = l
      BY <2>3, <3>1, TableSpaceAssumption
    <3>2. CASE p # l
      BY <2>3, <3>2 DEF AllFit, DataRoom
    <3> QED
      BY <3>1, <3>2
  <2>6. CASE s[w].kind = "undo"
    <3>1. s'[w].pc = "origin"
      BY <1>1, <1>2, <1>4, <2>6, GotFields
    <3> QED
      BY <1>1, <2>4, <2>5, <3>1, FitStep, NothingToFit
  <2>7. CASE s[w].kind = "ext"
    <3>1. s'[w] = [s[w] EXCEPT !.pc = "newrow", !.new = l]
      BY <1>4, <2>1, <2>7 DEF Got
    <3>2. /\ s'[w].pc = "newrow" /\ s'[w].new = l /\ s'[w].g = s[w].g /\ s'[w].c = s[w].c
          /\ s'[w].cols = s[w].cols /\ s'[w].sizes = s[w].sizes
      BY <1>2, <3>1 DEF Locals
    <3>3. Col(groups', s'[w], s'[w].c) = Origin(w)
      BY <1>1, <3>2, OriginIs DEF Col
    <3>4. s[w].sizes[s[w].c] + ItemSize <= PageRoom
      BY <1>1, <2>7 DEF Wants, Second, ExtPcs
    <3>5. Fits(pages', groups', s'[w])
      BY <2>3, <2>7, <3>2, <3>3, <3>4 DEF Fits
    <3> QED
      BY <1>1, <2>4, <2>5, <3>5, FitStep
  <2> QED
    BY <1>2, <2>6, <2>7
<1> QED
  BY <1>3, <1>4, LinkPage1

\* One page is written by the worker that holds it, and its room was looked at.
LEMMA PageFits ==
  ASSUME Inv, pageCnt <= MaxPages, AllFit, NEW w \in Workers, Step1(w), NEW o \in PageNos, NEW n,
         Writes(pages, pages', o, n), n.type = "undo" \/ (n.free >= 0 /\ locks.rw[o].writer = w),
         pages[o].type \in {"data", "undo"}, s'[w].pc \notin {"write", "newrow"}
  PROVE  AllFit'
<1>1. /\ pages'[o] = n /\ n.type = pages[o].type /\ \A q \in PageNos : q # o => pages'[q] = pages[q]
  BY DEF Writes, Puts, SameHead
<1>2. Owns(w)
  BY <1>1 DEF Owns
<1>3. DataRoom'
  BY <1>1 DEF AllFit, DataRoom
<1> QED
  BY <1>2, <1>3, FitStep, NothingToFit

LEMMA ChangeFits ==
  ASSUME Inv, pageCnt <= MaxPages, AllFit, NEW w \in Workers,
         MoveOld(w) \/ WriteInPlace(w) \/ Remove(w) \/ Grow(w)
  PROVE  AllFit'
<1>0. Inv1 /\ s[w] \in Locals /\ pages \in Files
  BY Known DEF Inv
<1>1. CASE MoveOld(w)
  <2>1. Step1(w) /\ s[w].pc = "move"
    BY <1>0, <1>1, MoveOld1
  <2>2. PICK n \in Pages, pc \in {"inplace", "grow"}, u \in Positions :
          /\ Writes(pages, pages', s[w].undo, n) /\ Appended(pages[s[w].undo], n, Ended(Old(w), s[w].xid))
          /\ u = [page |-> s[w].undo, item |-> Len(n.items)]
          /\ s'[w] = [s[w] EXCEPT !.pc = pc, !.upos = u]
    BY <1>0, <1>1, MoveOld1
  <2>3. s'[w].pc \notin {"write", "newrow"}
    BY <1>0, <2>2 DEF Locals
  <2>4. pages[s[w].undo].type = "undo" /\ s[w].undo \in PageNos
    <3>1. HasUndo(s[w])
      BY <1>0, <2>1, ChangeAt
    <3> QED
      BY <2>1, <3>1, OriginData DEF UpdatePcs
  <2>5. n.type = "undo"
    BY <2>2, <2>4 DEF Writes, SameHead
  <2> QED
    BY <2>1, <2>2, <2>3, <2>4, <2>5, PageFits
<1>2. ASSUME s[w].pc \in {"inplace", "grow", "remove"}
      PROVE  /\ Origin(w) \in PageNos /\ locks.rw[Origin(w)].writer = w /\ pages[Origin(w)].type = "data"
             /\ pages[Origin(w)].free \in Int /\ pages[Origin(w)].free >= 0
  <2>1. Origin(w) \in PageNos /\ locks.rw[Origin(w)].writer = w /\ pages[Origin(w)].type = "data"
    BY <1>2, OriginOwner, OriginData DEF UpdatePcs, DeletePcs
  <2> QED
    BY <1>0, <2>1, PageFields DEF AllFit, DataRoom, Files
<1>3. CASE WriteInPlace(w) \/ Remove(w)
  <2>1. PICK pc \in {"first", "delete"} :
          /\ Step1(w) /\ s[w].pc \in {"inplace", "remove"} /\ s'[w] = ColumnNext(s[w], pc)
          /\ \E n \in Pages : Writes(pages, pages', Origin(w), n) /\ n.free = pages[Origin(w)].free
    <3>1. CASE WriteInPlace(w)
      BY <1>0, <3>1, WriteInPlace1
    <3>2. CASE Remove(w)
      BY <1>0, <3>2, Remove1
    <3> QED
      BY <1>3, <3>1, <3>2
  <2>2. PICK n \in Pages : Writes(pages, pages', Origin(w), n) /\ n.free = pages[Origin(w)].free
    BY <2>1
  <2>3. s'[w].pc \notin {"write", "newrow"}
    BY <1>0, <2>1, NextWritesNot
  <2>4. Step1(w)
    BY <2>1
  <2> QED
    BY <1>2, <2>1, <2>2, <2>3, <2>4, PageFits
<1>4. CASE Grow(w)
  <2>1. Step1(w) /\ s[w].pc = "grow" /\ groups' = groups
    BY <1>0, <1>4, Grow1
  <2>2. CASE /\ HasFreeSpace(pages[Origin(w)], ItemSize + s[w].sizes[s[w].c])
             /\ s'[w] = ColumnNext(s[w], "first")
             /\ \E n \in Pages :
                  /\ Writes(pages, pages', Origin(w), n)
                  /\ n.free = pages[Origin(w)].free - (Changed(w).size + ItemSize)
    <3>1. PICK n \in Pages :
            /\ Writes(pages, pages', Origin(w), n)
            /\ n.free = pages[Origin(w)].free - (Changed(w).size + ItemSize)
      BY <2>2
    <3>2. Changed(w).size = s[w].sizes[s[w].c] /\ s[w].sizes[s[w].c] \in Nat
      <4>1. Changed(w).size = s[w].sizes[s[w].c]
        BY DEF Changed, NewVersion
      <4> QED
        BY <1>0, <2>1, <4>1, ChangeAt
    <3>3. n.free >= 0
      BY <1>2, <2>1, <2>2, <3>1, <3>2 DEF HasFreeSpace
    <3>4. s'[w].pc \notin {"write", "newrow"}
      BY <1>0, <2>2, NextWritesNot
    <3> QED
      BY <1>2, <2>1, <3>1, <3>3, <3>4, PageFits
  <2>3. CASE /\ pages' = pages
             /\ s'[w] = [s[w] EXCEPT !.kind = "ext", !.num = 1,
                           !.pc = IF ChainHead(pages[Col(groups, s[w], s[w].c)], "ext") = INVALID_PAGE_NUM
                                  THEN "startext" ELSE "chain"]
    <3>1. PICK pc \in {"startext", "chain"} : s'[w] = [s[w] EXCEPT !.kind = "ext", !.num = 1, !.pc = pc]
      BY <2>3
    <3>2. s'[w].pc \notin {"write", "newrow"}
      BY <1>0, <3>1 DEF Locals
    <3> QED
      BY <2>1, <2>3, <3>2, QuietFits, NothingToFit
  <2>4. CASE pages' = pages /\ s'[w] = [s[w] EXCEPT !.pc = "end"]
    <3>1. s'[w].pc \notin {"write", "newrow"}
      BY <1>0, <2>4 DEF Locals
    <3> QED
      BY <2>1, <2>4, <3>1, QuietFits, NothingToFit
  <2> QED
    BY <1>0, <1>4, <2>2, <2>3, <2>4, Grow1
<1> QED
  BY <1>1, <1>3, <1>4

\* The extension page that GetSpaceSpecifyPage found has the room still: to write there, or to
\* put another page before it, the origin page must be held.
LEMMA NewRowFits ==
  ASSUME Inv, pageCnt <= MaxPages, AllFit, NEW w \in Workers, WriteNewRow(w)
  PROVE  AllFit'
<1>1. /\ Step1(w) /\ s[w].pc = "newrow" /\ s'[w] = ColumnNext(s[w], "first")
      /\ s[w].new \in PageNos /\ s[w].new # Origin(w)
  BY WriteNewRow1
<1>2. PICK M \in Files, m \in Pages, n \in Pages :
        /\ Writes(pages, M, s[w].new, m) /\ Appended(pages[s[w].new], m, Changed(w))
        /\ M[Origin(w)] = pages[Origin(w)]
        /\ Writes(M, pages', Origin(w), n) /\ n.free = pages[Origin(w)].free
  BY WriteNewRow1
<1>3. s[w] \in Locals /\ pages \in Files /\ s[w].sizes[s[w].c] \in Nat /\ pages[s[w].new].free \in Int
  BY <1>1, Known, ChangeAt, PageFields DEF Inv, Files
<1>4. /\ Origin(w) \in PageNos /\ locks.rw[Origin(w)].writer = w /\ pages[Origin(w)].type = "data"
      /\ Origin(w) = Col(groups, s[w], s[w].c)
  BY <1>1, OriginOwner, OriginData DEF UpdatePcs
<1>5. pages[Origin(w)].ext = s[w].new /\ s[w].sizes[s[w].c] + ItemSize <= pages[s[w].new].free
  BY <1>1, <1>4 DEF AllFit, Fits
<1>6. m.free = pages[s[w].new].free - (s[w].sizes[s[w].c] + ItemSize)
  <2>1. Changed(w).size = s[w].sizes[s[w].c]
    BY DEF Changed, NewVersion
  <2> QED
    BY <1>2, <2>1 DEF Appended
<1>7. m.free >= 0
  BY <1>3, <1>5, <1>6
<1>8. /\ pages'[s[w].new] = m /\ m.type = pages[s[w].new].type
      /\ pages'[Origin(w)] = n /\ n.type = pages[Origin(w)].type
      /\ \A q \in PageNos : q # Origin(w) /\ q # s[w].new => pages'[q] = pages[q]
  BY <1>1, <1>2 DEF Writes, Puts, SameHead
<1>9. DataRoom'
  BY <1>2, <1>7, <1>8 DEF AllFit, DataRoom
<1>10. Owns(w)
  BY <1>4, <1>5, <1>8 DEF Owns
<1>11. s'[w].pc \notin {"write", "newrow"}
  BY <1>1, <1>3, NextWritesNot
<1> QED
  BY <1>1, <1>9, <1>10, <1>11, FitStep, NothingToFit

FitOK == pageCnt <= MaxPages => AllFit

\* Every step keeps the room that was found.
LEMMA NextFits ==
  ASSUME Inv, Sized, FitOK, Next
  PROVE  FitOK'
<1> SUFFICES ASSUME pageCnt' <= MaxPages PROVE AllFit'
  BY DEF FitOK
<1>1. pageCnt <= MaxPages
  BY PagesAdded, TableSpaceAssumption
<1>2. AllFit
  BY <1>1 DEF FitOK
<1>3. PICK w \in Workers : Insert(w) \/ Extension(w) \/ Scan(w) \/ Update(w) \/ Delete(w) \/ EndStatement(w)
  BY DEF Next
<1>4. CASE Reads(w)
  <2>1. Step1(w) /\ pages' = pages /\ s'[w].pc \notin {"write", "newrow"}
    BY <1>4, ReadsOnly
  <2> QED
    BY <1>1, <1>2, <2>1, QuietFits, NothingToFit
<1>5. CASE LockChainPage(w) \/ FreeSpaceCheck(w) \/ WriteColumn(w) \/ InsertGroupItem(w)
  BY <1>1, <1>2, <1>5, ChainFits, CheckFits, WriteColumnFits, GroupItemFits
<1>6. CASE AddPage(w) \/ LinkPage(w)
  BY <1>1, <1>2, <1>6, AddPageFits, LinkPageFits DEF Sized
<1>7. CASE MoveOld(w) \/ WriteInPlace(w) \/ Remove(w) \/ Grow(w) \/ WriteNewRow(w)
  BY <1>1, <1>2, <1>7, ChangeFits, NewRowFits
<1> QED
  BY <1>3, <1>4, <1>5, <1>6, <1>7 DEF Insert, Extension, Scan, Update, Delete, Reads

LEMMA InitFits ==
  ASSUME Init
  PROVE  FitOK
<1>1. NoPage.type = "none" /\ Idle.pc = "idle"
  BY FreshPagesAre DEF Idle
<1>2. DataRoom
  BY <1>1 DEF Init, DataRoom
<1>3. \A w \in Workers : Fits(pages, groups, s[w])
  BY <1>1, NothingToFit DEF Init
<1> QED
  BY <1>2, <1>3 DEF FitOK, AllFit

\* FreeSpaceCheck and GetSpaceSpecifyPage: no row is written past the room of a data page or of an
\* extension page, although the room is looked at one lock before it is used and that of a fresh
\* extension page is not looked at: GetSpaceSpecifyPage has refused what an empty page cannot take.
THEOREM ModifyRoom ==
  ASSUME LocksFit
  PROVE  Spec => [](pageCnt <= MaxPages => DataPagesFit)
<1>1. Init => Inv /\ Sized /\ FitOK
  BY InitInv, InitSized, InitFits
<1>2. Inv /\ Sized /\ FitOK /\ [Next]_vars => (Inv /\ Sized /\ FitOK)'
  <2>1. Sized /\ FitOK /\ UNCHANGED vars => (Sized /\ FitOK)'
    BY DEF Sized, FitOK, AllFit, DataRoom, vars
  <2> QED
    BY <2>1, NextInv, StutterInv, NextSized, NextFits
<1>3. Inv /\ Sized /\ FitOK => (pageCnt <= MaxPages => DataPagesFit)
  BY DEF FitOK, AllFit, DataRoom, DataPagesFit
<1> QED
  BY <1>1, <1>2, <1>3, PTL DEF Spec
===============================================================================

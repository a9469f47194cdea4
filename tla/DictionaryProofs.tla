-------------------------- MODULE DictionaryProofs --------------------------
(***************************************************************************)
(* Proofs about Dictionary: as long as no table has lost its first         *)
(* descriptor (headLost), Inv is an inductive invariant, and the four      *)
(* properties of the dictionary and of the table files follow from it, for *)
(* any number of sessions, names, statements, open files and restarts.     *)
(*                                                                         *)
(* Inv is the conjunction of                                               *)
(*   Types           the types, and a free entry for every statement that  *)
(*                   may still need one;                                   *)
(*   Ring            the ring of descriptors;                              *)
(*   LockHolder      who is between two steps under the dictionary lock;   *)
(*   SessionEntries  the entry that a session works with;                  *)
(*   Apart           nobody else works with the entry that is being made;  *)
(*   ListOK          an entry is linked to an earlier one or to the end of *)
(*                   the list and knows g_TblList as its predecessor;      *)
(*   ChainNames      the entries behind any entry, in the list or no       *)
(*                   longer, have other names;                             *)
(*   OwnFiles        the files of an entry that is being made;             *)
(*   IdsOK           identifiers and names;                                *)
(*   WholeSoFar      what CREATE and LoadTblInfo have made sure of.        *)
(*                                                                         *)
(* The first part has the lemmas about the operators of Smgr: Ring, and    *)
(* what each operation does to the heads of the tables and to the files    *)
(* their descriptors have open.                                            *)
(***************************************************************************)
EXTENDS Dictionary, NatInductions, FiniteSetTheorems, TLAPS

-----------------------------------------------------------------------------
\* The storage manager.

USE SmgrAssumption

MainVF(e)  == <<e, "main">>
GroupVF(e) == <<e, "group">>
Mains      == Entries \X {"main"}

SmgrStates ==
  [next : [Nodes -> Nodes], prev : [Nodes -> Nodes], vfhead : Nodes \cup {NoVF},
   head : [Entries -> Nodes \cup {NoVF}], end : [Entries -> Nodes \cup {NoVF}],
   pfh  : [Nodes -> Files \cup {Closed}], opened : Int]

\* Behind the main descriptor of a table stands its group descriptor or the main one of a table,
\* never the group descriptor of another table.
Behind(M) ==
  /\ M.vfhead = NoVF \/ M.vfhead \in Mains
  /\ \A e \in Entries :
       /\ M.head[e] \in {NoVF, MainVF(e)}
       /\ M.next[MainVF(e)] \in Mains \cup {GroupVF(e)}
       /\ M.next[GroupVF(e)] \in Mains \cup {GroupVF(e)}
       /\ M.prev[GroupVF(e)] \in {GroupVF(e), MainVF(e)}
       /\ M.prev[GroupVF(e)] = MainVF(e) => M.next[GroupVF(e)] \in Mains
       /\ M.next[MainVF(e)] = GroupVF(e) =>
            /\ M.prev[GroupVF(e)] = MainVF(e)
            /\ M.head[e] = MainVF(e) /\ M.end[e] = GroupVF(e)
       /\ M.head[e] = MainVF(e) => M.end[e] \in {MainVF(e), GroupVF(e)}

\* The links between main descriptors agree in both directions, the ring starts at the head of a
\* table, and a table without a head is not in it.
Tied(M) ==
  \A e \in Entries :
    /\ M.vfhead = MainVF(e) => M.head[e] = MainVF(e)
    /\ M.head[e] = NoVF => M.next[MainVF(e)] = MainVF(e)
    /\ M.prev[GroupVF(e)] = MainVF(e) => M.next[MainVF(e)] = GroupVF(e)
    /\ \A d \in Entries :
         M.prev[MainVF(d)] = MainVF(e) => M.next[MainVF(e)] = MainVF(d)

Ring(M) == Behind(M) /\ Tied(M)

\* Both descriptors of a table are in the ring, one behind the other.
Both(M, e) == M.next[MainVF(e)] = GroupVF(e)
KeepsBoth(M, N, D) == \A d \in D : Both(M, d) => Both(N, d)

\* The descriptors.
LEMMA NodeFacts ==
  /\ NoVF \notin Nodes /\ Closed \notin Nodes
  /\ \A v \in Mains : v \in Nodes /\ forkNum(v) = "main" /\ v = MainVF(Owner(v))
                      /\ Owner(v) \in Entries
  /\ \A e \in Entries :
       /\ MainVF(e) \in Mains /\ MainVF(e) \in Nodes
       /\ GroupVF(e) \in Nodes /\ GroupVF(e) \notin Mains
       /\ forkNum(MainVF(e)) = "main" /\ forkNum(GroupVF(e)) = "group"
       /\ Owner(MainVF(e)) = e /\ Owner(GroupVF(e)) = e
       /\ \A d \in Entries : /\ MainVF(e) = MainVF(d) => e = d
                             /\ GroupVF(e) = GroupVF(d) => e = d
       /\ MainVF(e) \in Files /\ GroupVF(e) \in Files
  /\ Closed \notin Files /\ Files \subseteq Nodes
BY DEF Forks, Files, Nodes, NoVF, Closed, Owner, forkNum, MainVF, GroupVF, Mains

LEMMA FieldTypes ==
  ASSUME NEW M \in SmgrStates
  PROVE  /\ M.next \in [Nodes -> Nodes]
         /\ M.prev \in [Nodes -> Nodes]
         /\ M.vfhead \in Nodes \cup {NoVF}
         /\ M.head \in [Entries -> Nodes \cup {NoVF}]
         /\ M.end \in [Entries -> Nodes \cup {NoVF}]
         /\ M.pfh \in [Nodes -> Files \cup {Closed}]
         /\ M.opened \in Int
BY DEF SmgrStates

\* An empty ring.
LEMMA InitSmgrRing == InitSmgr \in SmgrStates /\ Ring(InitSmgr)
<1>1. InitSmgr \in SmgrStates
  BY DEF InitSmgr, SmgrStates
<1>2. Ring(InitSmgr)
  BY NodeFacts DEF InitSmgr, Ring, Behind, Tied
<1> QED BY <1>1, <1>2

-----------------------------------------------------------------------------
(* FindVF *)

\* A walk of two steps: the start, and the next one unless it is the start again.
LEMMA WalkTwo ==
  ASSUME NEW M, NEW h
  PROVE  Walk(M, h, MAX_FORK) =
           IF M.next[h] = h THEN [k \in 0 .. 0 |-> h]
           ELSE [k \in 0 .. 1 |-> IF k = 0 THEN h ELSE M.next[h]]
<1> DEFINE at0 == CHOOSE at : at = [k \in 0 .. 2 - 1 |-> IF k = 0 THEN h ELSE M.next[at[k - 1]]]
           end0 == Min({k \in 1 .. 2 : k = 2 \/ at0[k] = h})
<1>1. Walk(M, h, MAX_FORK) = [k \in 0 .. end0 - 1 |-> at0[k]]
  BY DEF Walk, MAX_FORK
<1>2. at0 = [k \in 0 .. 2 - 1 |-> IF k = 0 THEN h ELSE M.next[at0[k - 1]]]
  <2> DEFINE f == [k \in 0 .. 2 - 1 |-> IF k = 0 THEN h ELSE M.next[h]]
  <2>1. f = [k \in 0 .. 2 - 1 |-> IF k = 0 THEN h ELSE M.next[f[k - 1]]]
    OBVIOUS
  <2> HIDE DEF f
  <2> QED BY <2>1, Zenon
<1> HIDE DEF at0
<1>3. at0[0] = h /\ at0[1] = M.next[h]
  BY <1>2
<1>4. CASE M.next[h] = h
  <2>1. {k \in 1 .. 2 : k = 2 \/ at0[k] = h} = {1, 2}
    BY <1>3, <1>4
  <2>2. end0 = 1
    BY <2>1 DEF Min
  <2> QED BY <1>1, <1>3, <1>4, <2>2
<1>5. CASE M.next[h] # h
  <2>1. {k \in 1 .. 2 : k = 2 \/ at0[k] = h} = {2}
    BY <1>3, <1>5
  <2>2. end0 = 2
    BY <2>1 DEF Min
  <2>3. Walk(M, h, MAX_FORK) = [k \in 0 .. 1 |-> at0[k]]
    BY <1>1, <2>2
  <2>4. \A k \in 0 .. 1 : at0[k] = IF k = 0 THEN h ELSE M.next[h]
    BY <1>3
  <2> QED BY <1>5, <2>3, <2>4
<1> QED BY <1>4, <1>5

\* What FindVF answers.
LEMMA FindVFIs ==
  ASSUME NEW M \in SmgrStates, NEW h \in Nodes, NEW f \in Forks
  PROVE  FindVF(M, h, f) =
           IF forkNum(h) = f THEN h
           ELSE IF M.next[h] # h /\ forkNum(M.next[h]) = f THEN M.next[h]
           ELSE NoVF
<1> DEFINE walk == Walk(M, h, MAX_FORK)
           ks == {k \in DOMAIN walk : forkNum(walk[k]) = f}
<1>1. h # NoVF
  BY NodeFacts
<1>2. FindVF(M, h, f) = IF ks = {} THEN NoVF ELSE walk[Min(ks)]
  BY <1>1 DEF FindVF, FirstOf
<1>3. CASE M.next[h] = h
  <2>1. walk = [k \in 0 .. 0 |-> h]
    BY <1>3, WalkTwo
  <2>2. ks = IF forkNum(h) = f THEN {0} ELSE {}
    BY <2>1
  <2>3. Min({0}) = 0
    BY DEF Min
  <2> QED BY <1>2, <1>3, <2>1, <2>2, <2>3
<1>4. CASE M.next[h] # h
  <2>1. walk = [k \in 0 .. 1 |-> IF k = 0 THEN h ELSE M.next[h]]
    BY <1>4, WalkTwo
  <2> HIDE DEF walk
  <2>2. CASE forkNum(h) = f
    <3>1. Min(ks) = 0
      BY <2>1, <2>2 DEF Min
    <3>2. ks # {}
      BY <2>1, <2>2
    <3> QED BY <1>2, <2>1, <2>2, <3>1, <3>2
  <2>3. CASE forkNum(h) # f /\ forkNum(M.next[h]) = f
    <3>1. ks = {1}
      BY <2>1, <2>3
    <3>2. Min({1}) = 1
      BY DEF Min
    <3> QED BY <1>2, <1>4, <2>1, <2>3, <3>1, <3>2
  <2>4. CASE forkNum(h) # f /\ forkNum(M.next[h]) # f
    <3>1. ks = {}
      BY <2>1, <2>4
    <3> QED BY <1>2, <2>4, <3>1
  <2> QED BY <2>2, <2>3, <2>4
<1> QED BY <1>3, <1>4

\* From the head of a table FindVF answers a descriptor of this table, or none.
LEMMA FindsOwn ==
  ASSUME NEW M \in SmgrStates, Ring(M), NEW e \in Entries, NEW f \in Forks
  PROVE  /\ FindVF(M, M.head[e], f) \in {NoVF, <<e, f>>}
         /\ M.head[e] = MainVF(e) => FindVF(M, M.head[e], "main") = MainVF(e)
         /\ M.head[e] = MainVF(e) =>
              (FindVF(M, M.head[e], "group") = NoVF <=> M.next[MainVF(e)] # GroupVF(e))
         /\ M.head[e] = NoVF => FindVF(M, M.head[e], f) = NoVF
<1>1. CASE M.head[e] = NoVF
  <2>1. FindVF(M, M.head[e], f) = NoVF /\ NoVF # MainVF(e)
    BY <1>1, NodeFacts DEF FindVF
  <2> QED BY <1>1, <2>1
<1>2. CASE M.head[e] = MainVF(e)
  <2> DEFINE h == MainVF(e)
  <2>1. h \in Nodes /\ forkNum(h) = "main" /\ "main" \in Forks /\ "group" \in Forks
    BY NodeFacts DEF Forks
  <2>2. M.next[h] \in Mains \cup {GroupVF(e)}
    BY DEF Ring, Behind
  <2>3. FindVF(M, h, "main") = h
    BY <2>1, FindVFIs
  <2>4. FindVF(M, h, "group") = IF M.next[h] = GroupVF(e) THEN GroupVF(e) ELSE NoVF
    BY <2>1, <2>2, FindVFIs, NodeFacts
  <2>5. NoVF # MainVF(e) /\ NoVF # GroupVF(e)
    BY NodeFacts
  <2>6. f = "main" \/ f = "group"
    BY DEF Forks
  <2>7. FindVF(M, M.head[e], f) \in {NoVF, <<e, f>>}
    BY <1>2, <2>3, <2>4, <2>6 DEF MainVF, GroupVF
  <2> QED BY <1>2, <2>3, <2>4, <2>5, <2>7
<1> QED BY <1>1, <1>2 DEF Ring, Behind

-----------------------------------------------------------------------------
(* The files *)

LEMMA NewFiles ==
  ASSUME NEW M \in SmgrStates, NEW p \in [Nodes -> Files \cup {Closed}], NEW k \in Int
  PROVE  LET N == [M EXCEPT !.pfh = p, !.opened = k]
         IN  /\ N \in SmgrStates
             /\ N.next = M.next /\ N.prev = M.prev /\ N.vfhead = M.vfhead
             /\ N.head = M.head /\ N.end = M.end /\ N.pfh = p
BY DEF SmgrStates

\* An operation closes files at most, and touches nothing but files and their count.
Closes(M, N) ==
  /\ N \in SmgrStates
  /\ N.next = M.next /\ N.prev = M.prev /\ N.vfhead = M.vfhead
  /\ N.head = M.head /\ N.end = M.end
  /\ \A v \in Nodes : N.pfh[v] \in {M.pfh[v], Closed}

LEMMA ClosesRing ==
  ASSUME NEW M \in SmgrStates, NEW N, Closes(M, N), Ring(M)
  PROVE  Ring(N)
BY DEF Closes, Ring, Behind, Tied

LEMMA SmgrCloseCloses ==
  ASSUME NEW M \in SmgrStates, NEW v PROVE Closes(M, smgr_close(M, v))
<1>1. CASE M.pfh[v] = Closed
  BY <1>1 DEF smgr_close, Closes
<1>2. CASE M.pfh[v] # Closed
  <2> DEFINE p == [M.pfh EXCEPT ![v] = Closed]
             N == [M EXCEPT !.pfh = p, !.opened = M.opened - 1]
  <2>0. p \in [Nodes -> Files \cup {Closed}] /\ M.opened - 1 \in Int
    <3>1. M.pfh \in [Nodes -> Files \cup {Closed}] /\ M.opened \in Int
      BY FieldTypes
    <3>2. p \in [Nodes -> Files \cup {Closed}]
      BY <3>1
    <3> QED BY <3>1, <3>2
  <2>a. \A x \in Nodes : p[x] \in {M.pfh[x], Closed}
    BY FieldTypes
  <2> HIDE DEF p
  <2>1. /\ N.next = M.next /\ N.prev = M.prev /\ N.vfhead = M.vfhead
        /\ N.head = M.head /\ N.end = M.end /\ N.pfh = p
    BY <2>0 DEF SmgrStates
  <2>2. N \in SmgrStates
    BY <2>0, NewFiles
  <2>3. \A x \in Nodes : N.pfh[x] \in {M.pfh[x], Closed}
    BY <2>1, <2>a
  <2> HIDE DEF N
  <2>4. Closes(M, N)
    BY <2>1, <2>2, <2>3 DEF Closes
  <2> QED BY <1>2, <2>4 DEF smgr_close, N, p
<1> QED BY <1>1, <1>2

LEMMA CloseFileCloses ==
  ASSUME NEW M \in SmgrStates PROVE Closes(M, CloseFileSmgrContext(M))
<1>1. Closes(M, M)
  BY DEF Closes
<1> DEFINE open == FirstOf(Walk(M, M.vfhead, Cardinality(Nodes)), LAMBDA v : M.pfh[v] # Closed)
<1>2. CloseFileSmgrContext(M) = IF open = NoVF THEN M ELSE smgr_close(M, open)
  BY DEF CloseFileSmgrContext
<1> HIDE DEF open
<1> QED BY <1>1, <1>2, SmgrCloseCloses

\* smgr_open and smgr_create: one descriptor gets a file.
LEMMA AddFileIs ==
  ASSUME NEW M \in SmgrStates, NEW v \in Nodes, NEW file \in Files \cup {Closed}
  PROVE  LET N == AddFileToSmgrContext(M, v, file)
         IN  /\ N \in SmgrStates
             /\ N.next = M.next /\ N.prev = M.prev /\ N.vfhead = M.vfhead
             /\ N.head = M.head /\ N.end = M.end
             /\ N.pfh = [M.pfh EXCEPT ![v] = file]
             /\ Ring(M) => Ring(N)
<1> DEFINE p == [M.pfh EXCEPT ![v] = file]
           N == [M EXCEPT !.pfh = p, !.opened = M.opened + 1]
<1>0. p \in [Nodes -> Files \cup {Closed}] /\ M.opened + 1 \in Int
  BY FieldTypes
<1> HIDE DEF p
<1>1. /\ N.next = M.next /\ N.prev = M.prev /\ N.vfhead = M.vfhead
      /\ N.head = M.head /\ N.end = M.end /\ N.pfh = p
  BY <1>0 DEF SmgrStates
<1>2. N \in SmgrStates
  BY <1>0, NewFiles
<1>3. AddFileToSmgrContext(M, v, file) = N
  BY DEF AddFileToSmgrContext, p
<1> HIDE DEF N
<1>4. Ring(M) => Ring(N)
  BY <1>1 DEF Ring, Behind, Tied
<1> QED BY <1>1, <1>2, <1>3, <1>4 DEF p

\* A count that another thread has spoilt leaves the rest as it is.
LEMMA RacedIs ==
  ASSUME NEW M \in SmgrStates, NEW N \in SmgrStates, NEW race, NEW Q \in Raced(M, N, race)
  PROVE  /\ Q \in SmgrStates
         /\ Q.next = N.next /\ Q.prev = N.prev /\ Q.vfhead = N.vfhead
         /\ Q.head = N.head /\ Q.end = N.end /\ Q.pfh = N.pfh
         /\ Ring(N) => Ring(Q)
<1>1. \/ Q = N
      \/ \E k \in (M.opened .. N.opened) \cup (N.opened .. M.opened) : Q = [N EXCEPT !.opened = k]
  BY DEF Raced
<1>2. CASE Q = N
  BY <1>2
<1>3. ASSUME NEW k \in (M.opened .. N.opened) \cup (N.opened .. M.opened),
             Q = [N EXCEPT !.opened = k]
      PROVE  /\ Q \in SmgrStates
             /\ Q.next = N.next /\ Q.prev = N.prev /\ Q.vfhead = N.vfhead
             /\ Q.head = N.head /\ Q.end = N.end /\ Q.pfh = N.pfh
  <2>1. k \in Int
    BY FieldTypes
  <2> QED BY <1>3, <2>1 DEF SmgrStates
<1>4. /\ Q \in SmgrStates
      /\ Q.next = N.next /\ Q.prev = N.prev /\ Q.vfhead = N.vfhead
      /\ Q.head = N.head /\ Q.end = N.end /\ Q.pfh = N.pfh
  BY <1>1, <1>2, <1>3
<1>5. Ring(N) => Ring(Q)
  BY <1>4 DEF Ring, Behind, Tied
<1> QED BY <1>4, <1>5

-----------------------------------------------------------------------------
(* The ring *)

\* M with other links.
LinksOf(M, n, p) == [M EXCEPT !.next = n, !.prev = p]

LEMMA LinksOfIs ==
  ASSUME NEW M \in SmgrStates, NEW n \in [Nodes -> Nodes], NEW p \in [Nodes -> Nodes]
  PROVE  /\ LinksOf(M, n, p) \in SmgrStates
         /\ LinksOf(M, n, p).next = n /\ LinksOf(M, n, p).prev = p
         /\ LinksOf(M, n, p).vfhead = M.vfhead
         /\ LinksOf(M, n, p).head = M.head /\ LinksOf(M, n, p).end = M.end
         /\ LinksOf(M, n, p).pfh = M.pfh
BY DEF SmgrStates, LinksOf

\* Only the links of the ring have changed.
SameButLinks(M, N) ==
  /\ N \in SmgrStates
  /\ N.vfhead = M.vfhead /\ N.head = M.head /\ N.end = M.end /\ N.pfh = M.pfh

LEMMA DelDListNodeIs ==
  ASSUME NEW M \in SmgrStates, NEW v \in Nodes
  PROVE  /\ SameButLinks(M, DelDListNode(M, v))
         /\ M.prev[v] = v => DelDListNode(M, v) = M
         /\ M.prev[v] # v =>
              /\ DelDListNode(M, v).next = [M.next EXCEPT ![M.prev[v]] = M.next[v], ![v] = v]
              /\ DelDListNode(M, v).prev = [M.prev EXCEPT ![M.next[v]] = M.prev[v], ![v] = v]
<1>1. CASE M.prev[v] = v
  BY <1>1 DEF DelDListNode, SameButLinks
<1>2. CASE M.prev[v] # v
  <2> DEFINE n == [M.next EXCEPT ![M.prev[v]] = M.next[v], ![v] = v]
             p == [M.prev EXCEPT ![M.next[v]] = M.prev[v], ![v] = v]
  <2>1. n \in [Nodes -> Nodes] /\ p \in [Nodes -> Nodes]
    BY FieldTypes
  <2>2. DelDListNode(M, v) = LinksOf(M, n, p)
    BY <1>2 DEF DelDListNode, LinksOf
  <2> HIDE DEF n, p
  <2>3. /\ SameButLinks(M, LinksOf(M, n, p))
        /\ LinksOf(M, n, p).next = n /\ LinksOf(M, n, p).prev = p
    BY <2>1, LinksOfIs DEF SameButLinks
  <2> QED BY <1>2, <2>2, <2>3 DEF n, p
<1> QED BY <1>1, <1>2

\* A group descriptor leaves the ring: the next one stands behind the main one again.
LEMMA DelGroup ==
  ASSUME NEW M \in SmgrStates, Ring(M), NEW e \in Entries
  PROVE  LET N == DelDListNode(M, GroupVF(e))
         IN  /\ SameButLinks(M, N) /\ Ring(N) /\ N.next[MainVF(e)] # GroupVF(e)
             /\ KeepsBoth(M, N, Entries \ {e})
<1> DEFINE v == GroupVF(e)
           N == DelDListNode(M, v)
<1>1. v \in Nodes /\ v \notin Mains
  BY NodeFacts
<1>2. SameButLinks(M, N)
  BY <1>1, DelDListNodeIs
<1>3. CASE M.prev[v] = v
  <2>1. N = M
    BY <1>1, <1>3, DelDListNodeIs
  <2>2. M.next[MainVF(e)] # GroupVF(e)
    BY <1>3, NodeFacts DEF Ring, Behind
  <2> QED BY <1>2, <2>1, <2>2 DEF KeepsBoth
<1>4. CASE M.prev[v] # v
  <2>1. M.prev[v] = MainVF(e) /\ M.next[v] \in Mains /\ M.next[MainVF(e)] = v
    BY <1>4 DEF Ring, Behind, Tied
  <2>2. /\ N.next = [M.next EXCEPT ![MainVF(e)] = M.next[v], ![v] = v]
        /\ N.prev = [M.prev EXCEPT ![M.next[v]] = MainVF(e), ![v] = v]
    BY <1>1, <1>4, <2>1, DelDListNodeIs
  <2>3. M.next \in [Nodes -> Nodes] /\ M.prev \in [Nodes -> Nodes]
    BY FieldTypes
  <2>4. N.next[MainVF(e)] = M.next[v] /\ N.next[v] = v /\ N.prev[v] = v
    BY <1>1, <2>2, <2>3, NodeFacts
  <2>5. \A d \in Entries \ {e} : /\ N.next[MainVF(d)] = M.next[MainVF(d)]
                                 /\ N.next[GroupVF(d)] = M.next[GroupVF(d)]
                                 /\ N.prev[GroupVF(d)] = M.prev[GroupVF(d)]
    <3> TAKE d \in Entries \ {e}
    <3>1. /\ MainVF(d) \notin {MainVF(e), v} /\ GroupVF(d) \notin {MainVF(e), v, M.next[v]}
          /\ MainVF(d) \in Nodes /\ GroupVF(d) \in Nodes
      BY <2>1, NodeFacts
    <3> HIDE DEF v, N
    <3> QED BY <2>2, <2>3, <3>1
  <2>8. \A d \in Entries : N.prev[MainVF(d)] = IF MainVF(d) = M.next[v] THEN MainVF(e)
                                                ELSE M.prev[MainVF(d)]
    <3> TAKE d \in Entries
    <3>1. MainVF(d) \in Nodes /\ MainVF(d) # v
      BY <1>1, NodeFacts
    <3> HIDE DEF v, N
    <3> QED BY <2>2, <2>3, <3>1
  <2> HIDE DEF N
  <2>9. Behind(N)
    BY <1>1, <1>2, <2>1, <2>4, <2>5, NodeFacts DEF Ring, Behind, SameButLinks
  <2>10. Tied(N)
    <3> SUFFICES ASSUME NEW x \in Entries PROVE
         /\ N.vfhead = MainVF(x) => N.head[x] = MainVF(x)
         /\ N.head[x] = NoVF => N.next[MainVF(x)] = MainVF(x)
         /\ N.prev[GroupVF(x)] = MainVF(x) => N.next[MainVF(x)] = GroupVF(x)
         /\ \A d \in Entries : N.prev[MainVF(d)] = MainVF(x) => N.next[MainVF(x)] = MainVF(d)
      BY DEF Tied
    <3>1. CASE x = e
      <4>1. M.head[x] # NoVF
        BY <2>1, <3>1, NodeFacts DEF Ring, Tied
      <4>2. N.prev[GroupVF(x)] # MainVF(x)
        BY <1>1, <2>4, <3>1, NodeFacts
      <4>3. \A d \in Entries : M.prev[MainVF(d)] # MainVF(x)
        BY <2>1, <3>1, NodeFacts DEF Ring, Tied
      <4> QED BY <1>2, <2>4, <2>8, <3>1, <4>1, <4>2, <4>3 DEF SameButLinks, Ring, Tied
    <3>2. CASE x # e
      <4>1. \A d \in Entries : N.prev[MainVF(d)] = MainVF(x) => M.prev[MainVF(d)] = MainVF(x)
        BY <2>8, <3>2, NodeFacts
      <4> QED BY <1>2, <2>5, <3>2, <4>1 DEF SameButLinks, Ring, Tied
    <3> QED BY <3>1, <3>2
  <2>6. Ring(N) /\ KeepsBoth(M, N, Entries \ {e})
    BY <2>5, <2>9, <2>10 DEF Ring, KeepsBoth, Both
  <2>7. N.next[MainVF(e)] # GroupVF(e)
    BY <1>1, <2>1, <2>4
  <2> QED BY <1>2, <2>6, <2>7 DEF N
<1> QED BY <1>3, <1>4

\* A main descriptor leaves the ring after its group descriptor has.
LEMMA DelMain ==
  ASSUME NEW M \in SmgrStates, Ring(M), NEW e \in Entries, M.next[MainVF(e)] # GroupVF(e)
  PROVE  LET N == DelDListNode(M, MainVF(e))
         IN  SameButLinks(M, N) /\ Ring(N) /\ KeepsBoth(M, N, Entries \ {e})
<1> DEFINE v == MainVF(e)
           N == DelDListNode(M, v)
<1>1. v \in Nodes /\ v \in Mains
  BY NodeFacts
<1>2. SameButLinks(M, N)
  BY <1>1, DelDListNodeIs
<1>3. CASE M.prev[v] = v
  BY <1>1, <1>2, <1>3, DelDListNodeIs DEF KeepsBoth
<1>4. CASE M.prev[v] # v
  <2>1. M.next[v] \in Mains
    BY DEF Ring, Behind
  <2>2. /\ N.next = [M.next EXCEPT ![M.prev[v]] = M.next[v], ![v] = v]
        /\ N.prev = [M.prev EXCEPT ![M.next[v]] = M.prev[v], ![v] = v]
    BY <1>1, <1>4, DelDListNodeIs
  <2>3. M.next \in [Nodes -> Nodes] /\ M.prev \in [Nodes -> Nodes]
    BY FieldTypes
  <2>4. \A x \in Nodes : N.next[x] = M.next[x] \/ N.next[x] \in Mains
    BY <1>1, <2>1, <2>2, <2>3
  <2>5. \A d \in Entries : N.prev[GroupVF(d)] = M.prev[GroupVF(d)]
    BY <1>1, <2>1, <2>2, <2>3, NodeFacts
  <2>7. \A d \in Entries : N.prev[MainVF(d)] =
          IF MainVF(d) = v THEN v
          ELSE IF MainVF(d) = M.next[v] THEN M.prev[v] ELSE M.prev[MainVF(d)]
    BY <1>1, <2>2, <2>3, NodeFacts
  <2>8. \A d \in Entries : N.next[MainVF(d)] =
          IF MainVF(d) = v THEN v
          ELSE IF MainVF(d) = M.prev[v] THEN M.next[v] ELSE M.next[MainVF(d)]
    BY <1>1, <2>2, <2>3, NodeFacts
  <2> HIDE DEF N
  <2>9. Behind(N)
    BY <1>2, <2>4, <2>5, NodeFacts DEF Ring, Behind, SameButLinks
  <2>10. Tied(N)
    <3> SUFFICES ASSUME NEW x \in Entries PROVE
         /\ N.vfhead = MainVF(x) => N.head[x] = MainVF(x)
         /\ N.head[x] = NoVF => N.next[MainVF(x)] = MainVF(x)
         /\ N.prev[GroupVF(x)] = MainVF(x) => N.next[MainVF(x)] = GroupVF(x)
         /\ \A d \in Entries : N.prev[MainVF(d)] = MainVF(x) => N.next[MainVF(x)] = MainVF(d)
      BY DEF Tied
    <3>1. M.prev[v] = MainVF(x) => M.next[MainVF(x)] = v
      BY DEF Ring, Tied
    <3>2. N.vfhead = MainVF(x) => N.head[x] = MainVF(x)
      BY <1>2 DEF SameButLinks, Ring, Tied
    <3>3. N.head[x] = NoVF => N.next[MainVF(x)] = MainVF(x)
      <4>1. M.head[x] = NoVF => M.next[MainVF(x)] = MainVF(x)
        BY DEF Ring, Tied
      <4> QED BY <1>2, <2>8, <3>1, <4>1 DEF SameButLinks
    <3>4. N.prev[GroupVF(x)] = MainVF(x) => N.next[MainVF(x)] = GroupVF(x)
      <4>1. M.prev[GroupVF(x)] = MainVF(x) => M.next[MainVF(x)] = GroupVF(x)
        BY DEF Ring, Tied
      <4>2. v # GroupVF(x) /\ (v = MainVF(x) => x = e)
        BY <1>1, NodeFacts
      <4> QED BY <2>5, <2>8, <3>1, <4>1, <4>2
    <3>5. ASSUME NEW d \in Entries, N.prev[MainVF(d)] = MainVF(x)
          PROVE  N.next[MainVF(x)] = MainVF(d)
      <4>1. \A y \in Entries : M.prev[MainVF(y)] = MainVF(x) => M.next[MainVF(x)] = MainVF(y)
        BY DEF Ring, Tied
      <4>2. \A y \in Entries : M.prev[MainVF(y)] = v => M.next[v] = MainVF(y)
        BY DEF Ring, Tied
      <4> QED BY <1>4, <2>7, <2>8, <3>1, <3>5, <4>1, <4>2
    <3> QED BY <3>2, <3>3, <3>4, <3>5
  <2>11. KeepsBoth(M, N, Entries \ {e})
    <3> SUFFICES ASSUME NEW x \in Entries \ {e}, M.next[MainVF(x)] = GroupVF(x)
                 PROVE  N.next[MainVF(x)] = GroupVF(x)
      BY DEF KeepsBoth, Both
    <3>1. MainVF(x) # v /\ GroupVF(x) # v
      BY <1>1, NodeFacts
    <3>2. MainVF(x) # M.prev[v]
      BY <3>1 DEF Ring, Tied
    <3> QED BY <2>8, <3>1, <3>2
  <2>6. Ring(N)
    BY <2>9, <2>10 DEF Ring
  <2> QED BY <1>2, <2>6, <2>11 DEF N
<1> QED BY <1>3, <1>4

\* ReleaseVF and smgrRelease: the descriptors of a table go, the others keep their heads and
\* lose no file that is not closed.
Releases(M, N) ==
  /\ N \in SmgrStates /\ Ring(N)
  /\ N.head = M.head
  /\ \A v \in Nodes : N.pfh[v] \in {M.pfh[v], Closed}

LEMMA NoHead ==
  ASSUME NEW M \in SmgrStates, Ring(M)
  PROVE  LET N == [M EXCEPT !.vfhead = NoVF]
         IN  N \in SmgrStates /\ Ring(N) /\ N.head = M.head /\ N.end = M.end /\ N.pfh = M.pfh
             /\ N.next = M.next
<1> DEFINE N == [M EXCEPT !.vfhead = NoVF]
<1>1. /\ N \in SmgrStates /\ N.head = M.head /\ N.end = M.end /\ N.pfh = M.pfh
      /\ N.next = M.next /\ N.prev = M.prev /\ N.vfhead = NoVF
  BY DEF SmgrStates
<1> HIDE DEF N
<1>2. Ring(N)
  BY <1>1 DEF Ring, Behind, Tied
<1> QED BY <1>1, <1>2 DEF N

LEMMA ReleaseMain ==
  ASSUME NEW M \in SmgrStates, Ring(M), NEW e \in Entries, M.head[e] = MainVF(e),
         M.next[MainVF(e)] # GroupVF(e)
  PROVE  LET N == ReleaseVF(M, e, MainVF(e))
         IN  Releases(M, N) /\ KeepsBoth(M, N, Entries \ {e})
<1> DEFINE N == DeleteVF(M, MainVF(e), MainVF(e))
<1>1. \/ N = [M EXCEPT !.vfhead = NoVF]
      \/ N = M
      \/ N = DelDListNode(M, MainVF(e))
  BY DEF DeleteVF
<1>2. /\ N \in SmgrStates /\ Ring(N) /\ N.head = M.head /\ N.pfh = M.pfh
      /\ KeepsBoth(M, N, Entries \ {e})
  <2>1. CASE N = [M EXCEPT !.vfhead = NoVF]
    BY <2>1, NoHead DEF KeepsBoth, Both
  <2>2. CASE N = M
    BY <2>2 DEF KeepsBoth
  <2>3. CASE N = DelDListNode(M, MainVF(e))
    BY <2>3, DelMain DEF SameButLinks
  <2> QED BY <1>1, <2>1, <2>2, <2>3
<1>3. ReleaseVF(M, e, MainVF(e)) = smgr_close(N, MainVF(e))
  BY DEF ReleaseVF
<1> HIDE DEF N
<1>4. Closes(N, smgr_close(N, MainVF(e)))
  BY <1>2, SmgrCloseCloses
<1>5. Ring(smgr_close(N, MainVF(e)))
  BY <1>2, <1>4, ClosesRing
<1>6. KeepsBoth(M, smgr_close(N, MainVF(e)), Entries \ {e})
  BY <1>2, <1>4 DEF Closes, KeepsBoth, Both
<1> QED BY <1>2, <1>3, <1>4, <1>5, <1>6 DEF Releases, Closes

LEMMA ReleaseGroup ==
  ASSUME NEW M \in SmgrStates, Ring(M), NEW e \in Entries, M.head[e] = MainVF(e)
  PROVE  /\ Releases(M, ReleaseVF(M, e, GroupVF(e)))
         /\ ReleaseVF(M, e, GroupVF(e)).next[MainVF(e)] # GroupVF(e)
         /\ KeepsBoth(M, ReleaseVF(M, e, GroupVF(e)), Entries \ {e})
<1> DEFINE N == DelDListNode(M, GroupVF(e))
<1>1. N \in SmgrStates /\ Ring(N) /\ N.head = M.head /\ N.pfh = M.pfh
      /\ N.next[MainVF(e)] # GroupVF(e) /\ KeepsBoth(M, N, Entries \ {e})
  BY DelGroup DEF SameButLinks
<1>2. MainVF(e) # GroupVF(e)
  BY NodeFacts
<1>3. ReleaseVF(M, e, GroupVF(e)) = smgr_close(N, GroupVF(e))
  BY <1>2 DEF ReleaseVF, DeleteVF
<1> HIDE DEF N
<1>4. Closes(N, smgr_close(N, GroupVF(e)))
  BY <1>1, SmgrCloseCloses
<1>5. Ring(smgr_close(N, GroupVF(e)))
  BY <1>1, <1>4, ClosesRing
<1>6. KeepsBoth(M, smgr_close(N, GroupVF(e)), Entries \ {e})
  BY <1>1, <1>4 DEF Closes, KeepsBoth, Both
<1> QED BY <1>1, <1>3, <1>4, <1>5, <1>6 DEF Releases, Closes

LEMMA SmgrReleaseIs ==
  ASSUME NEW M \in SmgrStates, Ring(M), NEW e \in Entries, M.head[e] = MainVF(e)
  PROVE  Releases(M, smgrRelease(M, e)) /\ KeepsBoth(M, smgrRelease(M, e), Entries \ {e})
<1>1. CASE M.end[e] = M.head[e]
  <2>1. M.next[MainVF(e)] # GroupVF(e)
    BY <1>1, NodeFacts DEF Ring, Behind
  <2> QED BY <1>1, <2>1, ReleaseMain DEF smgrRelease
<1>2. CASE M.end[e] # M.head[e]
  <2>1. M.end[e] = GroupVF(e)
    BY <1>2 DEF Ring, Behind
  <2> DEFINE N == ReleaseVF(M, e, GroupVF(e))
  <2>2. smgrRelease(M, e) = ReleaseVF(N, e, MainVF(e))
    BY <1>2, <2>1 DEF smgrRelease
  <2>3. /\ Releases(M, N) /\ N.next[MainVF(e)] # GroupVF(e)
        /\ KeepsBoth(M, N, Entries \ {e})
    BY ReleaseGroup
  <2> HIDE DEF N
  <2>4. /\ Releases(N, ReleaseVF(N, e, MainVF(e)))
        /\ KeepsBoth(N, ReleaseVF(N, e, MainVF(e)), Entries \ {e})
    BY <2>3, ReleaseMain DEF Releases
  <2>5. KeepsBoth(M, ReleaseVF(N, e, MainVF(e)), Entries \ {e})
    BY <2>3, <2>4 DEF KeepsBoth
  <2> QED BY <2>2, <2>3, <2>4, <2>5 DEF Releases
<1> QED BY <1>1, <1>2

-----------------------------------------------------------------------------
(* GetVFec *)

\* A table has its main descriptor at its head; the other tables keep theirs and nobody gets
\* a file.
Gets(M, N, e) ==
  /\ N \in SmgrStates /\ Ring(N)
  /\ N.head = [M.head EXCEPT ![e] = MainVF(e)]
  /\ KeepsBoth(M, N, Entries)
  /\ \A v \in Nodes : N.pfh[v] \in {M.pfh[v], Closed}

\* The tail of AddFileInfoToSmgrContext.
LEMMA LimitGets ==
  ASSUME NEW M \in SmgrStates, NEW e \in Entries, NEW v,
         Gets(M, [Linked(M, e, v) EXCEPT !.end[e] = v], e)
  PROVE  /\ Gets(M, AddFileInfoToSmgrContext(M, e, v), e)
         /\ Both([Linked(M, e, v) EXCEPT !.end[e] = v], e)
              => Both(AddFileInfoToSmgrContext(M, e, v), e)
<1> DEFINE A == [Linked(M, e, v) EXCEPT !.end[e] = v]
<1>1. AddFileInfoToSmgrContext(M, e, v) =
        IF A.opened > MaxOpen - 1 THEN CloseFileSmgrContext(A) ELSE A
  BY DEF AddFileInfoToSmgrContext
<1> HIDE DEF A
<1>2. A \in SmgrStates /\ Ring(A) /\ Gets(M, A, e)
  BY DEF Gets, A
<1>3. Closes(A, CloseFileSmgrContext(A))
  BY <1>2, CloseFileCloses
<1>4. Ring(CloseFileSmgrContext(A))
  BY <1>2, <1>3, ClosesRing
<1>5. Gets(M, CloseFileSmgrContext(A), e)
  BY <1>2, <1>3, <1>4 DEF Gets, Closes, KeepsBoth, Both
<1>6. Both(A, e) => Both(CloseFileSmgrContext(A), e)
  BY <1>3 DEF Closes, Both
<1> QED BY <1>1, <1>2, <1>5, <1>6 DEF A

\* M with another head of the list and another end of a table.
HeadOf(M, first, h, d) == [M EXCEPT !.vfhead = first, !.head = h, !.end = d]

LEMMA HeadOfIs ==
  ASSUME NEW M \in SmgrStates, NEW first \in Nodes \cup {NoVF},
         NEW h \in [Entries -> Nodes \cup {NoVF}], NEW d \in [Entries -> Nodes \cup {NoVF}]
  PROVE  /\ HeadOf(M, first, h, d) \in SmgrStates
         /\ HeadOf(M, first, h, d).next = M.next /\ HeadOf(M, first, h, d).prev = M.prev
         /\ HeadOf(M, first, h, d).vfhead = first
         /\ HeadOf(M, first, h, d).head = h /\ HeadOf(M, first, h, d).end = d
         /\ HeadOf(M, first, h, d).pfh = M.pfh
BY DEF SmgrStates, HeadOf

\* The first table of an empty list.
LEMMA LinkedFirst ==
  ASSUME NEW M \in SmgrStates, Ring(M), NEW e \in Entries, M.vfhead = NoVF, M.head[e] = NoVF
  PROVE  Gets(M, [Linked(M, e, MainVF(e)) EXCEPT !.end[e] = MainVF(e)], e)
<1> DEFINE v == MainVF(e)
           h == [M.head EXCEPT ![e] = v]
           d == [M.end EXCEPT ![e] = v]
           N == HeadOf(M, v, h, d)
<1>1. [Linked(M, e, v) EXCEPT !.end[e] = v] = N
  BY DEF Linked, SmgrStates, HeadOf
<1>2. h \in [Entries -> Nodes \cup {NoVF}] /\ d \in [Entries -> Nodes \cup {NoVF}] /\ v \in Nodes
  BY FieldTypes, NodeFacts
<1>3. h[e] = v /\ d[e] = v /\ \A x \in Entries \ {e} : h[x] = M.head[x] /\ d[x] = M.end[x]
  BY FieldTypes
<1>4. v # NoVF /\ v \in Mains
  BY NodeFacts
<1>5. M.next[v] # GroupVF(e)
  BY <1>4 DEF Ring, Behind
<1> HIDE DEF h, d
<1>6. /\ N \in SmgrStates /\ N.next = M.next /\ N.prev = M.prev
      /\ N.vfhead = v /\ N.head = h /\ N.end = d /\ N.pfh = M.pfh
  BY <1>2, HeadOfIs
<1> HIDE DEF N
<1>7. Behind(N)
  BY <1>3, <1>4, <1>5, <1>6 DEF Ring, Behind
<1>8. Tied(N)
  BY <1>3, <1>4, <1>6, NodeFacts DEF Ring, Tied
<1> QED BY <1>1, <1>6, <1>7, <1>8 DEF Gets, Ring, KeepsBoth, Both, h

\* Another table: at the tail.
LEMMA LinkedTail ==
  ASSUME NEW M \in SmgrStates, Ring(M), NEW e \in Entries, M.vfhead # NoVF, M.head[e] = NoVF
  PROVE  Gets(M, [Linked(M, e, MainVF(e)) EXCEPT !.end[e] = MainVF(e)], e)
<1> DEFINE v == MainVF(e)
           a == M.vfhead
           h == [M.head EXCEPT ![e] = v]
           d == [M.end EXCEPT ![e] = v]
           n == [M.next EXCEPT ![v] = a, ![M.prev[a]] = v]
           p == [M.prev EXCEPT ![v] = M.prev[a], ![a] = v]
           K == HeadOf(M, a, h, d)
           N == LinksOf(K, n, p)
<1>1. [Linked(M, e, v) EXCEPT !.end[e] = v] = N
  BY DEF Linked, AddDListTail, SmgrStates, HeadOf, LinksOf
<1>2. a \in Mains /\ a \in Nodes /\ v \in Mains /\ v \in Nodes /\ v # NoVF
  BY NodeFacts DEF Ring, Behind
<1>3. /\ h \in [Entries -> Nodes \cup {NoVF}] /\ d \in [Entries -> Nodes \cup {NoVF}]
      /\ n \in [Nodes -> Nodes] /\ p \in [Nodes -> Nodes]
  BY <1>2, FieldTypes
<1>4. h[e] = v /\ d[e] = v /\ \A x \in Entries \ {e} : h[x] = M.head[x] /\ d[x] = M.end[x]
  BY FieldTypes
<1>5. \A x \in Nodes : n[x] = M.next[x] \/ n[x] \in Mains
  BY <1>2, FieldTypes
<1>6. n[v] \in Mains
  BY <1>2, FieldTypes
<1>7. \A x \in Nodes \ Mains : p[x] = M.prev[x]
  BY <1>2, FieldTypes
<1> HIDE DEF h, d, n, p
<1>8. /\ K \in SmgrStates /\ K.vfhead = a /\ K.head = h /\ K.end = d /\ K.pfh = M.pfh
  BY <1>2, <1>3, HeadOfIs
<1> HIDE DEF K
<1>9. /\ N \in SmgrStates /\ N.next = n /\ N.prev = p
      /\ N.vfhead = a /\ N.head = h /\ N.end = d /\ N.pfh = M.pfh
  BY <1>3, <1>8, LinksOfIs
<1> HIDE DEF N
<1>10. Behind(N)
  BY <1>2, <1>4, <1>5, <1>6, <1>7, <1>9, NodeFacts DEF Ring, Behind
<1>11. PICK b \in Entries : a = MainVF(b) /\ M.head[b] = MainVF(b)
  BY <1>2, NodeFacts DEF Ring, Tied
<1>12. \A x \in Entries : M.prev[a] = MainVF(x) => M.next[MainVF(x)] = a /\ M.head[x] # NoVF
  BY <1>2, <1>11, NodeFacts DEF Ring, Tied
<1>13. \A x \in Entries :
         /\ n[MainVF(x)] = IF MainVF(x) = M.prev[a] THEN v ELSE IF x = e THEN a
                            ELSE M.next[MainVF(x)]
         /\ p[MainVF(x)] = IF x = b THEN v ELSE IF x = e THEN M.prev[a] ELSE M.prev[MainVF(x)]
  BY <1>2, <1>3, <1>11, FieldTypes, NodeFacts DEF n, p
<1>14. M.next[v] = v /\ M.prev[a] # v
  BY <1>12, NodeFacts DEF Ring, Tied
<1>15. Tied(N)
  <2> SUFFICES ASSUME NEW x \in Entries PROVE
       /\ a = MainVF(x) => h[x] = MainVF(x)
       /\ h[x] = NoVF => n[MainVF(x)] = MainVF(x)
       /\ p[GroupVF(x)] = MainVF(x) => n[MainVF(x)] = GroupVF(x)
       /\ \A y \in Entries : p[MainVF(y)] = MainVF(x) => n[MainVF(x)] = MainVF(y)
    BY <1>9 DEF Tied
  <2>1. (a = MainVF(x) => h[x] = MainVF(x)) /\ (h[x] = NoVF => n[MainVF(x)] = MainVF(x))
    BY <1>2, <1>4, <1>11, <1>12, <1>13, NodeFacts DEF Ring, Tied
  <2>2. p[GroupVF(x)] = MainVF(x) => n[MainVF(x)] = GroupVF(x)
    <3>1. p[GroupVF(x)] = M.prev[GroupVF(x)]
      BY <1>7, NodeFacts
    <3>2. M.prev[GroupVF(x)] = MainVF(x) => M.next[MainVF(x)] = GroupVF(x)
      BY DEF Ring, Tied
    <3>3. GroupVF(x) # a /\ GroupVF(x) # v
      BY <1>2, NodeFacts
    <3> QED BY <1>12, <1>13, <1>14, <3>1, <3>2, <3>3
  <2>3. ASSUME NEW y \in Entries, p[MainVF(y)] = MainVF(x)
        PROVE  n[MainVF(x)] = MainVF(y)
    <3>1. M.prev[MainVF(y)] = MainVF(x) => M.next[MainVF(x)] = MainVF(y)
      BY DEF Ring, Tied
    <3> QED BY <1>2, <1>11, <1>12, <1>13, <1>14, <2>3, <3>1, NodeFacts
  <2> QED BY <2>1, <2>2, <2>3
<1>16. KeepsBoth(M, N, Entries)
  <2> SUFFICES ASSUME NEW x \in Entries, M.next[MainVF(x)] = GroupVF(x)
               PROVE  n[MainVF(x)] = GroupVF(x)
    BY <1>9 DEF KeepsBoth, Both
  <2>1. GroupVF(x) # a /\ GroupVF(x) # v
    BY <1>2, NodeFacts
  <2> QED BY <1>12, <1>13, <1>14, <2>1
<1> QED BY <1>1, <1>9, <1>10, <1>15, <1>16 DEF Gets, Ring, h

\* The group descriptor: right behind the main one.
LEMMA LinkedNext ==
  ASSUME NEW M \in SmgrStates, Ring(M), NEW e \in Entries, M.vfhead # NoVF,
         M.head[e] = MainVF(e), M.next[MainVF(e)] # GroupVF(e)
  PROVE  LET N == [Linked(M, e, GroupVF(e)) EXCEPT !.end[e] = GroupVF(e)]
         IN  Gets(M, N, e) /\ Both(N, e)
<1> DEFINE a == MainVF(e)
           v == GroupVF(e)
           d == [M.end EXCEPT ![e] = v]
           n == [M.next EXCEPT ![v] = M.next[a], ![a] = v]
           p == [M.prev EXCEPT ![v] = a, ![M.next[a]] = v]
           K == HeadOf(M, M.vfhead, M.head, d)
           N == LinksOf(K, n, p)
<1>0. a # NoVF
  BY NodeFacts
<1>1. [Linked(M, e, v) EXCEPT !.end[e] = v] = N
  BY <1>0 DEF Linked, AddDListNext, SmgrStates, HeadOf, LinksOf
<1>2. /\ a \in Mains /\ a \in Nodes /\ v \notin Mains /\ v \in Nodes /\ M.next[a] \in Mains
      /\ M.vfhead \in Nodes
  BY NodeFacts, FieldTypes DEF Ring, Behind
<1>3. /\ d \in [Entries -> Nodes \cup {NoVF}] /\ n \in [Nodes -> Nodes] /\ p \in [Nodes -> Nodes]
  BY <1>2, FieldTypes
<1>4. d[e] = v /\ \A x \in Entries \ {e} : d[x] = M.end[x]
  BY FieldTypes
<1>5. /\ n[a] = v /\ n[v] \in Mains /\ p[v] = a
      /\ \A x \in Nodes \ {a, v} : n[x] = M.next[x]
  BY <1>2, FieldTypes
<1>6. \A x \in Nodes \ (Mains \cup {v}) : p[x] = M.prev[x]
  BY <1>2, FieldTypes
<1> HIDE DEF d, n, p
<1>8. /\ K \in SmgrStates /\ K.vfhead = M.vfhead /\ K.head = M.head /\ K.end = d /\ K.pfh = M.pfh
  <2>1. M.vfhead \in Nodes \cup {NoVF} /\ M.head \in [Entries -> Nodes \cup {NoVF}]
    BY FieldTypes
  <2> QED BY <1>3, <2>1, HeadOfIs
<1> HIDE DEF K
<1>9. /\ N \in SmgrStates /\ N.next = n /\ N.prev = p
      /\ N.vfhead = M.vfhead /\ N.head = M.head /\ N.end = d /\ N.pfh = M.pfh
  BY <1>3, <1>8, LinksOfIs
<1> HIDE DEF N
<1>10. Behind(N)
  <2> SUFFICES ASSUME NEW x \in Entries PROVE
       /\ N.head[x] \in {NoVF, MainVF(x)}
       /\ N.next[MainVF(x)] \in Mains \cup {GroupVF(x)}
       /\ N.next[GroupVF(x)] \in Mains \cup {GroupVF(x)}
       /\ N.prev[GroupVF(x)] \in {GroupVF(x), MainVF(x)}
       /\ N.prev[GroupVF(x)] = MainVF(x) => N.next[GroupVF(x)] \in Mains
       /\ N.next[MainVF(x)] = GroupVF(x) =>
            /\ N.prev[GroupVF(x)] = MainVF(x)
            /\ N.head[x] = MainVF(x) /\ N.end[x] = GroupVF(x)
       /\ N.head[x] = MainVF(x) => N.end[x] \in {MainVF(x), GroupVF(x)}
    BY <1>9 DEF Ring, Behind
  <2>1. CASE x = e
    BY <1>2, <1>4, <1>5, <1>9, <2>1 DEF Ring, Behind
  <2>2. CASE x # e
    <3>1. MainVF(x) \in Nodes \ {a, v} /\ GroupVF(x) \in Nodes \ (Mains \cup {v})
      BY <2>2, NodeFacts
    <3>2. GroupVF(x) \in Nodes \ {a, v}
      BY <3>1, <1>2
    <3> HIDE DEF a, v
    <3> QED BY <1>4, <1>5, <1>6, <1>9, <2>2, <3>1, <3>2 DEF Ring, Behind
  <2> QED BY <2>1, <2>2
<1>11. N.head = [M.head EXCEPT ![e] = MainVF(e)]
  BY <1>9, FieldTypes
<1>12. \A x \in Entries :
         /\ x # e => n[MainVF(x)] = M.next[MainVF(x)] /\ p[GroupVF(x)] = M.prev[GroupVF(x)]
         /\ p[MainVF(x)] = IF MainVF(x) = M.next[a] THEN v ELSE M.prev[MainVF(x)]
  BY <1>2, <1>3, FieldTypes, NodeFacts DEF n, p
<1>13. Tied(N)
  <2> SUFFICES ASSUME NEW x \in Entries PROVE
       /\ M.vfhead = MainVF(x) => M.head[x] = MainVF(x)
       /\ M.head[x] = NoVF => n[MainVF(x)] = MainVF(x)
       /\ p[GroupVF(x)] = MainVF(x) => n[MainVF(x)] = GroupVF(x)
       /\ \A y \in Entries : p[MainVF(y)] = MainVF(x) => n[MainVF(x)] = MainVF(y)
    BY <1>9 DEF Tied
  <2>1. CASE x = e
    <3>1. \A y \in Entries : p[MainVF(y)] # MainVF(x)
      <4> TAKE y \in Entries
      <4>1. M.prev[MainVF(y)] = a => M.next[a] = MainVF(y)
        BY DEF Ring, Tied
      <4>2. v # a
        BY <1>2
      <4> QED BY <1>12, <2>1, <4>1, <4>2
    <3> QED BY <1>0, <1>5, <2>1, <3>1
  <2>2. CASE x # e
    <3>1. \A y \in Entries : p[MainVF(y)] = MainVF(x) => M.prev[MainVF(y)] = MainVF(x)
      BY <1>12, NodeFacts
    <3> QED BY <1>12, <2>2, <3>1 DEF Ring, Tied
  <2> QED BY <2>1, <2>2
<1>14. KeepsBoth(M, N, Entries) /\ Both(N, e)
  BY <1>5, <1>9, <1>12 DEF KeepsBoth, Both
<1> QED BY <1>1, <1>9, <1>10, <1>11, <1>13, <1>14 DEF Gets, Ring

\* GetVFec for the first descriptor of a table and, unless it loses its head, for the second.
LEMMA GetVFecIs ==
  ASSUME NEW M \in SmgrStates, Ring(M), NEW e \in Entries
  PROVE  /\ Gets(M, GetVFec(M, e, "main"), e)
         /\ ~LosesHead(M, e, "main")
         /\ M.head[e] = MainVF(e) /\ ~LosesHead(M, e, "group") =>
              Gets(M, GetVFec(M, e, "group"), e) /\ Both(GetVFec(M, e, "group"), e)
<1>0. "main" \in Forks /\ "group" \in Forks /\ NoVF # MainVF(e)
  BY NodeFacts DEF Forks
<1>1. M.head[e] = MainVF(e) => Gets(M, M, e)
  BY FieldTypes DEF Gets, KeepsBoth
<1>2. Gets(M, GetVFec(M, e, "main"), e) /\ ~LosesHead(M, e, "main")
  <2>1. CASE M.head[e] = MainVF(e)
    BY <1>0, <1>1, <2>1, FindsOwn DEF GetVFec, VFOf, LosesHead
  <2>2. CASE M.head[e] = NoVF
    <3>1. GetVFec(M, e, "main") = AddFileInfoToSmgrContext(M, e, MainVF(e))
      BY <1>0, <2>2, FindsOwn DEF GetVFec, VFOf, NewVF, MainVF
    <3>2. ~LosesHead(M, e, "main")
      BY <2>2 DEF LosesHead
    <3>3. Gets(M, [Linked(M, e, MainVF(e)) EXCEPT !.end[e] = MainVF(e)], e)
      BY <2>2, LinkedFirst, LinkedTail
    <3>4. Gets(M, AddFileInfoToSmgrContext(M, e, MainVF(e)), e)
      BY <3>3, LimitGets
    <3> QED BY <3>1, <3>2, <3>4
  <2> QED BY <2>1, <2>2 DEF Ring, Behind
<1>3. ASSUME M.head[e] = MainVF(e), ~LosesHead(M, e, "group")
      PROVE  Gets(M, GetVFec(M, e, "group"), e) /\ Both(GetVFec(M, e, "group"), e)
  <2>0. VFOf(M, e, "group") = NoVF <=> M.next[MainVF(e)] # GroupVF(e)
    BY <1>0, <1>3, FindsOwn DEF VFOf
  <2>1. CASE VFOf(M, e, "group") # NoVF
    BY <1>1, <1>3, <2>0, <2>1 DEF GetVFec, Both
  <2>2. CASE VFOf(M, e, "group") = NoVF
    <3>1. GetVFec(M, e, "group") = AddFileInfoToSmgrContext(M, e, GroupVF(e))
      BY <2>2 DEF GetVFec, NewVF, GroupVF
    <3>2. M.vfhead # NoVF /\ M.next[MainVF(e)] # GroupVF(e)
      BY <1>0, <1>3, <2>0, <2>2 DEF LosesHead
    <3> DEFINE A == [Linked(M, e, GroupVF(e)) EXCEPT !.end[e] = GroupVF(e)]
    <3>3. Gets(M, A, e) /\ Both(A, e)
      BY <1>3, <3>2, LinkedNext
    <3> QED BY <3>1, <3>3, LimitGets
  <2> QED BY <2>1, <2>2
<1> QED BY <1>2, <1>3

\* After GetVFec the walk from the head of a table ends at its own descriptor.
LEMMA VFOfIs ==
  ASSUME NEW M \in SmgrStates, Ring(M), NEW e \in Entries, M.head[e] = MainVF(e)
  PROVE  /\ VFOf(M, e, "main") = MainVF(e)
         /\ VFOf(M, e, "group") \in {NoVF, GroupVF(e)}
         /\ Both(M, e) => VFOf(M, e, "group") = GroupVF(e)
<1>1. "main" \in Forks /\ "group" \in Forks
  BY DEF Forks
<1>2. VFOf(M, e, "group") \in {NoVF, <<e, "group">>}
  BY <1>1, FindsOwn DEF VFOf
<1> QED BY <1>1, <1>2, FindsOwn DEF VFOf, Both, GroupVF

-----------------------------------------------------------------------------
\* The dictionary.

USE DictionaryAssumption

Creating == {"main", "group", "maininit", "groupinit", "link"}
Loading  == {"loadmain", "loadgroup"}
Locked   == Creating \cup Loading
Working  == {"unlinkmain", "unlinkgroup", "detach", "release", "use", "reopen"}
Pcs      == {"idle", "create", "load"} \cup Locked \cup Working

SessionStates ==
  [pc : Pcs, op : {"none", "create", "drop", "use"}, name : Names \cup {"none"},
   e : {NULL} \cup Entries, vf : Nodes \cup {NoVF}, ok : BOOLEAN]

EntryStates == [name : Names \cup {"none"}, id : Nat, released : BOOLEAN]

ListIds == {g_TblList} \cup Entries

\* The sessions that may yet allocate an entry.
Pending == {w \in Sessions : s[w].pc \in {"create", "load"}}

Types ==
  /\ ent \in [Entries -> EntryStates]
  /\ lnext \in [ListIds -> {NULL} \cup ListIds]
  /\ lprev \in [ListIds -> {NULL} \cup ListIds]
  /\ dictLock \in Sessions \cup {NoSession}
  /\ sm \in SmgrStates
  /\ disk \in [Names -> [Forks -> Files \cup {NoFile}]]
  /\ \A n \in Names, f \in Forks : disk[n][f] = NoFile \/ disk[n][f] \in Entries \X {f}
  /\ hdr \in [Files -> Nat]
  /\ nextId \in Nat \ {0} /\ savedId \in Nat \ {0}
  /\ allocated \in Nat /\ started \in Nat
  /\ killed \in BOOLEAN
  /\ s \in [Sessions -> SessionStates]

Counted == allocated + Cardinality(Pending) <= started /\ started <= MaxStatements

LockHolder == \A w \in Sessions : s[w].pc \in Locked <=> dictLock = w

InList(x) == lnext[x] # NULL

EntryOf(w) ==
  LET e == s[w].e IN
  /\ s[w].pc # "idle" => s[w].name \in Names
  /\ s[w].pc \in {"load"} \cup Loading => s[w].op \in {"drop", "use"}
  /\ s[w].pc \in Locked =>
       e = allocated /\ e \in Entries /\ ~InList(e) /\ ent[e].name = s[w].name
  /\ s[w].pc \in (Locked \ {"main", "loadmain"}) \cup Working =>
       e \in Entries /\ e <= allocated /\ sm.head[e] = MainVF(e)
  /\ s[w].pc \in {"unlinkmain", "unlinkgroup", "use", "reopen"} => InList(e)
  /\ s[w].pc = "reopen" => s[w].vf \in {MainVF(e), GroupVF(e)}
SessionEntries == \A w \in Sessions : EntryOf(w)

\* Nobody else works with the entry that is being made.
Apart == \A v, w \in Sessions : s[v].pc \in Locked /\ s[w].pc \in Working => s[w].e # s[v].e

ListOK ==
  /\ lprev[g_TblList] = g_TblList
  /\ InList(g_TblList)
  /\ \A x \in ListIds : InList(x) => InList(lnext[x])
  /\ \A e \in Entries : InList(e) =>
       /\ e <= allocated /\ lnext[e] < e /\ lprev[e] = g_TblList
       /\ ent[e].id # 0 /\ sm.head[e] = MainVF(e)

\* R[x] is the set of the entries from x on.
Chains(R) ==
  /\ R \in [ListIds -> SUBSET {e \in Entries : InList(e)}]
  /\ R[g_TblList] = {}
  /\ \A e \in Entries : InList(e) => R[e] = {e} \cup R[lnext[e]]
  /\ \A x \in ListIds : \A e, f \in R[x] : e # f => ent[e].name # ent[f].name
  /\ \A w \in Sessions : s[w].pc \in Locked =>
       \A f \in R[lnext[g_TblList]] : ent[f].name # s[w].name
ChainNames == \E R : Chains(R)

NotOnDisk(e, f) == \A n \in Names : disk[n][f] # <<e, f>>
Fresh(e) ==
  /\ sm.pfh[MainVF(e)] = Closed /\ sm.pfh[GroupVF(e)] = Closed
  /\ hdr[MainVF(e)] = 0 /\ hdr[GroupVF(e)] = 0
  /\ NotOnDisk(e, "main") /\ NotOnDisk(e, "group")

FilesOf(w) ==
  LET m == MainVF(s[w].e)  g == GroupVF(s[w].e) IN
  /\ s[w].pc \in {"main", "loadmain"} => Fresh(s[w].e)
  /\ s[w].pc \in {"group", "maininit"} => sm.pfh[m] \in {Closed, m} /\ hdr[m] = 0
  /\ s[w].pc \in {"group", "loadgroup"} => sm.pfh[g] = Closed /\ NotOnDisk(s[w].e, "group")
  /\ s[w].pc \in {"maininit", "groupinit"} => sm.pfh[g] \in {Closed, g}
  /\ s[w].pc \in {"group", "maininit", "groupinit"} => hdr[g] = 0
  /\ s[w].pc = "loadgroup" => NotOnDisk(s[w].e, "main")
  /\ s[w].pc \in {"maininit", "groupinit"} => Both(sm, s[w].e)
OwnFiles ==
  /\ \A e \in Entries : e > allocated => Fresh(e)
  /\ \A w \in Sessions : FilesOf(w)

IdOf(w) ==
  /\ s[w].pc \in Creating =>
       /\ ent[s[w].e].id # 0
       /\ \A n \in Names : disk[n]["main"] = MainVF(s[w].e) => n = s[w].name
  /\ s[w].pc = "loadgroup" => ent[s[w].e].id # 0

\* The identifier in the main file that a name has.
DiskId(n) == IF disk[n]["main"] = NoFile THEN 0 ELSE hdr[disk[n]["main"]]

IdsUnique ==
  /\ \A e \in Entries : ent[e].id < nextId
  /\ \A i \in Files : hdr[i] < nextId
  /\ \A e, f \in Entries : ent[e].id # 0 /\ ent[e].id = ent[f].id => ent[e].name = ent[f].name
  /\ \A n \in Names, e \in Entries : ent[e].id # 0 /\ DiskId(n) = ent[e].id => ent[e].name = n
  /\ \A n, m \in Names : DiskId(n) # 0 /\ DiskId(n) = DiskId(m) => n = m

IdsOK == (\A w \in Sessions : IdOf(w)) /\ (killed \/ IdsUnique)

BeingDropped(n) == \E v \in Sessions : Dropping(v, n)

WholeOf(w) ==
  LET e == s[w].e  n == s[w].name  m == MainVF(s[w].e)  g == GroupVF(s[w].e) IN
  /\ s[w].pc \in {"group", "maininit"} /\ sm.pfh[m] # Closed =>
       disk[n]["main"] = m \/ BeingDropped(n)
  /\ s[w].pc \in {"maininit", "groupinit"} /\ sm.pfh[g] # Closed =>
       disk[n]["group"] = g \/ BeingDropped(n)
  /\ s[w].pc = "groupinit" /\ s[w].ok =>
       hdr[m] = ent[e].id /\ (disk[n]["main"] = m \/ BeingDropped(n))
  /\ s[w].pc = "link" /\ s[w].ok =>
       /\ hdr[m] = ent[e].id /\ hdr[g] = ent[e].id
       /\ (disk[n]["main"] = m /\ disk[n]["group"] = g) \/ BeingDropped(n)
  /\ s[w].pc = "loadgroup" =>
       \/ disk[n]["main"] # NoFile /\ hdr[disk[n]["main"]] = ent[e].id
       \/ BeingDropped(n)
WholeSoFar == \A w \in Sessions : WholeOf(w)

Inv ==
  /\ Types /\ Counted /\ Ring(sm)
  /\ LockHolder /\ SessionEntries /\ Apart
  /\ ListOK /\ ChainNames
  /\ OwnFiles /\ IdsOK /\ WholeSoFar

-----------------------------------------------------------------------------
(* The list: what List and FindTblInfo answer *)

\* List satisfies its own recursive definition.
LEMMA ListIs ==
  ASSUME Types, ListOK
  PROVE  List = [k \in 0 .. MaxStatements |->
                   IF k = 0 THEN lnext[g_TblList]
                   ELSE IF List[k - 1] = g_TblList THEN g_TblList ELSE lnext[List[k - 1]]]
<1> DEFINE S == {x \in ListIds : InList(x)}
           step == [k \in 1 .. MaxStatements |->
                      [x \in S |-> IF x = g_TblList THEN g_TblList ELSE lnext[x]]]
<1>0. g_TblList \in S /\ \A x \in S : lnext[x] \in S
  BY DEF Types, ListOK, ListIds, InList
<1>1. lnext[g_TblList] \in S /\ step \in [1 .. MaxStatements -> [S -> S]]
  <2> HIDE DEF S
  <2> QED BY <1>0
<1>2. \A k \in 1 .. MaxStatements, x \in S :
        step[k][x] = IF x = g_TblList THEN g_TblList ELSE lnext[x]
  OBVIOUS
<1> HIDE DEF S, step
<1>3. PICK f \in [0 .. MaxStatements -> S] :
         /\ f[0] = lnext[g_TblList]
         /\ \A k \in 1 .. MaxStatements : f[k] = step[k][f[k - 1]]
  <2>1. HasIteration(MaxStatements, S, lnext[g_TblList], step)
    BY <1>1, Iteration
  <2> QED BY <2>1 DEF HasIteration, Iterates
<1>4. f = [k \in 0 .. MaxStatements |->
             IF k = 0 THEN lnext[g_TblList]
             ELSE IF f[k - 1] = g_TblList THEN g_TblList ELSE lnext[f[k - 1]]]
  BY <1>2, <1>3
<1> QED BY <1>4, Zenon DEF List

\* The list goes down the numbers of the entries and so comes to its end.
LEMMA ListValues ==
  ASSUME Types, ListOK
  PROVE  /\ DOMAIN List = 0 .. MaxStatements
         /\ List[0] = lnext[g_TblList]
         /\ \A k \in 1 .. MaxStatements :
              List[k] = IF List[k - 1] = g_TblList THEN g_TblList ELSE lnext[List[k - 1]]
         /\ \A k \in 0 .. MaxStatements : List[k] \in ListIds /\ InList(List[k])
         /\ List[MaxStatements] = g_TblList
<1> HIDE DEF List
<1>1. /\ DOMAIN List = 0 .. MaxStatements
      /\ List[0] = lnext[g_TblList]
      /\ \A k \in 1 .. MaxStatements :
           List[k] = IF List[k - 1] = g_TblList THEN g_TblList ELSE lnext[List[k - 1]]
  BY ListIs
<1> DEFINE T == {k \in 0 .. MaxStatements :
                   /\ List[k] \in ListIds /\ InList(List[k])
                   /\ List[k] = g_TblList \/ List[k] <= MaxStatements - k}
<1>2. 0 \in T
  BY <1>1 DEF Types, ListOK, ListIds, InList, NULL, g_TblList
<1>3. ASSUME NEW k \in 1 .. MaxStatements, k - 1 \in T PROVE k \in T
  <2>1. CASE List[k - 1] = g_TblList
    BY <1>1, <1>3, <2>1 DEF ListOK, ListIds
  <2>2. CASE List[k - 1] # g_TblList
    <3> DEFINE x == List[k - 1]
    <3>1. x \in Entries /\ InList(x) /\ x <= MaxStatements - (k - 1) /\ List[k] = lnext[x]
      BY <1>1, <1>3, <2>2 DEF ListIds
    <3>2. lnext[x] \in ListIds /\ InList(lnext[x]) /\ lnext[x] < x
      BY <3>1 DEF Types, ListOK, ListIds, InList
    <3>3. x \in Int /\ lnext[x] \in Int
      BY <3>1, <3>2 DEF ListIds, g_TblList
    <3> HIDE DEF x
    <3> QED BY <3>1, <3>2, <3>3
  <2> QED BY <2>1, <2>2
<1> HIDE DEF T
<1>4. \A k \in 0 .. MaxStatements : k \in T
  BY <1>2, <1>3, IntervalInduction
<1>5. List[MaxStatements] = g_TblList
  BY <1>4 DEF T, ListIds, g_TblList
<1>6. \A k \in 0 .. MaxStatements : List[k] \in ListIds /\ InList(List[k])
  BY <1>4 DEF T
<1> QED BY <1>1, <1>5, <1>6

\* A search answers an entry of the list with the name, or there is none.
LEMMA FindTblInfoIs ==
  ASSUME Types, ListOK, NEW n
  PROVE  \/ /\ FindTblInfo(n) = NULL
            /\ \A e \in Listed : ent[e].name # n
         \/ /\ FindTblInfo(n) \in Entries /\ InList(FindTblInfo(n))
            /\ FindTblInfo(n) # NULL
<1> DEFINE ks == {k \in DOMAIN List : List[k] # g_TblList /\ ent[List[k]].name = n}
<1>1. FindTblInfo(n) = IF ks = {} THEN NULL ELSE List[Min(ks)]
  BY DEF FindTblInfo
<1> HIDE DEF List
<1>2. CASE ks = {}
  BY <1>1, <1>2 DEF Listed
<1>3. CASE ks # {}
  <2>1. ks \in SUBSET Nat
    BY ListValues
  <2>2. \E x \in ks : \A y \in ks : x <= y
    <3> HIDE DEF ks
    <3> QED BY <1>3, <2>1, LeastNat
  <2>3. Min(ks) \in ks
    <3> HIDE DEF ks
    <3> QED BY <2>2 DEF Min
  <2>4. List[Min(ks)] \in ListIds \ {g_TblList} /\ InList(List[Min(ks)])
    BY <2>3, ListValues
  <2> QED BY <1>1, <1>3, <2>4 DEF ListIds, NULL, g_TblList
<1> QED BY <1>2, <1>3

\* The list is the chain of its first entry.
LEMMA ListedIsChain ==
  ASSUME Types, ListOK, NEW R, Chains(R)
  PROVE  Listed = R[lnext[g_TblList]]
<1> HIDE DEF List
<1> DEFINE C == R[lnext[g_TblList]]
           T == {k \in 0 .. MaxStatements : R[List[k]] \subseteq C /\
                                            (List[k] # g_TblList => List[k] \in C)}
           U == {k \in 0 .. MaxStatements : C \subseteq Listed \cup R[List[k]]}
<1>1. \A k \in 0 .. MaxStatements : List[k] # g_TblList =>
        /\ List[k] \in Entries /\ List[k] \in Listed
        /\ R[List[k]] = {List[k]} \cup R[lnext[List[k]]]
  BY ListValues DEF Chains, ListIds, Listed
<1>2. 0 \in T /\ 0 \in U
  <2>1. List[0] = lnext[g_TblList]
    BY ListValues
  <2>2. List[0] # g_TblList => List[0] \in R[List[0]]
    BY <1>1
  <2> QED BY <2>1, <2>2
<1>3. ASSUME NEW k \in 1 .. MaxStatements PROVE /\ k - 1 \in T => k \in T
                                                /\ k - 1 \in U => k \in U
  <2>0. k \in 0 .. MaxStatements /\ k - 1 \in 0 .. MaxStatements
    OBVIOUS
  <2>1. CASE List[k - 1] = g_TblList
    <3>1. List[k] = g_TblList
      BY <2>1, ListValues
    <3> QED BY <2>0, <2>1, <3>1
  <2>2. CASE List[k - 1] # g_TblList
    <3>1. List[k] = lnext[List[k - 1]]
      BY <2>2, ListValues
    <3>2. R[List[k - 1]] = {List[k - 1]} \cup R[List[k]] /\ List[k - 1] \in Listed
      BY <1>1, <2>0, <2>2, <3>1
    <3>3. List[k] # g_TblList => List[k] \in R[List[k]]
      BY <1>1, <2>0
    <3> QED BY <2>0, <3>2, <3>3
  <2> QED BY <2>1, <2>2
<1> HIDE DEF T, U, C
<1>4. \A k \in 0 .. MaxStatements : k \in T
  BY <1>2, <1>3, IntervalInduction
<1>5. \A k \in 0 .. MaxStatements : k \in U
  BY <1>2, <1>3, IntervalInduction
<1>6. Listed \subseteq C
  BY <1>4, ListValues DEF T, Listed
<1>7. C \subseteq Listed
  <2>1. MaxStatements \in U
    BY <1>5
  <2>2. R[List[MaxStatements]] = {}
    BY ListValues DEF Chains
  <2> QED BY <2>1, <2>2 DEF U
<1> QED BY <1>6, <1>7 DEF C

-----------------------------------------------------------------------------
(* Sessions *)

LEMMA SessionFields ==
  ASSUME Types, NEW w \in Sessions
  PROVE  /\ s[w].pc \in Pcs /\ s[w].op \in {"none", "create", "drop", "use"}
         /\ s[w].name \in Names \cup {"none"} /\ s[w].e \in {NULL} \cup Entries
         /\ s[w].vf \in Nodes \cup {NoVF} /\ s[w].ok \in BOOLEAN
<1>1. s[w] \in SessionStates
  BY DEF Types
<1> QED BY <1>1 DEF SessionStates

\* Session w goes on in this way and the others stay where they are.
Becomes(w, pc, op, n, e, v, ok) ==
  /\ s' \in [Sessions -> SessionStates]
  /\ s'[w].pc = pc /\ s'[w].op = op /\ s'[w].name = n
  /\ s'[w].e = e /\ s'[w].vf = v /\ s'[w].ok = ok
  /\ \A x \in Sessions \ {w} : s'[x] = s[x]

LEMMA BecomesIs ==
  ASSUME Types, NEW w \in Sessions, NEW r \in SessionStates, s' = [s EXCEPT ![w] = r]
  PROVE  Becomes(w, r.pc, r.op, r.name, r.e, r.vf, r.ok)
<1>1. s \in [Sessions -> SessionStates]
  BY DEF Types
<1>2. s' \in [Sessions -> SessionStates] /\ s'[w] = r /\ \A x \in Sessions \ {w} : s'[x] = s[x]
  BY <1>1
<1> QED BY <1>2 DEF Becomes

LEMMA PcsAre ==
  /\ {"idle", "create", "load"} \subseteq Pcs /\ Locked \subseteq Pcs /\ Working \subseteq Pcs
  /\ \A pc \in {"idle", "create", "load"} \cup Working : pc \notin Locked
BY DEF Pcs, Locked, Creating, Loading, Working

LEMMA GotoIs ==
  ASSUME Types, NEW w \in Sessions, NEW pc \in Pcs, Goto(w, pc)
  PROVE  Becomes(w, pc, s[w].op, s[w].name, s[w].e, s[w].vf, s[w].ok)
<1> DEFINE r == [s[w] EXCEPT !.pc = pc]
<1>1. s[w] \in SessionStates
  BY DEF Types
<1>2. /\ r \in SessionStates
      /\ r.pc = pc /\ r.op = s[w].op /\ r.name = s[w].name /\ r.e = s[w].e
      /\ r.vf = s[w].vf /\ r.ok = s[w].ok
  BY <1>1 DEF SessionStates
<1>3. s' = [s EXCEPT ![w] = r]
  BY DEF Goto
<1> HIDE DEF r
<1>4. Becomes(w, r.pc, r.op, r.name, r.e, r.vf, r.ok)
  BY <1>2, <1>3, BecomesIs
<1> QED BY <1>2, <1>4

LEMMA FinishIs ==
  ASSUME Types, NEW w \in Sessions, Finish(w)
  PROVE  Becomes(w, "idle", "none", "none", NULL, NoVF, TRUE)
<1>1. /\ Idle \in SessionStates
      /\ Idle.pc = "idle" /\ Idle.op = "none" /\ Idle.name = "none" /\ Idle.e = NULL
      /\ Idle.vf = NoVF /\ Idle.ok = TRUE
  BY DEF Idle, SessionStates, Pcs
<1>2. s' = [s EXCEPT ![w] = Idle]
  BY DEF Finish
<1> HIDE DEF Idle
<1>3. Becomes(w, Idle.pc, Idle.op, Idle.name, Idle.e, Idle.vf, Idle.ok)
  BY <1>1, <1>2, BecomesIs
<1> QED BY <1>1, <1>3

\* The number of statements that may still allocate an entry.
LEMMA PendingFinite ==
  ASSUME NEW S \in SUBSET Sessions PROVE IsFiniteSet(S) /\ Cardinality(S) \in Nat
BY FS_Subset, FS_CardinalityType

LEMMA CountedKept ==
  ASSUME Types, Counted, Pending' \subseteq Pending, UNCHANGED <<allocated, started>>
  PROVE  Counted'
<1> DEFINE P == Pending  Q == Pending'
<1>1. P \in SUBSET Sessions /\ Q \in SUBSET Sessions /\ Q \subseteq P
  BY DEF Pending
<1>2. allocated + Cardinality(P) <= started /\ started <= MaxStatements
  BY DEF Counted
<1> HIDE DEF P, Q
<1>3. Cardinality(Q) <= Cardinality(P)
  BY <1>1, PendingFinite, FS_Subset
<1>4. Cardinality(P) \in Nat /\ Cardinality(Q) \in Nat /\ allocated \in Nat /\ started \in Nat
  BY <1>1, PendingFinite DEF Types
<1>5. allocated' + Cardinality(Q) <= started' /\ started' <= MaxStatements
  BY <1>2, <1>3, <1>4
<1> QED BY <1>5 DEF Counted, Q

LEMMA CountedStart ==
  ASSUME Types, Counted, NEW w \in Sessions, \A x \in Sessions \ {w} : s'[x] = s[x],
         started < MaxStatements, started' = started + 1, allocated' = allocated
  PROVE  Counted'
<1> DEFINE P == Pending  Q == Pending'
<1>1. P \in SUBSET Sessions /\ Q \in SUBSET Sessions /\ Q \subseteq P \cup {w}
  BY DEF Pending
<1>2. allocated + Cardinality(P) <= started /\ started <= MaxStatements
  BY DEF Counted
<1> HIDE DEF P, Q
<1>3. Cardinality(Q) <= Cardinality(P) + 1
  <2>1. P \cup {w} \in SUBSET Sessions /\ IsFiniteSet(P \cup {w}) /\ IsFiniteSet(P)
    BY <1>1, PendingFinite
  <2>2. Cardinality(Q) <= Cardinality(P \cup {w})
    BY <1>1, <2>1, FS_Subset
  <2>3. Cardinality(P \cup {w}) \in {Cardinality(P), Cardinality(P) + 1}
    BY <2>1, FS_AddElement
  <2>4. Cardinality(P) \in Nat /\ Cardinality(Q) \in Nat
    BY <1>1, PendingFinite
  <2> QED BY <2>2, <2>3, <2>4
<1>4. Cardinality(P) \in Nat /\ Cardinality(Q) \in Nat /\ allocated \in Nat /\ started \in Nat
  BY <1>1, PendingFinite DEF Types
<1>5. allocated' + Cardinality(Q) <= started' /\ started' <= MaxStatements
  BY <1>2, <1>3, <1>4
<1> QED BY <1>5 DEF Counted, Q

LEMMA CountedAlloc ==
  ASSUME Types, Counted, NEW w \in Sessions, \A x \in Sessions \ {w} : s'[x] = s[x],
         w \in Pending, w \notin Pending', allocated' = allocated + 1, started' = started
  PROVE  Counted' /\ allocated + 1 \in Entries
<1> DEFINE P == Pending  Q == Pending'
<1>1. P \in SUBSET Sessions /\ Q \in SUBSET Sessions /\ Q = P \ {w} /\ w \in P
  BY DEF Pending
<1>2. allocated + Cardinality(P) <= started /\ started <= MaxStatements
  BY DEF Counted
<1> HIDE DEF P, Q
<1>3. Cardinality(Q) = Cardinality(P) - 1
  BY <1>1, PendingFinite, FS_RemoveElement
<1>4. Cardinality(P) \in Nat /\ Cardinality(Q) \in Nat /\ allocated \in Nat /\ started \in Nat
  BY <1>1, PendingFinite DEF Types
<1>5. /\ allocated' + Cardinality(Q) <= started' /\ started' <= MaxStatements
      /\ allocated + 1 \in 1 .. MaxStatements
  BY <1>2, <1>3, <1>4
<1> QED BY <1>5 DEF Counted, Q

\* Nobody but the holder of the dictionary lock is between two steps under it.
LEMMA NobodyLocked ==
  ASSUME Types, LockHolder, Unlocked, NEW v \in Sessions PROVE s[v].pc \notin Locked
BY DEF LockHolder, Unlocked

LEMMA OthersUnlocked ==
  ASSUME Types, LockHolder, NEW w \in Sessions, s[w].pc \in Locked, NEW v \in Sessions \ {w}
  PROVE  s[v].pc \notin Locked
BY DEF LockHolder

-----------------------------------------------------------------------------
(* Steps outside and under the dictionary lock *)

\* Session w may change its own entry and files without the lock: what the holder of the lock
\* has made sure of stays so, unless w is dropping that very table.
Quiet(w) ==
  /\ \A x \in Sessions \ {w} : s'[x] = s[x]
  /\ s[w].pc \notin Locked /\ s'[w].pc \notin Locked
  /\ UNCHANGED <<dictLock, hdr, nextId, savedId, allocated, killed>>
  /\ \A e \in Entries : ent'[e].name = ent[e].name /\ ent'[e].id = ent[e].id
  /\ \A x \in ListIds : InList(x)' <=> InList(x)
  /\ sm'.head = sm.head
  /\ \A v \in Sessions : s[v].pc \in Locked /\ Both(sm, s[v].e) => Both(sm', s[v].e)
  /\ s'[w].pc \in Working =>
       InList(s[w].e)' \/ (s[w].pc \in Working /\ s'[w].e = s[w].e)
  /\ \A e \in Entries : ~InList(e) =>
       /\ sm'.pfh[MainVF(e)] \in {sm.pfh[MainVF(e)], Closed}
       /\ sm'.pfh[GroupVF(e)] \in {sm.pfh[GroupVF(e)], Closed}
  /\ \A n \in Names, f \in Forks :
       disk'[n][f] = disk[n][f] \/ (disk'[n][f] = NoFile /\ Dropping(w, n)')
  /\ Unlocked \/ \A n \in Names : Dropping(w, n) => Dropping(w, n)'

LEMMA QuietDropped ==
  ASSUME Types, SessionEntries, NEW w \in Sessions, Quiet(w), NEW n \in Names,
         BeingDropped(n), ~Unlocked
  PROVE  BeingDropped(n)'
<1>1. PICK v \in Sessions : Dropping(v, n)
  BY DEF BeingDropped
<1>2. CASE v = w
  BY <1>1, <1>2 DEF Quiet, BeingDropped
<1>3. CASE v # w
  <2>1. s'[v] = s[v]
    BY <1>3 DEF Quiet
  <2>2. s[v].pc = "detach" => InList(s[v].e)
    BY <1>1 DEF Dropping, InList
  <2>3. s[v].pc = "detach" => s[v].e \in ListIds
    BY DEF SessionEntries, EntryOf, Working, ListIds
  <2>4. s[v].pc = "detach" => (lnext[s[v].e] # NULL => lnext'[s[v].e] # NULL)
    BY <2>3 DEF Quiet, InList
  <2> QED
    BY <1>1, <2>1, <2>2, <2>4 DEF Dropping, BeingDropped, InList
<1> QED BY <1>2, <1>3

LEMMA QuietEntries ==
  ASSUME Inv, NEW w \in Sessions, Quiet(w), EntryOf(w)'
  PROVE  SessionEntries'
<1> SUFFICES ASSUME NEW v \in Sessions \ {w} PROVE EntryOf(v)'
  BY DEF SessionEntries
<1>1. s'[v] = s[v]
  BY DEF Quiet
<1>2. EntryOf(v) /\ Types
  BY DEF Inv, SessionEntries
<1>3. s[v].e \in Entries => /\ ent'[s[v].e].name = ent[s[v].e].name
                            /\ InList(s[v].e)' <=> InList(s[v].e)
                            /\ sm'.head[s[v].e] = sm.head[s[v].e]
  BY DEF Quiet, ListIds
<1>4. allocated' = allocated
  BY DEF Quiet
<1>5. s[v].pc \in {"unlinkmain", "unlinkgroup", "use", "reopen"} => s[v].e \in Entries
  BY <1>2 DEF EntryOf, Working
<1> QED BY <1>1, <1>2, <1>3, <1>4, <1>5 DEF EntryOf

LEMMA QuietFiles ==
  ASSUME Inv, NEW w \in Sessions, Quiet(w)
  PROVE  OwnFiles'
<1>0. Types /\ OwnFiles /\ LockHolder /\ SessionEntries /\ ListOK
  BY DEF Inv
<1>1. \A e \in Entries, f \in Forks : NotOnDisk(e, f) => NotOnDisk(e, f)'
  <2>1. \A e \in Entries, f \in Forks : <<e, f>> # NoFile
    BY SmgrAssumption DEF NoFile
  <2>2. ASSUME NEW n \in Names, NEW f \in Forks PROVE disk'[n][f] \in {disk[n][f], NoFile}
    BY DEF Quiet
  <2>3. ASSUME NEW e \in Entries, NEW f \in Forks, NotOnDisk(e, f) PROVE NotOnDisk(e, f)'
    <3> SUFFICES ASSUME NEW n \in Names PROVE disk'[n][f] # <<e, f>>
      BY DEF NotOnDisk
    <3>1. disk[n][f] # <<e, f>>
      BY <2>3 DEF NotOnDisk
    <3> QED BY <2>1, <2>2, <3>1
  <2> QED BY <2>3
<1>2. \A e \in Entries : ~InList(e) /\ Fresh(e) => Fresh(e)'
  BY <1>1 DEF Fresh, Quiet, Forks
<1>3. ASSUME NEW e \in Entries, e > allocated' PROVE Fresh(e)'
  <2>1. e > allocated
    BY <1>3 DEF Quiet
  <2>2. ~InList(e)
    <3>1. InList(e) => e <= allocated
      BY <1>0 DEF ListOK
    <3>2. e \in Nat /\ allocated \in Nat
      BY <1>0 DEF Types
    <3> QED BY <2>1, <3>1, <3>2
  <2> QED BY <1>0, <1>2, <2>1, <2>2 DEF OwnFiles
<1>4. ASSUME NEW v \in Sessions PROVE FilesOf(v)'
  <2>1. CASE s'[v].pc \notin Locked
    BY <2>1 DEF FilesOf, Locked, Creating, Loading
  <2>2. CASE s'[v].pc \in Locked
    <3>1. v # w /\ s'[v] = s[v] /\ s[v].pc \in Locked
      BY <2>2 DEF Quiet
    <3>2. PICK e \in Entries : e = s[v].e /\ ~InList(e) /\ FilesOf(v)
      BY <1>0, <3>1 DEF SessionEntries, EntryOf, OwnFiles
    <3>3. /\ Fresh(e) => Fresh(e)'
          /\ NotOnDisk(e, "group") => NotOnDisk(e, "group")'
          /\ NotOnDisk(e, "main") => NotOnDisk(e, "main")'
      BY <1>1, <1>2, <3>2 DEF Forks
    <3>4. /\ sm'.pfh[MainVF(e)] \in {sm.pfh[MainVF(e)], Closed}
          /\ sm'.pfh[GroupVF(e)] \in {sm.pfh[GroupVF(e)], Closed}
          /\ hdr' = hdr
      BY <3>2 DEF Quiet
    <3>5. Both(sm, e) => Both(sm', e)
      BY <3>1, <3>2 DEF Quiet
    <3>6. s[v].pc \in {"maininit", "groupinit"} => Both(sm', e)
      BY <3>2, <3>5 DEF FilesOf
    <3>7. s'[v].pc \in {"maininit", "groupinit"} => Both(sm, s[v].e)'
      BY <3>1, <3>2, <3>6 DEF Both
    <3> HIDE DEF Fresh, NotOnDisk, Both
    <3> QED BY <3>1, <3>2, <3>3, <3>4, <3>7 DEF FilesOf
  <2> QED BY <2>1, <2>2
<1> QED BY <1>3, <1>4 DEF OwnFiles

LEMMA QuietApart ==
  ASSUME Inv, NEW w \in Sessions, Quiet(w)
  PROVE  Apart'
<1> SUFFICES ASSUME NEW v \in Sessions, NEW x \in Sessions,
                    s'[v].pc \in Locked, s'[x].pc \in Working
             PROVE  s'[x].e # s'[v].e
  BY DEF Apart
<1>1. v # w /\ s'[v] = s[v]
  BY DEF Quiet
<1>2. s[v].e \in Entries /\ ~InList(s[v].e) /\ Apart
  BY <1>1 DEF Inv, SessionEntries, EntryOf
<1>3. CASE x # w
  BY <1>1, <1>2, <1>3 DEF Apart, Quiet
<1>4. CASE x = w /\ s[w].pc \in Working /\ s'[w].e = s[w].e
  BY <1>1, <1>2, <1>4 DEF Apart
<1>5. CASE x = w /\ InList(s[w].e)'
  <2>1. ~InList(s[v].e)'
    BY <1>2 DEF Quiet, ListIds
  <2> QED BY <1>1, <1>5, <2>1 DEF InList
<1> QED BY <1>3, <1>4, <1>5 DEF Quiet

LEMMA QuietIds ==
  ASSUME Inv, NEW w \in Sessions, Quiet(w)
  PROVE  IdsOK'
<1>0. Types /\ IdsOK /\ SessionEntries
  BY DEF Inv
<1>1. ASSUME NEW v \in Sessions PROVE IdOf(v)'
  <2>1. CASE s'[v].pc \notin Locked
    BY <2>1 DEF IdOf, Locked, Creating, Loading
  <2>2. CASE s'[v].pc \in Locked
    <3>1. v # w /\ s'[v] = s[v] /\ s[v].pc \in Locked
      BY <2>2 DEF Quiet
    <3>2. s[v].e \in Entries /\ IdOf(v) /\ MainVF(s[v].e) # NoFile
      BY <1>0, <3>1, SmgrAssumption DEF SessionEntries, EntryOf, IdsOK, MainVF, NoFile
    <3>3. /\ ent'[s[v].e].id = ent[s[v].e].id
          /\ \A n \in Names : disk'[n]["main"] \in {disk[n]["main"], NoFile}
      BY <3>2 DEF Quiet, Forks
    <3> QED BY <3>1, <3>2, <3>3 DEF IdOf
  <2> QED BY <2>1, <2>2
<1>2. ASSUME IdsUnique PROVE IdsUnique'
  <2>1. \A e \in Entries : ent'[e].name = ent[e].name /\ ent'[e].id = ent[e].id
    BY DEF Quiet
  <2>2. hdr' = hdr /\ nextId' = nextId
    BY DEF Quiet
  <2>3. \A n \in Names : DiskId(n)' = DiskId(n) \/ DiskId(n)' = 0
    BY <2>2 DEF Quiet, DiskId, Forks
  <2>4. \A n \in Names, e \in Entries :
          ent'[e].id # 0 /\ DiskId(n)' = ent'[e].id => ent'[e].name = n
    BY <1>2, <2>1, <2>3 DEF IdsUnique
  <2>5. \A n, m \in Names : DiskId(n)' # 0 /\ DiskId(n)' = DiskId(m)' => n = m
    BY <1>2, <2>3 DEF IdsUnique
  <2>6. /\ \A e \in Entries : ent'[e].id < nextId'
        /\ \A i \in Files : hdr'[i] < nextId'
        /\ \A e, f \in Entries :
             ent'[e].id # 0 /\ ent'[e].id = ent'[f].id => ent'[e].name = ent'[f].name
    BY <1>2, <2>1, <2>2 DEF IdsUnique
  <2> QED BY <2>4, <2>5, <2>6 DEF IdsUnique
<1> QED BY <1>0, <1>1, <1>2 DEF IdsOK, Quiet

LEMMA QuietWhole ==
  ASSUME Inv, NEW w \in Sessions, Quiet(w)
  PROVE  WholeSoFar'
<1>0. Types /\ WholeSoFar /\ SessionEntries /\ LockHolder
  BY DEF Inv
<1> SUFFICES ASSUME NEW v \in Sessions PROVE WholeOf(v)'
  BY DEF WholeSoFar
<1>1. CASE s'[v].pc \notin Locked
  BY <1>1 DEF WholeOf, Locked, Creating, Loading
<1>2. CASE s'[v].pc \in Locked
  <2>1. v # w /\ s'[v] = s[v] /\ s[v].pc \in Locked
    BY <1>2 DEF Quiet
  <2>2. PICK e \in Entries, n \in Names :
          e = s[v].e /\ n = s[v].name /\ ~InList(e) /\ WholeOf(v) /\ ~Unlocked
    BY <1>0, <2>1, NobodyLocked, PcsAre DEF SessionEntries, EntryOf, WholeSoFar
  <2>3. /\ ent'[e].id = ent[e].id /\ hdr' = hdr
        /\ sm'.pfh[MainVF(e)] \in {sm.pfh[MainVF(e)], Closed}
        /\ sm'.pfh[GroupVF(e)] \in {sm.pfh[GroupVF(e)], Closed}
    BY <2>2 DEF Quiet
  <2>4. BeingDropped(n) => BeingDropped(n)'
    BY <1>0, <2>2, QuietDropped
  <2>5. \A f \in Forks : disk'[n][f] = disk[n][f] \/ BeingDropped(n)'
    BY <2>2 DEF Quiet, BeingDropped
  <2>6. \/ disk'[n]["main"] = disk[n]["main"] /\ disk'[n]["group"] = disk[n]["group"]
        \/ BeingDropped(n)'
    BY <2>5 DEF Forks
  <2> HIDE DEF BeingDropped
  <2> QED BY <2>1, <2>2, <2>3, <2>4, <2>6 DEF WholeOf
<1> QED BY <1>1, <1>2

LEMMA QuietKeepsInv ==
  ASSUME Inv, NEW w \in Sessions, Quiet(w), Types', Counted', Ring(sm)', EntryOf(w)',
         ListOK', ChainNames'
  PROVE  Inv'
<1>1. LockHolder'
  BY DEF Inv, LockHolder, Quiet
<1> QED BY <1>1, QuietEntries, QuietApart, QuietFiles, QuietIds, QuietWhole DEF Inv

\* A step that leaves the list alone.
LEMMA ListKept ==
  ASSUME Inv, UNCHANGED <<lnext, lprev>>, allocated' \in Nat, allocated <= allocated',
         \A e \in Entries : InList(e) => /\ ent'[e].name = ent[e].name /\ ent'[e].id = ent[e].id
                                         /\ sm'.head[e] = sm.head[e],
         \A w \in Sessions : s'[w].pc \in Locked =>
           \/ s[w].pc \in Locked /\ s'[w].name = s[w].name
           \/ \A f \in Listed : ent[f].name # s'[w].name
  PROVE  ListOK' /\ ChainNames'
<1>0. Types /\ ListOK /\ ChainNames
  BY DEF Inv
<1>1. \A x : InList(x)' <=> InList(x)
  BY DEF InList
<1>2. ListOK'
  <2>1. \A e \in Entries : InList(e) =>
          /\ e <= allocated' /\ lnext'[e] < e /\ lprev'[e] = g_TblList
          /\ ent'[e].id # 0 /\ sm'.head[e] = MainVF(e)
    BY <1>0 DEF ListOK, Types
  <2>2. \A x \in ListIds : InList(x)' => InList(lnext[x])'
    BY <1>0 DEF ListOK, InList
  <2>3. lprev'[g_TblList] = g_TblList /\ InList(g_TblList)'
    BY <1>0, <1>1 DEF ListOK
  <2> QED BY <1>1, <2>1, <2>2, <2>3 DEF ListOK
<1>3. PICK R : Chains(R)
  BY <1>0 DEF ChainNames
<1>4. Chains(R)'
  <2>1. R \in [ListIds -> SUBSET {e \in Entries : InList(e)}]
    BY <1>3 DEF Chains
  <2>2. R \in [ListIds -> SUBSET {e \in Entries : InList(e)'}]
    BY <1>1, <2>1
  <2>3. \A x \in ListIds : \A e \in R[x] : e \in Entries /\ ent'[e].name = ent[e].name
    BY <2>1
  <2>4. \A x \in ListIds : \A e, f \in R[x] : e # f => ent'[e].name # ent'[f].name
    BY <1>3, <2>3 DEF Chains
  <2>5. lnext[g_TblList] \in ListIds
    BY <1>0 DEF ListOK, Types, InList, ListIds
  <2>6. \A w \in Sessions : s'[w].pc \in Locked =>
          \A f \in R[lnext[g_TblList]] : ent'[f].name # s'[w].name
    <3>1. Listed = R[lnext[g_TblList]]
      BY <1>0, <1>3, ListedIsChain
    <3> HIDE DEF Listed
    <3> QED BY <1>3, <2>3, <2>5, <3>1 DEF Chains
  <2>7. /\ R[g_TblList] = {}
        /\ \A e \in Entries : InList(e)' => R[e] = {e} \cup R[lnext'[e]]
    BY <1>1, <1>3 DEF Chains
  <2> QED BY <2>2, <2>4, <2>6, <2>7 DEF Chains
<1> QED BY <1>2, <1>4 DEF ChainNames

\* A step that only moves a session.
LEMMA MoveKeepsInv ==
  ASSUME Inv, NEW w \in Sessions, s[w].pc \in {"idle", "create", "load", "use"},
         s' \in [Sessions -> SessionStates], \A x \in Sessions \ {w} : s'[x] = s[x],
         s'[w].pc \notin Locked \cup {"detach", "release"}, EntryOf(w)', Counted', started' \in Nat,
         UNCHANGED <<ent, lnext, lprev, dictLock, sm, disk, hdr, nextId, savedId, allocated, killed>>
  PROVE  Inv'
<1>0. Types /\ Ring(sm) /\ allocated \in Nat
  BY DEF Inv, Types
<1>1. s[w].pc \notin Locked
  BY DEF Locked, Creating, Loading
<1>2. Quiet(w)
  <2>1. \A n \in Names : ~Dropping(w, n)
    BY DEF Dropping
  <2>2. \A x : InList(x)' <=> InList(x)
    BY DEF InList
  <2>3. s'[w].pc \in Working => s'[w].pc \in {"unlinkmain", "unlinkgroup", "use", "reopen"}
    BY DEF Working
  <2>4. s'[w].pc \in Working => InList(s[w].e)'
    BY <2>3 DEF EntryOf, InList
  <2> QED BY <1>1, <2>1, <2>2, <2>4 DEF Quiet
<1>3. Types' /\ Ring(sm)'
  BY <1>0 DEF Types
<1>4. ListOK' /\ ChainNames'
  BY <1>0, <1>1, ListKept
<1> QED BY <1>2, <1>3, <1>4, QuietKeepsInv

-----------------------------------------------------------------------------
(* The steps outside the lock *)

LEMMA CreateSearchInv ==
  ASSUME Inv, NEW w \in Sessions, NEW n \in Names, CreateSearch(w, n) PROVE Inv'
<1> DEFINE r == [Idle EXCEPT !.pc = "create", !.op = "create", !.name = n]
<1>0. Types /\ Counted /\ s[w].pc = "idle"
  BY DEF Inv, CreateSearch, At
<1>1. CASE s' = s
  <2>1. EntryOf(w)'
    BY <1>0, <1>1 DEF EntryOf, Locked, Creating, Loading, Working
  <2>2. s'[w].pc \notin Locked \cup {"detach", "release"} /\ s' \in [Sessions -> SessionStates]
    BY <1>0, <1>1, PcsAre DEF Types
  <2>3. started' = started + 1 /\ started' \in Nat /\ started < MaxStatements
    BY <1>0 DEF CreateSearch, Types
  <2>4. Counted'
    BY <1>0, <1>1, <2>3, CountedStart DEF CreateSearch
  <2> QED BY <1>0, <1>1, <2>1, <2>2, <2>3, <2>4, MoveKeepsInv DEF CreateSearch
<1>2. CASE s' = [s EXCEPT ![w] = r]
  <2>1. r \in SessionStates /\ r.pc = "create" /\ r.op = "create" /\ r.name = n
    BY DEF Idle, SessionStates, Pcs
  <2> HIDE DEF r
  <2>2. Becomes(w, "create", "create", n, r.e, r.vf, r.ok)
    BY <1>0, <1>2, <2>1, BecomesIs
  <2>3. EntryOf(w)' /\ s'[w].pc \notin Locked \cup {"detach", "release"}
    BY <2>2 DEF Becomes, EntryOf, Locked, Creating, Loading, Working
  <2>4. started' = started + 1 /\ started' \in Nat /\ started < MaxStatements
    BY <1>0 DEF CreateSearch, Types
  <2>5. Counted'
    BY <1>0, <2>2, <2>4, CountedStart DEF CreateSearch, Becomes
  <2> QED BY <1>0, <2>2, <2>3, <2>4, <2>5, MoveKeepsInv DEF CreateSearch, Becomes
<1> QED BY <1>1, <1>2 DEF CreateSearch

\* A search that finds an entry finds one that a session can work with.
LEMMA FoundEntry ==
  ASSUME Inv, NEW n, FindTblInfo(n) # NULL
  PROVE  /\ FindTblInfo(n) \in Entries /\ InList(FindTblInfo(n))
         /\ FindTblInfo(n) <= allocated /\ sm.head[FindTblInfo(n)] = MainVF(FindTblInfo(n))
<1>1. FindTblInfo(n) \in Entries /\ InList(FindTblInfo(n))
  BY FindTblInfoIs DEF Inv
<1> HIDE DEF FindTblInfo
<1> QED BY <1>1 DEF Inv, ListOK

LEMMA FirstStepIs ==
  ASSUME NEW op \in {"drop", "use"}
  PROVE  FirstStep[op] \in {"unlinkmain", "use"} /\ FirstStep[op] \in Pcs \cap Working
         /\ FirstStep[op] \notin Locked
BY DEF FirstStep, Pcs, Working, Locked, Creating, Loading

\* The session that has found its entry.
LEMMA FoundEntryOf ==
  ASSUME Types, NEW w \in Sessions, NEW pc \in {"unlinkmain", "use"}, NEW op, NEW n \in Names,
         NEW e \in Entries, NEW v, NEW ok, Becomes(w, pc, op, n, e, v, ok),
         InList(e), e <= allocated, sm.head[e] = MainVF(e), UNCHANGED <<lnext, sm, allocated>>
  PROVE  EntryOf(w)'
<1>1. s'[w].pc \in {"unlinkmain", "use"} /\ s'[w].e = e /\ s'[w].name = n
  BY DEF Becomes
<1>2. s'[w].pc \notin Locked /\ s'[w].pc \notin {"load"} \cup Loading /\ s'[w].pc # "reopen"
  BY <1>1 DEF Locked, Creating, Loading
<1> QED BY <1>1, <1>2 DEF EntryOf, InList

LEMMA GetTableInfoInv ==
  ASSUME Inv, NEW w \in Sessions, NEW n \in Names, NEW op \in {"drop", "use"},
         GetTableInfo(w, n, op)
  PROVE  Inv'
<1> DEFINE e == FindTblInfo(n)
           pc == IF e # NULL THEN FirstStep[op] ELSE "load"
           r == [Idle EXCEPT !.pc = pc, !.op = op, !.name = n, !.e = e]
<1>0. Types /\ Counted /\ s[w].pc = "idle"
  BY DEF Inv, GetTableInfo, At
<1>1. e = NULL \/ (e \in Entries /\ InList(e) /\ e <= allocated /\ sm.head[e] = MainVF(e))
  BY FoundEntry
<1>2. s' = [s EXCEPT ![w] = r]
  BY DEF GetTableInfo
<1> HIDE DEF e
<1>3. pc \in Pcs /\ pc \notin Locked \cup {"detach", "release"} /\ (e = NULL => pc = "load")
      /\ (e # NULL => pc \in {"unlinkmain", "use"})
  BY FirstStepIs, PcsAre
<1> HIDE DEF pc
<1>4. r \in SessionStates /\ r.pc = pc /\ r.op = op /\ r.name = n /\ r.e = e
  BY <1>1, <1>3 DEF Idle, SessionStates
<1> HIDE DEF r
<1>5. Becomes(w, pc, op, n, e, r.vf, r.ok)
  BY <1>0, <1>2, <1>4, BecomesIs
<1>6. UNCHANGED <<ent, lnext, lprev, dictLock, sm, disk, hdr, nextId, savedId, allocated, killed>>
  BY DEF GetTableInfo
<1>7. EntryOf(w)'
  <2>1. CASE e = NULL
    <3>1. s'[w].pc = "load" /\ s'[w].name = n /\ s'[w].op = op
      BY <1>3, <1>5, <2>1 DEF Becomes
    <3> QED BY <3>1 DEF EntryOf, Locked, Creating, Loading, Working
  <2>2. CASE e # NULL
    BY <1>0, <1>1, <1>3, <1>5, <1>6, <2>2, FoundEntryOf
  <2> QED BY <2>1, <2>2
<1>8. started' = started + 1 /\ started' \in Nat /\ started < MaxStatements
  BY <1>0 DEF GetTableInfo, Types
<1>9. Counted'
  BY <1>0, <1>5, <1>6, <1>8, CountedStart DEF Becomes
<1> QED BY <1>0, <1>3, <1>5, <1>6, <1>7, <1>8, <1>9, MoveKeepsInv DEF Becomes

\* The second search has found the table after all.
LEMMA CreateFoundInv ==
  ASSUME Inv, NEW w \in Sessions, CreateTblInfo(w), FindTblInfo(s[w].name) # NULL PROVE Inv'
<1>0. Types /\ Counted /\ s[w].pc = "create" /\ Finish(w)
  BY DEF Inv, CreateTblInfo, At
<1>1. Becomes(w, "idle", "none", "none", NULL, NoVF, TRUE)
  BY <1>0, FinishIs
<1>2. UNCHANGED <<ent, lnext, lprev, dictLock, sm, disk, hdr, nextId, savedId, allocated, killed>>
      /\ started' = started
  BY DEF CreateTblInfo, SameList, SameFiles, Same
<1>3. EntryOf(w)' /\ s'[w].pc \notin Locked \cup {"detach", "release"}
  BY <1>1 DEF Becomes, EntryOf, Locked, Creating, Loading, Working
<1>4. Pending' \subseteq Pending
  BY <1>1 DEF Becomes, Pending
<1>5. Counted' /\ started' \in Nat
  BY <1>0, <1>2, <1>4, CountedKept DEF Types
<1> QED BY <1>0, <1>1, <1>2, <1>3, <1>5, MoveKeepsInv DEF Becomes

LEMMA LoadFoundInv ==
  ASSUME Inv, NEW w \in Sessions, LoadTblInfo(w), FindTblInfo(s[w].name) # NULL PROVE Inv'
<1> DEFINE e == FindTblInfo(s[w].name)
           pc == FirstStep[s[w].op]
           r == [s[w] EXCEPT !.pc = pc, !.e = e]
<1>0. Types /\ Counted /\ s[w].pc = "load" /\ EntryOf(w)
  BY DEF Inv, LoadTblInfo, At, SessionEntries
<1>1. e \in Entries /\ InList(e) /\ e <= allocated /\ sm.head[e] = MainVF(e)
  BY FoundEntry
<1>2. s' = [s EXCEPT ![w] = r]
  BY DEF LoadTblInfo
<1>3. /\ UNCHANGED <<ent, lnext, lprev, dictLock, sm, disk, hdr, nextId, savedId, allocated, killed>>
      /\ started' = started
  BY DEF LoadTblInfo, SameList, SameFiles, Same
<1> HIDE DEF e
<1>4. pc \in {"unlinkmain", "use"} /\ pc \in Pcs /\ pc \notin Locked \cup {"detach", "release"}
      /\ s[w].name \in Names
  BY <1>0, FirstStepIs DEF EntryOf
<1> HIDE DEF pc
<1>5. s[w] \in SessionStates
  BY <1>0 DEF Types
<1>6. r \in SessionStates /\ r.pc = pc /\ r.op = s[w].op /\ r.name = s[w].name /\ r.e = e
  BY <1>1, <1>4, <1>5 DEF SessionStates
<1> HIDE DEF r
<1>7. Becomes(w, pc, s[w].op, s[w].name, e, r.vf, r.ok)
  BY <1>0, <1>2, <1>6, BecomesIs
<1>8. EntryOf(w)'
  BY <1>0, <1>1, <1>3, <1>4, <1>7, FoundEntryOf
<1>9. Pending' \subseteq Pending
  BY <1>0, <1>7 DEF Becomes, Pending
<1>10. Counted' /\ started' \in Nat
  BY <1>0, <1>3, <1>9, CountedKept DEF Types
<1> QED BY <1>0, <1>3, <1>4, <1>7, <1>8, <1>10, MoveKeepsInv DEF Becomes

LEMMA EndUseInv ==
  ASSUME Inv, NEW w \in Sessions, EndUse(w) PROVE Inv'
<1>0. Types /\ Counted /\ s[w].pc = "use" /\ Finish(w)
  BY DEF Inv, EndUse, At
<1>1. Becomes(w, "idle", "none", "none", NULL, NoVF, TRUE)
  BY <1>0, FinishIs
<1>2. UNCHANGED <<ent, lnext, lprev, dictLock, sm, disk, hdr, nextId, savedId, allocated, killed>>
      /\ started' = started
  BY DEF EndUse, SameList, SameFiles, Same
<1>3. EntryOf(w)' /\ s'[w].pc \notin Locked \cup {"detach", "release"}
  BY <1>1 DEF Becomes, EntryOf, Locked, Creating, Loading, Working
<1>4. Pending' \subseteq Pending
  BY <1>1 DEF Becomes, Pending
<1>5. Counted' /\ started' \in Nat
  BY <1>0, <1>2, <1>4, CountedKept DEF Types
<1> QED BY <1>0, <1>1, <1>2, <1>3, <1>5, MoveKeepsInv DEF Becomes

\* DropMain and DropGroup.
LEMMA DropInv ==
  ASSUME Inv, NEW w \in Sessions, s[w].pc \in {"unlinkmain", "unlinkgroup"}, NEW f \in Forks,
         NEW pc \in {"unlinkgroup", "detach"}, DeleteTableFile(s[w].name, f), Goto(w, pc),
         UNCHANGED <<ent, lnext, lprev, dictLock, sm, hdr, nextId, savedId, allocated, started, killed>>
  PROVE  Inv'
<1>0. Types /\ Counted /\ EntryOf(w) /\ Ring(sm) /\ pc \in Pcs
  BY PcsAre DEF Inv, SessionEntries, Working
<1>1. PICK e \in Entries, n \in Names : /\ e = s[w].e /\ n = s[w].name
                                        /\ e <= allocated /\ sm.head[e] = MainVF(e) /\ InList(e)
  BY <1>0 DEF EntryOf, Working
<1>2. Becomes(w, pc, s[w].op, n, e, s[w].vf, s[w].ok)
  BY <1>0, <1>1, GotoIs
<1>3. s[w].pc \notin Locked /\ s'[w].pc \notin Locked /\ s'[w].pc = pc /\ s'[w].e = e /\ s'[w].name = n
  BY <1>2 DEF Becomes, Locked, Creating, Loading
<1>4. Dropping(w, n)' /\ \A m \in Names : Dropping(w, m) => m = n
  BY <1>1, <1>3 DEF Dropping, InList
<1>5. disk' = [disk EXCEPT ![n][f] = NoFile]
  BY <1>1 DEF DeleteTableFile
<1>6. disk \in [Names -> [Forks -> Files \cup {NoFile}]]
  BY <1>0 DEF Types
<1>7. \A m \in Names, g \in Forks :
        disk'[m][g] = disk[m][g] \/ (disk'[m][g] = NoFile /\ m = n)
  BY <1>5, <1>6
<1>8. disk' \in [Names -> [Forks -> Files \cup {NoFile}]]
  BY <1>5, <1>6
<1>9. Quiet(w)
  <2>1. \A x : InList(x)' <=> InList(x)
    BY DEF InList
  <2>2. \A x \in Sessions \ {w} : s'[x] = s[x]
    BY <1>2 DEF Becomes
  <2>3. \A m \in Names, g \in Forks :
          disk'[m][g] = disk[m][g] \/ (disk'[m][g] = NoFile /\ Dropping(w, m)')
    BY <1>4, <1>7
  <2>4. \A m \in Names : Dropping(w, m) => Dropping(w, m)'
    BY <1>4
  <2>5. InList(s[w].e)'
    BY <1>1, <1>3 DEF InList
  <2> QED BY <1>3, <2>1, <2>2, <2>3, <2>4, <2>5 DEF Quiet
<1>10. Types' /\ Ring(sm)'
  <2>1. \A m \in Names, g \in Forks : disk'[m][g] = NoFile \/ disk'[m][g] \in Entries \X {g}
    BY <1>0, <1>7 DEF Types
  <2>2. s' \in [Sessions -> SessionStates]
    BY <1>2 DEF Becomes
  <2> QED BY <1>0, <1>8, <2>1, <2>2 DEF Types
<1>11. Counted'
  <2>1. Pending' \subseteq Pending
    BY <1>2 DEF Becomes, Pending
  <2> QED BY <1>0, <2>1, CountedKept
<1>12. EntryOf(w)'
  BY <1>1, <1>3 DEF EntryOf, Loading, InList
<1>13. ListOK' /\ ChainNames'
  <2>1. \A x \in Sessions : s'[x].pc \in Locked => s[x].pc \in Locked /\ s'[x].name = s[x].name
    BY <1>2, <1>3 DEF Becomes
  <2> QED BY <1>0, <2>1, ListKept DEF Types
<1> QED BY <1>9, <1>10, <1>11, <1>12, <1>13, QuietKeepsInv

LEMMA DropMainInv ==
  ASSUME Inv, NEW w \in Sessions, DropMain(w) \/ DropGroup(w) PROVE Inv'
<1>1. CASE DropMain(w)
  <2> DEFINE pc == IF disk[s[w].name]["main"] = NoFile THEN "detach" ELSE "unlinkgroup"
  <2>1. /\ s[w].pc \in {"unlinkmain", "unlinkgroup"} /\ DeleteTableFile(s[w].name, "main")
        /\ Goto(w, pc) /\ pc \in {"unlinkgroup", "detach"} /\ "main" \in Forks
        /\ UNCHANGED <<ent, lnext, lprev, dictLock, sm, hdr, nextId, savedId, allocated, started, killed>>
    BY <1>1 DEF DropMain, At, SameList, Same, Forks
  <2> HIDE DEF pc
  <2> QED BY <2>1, DropInv
<1>2. CASE DropGroup(w)
  <2>1. /\ s[w].pc \in {"unlinkmain", "unlinkgroup"} /\ DeleteTableFile(s[w].name, "group")
        /\ Goto(w, "detach") /\ "group" \in Forks
        /\ UNCHANGED <<ent, lnext, lprev, dictLock, sm, hdr, nextId, savedId, allocated, started, killed>>
    BY <1>2 DEF DropGroup, At, SameList, Same, Forks
  <2> QED BY <2>1, DropInv
<1> QED BY <1>1, <1>2

\* The storage manager after a step whose count of open files may be spoilt.
LEMMA SmgrStep ==
  ASSUME Types, NEW w, NEW M \in SmgrStates, Smgr(w, M)
  PROVE  /\ sm' \in SmgrStates
         /\ sm'.next = M.next /\ sm'.vfhead = M.vfhead
         /\ sm'.head = M.head /\ sm'.pfh = M.pfh
         /\ Ring(M) => Ring(sm')
<1> DEFINE race == \E v \in Sessions \ {w} : Counts(v)
<1>1. sm \in SmgrStates /\ sm' \in Raced(sm, M, race)
  BY DEF Types, Smgr
<1> HIDE DEF race
<1> QED BY <1>1, RacedIs

LEMMA ReadInv ==
  ASSUME Inv, NEW w \in Sessions, NEW f \in Forks, Read(w, f), ~headLost' PROVE Inv'
<1> DEFINE M == GetVFec(sm, s[w].e, f)
           v == VFOf(M, s[w].e, f)
           r == [s[w] EXCEPT !.pc = "reopen", !.vf = v]
<1>0. Types /\ Counted /\ s[w].pc = "use" /\ EntryOf(w) /\ Ring(sm) /\ sm \in SmgrStates
      /\ SessionEntries
  BY DEF Inv, Read, At, SessionEntries, Types
<1>u. UNCHANGED <<ent, lnext, lprev, dictLock, disk, hdr, nextId, savedId, allocated, started, killed>>
  BY DEF Read, SameList, SameRun
<1>1. PICK e \in Entries, n \in Names : /\ e = s[w].e /\ n = s[w].name
                                        /\ e <= allocated /\ sm.head[e] = MainVF(e) /\ InList(e)
  BY <1>0 DEF EntryOf, Working
<1>2. s' = [s EXCEPT ![w] = r] /\ Smgr(w, M) /\ ~LosesHead(sm, e, f)
  BY <1>1 DEF Read
<1>3. Gets(sm, M, e) /\ v \in {MainVF(e), GroupVF(e)}
  <2>1. f = "main" \/ f = "group"
    BY DEF Forks
  <2>2. Gets(sm, M, e) /\ (f = "group" => Both(M, e))
    BY <1>0, <1>1, <1>2, <2>1, GetVFecIs
  <2>3. M \in SmgrStates /\ Ring(M) /\ M.head[e] = MainVF(e)
    BY <1>0, <2>2, FieldTypes DEF Gets
  <2> HIDE DEF M
  <2> QED BY <1>1, <2>1, <2>2, <2>3, VFOfIs
<1> HIDE DEF M, v
<1>4. sm' \in SmgrStates /\ Ring(sm') /\ sm'.head = sm.head /\ KeepsBoth(sm, sm', Entries)
      /\ \A x \in Nodes : sm'.pfh[x] \in {sm.pfh[x], Closed}
  <2>1. M \in SmgrStates /\ Ring(M) /\ M.head = [sm.head EXCEPT ![e] = MainVF(e)]
        /\ KeepsBoth(sm, M, Entries) /\ \A x \in Nodes : M.pfh[x] \in {sm.pfh[x], Closed}
    BY <1>3 DEF Gets
  <2>2. M.head = sm.head
    BY <1>0, <1>1, <2>1, FieldTypes
  <2>3. sm' \in SmgrStates /\ sm'.next = M.next /\ sm'.head = M.head /\ sm'.pfh = M.pfh /\ Ring(sm')
    BY <1>0, <1>2, <2>1, SmgrStep
  <2> QED BY <2>1, <2>2, <2>3 DEF KeepsBoth, Both
<1>5. v \in Nodes
  BY <1>3, NodeFacts
<1>6. r \in SessionStates /\ r.pc = "reopen" /\ r.op = s[w].op /\ r.name = n
      /\ r.e = e /\ r.vf = v
  <2>1. s[w] \in SessionStates
    BY <1>0 DEF Types
  <2> QED BY <1>1, <1>5, <2>1 DEF SessionStates, Pcs, Working
<1> HIDE DEF r
<1>7. Becomes(w, "reopen", s[w].op, n, e, v, r.ok)
  BY <1>0, <1>2, <1>6, BecomesIs
<1>8. s[w].pc \notin Locked /\ s'[w].pc \notin Locked /\ s'[w].pc = "reopen" /\ s'[w].e = e
      /\ s'[w].name = n /\ s'[w].vf = v /\ s' \in [Sessions -> SessionStates]
      /\ \A x \in Sessions \ {w} : s'[x] = s[x]
  BY <1>0, <1>7 DEF Becomes, Locked, Creating, Loading
<1>9. Quiet(w)
  <2>1. \A x : InList(x)' <=> InList(x)
    BY <1>u DEF InList
  <2>2. InList(s[w].e)'
    BY <1>1, <1>u, <1>8 DEF InList
  <2>3. \A d \in Entries : /\ sm'.pfh[MainVF(d)] \in {sm.pfh[MainVF(d)], Closed}
                           /\ sm'.pfh[GroupVF(d)] \in {sm.pfh[GroupVF(d)], Closed}
    BY <1>4, NodeFacts
  <2>4. \A m \in Names : ~Dropping(w, m)
    BY <1>0 DEF Dropping
  <2>5. \A x \in Sessions : s[x].pc \in Locked /\ Both(sm, s[x].e) => Both(sm', s[x].e)
    BY <1>0, <1>4 DEF KeepsBoth, SessionEntries, EntryOf
  <2> QED BY <1>u, <1>4, <1>8, <2>1, <2>2, <2>3, <2>4, <2>5 DEF Quiet
<1>10. Types'
  BY <1>0, <1>u, <1>4, <1>8 DEF Types
<1>11. Counted'
  <2>1. Pending' \subseteq Pending
    BY <1>8 DEF Pending
  <2> QED BY <1>0, <1>u, <2>1, CountedKept
<1>12. EntryOf(w)'
  BY <1>1, <1>3, <1>4, <1>8, <1>u DEF EntryOf, Loading, InList
<1>13. ListOK' /\ ChainNames'
  <2>1. \A x \in Sessions : s'[x].pc \in Locked => s[x].pc \in Locked /\ s'[x].name = s[x].name
    BY <1>8
  <2> QED BY <1>0, <1>u, <1>4, <2>1, ListKept DEF Types
<1> QED BY <1>4, <1>9, <1>10, <1>11, <1>12, <1>13, QuietKeepsInv

LEMMA ReopenInv ==
  ASSUME Inv, NEW w \in Sessions, Reopen(w) PROVE Inv'
<1>0. Types /\ Counted /\ EntryOf(w) /\ Ring(sm) /\ "use" \in Pcs /\ s[w].pc = "reopen"
      /\ Goto(w, "use") /\ sm \in SmgrStates
  BY PcsAre DEF Inv, SessionEntries, Working, Reopen, At, Types
<1>u. UNCHANGED <<ent, lnext, lprev, dictLock, disk, hdr, nextId, savedId, allocated, started, killed>>
  BY DEF Reopen, SameList, Same
<1>1. PICK e \in Entries, n \in Names : /\ e = s[w].e /\ n = s[w].name
                                        /\ e <= allocated /\ sm.head[e] = MainVF(e) /\ InList(e)
                                        /\ s[w].vf \in {MainVF(e), GroupVF(e)}
  BY <1>0 DEF EntryOf, Working
<1>2. Becomes(w, "use", s[w].op, n, e, s[w].vf, s[w].ok)
  BY <1>0, <1>1, GotoIs
<1>3. s[w].pc \notin Locked /\ s'[w].pc \notin Locked /\ s'[w].pc = "use" /\ s'[w].e = e /\ s'[w].name = n
  BY <1>0, <1>2 DEF Becomes, Locked, Creating, Loading
<1>4. sm' \in SmgrStates /\ Ring(sm') /\ sm'.head = sm.head /\ sm'.next = sm.next
      /\ \A v \in Nodes : v # s[w].vf => sm'.pfh[v] = sm.pfh[v]
  <2> DEFINE file == disk[n][forkNum(s[w].vf)]
  <2>1. s[w].vf \in Nodes /\ forkNum(s[w].vf) \in Forks
    BY <1>1, NodeFacts DEF Forks
  <2>2. file \in Files \cup {NoFile}
    BY <1>0, <2>1 DEF Types
  <2>3. CASE file = NoFile
    BY <1>0, <1>1, <2>3 DEF Reopen
  <2>4. CASE file # NoFile
    <3> DEFINE N == AddFileToSmgrContext(sm, s[w].vf, file)
    <3>1. Smgr(w, N)
      BY <1>1, <2>4 DEF Reopen
    <3> HIDE DEF file
    <3>2. N \in SmgrStates /\ Ring(N) /\ N.head = sm.head /\ N.next = sm.next
          /\ N.pfh = [sm.pfh EXCEPT ![s[w].vf] = file]
      BY <1>0, <2>1, <2>2, <2>4, AddFileIs
    <3> HIDE DEF N
    <3>3. sm' \in SmgrStates /\ sm'.head = N.head /\ sm'.pfh = N.pfh /\ Ring(sm')
          /\ sm'.next = N.next
      BY <1>0, <3>1, <3>2, SmgrStep
    <3>4. sm.pfh \in [Nodes -> Files \cup {Closed}]
      BY <1>0, FieldTypes
    <3> QED BY <3>2, <3>3, <3>4
  <2> QED BY <2>3, <2>4
<1>5. Quiet(w)
  <2>1. \A x : InList(x)' <=> InList(x)
    BY <1>u DEF InList
  <2>2. \A x \in Sessions \ {w} : s'[x] = s[x]
    BY <1>2 DEF Becomes
  <2>3. \A d \in Entries : ~InList(d) => /\ sm'.pfh[MainVF(d)] = sm.pfh[MainVF(d)]
                                         /\ sm'.pfh[GroupVF(d)] = sm.pfh[GroupVF(d)]
    <3> SUFFICES ASSUME NEW d \in Entries, ~InList(d)
                 PROVE  /\ sm'.pfh[MainVF(d)] = sm.pfh[MainVF(d)]
                        /\ sm'.pfh[GroupVF(d)] = sm.pfh[GroupVF(d)]
      OBVIOUS
    <3>1. d # e
      BY <1>1
    <3>2. MainVF(d) # s[w].vf /\ GroupVF(d) # s[w].vf /\ MainVF(d) \in Nodes /\ GroupVF(d) \in Nodes
      BY <1>1, <3>1, NodeFacts DEF MainVF, GroupVF
    <3> QED BY <1>4, <3>2
  <2>4. \A m \in Names : ~Dropping(w, m)
    BY <1>0 DEF Dropping
  <2>5. InList(s[w].e)' /\ \A d \in Entries : Both(sm, d) => Both(sm', d)
    BY <1>1, <1>u, <1>3, <1>4 DEF InList, Both
  <2>6. \A x \in Sessions : s[x].pc \in Locked /\ Both(sm, s[x].e) => Both(sm', s[x].e)
    <3>1. SessionEntries
      BY DEF Inv
    <3> QED BY <2>5, <3>1 DEF SessionEntries, EntryOf
  <2> HIDE DEF Both
  <2> QED BY <1>u, <1>3, <1>4, <2>1, <2>2, <2>3, <2>4, <2>5, <2>6 DEF Quiet
<1>6. Types'
  <2>1. s' \in [Sessions -> SessionStates]
    BY <1>2 DEF Becomes
  <2> QED BY <1>0, <1>u, <1>4, <2>1 DEF Types
<1>7. Counted'
  <2>1. Pending' \subseteq Pending
    BY <1>2 DEF Becomes, Pending
  <2> QED BY <1>0, <1>u, <2>1, CountedKept
<1>8. EntryOf(w)'
  BY <1>1, <1>3, <1>4, <1>u DEF EntryOf, Loading, InList
<1>9. ListOK' /\ ChainNames'
  <2>1. \A x \in Sessions : s'[x].pc \in Locked => s[x].pc \in Locked /\ s'[x].name = s[x].name
    BY <1>2, <1>3 DEF Becomes
  <2> QED BY <1>0, <1>u, <1>4, <2>1, ListKept DEF Types
<1> QED BY <1>4, <1>5, <1>6, <1>7, <1>8, <1>9, QuietKeepsInv

LEMMA ReleaseInv ==
  ASSUME Inv, NEW w \in Sessions, ReleaseTblInfo(w) PROVE Inv'
<1>0. Types /\ Counted /\ EntryOf(w) /\ Ring(sm) /\ s[w].pc = "release"
      /\ Finish(w) /\ sm \in SmgrStates
  BY DEF Inv, SessionEntries, ReleaseTblInfo, At, Types
<1>u. UNCHANGED <<lnext, lprev, dictLock, disk, hdr, nextId, savedId, allocated, started, killed>>
  BY DEF ReleaseTblInfo, SameList, Same
<1>1. PICK e \in Entries : e = s[w].e /\ e <= allocated /\ sm.head[e] = MainVF(e)
  BY <1>0 DEF EntryOf, Working
<1>2. Becomes(w, "idle", "none", "none", NULL, NoVF, TRUE)
  BY <1>0, FinishIs
<1>3. s[w].pc \notin Locked /\ s'[w].pc \notin Locked /\ s'[w].pc = "idle"
  BY <1>0, <1>2 DEF Becomes, Locked, Creating, Loading
<1>4. sm' \in SmgrStates /\ Ring(sm') /\ sm'.head = sm.head
      /\ KeepsBoth(sm, sm', Entries \ {e})
      /\ \A v \in Nodes : sm'.pfh[v] \in {sm.pfh[v], Closed}
  <2> DEFINE N == smgrRelease(sm, e)
  <2>1. Releases(sm, N) /\ KeepsBoth(sm, N, Entries \ {e})
    BY <1>0, <1>1, SmgrReleaseIs
  <2>2. Smgr(w, N)
    BY <1>1, NodeFacts DEF ReleaseTblInfo
  <2> HIDE DEF N
  <2>3. N \in SmgrStates /\ Ring(N) /\ N.head = sm.head
        /\ \A v \in Nodes : N.pfh[v] \in {sm.pfh[v], Closed}
    BY <2>1 DEF Releases
  <2>4. sm' \in SmgrStates /\ sm'.head = N.head /\ sm'.pfh = N.pfh /\ Ring(sm')
        /\ sm'.next = N.next
    BY <1>0, <2>2, <2>3, SmgrStep
  <2>5. KeepsBoth(sm, sm', Entries \ {e})
    BY <2>1, <2>4 DEF KeepsBoth, Both
  <2> QED BY <2>3, <2>4, <2>5
<1>5. ent' \in [Entries -> EntryStates]
      /\ \A d \in Entries : ent'[d].name = ent[d].name /\ ent'[d].id = ent[d].id
  <2>1. ent' = [ent EXCEPT ![e].released = TRUE] /\ ent \in [Entries -> EntryStates]
    BY <1>0, <1>1 DEF ReleaseTblInfo, Types
  <2> QED BY <2>1 DEF EntryStates
<1>6. Quiet(w)
  <2>1. \A x : InList(x)' <=> InList(x)
    BY <1>u DEF InList
  <2>2. \A x \in Sessions \ {w} : s'[x] = s[x]
    BY <1>2 DEF Becomes
  <2>3. \A d \in Entries : /\ sm'.pfh[MainVF(d)] \in {sm.pfh[MainVF(d)], Closed}
                           /\ sm'.pfh[GroupVF(d)] \in {sm.pfh[GroupVF(d)], Closed}
    BY <1>4, NodeFacts
  <2>4. \A m \in Names : ~Dropping(w, m)
    BY <1>0 DEF Dropping
  <2>5. s'[w].pc \notin Working
    BY <1>3 DEF Working
  <2>6. ASSUME NEW v \in Sessions, s[v].pc \in Locked
        PROVE  Both(sm, s[v].e) => Both(sm', s[v].e)
    <3>1. s[w].pc \in Working
      BY <1>0 DEF Working
    <3>2. s[v].e # e /\ s[v].e \in Entries
      BY <1>1, <2>6, <3>1 DEF Inv, Apart, SessionEntries, EntryOf
    <3> QED BY <1>4, <3>2 DEF KeepsBoth
  <2> QED BY <1>u, <1>3, <1>4, <1>5, <2>1, <2>2, <2>3, <2>4, <2>5, <2>6 DEF Quiet
<1>7. Types'
  <2>1. s' \in [Sessions -> SessionStates]
    BY <1>2 DEF Becomes
  <2> QED BY <1>0, <1>u, <1>4, <1>5, <2>1 DEF Types
<1>8. Counted'
  <2>1. Pending' \subseteq Pending
    BY <1>2 DEF Becomes, Pending
  <2> QED BY <1>0, <1>u, <2>1, CountedKept
<1>9. EntryOf(w)'
  BY <1>3 DEF EntryOf, Locked, Creating, Loading, Working
<1>10. ListOK' /\ ChainNames'
  <2>1. \A x \in Sessions : s'[x].pc \in Locked => s[x].pc \in Locked /\ s'[x].name = s[x].name
    BY <1>2, <1>3 DEF Becomes
  <2> QED BY <1>0, <1>u, <1>4, <1>5, <2>1, ListKept DEF Types
<1> QED BY <1>4, <1>6, <1>7, <1>8, <1>9, <1>10, QuietKeepsInv

\* ReleaseTblInfo takes the entry out, with everything that was linked since.
LEMMA DetachInv ==
  ASSUME Inv, NEW w \in Sessions, Detach(w) PROVE Inv'
<1>0. Types /\ Counted /\ EntryOf(w) /\ Ring(sm) /\ s[w].pc = "detach" /\ Unlocked
      /\ Goto(w, "release") /\ ListOK /\ LockHolder /\ "release" \in Pcs
  BY PcsAre DEF Inv, SessionEntries, Detach, At, Working
<1>u. UNCHANGED <<ent, dictLock, sm, disk, hdr, nextId, savedId, allocated, started, killed>>
  BY DEF Detach, SameFiles, Same
<1>1. PICK e \in Entries : e = s[w].e /\ e <= allocated /\ sm.head[e] = MainVF(e)
                           /\ s[w].name \in Names
  BY <1>0 DEF EntryOf, Working
<1>2. Becomes(w, "release", s[w].op, s[w].name, e, s[w].vf, s[w].ok)
  BY <1>0, <1>1, GotoIs
<1>3. s[w].pc \notin Locked /\ s'[w].pc \notin Locked /\ s'[w].pc = "release" /\ s'[w].e = e
      /\ s'[w].name = s[w].name
  BY <1>0, <1>2 DEF Becomes, Locked, Creating, Loading
<1>t. lnext \in [ListIds -> {NULL} \cup ListIds] /\ lprev \in [ListIds -> {NULL} \cup ListIds]
  BY <1>0 DEF Types
<1>4. \/ lnext' = lnext /\ lprev' = lprev
      \/ /\ InList(e)
         /\ lnext' = [lnext EXCEPT ![g_TblList] = lnext[e]]
         /\ lprev' = [lprev EXCEPT ![lnext[e]] = g_TblList]
  BY <1>0, <1>1 DEF Detach, DetachTblInfo, ListOK, InList
<1>5. /\ lnext' \in [ListIds -> {NULL} \cup ListIds] /\ lprev' \in [ListIds -> {NULL} \cup ListIds]
      /\ \A x \in Entries : lnext'[x] = lnext[x]
      /\ lnext'[g_TblList] = lnext[g_TblList] \/ (InList(e) /\ lnext'[g_TblList] = lnext[e])
      /\ lprev'[g_TblList] = g_TblList
      /\ \A x \in Entries : lprev'[x] \in {lprev[x], g_TblList}
  <2>1. lprev[g_TblList] = g_TblList /\ g_TblList \in ListIds /\ Entries \subseteq ListIds
        /\ g_TblList \notin Entries
    BY <1>0, SmgrAssumption DEF ListOK, ListIds, g_TblList
  <2>2. CASE lnext' = lnext /\ lprev' = lprev
    BY <1>t, <2>1, <2>2
  <2>3. CASE /\ InList(e)
             /\ lnext' = [lnext EXCEPT ![g_TblList] = lnext[e]]
             /\ lprev' = [lprev EXCEPT ![lnext[e]] = g_TblList]
    <3>1. lnext[e] \in ListIds
      BY <1>t, <2>1, <2>3 DEF InList
    <3>2. lnext' \in [ListIds -> {NULL} \cup ListIds] /\ lnext'[g_TblList] = lnext[e]
          /\ \A x \in Entries : lnext'[x] = lnext[x]
      BY <1>t, <2>1, <2>3, <3>1
    <3>3. lprev' \in [ListIds -> {NULL} \cup ListIds] /\ lprev'[g_TblList] = g_TblList
          /\ \A x \in Entries : lprev'[x] \in {lprev[x], g_TblList}
      BY <1>t, <2>1, <2>3, <3>1
    <3> QED BY <2>3, <3>2, <3>3
  <2> QED BY <1>4, <2>2, <2>3
<1>6. \A x \in ListIds : InList(x)' <=> InList(x)
  <2>1. InList(g_TblList) /\ (InList(e) => InList(lnext[e]))
    BY <1>0, <1>1 DEF ListOK, ListIds
  <2>2. lnext'[g_TblList] # NULL
    BY <1>5, <2>1 DEF InList
  <2> QED BY <1>5, <2>1, <2>2 DEF InList, ListIds
<1>7. Quiet(w)
  <2>1. \A x \in Sessions \ {w} : s'[x] = s[x]
    BY <1>2 DEF Becomes
  <2>2. s[w].pc \in Working /\ s'[w].e = s[w].e
    BY <1>0, <1>1, <1>3 DEF Working
  <2> QED BY <1>u, <1>0, <1>3, <1>6, <2>1, <2>2 DEF Quiet
<1>8. Types'
  <2>1. s' \in [Sessions -> SessionStates]
    BY <1>2 DEF Becomes
  <2> QED BY <1>0, <1>u, <1>5, <2>1 DEF Types
<1>9. Counted'
  <2>1. Pending' \subseteq Pending
    BY <1>2 DEF Becomes, Pending
  <2> QED BY <1>0, <1>u, <2>1, CountedKept
<1>10. EntryOf(w)'
  BY <1>1, <1>3, <1>u DEF EntryOf, Locked, Creating, Loading
<1>11. ListOK'
  <2>1. ASSUME NEW x \in ListIds, InList(x)' PROVE InList(lnext[x])'
    <3>1. lnext'[x] \in ListIds
      BY <1>5, <2>1 DEF InList
    <3>2. InList(lnext'[x])
      <4>1. CASE x \in Entries
        <5>1. InList(x) /\ lnext'[x] = lnext[x]
          BY <1>5, <1>6, <2>1, <4>1
        <5> QED BY <1>0, <5>1 DEF ListOK
      <4>2. CASE x = g_TblList
        BY <1>0, <1>1, <1>5, <4>2 DEF ListOK, ListIds
      <4> QED BY <4>1, <4>2 DEF ListIds
    <3>3. lnext'[lnext'[x]] # NULL
      BY <1>6, <3>1, <3>2 DEF InList
    <3> QED BY <3>3 DEF InList
  <2>2. ASSUME NEW x \in Entries, InList(x)'
        PROVE  /\ x <= allocated' /\ lnext'[x] < x /\ lprev'[x] = g_TblList
               /\ ent'[x].id # 0 /\ sm'.head[x] = MainVF(x)
    <3>1. InList(x)
      BY <1>6, <2>2 DEF ListIds
    <3> QED BY <1>0, <1>u, <1>5, <3>1 DEF ListOK
  <2>3. InList(g_TblList)'
    BY <1>0, <1>6 DEF ListOK, ListIds
  <2> QED BY <1>5, <2>1, <2>2, <2>3 DEF ListOK
<1>12. ChainNames'
  <2>1. PICK R : Chains(R)
    BY DEF Inv, ChainNames
  <2>2. \A v \in Sessions : s'[v].pc \notin Locked
    BY <1>0, <1>2, <1>3, NobodyLocked DEF Becomes
  <2>3. R \in [ListIds -> SUBSET {x \in Entries : InList(x)'}]
    <3>1. R \in [ListIds -> SUBSET {x \in Entries : InList(x)}]
      BY <2>1 DEF Chains
    <3> QED BY <1>6, <3>1 DEF ListIds
  <2>4. \A x \in Entries : InList(x)' => R[x] = {x} \cup R[lnext'[x]]
    BY <1>5, <1>6, <2>1 DEF Chains, ListIds
  <2>5. Chains(R)'
    BY <1>u, <2>1, <2>2, <2>3, <2>4 DEF Chains
  <2> QED BY <2>5 DEF ChainNames
<1> QED BY <1>0, <1>u, <1>7, <1>8, <1>9, <1>10, <1>11, <1>12, QuietKeepsInv

-----------------------------------------------------------------------------
(* The steps under the lock *)

LEMMA LockedKeepsInv ==
  ASSUME Inv, NEW w \in Sessions,
         \A x \in Sessions \ {w} : s'[x] = s[x] /\ s[x].pc \notin Locked,
         Types', Counted', Ring(sm)', LockHolder', EntryOf(w)', ListOK', ChainNames',
         allocated <= allocated', \A x \in ListIds : InList(x) => InList(x)',
         \A x \in Entries : sm.head[x] = MainVF(x) => sm'.head[x] = MainVF(x),
         \A e \in Entries : e > allocated' => Fresh(e)',
         FilesOf(w)', IdOf(w)', WholeOf(w)', killed' \/ IdsUnique',
         s'[w].pc \in Locked =>
           \A x \in Sessions \ {w} : s[x].pc \in Working => s[x].e # s'[w].e
  PROVE  Inv'
<1>0. Types /\ SessionEntries
  BY DEF Inv
<1>1. ASSUME NEW v \in Sessions \ {w} PROVE EntryOf(v)'
  <2>1. s'[v] = s[v] /\ s[v].pc \notin Locked /\ EntryOf(v)
    BY <1>0 DEF SessionEntries
  <2>2. s[v].pc \in Working => s[v].e \in Entries /\ s[v].e \in ListIds
    BY <2>1 DEF EntryOf, ListIds
  <2>3. s[v].pc \in Working => /\ s[v].e <= allocated'
                               /\ lnext[s[v].e] # NULL => lnext'[s[v].e] # NULL
                               /\ sm'.head[s[v].e] = MainVF(s[v].e)
    <3>1. allocated \in Nat /\ allocated' \in Nat
      BY <1>0 DEF Types
    <3> QED BY <2>1, <2>2, <3>1 DEF EntryOf, InList
  <2>4. s[v].pc \in {"unlinkmain", "unlinkgroup", "use", "reopen"} => s[v].pc \in Working
    BY DEF Working
  <2>5. s[v].pc \notin Locked \ {"main", "loadmain"} /\ (s[v].pc \in Loading => FALSE)
    BY <2>1 DEF Locked
  <2> QED BY <2>1, <2>2, <2>3, <2>4, <2>5 DEF EntryOf, InList
<1>2. ASSUME NEW v \in Sessions \ {w} PROVE FilesOf(v)' /\ IdOf(v)' /\ WholeOf(v)'
  <2>1. s'[v].pc \notin Locked
    OBVIOUS
  <2> QED BY <2>1 DEF FilesOf, IdOf, WholeOf, Locked, Creating, Loading
<1>3. SessionEntries'
  BY <1>1 DEF SessionEntries
<1>4. OwnFiles' /\ IdsOK' /\ WholeSoFar'
  BY <1>2 DEF OwnFiles, IdsOK, WholeSoFar
<1>5. Apart'
  <2> SUFFICES ASSUME NEW v \in Sessions, NEW x \in Sessions,
                      s'[v].pc \in Locked, s'[x].pc \in Working
               PROVE  s'[x].e # s'[v].e
    BY DEF Apart
  <2>1. v = w
    OBVIOUS
  <2>2. x # w
    BY <2>1 DEF Working, Locked, Creating, Loading
  <2> QED BY <2>1, <2>2
<1> QED BY <1>3, <1>4, <1>5 DEF Inv

\* The table stays in the middle of a DROP as long as the lock is held.
LEMMA LockedDropped ==
  ASSUME Inv, NEW w \in Sessions, s[w].pc \in Locked,
         \A x \in Sessions \ {w} : s'[x] = s[x],
         \A x \in ListIds : InList(x) => InList(x)', NEW n, BeingDropped(n)
  PROVE  BeingDropped(n)'
<1>1. PICK v \in Sessions : Dropping(v, n)
  BY DEF BeingDropped
<1>2. v # w
  BY <1>1 DEF Dropping, Locked, Creating, Loading
<1>3. s'[v] = s[v]
  BY <1>2
<1>4. s[v].pc = "detach" => s[v].e \in ListIds
  BY DEF Inv, SessionEntries, EntryOf, Working, ListIds
<1>5. s[v].pc = "detach" => (lnext[s[v].e] # NULL => lnext'[s[v].e] # NULL)
  BY <1>4 DEF InList
<1> QED BY <1>1, <1>3, <1>5 DEF Dropping, BeingDropped

\* The holder of the lock touches no files but those of its own entry.
OnlyFilesOf(e) ==
  \A d \in Entries \ {e} :
    /\ sm'.pfh[MainVF(d)] \in {sm.pfh[MainVF(d)], Closed}
    /\ sm'.pfh[GroupVF(d)] \in {sm.pfh[GroupVF(d)], Closed}
    /\ hdr'[MainVF(d)] = hdr[MainVF(d)] /\ hdr'[GroupVF(d)] = hdr[GroupVF(d)]
    /\ NotOnDisk(d, "main") => NotOnDisk(d, "main")'
    /\ NotOnDisk(d, "group") => NotOnDisk(d, "group")'

LEMMA FreshKept ==
  ASSUME Inv, NEW e \in Entries, e <= allocated', OnlyFilesOf(e),
         allocated' \in Nat, allocated <= allocated'
  PROVE  \A d \in Entries : d > allocated' => Fresh(d)'
<1> SUFFICES ASSUME NEW d \in Entries, d > allocated' PROVE Fresh(d)'
  OBVIOUS
<1>1. d # e /\ d > allocated
  BY DEF Inv, Types
<1>2. Fresh(d)
  BY <1>1 DEF Inv, OwnFiles
<1> HIDE DEF NotOnDisk
<1> QED BY <1>1, <1>2 DEF OnlyFilesOf, Fresh

\* The new entry becomes the first of the list.
LEMMA LinkKeepsList ==
  ASSUME Inv, NEW w \in Sessions, s[w].pc \in Locked, NEW e \in Entries, e = s[w].e,
         LinkTblInfo(e), ent[e].id # 0, sm'.head[e] = MainVF(e),
         \A d \in Entries : sm.head[d] = MainVF(d) => sm'.head[d] = MainVF(d),
         UNCHANGED <<ent, allocated>>, \A x \in Sessions : s'[x].pc \notin Locked
  PROVE  /\ lnext' \in [ListIds -> {NULL} \cup ListIds]
         /\ lprev' \in [ListIds -> {NULL} \cup ListIds]
         /\ \A x \in ListIds : InList(x)' <=> InList(x) \/ x = e
         /\ ListOK' /\ ChainNames'
<1>0. Types /\ ListOK /\ EntryOf(w)
  BY DEF Inv, SessionEntries
<1>1. e = allocated /\ ~InList(e) /\ ent[e].name = s[w].name /\ e # g_TblList /\ e \in ListIds
      /\ g_TblList \in ListIds
  BY <1>0, SmgrAssumption DEF EntryOf, ListIds, g_TblList
<1>2. lnext \in [ListIds -> {NULL} \cup ListIds] /\ lprev \in [ListIds -> {NULL} \cup ListIds]
  BY <1>0 DEF Types
<1> DEFINE first == lnext[g_TblList]
<1>3. first \in ListIds /\ InList(first) /\ first # e
  BY <1>0, <1>1, <1>2 DEF ListOK, InList, ListIds
<1>4. first < e
  <2>1. CASE first = g_TblList
    BY <2>1 DEF g_TblList
  <2>2. CASE first \in Entries
    BY <1>0, <1>1, <1>3, <2>2 DEF ListOK
  <2> QED BY <1>3, <2>1, <2>2 DEF ListIds
<1>5. lprev[first] = g_TblList
  BY <1>0, <1>3 DEF ListOK, ListIds
<1>6. /\ lnext' = [lnext EXCEPT ![e] = first, ![g_TblList] = e]
      /\ lprev' = [lprev EXCEPT ![e] = g_TblList]
  BY <1>5 DEF LinkTblInfo
<1> HIDE DEF first
<1>7. /\ lnext' \in [ListIds -> {NULL} \cup ListIds]
      /\ lprev' \in [ListIds -> {NULL} \cup ListIds]
      /\ lnext'[e] = first /\ lnext'[g_TblList] = e
      /\ \A x \in Entries : x # e => lnext'[x] = lnext[x]
      /\ lprev'[e] = g_TblList
      /\ \A x \in ListIds : x # e => lprev'[x] = lprev[x]
  <2>1. g_TblList \notin Entries
    BY SmgrAssumption DEF g_TblList
  <2> QED BY <1>1, <1>2, <1>3, <1>6, <2>1 DEF ListIds
<1>8. \A x \in ListIds : InList(x)' <=> InList(x) \/ x = e
  <2>1. first # NULL /\ e # NULL /\ InList(g_TblList)
    BY <1>0, <1>3 DEF ListIds, NULL, g_TblList, ListOK
  <2> QED BY <1>7, <2>1 DEF InList, ListIds
<1>9. ListOK'
  <2>1. ASSUME NEW x \in ListIds, InList(x)' PROVE InList(lnext[x])'
    <3>1. lnext'[x] \in ListIds
      BY <1>7, <2>1 DEF InList
    <3>2. InList(lnext'[x]) \/ lnext'[x] = e
      <4>1. CASE x = e
        BY <1>3, <1>7, <4>1
      <4>2. CASE x = g_TblList
        BY <1>7, <4>2
      <4>3. CASE x \in Entries \ {e}
        <5>1. InList(x) /\ lnext'[x] = lnext[x]
          BY <1>7, <1>8, <2>1, <4>3
        <5> QED BY <1>0, <5>1 DEF ListOK
      <4> QED BY <4>1, <4>2, <4>3 DEF ListIds
    <3>3. lnext'[lnext'[x]] # NULL
      BY <1>8, <3>1, <3>2 DEF InList
    <3> QED BY <3>3 DEF InList
  <2>2. ASSUME NEW x \in Entries, InList(x)'
        PROVE  /\ x <= allocated' /\ lnext'[x] < x /\ lprev'[x] = g_TblList
               /\ ent'[x].id # 0 /\ sm'.head[x] = MainVF(x)
    <3>1. CASE x = e
      BY <1>1, <1>4, <1>7, <3>1
    <3>2. CASE x # e
      <4>1. InList(x) /\ x \in ListIds
        BY <1>8, <2>2, <3>2 DEF ListIds
      <4> QED BY <1>0, <1>7, <3>2, <4>1 DEF ListOK
    <3> QED BY <3>1, <3>2
  <2>3. InList(g_TblList)' /\ lprev'[g_TblList] = g_TblList
    BY <1>0, <1>1, <1>7, <1>8 DEF ListOK
  <2> QED BY <2>1, <2>2, <2>3 DEF ListOK
<1>10. ChainNames'
  <2>1. PICK R : Chains(R)
    BY DEF Inv, ChainNames
  <2>s. PICK S : S = [R EXCEPT ![e] = {e} \cup R[first]]
    OBVIOUS
  <2>l. R \in [ListIds -> SUBSET {x \in Entries : InList(x)}] /\ R[g_TblList] = {}
    BY <2>1 DEF Chains
  <2>x. \A x \in Entries : InList(x) => R[x] = {x} \cup R[lnext[x]]
    BY <2>1 DEF Chains
  <2>2. R \in [ListIds -> SUBSET {x \in Entries : InList(x)}] /\ R[g_TblList] = {}
        /\ \A x \in Entries : InList(x) => R[x] = {x} \cup R[lnext[x]]
    BY <2>l, <2>x
  <2>3. \A f \in R[first] : ent[f].name # ent[e].name
    BY <1>1, <2>1 DEF Chains, first
  <2>4. S[e] = {e} \cup R[first] /\ \A x \in ListIds : x # e => S[x] = R[x]
    BY <1>1, <2>s, <2>2
  <2>5. S \in [ListIds -> SUBSET {x \in Entries : InList(x)'}]
    <3>1. \A x \in ListIds : R[x] \in SUBSET {y \in Entries : InList(y)'}
      BY <1>8, <2>2 DEF ListIds
    <3>2. e \in {y \in Entries : InList(y)'}
      BY <1>1, <1>8
    <3> DEFINE T == SUBSET {y \in Entries : InList(y)'}
               a == {e} \cup R[first]
    <3>3. a \in T
      BY <1>3, <3>1, <3>2
    <3>4. R \in [ListIds -> T]
      BY <2>2, <3>1
    <3>5. S = [R EXCEPT ![e] = a]
      BY <2>s
    <3> HIDE DEF T, a
    <3>6. S \in [ListIds -> T]
      BY <3>3, <3>4, <3>5
    <3> QED BY <3>6 DEF T
  <2>6. \A x \in Entries : InList(x)' => S[x] = {x} \cup S[lnext'[x]]
    <3> SUFFICES ASSUME NEW x \in Entries, InList(x)' PROVE S[x] = {x} \cup S[lnext'[x]]
      OBVIOUS
    <3>1. CASE x = e
      BY <1>3, <1>7, <2>4, <3>1
    <3>2. CASE x # e
      <4>1. InList(x) /\ lnext'[x] = lnext[x] /\ x \in ListIds
        BY <1>7, <1>8, <3>2 DEF ListIds
      <4>2. lnext[x] \in ListIds /\ lnext[x] # e
        BY <1>0, <1>1, <1>2, <4>1 DEF ListOK, InList
      <4>3. S[x] = R[x] /\ S[lnext[x]] = R[lnext[x]]
        BY <2>4, <3>2, <4>1, <4>2
      <4> QED BY <2>2, <4>1, <4>3
    <3> QED BY <3>1, <3>2
  <2>7. \A x \in ListIds : \A d, f \in S[x] : d # f => ent'[d].name # ent'[f].name
    <3> SUFFICES ASSUME NEW x \in ListIds, NEW d \in S[x], NEW f \in S[x], d # f
                 PROVE  ent[d].name # ent[f].name
      OBVIOUS
    <3>0. \A y \in ListIds : \A a, b \in R[y] : a # b => ent[a].name # ent[b].name
      BY <2>1 DEF Chains
    <3>1. CASE x = e
      BY <1>3, <2>3, <2>4, <3>0, <3>1
    <3>2. CASE x # e
      BY <2>4, <3>0, <3>2
    <3> QED BY <3>1, <3>2
  <2>8. S[g_TblList] = {}
    BY <1>1, <2>2, <2>4
  <2>9. Chains(S)'
    BY <2>5, <2>6, <2>7, <2>8 DEF Chains
  <2> QED BY <2>9 DEF ChainNames
<1> QED BY <1>7, <1>8, <1>9, <1>10

\* AllocTblInfo, by CREATE or by LoadTblInfo.
LEMMA AllocInv ==
  ASSUME Inv, NEW w \in Sessions, Unlocked, FindTblInfo(s[w].name) = NULL,
         NEW pc, NEW id, AllocTblInfo(w, pc, id),
         \/ s[w].pc = "create" /\ pc = "main" /\ id = nextId /\ nextId' = nextId + 1
         \/ s[w].pc = "load" /\ pc = "loadmain" /\ id = 0 /\ nextId' = nextId,
         UNCHANGED <<lnext, lprev, sm, disk, hdr, savedId, started, killed>>
  PROVE  Inv'
<1> DEFINE r == [s[w] EXCEPT !.pc = pc, !.e = allocated + 1]
<1>0. Types /\ Counted /\ EntryOf(w) /\ Ring(sm) /\ ListOK /\ LockHolder /\ OwnFiles /\ IdsOK
  BY DEF Inv, SessionEntries
<1>p. pc \in {"main", "loadmain"} /\ s[w].pc \in {"create", "load"} /\ pc \in Pcs /\ pc \in Locked
      /\ nextId \in Nat \ {0} /\ id \in Nat /\ nextId' \in Nat \ {0} /\ nextId <= nextId'
  BY <1>0 DEF Types, Pcs, Locked, Creating, Loading
<1>1. PICK n \in Names : n = s[w].name
  BY <1>0, <1>p DEF EntryOf
<1>a. allocated \in Nat /\ allocated' = allocated + 1 /\ dictLock' = w /\ s' = [s EXCEPT ![w] = r]
      /\ allocated' \in Nat /\ allocated <= allocated'
  <2>1. allocated \in Nat
    BY <1>0 DEF Types
  <2>2. allocated' = allocated + 1 /\ dictLock' = w
    BY DEF AllocTblInfo
  <2>3. s' = [s EXCEPT ![w] = r]
    BY DEF AllocTblInfo
  <2> QED BY <2>1, <2>2, <2>3
<1>2. \A x \in Sessions \ {w} : s'[x] = s[x] /\ s[x].pc \notin Locked
  <2>1. \A x \in Sessions : s[x].pc \notin Locked
    BY <1>0, NobodyLocked
  <2>2. s \in [Sessions -> SessionStates]
    BY <1>0 DEF Types
  <2> QED BY <1>a, <2>1, <2>2
<1>3. Counted' /\ allocated + 1 \in Entries
  <2>1. w \in Pending /\ s'[w].pc = pc
    BY <1>0, <1>p, <1>a DEF Pending, Types
  <2>2. w \notin Pending'
    BY <1>p, <2>1 DEF Pending
  <2> QED BY <1>0, <1>2, <1>a, <2>1, <2>2, CountedAlloc
<1>4. PICK e \in Entries : e = allocated + 1
  BY <1>3
<1>5. s[w] \in SessionStates
  BY <1>0 DEF Types
<1>6. r \in SessionStates /\ r.pc = pc /\ r.op = s[w].op /\ r.name = n /\ r.e = e
  BY <1>p, <1>1, <1>4, <1>5 DEF SessionStates
<1> HIDE DEF r
<1>7. Becomes(w, pc, s[w].op, n, e, r.vf, r.ok)
  BY <1>0, <1>a, <1>6, BecomesIs
<1>8. s'[w].pc = pc /\ s'[w].e = e /\ s'[w].name = n /\ s'[w].op = s[w].op
      /\ s' \in [Sessions -> SessionStates]
  BY <1>7 DEF Becomes
<1>9. /\ ent' \in [Entries -> EntryStates] /\ ent'[e].name = n /\ ent'[e].id = id
      /\ \A d \in Entries \ {e} : ent'[d] = ent[d]
  <2>1. ent' = [ent EXCEPT ![e].name = n, ![e].id = id] /\ ent \in [Entries -> EntryStates]
    BY <1>0, <1>1, <1>4 DEF AllocTblInfo, Types
  <2> QED BY <1>p, <2>1 DEF EntryStates
<1>10. ~InList(e) /\ Fresh(e) /\ e > allocated
  BY <1>0, <1>4, <1>a DEF ListOK, OwnFiles
<1>11. \A x : InList(x)' <=> InList(x)
  BY DEF InList
<1>12. Types'
  BY <1>0, <1>p, <1>a, <1>8, <1>9 DEF Types
<1>13. LockHolder'
  BY <1>p, <1>2, <1>8, <1>a DEF LockHolder
<1>14. EntryOf(w)'
  <2>1. s'[w].e = allocated' /\ s'[w].e \in Entries /\ ~InList(s[w].e)' /\ ent'[s'[w].e].name = s'[w].name
    BY <1>4, <1>8, <1>9, <1>10, <1>11, <1>a DEF InList
  <2>2. pc \notin (Locked \ {"main", "loadmain"}) \cup Working
        /\ pc \notin {"unlinkmain", "unlinkgroup", "use", "reopen"} /\ pc # "reopen" /\ pc # "load"
    BY <1>p DEF Working
  <2>3. pc \in Loading => s[w].op \in {"drop", "use"}
    BY <1>0, <1>p DEF EntryOf, Loading
  <2> QED BY <1>8, <2>1, <2>2, <2>3 DEF EntryOf
<1>15. ListOK' /\ ChainNames'
  <2>1. \A f \in Listed : ent[f].name # n
    BY <1>0, <1>1, FindTblInfoIs
  <2>2. \A x \in Sessions : s'[x].pc \in Locked =>
           (s[x].pc \in Locked /\ s'[x].name = s[x].name) \/ \A f \in Listed : ent[f].name # s'[x].name
    BY <1>2, <1>8, <2>1
  <2>3. \A d \in Entries : InList(d) => /\ ent'[d].name = ent[d].name /\ ent'[d].id = ent[d].id
                                        /\ sm'.head[d] = sm.head[d]
    BY <1>9, <1>10
  <2> HIDE DEF Listed
  <2> QED BY <1>a, <2>2, <2>3, ListKept
<1>16. Fresh(e)' /\ \A d \in Entries : d > allocated' => Fresh(d)'
  <2>1. \A d \in Entries : Fresh(d) => Fresh(d)'
    BY DEF Fresh, NotOnDisk
  <2> QED BY <1>0, <1>10, <1>a, <2>1 DEF OwnFiles
<1>17. FilesOf(w)'
  <2>1. Fresh(s[w].e)'
    BY <1>8, <1>16 DEF Fresh, NotOnDisk
  <2>2. s'[w].pc \in {"main", "loadmain"}
    BY <1>p, <1>8
  <2> HIDE DEF Fresh, NotOnDisk
  <2> QED BY <2>1, <2>2 DEF FilesOf
<1>18. IdOf(w)'
  BY <1>p, <1>8, <1>9, <1>10 DEF IdOf, Fresh, NotOnDisk, Creating, MainVF
<1>19. WholeOf(w)'
  <2>1. s'[w].pc \in {"main", "loadmain"}
    BY <1>p, <1>8
  <2> QED BY <2>1 DEF WholeOf
<1>20. killed' \/ IdsUnique'
  <2> SUFFICES ASSUME IdsUnique PROVE IdsUnique'
    BY <1>0 DEF IdsOK
  <2>1. \A m \in Names : DiskId(m)' = DiskId(m)
    BY DEF DiskId
  <2>2. \A m \in Names : DiskId(m) < nextId
    <3>1. \A m \in Names : disk[m]["main"] = NoFile \/ disk[m]["main"] \in Files
      BY <1>0 DEF Types, Forks
    <3> QED BY <1>p, <3>1 DEF DiskId, IdsUnique
  <2>3. \A d \in Entries \ {e} : ent[d].id < nextId /\ ent[d].id \in Nat
    BY <1>0 DEF IdsUnique, Types, EntryStates
  <2>4. id = 0 \/ (id = nextId /\ nextId' = nextId + 1)
    OBVIOUS
  <2>5. \A d \in Entries : ent'[d].id < nextId'
    BY <1>p, <1>9, <2>3, <2>4
  <2>6. \A i \in Files : hdr'[i] < nextId'
    <3>1. \A i \in Files : hdr[i] \in Nat /\ hdr[i] < nextId
      BY <1>0 DEF Types, IdsUnique
    <3> QED BY <1>p, <3>1
  <2>7. \A c, d \in Entries :
          ent'[c].id # 0 /\ ent'[c].id = ent'[d].id => ent'[c].name = ent'[d].name
    <3> SUFFICES ASSUME NEW c \in Entries, NEW d \in Entries,
                        ent'[c].id # 0, ent'[c].id = ent'[d].id
                 PROVE  ent'[c].name = ent'[d].name
      OBVIOUS
    <3>1. c = e <=> d = e
      BY <1>p, <1>9, <2>3, <2>4
    <3> QED BY <1>9, <3>1 DEF IdsUnique
  <2>8. \A m \in Names, d \in Entries :
          ent'[d].id # 0 /\ DiskId(m)' = ent'[d].id => ent'[d].name = m
    <3> SUFFICES ASSUME NEW m \in Names, NEW d \in Entries,
                        ent'[d].id # 0, DiskId(m) = ent'[d].id
                 PROVE  ent'[d].name = m
      BY <2>1
    <3>1. d # e
      BY <1>p, <1>9, <2>2, <2>4
    <3> QED BY <1>9, <3>1 DEF IdsUnique
  <2>9. \A m, k \in Names : DiskId(m)' # 0 /\ DiskId(m)' = DiskId(k)' => m = k
    BY <2>1 DEF IdsUnique
  <2> QED BY <2>5, <2>6, <2>7, <2>8, <2>9 DEF IdsUnique
<1>21. Ring(sm)'
  BY <1>0
<1>22. \A x \in Sessions \ {w} : s[x].pc \in Working => s[x].e # s'[w].e
  <2>1. \A x \in Sessions : s[x].pc \in Working => s[x].e \in Entries /\ s[x].e <= allocated
    BY DEF Inv, SessionEntries, EntryOf
  <2> QED BY <1>4, <1>8, <1>a, <2>1
<1> QED BY <1>2, <1>3, <1>11, <1>12, <1>13, <1>14, <1>15, <1>16, <1>17, <1>18, <1>19, <1>20,
           <1>21, <1>22, <1>a, LockedKeepsInv

LEMMA CreateTblInfoInv ==
  ASSUME Inv, NEW w \in Sessions, CreateTblInfo(w) PROVE Inv'
<1>1. CASE FindTblInfo(s[w].name) # NULL
  BY <1>1, CreateFoundInv
<1>2. CASE FindTblInfo(s[w].name) = NULL
  <2>1. /\ Unlocked /\ s[w].pc = "create" /\ AllocTblInfo(w, "main", nextId)
        /\ nextId' = nextId + 1
        /\ UNCHANGED <<lnext, lprev, sm, disk, hdr, savedId, started, killed>>
    BY <1>2 DEF CreateTblInfo, At, SameList, SameFiles, Same
  <2> QED BY <1>2, <2>1, AllocInv
<1> QED BY <1>1, <1>2

LEMMA LoadTblInfoInv ==
  ASSUME Inv, NEW w \in Sessions, LoadTblInfo(w) PROVE Inv'
<1>1. CASE FindTblInfo(s[w].name) # NULL
  BY <1>1, LoadFoundInv
<1>2. CASE FindTblInfo(s[w].name) = NULL
  <2>1. /\ Unlocked /\ s[w].pc = "load" /\ AllocTblInfo(w, "loadmain", 0)
        /\ nextId' = nextId
        /\ UNCHANGED <<lnext, lprev, sm, disk, hdr, savedId, started, killed>>
    BY <1>2 DEF LoadTblInfo, At, SameList, SameFiles, Same
  <2> QED BY <1>2, <2>1, AllocInv
<1> QED BY <1>1, <1>2

\* The entry and the name that the holder of the lock works with.
Holds(w, e, n) ==
  /\ s[w].pc \in Locked /\ e = s[w].e /\ n = s[w].name
  /\ e = allocated /\ ~InList(e) /\ ent[e].name = n

LEMMA HoldsIs ==
  ASSUME Inv, NEW w \in Sessions, s[w].pc \in Locked
  PROVE  \E e \in Entries, n \in Names : Holds(w, e, n)
<1>1. EntryOf(w) /\ s[w].pc # "idle"
  BY PcsAre DEF Inv, SessionEntries
<1> QED BY <1>1 DEF EntryOf, Holds

\* The holder of the lock goes on under it.
LEMMA OwnStepInv ==
  ASSUME Inv, NEW w \in Sessions, NEW e \in Entries, NEW n \in Names, Holds(w, e, n),
         NEW pc \in Locked \ {"main", "loadmain"}, NEW ok,
         Becomes(w, pc, s[w].op, n, e, s[w].vf, ok), pc \in Loading => s[w].pc \in Loading,
         UNCHANGED <<lnext, lprev, dictLock, nextId, savedId, allocated, started, killed>>,
         ent' \in [Entries -> EntryStates], ent'[e].name = ent[e].name,
         \A d \in Entries \ {e} : ent'[d] = ent[d],
         sm' \in SmgrStates, Ring(sm'), sm'.head = [sm.head EXCEPT ![e] = MainVF(e)],
         disk' \in [Names -> [Forks -> Files \cup {NoFile}]],
         \A m \in Names, f \in Forks : disk'[m][f] = NoFile \/ disk'[m][f] \in Entries \X {f},
         hdr' \in [Files -> Nat], OnlyFilesOf(e),
         FilesOf(w)', IdOf(w)', WholeOf(w)', killed \/ IdsUnique'
  PROVE  Inv'
<1>0. Types /\ Counted /\ EntryOf(w) /\ LockHolder /\ ListOK
  BY DEF Inv, SessionEntries
<1>1. s[w].pc \in Locked /\ e = allocated /\ ~InList(e) /\ ent[e].name = n /\ allocated \in Nat
      /\ e = s[w].e /\ n = s[w].name
  BY <1>0 DEF Holds, Types
<1>2. \A x \in Sessions \ {w} : s'[x] = s[x] /\ s[x].pc \notin Locked
  BY <1>0, <1>1, OthersUnlocked DEF Becomes
<1>3. s' \in [Sessions -> SessionStates] /\ s'[w].pc = pc /\ s'[w].name = n /\ s'[w].e = e
      /\ s'[w].op = s[w].op
  BY DEF Becomes
<1>4. Types'
  BY <1>0, <1>3 DEF Types
<1>5. Counted'
  <2>1. Pending' \subseteq Pending
    BY <1>2, <1>3, PcsAre DEF Pending
  <2> QED BY <1>0, <2>1, CountedKept
<1>6. LockHolder'
  BY <1>0, <1>1, <1>2, <1>3 DEF LockHolder
<1>7. \A x : InList(x)' <=> InList(x)
  BY DEF InList
<1>8. sm.head \in [Entries -> Nodes \cup {NoVF}]
  BY <1>0, FieldTypes DEF Types
<1>9. sm'.head[e] = MainVF(e) /\ \A d \in Entries \ {e} : sm'.head[d] = sm.head[d]
  BY <1>8
<1>10. EntryOf(w)'
  <2>1. pc \notin Working /\ pc # "load" /\ pc \notin {"unlinkmain", "unlinkgroup", "use", "reopen"}
        /\ pc # "reopen"
    BY DEF Working, Locked, Creating, Loading
  <2>2. s[w].pc \in Loading => s[w].op \in {"drop", "use"}
    BY <1>0 DEF EntryOf
  <2> QED BY <1>1, <1>3, <1>9, <2>1, <2>2 DEF EntryOf, InList
<1>11. ListOK' /\ ChainNames'
  <2>1. \A d \in Entries : InList(d) => /\ ent'[d].name = ent[d].name /\ ent'[d].id = ent[d].id
                                        /\ sm'.head[d] = sm.head[d]
    BY <1>1, <1>9
  <2>2. \A x \in Sessions : s'[x].pc \in Locked => s[x].pc \in Locked /\ s'[x].name = s[x].name
    BY <1>1, <1>2, <1>3
  <2> QED BY <1>1, <2>1, <2>2, ListKept
<1>12. \A d \in Entries : d > allocated' => Fresh(d)'
  BY <1>1, FreshKept
<1>13. \A x \in Entries : sm.head[x] = MainVF(x) => sm'.head[x] = MainVF(x)
  BY <1>9
<1>14. Ring(sm)'
  OBVIOUS
<1>15. \A x \in Sessions \ {w} : s[x].pc \in Working => s[x].e # s'[w].e
  BY <1>1, <1>3 DEF Inv, Apart
<1> QED BY <1>1, <1>2, <1>4, <1>5, <1>6, <1>7, <1>10, <1>11, <1>12, <1>13, <1>14, <1>15,
           LockedKeepsInv

\* The holder of the lock gives it back.
LEMMA UnlockInv ==
  ASSUME Inv, NEW w \in Sessions, NEW e \in Entries, NEW n \in Names, Holds(w, e, n),
         s' \in [Sessions -> SessionStates], \A x \in Sessions \ {w} : s'[x] = s[x],
         s'[w].pc \notin Locked \cup {"create", "load"}, dictLock' = NoSession,
         UNCHANGED <<ent, disk, hdr, nextId, savedId, allocated, started, killed>>,
         sm' \in SmgrStates, Ring(sm'), OnlyFilesOf(e),
         \A x \in Entries : sm.head[x] = MainVF(x) => sm'.head[x] = MainVF(x),
         lnext' \in [ListIds -> {NULL} \cup ListIds], lprev' \in [ListIds -> {NULL} \cup ListIds],
         \A x \in ListIds : InList(x) => InList(x)',
         EntryOf(w)', ListOK', ChainNames'
  PROVE  Inv'
<1>0. Types /\ Counted /\ LockHolder /\ allocated \in Nat
  BY DEF Inv, Types
<1>1. s[w].pc \in Locked /\ e = allocated
  BY DEF Holds
<1>2. \A x \in Sessions \ {w} : s'[x] = s[x] /\ s[x].pc \notin Locked
  BY <1>0, <1>1, OthersUnlocked
<1>3. Types'
  BY <1>0 DEF Types
<1>4. Counted'
  <2>1. Pending' \subseteq Pending
    BY <1>2 DEF Pending
  <2> QED BY <1>0, <2>1, CountedKept
<1>5. LockHolder'
  BY <1>2 DEF LockHolder
<1>6. \A d \in Entries : d > allocated' => Fresh(d)'
  BY <1>0, <1>1, FreshKept
<1>7. FilesOf(w)' /\ IdOf(w)' /\ WholeOf(w)'
  BY DEF FilesOf, IdOf, WholeOf, Locked, Creating, Loading
<1>8. killed' \/ IdsUnique'
  <2>1. \A m \in Names : DiskId(m)' = DiskId(m)
    BY DEF DiskId
  <2> QED BY <2>1 DEF Inv, IdsOK, IdsUnique
<1>9. Ring(sm)'
  OBVIOUS
<1> QED BY <1>0, <1>2, <1>3, <1>4, <1>5, <1>6, <1>7, <1>8, <1>9, LockedKeepsInv

\* A step of the list and the entries that closes files at most.
LEMMA OnlyFilesSame ==
  ASSUME NEW e \in Entries, UNCHANGED <<disk, hdr>>,
         \A v \in Nodes : v # MainVF(e) /\ v # GroupVF(e) => sm'.pfh[v] \in {sm.pfh[v], Closed}
  PROVE  OnlyFilesOf(e)
<1> SUFFICES ASSUME NEW d \in Entries \ {e}
             PROVE  /\ sm'.pfh[MainVF(d)] \in {sm.pfh[MainVF(d)], Closed}
                    /\ sm'.pfh[GroupVF(d)] \in {sm.pfh[GroupVF(d)], Closed}
  BY DEF OnlyFilesOf, NotOnDisk
<1>1. /\ MainVF(d) \in Nodes /\ GroupVF(d) \in Nodes
      /\ MainVF(d) # MainVF(e) /\ MainVF(d) # GroupVF(e)
      /\ GroupVF(d) # MainVF(e) /\ GroupVF(d) # GroupVF(e)
  BY NodeFacts DEF MainVF, GroupVF
<1> QED BY <1>1

\* The entry goes to ReleaseTblInfo without having been linked.
LEMMA FailInv ==
  ASSUME Inv, NEW w \in Sessions, NEW e \in Entries, NEW n \in Names, Holds(w, e, n),
         Goto(w, "detach"), dictLock' = NoSession,
         UNCHANGED <<ent, lnext, lprev, disk, hdr, nextId, savedId, allocated, started, killed>>,
         sm' \in SmgrStates, Ring(sm'), OnlyFilesOf(e),
         sm'.head = [sm.head EXCEPT ![e] = MainVF(e)]
  PROVE  Inv'
<1>0. Types /\ ListOK /\ "detach" \in Pcs /\ allocated \in Nat
  BY PcsAre DEF Inv, Types, Working
<1>1. s[w].pc \in Locked /\ e = allocated /\ e = s[w].e /\ n = s[w].name /\ ~InList(e)
  BY DEF Holds
<1>2. Becomes(w, "detach", s[w].op, n, e, s[w].vf, s[w].ok)
  BY <1>0, <1>1, GotoIs
<1>3. s' \in [Sessions -> SessionStates] /\ s'[w].pc = "detach" /\ s'[w].name = n /\ s'[w].e = e
      /\ \A x \in Sessions \ {w} : s'[x] = s[x]
  BY <1>2 DEF Becomes
<1>4. s'[w].pc \notin Locked \cup {"create", "load"}
  BY <1>3 DEF Locked, Creating, Loading
<1>5. sm.head \in [Entries -> Nodes \cup {NoVF}]
  BY <1>0, FieldTypes DEF Types
<1>6. sm'.head[e] = MainVF(e) /\ \A d \in Entries \ {e} : sm'.head[d] = sm.head[d]
  BY <1>5
<1>7. EntryOf(w)'
  BY <1>1, <1>3, <1>4, <1>6, <1>0 DEF EntryOf, Loading
<1>8. ListOK' /\ ChainNames'
  <2>1. \A d \in Entries : InList(d) => sm'.head[d] = sm.head[d]
    BY <1>1, <1>6
  <2>2. \A x \in Sessions : s'[x].pc \in Locked => s[x].pc \in Locked /\ s'[x].name = s[x].name
    BY <1>3, <1>4
  <2> QED BY <1>0, <2>1, <2>2, ListKept
<1>9. \A x \in ListIds : InList(x) => InList(x)'
  BY DEF InList
<1>10. lnext' \in [ListIds -> {NULL} \cup ListIds] /\ lprev' \in [ListIds -> {NULL} \cup ListIds]
  BY <1>0 DEF Types
<1>11. \A x \in Entries : sm.head[x] = MainVF(x) => sm'.head[x] = MainVF(x)
  BY <1>6
<1> QED BY <1>3, <1>4, <1>7, <1>8, <1>9, <1>10, <1>11, UnlockInv

\* smgr_create of a fork: the storage manager after it.
Gives(e, v, file) ==
  /\ sm' \in SmgrStates /\ Ring(sm') /\ sm'.head = [sm.head EXCEPT ![e] = MainVF(e)]
  /\ sm'.pfh[v] = file
  /\ \A x \in Nodes : x # v => sm'.pfh[x] \in {sm.pfh[x], Closed}
  /\ KeepsBoth(sm, sm', Entries)

LEMMA CreateSmgr ==
  ASSUME Types, NEW w, NEW e \in Entries, NEW v \in Nodes, NEW file \in Files \cup {Closed},
         NEW M, Gets(sm, M, e), Smgr(w, AddFileToSmgrContext(M, v, file))
  PROVE  Gives(e, v, file) /\ (Both(M, e) => Both(sm', e))
<1> DEFINE N == AddFileToSmgrContext(M, v, file)
<1>1. Gets(sm, M, e) /\ Smgr(w, N)
  OBVIOUS
<1>3. M \in SmgrStates /\ Ring(M) /\ M.head = [sm.head EXCEPT ![e] = MainVF(e)]
      /\ \A x \in Nodes : M.pfh[x] \in {sm.pfh[x], Closed}
      /\ KeepsBoth(sm, M, Entries)
  BY <1>1 DEF Gets
<1>4. N \in SmgrStates /\ Ring(N) /\ N.head = M.head /\ N.pfh = [M.pfh EXCEPT ![v] = file]
      /\ N.next = M.next
  BY <1>3, AddFileIs
<1> HIDE DEF N
<1>5. sm' \in SmgrStates /\ Ring(sm') /\ sm'.head = N.head /\ sm'.pfh = N.pfh
      /\ sm'.next = N.next
  BY <1>1, <1>4, SmgrStep
<1>6. M.pfh \in [Nodes -> Files \cup {Closed}]
  BY <1>3, FieldTypes
<1>7. sm'.pfh[v] = file /\ \A x \in Nodes : x # v => sm'.pfh[x] = M.pfh[x]
  BY <1>4, <1>5, <1>6
<1>8. KeepsBoth(sm, sm', Entries) /\ (Both(M, e) => Both(sm', e))
  BY <1>3, <1>4, <1>5 DEF KeepsBoth, Both
<1> QED BY <1>3, <1>4, <1>5, <1>7, <1>8 DEF Gives

\* smgr_open of a descriptor that is there: it has the file of the name unless it had one before.
OpenVF(M, v, f, n) ==
  IF M.pfh[v] # Closed \/ disk[n][f] = NoFile THEN M
  ELSE AddFileToSmgrContext(M, v, disk[n][f])

LEMMA OpenIs ==
  ASSUME Types, NEW M \in SmgrStates, Ring(M), NEW v \in Nodes, NEW f \in Forks, NEW n \in Names
  PROVE  LET N == OpenVF(M, v, f, n)
         IN  /\ N \in SmgrStates /\ Ring(N) /\ N.head = M.head /\ N.next = M.next
             /\ \A x \in Nodes : x # v => N.pfh[x] = M.pfh[x]
             /\ N.pfh[v] = IF M.pfh[v] # Closed \/ disk[n][f] = NoFile THEN M.pfh[v]
                           ELSE disk[n][f]
<1> DEFINE file == disk[n][f]
           N == OpenVF(M, v, f, n)
<1>1. file \in Files \cup {NoFile}
  BY DEF Types
<1>2. CASE M.pfh[v] # Closed \/ file = NoFile
  BY <1>2 DEF OpenVF
<1>3. CASE M.pfh[v] = Closed /\ file # NoFile
  <2>1. N = AddFileToSmgrContext(M, v, file)
    BY <1>3 DEF OpenVF
  <2> HIDE DEF N
  <2>2. file \in Files
    BY <1>1, <1>3
  <2> HIDE DEF file
  <2>3. N \in SmgrStates /\ Ring(N) /\ N.head = M.head /\ N.next = M.next
        /\ N.pfh = [M.pfh EXCEPT ![v] = file]
    BY <2>1, <2>2, AddFileIs
  <2>4. M.pfh \in [Nodes -> Files \cup {Closed}]
    BY FieldTypes
  <2>5. N.pfh[v] = file /\ \A x \in Nodes : x # v => N.pfh[x] = M.pfh[x]
    BY <2>3, <2>4
  <2> QED BY <1>3, <2>3, <2>5 DEF N, file
<1> QED BY <1>2, <1>3

\* The file q of that descriptor, when it had p and the disk has d.
OpenedAs(p, q, d) == q = p \/ (q = d /\ q # NoFile)

LEMMA OpenOne ==
  ASSUME Types, NEW M \in SmgrStates, Ring(M), NEW v \in Nodes, NEW f \in Forks, NEW n \in Names
  PROVE  OpenedAs(M.pfh[v], OpenVF(M, v, f, n).pfh[v], disk[n][f])
BY OpenIs DEF OpenedAs

\* The files of the disk after CreateFile.
WithFile(e, n, f) == IF disk[n][f] = NoFile THEN [disk EXCEPT ![n][f] = <<e, f>>] ELSE disk

DiskWith(d, e, n, f) ==
  /\ d \in [Names -> [Forks -> Files \cup {NoFile}]]
  /\ \A m \in Names, g \in Forks : d[m][g] = NoFile \/ d[m][g] \in Entries \X {g}
  /\ \A m \in Names, g \in Forks : m # n \/ g # f => d[m][g] = disk[m][g]
  /\ d[n][f] = IF disk[n][f] = NoFile THEN <<e, f>> ELSE disk[n][f]

LEMMA NewFile ==
  ASSUME Types, NEW e \in Entries, NEW n \in Names, NEW f \in Forks
  PROVE  DiskWith(WithFile(e, n, f), e, n, f)
<1> DEFINE d == WithFile(e, n, f)
<1>0. d = IF disk[n][f] = NoFile THEN [disk EXCEPT ![n][f] = <<e, f>>] ELSE disk
  BY DEF WithFile
<1> HIDE DEF d
<1>1. disk \in [Names -> [Forks -> Files \cup {NoFile}]]
      /\ \A m \in Names, g \in Forks : disk[m][g] = NoFile \/ disk[m][g] \in Entries \X {g}
  BY DEF Types
<1>2. CASE disk[n][f] # NoFile
  BY <1>0, <1>1, <1>2 DEF d, DiskWith
<1>3. CASE disk[n][f] = NoFile
  <2>1. d = [disk EXCEPT ![n][f] = <<e, f>>] /\ <<e, f>> \in Files /\ <<e, f>> \in Entries \X {f}
    BY <1>0, <1>3 DEF Files
  <2>2. d \in [Names -> [Forks -> Files \cup {NoFile}]]
    BY <1>1, <2>1
  <2>3. d[n][f] = <<e, f>> /\ \A m \in Names, g \in Forks : m # n \/ g # f => d[m][g] = disk[m][g]
    BY <1>1, <2>1
  <2> QED BY <1>1, <1>3, <2>1, <2>2, <2>3 DEF d, DiskWith
<1> QED BY <1>2, <1>3

\* The identifiers of the files do not change as long as the main files do not.
LEMMA IdsKept ==
  ASSUME Inv, UNCHANGED <<ent, hdr, nextId, killed>>,
         \A m \in Names : DiskId(m)' \in {DiskId(m), 0}
  PROVE  killed \/ IdsUnique'
<1> SUFFICES ASSUME IdsUnique PROVE IdsUnique'
  BY DEF Inv, IdsOK
<1>1. \A m \in Names, e \in Entries : ent[e].id # 0 /\ DiskId(m)' = ent[e].id => ent[e].name = m
  BY DEF IdsUnique
<1>2. \A n, m \in Names : DiskId(n)' # 0 /\ DiskId(n)' = DiskId(m)' => n = m
  BY DEF IdsUnique
<1> QED BY <1>1, <1>2 DEF IdsUnique

LEMMA CreateMainInv ==
  ASSUME Inv, NEW w \in Sessions, CreateMain(w) PROVE Inv'
<1>0. Types /\ Ring(sm) /\ s[w].pc = "main" /\ s[w].pc \in Locked /\ "group" \in Pcs
      /\ "group" \in Locked \ {"main", "loadmain"} /\ "main" \in Forks /\ "group" \in Forks
      /\ "group" \notin Loading
  BY PcsAre DEF Inv, CreateMain, At, Locked, Creating, Loading, Forks
<1>1. PICK e \in Entries, n \in Names : Holds(w, e, n)
  BY <1>0, HoldsIs
<1>2. e = s[w].e /\ n = s[w].name /\ e = allocated
  BY <1>1 DEF Holds
<1> DEFINE m == MainVF(e)  g == GroupVF(e)
           new == disk[n]["main"] = NoFile
           file == IF new THEN m ELSE Closed
<1>9. Fresh(e)
  <2>1. FilesOf(w)
    BY DEF Inv, OwnFiles
  <2> QED BY <1>0, <1>2, <2>1 DEF FilesOf
<1>g. PICK M : M = GetVFec(sm, e, "main") /\ Gets(sm, M, e)
  BY <1>0, GetVFecIs DEF Types
<1>v. VFOf(M, e, "main") = m /\ M.pfh[m] = Closed
  <2>1. M \in SmgrStates /\ Ring(M) /\ M.head[e] = m
    <3>1. sm.head \in [Entries -> Nodes \cup {NoVF}]
      BY <1>0, FieldTypes DEF Types
    <3> QED BY <1>g, <3>1 DEF Gets
  <2>2. M.pfh[m] \in {sm.pfh[m], Closed}
    BY <1>g, NodeFacts DEF Gets
  <2> QED BY <1>9, <2>1, <2>2, VFOfIs DEF Fresh
<1>3. /\ Smgr(w, AddFileToSmgrContext(M, m, file))
      /\ disk' = IF new THEN [disk EXCEPT ![n]["main"] = m] ELSE disk
      /\ Goto(w, "group")
      /\ UNCHANGED <<ent, lnext, lprev, dictLock, hdr, nextId, savedId, allocated, started, killed>>
  BY <1>2, <1>g, <1>v DEF CreateMain, TableCreate, SameList, SameRun, MainVF
<1>4. m \in Nodes /\ g \in Nodes /\ m # g /\ m # NoFile /\ m # Closed
  BY NodeFacts, SmgrAssumption DEF MainVF, GroupVF, NoFile
<1>5. Becomes(w, "group", s[w].op, n, e, s[w].vf, s[w].ok)
  BY <1>0, <1>2, <1>3, GotoIs
<1>6. s'[w].pc = "group" /\ s'[w].e = e /\ s'[w].name = n
  BY <1>5 DEF Becomes
<1>7. /\ sm' \in SmgrStates /\ Ring(sm') /\ sm'.head = [sm.head EXCEPT ![e] = m]
      /\ sm'.pfh[m] = file
      /\ \A v \in Nodes : v # m => sm'.pfh[v] \in {sm.pfh[v], Closed}
  <2>1. file \in Files \cup {Closed}
    BY NodeFacts
  <2> HIDE DEF file
  <2>3. Types /\ m \in Nodes /\ g \in Nodes
    BY <1>0, <1>4
  <2>4. Smgr(w, AddFileToSmgrContext(M, m, file))
    BY <1>3
  <2> HIDE DEF m, g
  <2>5. Gives(e, m, file)
    BY <1>g, <2>1, <2>3, <2>4, CreateSmgr
  <2> QED BY <2>5 DEF Gives, m
<1>8. /\ disk' \in [Names -> [Forks -> Files \cup {NoFile}]]
      /\ \A k \in Names, f \in Forks : disk'[k][f] = NoFile \/ disk'[k][f] \in Entries \X {f}
      /\ \A k \in Names, f \in Forks : k # n \/ f # "main" => disk'[k][f] = disk[k][f]
      /\ disk'[n]["main"] = IF new THEN m ELSE disk[n]["main"]
  <2>1. disk' = WithFile(e, n, "main")
    BY <1>3 DEF WithFile, MainVF
  <2>2. DiskWith(disk', e, n, "main")
    BY <1>0, <2>1, NewFile
  <2> QED BY <2>2 DEF DiskWith, MainVF
<1>10. NotOnDisk(e, "group")' /\ \A k \in Names : disk'[k]["main"] = m => k = n
  <2>1. NotOnDisk(e, "main") /\ NotOnDisk(e, "group")
    BY <1>9 DEF Fresh
  <2>2. \A k \in Names : disk[k]["main"] # m /\ disk[k]["group"] # <<e, "group">>
    BY <2>1 DEF NotOnDisk, MainVF
  <2>3. \A k \in Names : disk'[k]["group"] # <<e, "group">>
    BY <1>8, <2>2 DEF Forks
  <2>4. \A k \in Names : disk'[k]["main"] = m => k = n
    BY <1>8, <2>2 DEF Forks
  <2> QED BY <2>3, <2>4 DEF NotOnDisk
<1>11. OnlyFilesOf(e)
  <2> SUFFICES ASSUME NEW d \in Entries \ {e}
               PROVE  /\ sm'.pfh[MainVF(d)] \in {sm.pfh[MainVF(d)], Closed}
                      /\ sm'.pfh[GroupVF(d)] \in {sm.pfh[GroupVF(d)], Closed}
                      /\ NotOnDisk(d, "main") => NotOnDisk(d, "main")'
                      /\ NotOnDisk(d, "group") => NotOnDisk(d, "group")'
    BY <1>3 DEF OnlyFilesOf
  <2>1. MainVF(d) \in Nodes /\ GroupVF(d) \in Nodes /\ MainVF(d) # m /\ GroupVF(d) # m
    BY NodeFacts DEF MainVF, GroupVF
  <2>2. sm'.pfh[MainVF(d)] \in {sm.pfh[MainVF(d)], Closed}
        /\ sm'.pfh[GroupVF(d)] \in {sm.pfh[GroupVF(d)], Closed}
    BY <1>7, <2>1
  <2>3. NotOnDisk(d, "group") => NotOnDisk(d, "group")'
    BY <1>0, <1>8 DEF NotOnDisk
  <2>4. ASSUME NotOnDisk(d, "main") PROVE NotOnDisk(d, "main")'
    <3> SUFFICES ASSUME NEW k \in Names PROVE disk'[k]["main"] # MainVF(d)
      BY DEF NotOnDisk, MainVF
    <3>1. disk[k]["main"] # MainVF(d)
      BY <2>4 DEF NotOnDisk, MainVF
    <3>2. disk'[k]["main"] = disk[k]["main"] \/ disk'[k]["main"] = m
      BY <1>0, <1>8
    <3> QED BY <2>1, <3>1, <3>2
  <2> QED BY <2>2, <2>3, <2>4
<1>12. FilesOf(w)'
  <2>1. sm.pfh[g] = Closed /\ hdr[m] = 0 /\ hdr[g] = 0
    BY <1>9 DEF Fresh
  <2>2. sm'.pfh[m] \in {Closed, m} /\ sm'.pfh[g] = Closed
    BY <1>4, <1>7, <2>1
  <2>3. NotOnDisk(s[w].e, "group")'
    BY <1>6, <1>10 DEF NotOnDisk
  <2> HIDE DEF NotOnDisk
  <2> QED BY <1>3, <1>6, <2>1, <2>2, <2>3 DEF FilesOf
<1>13. IdOf(w)'
  <2>1. ent[e].id # 0
    <3>1. IdOf(w)
      BY DEF Inv, IdsOK
    <3> QED BY <1>0, <1>2, <3>1 DEF IdOf, Creating
  <2> QED BY <1>3, <1>6, <1>10, <2>1 DEF IdOf
<1>14. WholeOf(w)'
  <2>1. sm'.pfh[m] # Closed => disk'[n]["main"] = m
    BY <1>7, <1>8
  <2> QED BY <1>6, <2>1 DEF WholeOf
<1>15. killed \/ IdsUnique'
  <2>1. \A k \in Names : DiskId(k)' \in {DiskId(k), 0}
    <3>1. hdr[m] = 0
      BY <1>9 DEF Fresh
    <3> QED BY <1>0, <1>3, <1>4, <1>8, <3>1 DEF DiskId
  <2> QED BY <1>3, <2>1, IdsKept
<1>16. ent \in [Entries -> EntryStates] /\ hdr \in [Files -> Nat]
  BY <1>0 DEF Types
<1> HIDE DEF file, new
<1> QED BY <1>0, <1>1, <1>3, <1>5, <1>7, <1>8, <1>11, <1>12, <1>13, <1>14, <1>15, <1>16, OwnStepInv

LEMMA CreateGroupInv ==
  ASSUME Inv, NEW w \in Sessions, CreateGroup(w), ~headLost' PROVE Inv'
<1>0. Types /\ Ring(sm) /\ s[w].pc = "group" /\ s[w].pc \in Locked /\ "maininit" \in Pcs
      /\ "maininit" \in Locked \ {"main", "loadmain"} /\ "main" \in Forks /\ "group" \in Forks
      /\ "maininit" \notin Loading
  BY PcsAre DEF Inv, CreateGroup, At, Locked, Creating, Loading, Forks
<1>1. PICK e \in Entries, n \in Names : Holds(w, e, n)
  BY <1>0, HoldsIs
<1>2. e = s[w].e /\ n = s[w].name /\ e = allocated
  BY <1>1 DEF Holds
<1> DEFINE m == MainVF(e)  g == GroupVF(e)
           new == disk[n]["group"] = NoFile
           file == IF new THEN g ELSE Closed
<1>h. sm.head[e] = m
  <2>1. EntryOf(w)
    BY DEF Inv, SessionEntries
  <2> QED BY <1>0, <1>2, <2>1 DEF EntryOf
<1>f. sm.pfh[g] = Closed
  <2>1. FilesOf(w)
    BY DEF Inv, OwnFiles
  <2> QED BY <1>0, <1>2, <2>1 DEF FilesOf
<1>g. PICK M : M = GetVFec(sm, e, "group") /\ Gets(sm, M, e) /\ Both(M, e)
  <2>1. ~LosesHead(sm, e, "group")
    BY <1>2 DEF CreateGroup, TableCreate
  <2> QED BY <1>0, <1>h, <2>1, GetVFecIs DEF Types
<1>v. VFOf(M, e, "group") = g /\ M.pfh[g] = Closed
  <2>1. M \in SmgrStates /\ Ring(M) /\ M.head[e] = m
    <3>1. sm.head \in [Entries -> Nodes \cup {NoVF}]
      BY <1>0, FieldTypes DEF Types
    <3> QED BY <1>g, <3>1 DEF Gets
  <2>2. M.pfh[g] \in {sm.pfh[g], Closed}
    BY <1>g, NodeFacts DEF Gets
  <2> QED BY <1>f, <1>g, <2>1, <2>2, VFOfIs
<1>3. /\ Smgr(w, AddFileToSmgrContext(M, g, file))
      /\ disk' = IF new THEN [disk EXCEPT ![n]["group"] = g] ELSE disk
      /\ Goto(w, "maininit")
      /\ UNCHANGED <<ent, lnext, lprev, dictLock, hdr, nextId, savedId, allocated, started, killed>>
  BY <1>2, <1>g, <1>v DEF CreateGroup, TableCreate, SameList, SameRun, GroupVF
<1>4. m \in Nodes /\ g \in Nodes /\ m # g /\ g # NoFile /\ g # Closed
  BY NodeFacts, SmgrAssumption DEF MainVF, GroupVF, NoFile
<1>5. Becomes(w, "maininit", s[w].op, n, e, s[w].vf, s[w].ok)
  BY <1>0, <1>2, <1>3, GotoIs
<1>6. s'[w].pc = "maininit" /\ s'[w].e = e /\ s'[w].name = n
      /\ \A x \in Sessions \ {w} : s'[x] = s[x]
  BY <1>5 DEF Becomes
<1>7. /\ sm' \in SmgrStates /\ Ring(sm') /\ sm'.head = [sm.head EXCEPT ![e] = m]
      /\ sm'.pfh[g] = file
      /\ \A v \in Nodes : v # g => sm'.pfh[v] \in {sm.pfh[v], Closed}
      /\ Both(sm', e)
  <2>1. file \in Files \cup {Closed}
    BY NodeFacts
  <2> HIDE DEF file
  <2>3. Types /\ m \in Nodes /\ g \in Nodes
    BY <1>0, <1>4
  <2>4. Smgr(w, AddFileToSmgrContext(M, g, file))
    BY <1>3
  <2> HIDE DEF m, g
  <2>5. Gives(e, g, file) /\ Both(sm', e)
    BY <1>g, <2>1, <2>3, <2>4, CreateSmgr
  <2> QED BY <2>5 DEF Gives, m
<1>8. /\ disk' \in [Names -> [Forks -> Files \cup {NoFile}]]
      /\ \A k \in Names, f \in Forks : disk'[k][f] = NoFile \/ disk'[k][f] \in Entries \X {f}
      /\ \A k \in Names, f \in Forks : k # n \/ f # "group" => disk'[k][f] = disk[k][f]
      /\ disk'[n]["group"] = IF new THEN g ELSE disk[n]["group"]
  <2>1. disk' = WithFile(e, n, "group")
    BY <1>3 DEF WithFile, GroupVF
  <2>2. DiskWith(disk', e, n, "group")
    BY <1>0, <2>1, NewFile
  <2> QED BY <2>2 DEF DiskWith, GroupVF
<1>9. sm.pfh[m] \in {Closed, m} /\ hdr[m] = 0 /\ hdr[g] = 0
  <2>1. FilesOf(w)
    BY DEF Inv, OwnFiles
  <2> QED BY <1>0, <1>2, <2>1 DEF FilesOf
<1>10. \A k \in Names : disk'[k]["main"] = disk[k]["main"]
  BY <1>0, <1>8
<1>11. OnlyFilesOf(e)
  <2> SUFFICES ASSUME NEW d \in Entries \ {e}
               PROVE  /\ sm'.pfh[MainVF(d)] \in {sm.pfh[MainVF(d)], Closed}
                      /\ sm'.pfh[GroupVF(d)] \in {sm.pfh[GroupVF(d)], Closed}
                      /\ NotOnDisk(d, "main") => NotOnDisk(d, "main")'
                      /\ NotOnDisk(d, "group") => NotOnDisk(d, "group")'
    BY <1>3 DEF OnlyFilesOf
  <2>1. MainVF(d) \in Nodes /\ GroupVF(d) \in Nodes /\ MainVF(d) # g /\ GroupVF(d) # g
    BY NodeFacts DEF MainVF, GroupVF
  <2>2. sm'.pfh[MainVF(d)] \in {sm.pfh[MainVF(d)], Closed}
        /\ sm'.pfh[GroupVF(d)] \in {sm.pfh[GroupVF(d)], Closed}
    BY <1>7, <2>1
  <2>3. NotOnDisk(d, "main") => NotOnDisk(d, "main")'
    BY <1>0, <1>8 DEF NotOnDisk
  <2>4. ASSUME NotOnDisk(d, "group") PROVE NotOnDisk(d, "group")'
    <3> SUFFICES ASSUME NEW k \in Names PROVE disk'[k]["group"] # GroupVF(d)
      BY DEF NotOnDisk, GroupVF
    <3>1. disk[k]["group"] # GroupVF(d)
      BY <2>4 DEF NotOnDisk, GroupVF
    <3>2. disk'[k]["group"] = disk[k]["group"] \/ disk'[k]["group"] = g
      BY <1>0, <1>8
    <3> QED BY <2>1, <3>1, <3>2
  <2> QED BY <2>2, <2>3, <2>4
<1>12. FilesOf(w)'
  <2>1. sm'.pfh[m] \in {Closed, m} /\ sm'.pfh[g] \in {Closed, g}
    BY <1>4, <1>7, <1>9
  <2>2. Both(sm, s[w].e)'
    BY <1>6, <1>7 DEF Both
  <2> HIDE DEF Both
  <2> QED BY <1>3, <1>6, <1>9, <2>1, <2>2 DEF FilesOf
<1>13. IdOf(w)'
  <2>1. ent[e].id # 0 /\ \A k \in Names : disk[k]["main"] = m => k = n
    <3>1. IdOf(w)
      BY DEF Inv, IdsOK
    <3> QED BY <1>0, <1>2, <3>1 DEF IdOf, Creating
  <2> QED BY <1>3, <1>6, <1>10, <2>1 DEF IdOf
<1>14. WholeOf(w)'
  <2>1. sm'.pfh[g] # Closed => disk'[n]["group"] = g
    BY <1>7, <1>8
  <2>2. sm'.pfh[m] # Closed => disk[n]["main"] = m \/ BeingDropped(n)
    <3>1. WholeOf(w)
      BY DEF Inv, WholeSoFar
    <3>2. sm'.pfh[m] # Closed => sm.pfh[m] # Closed
      BY <1>4, <1>7
    <3> QED BY <1>0, <1>2, <3>1, <3>2 DEF WholeOf
  <2>3. BeingDropped(n) => BeingDropped(n)'
    <3>1. \A x \in ListIds : InList(x) => InList(x)'
      BY <1>3 DEF InList
    <3> QED BY <1>0, <1>6, <3>1, LockedDropped
  <2>4. sm'.pfh[m] # Closed => disk'[n]["main"] = m \/ BeingDropped(s[w].name)'
    BY <1>6, <1>10, <2>2, <2>3 DEF BeingDropped
  <2> HIDE DEF BeingDropped
  <2> QED BY <1>6, <2>1, <2>4 DEF WholeOf
<1>15. killed \/ IdsUnique'
  <2>1. \A k \in Names : DiskId(k)' \in {DiskId(k), 0}
    BY <1>3, <1>10 DEF DiskId
  <2> QED BY <1>3, <2>1, IdsKept
<1>16. ent \in [Entries -> EntryStates] /\ hdr \in [Files -> Nat]
  BY <1>0 DEF Types
<1> HIDE DEF file, new
<1> QED BY <1>0, <1>1, <1>3, <1>5, <1>7, <1>8, <1>11, <1>12, <1>13, <1>14, <1>15, <1>16, OwnStepInv

\* A write of a header page of the entry: what TableWrite does.
WritesOwn(w, M, f, v) ==
  \/ ~Writable(w, M, f) /\ TableWrite(w, M, f) = hdr
  \/ /\ Writable(w, M, f) /\ M.pfh[v] = v
     /\ TableWrite(w, M, f) = [hdr EXCEPT ![v] = ent[s[w].e].id]

LEMMA TableWriteIs ==
  ASSUME NEW w \in Sessions, s[w].e \in Entries, NEW f \in Forks, NEW v, v = <<s[w].e, f>>,
         NEW M \in SmgrStates, Ring(M), M.pfh[v] \in {Closed, v}
  PROVE  WritesOwn(w, M, f, v)
<1> DEFINE x == VFOf(M, s[w].e, f)
<1>1. x \in {NoVF, v}
  BY FindsOwn DEF VFOf
<1>2. TableWrite(w, M, f) = IF x = NoVF \/ M.pfh[x] = Closed THEN hdr
                            ELSE [hdr EXCEPT ![M.pfh[x]] = ent[s[w].e].id]
  BY DEF TableWrite
<1>3. Writable(w, M, f) <=> x # NoVF /\ M.pfh[x] # Closed
  BY DEF Writable
<1> HIDE DEF x
<1>4. CASE x = NoVF \/ M.pfh[x] = Closed
  BY <1>2, <1>3, <1>4 DEF WritesOwn
<1>5. CASE x # NoVF /\ M.pfh[x] # Closed
  <2>1. x = v /\ M.pfh[x] = v
    BY <1>1, <1>5
  <2> QED BY <1>2, <1>3, <1>5, <2>1 DEF WritesOwn
<1> QED BY <1>4, <1>5

\* The header page of a file of the entry is written.
Writes(e, v) == hdr' = [hdr EXCEPT ![v] = ent[e].id]

LEMMA WritesIs ==
  ASSUME Types, NEW e \in Entries, NEW v \in Files, Writes(e, v)
  PROVE  /\ hdr' \in [Files -> Nat] /\ hdr'[v] = ent[e].id
         /\ \A i \in Files : i # v => hdr'[i] = hdr[i]
<1>1. hdr \in [Files -> Nat] /\ ent[e].id \in Nat
  BY DEF Types, EntryStates
<1> QED BY <1>1 DEF Writes

\* The header pages of the files of entry e are written, and no other ones.
LEMMA OnlyHeadersOf ==
  ASSUME NEW e \in Entries, NEW v \in {MainVF(e), GroupVF(e)}, UNCHANGED disk,
         \A x \in Files : x # v => hdr'[x] = hdr[x],
         \A x \in Nodes : x # MainVF(e) => sm'.pfh[x] = sm.pfh[x]
  PROVE  OnlyFilesOf(e)
<1> SUFFICES ASSUME NEW d \in Entries \ {e}
             PROVE  /\ sm'.pfh[MainVF(d)] = sm.pfh[MainVF(d)]
                    /\ sm'.pfh[GroupVF(d)] = sm.pfh[GroupVF(d)]
                    /\ hdr'[MainVF(d)] = hdr[MainVF(d)] /\ hdr'[GroupVF(d)] = hdr[GroupVF(d)]
  BY DEF OnlyFilesOf, NotOnDisk
<1>1. /\ MainVF(d) \in Nodes /\ GroupVF(d) \in Nodes
      /\ MainVF(d) \in Files /\ GroupVF(d) \in Files
      /\ MainVF(d) # MainVF(e) /\ MainVF(d) # GroupVF(e)
      /\ GroupVF(d) # MainVF(e) /\ GroupVF(d) # GroupVF(e)
  BY NodeFacts DEF MainVF, GroupVF
<1> QED BY <1>1

\* The header pages are written while both descriptors of the new table are found.
LEMMA MainSearched ==
  ASSUME Inv, NEW w \in Sessions, s[w].pc = "maininit"
  PROVE  Searched(w, sm, "main") = sm
<1>1. s[w].pc \in Locked \ {"main", "loadmain"}
  BY DEF Locked, Creating
<1>2. s[w].e \in Entries /\ sm.head[s[w].e] = MainVF(s[w].e) /\ sm \in SmgrStates /\ Ring(sm)
  BY <1>1 DEF Inv, SessionEntries, EntryOf, Types
<1> QED BY <1>2, VFOfIs, NodeFacts DEF Searched

LEMMA GroupSearched ==
  ASSUME Inv, NEW w \in Sessions, s[w].pc = "groupinit", NEW M,
         M = OpenVF(sm, MainVF(s[w].e), "main", s[w].name)
  PROVE  /\ M \in SmgrStates /\ Ring(M) /\ M.head = sm.head
         /\ \A x \in Nodes : x # MainVF(s[w].e) => M.pfh[x] = sm.pfh[x]
         /\ smgr_open(sm, s[w].e, "main", s[w].name) = M
         /\ VFOf(M, s[w].e, "main") = MainVF(s[w].e)
         /\ Searched(w, M, "group") = M
<1>1. s[w].pc \in Locked \ {"main", "loadmain"} /\ "main" \in Forks
  BY DEF Locked, Creating, Forks
<1>2. PICK e \in Entries, n \in Names : e = s[w].e /\ n = s[w].name /\ sm.head[e] = MainVF(e)
  BY <1>1 DEF Inv, SessionEntries, EntryOf
<1>3. Both(sm, e) /\ sm \in SmgrStates /\ Ring(sm) /\ Types
  BY <1>2 DEF Inv, OwnFiles, FilesOf, Types
<1>4. MainVF(e) \in Nodes
  BY NodeFacts
<1>5. M = OpenVF(sm, MainVF(e), "main", n)
  BY <1>2
<1>6. /\ M \in SmgrStates /\ Ring(M) /\ M.head = sm.head /\ Both(M, e)
      /\ \A x \in Nodes : x # MainVF(e) => M.pfh[x] = sm.pfh[x]
  BY <1>1, <1>3, <1>4, <1>5, OpenIs DEF Both
<1>7. VFOf(sm, e, "main") = MainVF(e) /\ MainVF(e) # NoVF
  BY <1>2, <1>3, VFOfIs, NodeFacts
<1>8. smgr_open(sm, e, "main", n) = M
  BY <1>5, <1>7 DEF smgr_open, GetVFec, OpenVF
<1>9. VFOf(M, e, "main") = MainVF(e) /\ VFOf(M, e, "group") = GroupVF(e)
  BY <1>2, <1>6, VFOfIs
<1>10. Searched(w, M, "group") = M
  BY <1>2, <1>9, NodeFacts DEF Searched
<1> QED BY <1>2, <1>6, <1>8, <1>9, <1>10

LEMMA MainInitInv ==
  ASSUME Inv, NEW w \in Sessions, TableFileMainInit(w) PROVE Inv'
<1>0. Types /\ Ring(sm) /\ s[w].pc = "maininit" /\ s[w].pc \in Locked /\ "groupinit" \in Pcs
      /\ "groupinit" \in Locked \ {"main", "loadmain"} /\ "main" \in Forks /\ "group" \in Forks
      /\ "groupinit" \notin Loading /\ sm \in SmgrStates
  BY PcsAre DEF Inv, TableFileMainInit, At, Locked, Creating, Loading, Forks, Types
<1>1. PICK e \in Entries, n \in Names : Holds(w, e, n)
  BY <1>0, HoldsIs
<1>2. e = s[w].e /\ n = s[w].name /\ e = allocated /\ ent[e].name = n
  BY <1>1 DEF Holds
<1> DEFINE m == MainVF(e)  g == GroupVF(e)
           ok == Writable(w, sm, "main")
           r == [s[w] EXCEPT !.pc = "groupinit", !.ok = ok]
<1>h. sm.head[e] = m /\ Both(sm, e)
  <2>1. EntryOf(w) /\ FilesOf(w)
    BY DEF Inv, SessionEntries, OwnFiles
  <2> QED BY <1>0, <1>2, <2>1 DEF EntryOf, FilesOf
<1>v. Searched(w, sm, "main") = sm
  BY <1>0, MainSearched
<1>3. /\ hdr' = TableWrite(w, sm, "main")
      /\ UNCHANGED <<ent, lnext, lprev, dictLock, disk, nextId, savedId, allocated, started, killed>>
  BY <1>v DEF TableFileMainInit, SameList, Same
<1>r. s' = [s EXCEPT ![w] = r]
  BY <1>v DEF TableFileMainInit
<1>8. /\ sm' \in SmgrStates /\ Ring(sm') /\ sm'.head = sm.head /\ sm'.pfh = sm.pfh
      /\ Both(sm', e)
  <2>1. Smgr(w, sm)
    BY <1>v DEF TableFileMainInit
  <2>2. sm' \in SmgrStates /\ Ring(sm') /\ sm'.head = sm.head /\ sm'.pfh = sm.pfh
        /\ sm'.next = sm.next
    BY <1>0, <2>1, SmgrStep
  <2> QED BY <1>h, <2>2 DEF Both
<1>4. m \in Nodes /\ g \in Nodes /\ m # g /\ m # NoFile /\ m # Closed
  BY NodeFacts, SmgrAssumption DEF MainVF, GroupVF, NoFile
<1>b. ok \in BOOLEAN
  BY DEF Writable
<1>9. sm.pfh[m] \in {Closed, m} /\ hdr[m] = 0 /\ hdr[g] = 0 /\ sm.pfh[g] \in {Closed, g}
  <2>1. FilesOf(w)
    BY DEF Inv, OwnFiles
  <2> QED BY <1>0, <1>2, <2>1 DEF FilesOf
<1>10. \/ ~ok /\ hdr' = hdr
       \/ ok /\ sm.pfh[m] = m /\ Writes(e, m)
  <2>1. s[w].e \in Entries /\ m = <<s[w].e, "main">>
    BY <1>2 DEF MainVF
  <2>2. WritesOwn(w, sm, "main", m)
    <3> HIDE DEF m
    <3> QED BY <1>0, <1>9, <2>1, TableWriteIs
  <2> QED BY <1>2, <1>3, <2>2 DEF Writes, WritesOwn
<1> HIDE DEF ok
<1>5. Becomes(w, "groupinit", s[w].op, n, e, s[w].vf, ok)
  <2>1. s[w] \in SessionStates
    BY <1>0 DEF Types
  <2>2. r \in SessionStates /\ r.pc = "groupinit" /\ r.op = s[w].op /\ r.name = n /\ r.e = e
        /\ r.vf = s[w].vf /\ r.ok = ok
    BY <1>0, <1>2, <1>b, <2>1 DEF SessionStates
  <2> HIDE DEF r
  <2>3. Becomes(w, r.pc, r.op, r.name, r.e, r.vf, r.ok)
    BY <1>0, <1>r, <2>2, BecomesIs
  <2> QED BY <2>2, <2>3
<1>6. s'[w].pc = "groupinit" /\ s'[w].e = e /\ s'[w].name = n /\ s'[w].ok = ok
      /\ \A x \in Sessions \ {w} : s'[x] = s[x]
  BY <1>5 DEF Becomes
<1>11. /\ hdr' \in [Files -> Nat] /\ hdr'[m] \in {hdr[m], ent[e].id}
       /\ ok => hdr'[m] = ent[e].id
       /\ \A i \in Files : i # m => hdr'[i] = hdr[i]
  <2>1. hdr \in [Files -> Nat]
    BY <1>0 DEF Types
  <2>2. CASE ~ok /\ hdr' = hdr
    BY <2>1, <2>2
  <2>3. CASE ok /\ Writes(e, m)
    BY <1>0, <2>3, WritesIs, NodeFacts
  <2> QED BY <1>10, <2>2, <2>3
<1>i. ent[e].id # 0 /\ \A k \in Names : disk[k]["main"] = m => k = n
  <2>1. IdOf(w)
    BY DEF Inv, IdsOK
  <2> QED BY <1>0, <1>2, <2>1 DEF IdOf, Creating
<1>12. FilesOf(w)'
  <2>1. Both(sm, s[w].e)'
    BY <1>6, <1>8 DEF Both
  <2>2. hdr'[g] = 0
    BY <1>4, <1>9, <1>11, NodeFacts
  <2> HIDE DEF Both
  <2> QED BY <1>6, <1>8, <1>9, <2>1, <2>2 DEF FilesOf
<1>13. IdOf(w)'
  BY <1>3, <1>6, <1>i DEF IdOf
<1>14. WholeOf(w)'
  <2>1. WholeOf(w)
    BY DEF Inv, WholeSoFar
  <2>2. /\ sm.pfh[g] # Closed => disk[n]["group"] = g \/ BeingDropped(n)
        /\ ok => disk[n]["main"] = m \/ BeingDropped(n)
    BY <1>0, <1>2, <1>4, <1>10, <2>1 DEF WholeOf
  <2>3. BeingDropped(n) => BeingDropped(n)'
    <3>1. \A x \in ListIds : InList(x) => InList(x)'
      BY <1>3 DEF InList
    <3> QED BY <1>0, <1>6, <3>1, LockedDropped
  <2>4. BeingDropped(n)' => BeingDropped(s[w].name)'
    BY <1>6 DEF BeingDropped
  <2> HIDE DEF BeingDropped
  <2> QED BY <1>3, <1>6, <1>8, <1>11, <2>2, <2>3, <2>4 DEF WholeOf
<1>15. killed \/ IdsUnique'
  <2> SUFFICES ASSUME IdsUnique PROVE IdsUnique'
    BY DEF Inv, IdsOK
  <2>1. \A k \in Names : DiskId(k)' = DiskId(k) \/ (k = n /\ DiskId(k)' = ent[e].id)
    <3> SUFFICES ASSUME NEW k \in Names
                 PROVE  DiskId(k)' = DiskId(k) \/ (k = n /\ DiskId(k)' = ent[e].id)
      OBVIOUS
    <3>1. disk[k]["main"] = NoFile \/ disk[k]["main"] \in Files
      BY <1>0 DEF Types
    <3>2. CASE disk[k]["main"] = m
      BY <1>3, <1>4, <1>11, <1>i, <3>2 DEF DiskId
    <3>3. CASE disk[k]["main"] # m
      BY <1>3, <1>11, <3>1, <3>3 DEF DiskId
    <3> QED BY <3>2, <3>3
  <2>2. \A i \in Files : hdr'[i] < nextId'
    BY <1>3, <1>11 DEF IdsUnique
  <2>3. \A k \in Names, d \in Entries : ent'[d].id # 0 /\ DiskId(k)' = ent'[d].id => ent'[d].name = k
    BY <1>2, <1>3, <2>1 DEF IdsUnique
  <2>4. \A k, l \in Names : DiskId(k)' # 0 /\ DiskId(k)' = DiskId(l)' => k = l
    BY <1>2, <2>1 DEF IdsUnique
  <2> QED BY <1>3, <2>2, <2>3, <2>4 DEF IdsUnique
<1>16. ent \in [Entries -> EntryStates]
       /\ disk \in [Names -> [Forks -> Files \cup {NoFile}]]
       /\ \A k \in Names, f \in Forks : disk[k][f] = NoFile \/ disk[k][f] \in Entries \X {f}
  BY <1>0 DEF Types
<1>17. OnlyFilesOf(e)
  BY <1>3, <1>8, <1>11, OnlyHeadersOf
<1>18. sm'.head = [sm.head EXCEPT ![e] = m]
  BY <1>0, <1>8, <1>h, FieldTypes
<1> QED BY <1>0, <1>1, <1>3, <1>5, <1>8, <1>11, <1>12, <1>13, <1>14, <1>15, <1>16, <1>17, <1>18, OwnStepInv

LEMMA GroupInitInv ==
  ASSUME Inv, NEW w \in Sessions, TableFileGroupInit(w) PROVE Inv'
<1>0. Types /\ Ring(sm) /\ s[w].pc = "groupinit" /\ s[w].pc \in Locked /\ "link" \in Pcs
      /\ "link" \in Locked \ {"main", "loadmain"} /\ "main" \in Forks /\ "group" \in Forks
      /\ "link" \notin Loading /\ sm \in SmgrStates
  BY PcsAre DEF Inv, TableFileGroupInit, At, Locked, Creating, Loading, Forks, Types
<1>1. PICK e \in Entries, n \in Names : Holds(w, e, n)
  BY <1>0, HoldsIs
<1>2. e = s[w].e /\ n = s[w].name /\ e = allocated /\ ent[e].name = n
  BY <1>1 DEF Holds
<1> DEFINE m == MainVF(e)  g == GroupVF(e)
           M == OpenVF(sm, m, "main", n)
           read == HeaderRead(M, m)
           ok == s[w].ok /\ read /\ Writable(w, M, "group")
           r == [s[w] EXCEPT !.pc = "link", !.ok = ok]
<1>h. sm.head[e] = m
  <2>1. EntryOf(w)
    BY DEF Inv, SessionEntries
  <2> QED BY <1>0, <1>2, <2>1 DEF EntryOf
<1>7. /\ M \in SmgrStates /\ Ring(M) /\ M.head = sm.head
      /\ \A x \in Nodes : x # m => M.pfh[x] = sm.pfh[x]
      /\ smgr_open(sm, e, "main", n) = M
      /\ VFOf(M, e, "main") = m
      /\ Searched(w, M, "group") = M
  <2>1. M = OpenVF(sm, MainVF(s[w].e), "main", s[w].name)
    BY <1>2
  <2> HIDE DEF M
  <2> QED BY <1>0, <1>2, <2>1, GroupSearched
<1>3. /\ hdr' = IF read THEN TableWrite(w, M, "group") ELSE hdr
      /\ Smgr(w, M)
      /\ UNCHANGED <<ent, lnext, lprev, dictLock, disk, nextId, savedId, allocated, started, killed>>
  <2> HIDE DEF M, m
  <2> QED BY <1>2, <1>7 DEF TableFileGroupInit, SameList, Same
<1>r. s' = [s EXCEPT ![w] = r]
  <2> HIDE DEF M, m
  <2> QED BY <1>2, <1>7 DEF TableFileGroupInit
<1>4. m \in Nodes /\ g \in Nodes /\ m # g /\ g # NoFile /\ g # Closed
  BY NodeFacts, SmgrAssumption DEF MainVF, GroupVF, NoFile
<1>b. ok \in BOOLEAN /\ read \in BOOLEAN
  BY <1>0, SessionFields DEF Writable, HeaderRead
<1>9. hdr[g] = 0 /\ sm.pfh[g] \in {Closed, g}
  <2>1. FilesOf(w)
    BY DEF Inv, OwnFiles
  <2> QED BY <1>0, <1>2, <2>1 DEF FilesOf
<1> HIDE DEF M
<1>8. /\ sm' \in SmgrStates /\ Ring(sm') /\ sm'.head = sm.head
      /\ \A x \in Nodes : x # m => sm'.pfh[x] = sm.pfh[x]
  <2>1. sm' \in SmgrStates /\ Ring(sm') /\ sm'.head = M.head /\ sm'.pfh = M.pfh
    BY <1>0, <1>3, <1>7, SmgrStep
  <2> QED BY <1>7, <2>1
<1>10. \/ ~ok /\ hdr' = hdr
       \/ /\ sm.pfh[g] = g /\ Writes(e, g)
          /\ ok => s[w].ok
  <2>1. s[w].e \in Entries /\ g = <<s[w].e, "group">> /\ M.pfh[g] \in {Closed, g}
    BY <1>2, <1>4, <1>7, <1>9 DEF GroupVF
  <2>2. WritesOwn(w, M, "group", g)
    <3> HIDE DEF g
    <3> QED BY <1>0, <1>7, <2>1, TableWriteIs
  <2>3. M.pfh[g] = sm.pfh[g]
    BY <1>4, <1>7
  <2> QED BY <1>2, <1>3, <2>2, <2>3 DEF Writes, WritesOwn
<1> HIDE DEF ok, read
<1>5. Becomes(w, "link", s[w].op, n, e, s[w].vf, ok)
  <2>1. s[w] \in SessionStates
    BY <1>0 DEF Types
  <2>2. r \in SessionStates /\ r.pc = "link" /\ r.op = s[w].op /\ r.name = n /\ r.e = e
        /\ r.vf = s[w].vf /\ r.ok = ok
    BY <1>0, <1>2, <1>b, <2>1 DEF SessionStates
  <2> HIDE DEF r
  <2>3. Becomes(w, r.pc, r.op, r.name, r.e, r.vf, r.ok)
    BY <1>0, <1>r, <2>2, BecomesIs
  <2> QED BY <2>2, <2>3
<1>6. s'[w].pc = "link" /\ s'[w].e = e /\ s'[w].name = n /\ s'[w].ok = ok
      /\ \A x \in Sessions \ {w} : s'[x] = s[x]
  BY <1>5 DEF Becomes
<1>11. /\ hdr' \in [Files -> Nat] /\ hdr'[g] \in {hdr[g], ent[e].id}
       /\ ok => hdr'[g] = ent[e].id
       /\ \A i \in Files : i # g => hdr'[i] = hdr[i]
  <2>1. hdr \in [Files -> Nat]
    BY <1>0 DEF Types
  <2>2. CASE ~ok /\ hdr' = hdr
    BY <2>1, <2>2
  <2>3. CASE Writes(e, g)
    BY <1>0, <2>3, WritesIs, NodeFacts
  <2> QED BY <1>10, <2>2, <2>3
<1>i. ent[e].id # 0 /\ \A k \in Names : disk[k]["main"] = m => k = n
  <2>1. IdOf(w)
    BY DEF Inv, IdsOK
  <2> QED BY <1>0, <1>2, <2>1 DEF IdOf, Creating
<1>12. FilesOf(w)'
  BY <1>6 DEF FilesOf
<1>13. IdOf(w)'
  BY <1>3, <1>6, <1>i DEF IdOf
<1>14. WholeOf(w)'
  <2>1. WholeOf(w)
    BY DEF Inv, WholeSoFar
  <2>2. ok => /\ hdr[m] = ent[e].id
              /\ disk[n]["group"] = g \/ BeingDropped(n)
              /\ disk[n]["main"] = m \/ BeingDropped(n)
    BY <1>0, <1>2, <1>4, <1>10, <2>1 DEF WholeOf
  <2>3. BeingDropped(n) => BeingDropped(n)'
    <3>1. \A x \in ListIds : InList(x) => InList(x)'
      BY <1>3 DEF InList
    <3> QED BY <1>0, <1>6, <3>1, LockedDropped
  <2>4. BeingDropped(n)' => BeingDropped(s[w].name)'
    BY <1>6 DEF BeingDropped
  <2>5. hdr'[m] = hdr[m]
    BY <1>4, <1>11, NodeFacts
  <2> HIDE DEF BeingDropped
  <2> QED BY <1>3, <1>6, <1>11, <2>2, <2>3, <2>4, <2>5 DEF WholeOf
<1>15. killed \/ IdsUnique'
  <2> SUFFICES ASSUME IdsUnique PROVE IdsUnique'
    BY DEF Inv, IdsOK
  <2>1. \A k \in Names : DiskId(k)' = DiskId(k)
    <3> SUFFICES ASSUME NEW k \in Names PROVE DiskId(k)' = DiskId(k)
      OBVIOUS
    <3>1. disk[k]["main"] = NoFile \/ disk[k]["main"] \in Entries \X {"main"}
      BY <1>0 DEF Types
    <3>2. disk[k]["main"] = NoFile \/ (disk[k]["main"] \in Files /\ disk[k]["main"] # g)
      BY <3>1 DEF Files, GroupVF, Forks
    <3> QED BY <1>3, <1>11, <3>2 DEF DiskId
  <2>2. \A i \in Files : hdr'[i] < nextId'
    BY <1>3, <1>11 DEF IdsUnique
  <2> QED BY <1>3, <2>1, <2>2 DEF IdsUnique
<1>16. ent \in [Entries -> EntryStates]
       /\ disk \in [Names -> [Forks -> Files \cup {NoFile}]]
       /\ \A k \in Names, f \in Forks : disk[k][f] = NoFile \/ disk[k][f] \in Entries \X {f}
  BY <1>0 DEF Types
<1>17. OnlyFilesOf(e)
  BY <1>3, <1>8, <1>11, OnlyHeadersOf
<1>18. sm'.head = [sm.head EXCEPT ![e] = m]
  BY <1>0, <1>8, <1>h, FieldTypes
<1> QED BY <1>0, <1>1, <1>3, <1>5, <1>8, <1>11, <1>12, <1>13, <1>14, <1>15, <1>16, <1>17, <1>18,
           OwnStepInv

LEMMA CreateEndInv ==
  ASSUME Inv, NEW w \in Sessions, CreateEnd(w) PROVE Inv'
<1>0. Types /\ Ring(sm) /\ s[w].pc = "link" /\ s[w].pc \in Locked /\ sm \in SmgrStates
      /\ LockHolder
  BY DEF Inv, CreateEnd, At, Locked, Creating, Types
<1>1. PICK e \in Entries, n \in Names : Holds(w, e, n)
  BY <1>0, HoldsIs
<1>2. e = s[w].e /\ n = s[w].name /\ e = allocated /\ ent[e].name = n
  BY <1>1 DEF Holds
<1>3. /\ dictLock' = NoSession
      /\ UNCHANGED <<ent, sm, disk, hdr, nextId, savedId, allocated, started, killed>>
  BY DEF CreateEnd, SameFiles, Same
<1>h. sm.head[e] = MainVF(e)
  <2>1. EntryOf(w)
    BY DEF Inv, SessionEntries
  <2> QED BY <1>0, <1>2, <2>1 DEF EntryOf
<1>4. OnlyFilesOf(e)
  BY <1>3, OnlyFilesSame
<1>5. CASE ~s[w].ok
  <2>1. Goto(w, "detach") /\ UNCHANGED <<lnext, lprev>>
    BY <1>5 DEF CreateEnd, SameList
  <2>2. sm'.head = [sm.head EXCEPT ![e] = MainVF(e)]
    BY <1>0, <1>3, <1>h, FieldTypes
  <2> QED BY <1>0, <1>1, <1>3, <1>4, <2>1, <2>2, FailInv
<1>6. CASE s[w].ok
  <2>1. Finish(w) /\ LinkTblInfo(e)
    BY <1>2, <1>6 DEF CreateEnd
  <2>2. Becomes(w, "idle", "none", "none", NULL, NoVF, TRUE)
    BY <1>0, <2>1, FinishIs
  <2>3. s' \in [Sessions -> SessionStates] /\ s'[w].pc = "idle" /\ \A x \in Sessions \ {w} : s'[x] = s[x]
    BY <2>2 DEF Becomes
  <2>4. s'[w].pc \notin Locked \cup {"create", "load"}
    BY <2>3, PcsAre
  <2>5. \A x \in Sessions : s'[x].pc \notin Locked
    BY <1>0, <2>3, <2>4, OthersUnlocked
  <2>6. ent[e].id # 0
    <3>1. IdOf(w)
      BY DEF Inv, IdsOK
    <3> QED BY <1>0, <1>2, <3>1 DEF IdOf, Creating
  <2>7. /\ lnext' \in [ListIds -> {NULL} \cup ListIds]
        /\ lprev' \in [ListIds -> {NULL} \cup ListIds]
        /\ \A x \in ListIds : InList(x)' <=> InList(x) \/ x = e
        /\ ListOK' /\ ChainNames'
    BY <1>0, <1>2, <1>3, <1>h, <2>1, <2>5, <2>6, LinkKeepsList
  <2>8. EntryOf(w)'
    BY <2>3 DEF EntryOf, Locked, Creating, Loading, Working
  <2> QED BY <1>0, <1>1, <1>3, <1>4, <2>3, <2>4, <2>7, <2>8, UnlockInv
<1>7. s[w].ok \in BOOLEAN
  BY <1>0, SessionFields
<1> QED BY <1>5, <1>6, <1>7

\* TableOpen of a fork: the storage manager after it.
Opens(e, v, d, M) ==
  /\ sm' \in SmgrStates /\ Ring(sm') /\ sm'.head = [sm.head EXCEPT ![e] = MainVF(e)]
  /\ \A x \in Nodes : x # v => sm'.pfh[x] \in {sm.pfh[x], Closed}
  /\ \/ M.pfh[v] \in {sm.pfh[v], Closed}
     \/ M.pfh[v] = d /\ M.pfh[v] # NoFile

LEMMA LoadSmgr ==
  ASSUME Types, NEW w, NEW e \in Entries, NEW v \in Nodes, NEW f \in Forks,
         NEW n \in Names, NEW M, Gets(sm, M, e), Smgr(w, OpenVF(M, v, f, n))
  PROVE  Opens(e, v, disk[n][f], OpenVF(M, v, f, n))
<1> DEFINE N == OpenVF(M, v, f, n)
<1>1. Gets(sm, M, e) /\ Smgr(w, N)
  OBVIOUS
<1>3. M \in SmgrStates /\ Ring(M) /\ M.head = [sm.head EXCEPT ![e] = MainVF(e)]
      /\ \A x \in Nodes : M.pfh[x] \in {sm.pfh[x], Closed}
  BY <1>1 DEF Gets
<1>4. N \in SmgrStates /\ Ring(N) /\ N.head = M.head
      /\ \A x \in Nodes : x # v => N.pfh[x] = M.pfh[x]
      /\ N.pfh[v] = IF M.pfh[v] # Closed \/ disk[n][f] = NoFile THEN M.pfh[v]
                    ELSE disk[n][f]
  BY <1>3, OpenIs
<1> HIDE DEF N
<1>5. sm' \in SmgrStates /\ Ring(sm') /\ sm'.head = N.head /\ sm'.pfh = N.pfh
  BY <1>1, <1>4, SmgrStep
<1>6. \A x \in Nodes : x # v => sm'.pfh[x] \in {sm.pfh[x], Closed}
  BY <1>3, <1>4, <1>5
<1>7. N.pfh[v] \in {sm.pfh[v], Closed} \/ (N.pfh[v] = disk[n][f] /\ N.pfh[v] # NoFile)
  <2> DEFINE p == M.pfh[v]  q == N.pfh[v]  d == disk[n][f]
  <2>0. p \in {sm.pfh[v], Closed}
    BY <1>3
  <2>1. OpenedAs(p, q, d)
    BY <1>3, OpenOne DEF N
  <2> HIDE DEF p, q, d
  <2>2. q \in {sm.pfh[v], Closed} \/ (q = d /\ q # NoFile)
    BY <2>0, <2>1 DEF OpenedAs
  <2> QED BY <2>2 DEF q, d
<1>8. Opens(e, v, disk[n][f], N)
  BY <1>3, <1>4, <1>5, <1>6, <1>7 DEF Opens
<1> QED BY <1>8 DEF N

LEMMA LoadMainInv ==
  ASSUME Inv, NEW w \in Sessions, LoadMain(w) PROVE Inv'
<1>0. Types /\ Ring(sm) /\ s[w].pc = "loadmain" /\ s[w].pc \in Locked /\ s[w].pc \in Loading
      /\ "loadgroup" \in Pcs /\ "loadgroup" \in Locked \ {"main", "loadmain"}
      /\ "main" \in Forks /\ "group" \in Forks /\ sm \in SmgrStates
  BY PcsAre DEF Inv, LoadMain, At, Locked, Creating, Loading, Forks, Types
<1>1. PICK e \in Entries, n \in Names : Holds(w, e, n)
  BY <1>0, HoldsIs
<1>2. e = s[w].e /\ n = s[w].name /\ e = allocated /\ ent[e].name = n
  BY <1>1 DEF Holds
<1> DEFINE m == MainVF(e)  g == GroupVF(e)
           G == GetVFec(sm, e, "main")
           M == OpenVF(G, m, "main", n)
           read == HeaderRead(M, m)
<1>g. Gets(sm, G, e) /\ G \in SmgrStates /\ Ring(G) /\ G.head[e] = m
  <2>1. Gets(sm, G, e)
    BY <1>0, GetVFecIs
  <2>2. sm.head \in [Entries -> Nodes \cup {NoVF}]
    BY <1>0, FieldTypes
  <2> HIDE DEF G
  <2> QED BY <2>1, <2>2 DEF Gets
<1>v. smgr_open(sm, e, "main", n) = M /\ VFOf(M, e, "main") = m
  <2>1. VFOf(G, e, "main") = m
    BY <1>g, VFOfIs
  <2>2. smgr_open(sm, e, "main", n) = M
    BY <2>1 DEF smgr_open, OpenVF
  <2>3. M \in SmgrStates /\ Ring(M) /\ M.head[e] = m
    <3>1. m \in Nodes
      BY NodeFacts
    <3> HIDE DEF G
    <3> QED BY <1>0, <1>g, <3>1, OpenIs
  <2> HIDE DEF M
  <2> QED BY <2>2, <2>3, VFOfIs
<1>3. /\ Smgr(w, M)
      /\ IF read
         THEN /\ ent' = [ent EXCEPT ![e].id = hdr[M.pfh[m]]]
              /\ Goto(w, "loadgroup")
              /\ UNCHANGED <<lnext, lprev, dictLock>>
         ELSE /\ dictLock' = NoSession /\ Goto(w, "detach")
              /\ UNCHANGED <<lnext, lprev, ent>>
      /\ UNCHANGED <<disk, hdr, nextId, savedId, allocated, started, killed>>
  <2> HIDE DEF M, m
  <2> QED BY <1>2, <1>v DEF LoadMain, ERRRET, SameList, Same
<1>4. m \in Nodes /\ g \in Nodes /\ m # g /\ m # NoFile /\ m # Closed 
      /\ Closed # NoFile
  BY NodeFacts, SmgrAssumption DEF MainVF, GroupVF, NoFile, Closed
<1>5. Opens(e, m, disk[n]["main"], M)
  <2>1. Gets(sm, G, e) /\ Smgr(w, OpenVF(G, m, "main", n))
    BY <1>3, <1>g
  <2>2. Types /\ m \in Nodes
    BY <1>0, <1>4
  <2> HIDE DEF G, m
  <2> QED BY <1>0, <2>1, <2>2, LoadSmgr
<1> HIDE DEF M
<1>6. Fresh(e)
  <2>1. FilesOf(w)
    BY DEF Inv, OwnFiles
  <2> QED BY <1>0, <1>2, <2>1 DEF FilesOf
<1>7. /\ sm' \in SmgrStates /\ Ring(sm') /\ sm'.head = [sm.head EXCEPT ![e] = m]
      /\ \A x \in Nodes : x # m => sm'.pfh[x] \in {sm.pfh[x], Closed}
      /\ M.pfh[m] = Closed \/ (M.pfh[m] = disk[n]["main"] /\ M.pfh[m] # NoFile)
  BY <1>4, <1>5, <1>6 DEF Opens, Fresh
<1>8. OnlyFilesOf(e)
  BY <1>3, <1>7, OnlyFilesSame
<1>9. CASE ~read
  <2>1. dictLock' = NoSession /\ Goto(w, "detach") /\ UNCHANGED <<lnext, lprev, ent>>
    BY <1>3, <1>9
  <2> QED BY <1>1, <1>3, <1>7, <1>8, <2>1, FailInv
<1>10. CASE read
  <2>1. ent' = [ent EXCEPT ![e].id = hdr[M.pfh[m]]] /\ Goto(w, "loadgroup")
        /\ UNCHANGED <<lnext, lprev, dictLock>>
    BY <1>3, <1>10
  <2>2. M.pfh[m] # Closed /\ hdr[M.pfh[m]] # 0
    BY <1>10 DEF HeaderRead
  <2>3. M.pfh[m] = disk[n]["main"] /\ disk[n]["main"] # NoFile
    BY <1>7, <2>2
  <2>4. disk[n]["main"] \in Files /\ hdr[disk[n]["main"]] \in Nat /\ hdr[disk[n]["main"]] = DiskId(n)
        /\ DiskId(n) # 0
    BY <1>0, <2>2, <2>3 DEF Types, DiskId
  <2>5. /\ ent' \in [Entries -> EntryStates] /\ ent'[e].name = ent[e].name /\ ent'[e].id = DiskId(n)
        /\ \A d \in Entries \ {e} : ent'[d] = ent[d]
    <3>1. ent \in [Entries -> EntryStates] /\ DiskId(n) \in Nat /\ hdr[M.pfh[m]] = DiskId(n)
      BY <1>0, <2>3, <2>4 DEF Types
    <3>2. ent' = [ent EXCEPT ![e].id = DiskId(n)]
      BY <2>1, <3>1
    <3> HIDE DEF DiskId
    <3> QED BY <3>1, <3>2 DEF EntryStates
  <2>6. Becomes(w, "loadgroup", s[w].op, n, e, s[w].vf, s[w].ok)
    BY <1>0, <1>2, <2>1, GotoIs
  <2>7. s'[w].pc = "loadgroup" /\ s'[w].e = e /\ s'[w].name = n
    BY <2>6 DEF Becomes
  <2>8. FilesOf(w)'
    <3>1. sm.pfh[g] = Closed /\ NotOnDisk(e, "main") /\ NotOnDisk(e, "group")
      BY <1>6 DEF Fresh
    <3>2. sm'.pfh[g] = Closed
      BY <1>4, <1>7, <3>1
    <3>3. NotOnDisk(s[w].e, "main")' /\ NotOnDisk(s[w].e, "group")'
      BY <1>3, <2>7, <3>1 DEF NotOnDisk
    <3> HIDE DEF NotOnDisk
    <3> QED BY <2>7, <3>2, <3>3 DEF FilesOf
  <2>9. IdOf(w)'
    BY <2>4, <2>5, <2>7 DEF IdOf, Creating
  <2>10. WholeOf(w)'
    BY <1>3, <2>3, <2>4, <2>5, <2>7 DEF WholeOf
  <2>11. killed \/ IdsUnique'
    <3> SUFFICES ASSUME IdsUnique PROVE IdsUnique'
      BY DEF Inv, IdsOK
    <3>1. \A k \in Names : DiskId(k)' = DiskId(k)
      BY <1>3 DEF DiskId
    <3>2. DiskId(n) < nextId
      BY <2>4 DEF IdsUnique
    <3> HIDE DEF DiskId
    <3>3. \A d \in Entries : ent'[d].id < nextId'
      BY <1>3, <2>5, <3>2 DEF IdsUnique
    <3>4. \A c, d \in Entries :
            ent'[c].id # 0 /\ ent'[c].id = ent'[d].id => ent'[c].name = ent'[d].name
      BY <1>2, <2>5 DEF IdsUnique
    <3>5. \A k \in Names, d \in Entries :
            ent'[d].id # 0 /\ DiskId(k)' = ent'[d].id => ent'[d].name = k
      BY <1>2, <2>5, <3>1 DEF IdsUnique
    <3> QED BY <1>3, <3>1, <3>3, <3>4, <3>5 DEF IdsUnique
  <2>12. hdr \in [Files -> Nat] /\ disk \in [Names -> [Forks -> Files \cup {NoFile}]]
         /\ \A k \in Names, f \in Forks : disk[k][f] = NoFile \/ disk[k][f] \in Entries \X {f}
    BY <1>0 DEF Types
  <2> QED BY <1>0, <1>1, <1>3, <1>7, <1>8, <2>1, <2>5, <2>6, <2>8, <2>9, <2>10, <2>11, <2>12, OwnStepInv
<1> QED BY <1>9, <1>10

\* The group descriptor of a table that is loaded.
LEMMA GroupOpened ==
  ASSUME Types, Ring(sm), NEW e \in Entries, sm.head[e] = MainVF(e),
         ~LosesHead(sm, e, "group"), NEW n \in Names
  PROVE  LET G == GetVFec(sm, e, "group")
             M == OpenVF(G, GroupVF(e), "group", n)
         IN  /\ Gets(sm, G, e)
             /\ smgr_open(sm, e, "group", n) = M /\ VFOf(M, e, "group") = GroupVF(e)
<1> DEFINE G == GetVFec(sm, e, "group")
           M == OpenVF(G, GroupVF(e), "group", n)
<1>1. Gets(sm, G, e) /\ Both(G, e) /\ G \in SmgrStates /\ Ring(G) /\ G.head[e] = MainVF(e)
  <2>1. Gets(sm, G, e) /\ Both(G, e)
    BY GetVFecIs DEF Types
  <2>2. sm.head \in [Entries -> Nodes \cup {NoVF}]
    BY FieldTypes DEF Types
  <2> HIDE DEF G
  <2> QED BY <2>1, <2>2 DEF Gets
<1>2. VFOf(G, e, "group") = GroupVF(e)
  BY <1>1, VFOfIs
<1>3. smgr_open(sm, e, "group", n) = M
  BY <1>2 DEF smgr_open, OpenVF
<1>4. M \in SmgrStates /\ Ring(M) /\ M.head[e] = MainVF(e) /\ Both(M, e)
  <2>1. GroupVF(e) \in Nodes /\ "group" \in Forks
    BY NodeFacts DEF Forks
  <2> HIDE DEF G
  <2> QED BY <1>1, <2>1, OpenIs DEF Both
<1> HIDE DEF M
<1>5. VFOf(M, e, "group") = GroupVF(e)
  BY <1>4, VFOfIs
<1> QED BY <1>1, <1>3, <1>5 DEF M

LEMMA LoadGroupInv ==
  ASSUME Inv, NEW w \in Sessions, LoadGroup(w), ~headLost' PROVE Inv'
<1>0. Types /\ Ring(sm) /\ s[w].pc = "loadgroup" /\ s[w].pc \in Locked /\ LockHolder
      /\ sm \in SmgrStates /\ EntryOf(w) /\ IdOf(w) /\ "group" \in Forks
  BY DEF Inv, LoadGroup, At, Locked, Loading, Types, SessionEntries, IdsOK, Forks
<1>1. PICK e \in Entries, n \in Names : Holds(w, e, n)
  BY <1>0, HoldsIs
<1>2. e = s[w].e /\ n = s[w].name /\ e = allocated /\ ent[e].name = n
  BY <1>1 DEF Holds
<1>h. sm.head[e] = MainVF(e) /\ ent[e].id # 0 /\ s[w].op \in {"drop", "use"}
  BY <1>0, <1>2 DEF EntryOf, IdOf, Loading
<1> DEFINE m == MainVF(e)  g == GroupVF(e)
           G == GetVFec(sm, e, "group")
           M == OpenVF(G, g, "group", n)
           read == HeaderRead(M, g)
<1>v. Gets(sm, G, e) /\ smgr_open(sm, e, "group", n) = M /\ VFOf(M, e, "group") = g
  <2>1. ~LosesHead(sm, e, "group")
    BY <1>2 DEF LoadGroup
  <2> QED BY <1>0, <1>h, <2>1, GroupOpened
<1>3. /\ Smgr(w, M)
      /\ IF read
         THEN LinkTblInfo(e) /\ dictLock' = NoSession /\ Goto(w, FirstStep[s[w].op]) /\ ent' = ent
         ELSE /\ dictLock' = NoSession /\ Goto(w, "detach")
              /\ UNCHANGED <<lnext, lprev, ent>>
      /\ UNCHANGED <<disk, hdr, nextId, savedId, allocated, started, killed>>
  <2> HIDE DEF M, g
  <2> QED BY <1>2, <1>v DEF LoadGroup, ERRRET, SameList, SameRun
<1>4. g \in Nodes
  BY NodeFacts
<1>5. Opens(e, g, disk[n]["group"], M)
  <2>1. Gets(sm, G, e) /\ Smgr(w, OpenVF(G, g, "group", n))
    BY <1>3, <1>v
  <2>2. Types /\ g \in Nodes
    BY <1>0, <1>4
  <2> HIDE DEF G, g
  <2> QED BY <1>0, <2>1, <2>2, LoadSmgr
<1> HIDE DEF M
<1>7. /\ sm' \in SmgrStates /\ Ring(sm') /\ sm'.head = [sm.head EXCEPT ![e] = m]
      /\ \A x \in Nodes : x # g => sm'.pfh[x] \in {sm.pfh[x], Closed}
  BY <1>5 DEF Opens
<1>8. OnlyFilesOf(e)
  BY <1>3, <1>7, OnlyFilesSame
<1>9. CASE ~read
  <2>1. dictLock' = NoSession /\ Goto(w, "detach") /\ UNCHANGED <<lnext, lprev, ent>>
    BY <1>3, <1>9
  <2> QED BY <1>1, <1>3, <1>7, <1>8, <2>1, FailInv
<1>10. CASE read
  <2> DEFINE pc == FirstStep[s[w].op]
  <2>1. LinkTblInfo(e) /\ dictLock' = NoSession /\ Goto(w, pc) /\ ent' = ent
    BY <1>3, <1>10
  <2>2. pc \in {"unlinkmain", "use"} /\ pc \in Pcs /\ pc \notin Locked
    BY <1>h, FirstStepIs
  <2> HIDE DEF pc
  <2>3. Becomes(w, pc, s[w].op, n, e, s[w].vf, s[w].ok)
    BY <1>0, <1>2, <2>1, <2>2, GotoIs
  <2>4. s' \in [Sessions -> SessionStates] /\ s'[w].pc = pc /\ s'[w].e = e /\ s'[w].name = n
        /\ \A x \in Sessions \ {w} : s'[x] = s[x]
    BY <2>3 DEF Becomes
  <2>5. \A x \in Sessions : s'[x].pc \notin Locked
    BY <1>0, <2>2, <2>4, OthersUnlocked
  <2>6. sm.head \in [Entries -> Nodes \cup {NoVF}]
    BY <1>0, FieldTypes
  <2>7. sm'.head[e] = MainVF(e) /\ \A x \in Entries : sm.head[x] = MainVF(x) => sm'.head[x] = MainVF(x)
    BY <1>7, <1>h, <2>6
  <2>8. /\ lnext' \in [ListIds -> {NULL} \cup ListIds]
        /\ lprev' \in [ListIds -> {NULL} \cup ListIds]
        /\ \A x \in ListIds : InList(x)' <=> InList(x) \/ x = e
        /\ ListOK' /\ ChainNames'
    BY <1>0, <1>2, <1>3, <1>h, <2>1, <2>5, <2>7, LinkKeepsList
  <2>9. EntryOf(w)'
    <3>1. lnext'[e] # NULL
      BY <2>8 DEF InList, ListIds
    <3>2. e <= allocated'
      BY <1>2, <1>3
    <3>3. s'[w].pc \in {"unlinkmain", "use"} /\ s'[w].pc \notin Locked
          /\ s'[w].pc \notin {"load"} \cup Loading /\ s'[w].pc # "reopen"
      BY <2>2, <2>4 DEF Loading
    <3> QED BY <2>4, <2>7, <3>1, <3>2, <3>3 DEF EntryOf, InList
  <2>10. s'[w].pc \notin Locked \cup {"create", "load"}
    BY <2>2, <2>4
  <2> QED BY <1>1, <1>3, <1>7, <1>8, <2>1, <2>4, <2>7, <2>8, <2>9, <2>10, UnlockInv
<1> QED BY <1>9, <1>10

-----------------------------------------------------------------------------
(* The start of the server *)

\* The dictionary and the storage manager are empty; the files are those of earlier runs.
Started ==
  /\ InitDictionary
  /\ disk \in [Names -> [Forks -> Files \cup {NoFile}]]
  /\ \A n \in Names, f \in Forks : disk[n][f] = NoFile \/ disk[n][f] \in Entries \X {f}
  /\ hdr \in [Files -> Nat]
  /\ nextId \in Nat \ {0} /\ savedId \in Nat \ {0}
  /\ allocated \in Nat /\ started \in Nat /\ killed \in BOOLEAN
  /\ allocated <= started /\ started <= MaxStatements
  /\ \A e \in Entries : e > allocated =>
       /\ hdr[MainVF(e)] = 0 /\ hdr[GroupVF(e)] = 0
       /\ NotOnDisk(e, "main") /\ NotOnDisk(e, "group")
  /\ \/ killed
     \/ /\ \A i \in Files : hdr[i] < nextId
        /\ \A n, m \in Names : DiskId(n) # 0 /\ DiskId(n) = DiskId(m) => n = m

LEMMA StartedInv == Started => Inv
<1> SUFFICES ASSUME Started PROVE Inv
  OBVIOUS
<1>0. /\ ent = [e \in Entries |-> NoEntry]
      /\ lnext = [e \in ListIds |-> IF e = g_TblList THEN g_TblList ELSE NULL]
      /\ lprev = lnext /\ dictLock = NoSession /\ sm = InitSmgr
      /\ s = [w \in Sessions |-> Idle]
  BY DEF Started, InitDictionary, ListIds
<1>1. \A w \in Sessions : s[w] = Idle
  BY <1>0
<1>2. \A w \in Sessions : s[w].pc = "idle"
  BY <1>1 DEF Idle
<1>3. \A w \in Sessions : s[w].pc \notin Locked \cup Working \cup {"create", "load"}
  BY <1>2 DEF Locked, Creating, Loading, Working
<1>4. g_TblList \in ListIds /\ g_TblList \notin Entries /\ NULL # g_TblList
  BY SmgrAssumption DEF ListIds, g_TblList, NULL
<1>5. \A e \in Entries : ent[e] = NoEntry /\ ent[e].id = 0 /\ ent[e] \in EntryStates
  BY <1>0 DEF NoEntry, EntryStates
<1>6. InList(g_TblList) /\ lnext[g_TblList] = g_TblList /\ \A e \in Entries : ~InList(e)
  BY <1>0, <1>4 DEF InList, ListIds
<1>7. sm \in SmgrStates /\ Ring(sm) /\ \A v \in Nodes : sm.pfh[v] = Closed
  BY <1>0, InitSmgrRing DEF InitSmgr
<1>8. Types
  <2>1. Idle \in SessionStates
    BY DEF Idle, SessionStates, Pcs
  <2>2. s \in [Sessions -> SessionStates]
    BY <1>0, <2>1
  <2>3. ent \in [Entries -> EntryStates]
    BY <1>0, <1>5
  <2>4. lnext \in [ListIds -> {NULL} \cup ListIds]
    BY <1>0, <1>4
  <2>5. lprev \in [ListIds -> {NULL} \cup ListIds]
    BY <1>0, <2>4
  <2> QED BY <1>0, <1>7, <2>2, <2>3, <2>4, <2>5 DEF Types, Started
<1>9. Counted
  <2>1. Pending = {}
    BY <1>3 DEF Pending
  <2>2. Cardinality(Pending) = 0
    BY <2>1, FS_EmptySet
  <2> QED BY <2>2 DEF Counted, Started
<1>10. LockHolder
  BY <1>0, <1>3 DEF LockHolder
<1>11. SessionEntries
  BY <1>2, <1>3 DEF SessionEntries, EntryOf, Loading, Working, Locked
<1>12. ListOK
  BY <1>0, <1>4, <1>6 DEF ListOK, ListIds
<1>13. ChainNames
  <2> DEFINE R == [x \in ListIds |-> {}]
  <2>1. R \in [ListIds -> SUBSET {e \in Entries : InList(e)}] /\ \A x \in ListIds : R[x] = {}
    OBVIOUS
  <2> HIDE DEF R
  <2>2. Chains(R)
    BY <1>3, <1>4, <1>6, <2>1 DEF Chains
  <2> QED BY <2>2 DEF ChainNames
<1>14. OwnFiles
  <2>1. \A w \in Sessions : FilesOf(w)
    BY <1>2 DEF FilesOf
  <2>2. ASSUME NEW e \in Entries, e > allocated PROVE Fresh(e)
    BY <1>7, <2>2, NodeFacts DEF Fresh, Started
  <2> QED BY <2>1, <2>2 DEF OwnFiles
<1>15. IdsOK
  <2>1. \A w \in Sessions : IdOf(w)
    BY <1>2 DEF IdOf, Creating
  <2>2. ASSUME ~killed PROVE IdsUnique
    <3>1. /\ \A i \in Files : hdr[i] < nextId
          /\ \A n, m \in Names : DiskId(n) # 0 /\ DiskId(n) = DiskId(m) => n = m
          /\ nextId \in Nat \ {0}
      BY <2>2 DEF Started
    <3>2. \A e \in Entries : ent[e].id < nextId
      BY <1>5, <3>1
    <3> QED BY <1>5, <3>1, <3>2 DEF IdsUnique
  <2> QED BY <2>1, <2>2 DEF IdsOK
<1>16. WholeSoFar
  BY <1>2 DEF WholeSoFar, WholeOf
<1>17. Apart
  BY <1>3 DEF Apart
<1> QED BY <1>7, <1>8, <1>9, <1>10, <1>11, <1>12, <1>13, <1>14, <1>15, <1>16, <1>17 DEF Inv

LEMMA StartedInvAfter == Started' => Inv'
BY StartedInv, PTL

LEMMA InitInv == Init => Inv
<1> SUFFICES ASSUME Init PROVE Started
  BY StartedInv
<1>1. /\ InitDictionary
      /\ disk = [n \in Names |-> [f \in Forks |-> NoFile]] /\ hdr = [i \in Files |-> 0]
      /\ nextId = 1 /\ savedId = 1 /\ allocated = 0 /\ started = 0 /\ killed = FALSE
  BY DEF Init
<1>2. \A n \in Names, f \in Forks : disk[n][f] = NoFile
  BY <1>1
<1>3. /\ disk \in [Names -> [Forks -> Files \cup {NoFile}]]
      /\ hdr \in [Files -> Nat] /\ \A i \in Files : hdr[i] = 0
  BY <1>1
<1>4. \A e \in Entries : MainVF(e) \in Files /\ GroupVF(e) \in Files
                         /\ NotOnDisk(e, "main") /\ NotOnDisk(e, "group")
  <2> SUFFICES ASSUME NEW e \in Entries
               PROVE  /\ MainVF(e) \in Files /\ GroupVF(e) \in Files
                      /\ NotOnDisk(e, "main") /\ NotOnDisk(e, "group")
    OBVIOUS
  <2>1. MainVF(e) \in Files /\ GroupVF(e) \in Files
    BY NodeFacts DEF Files
  <2>2. <<e, "main">> # NoFile /\ <<e, "group">> # NoFile
    BY DEF NoFile
  <2>3. \A n \in Names : disk[n]["main"] = NoFile /\ disk[n]["group"] = NoFile
    BY <1>2 DEF Forks
  <2>4. NotOnDisk(e, "main") /\ NotOnDisk(e, "group")
    BY <2>2, <2>3 DEF NotOnDisk
  <2> QED BY <2>1, <2>4
<1>5. \A n \in Names : DiskId(n) = 0
  BY <1>2 DEF DiskId, Forks
<1>6. allocated \in Nat /\ started \in Nat /\ allocated <= started /\ started <= MaxStatements
      /\ nextId \in Nat \ {0} /\ savedId \in Nat \ {0}
  BY <1>1
<1>b. killed \in BOOLEAN
  BY <1>1, Zenon
<1>7. \A i \in Files : hdr[i] < nextId
  BY <1>1, <1>3
<1>8. \A n, m \in Names : DiskId(n) # 0 /\ DiskId(n) = DiskId(m) => n = m
  BY <1>5
<1>9. \A e \in Entries : e > allocated =>
        /\ hdr[MainVF(e)] = 0 /\ hdr[GroupVF(e)] = 0
        /\ NotOnDisk(e, "main") /\ NotOnDisk(e, "group")
  BY <1>3, <1>4
<1> QED BY <1>1, <1>2, <1>3, <1>6, <1>b, <1>7, <1>8, <1>9 DEF Started

LEMMA RestartInv ==
  ASSUME Inv, Crash \/ ExitToad PROVE Inv'
<1>0. Types /\ Counted /\ OwnFiles /\ (killed \/ IdsUnique)
  BY DEF Inv, IdsOK
<1>1. /\ InitDictionary' /\ UNCHANGED <<disk, hdr, allocated, started>>
      /\ \/ nextId' = savedId /\ savedId' = savedId /\ killed' = TRUE
         \/ nextId' = nextId /\ savedId' = nextId /\ killed' = killed
  BY DEF Crash, ExitToad, Restart, InitDictionary
<1>2. \A n \in Names : DiskId(n)' = DiskId(n)
  BY <1>1 DEF DiskId
<1>3. allocated <= started /\ started <= MaxStatements
  <2>1. Pending \in SUBSET Sessions
    BY DEF Pending
  <2>2. Cardinality(Pending) \in Nat
    BY <2>1, PendingFinite
  <2> QED BY <1>0, <2>2 DEF Counted, Types
<1>4. ASSUME NEW e \in Entries, e > allocated
      PROVE  /\ hdr'[MainVF(e)] = 0 /\ hdr'[GroupVF(e)] = 0
             /\ NotOnDisk(e, "main")' /\ NotOnDisk(e, "group")'
  BY <1>0, <1>1, <1>4 DEF OwnFiles, Fresh, NotOnDisk
<1>5. /\ disk' \in [Names -> [Forks -> Files \cup {NoFile}]]
      /\ \A n \in Names, f \in Forks : disk'[n][f] = NoFile \/ disk'[n][f] \in Entries \X {f}
      /\ hdr' \in [Files -> Nat]
      /\ nextId' \in Nat \ {0} /\ savedId' \in Nat \ {0}
      /\ allocated' \in Nat /\ started' \in Nat /\ killed' \in BOOLEAN
  BY <1>0, <1>1 DEF Types
<1>6. \/ killed'
      \/ /\ \A i \in Files : hdr'[i] < nextId'
         /\ \A n, m \in Names : DiskId(n)' # 0 /\ DiskId(n)' = DiskId(m)' => n = m
  BY <1>0, <1>1, <1>2 DEF IdsUnique
<1>7. Started'
  BY <1>1, <1>3, <1>4, <1>5, <1>6 DEF Started
<1> QED BY <1>7, StartedInvAfter

LEMMA SameInv ==
  ASSUME Inv, UNCHANGED <<ent, lnext, lprev, dictLock, sm, disk, hdr, nextId, savedId, allocated,
                          started, restarts, killed, s>>
  PROVE  Inv'
<1>1. /\ ent' = ent /\ lnext' = lnext /\ lprev' = lprev /\ dictLock' = dictLock /\ sm' = sm
      /\ disk' = disk /\ hdr' = hdr /\ nextId' = nextId /\ savedId' = savedId
      /\ allocated' = allocated /\ started' = started /\ killed' = killed /\ s' = s
  OBVIOUS
<1>3. Types'
  BY <1>1 DEF Inv, Types
<1>4. Counted'
  BY <1>1 DEF Inv, Counted, Pending
<1>5. Ring(sm)'
  BY <1>1 DEF Inv
<1>6. LockHolder'
  BY <1>1 DEF Inv, LockHolder
<1>7. SessionEntries'
  BY <1>1 DEF Inv, SessionEntries, EntryOf, InList
<1>8. ListOK'
  BY <1>1 DEF Inv, ListOK, InList
<1>9. ChainNames'
  BY <1>1 DEF Inv, ChainNames, Chains, InList
<1>10. OwnFiles'
  BY <1>1 DEF Inv, OwnFiles, Fresh, NotOnDisk, FilesOf, Both
<1>11. IdsOK'
  BY <1>1 DEF Inv, IdsOK, IdOf, IdsUnique, DiskId
<1>12. WholeSoFar'
  BY <1>1 DEF Inv, WholeSoFar, WholeOf, BeingDropped, Dropping
<1>13. Apart'
  BY <1>1 DEF Inv, Apart
<1> QED BY <1>13, <1>3, <1>4, <1>5, <1>6, <1>7, <1>8, <1>9, <1>10, <1>11, <1>12 DEF Inv

-----------------------------------------------------------------------------
(* The invariant *)

LEMMA NextInv == Inv /\ [Next]_vars /\ ~headLost' => Inv'
<1> SUFFICES ASSUME Inv, [Next]_vars, ~headLost' PROVE Inv'
  OBVIOUS
<1>1. CASE \E w \in Sessions, n \in Names : CreateSearch(w, n)
  BY <1>1, CreateSearchInv
<1>2. CASE \E w \in Sessions, n \in Names, op \in {"drop", "use"} : GetTableInfo(w, n, op)
  BY <1>2, GetTableInfoInv
<1>3. CASE \E w \in Sessions : CreateTblInfo(w) \/ LoadTblInfo(w)
  BY <1>3, CreateTblInfoInv, LoadTblInfoInv
<1>4. CASE \E w \in Sessions : CreateMain(w) \/ CreateGroup(w)
  BY <1>4, CreateMainInv, CreateGroupInv
<1>5. CASE \E w \in Sessions : TableFileMainInit(w) \/ TableFileGroupInit(w)
  BY <1>5, MainInitInv, GroupInitInv
<1>6. CASE \E w \in Sessions : CreateEnd(w)
  BY <1>6, CreateEndInv
<1>7. CASE \E w \in Sessions : LoadMain(w) \/ LoadGroup(w)
  BY <1>7, LoadMainInv, LoadGroupInv
<1>8. CASE \E w \in Sessions : DropMain(w) \/ DropGroup(w)
  BY <1>8, DropMainInv
<1>9. CASE \E w \in Sessions : Detach(w) \/ ReleaseTblInfo(w)
  BY <1>9, DetachInv, ReleaseInv
<1>10. CASE \E w \in Sessions, f \in Forks : Read(w, f)
  BY <1>10, ReadInv
<1>11. CASE \E w \in Sessions : Reopen(w) \/ EndUse(w)
  BY <1>11, ReopenInv, EndUseInv
<1>12. CASE \E w \in Sessions : UseReleased(w)
  <2>1. Wild
    BY <1>12 DEF UseReleased
  <2> QED BY <2>1, SameInv DEF Wild
<1>13. CASE Crash \/ ExitToad
  BY <1>13, RestartInv
<1>14. CASE UNCHANGED vars
  BY <1>14, SameInv DEF vars
<1> QED
  BY <1>1, <1>2, <1>3, <1>4, <1>5, <1>6, <1>7, <1>8, <1>9, <1>10, <1>11, <1>12, <1>13, <1>14 DEF Next

\* Once a table has lost its first descriptor, it has.
LEMMA HeadLostStays == headLost /\ [Next]_vars => headLost'
<1> SUFFICES ASSUME headLost, [Next]_vars PROVE headLost'
  OBVIOUS
<1>1. CASE \E w \in Sessions, n \in Names :
             CreateSearch(w, n) \/ \E op \in {"drop", "use"} : GetTableInfo(w, n, op)
  BY <1>1 DEF CreateSearch, GetTableInfo
<1>2. CASE \E w \in Sessions : CreateTblInfo(w) \/ LoadTblInfo(w) \/ CreateEnd(w) \/ Detach(w) \/ EndUse(w)
  BY <1>2 DEF CreateTblInfo, LoadTblInfo, CreateEnd, Detach, EndUse, Same
<1>3. CASE \E w \in Sessions : CreateMain(w) \/ CreateGroup(w)
  BY <1>3 DEF CreateMain, CreateGroup, TableCreate
<1>4. CASE \E w \in Sessions : TableFileMainInit(w) \/ TableFileGroupInit(w)
  BY <1>4 DEF TableFileMainInit, TableFileGroupInit, Same
<1>5. CASE \E w \in Sessions : LoadMain(w) \/ LoadGroup(w)
  BY <1>5 DEF LoadMain, LoadGroup, Same
<1>6. CASE \E w \in Sessions : DropMain(w) \/ DropGroup(w) \/ ReleaseTblInfo(w) \/ Reopen(w)
  BY <1>6 DEF DropMain, DropGroup, ReleaseTblInfo, Reopen, Same
<1>7. CASE \E w \in Sessions, f \in Forks : Read(w, f)
  BY <1>7 DEF Read
<1>8. CASE \E w \in Sessions : UseReleased(w)
  BY <1>8 DEF UseReleased, Wild
<1>9. CASE Crash \/ ExitToad
  BY <1>9 DEF Crash, ExitToad, Restart
<1>10. CASE UNCHANGED vars
  BY <1>10 DEF vars
<1> QED BY <1>1, <1>2, <1>3, <1>4, <1>5, <1>6, <1>7, <1>8, <1>9, <1>10 DEF Next

\* As long as no table has lost its first descriptor (smgr.c:75-78), the inductive invariant
\* of the dictionary holds whatever the sessions do and whenever the server is stopped or
\* killed: types, the ring of descriptors, the lock, the list and the chains behind detached
\* entries, the files of unfinished tables and the identifiers.  Behaviours are followed up
\* to the first use of a released entry (relCache.c:331).
THEOREM DictionaryInv == Spec => [](headLost \/ Inv)
<1>1. Init => headLost \/ Inv
  BY InitInv
<1>2. (headLost \/ Inv) /\ [Next]_vars => (headLost \/ Inv)'
  BY NextInv, HeadLostStays
<1> QED BY <1>1, <1>2, PTL DEF Spec

-----------------------------------------------------------------------------
(* What follows from it *)

LEMMA InvOneEntry == Inv => OneEntryPerTable
<1> SUFFICES ASSUME Inv, NEW e \in Listed, NEW f \in Listed, e # f
             PROVE  /\ ent[e].name # ent[f].name
                    /\ killed \/ ent[e].id # ent[f].id
  BY DEF OneEntryPerTable
<1>0. Types /\ ListOK /\ ChainNames /\ (killed \/ IdsUnique)
  BY DEF Inv, IdsOK
<1>1. PICK R : Chains(R)
  BY <1>0 DEF ChainNames
<1>2. Listed = R[lnext[g_TblList]]
  BY <1>0, <1>1, ListedIsChain
<1> HIDE DEF Listed
<1>3. lnext[g_TblList] \in ListIds
  BY <1>0 DEF ListOK, InList, Types, ListIds
<1>4. e \in Entries /\ f \in Entries /\ InList(e) /\ InList(f) /\ ent[e].name # ent[f].name
  BY <1>1, <1>2, <1>3 DEF Chains
<1>5. ent[e].id # 0
  BY <1>0, <1>4 DEF ListOK
<1> QED BY <1>0, <1>4, <1>5 DEF IdsUnique

\* As long as no table has lost its first descriptor, CREATE TABLE and the statements that
\* load a table from its files never make two entries of the list for one name, nor, unless
\* the server was killed, for one identifier, also when ReleaseTblInfo has taken other entries
\* out of the list.
THEOREM OneEntry == Spec => [](~headLost => OneEntryPerTable)
<1>1. headLost \/ Inv => (~headLost => OneEntryPerTable)
  BY InvOneEntry
<1> QED BY <1>1, DictionaryInv, PTL

\* Up to the step at which a group descriptor becomes the head of its table, the walk of
\* FindVF along the ring of all descriptors never ends at the descriptor of another table, for
\* any number of tables, limit on open files and history of releases.
THEOREM OwnFileFound == Spec => []FindsOwnFile
<1>1. headLost \/ Inv => FindsOwnFile
  <2> SUFFICES ASSUME Inv, NEW e \in Entries, NEW f \in Forks
               PROVE  VFOf(sm, e, f) \in {NoVF, <<e, f>>}
    BY DEF FindsOwnFile
  <2>1. sm \in SmgrStates /\ Ring(sm)
    BY DEF Inv, Types
  <2> QED BY <2>1, FindsOwn DEF VFOf
<1> QED BY <1>1, DictionaryInv, PTL

\* The header pages change in TableFileMainInit and TableFileGroupInit only.
LEMMA HeaderSteps ==
  ASSUME [Next]_vars,
         ~ \E w \in Sessions : TableFileMainInit(w) \/ TableFileGroupInit(w)
  PROVE  hdr' = hdr
<1>1. CASE \E w \in Sessions, n \in Names :
             CreateSearch(w, n) \/ \E op \in {"drop", "use"} : GetTableInfo(w, n, op)
  BY <1>1 DEF CreateSearch, GetTableInfo
<1>2. CASE \E w \in Sessions : CreateTblInfo(w) \/ LoadTblInfo(w) \/ CreateEnd(w) \/ Detach(w) \/ EndUse(w)
  BY <1>2 DEF CreateTblInfo, LoadTblInfo, CreateEnd, Detach, EndUse, SameFiles
<1>3. CASE \E w \in Sessions : CreateMain(w) \/ CreateGroup(w)
  BY <1>3 DEF CreateMain, CreateGroup, TableCreate
<1>4. CASE \E w \in Sessions : LoadMain(w) \/ LoadGroup(w)
  BY <1>4 DEF LoadMain, LoadGroup
<1>5. CASE \E w \in Sessions : DropMain(w) \/ DropGroup(w) \/ ReleaseTblInfo(w) \/ Reopen(w)
  BY <1>5 DEF DropMain, DropGroup, ReleaseTblInfo, Reopen
<1>6. CASE \E w \in Sessions, f \in Forks : Read(w, f)
  BY <1>6 DEF Read
<1>7. CASE \E w \in Sessions : UseReleased(w)
  BY <1>7 DEF UseReleased, Wild
<1>8. CASE Crash \/ ExitToad
  BY <1>8 DEF Crash, ExitToad, Restart
<1>9. CASE UNCHANGED vars
  BY <1>9 DEF vars
<1> QED BY <1>1, <1>2, <1>3, <1>4, <1>5, <1>6, <1>7, <1>8, <1>9 DEF Next

LEMMA MainInitWrites ==
  ASSUME Inv, NEW w \in Sessions, TableFileMainInit(w)
  PROVE  hdr' = hdr \/ \E e \in Entries, v \in Files : hdr[v] = 0 /\ Writes(e, v)
<1>0. Types /\ Ring(sm) /\ s[w].pc = "maininit" /\ s[w].pc \in Locked /\ "main" \in Forks
      /\ sm \in SmgrStates
  BY DEF Inv, TableFileMainInit, At, Locked, Creating, Forks, Types
<1>1. PICK e \in Entries, n \in Names : Holds(w, e, n)
  BY <1>0, HoldsIs
<1>2. e = s[w].e
  BY <1>1 DEF Holds
<1> DEFINE m == MainVF(e)
<1>3. m \in Files /\ m = <<s[w].e, "main">> /\ hdr' = TableWrite(w, sm, "main")
  BY <1>0, <1>2, NodeFacts, MainSearched DEF TableFileMainInit, MainVF
<1>4. sm.pfh[m] \in {Closed, m} /\ hdr[m] = 0
  <2>1. FilesOf(w)
    BY DEF Inv, OwnFiles
  <2> QED BY <1>0, <1>2, <2>1 DEF FilesOf
<1> HIDE DEF m
<1>5. WritesOwn(w, sm, "main", m)
  BY <1>0, <1>2, <1>3, <1>4, TableWriteIs
<1> QED BY <1>2, <1>3, <1>4, <1>5 DEF Writes, WritesOwn

LEMMA GroupInitWrites ==
  ASSUME Inv, NEW w \in Sessions, TableFileGroupInit(w)
  PROVE  hdr' = hdr \/ \E e \in Entries, v \in Files : hdr[v] = 0 /\ Writes(e, v)
<1>0. Types /\ Ring(sm) /\ s[w].pc = "groupinit" /\ s[w].pc \in Locked /\ "group" \in Forks
      /\ sm \in SmgrStates
  BY DEF Inv, TableFileGroupInit, At, Locked, Creating, Forks, Types
<1>1. PICK e \in Entries, n \in Names : Holds(w, e, n)
  BY <1>0, HoldsIs
<1>2. e = s[w].e /\ n = s[w].name
  BY <1>1 DEF Holds
<1> DEFINE m == MainVF(e)  g == GroupVF(e)
           M == OpenVF(sm, m, "main", n)
<1>6. /\ M \in SmgrStates /\ Ring(M) /\ \A x \in Nodes : x # m => M.pfh[x] = sm.pfh[x]
      /\ smgr_open(sm, e, "main", n) = M /\ VFOf(M, e, "main") = m
      /\ Searched(w, M, "group") = M
  <2>1. M = OpenVF(sm, MainVF(s[w].e), "main", s[w].name)
    BY <1>2
  <2> HIDE DEF M
  <2> QED BY <1>0, <1>2, <2>1, GroupSearched
<1>3. hdr' = hdr \/ hdr' = TableWrite(w, M, "group")
  <2> HIDE DEF M, m
  <2> QED BY <1>2, <1>6 DEF TableFileGroupInit
<1>4. m \in Nodes /\ g \in Nodes /\ g \in Files /\ m # g /\ g = <<s[w].e, "group">>
  BY <1>2, NodeFacts DEF GroupVF
<1>5. hdr[g] = 0 /\ sm.pfh[g] \in {Closed, g}
  <2>1. FilesOf(w)
    BY DEF Inv, OwnFiles
  <2> QED BY <1>0, <1>2, <2>1 DEF FilesOf
<1> HIDE DEF m, g, M
<1>7. M.pfh[g] \in {Closed, g}
  BY <1>4, <1>5, <1>6
<1>8. WritesOwn(w, M, "group", g)
  BY <1>0, <1>2, <1>4, <1>6, <1>7, TableWriteIs
<1> QED BY <1>2, <1>3, <1>4, <1>5, <1>8 DEF Writes, WritesOwn

LEMMA HeaderKept ==
  Inv /\ [Next]_vars => \A i \in Files : hdr[i] # 0 => hdr'[i] = hdr[i]
<1> SUFFICES ASSUME Inv, [Next]_vars, NEW i \in Files, hdr[i] # 0 PROVE hdr'[i] = hdr[i]
  OBVIOUS
<1>1. hdr' = hdr \/ \E e \in Entries, v \in Files : hdr[v] = 0 /\ Writes(e, v)
  BY MainInitWrites, GroupInitWrites, HeaderSteps
<1>2. CASE \E e \in Entries, v \in Files : hdr[v] = 0 /\ Writes(e, v)
  <2>1. PICK e \in Entries, v \in Files : hdr[v] = 0 /\ Writes(e, v)
    BY <1>2
  <2>2. Types /\ i # v
    BY <2>1 DEF Inv
  <2> QED BY <2>1, <2>2, WritesIs
<1> QED BY <1>1, <1>2

\* Up to the step at which a table loses its first descriptor, a header page that is written
\* stays as it is, through every CREATE TABLE that finds a file of an earlier table under its
\* name, and through every stop and kill.
THEOREM HeadersKept == Spec => HeaderWrittenOnce
<1>1. (headLost \/ Inv) /\ [Next]_vars =>
        [~headLost' => \A i \in Files : hdr[i] # 0 => hdr'[i] = hdr[i]]_vars
  BY HeaderKept, HeadLostStays
<1> QED BY <1>1, DictionaryInv, PTL DEF HeaderWrittenOnce, Spec

\* Entries come into the list in CreateEnd and LoadGroup only.
LEMMA LinkSteps ==
  ASSUME Inv, [Next]_vars, ~ \E w \in Sessions : CreateEnd(w) \/ LoadGroup(w),
         NEW e \in Entries, lnext[e] = NULL
  PROVE  lnext'[e] = NULL
<1>0. Types /\ ListOK /\ e # g_TblList
  BY SmgrAssumption DEF Inv, g_TblList
<1>1. CASE \E w \in Sessions, n \in Names :
             CreateSearch(w, n) \/ \E op \in {"drop", "use"} : GetTableInfo(w, n, op)
  BY <1>1 DEF CreateSearch, GetTableInfo
<1>2. CASE \E w \in Sessions : CreateTblInfo(w) \/ LoadTblInfo(w) \/ EndUse(w)
  BY <1>2 DEF CreateTblInfo, LoadTblInfo, EndUse, SameList
<1>3. CASE \E w \in Sessions : CreateMain(w) \/ CreateGroup(w)
  BY <1>3 DEF CreateMain, CreateGroup, TableCreate, ERRRET, SameList
<1>4. CASE \E w \in Sessions : TableFileMainInit(w) \/ TableFileGroupInit(w)
  BY <1>4 DEF TableFileMainInit, TableFileGroupInit, SameList
<1>5. CASE \E w \in Sessions : LoadMain(w)
  BY <1>5 DEF LoadMain, ERRRET, SameList
<1>6. CASE \E w \in Sessions : DropMain(w) \/ DropGroup(w) \/ ReleaseTblInfo(w) \/ Reopen(w)
  BY <1>6 DEF DropMain, DropGroup, ReleaseTblInfo, Reopen, SameList
<1>7. CASE \E w \in Sessions : Detach(w)
  <2>1. PICK w \in Sessions : Detach(w)
    BY <1>7
  <2>2. s[w].e \in Entries /\ DetachTblInfo(s[w].e)
    BY <2>1 DEF Detach, At, Inv, SessionEntries, EntryOf, Working
  <2>3. CASE lnext[s[w].e] = NULL \/ lprev[s[w].e] = NULL
    BY <2>2, <2>3 DEF DetachTblInfo
  <2>4. CASE ~(lnext[s[w].e] = NULL \/ lprev[s[w].e] = NULL)
    <3>1. lprev[s[w].e] = g_TblList
      BY <1>0, <2>2, <2>4 DEF ListOK, InList
    <3>2. lnext' = [lnext EXCEPT ![g_TblList] = lnext[s[w].e]]
      BY <2>2, <2>4, <3>1 DEF DetachTblInfo
    <3> QED BY <1>0, <3>2 DEF Types, ListIds
  <2> QED BY <2>3, <2>4
<1>8. CASE \E w \in Sessions, f \in Forks : Read(w, f)
  BY <1>8 DEF Read, SameList
<1>9. CASE \E w \in Sessions : UseReleased(w)
  BY <1>9 DEF UseReleased, Wild
<1>10. CASE Crash \/ ExitToad
  <2>1. lnext' = [x \in {g_TblList} \cup Entries |-> IF x = g_TblList THEN g_TblList ELSE NULL]
    BY <1>10 DEF Crash, ExitToad, Restart
  <2> QED BY <1>0, <2>1
<1>11. CASE UNCHANGED vars
  BY <1>11 DEF vars
<1> QED BY <1>1, <1>2, <1>3, <1>4, <1>5, <1>6, <1>7, <1>8, <1>9, <1>10, <1>11 DEF Next

\* LinkTblInfo links its own entry and no other.
LEMMA LinksOnly ==
  ASSUME Types, NEW e \in Entries, LinkTblInfo(e),
         NEW d \in Entries, lnext[d] = NULL, lnext'[d] # NULL
  PROVE  d = e
<1>1. d # g_TblList /\ lnext' = [lnext EXCEPT ![e] = lnext[g_TblList], ![g_TblList] = e]
  BY SmgrAssumption DEF LinkTblInfo, g_TblList
<1> QED BY <1>1 DEF Types, ListIds

LinkGood(e) == Whole(e)' \/ \E w \in Sessions : Dropping(w, ent[e].name)

LEMMA CreateEndWhole ==
  ASSUME Inv, NEW w \in Sessions, CreateEnd(w), NEW d \in Entries, lnext[d] = NULL, lnext'[d] # NULL
  PROVE  LinkGood(d)
<1>0. Types /\ s[w].pc = "link" /\ s[w].pc \in Locked /\ s[w].pc \in Creating
  BY DEF Inv, CreateEnd, At, Locked, Creating
<1>1. PICK e \in Entries, n \in Names : Holds(w, e, n)
  BY <1>0, HoldsIs
<1>2. e = s[w].e /\ n = s[w].name /\ ent[e].name = n
  BY <1>1 DEF Holds
<1>3. s[w].ok /\ LinkTblInfo(e) /\ UNCHANGED <<ent, disk, hdr>>
  BY <1>2 DEF CreateEnd, SameList, SameFiles
<1>4. d = e
  BY <1>0, <1>3, LinksOnly
<1> DEFINE m == MainVF(e)  g == GroupVF(e)
<1>5. /\ hdr[m] = ent[e].id /\ hdr[g] = ent[e].id /\ ent[e].id # 0
      /\ (disk[n]["main"] = m /\ disk[n]["group"] = g) \/ BeingDropped(n)
  BY <1>0, <1>2, <1>3 DEF Inv, WholeSoFar, WholeOf, IdsOK, IdOf
<1>6. CASE BeingDropped(n)
  BY <1>2, <1>4, <1>6 DEF BeingDropped, LinkGood
<1>7. CASE disk[n]["main"] = m /\ disk[n]["group"] = g
  <2>1. m # NoFile /\ g # NoFile
    BY SmgrAssumption DEF MainVF, GroupVF, NoFile
  <2>2. /\ ent'[e].name = n /\ ent'[e].id = ent[e].id
        /\ disk'[n]["main"] = m /\ disk'[n]["group"] = g
        /\ hdr'[m] = ent[e].id /\ hdr'[g] = ent[e].id
    BY <1>2, <1>3, <1>5, <1>7
  <2> HIDE DEF m, g
  <2>3. Whole(e)'
    BY <1>5, <2>1, <2>2 DEF Whole
  <2> QED BY <1>4, <2>3 DEF LinkGood
<1> QED BY <1>5, <1>6, <1>7

LEMMA LoadGroupWhole ==
  ASSUME Inv, NEW w \in Sessions, LoadGroup(w), ~headLost',
         NEW d \in Entries, lnext[d] = NULL, lnext'[d] # NULL
  PROVE  LinkGood(d)
<1>0. Types /\ Ring(sm) /\ s[w].pc = "loadgroup" /\ s[w].pc \in Locked /\ sm \in SmgrStates
      /\ ~LosesHead(sm, s[w].e, "group") /\ "group" \in Forks
  BY DEF Inv, LoadGroup, At, Locked, Loading, Types, Forks
<1>1. PICK e \in Entries, n \in Names : Holds(w, e, n)
  BY <1>0, HoldsIs
<1>2. e = s[w].e /\ n = s[w].name /\ ent[e].name = n
  BY <1>1 DEF Holds
<1> DEFINE m == MainVF(e)  g == GroupVF(e)
           G == GetVFec(sm, e, "group")
           M == OpenVF(G, g, "group", n)
<1>5. g \in Nodes /\ sm.head[e] = m
  <2>1. EntryOf(w)
    BY DEF Inv, SessionEntries
  <2> QED BY <1>0, <1>2, <2>1, NodeFacts DEF EntryOf
<1>v. Gets(sm, G, e) /\ smgr_open(sm, e, "group", n) = M /\ VFOf(M, e, "group") = g
  BY <1>0, <1>2, <1>5, GroupOpened
<1>3. /\ Smgr(w, M) /\ HeaderRead(M, g) /\ LinkTblInfo(e) /\ UNCHANGED <<ent, disk, hdr>>
  <2> HIDE DEF M, g, G
  <2> QED BY <1>2, <1>v DEF LoadGroup, ERRRET, SameList
<1>4. d = e
  BY <1>0, <1>3, LinksOnly
<1>6. sm.pfh[g] = Closed /\ NotOnDisk(e, "main")
  <2>1. FilesOf(w)
    BY DEF Inv, OwnFiles
  <2> QED BY <1>0, <1>2, <2>1 DEF FilesOf
<1>7. \/ disk[n]["main"] # NoFile /\ hdr[disk[n]["main"]] = ent[e].id
      \/ BeingDropped(n)
  BY <1>0, <1>2 DEF Inv, WholeSoFar, WholeOf
<1>8. Opens(e, g, disk[n]["group"], M)
  <2> HIDE DEF G, g
  <2> QED BY <1>0, <1>3, <1>5, <1>v, LoadSmgr
<1> HIDE DEF M
<1>9. disk[n]["group"] # NoFile /\ hdr[disk[n]["group"]] # 0
  <2> DEFINE p == M.pfh[g]  q == disk[n]["group"]
  <2>1. p \in {Closed} \/ (p = q /\ p # NoFile)
    BY <1>6, <1>8 DEF Opens
  <2>2. p # Closed /\ hdr[p] # 0
    BY <1>3 DEF HeaderRead
  <2> HIDE DEF p, q
  <2>4. q # NoFile /\ hdr[q] # 0
    BY <2>1, <2>2
  <2> QED BY <2>4 DEF q
<1>10. CASE BeingDropped(n)
  BY <1>2, <1>4, <1>10 DEF BeingDropped, LinkGood
<1>11. CASE disk[n]["main"] # NoFile /\ hdr[disk[n]["main"]] = ent[e].id
  <2>1. disk[n]["main"] # <<e, "main">>
    BY <1>6 DEF NotOnDisk
  <2>2. /\ ent'[e].name = n /\ ent'[e].id = ent[e].id
        /\ disk' = disk /\ hdr' = hdr
    BY <1>2, <1>3
  <2> DEFINE a == disk[n]["main"]  b == disk[n]["group"]
  <2>3. a # NoFile /\ b # NoFile /\ hdr[a] = ent[e].id /\ hdr[b] # 0 /\ a # <<e, "main">>
    BY <1>9, <1>11, <2>1
  <2>4. disk'[n]["main"] = a /\ disk'[n]["group"] = b
    BY <2>2
  <2> HIDE DEF a, b
  <2>5. Whole(e)'
    BY <2>2, <2>3, <2>4 DEF Whole
  <2> QED BY <1>4, <2>5 DEF LinkGood
<1> QED BY <1>7, <1>10, <1>11

LEMMA LinkedGood ==
  Inv /\ [Next]_vars /\ ~headLost' =>
    \A e \in Entries : lnext[e] = NULL /\ lnext'[e] # NULL =>
      Whole(e)' \/ \E w \in Sessions : Dropping(w, ent[e].name)
<1> SUFFICES ASSUME Inv, [Next]_vars, ~headLost', NEW e \in Entries, lnext[e] = NULL, lnext'[e] # NULL
             PROVE  LinkGood(e)
  BY DEF LinkGood
<1>1. PICK w \in Sessions : CreateEnd(w) \/ LoadGroup(w)
  BY LinkSteps
<1> QED BY <1>1, CreateEndWhole, LoadGroupWhole

\* As long as no table has lost its first descriptor, a table enters the list, at the end of
\* CREATE TABLE or of LoadTblInfo, with both of its files and their header pages in place,
\* unless a session is dropping it at that moment: whatever a kill, a lost file handle or a
\* creation that failed has left on the disk.
THEOREM WholeWhenLinked == Spec => LinkedIsWhole
<1>1. (headLost \/ Inv) /\ [Next]_vars =>
        [~headLost' =>
           \A e \in Entries : lnext[e] = NULL /\ lnext'[e] # NULL
             => \/ Whole(e)'
                \/ \E w \in Sessions : Dropping(w, ent[e].name)]_vars
  BY LinkedGood, HeadLostStays
<1> QED BY <1>1, DictionaryInv, PTL DEF LinkedIsWhole, Spec
=============================================================================

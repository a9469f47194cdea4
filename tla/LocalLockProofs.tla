--------------------------- MODULE LocalLockProofs ---------------------------
(***************************************************************************)
(* Lemmas about the operators of LocalLock.  Has says what the table of a  *)
(* thread and the pthread locks have in common while the thread only has   *)
(* locks for writing: h[l] is the number of times the thread has lock l.   *)
(* Each operation changes h as a counting lock would, a second release of  *)
(* a lock included, as long as the table is not full.                      *)
(***************************************************************************)
EXTENDS LocalLock, NatInductions, SequenceTheorems

USE LocalLockAssumption

TabEntries(Ls) == [lock : Ls, mode : {READ, WRITE}, cnt : Nat \ {0}]
RWStates(Ts)   == [writer : Ts \cup {NoThread}, readers : Int]

LockStates(Ts, Ls) ==
  {L \in [tab : [Ts -> Seq(TabEntries(Ls))], rw : [Ls -> RWStates(Ts)]] :
     \A t \in Ts : Len(L.tab[t]) <= MaxLocalLocks}

\* Thread t has lock l h[l] times, n locks in all, each of them for writing.
Has(L, Ls, t, h, n) ==
  /\ h \in [Ls -> Nat]
  /\ Len(L.tab[t]) = n
  /\ \A i \in 1..n : L.tab[t][i].mode = WRITE /\ L.tab[t][i].cnt = h[L.tab[t][i].lock]
  /\ \A i, j \in 1..n : L.tab[t][i].lock = L.tab[t][j].lock => i = j
  /\ \A l \in Ls : h[l] > 0 <=> \E i \in 1..n : L.tab[t][i].lock = l
  /\ \A l \in Ls : L.rw[l].writer = t <=> h[l] > 0

\* The other threads keep what they have.
Others(L, N, Ts, Ls, t) ==
  \A u \in Ts \ {t} : /\ N.tab[u] = L.tab[u]
                      /\ \A l \in Ls : N.rw[l].writer = u <=> L.rw[l].writer = u

LEMMA OthersHave ==
  ASSUME NEW Ts, NEW Ls, NEW t, NEW L, NEW N, Others(L, N, Ts, Ls, t),
         NEW u \in Ts \ {t}, NEW h, NEW n, Has(L, Ls, u, h, n)
  PROVE  Has(N, Ls, u, h, n)
<1> DEFINE a == L.tab[u]  b == N.tab[u]
<1>1. b = a /\ \A l \in Ls : N.rw[l].writer = u <=> L.rw[l].writer = u
  BY DEF Others
<1>2. /\ h \in [Ls -> Nat] /\ Len(a) = n
      /\ \A i \in 1..n : a[i].mode = WRITE /\ a[i].cnt = h[a[i].lock]
      /\ \A i, j \in 1..n : a[i].lock = a[j].lock => i = j
      /\ \A l \in Ls : h[l] > 0 <=> \E i \in 1..n : a[i].lock = l
      /\ \A l \in Ls : L.rw[l].writer = u <=> h[l] > 0
  BY DEF Has
<1>3. \A l \in Ls : N.rw[l].writer = u <=> h[l] > 0
  BY <1>1, <1>2
<1> HIDE DEF a, b
<1>4. /\ h \in [Ls -> Nat] /\ Len(b) = n
      /\ \A i \in 1..n : b[i].mode = WRITE /\ b[i].cnt = h[b[i].lock]
      /\ \A i, j \in 1..n : b[i].lock = b[j].lock => i = j
      /\ \A l \in Ls : h[l] > 0 <=> \E i \in 1..n : b[i].lock = l
  BY <1>1, <1>2
<1> QED BY <1>3, <1>4 DEF Has, b

LEMMA OthersTrans ==
  ASSUME NEW Ts, NEW Ls, NEW t, NEW L, NEW M, NEW N, Others(L, M, Ts, Ls, t), Others(M, N, Ts, Ls, t)
  PROVE  Others(L, N, Ts, Ls, t)
BY DEF Others

-----------------------------------------------------------------------------
(* The table of a thread *)

LEMMA SearchIs ==
  ASSUME NEW E, NEW tab \in Seq(E), NEW l
  PROVE  LET i == SearchLocalLockTable(tab, l)
         IN  \/ i = 0 /\ \A j \in 1..Len(tab) : tab[j].lock # l
             \/ i \in 1..Len(tab) /\ tab[i].lock = l
<1> DEFINE T == {j \in 1..Len(tab) : tab[j].lock = l}
<1>1. CASE T = {}
  BY <1>1 DEF SearchLocalLockTable
<1>2. CASE T # {}
  <2>1. T \in SUBSET Nat
    OBVIOUS
  <2>2. PICK x \in T : \A y \in T : x <= y
    <3> HIDE DEF T
    <3> QED BY <1>2, <2>1, LeastNat
  <2>3. x \in 1..Len(tab) /\ tab[x].lock = l /\ \A j \in 1..(x - 1) : tab[j].lock # l
    BY <2>2
  <2>4. \E i \in 1..Len(tab) : tab[i].lock = l
    BY <2>3
  <2>5. SearchLocalLockTable(tab, l) =
          CHOOSE i \in 1..Len(tab) : tab[i].lock = l /\ \A j \in 1..(i - 1) : tab[j].lock # l
    BY <2>4 DEF SearchLocalLockTable
  <2> QED BY <2>3, <2>5, Zenon
<1> QED BY <1>1, <1>2

LEMMA RemoveIs ==
  ASSUME NEW E, NEW tab \in Seq(E), NEW i \in 1..Len(tab)
  PROVE  LET r == RemoveLocalLock(tab, i)
         IN  /\ r \in Seq(E) /\ Len(r) = Len(tab) - 1
             /\ \A k \in 1..(Len(tab) - 1) : r[k] = IF k < i THEN tab[k] ELSE tab[k + 1]
<1> DEFINE a == SubSeq(tab, 1, i - 1)  b == SubSeq(tab, i + 1, Len(tab))
<1>1. a \in Seq(E) /\ Len(a) = i - 1 /\ \A k \in 1..(i - 1) : a[k] = tab[k]
  OBVIOUS
<1>2. b \in Seq(E) /\ Len(b) = Len(tab) - i /\ \A k \in 1..(Len(tab) - i) : b[k] = tab[i + k]
  <2>1. i + 1 \in Int /\ Len(tab) \in Int /\ \A k \in (i + 1)..Len(tab) : tab[k] \in E
    OBVIOUS
  <2>2. /\ b \in Seq(E) /\ Len(b) = IF i + 1 <= Len(tab) THEN Len(tab) - (i + 1) + 1 ELSE 0
        /\ \A k \in 1..(Len(tab) - (i + 1) + 1) : b[k] = tab[i + 1 + k - 1]
    BY <2>1, SubSeqProperties
  <2> HIDE DEF b
  <2>3. Len(b) = Len(tab) - i
    BY <2>2
  <2>4. ASSUME NEW k \in 1..(Len(tab) - i) PROVE b[k] = tab[i + k]
    <3>1. i + 1 + k - 1 = i + k /\ k \in 1..(Len(tab) - (i + 1) + 1)
      OBVIOUS
    <3> QED BY <2>2, <3>1
  <2> QED BY <2>2, <2>3, <2>4
<1> HIDE DEF a, b
<1>3. a \o b \in Seq(E) /\ Len(a \o b) = Len(tab) - 1
  <2>1. a \o b \in Seq(E) /\ Len(a \o b) = Len(a) + Len(b)
    BY <1>1, <1>2, ConcatProperties
  <2> QED BY <1>1, <1>2, <2>1
<1>4. ASSUME NEW k \in 1..(Len(tab) - 1) PROVE (a \o b)[k] = IF k < i THEN tab[k] ELSE tab[k + 1]
  <2>1. CASE k < i
    BY <1>1, <1>2, <2>1
  <2>2. CASE ~(k < i)
    <3>1. (a \o b)[k] = b[k - (i - 1)]
      BY <1>1, <1>2, <2>2
    <3>2. k - (i - 1) \in 1..(Len(tab) - i) /\ i + (k - (i - 1)) = k + 1
      BY <2>2
    <3> QED BY <1>2, <2>2, <3>1, <3>2
  <2> QED BY <2>1, <2>2
<1> QED BY <1>3, <1>4 DEF RemoveLocalLock, a, b

-----------------------------------------------------------------------------
(* Types *)

LEMMA LockFields ==
  ASSUME NEW Ts, NEW Ls, NEW L \in LockStates(Ts, Ls), NEW t \in Ts, NEW l \in Ls
  PROVE  /\ L.tab \in [Ts -> Seq(TabEntries(Ls))] /\ L.rw \in [Ls -> RWStates(Ts)]
         /\ L.tab[t] \in Seq(TabEntries(Ls)) /\ Len(L.tab[t]) <= MaxLocalLocks
         /\ L.rw[l] \in RWStates(Ts)
BY DEF LockStates

LEMMA LockRecord ==
  ASSUME NEW A, NEW B, NEW a \in A, NEW b \in B, NEW N, N = [tab |-> a, rw |-> b]
  PROVE  N \in [tab : A, rw : B] /\ N.tab = a /\ N.rw = b
OBVIOUS

\* A state in which the table of one thread and one pthread lock are other ones.
Both(L, t, l, tab, rw) ==
  [tab |-> [L.tab EXCEPT ![t] = tab], rw |-> [L.rw EXCEPT ![l] = rw]]

IsBoth(L, N, Ts, Ls, t, l, tab, rw) ==
  /\ N \in LockStates(Ts, Ls)
  /\ N.tab[t] = tab /\ N.rw[l] = rw
  /\ \A u \in Ts \ {t} : N.tab[u] = L.tab[u]
  /\ \A k \in Ls \ {l} : N.rw[k] = L.rw[k]

LEMMA LockUpdate ==
  ASSUME NEW Ts, NEW Ls, NEW L \in LockStates(Ts, Ls), NEW t \in Ts, NEW l \in Ls,
         NEW tab \in Seq(TabEntries(Ls)), Len(tab) <= MaxLocalLocks, NEW rw \in RWStates(Ts),
         NEW N, N = Both(L, t, l, tab, rw)
  PROVE  IsBoth(L, N, Ts, Ls, t, l, tab, rw)
<1> DEFINE T == [L.tab EXCEPT ![t] = tab]  W == [L.rw EXCEPT ![l] = rw]
<1>1. L.tab \in [Ts -> Seq(TabEntries(Ls))] /\ L.rw \in [Ls -> RWStates(Ts)]
      /\ \A u \in Ts : Len(L.tab[u]) <= MaxLocalLocks
  BY DEF LockStates
<1> HIDE DEF LockStates, TabEntries, RWStates
<1>2. T \in [Ts -> Seq(TabEntries(Ls))] /\ T[t] = tab /\ \A u \in Ts \ {t} : T[u] = L.tab[u]
  BY <1>1
<1>3. W \in [Ls -> RWStates(Ts)] /\ W[l] = rw /\ \A k \in Ls \ {l} : W[k] = L.rw[k]
  BY <1>1
<1>n. N = [tab |-> T, rw |-> W]
  BY DEF Both
<1> HIDE DEF T, W
<1>4. N \in [tab : [Ts -> Seq(TabEntries(Ls))], rw : [Ls -> RWStates(Ts)]]
      /\ N.tab = T /\ N.rw = W
  BY <1>2, <1>3, <1>n, LockRecord
<1>5. \A u \in Ts : Len(N.tab[u]) <= MaxLocalLocks
  BY <1>1, <1>2, <1>4
<1>6. N \in LockStates(Ts, Ls)
  BY <1>4, <1>5 DEF LockStates
<1> QED BY <1>2, <1>3, <1>4, <1>6 DEF IsBoth

\* The same when only a table is another one.
OneTab(L, t, tab) == [L EXCEPT !.tab[t] = tab]

IsOneTab(L, N, Ts, Ls, t, tab) ==
  /\ N \in LockStates(Ts, Ls) /\ N.tab[t] = tab /\ N.rw = L.rw
  /\ \A u \in Ts \ {t} : N.tab[u] = L.tab[u]

LEMMA TabUpdate ==
  ASSUME NEW Ts, NEW Ls, NEW L \in LockStates(Ts, Ls), NEW t \in Ts,
         NEW tab \in Seq(TabEntries(Ls)), Len(tab) <= MaxLocalLocks,
         NEW N, N = OneTab(L, t, tab)
  PROVE  IsOneTab(L, N, Ts, Ls, t, tab)
<1> DEFINE T == [L.tab EXCEPT ![t] = tab]
<1>1. L \in [tab : [Ts -> Seq(TabEntries(Ls))], rw : [Ls -> RWStates(Ts)]]
      /\ \A u \in Ts : Len(L.tab[u]) <= MaxLocalLocks
  BY DEF LockStates
<1> HIDE DEF LockStates, TabEntries, RWStates
<1>2. T \in [Ts -> Seq(TabEntries(Ls))] /\ T[t] = tab /\ \A u \in Ts \ {t} : T[u] = L.tab[u]
  BY <1>1
<1>3. N = [L EXCEPT !.tab = T]
  BY DEF OneTab
<1> HIDE DEF T
<1>4. N.tab = T /\ N.rw = L.rw /\ N \in [tab : [Ts -> Seq(TabEntries(Ls))], rw : [Ls -> RWStates(Ts)]]
  BY <1>1, <1>2, <1>3
<1>5. \A u \in Ts : Len(N.tab[u]) <= MaxLocalLocks
  BY <1>1, <1>2, <1>4
<1>6. N \in LockStates(Ts, Ls)
  BY <1>4, <1>5 DEF LockStates
<1> QED BY <1>2, <1>4, <1>6 DEF IsOneTab

\* What AcquireRWLockLocal does: nothing, count a lock that is there, or take it.
Refuses(tab, l, mode) ==
  Len(tab) >= MaxLocalLocks \/ \E i \in 1..Len(tab) : tab[i].lock = l /\ tab[i].mode # mode
Counts(tab, i, d) == [tab EXCEPT ![i].cnt = @ + d]
Takes(tab, l, mode) == Append(tab, [lock |-> l, mode |-> mode, cnt |-> 1])

Acquires(L, N, Ts, Ls, t, l, mode) ==
  \/ N = L /\ Refuses(L.tab[t], l, mode)
  \/ \E i \in 1..Len(L.tab[t]) :
       L.tab[t][i].lock = l /\ IsOneTab(L, N, Ts, Ls, t, Counts(L.tab[t], i, 1))
  \/ /\ \A i \in 1..Len(L.tab[t]) : L.tab[t][i].lock # l
     /\ IsBoth(L, N, Ts, Ls, t, l, Takes(L.tab[t], l, mode), AcquireRWLock(L.rw[l], t, mode))

LEMMA AcquireIs ==
  ASSUME NEW Ts, NEW Ls, NEW L \in LockStates(Ts, Ls), NEW t \in Ts, NEW l \in Ls,
         NEW mode \in {READ, WRITE}, NEW N, N = AcquireRWLockLocal(L, t, l, mode)
  PROVE  N \in LockStates(Ts, Ls) /\ Acquires(L, N, Ts, Ls, t, l, mode)
<1> DEFINE tab == L.tab[t]
           i == SearchLocalLockTable(tab, l)
<1>1. tab \in Seq(TabEntries(Ls)) /\ Len(tab) <= MaxLocalLocks /\ L.rw[l] \in RWStates(Ts)
  BY LockFields
<1>2. \/ i = 0 /\ \A j \in 1..Len(tab) : tab[j].lock # l
      \/ i \in 1..Len(tab) /\ tab[i].lock = l
  BY <1>1, SearchIs
<1>3. N = IF Len(tab) >= MaxLocalLocks \/ (i # 0 /\ tab[i].mode # mode) THEN L
          ELSE IF i # 0 THEN [L EXCEPT !.tab[t][i].cnt = @ + 1]
          ELSE [tab |-> [L.tab EXCEPT ![t] = Append(@, [lock |-> l, mode |-> mode, cnt |-> 1])],
                rw  |-> [L.rw EXCEPT ![l] = AcquireRWLock(@, t, mode)]]
  BY DEF AcquireRWLockLocal, TableFull
<1> HIDE DEF i
<1>4. CASE Len(tab) >= MaxLocalLocks \/ (i # 0 /\ tab[i].mode # mode)
  BY <1>2, <1>3, <1>4 DEF Acquires, Refuses
<1>5. CASE ~(Len(tab) >= MaxLocalLocks \/ (i # 0 /\ tab[i].mode # mode)) /\ i # 0
  <2> DEFINE tab2 == [tab EXCEPT ![i].cnt = @ + 1]
  <2>0. i \in 1..Len(tab) /\ tab[i].lock = l /\ Len(tab) < MaxLocalLocks
    BY <1>1, <1>2, <1>5
  <2>1. N = OneTab(L, t, tab2)
    BY <1>3, <1>5 DEF OneTab
  <2>2. tab[i] \in TabEntries(Ls)
    BY <1>1, <2>0
  <2>3. [tab[i] EXCEPT !.cnt = @ + 1] \in TabEntries(Ls)
    BY <2>2 DEF TabEntries
  <2>4. tab2 \in Seq(TabEntries(Ls)) /\ Len(tab2) = Len(tab)
    <3> HIDE DEF tab, TabEntries
    <3> QED BY <1>1, <2>0, <2>3
  <2> HIDE DEF tab2
  <2>l. Len(tab2) <= MaxLocalLocks
    BY <1>1, <2>4
  <2>5. IsOneTab(L, N, Ts, Ls, t, tab2)
    <3> HIDE DEF tab
    <3> QED BY <2>1, <2>4, <2>l, TabUpdate
  <2>6. N \in LockStates(Ts, Ls)
    BY <2>5 DEF IsOneTab
  <2> QED BY <2>0, <2>5, <2>6 DEF Acquires, Counts, tab2
<1>6. CASE ~(Len(tab) >= MaxLocalLocks \/ (i # 0 /\ tab[i].mode # mode)) /\ i = 0
  <2> DEFINE e == [lock |-> l, mode |-> mode, cnt |-> 1]
             tab2 == Append(tab, e)
             r == AcquireRWLock(L.rw[l], t, mode)
  <2>1. N = Both(L, t, l, tab2, r)
    BY <1>3, <1>6 DEF Both
  <2>2. e \in TabEntries(Ls)
    BY DEF TabEntries
  <2>3. r \in RWStates(Ts)
    BY <1>1 DEF AcquireRWLock, RWStates
  <2>4. Len(tab) < MaxLocalLocks /\ \A j \in 1..Len(tab) : tab[j].lock # l
    BY <1>1, <1>2, <1>6
  <2> HIDE DEF e
  <2>5. tab2 \in Seq(TabEntries(Ls)) /\ Len(tab2) = Len(tab) + 1
    <3> HIDE DEF tab
    <3> QED BY <1>1, <2>2, AppendProperties
  <2>6. Len(tab2) <= MaxLocalLocks
    BY <1>1, <2>4, <2>5
  <2> HIDE DEF tab2, r
  <2>7. IsBoth(L, N, Ts, Ls, t, l, tab2, r)
    BY <2>1, <2>3, <2>5, <2>6, LockUpdate
  <2>8. N \in LockStates(Ts, Ls)
    BY <2>7 DEF IsBoth
  <2> QED BY <2>4, <2>7, <2>8 DEF Acquires, Takes, tab2, r, e
<1> QED BY <1>4, <1>5, <1>6

\* What ReleaseRWLockLocal does: nothing, count down, give back a lock that is there, or unlock
\* one that is not.
Releases(L, N, Ts, Ls, t, l) ==
  \/ L.tab[t] = << >> /\ N = L
  \/ \E i \in 1..Len(L.tab[t]) :
       /\ L.tab[t][i].lock = l /\ L.tab[t][i].cnt > 1
       /\ IsOneTab(L, N, Ts, Ls, t, Counts(L.tab[t], i, -1))
  \/ \E i \in 1..Len(L.tab[t]) :
       /\ L.tab[t][i].lock = l /\ ~(L.tab[t][i].cnt > 1)
       /\ IsBoth(L, N, Ts, Ls, t, l, RemoveLocalLock(L.tab[t], i), ReleaseRWLock(L.rw[l], t))
  \/ /\ \A i \in 1..Len(L.tab[t]) : L.tab[t][i].lock # l
     /\ IsBoth(L, N, Ts, Ls, t, l, L.tab[t], ReleaseRWLock(L.rw[l], t))

LEMMA ReleaseIs ==
  ASSUME NEW Ts, NEW Ls, NEW L \in LockStates(Ts, Ls), NEW t \in Ts, NEW l \in Ls,
         NEW N, N = ReleaseRWLockLocal(L, t, l)
  PROVE  N \in LockStates(Ts, Ls) /\ Releases(L, N, Ts, Ls, t, l)
<1> DEFINE tab == L.tab[t]
           i == SearchLocalLockTable(tab, l)
           r == ReleaseRWLock(L.rw[l], t)
<1>1. tab \in Seq(TabEntries(Ls)) /\ Len(tab) <= MaxLocalLocks /\ L.rw[l] \in RWStates(Ts)
  BY LockFields
<1>2. \/ i = 0 /\ \A j \in 1..Len(tab) : tab[j].lock # l
      \/ i \in 1..Len(tab) /\ tab[i].lock = l
  BY <1>1, SearchIs
<1>3. N = IF tab = << >> THEN L
          ELSE IF i # 0 /\ tab[i].cnt > 1 THEN [L EXCEPT !.tab[t][i].cnt = @ - 1]
          ELSE [tab |-> [L.tab EXCEPT ![t] = IF i # 0 THEN RemoveLocalLock(@, i) ELSE @],
                rw  |-> [L.rw EXCEPT ![l] = ReleaseRWLock(@, t)]]
  BY DEF ReleaseRWLockLocal
<1>r. r \in RWStates(Ts)
  BY <1>1 DEF ReleaseRWLock, RWStates
<1> HIDE DEF i
<1>4. CASE tab = << >>
  BY <1>3, <1>4 DEF Releases
<1>5. CASE tab # << >> /\ i # 0 /\ tab[i].cnt > 1
  <2> DEFINE tab2 == [tab EXCEPT ![i].cnt = @ - 1]
  <2>0. i \in 1..Len(tab) /\ tab[i].lock = l
    BY <1>1, <1>2, <1>5
  <2>1. N = OneTab(L, t, tab2)
    BY <1>3, <1>5 DEF OneTab
  <2>2. tab[i] \in TabEntries(Ls)
    BY <1>1, <2>0
  <2>3. [tab[i] EXCEPT !.cnt = @ - 1] \in TabEntries(Ls)
    BY <1>5, <2>2 DEF TabEntries
  <2>4. tab2 \in Seq(TabEntries(Ls)) /\ Len(tab2) = Len(tab)
    <3> HIDE DEF tab, TabEntries
    <3> QED BY <1>1, <2>0, <2>3
  <2> HIDE DEF tab2
  <2>l. Len(tab2) <= MaxLocalLocks
    BY <1>1, <2>4
  <2>5. IsOneTab(L, N, Ts, Ls, t, tab2)
    <3> HIDE DEF tab
    <3> QED BY <2>1, <2>4, <2>l, TabUpdate
  <2>6. N \in LockStates(Ts, Ls)
    BY <2>5 DEF IsOneTab
  <2>7. tab2 = Counts(tab, i, -1)
    <3>1. tab[i].cnt \in Int /\ tab[i].cnt - 1 = tab[i].cnt + (-1)
      BY <2>2 DEF TabEntries
    <3> QED BY <3>1 DEF tab2, Counts
  <2> QED BY <1>5, <2>0, <2>5, <2>6, <2>7 DEF Releases
<1>6. CASE tab # << >> /\ i # 0 /\ ~(tab[i].cnt > 1)
  <2> DEFINE tab2 == RemoveLocalLock(tab, i)
  <2>0. i \in 1..Len(tab) /\ tab[i].lock = l
    BY <1>1, <1>2, <1>6
  <2>1. N = Both(L, t, l, tab2, r)
    BY <1>3, <1>6 DEF Both
  <2>2. tab2 \in Seq(TabEntries(Ls)) /\ Len(tab2) = Len(tab) - 1
    <3> HIDE DEF tab
    <3> QED BY <1>1, <2>0, RemoveIs
  <2>3. Len(tab2) <= MaxLocalLocks
    BY <1>1, <2>2
  <2> HIDE DEF tab2, r
  <2>4. IsBoth(L, N, Ts, Ls, t, l, tab2, r)
    BY <1>r, <2>1, <2>2, <2>3, LockUpdate
  <2>5. N \in LockStates(Ts, Ls)
    BY <2>4 DEF IsBoth
  <2> QED BY <1>6, <2>0, <2>4, <2>5 DEF Releases, tab2, r
<1>7. CASE tab # << >> /\ i = 0
  <2>0. \A j \in 1..Len(tab) : tab[j].lock # l
    BY <1>2, <1>7
  <2>1. N = Both(L, t, l, tab, r)
    BY <1>3, <1>7 DEF Both
  <2> HIDE DEF r
  <2>4. IsBoth(L, N, Ts, Ls, t, l, tab, r)
    <3> HIDE DEF tab
    <3> QED BY <1>1, <1>r, <2>1, LockUpdate
  <2>5. N \in LockStates(Ts, Ls)
    BY <2>4 DEF IsBoth
  <2> QED BY <2>0, <2>4, <2>5 DEF Releases, r
<1> QED BY <1>4, <1>5, <1>6, <1>7

-----------------------------------------------------------------------------
(* What a thread has *)

Shift(h, l, d) == [h EXCEPT ![l] = @ + d]
Plus(h, l)  == [h EXCEPT ![l] = @ + 1]
Minus(h, l) == [h EXCEPT ![l] = IF @ > 0 THEN @ - 1 ELSE 0]

\* The table and the writers, apart.
TabHas(tab, Ls, h, n) ==
  /\ Len(tab) = n
  /\ \A i \in 1..n : tab[i].mode = WRITE /\ tab[i].cnt = h[tab[i].lock]
  /\ \A i, j \in 1..n : tab[i].lock = tab[j].lock => i = j
  /\ \A l \in Ls : h[l] > 0 <=> \E i \in 1..n : tab[i].lock = l
WriterOf(rw, Ls, t, h) == \A l \in Ls : rw[l].writer = t <=> h[l] > 0

LEMMA HasIs ==
  ASSUME NEW L, NEW Ls, NEW t, NEW h, NEW n
  PROVE  Has(L, Ls, t, h, n) <=>
           h \in [Ls -> Nat] /\ TabHas(L.tab[t], Ls, h, n) /\ WriterOf(L.rw, Ls, t, h)
BY DEF Has, TabHas, WriterOf

LEMMA TabCounted ==
  ASSUME NEW Ls, NEW tab \in Seq(TabEntries(Ls)), NEW h \in [Ls -> Nat], NEW n, TabHas(tab, Ls, h, n),
         NEW i \in 1..Len(tab), NEW l, tab[i].lock = l, NEW d \in Int, tab[i].cnt + d > 0
  PROVE  TabHas(Counts(tab, i, d), Ls, Shift(h, l, d), n)
<1> DEFINE f == Counts(tab, i, d)
           k == Shift(h, l, d)
<1>0. Len(tab) \in Nat /\ n = Len(tab) /\ \A j \in 1..n : tab[j] \in TabEntries(Ls)
  BY DEF TabHas
<1>1. \A j \in 1..n : tab[j].lock \in Ls /\ tab[j].cnt \in Nat
  BY <1>0 DEF TabEntries
<1>2. DOMAIN f = 1..n /\ \A j \in 1..n : j # i => f[j] = tab[j]
  BY <1>0 DEF Counts
<1>3. f[i] = [tab[i] EXCEPT !.cnt = @ + d]
  BY <1>0 DEF Counts
<1>4. f[i].lock = tab[i].lock /\ f[i].mode = tab[i].mode /\ f[i].cnt = tab[i].cnt + d
  BY <1>0, <1>3 DEF TabEntries
<1>5. f \in Seq(TabEntries(Ls)) /\ Len(f) = n
  <2>0. tab[i].cnt + d \in Nat \ {0} /\ tab[i] \in TabEntries(Ls)
    BY <1>0, <1>1
  <2>1. f[i] \in TabEntries(Ls)
    BY <1>3, <2>0 DEF TabEntries
  <2>2. PICK e : e = [tab[i] EXCEPT !.cnt = @ + d]
    OBVIOUS
  <2>3. f = [tab EXCEPT ![i] = e]
    BY <2>2 DEF Counts
  <2> HIDE DEF f
  <2> QED BY <1>0, <1>3, <2>1, <2>2, <2>3
<1>6. \A j \in 1..n : f[j].lock = tab[j].lock /\ f[j].mode = tab[j].mode
  BY <1>2, <1>4
<1>h. /\ \A j \in 1..n : tab[j].mode = WRITE /\ tab[j].cnt = h[tab[j].lock]
      /\ \A a, b \in 1..n : tab[a].lock = tab[b].lock => a = b
      /\ \A m \in Ls : h[m] > 0 <=> \E j \in 1..n : tab[j].lock = m
  BY DEF TabHas
<1>k. k[tab[i].lock] = h[tab[i].lock] + d /\ \A m \in Ls : m # tab[i].lock => k[m] = h[m]
  BY <1>0, <1>1 DEF Shift
<1> HIDE DEF f, k
<1>7. \A j \in 1..n : f[j].cnt = k[f[j].lock]
  <2> SUFFICES ASSUME NEW j \in 1..n PROVE f[j].cnt = k[f[j].lock]
    OBVIOUS
  <2>1. CASE j = i
    BY <1>4, <1>h, <1>k, <2>1
  <2>2. CASE j # i
    <3>1. tab[j].lock # tab[i].lock
      BY <1>0, <1>h, <2>2
    <3> QED BY <1>1, <1>2, <1>h, <1>k, <2>2, <3>1
  <2> QED BY <2>1, <2>2
<1>8. \A m \in Ls : k[m] > 0 <=> \E j \in 1..n : f[j].lock = m
  <2> SUFFICES ASSUME NEW m \in Ls PROVE k[m] > 0 <=> \E j \in 1..n : f[j].lock = m
    OBVIOUS
  <2>1. CASE m = tab[i].lock
    BY <1>0, <1>4, <1>h, <1>k, <2>1
  <2>2. CASE m # tab[i].lock
    BY <1>6, <1>h, <1>k, <2>2
  <2> QED BY <2>1, <2>2
<1>9. TabHas(f, Ls, k, n)
  BY <1>5, <1>6, <1>7, <1>8, <1>h DEF TabHas
<1> QED BY <1>9 DEF f, k

LEMMA AcquireHolds ==
  ASSUME NEW Ts, NEW Ls, NEW L \in LockStates(Ts, Ls), NEW t \in Ts, NoThread \notin Ts, NEW l \in Ls,
         NEW h, NEW n, Has(L, Ls, t, h, n), n < MaxLocalLocks, CanAcquire(L, t, l, WRITE),
         NEW N, N = AcquireRWLockLocal(L, t, l, WRITE)
  PROVE  /\ N \in LockStates(Ts, Ls) /\ Others(L, N, Ts, Ls, t)
         /\ Has(N, Ls, t, Plus(h, l), IF h[l] = 0 THEN n + 1 ELSE n)
<1> DEFINE tab == L.tab[t]
<1>1. tab \in Seq(TabEntries(Ls)) /\ L.rw[l] \in RWStates(Ts) /\ L.rw \in [Ls -> RWStates(Ts)]
  BY LockFields
<1>2. N \in LockStates(Ts, Ls) /\ Acquires(L, N, Ts, Ls, t, l, WRITE)
  BY AcquireIs
<1>3. h \in [Ls -> Nat] /\ TabHas(tab, Ls, h, n) /\ WriterOf(L.rw, Ls, t, h)
  BY HasIs
<1>4. Len(tab) = n /\ \A i \in 1..n : tab[i].mode = WRITE
  BY <1>3 DEF TabHas
<1>7. ~Refuses(tab, l, WRITE)
  BY <1>4 DEF Refuses
<1>5. CASE \E i \in 1..Len(tab) : tab[i].lock = l
  <2>0. PICK i \in 1..Len(tab) : tab[i].lock = l /\ IsOneTab(L, N, Ts, Ls, t, Counts(tab, i, 1))
    BY <1>2, <1>5, <1>7 DEF Acquires
  <2>1. /\ tab[i].lock = l /\ N.rw = L.rw /\ N.tab[t] = Counts(tab, i, 1)
        /\ \A u \in Ts \ {t} : N.tab[u] = L.tab[u]
    BY <2>0 DEF IsOneTab
  <2>2. tab[i].cnt \in Nat
    <3>1. tab[i] \in TabEntries(Ls)
      BY <1>1
    <3> QED BY <3>1 DEF TabEntries
  <2>3. TabHas(N.tab[t], Ls, Plus(h, l), n)
    <3> HIDE DEF tab
    <3>1. 1 \in Int /\ tab[i].cnt + 1 > 0
      BY <2>2
    <3>2. Plus(h, l) = Shift(h, l, 1)
      BY DEF Plus, Shift
    <3> QED BY <1>1, <1>3, <2>1, <3>1, <3>2, TabCounted
  <2>4. h[l] > 0
    BY <1>3, <1>4, <1>5 DEF TabHas
  <2>5. WriterOf(N.rw, Ls, t, Plus(h, l)) /\ Plus(h, l) \in [Ls -> Nat]
    BY <1>3, <2>1, <2>4 DEF WriterOf, Plus
  <2>6. Others(L, N, Ts, Ls, t)
    BY <2>1 DEF Others
  <2>7. (IF h[l] = 0 THEN n + 1 ELSE n) = n
    BY <2>4
  <2> QED BY <1>2, <2>3, <2>5, <2>6, <2>7, HasIs
<1>6. CASE ~\E i \in 1..Len(tab) : tab[i].lock = l
  <2> DEFINE e == [lock |-> l, mode |-> WRITE, cnt |-> 1]
  <2>0. IsBoth(L, N, Ts, Ls, t, l, Takes(tab, l, WRITE), AcquireRWLock(L.rw[l], t, WRITE))
    BY <1>2, <1>6, <1>7 DEF Acquires
  <2>1. /\ N.tab[t] = Append(tab, e)
        /\ N.rw[l] = AcquireRWLock(L.rw[l], t, WRITE)
        /\ \A k \in Ls \ {l} : N.rw[k] = L.rw[k]
        /\ \A u \in Ts \ {t} : N.tab[u] = L.tab[u]
    BY <2>0 DEF IsBoth, Takes
  <2>2. Grantable(L.rw[l], WRITE)
    <3>1. SearchLocalLockTable(tab, l) = 0
      BY <1>1, <1>6, SearchIs
    <3> QED BY <1>4, <3>1 DEF CanAcquire, TableFull
  <2>3. L.rw[l].writer = NoThread /\ N.rw[l].writer = t
    BY <1>1, <2>1, <2>2 DEF Grantable, AcquireRWLock, RWStates
  <2>4. Others(L, N, Ts, Ls, t)
    <3> SUFFICES ASSUME NEW u \in Ts \ {t}
                 PROVE  N.tab[u] = L.tab[u] /\ \A k \in Ls : N.rw[k].writer = u <=> L.rw[k].writer = u
      BY DEF Others
    <3> QED BY <2>1, <2>3
  <2>5. h[l] = 0
    BY <1>3, <1>4, <1>6 DEF TabHas
  <2>6. Plus(h, l) \in [Ls -> Nat] /\ Plus(h, l)[l] = 1 /\ \A k \in Ls : k # l => Plus(h, l)[k] = h[k]
    BY <1>3, <2>5 DEF Plus
  <2>7. WriterOf(N.rw, Ls, t, Plus(h, l))
    BY <1>3, <2>1, <2>3, <2>6 DEF WriterOf
  <2>8. TabHas(Append(tab, e), Ls, Plus(h, l), n + 1)
    <3> DEFINE f == Append(tab, e)  k == Plus(h, l)
    <3>1. /\ n \in Nat /\ \A i \in 1..n : tab[i].mode = WRITE /\ tab[i].cnt = h[tab[i].lock]
          /\ \A i, j \in 1..n : tab[i].lock = tab[j].lock => i = j
          /\ \A m \in Ls : h[m] > 0 <=> \E i \in 1..n : tab[i].lock = m
      BY <1>1, <1>3 DEF TabHas
    <3>2. \A i \in 1..n : tab[i].lock \in Ls /\ tab[i].lock # l
      <4>1. \A i \in 1..n : tab[i] \in TabEntries(Ls)
        BY <1>1, <1>4
      <4> QED BY <1>4, <1>6, <4>1 DEF TabEntries
    <3>3. Len(f) = n + 1 /\ f[n + 1] = e /\ \A i \in 1..n : f[i] = tab[i]
      <4> HIDE DEF tab, e
      <4> QED BY <1>1, <1>4
    <3>4. e.lock = l /\ e.mode = WRITE /\ e.cnt = 1
      OBVIOUS
    <3> HIDE DEF f, k, e, tab
    <3>k. k[l] = 1 /\ \A m \in Ls : m # l => k[m] = h[m]
      BY <2>6 DEF k
    <3>5. \A i \in 1..(n + 1) : f[i].mode = WRITE /\ f[i].cnt = k[f[i].lock]
      <4> SUFFICES ASSUME NEW i \in 1..(n + 1) PROVE f[i].mode = WRITE /\ f[i].cnt = k[f[i].lock]
        OBVIOUS
      <4>1. CASE i = n + 1
        BY <3>3, <3>4, <3>k, <4>1
      <4>2. CASE i \in 1..n
        BY <3>1, <3>2, <3>3, <3>k, <4>2
      <4> QED BY <3>1, <4>1, <4>2
    <3>6. \A i, j \in 1..(n + 1) : f[i].lock = f[j].lock => i = j
      BY <3>1, <3>2, <3>3, <3>4
    <3>7. \A m \in Ls : k[m] > 0 <=> \E i \in 1..(n + 1) : f[i].lock = m
      <4> SUFFICES ASSUME NEW m \in Ls PROVE k[m] > 0 <=> \E i \in 1..(n + 1) : f[i].lock = m
        OBVIOUS
      <4>1. CASE m = l
        BY <3>1, <3>3, <3>4, <3>k, <4>1
      <4>2. CASE m # l
        <5>1. \A i \in 1..(n + 1) : f[i].lock = m => i \in 1..n /\ tab[i].lock = m
          BY <3>1, <3>3, <3>4, <4>2
        <5>2. \A i \in 1..n : tab[i].lock = m => i \in 1..(n + 1) /\ f[i].lock = m
          BY <3>1, <3>3
        <5> QED BY <3>1, <3>k, <4>2, <5>1, <5>2
      <4> QED BY <4>1, <4>2
    <3> QED BY <3>3, <3>5, <3>6, <3>7 DEF TabHas, f, k
  <2>9. (IF h[l] = 0 THEN n + 1 ELSE n) = n + 1
    BY <2>5
  <2> QED BY <1>2, <2>1, <2>4, <2>6, <2>7, <2>8, <2>9, HasIs
<1> QED BY <1>5, <1>6

LEMMA TabRemoved ==
  ASSUME NEW Ls, NEW tab \in Seq(TabEntries(Ls)), NEW h \in [Ls -> Nat], NEW n, TabHas(tab, Ls, h, n),
         NEW i \in 1..Len(tab), NEW l \in Ls, tab[i].lock = l, h[l] = 1
  PROVE  TabHas(RemoveLocalLock(tab, i), Ls, Minus(h, l), n - 1)
<1> DEFINE f == RemoveLocalLock(tab, i)
           k == Minus(h, l)
<1>0. n \in Nat /\ n = Len(tab) /\ i \in 1..n /\ \A j \in 1..n : tab[j] \in TabEntries(Ls)
  BY DEF TabHas
<1>1. \A j \in 1..n : tab[j].lock \in Ls
  BY <1>0 DEF TabEntries
<1>2. Len(f) = n - 1 /\ \A j \in 1..(n - 1) : f[j] = IF j < i THEN tab[j] ELSE tab[j + 1]
  BY <1>0, RemoveIs
<1>h. /\ \A j \in 1..n : tab[j].mode = WRITE /\ tab[j].cnt = h[tab[j].lock]
      /\ \A a, b \in 1..n : tab[a].lock = tab[b].lock => a = b
      /\ \A m \in Ls : h[m] > 0 <=> \E j \in 1..n : tab[j].lock = m
  BY DEF TabHas
<1>k. k[l] = 0 /\ \A m \in Ls : m # l => k[m] = h[m]
  BY DEF Minus
<1> HIDE DEF f, k
<1>3. \A j \in 1..(n - 1) : \E a \in 1..n : a # i /\ f[j] = tab[a] /\ a = IF j < i THEN j ELSE j + 1
  <2> SUFFICES ASSUME NEW j \in 1..(n - 1)
               PROVE  \E a \in 1..n : a # i /\ f[j] = tab[a] /\ a = IF j < i THEN j ELSE j + 1
    OBVIOUS
  <2>1. CASE j < i
    <3>1. j \in 1..n /\ j # i /\ f[j] = tab[j]
      BY <1>0, <1>2, <2>1
    <3> QED BY <2>1, <3>1
  <2>2. CASE ~(j < i)
    <3>1. j + 1 \in 1..n /\ j + 1 # i /\ f[j] = tab[j + 1]
      BY <1>0, <1>2, <2>2
    <3> QED BY <2>2, <3>1
  <2> QED BY <2>1, <2>2
<1>4. \A a \in 1..n : a # i => \E j \in 1..(n - 1) : f[j] = tab[a]
  <2> SUFFICES ASSUME NEW a \in 1..n, a # i PROVE \E j \in 1..(n - 1) : f[j] = tab[a]
    OBVIOUS
  <2>1. CASE a < i
    <3>1. a \in 1..(n - 1) /\ f[a] = tab[a]
      BY <1>0, <1>2, <2>1
    <3> QED BY <3>1
  <2>2. CASE ~(a < i)
    <3>1. a - 1 \in 1..(n - 1) /\ ~(a - 1 < i) /\ (a - 1) + 1 = a
      BY <1>0, <2>2
    <3>2. f[a - 1] = tab[a]
      BY <1>2, <3>1
    <3> QED BY <3>1, <3>2
  <2> QED BY <2>1, <2>2
<1>5. \A j \in 1..(n - 1) : f[j].mode = WRITE /\ f[j].cnt = k[f[j].lock]
  <2> SUFFICES ASSUME NEW j \in 1..(n - 1) PROVE f[j].mode = WRITE /\ f[j].cnt = k[f[j].lock]
    OBVIOUS
  <2>1. PICK a \in 1..n : a # i /\ f[j] = tab[a]
    BY <1>3
  <2>2. tab[a].lock # l
    BY <1>0, <1>h, <2>1
  <2> QED BY <1>1, <1>h, <1>k, <2>1, <2>2
<1>6. \A x, y \in 1..(n - 1) : f[x].lock = f[y].lock => x = y
  <2> SUFFICES ASSUME NEW x \in 1..(n - 1), NEW y \in 1..(n - 1), f[x].lock = f[y].lock PROVE x = y
    OBVIOUS
  <2>1. PICK a \in 1..n : f[x] = tab[a] /\ a = IF x < i THEN x ELSE x + 1
    BY <1>3
  <2>2. PICK b \in 1..n : f[y] = tab[b] /\ b = IF y < i THEN y ELSE y + 1
    BY <1>3
  <2>3. a = b
    BY <1>h, <2>1, <2>2
  <2> QED BY <1>0, <2>1, <2>2, <2>3
<1>7. \A m \in Ls : k[m] > 0 <=> \E j \in 1..(n - 1) : f[j].lock = m
  <2> SUFFICES ASSUME NEW m \in Ls PROVE k[m] > 0 <=> \E j \in 1..(n - 1) : f[j].lock = m
    OBVIOUS
  <2>1. ASSUME NEW j \in 1..(n - 1), f[j].lock = m PROVE k[m] > 0
    <3>1. PICK a \in 1..n : a # i /\ f[j] = tab[a]
      BY <1>3
    <3>2. tab[a].lock = m /\ m # l
      BY <1>0, <1>h, <2>1, <3>1
    <3> QED BY <1>h, <1>k, <3>2
  <2>2. ASSUME k[m] > 0 PROVE \E j \in 1..(n - 1) : f[j].lock = m
    <3>1. m # l /\ h[m] > 0
      BY <1>k, <2>2
    <3>2. PICK a \in 1..n : tab[a].lock = m
      BY <1>h, <3>1
    <3> QED BY <1>4, <3>1, <3>2
  <2> QED BY <2>1, <2>2
<1>8. TabHas(f, Ls, k, n - 1)
  BY <1>2, <1>5, <1>6, <1>7 DEF TabHas
<1> QED BY <1>8 DEF f, k

LEMMA ReleaseHolds ==
  ASSUME NEW Ts, NEW Ls, NEW L \in LockStates(Ts, Ls), NEW t \in Ts, NoThread \notin Ts, NEW l \in Ls,
         NEW h, NEW n, Has(L, Ls, t, h, n), NEW N, N = ReleaseRWLockLocal(L, t, l)
  PROVE  /\ N \in LockStates(Ts, Ls) /\ Others(L, N, Ts, Ls, t)
         /\ Has(N, Ls, t, Minus(h, l), IF h[l] = 1 THEN n - 1 ELSE n)
<1> DEFINE tab == L.tab[t]
<1>1. tab \in Seq(TabEntries(Ls)) /\ L.rw[l] \in RWStates(Ts) /\ L.rw \in [Ls -> RWStates(Ts)]
  BY LockFields
<1>2. N \in LockStates(Ts, Ls) /\ Releases(L, N, Ts, Ls, t, l)
  BY ReleaseIs
<1>3. h \in [Ls -> Nat] /\ TabHas(tab, Ls, h, n) /\ WriterOf(L.rw, Ls, t, h)
  BY HasIs
<1>4. /\ Len(tab) = n /\ n \in Nat /\ \A i \in 1..n : tab[i].cnt = h[tab[i].lock]
      /\ h[l] > 0 <=> \E i \in 1..n : tab[i].lock = l
  BY <1>1, <1>3 DEF TabHas
<1>5. Minus(h, l) \in [Ls -> Nat] /\ \A k \in Ls : k # l => Minus(h, l)[k] = h[k]
  BY <1>3 DEF Minus
<1>6. Minus(h, l)[l] = IF h[l] > 0 THEN h[l] - 1 ELSE 0
  BY <1>3 DEF Minus
<1>w. h[l] > 0 <=> L.rw[l].writer = t
  BY <1>3 DEF WriterOf
<1>7. CASE tab = << >> /\ N = L
  <2>1. h[l] = 0
    BY <1>3, <1>4, <1>7
  <2>2. Minus(h, l) = h
    BY <1>3, <2>1 DEF Minus
  <2>3. Others(L, N, Ts, Ls, t)
    BY <1>7 DEF Others
  <2> QED BY <1>2, <1>7, <2>1, <2>2, <2>3
<1>8. ASSUME NEW i \in 1..Len(tab), tab[i].lock = l, tab[i].cnt > 1,
             IsOneTab(L, N, Ts, Ls, t, Counts(tab, i, -1))
      PROVE  /\ N \in LockStates(Ts, Ls) /\ Others(L, N, Ts, Ls, t)
             /\ Has(N, Ls, t, Minus(h, l), IF h[l] = 1 THEN n - 1 ELSE n)
  <2>1. N.tab[t] = Counts(tab, i, -1) /\ N.rw = L.rw /\ \A u \in Ts \ {t} : N.tab[u] = L.tab[u]
    BY <1>8 DEF IsOneTab
  <2>2. tab[i].cnt = h[l] /\ h[l] > 1 /\ h[l] \in Nat
    BY <1>3, <1>4, <1>8
  <2>3. Minus(h, l) = Shift(h, l, -1)
    <3>1. (IF h[l] > 0 THEN h[l] - 1 ELSE 0) = h[l] + (-1)
      BY <2>2
    <3> QED BY <3>1 DEF Minus, Shift
  <2>4. TabHas(N.tab[t], Ls, Minus(h, l), n)
    <3>1. -1 \in Int /\ tab[i].cnt + (-1) > 0
      BY <2>2
    <3>2. PICK d : d = -1
      OBVIOUS
    <3> HIDE DEF tab
    <3>3. TabHas(Counts(tab, i, d), Ls, Shift(h, l, d), n)
      BY <1>1, <1>3, <1>8, <3>1, <3>2, TabCounted
    <3> QED BY <2>1, <2>3, <3>2, <3>3
  <2>5. WriterOf(N.rw, Ls, t, Minus(h, l))
    BY <1>3, <1>5, <1>6, <2>1, <2>2 DEF WriterOf
  <2>6. Others(L, N, Ts, Ls, t)
    BY <2>1 DEF Others
  <2>7. (IF h[l] = 1 THEN n - 1 ELSE n) = n
    BY <2>2
  <2> QED BY <1>2, <1>5, <2>4, <2>5, <2>6, <2>7, HasIs
<1>9. ASSUME NEW f, IsBoth(L, N, Ts, Ls, t, l, f, ReleaseRWLock(L.rw[l], t)), h[l] < 2
      PROVE  /\ N.tab[t] = f /\ Others(L, N, Ts, Ls, t) /\ WriterOf(N.rw, Ls, t, Minus(h, l))
  <2>1. /\ N.tab[t] = f /\ \A u \in Ts \ {t} : N.tab[u] = L.tab[u]
        /\ N.rw[l] = ReleaseRWLock(L.rw[l], t) /\ \A k \in Ls \ {l} : N.rw[k] = L.rw[k]
    BY <1>9 DEF IsBoth
  <2>2. N.rw[l].writer = IF L.rw[l].writer = t THEN NoThread ELSE L.rw[l].writer
    BY <1>1, <2>1 DEF ReleaseRWLock, RWStates
  <2>3. Others(L, N, Ts, Ls, t)
    BY <2>1, <2>2 DEF Others
  <2>4. h[l] \in Nat /\ Minus(h, l)[l] = 0 /\ N.rw[l].writer # t
    BY <1>3, <1>6, <1>9, <2>2
  <2>5. WriterOf(N.rw, Ls, t, Minus(h, l))
    BY <1>3, <1>5, <2>1, <2>4 DEF WriterOf
  <2> QED BY <2>1, <2>3, <2>5
<1>10. ASSUME NEW i \in 1..Len(tab), tab[i].lock = l, ~(tab[i].cnt > 1),
             IsBoth(L, N, Ts, Ls, t, l, RemoveLocalLock(tab, i), ReleaseRWLock(L.rw[l], t))
      PROVE  /\ N \in LockStates(Ts, Ls) /\ Others(L, N, Ts, Ls, t)
             /\ Has(N, Ls, t, Minus(h, l), IF h[l] = 1 THEN n - 1 ELSE n)
  <2>1. h[l] = 1
    <3>1. tab[i].cnt = h[l] /\ h[l] > 0 /\ h[l] \in Nat
      BY <1>3, <1>4, <1>10
    <3> QED BY <1>10, <3>1
  <2>2. /\ N.tab[t] = RemoveLocalLock(tab, i) /\ Others(L, N, Ts, Ls, t)
        /\ WriterOf(N.rw, Ls, t, Minus(h, l))
    BY <1>9, <1>10, <2>1
  <2>3. TabHas(N.tab[t], Ls, Minus(h, l), n - 1)
    <3> HIDE DEF tab
    <3>1. TabHas(RemoveLocalLock(tab, i), Ls, Minus(h, l), n - 1)
      BY <1>1, <1>3, <1>10, <2>1, TabRemoved
    <3> QED BY <2>2, <3>1
  <2> QED BY <1>2, <1>5, <2>1, <2>2, <2>3, HasIs
<1>11. CASE /\ \A i \in 1..Len(tab) : tab[i].lock # l
            /\ IsBoth(L, N, Ts, Ls, t, l, tab, ReleaseRWLock(L.rw[l], t))
  <2>1. h[l] = 0 /\ h[l] < 2
    BY <1>3, <1>4, <1>11
  <2>2. N.tab[t] = tab /\ Others(L, N, Ts, Ls, t) /\ WriterOf(N.rw, Ls, t, Minus(h, l))
    BY <1>9, <1>11, <2>1
  <2>3. Minus(h, l) = h
    BY <1>3, <2>1 DEF Minus
  <2> QED BY <1>2, <1>3, <1>5, <2>1, <2>2, <2>3, HasIs
<1> QED BY <1>2, <1>7, <1>8, <1>10, <1>11 DEF Releases

-----------------------------------------------------------------------------
(* Several locks one after the other *)

\* f[k] is the state after the first k releases.
Releasing(L, t, ls, f) ==
  f = [n \in 0..Len(ls) |-> IF n = 0 THEN L ELSE ReleaseRWLockLocal(f[n - 1], t, ls[n])]

LEMMA ReleasedIs ==
  ASSUME NEW Ts, NEW Ls, NEW L \in LockStates(Ts, Ls), NEW t \in Ts, NEW ls \in Seq(Ls)
  PROVE  \E f \in [0..Len(ls) -> LockStates(Ts, Ls)] :
           /\ f[0] = L /\ Released(L, t, ls) = f[Len(ls)]
           /\ \A k \in 1..Len(ls) : f[k] = ReleaseRWLockLocal(f[k - 1], t, ls[k])
<1> DEFINE S == LockStates(Ts, Ls)
           n == Len(ls)
           step == [k \in 1..n |-> [x \in S |-> ReleaseRWLockLocal(x, t, ls[k])]]
<1>0. n \in Nat /\ \A k \in 1..n : ls[k] \in Ls
  OBVIOUS
<1>1. \A k \in 1..n, x \in S : ReleaseRWLockLocal(x, t, ls[k]) \in S
  BY <1>0, ReleaseIs
<1> HIDE DEF S, n
<1>2. step \in [1..n -> [S -> S]]
  BY <1>1
<1>3. \A k \in 1..n, x \in S : step[k][x] = ReleaseRWLockLocal(x, t, ls[k])
  OBVIOUS
<1>s. L \in S
  BY DEF S
<1> HIDE DEF step
<1>4. PICK f \in [0..n -> S] : f[0] = L /\ \A k \in 1..n : f[k] = step[k][f[k - 1]]
  <2>1. HasIteration(n, S, L, step)
    BY <1>0, <1>2, <1>s, Iteration
  <2> QED BY <2>1 DEF HasIteration, Iterates
<1>5. \A k \in 1..n : k - 1 \in 0..n /\ f[k - 1] \in S
  BY <1>0, <1>4
<1>6. \A k \in 1..n : f[k] = ReleaseRWLockLocal(f[k - 1], t, ls[k])
  BY <1>3, <1>4, <1>5
<1>7. f = [k \in 0..n |-> IF k = 0 THEN L ELSE ReleaseRWLockLocal(f[k - 1], t, ls[k])]
  BY <1>0, <1>4, <1>6
<1>8. \E x : Releasing(L, t, ls, x)
  BY <1>7 DEF Releasing, n
<1> DEFINE R == CHOOSE x : Releasing(L, t, ls, x)
<1>9. Releasing(L, t, ls, R)
  BY <1>8, Zenon
<1>10. Released(L, t, ls) = R[n]
  BY Zenon DEF Released, Releasing, n
<1> HIDE DEF R
<1>11. R = [k \in 0..n |-> IF k = 0 THEN L ELSE ReleaseRWLockLocal(R[k - 1], t, ls[k])]
  BY <1>9 DEF Releasing, n
<1>12. /\ DOMAIN R = 0..n /\ R[0] = L
       /\ \A k \in 1..n : R[k] = ReleaseRWLockLocal(R[k - 1], t, ls[k])
  BY <1>0, <1>11
<1>13. \A k \in 0..n : k \in {j \in 0..n : R[j] \in S}
  <2> DEFINE T == {j \in 0..n : R[j] \in S}
  <2>1. 0 \in T
    BY <1>0, <1>12, <1>s
  <2>2. ASSUME NEW k \in 1..n, k - 1 \in T PROVE k \in T
    <3>1. R[k - 1] \in S
      BY <2>2
    <3> QED BY <1>0, <1>1, <1>12, <3>1
  <2> HIDE DEF T
  <2>3. \A k \in 0..n : k \in T
    BY <1>0, <2>1, <2>2, IntervalInduction
  <2> QED BY <2>3 DEF T
<1>14. R \in [0..n -> S]
  BY <1>11, <1>13
<1> QED BY <1>10, <1>12, <1>14 DEF S, n

LEMMA ReleasedType ==
  ASSUME NEW Ts, NEW Ls, NEW L \in LockStates(Ts, Ls), NEW t \in Ts, NEW ls \in Seq(Ls)
  PROVE  Released(L, t, ls) \in LockStates(Ts, Ls)
<1>1. PICK f \in [0..Len(ls) -> LockStates(Ts, Ls)] : Released(L, t, ls) = f[Len(ls)]
  BY ReleasedIs
<1>2. Len(ls) \in 0..Len(ls)
  OBVIOUS
<1> QED BY <1>1, <1>2

\* What a step of a thread leaves of the locks of all.
Leaves(L, N, Ts, Ls, t, h, n) ==
  N \in LockStates(Ts, Ls) /\ Others(L, N, Ts, Ls, t) /\ Has(N, Ls, t, h, n)

LEMMA LeavesTrans ==
  ASSUME NEW Ts, NEW Ls, NEW t, NEW L, NEW M, NEW N, NEW h, NEW n, NEW k, NEW m,
         Leaves(L, M, Ts, Ls, t, h, n), Leaves(M, N, Ts, Ls, t, k, m)
  PROVE  Leaves(L, N, Ts, Ls, t, k, m)
BY OthersTrans DEF Leaves

LEMMA LeavesSame ==
  ASSUME NEW Ts, NEW Ls, NEW t, NEW L \in LockStates(Ts, Ls), NEW h, NEW n, Has(L, Ls, t, h, n)
  PROVE  Leaves(L, L, Ts, Ls, t, h, n)
BY DEF Leaves, Others

LEMMA AcquireLeaves ==
  ASSUME NEW Ts, NEW Ls, NEW L \in LockStates(Ts, Ls), NEW t \in Ts, NoThread \notin Ts, NEW l \in Ls,
         NEW h, NEW n, Has(L, Ls, t, h, n), n < MaxLocalLocks, CanAcquire(L, t, l, WRITE)
  PROVE  Leaves(L, AcquireRWLockLocal(L, t, l, WRITE), Ts, Ls, t,
                Plus(h, l), IF h[l] = 0 THEN n + 1 ELSE n)
BY AcquireHolds DEF Leaves

LEMMA ReleaseLeaves ==
  ASSUME NEW Ts, NEW Ls, NEW L \in LockStates(Ts, Ls), NEW t \in Ts, NoThread \notin Ts, NEW l \in Ls,
         NEW h, NEW n, Has(L, Ls, t, h, n)
  PROVE  Leaves(L, ReleaseRWLockLocal(L, t, l), Ts, Ls, t, Minus(h, l), IF h[l] = 1 THEN n - 1 ELSE n)
BY ReleaseHolds DEF Leaves

\* Up to four locks.
LEMMA ReleasedFew ==
  ASSUME NEW Ts, NEW Ls, NEW L \in LockStates(Ts, Ls), NEW t \in Ts
  PROVE  /\ \A a \in Ls : Released(L, t, <<a>>) = ReleaseRWLockLocal(L, t, a)
         /\ \A a, b \in Ls : Released(L, t, <<a, b>>)
              = ReleaseRWLockLocal(ReleaseRWLockLocal(L, t, a), t, b)
         /\ \A a, b, c \in Ls : Released(L, t, <<a, b, c>>)
              = ReleaseRWLockLocal(ReleaseRWLockLocal(ReleaseRWLockLocal(L, t, a), t, b), t, c)
         /\ \A a, b, c, d \in Ls : Released(L, t, <<a, b, c, d>>)
              = ReleaseRWLockLocal(ReleaseRWLockLocal(ReleaseRWLockLocal(ReleaseRWLockLocal(
                  L, t, a), t, b), t, c), t, d)
<1>1. ASSUME NEW a \in Ls PROVE Released(L, t, <<a>>) = ReleaseRWLockLocal(L, t, a)
  <2> DEFINE ls == <<a>>
  <2>0. ls \in Seq(Ls) /\ Len(ls) = 1 /\ ls[1] = a
    OBVIOUS
  <2> HIDE DEF ls
  <2>1. PICK f \in [0..Len(ls) -> LockStates(Ts, Ls)] :
           /\ f[0] = L /\ Released(L, t, ls) = f[Len(ls)]
           /\ \A k \in 1..Len(ls) : f[k] = ReleaseRWLockLocal(f[k - 1], t, ls[k])
    BY <2>0, ReleasedIs
  <2>2. f[1] = ReleaseRWLockLocal(f[0], t, a)
    BY <2>0, <2>1
  <2> QED BY <2>0, <2>1, <2>2 DEF ls
<1>2. ASSUME NEW a \in Ls, NEW b \in Ls
      PROVE  Released(L, t, <<a, b>>) = ReleaseRWLockLocal(ReleaseRWLockLocal(L, t, a), t, b)
  <2> DEFINE ls == <<a, b>>
  <2>0. ls \in Seq(Ls) /\ Len(ls) = 2 /\ ls[1] = a /\ ls[2] = b
    OBVIOUS
  <2> HIDE DEF ls
  <2>1. PICK f \in [0..Len(ls) -> LockStates(Ts, Ls)] :
           /\ f[0] = L /\ Released(L, t, ls) = f[Len(ls)]
           /\ \A k \in 1..Len(ls) : f[k] = ReleaseRWLockLocal(f[k - 1], t, ls[k])
    BY <2>0, ReleasedIs
  <2>2. f[1] = ReleaseRWLockLocal(f[0], t, a) /\ f[2] = ReleaseRWLockLocal(f[1], t, b)
    BY <2>0, <2>1
  <2> QED BY <2>0, <2>1, <2>2 DEF ls
<1>3. ASSUME NEW a \in Ls, NEW b \in Ls, NEW c \in Ls
      PROVE  Released(L, t, <<a, b, c>>)
              = ReleaseRWLockLocal(ReleaseRWLockLocal(ReleaseRWLockLocal(L, t, a), t, b), t, c)
  <2> DEFINE ls == <<a, b, c>>
  <2>0. ls \in Seq(Ls) /\ Len(ls) = 3 /\ ls[1] = a /\ ls[2] = b /\ ls[3] = c
    OBVIOUS
  <2> HIDE DEF ls
  <2>1. PICK f \in [0..Len(ls) -> LockStates(Ts, Ls)] :
           /\ f[0] = L /\ Released(L, t, ls) = f[Len(ls)]
           /\ \A k \in 1..Len(ls) : f[k] = ReleaseRWLockLocal(f[k - 1], t, ls[k])
    BY <2>0, ReleasedIs
  <2>2. /\ f[1] = ReleaseRWLockLocal(f[0], t, a) /\ f[2] = ReleaseRWLockLocal(f[1], t, b)
        /\ f[3] = ReleaseRWLockLocal(f[2], t, c)
    BY <2>0, <2>1
  <2> QED BY <2>0, <2>1, <2>2 DEF ls
<1>4. ASSUME NEW a \in Ls, NEW b \in Ls, NEW c \in Ls, NEW d \in Ls
      PROVE  Released(L, t, <<a, b, c, d>>)
              = ReleaseRWLockLocal(ReleaseRWLockLocal(ReleaseRWLockLocal(ReleaseRWLockLocal(
                  L, t, a), t, b), t, c), t, d)
  <2> DEFINE ls == <<a, b, c, d>>
  <2>0. ls \in Seq(Ls) /\ Len(ls) = 4 /\ ls[1] = a /\ ls[2] = b /\ ls[3] = c /\ ls[4] = d
    OBVIOUS
  <2> HIDE DEF ls
  <2>1. PICK f \in [0..Len(ls) -> LockStates(Ts, Ls)] :
           /\ f[0] = L /\ Released(L, t, ls) = f[Len(ls)]
           /\ \A k \in 1..Len(ls) : f[k] = ReleaseRWLockLocal(f[k - 1], t, ls[k])
    BY <2>0, ReleasedIs
  <2>2. /\ f[1] = ReleaseRWLockLocal(f[0], t, a) /\ f[2] = ReleaseRWLockLocal(f[1], t, b)
        /\ f[3] = ReleaseRWLockLocal(f[2], t, c) /\ f[4] = ReleaseRWLockLocal(f[3], t, d)
    BY <2>0, <2>1
  <2> QED BY <2>0, <2>1, <2>2 DEF ls
<1> QED BY <1>1, <1>2, <1>3, <1>4

None(Ls) == [l \in Ls |-> 0]
OneEach(Ls, ls, k) == [l \in Ls |-> IF \E j \in k..Len(ls) : ls[j] = l THEN 1 ELSE 0]

\* All the locks a thread has, each taken once.
LEMMA ReleasedAll ==
  ASSUME NEW Ts, NEW Ls, NEW L \in LockStates(Ts, Ls), NEW t \in Ts, NoThread \notin Ts,
         NEW ls \in Seq(Ls), \A i, j \in 1..Len(ls) : ls[i] = ls[j] => i = j,
         Has(L, Ls, t, OneEach(Ls, ls, 1), Len(ls))
  PROVE  Leaves(L, Released(L, t, ls), Ts, Ls, t, None(Ls), 0)
<1> DEFINE n == Len(ls)
<1>1. PICK f \in [0..n -> LockStates(Ts, Ls)] :
         /\ f[0] = L /\ Released(L, t, ls) = f[n]
         /\ \A k \in 1..n : f[k] = ReleaseRWLockLocal(f[k - 1], t, ls[k])
  BY ReleasedIs
<1>2. n \in Nat /\ \A k \in 1..n : ls[k] \in Ls
  OBVIOUS
<1> DEFINE T == {k \in 0..n : Leaves(L, f[k], Ts, Ls, t, OneEach(Ls, ls, k + 1), n - k)}
<1>3. 0 \in T
  <2>1. 0 + 1 = 1 /\ n - 0 = n /\ 0 \in 0..n
    BY <1>2
  <2>2. Leaves(L, f[0], Ts, Ls, t, OneEach(Ls, ls, 1), n)
    BY <1>1, LeavesSame
  <2> QED BY <2>1, <2>2
<1>4. ASSUME NEW k \in 1..n, k - 1 \in T PROVE k \in T
  <2> DEFINE M == f[k - 1]
             h == OneEach(Ls, ls, k)
  <2>1. k \in 0..n /\ (k - 1) + 1 = k /\ k - 1 \in 0..n /\ n - (k - 1) = (n - k) + 1
    BY <1>2
  <2>2. Leaves(L, M, Ts, Ls, t, h, (n - k) + 1)
    BY <1>4, <2>1
  <2>3. M \in LockStates(Ts, Ls) /\ ls[k] \in Ls /\ Has(M, Ls, t, h, (n - k) + 1)
    BY <1>2, <2>2 DEF Leaves
  <2>4. h[ls[k]] = 1
    <3>1. k \in k..n
      BY <1>2
    <3> QED BY <2>3, <3>1 DEF OneEach
  <2>5. Minus(h, ls[k]) = OneEach(Ls, ls, k + 1)
    <3> DEFINE g == OneEach(Ls, ls, k + 1)
    <3>1. DOMAIN h = Ls /\ g \in [Ls -> Int] /\ h \in [Ls -> Int]
      BY DEF OneEach
    <3>2. g[ls[k]] = 0
      <4>1. \A j \in (k + 1)..n : ls[j] # ls[k]
        BY <1>2
      <4> QED BY <2>3, <4>1 DEF OneEach
    <3>3. ASSUME NEW l \in Ls, l # ls[k] PROVE g[l] = h[l]
      <4>1. (\E j \in k..n : ls[j] = l) <=> (\E j \in (k + 1)..n : ls[j] = l)
        <5>1. ASSUME NEW j \in k..n, ls[j] = l PROVE j \in (k + 1)..n
          BY <1>2, <3>3, <5>1
        <5>2. ASSUME NEW j \in (k + 1)..n PROVE j \in k..n
          BY <1>2
        <5> QED BY <5>1, <5>2
      <4> QED BY <4>1 DEF OneEach
    <3> HIDE DEF g, h
    <3>4. Minus(h, ls[k]) = g
      BY <2>3, <2>4, <3>1, <3>2, <3>3 DEF Minus
    <3> QED BY <3>4 DEF g
  <2>6. f[k] = ReleaseRWLockLocal(M, t, ls[k])
    BY <1>1
  <2> HIDE DEF M, h
  <2>7. Leaves(M, f[k], Ts, Ls, t, Minus(h, ls[k]),
               IF h[ls[k]] = 1 THEN ((n - k) + 1) - 1 ELSE (n - k) + 1)
    BY <2>3, <2>6, ReleaseLeaves
  <2>8. (IF h[ls[k]] = 1 THEN ((n - k) + 1) - 1 ELSE (n - k) + 1) = n - k
    BY <1>2, <2>4
  <2>9. Leaves(M, f[k], Ts, Ls, t, OneEach(Ls, ls, k + 1), n - k)
    BY <2>5, <2>7, <2>8
  <2>10. Leaves(L, f[k], Ts, Ls, t, OneEach(Ls, ls, k + 1), n - k)
    BY <2>2, <2>9, LeavesTrans
  <2> QED BY <2>1, <2>10
<1> HIDE DEF T
<1>5. \A k \in 0..n : k \in T
  BY <1>2, <1>3, <1>4, IntervalInduction
<1>6. Leaves(L, f[n], Ts, Ls, t, OneEach(Ls, ls, n + 1), n - n)
  BY <1>2, <1>5 DEF T
<1>7. OneEach(Ls, ls, n + 1) = None(Ls) /\ n - n = 0
  BY <1>2 DEF OneEach, None
<1> QED BY <1>1, <1>6, <1>7

\* A lock for reading, given back at once.
LEMMA VisitLeaves ==
  ASSUME NEW Ts, NEW Ls, NEW L \in LockStates(Ts, Ls), NEW t \in Ts, NoThread \notin Ts, NEW l \in Ls,
         NEW h, Has(L, Ls, t, h, 0)
  PROVE  Leaves(L, ReleaseRWLockLocal(AcquireRWLockLocal(L, t, l, READ), t, l), Ts, Ls, t, h, 0)
<1> DEFINE M == AcquireRWLockLocal(L, t, l, READ)
           N == ReleaseRWLockLocal(M, t, l)
           e == [lock |-> l, mode |-> READ, cnt |-> 1]
<1>1. L.tab[t] \in Seq(TabEntries(Ls)) /\ L.rw[l] \in RWStates(Ts)
  BY LockFields
<1>2. h \in [Ls -> Nat] /\ TabHas(L.tab[t], Ls, h, 0) /\ WriterOf(L.rw, Ls, t, h)
  BY HasIs
<1>3. Len(L.tab[t]) = 0 /\ \A k \in Ls : ~(h[k] > 0)
  BY <1>2 DEF TabHas
<1>4. READ # WRITE /\ READ \in {READ, WRITE}
  BY DEF READ, WRITE
<1>5. M \in LockStates(Ts, Ls) /\ Acquires(L, M, Ts, Ls, t, l, READ)
  BY <1>4, AcquireIs
<1>6. IsBoth(L, M, Ts, Ls, t, l, Takes(L.tab[t], l, READ), AcquireRWLock(L.rw[l], t, READ))
  <2>1. ~Refuses(L.tab[t], l, READ)
    BY <1>3 DEF Refuses
  <2> HIDE DEF M
  <2> QED BY <1>3, <1>5, <2>1 DEF Acquires
<1>7. N \in LockStates(Ts, Ls) /\ Releases(M, N, Ts, Ls, t, l)
  BY <1>5, ReleaseIs
<1> HIDE DEF M, N
<1>8. /\ M.tab[t] = Append(L.tab[t], e)
      /\ M.rw[l] = AcquireRWLock(L.rw[l], t, READ)
      /\ \A u \in Ts \ {t} : M.tab[u] = L.tab[u]
      /\ \A k \in Ls \ {l} : M.rw[k] = L.rw[k]
  BY <1>6 DEF IsBoth, Takes
<1>9. Len(M.tab[t]) = 1 /\ M.tab[t][1] = e /\ M.tab[t] # << >> /\ M.tab[t] \in Seq(TabEntries(Ls))
  <2>1. M.tab[t] \in Seq(TabEntries(Ls))
    BY <1>5, LockFields
  <2> HIDE DEF e
  <2> QED BY <1>1, <1>3, <1>8, <2>1
<1>10. e.lock = l /\ e.cnt = 1
  OBVIOUS
<1>11. IsBoth(M, N, Ts, Ls, t, l, RemoveLocalLock(M.tab[t], 1), ReleaseRWLock(M.rw[l], t))
  <2>1. \A i \in 1..Len(M.tab[t]) : i = 1 /\ M.tab[t][i].lock = l /\ ~(M.tab[t][i].cnt > 1)
    BY <1>9, <1>10
  <2>2. 1 \in 1..Len(M.tab[t])
    BY <1>9
  <2> QED BY <1>7, <1>9, <2>1, <2>2 DEF Releases
<1>12. /\ Len(N.tab[t]) = 0
       /\ N.rw[l] = ReleaseRWLock(M.rw[l], t)
       /\ \A u \in Ts \ {t} : N.tab[u] = M.tab[u]
       /\ \A k \in Ls \ {l} : N.rw[k] = M.rw[k]
  <2>1. Len(RemoveLocalLock(M.tab[t], 1)) = 0
    <3> DEFINE tab == M.tab[t]
    <3>1. tab \in Seq(TabEntries(Ls)) /\ 1 \in 1..Len(tab) /\ Len(tab) - 1 = 0
      BY <1>9
    <3> HIDE DEF tab
    <3>2. Len(RemoveLocalLock(tab, 1)) = Len(tab) - 1
      BY <3>1, RemoveIs
    <3> QED BY <3>1, <3>2 DEF tab
  <2> QED BY <1>11, <2>1 DEF IsBoth
<1>13. M.rw[l].writer = L.rw[l].writer
  BY <1>1, <1>4, <1>8 DEF AcquireRWLock, RWStates
<1>14. L.rw[l].writer # t
  BY <1>2, <1>3 DEF WriterOf
<1>15. N.rw[l].writer = L.rw[l].writer
  <2>1. M.rw[l] \in RWStates(Ts)
    BY <1>5, LockFields
  <2> QED BY <1>12, <1>13, <1>14, <2>1 DEF ReleaseRWLock, RWStates
<1>16. Others(L, N, Ts, Ls, t)
  BY <1>8, <1>12, <1>15 DEF Others
<1>17. TabHas(N.tab[t], Ls, h, 0)
  BY <1>3, <1>12 DEF TabHas
<1>18. WriterOf(N.rw, Ls, t, h)
  BY <1>2, <1>8, <1>12, <1>15 DEF WriterOf
<1>19. Leaves(L, N, Ts, Ls, t, h, 0)
  BY <1>2, <1>7, <1>16, <1>17, <1>18, HasIs DEF Leaves
<1> QED BY <1>19 DEF M, N
=============================================================================

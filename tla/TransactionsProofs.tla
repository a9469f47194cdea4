------------------------- MODULE TransactionsProofs -------------------------
(***************************************************************************)
(* Proofs about Transactions: XtidInv is an inductive invariant, and the   *)
(* safety properties of snapshots and identifiers follow from it, for any  *)
(* number of workers and identifiers.                                      *)
(***************************************************************************)
EXTENDS Transactions, TLAPS

USE NWAssumption, MaxXtidAssumption DEF Workers

(* Locals and snapshots are records: what an assignment to a field does. *)

\* The locals with which every function of a worker starts.
LEMMA NoLocalsType == NoLocals \in Locals
BY DEF NoLocals, Locals

\* The cleared memory that CreateSnapshot returns.
LEMMA NoSnapshotType == NoSnapshot \in SnapShotInfo /\ NoSnapshot.high = 0
BY DEF NoSnapshot, SnapShotInfo

\* The fields of the locals.
LEMMA LocalsFields ==
  ASSUME NEW r \in Locals
  PROVE  /\ r.h \in 0 .. MaxXtid + 1
         /\ r.max \in 0 .. MaxXtid + 2
         /\ r.min \in 0 .. MaxXtid + 2
         /\ r.i \in 1 .. NW + 1
         /\ r.n \in 0 .. NW - 1
BY DEF Locals

\* The fields of a SnapShotInfo.
LEMMA SnapshotFields ==
  ASSUME NEW s \in SnapShotInfo
  PROVE  /\ s.high \in 0 .. MaxXtid + 2
         /\ s.low \in 0 .. MaxXtid + 2
         /\ s.num \in 0 .. NW - 1
         /\ s.arr \in [Workers -> 0 .. MaxXtid]
BY DEF SnapShotInfo

\* loc[w].h = x: the other workers' locals stay.
LEMMA AssignH ==
  ASSUME loc \in [Workers -> Locals], NEW w \in Workers,
         NEW x \in 0 .. MaxXtid + 1, loc' = [loc EXCEPT ![w].h = x]
  PROVE  /\ loc' \in [Workers -> Locals]
         /\ loc'[w].h = x
         /\ \A v \in Workers \ {w} : loc'[v] = loc[v]
<1>1. [loc[w] EXCEPT !.h = x] \in Locals /\ [loc[w] EXCEPT !.h = x].h = x
  BY DEF Locals
<1> QED BY <1>1

\* Advancing to the next slot changes i only.
LEMMA NextSlot ==
  ASSUME NEW r \in Locals, r.i <= NW
  PROVE  /\ [r EXCEPT !.i = @ + 1] \in Locals
         /\ [r EXCEPT !.i = @ + 1].i = r.i + 1
         /\ [r EXCEPT !.i = @ + 1].h = r.h
         /\ [r EXCEPT !.i = @ + 1].n = r.n
         /\ [r EXCEPT !.i = @ + 1].max = r.max
         /\ [r EXCEPT !.i = @ + 1].min = r.min
BY DEF Locals

\* Recording an entry changes n only.
LEMMA NextEntry ==
  ASSUME NEW r \in Locals, NEW n \in 0 .. NW - 1
  PROVE  /\ [r EXCEPT !.n = n] \in Locals
         /\ [r EXCEPT !.n = n].i = r.i
         /\ [r EXCEPT !.n = n].n = n
         /\ [r EXCEPT !.n = n].max = r.max
         /\ [r EXCEPT !.n = n].min = r.min
BY DEF Locals

\* The minimum goes down only.
LEMMA LowerMin ==
  ASSUME NEW r \in Locals, NEW x \in 0 .. MaxXtid
  PROVE  LET q == [r EXCEPT !.min = IF x < @ THEN x ELSE @]
         IN  q \in Locals /\ q.i = r.i /\ q.n = r.n /\ q.max = r.max /\ q.min <= r.min
BY DEF Locals

\* loc[w].i++ : the other workers' locals stay.
LEMMA AssignI ==
  ASSUME loc \in [Workers -> Locals], NEW w \in Workers, loc[w].i <= NW,
         loc' = [loc EXCEPT ![w].i = @ + 1]
  PROVE  /\ loc' \in [Workers -> Locals]
         /\ loc'[w].i = loc[w].i + 1
         /\ loc'[w].n = loc[w].n /\ loc'[w].max = loc[w].max /\ loc'[w].min = loc[w].min
         /\ \A v \in Workers \ {w} : loc'[v] = loc[v]
<1>1. loc[w] \in Locals
  OBVIOUS
<1>2. loc'[w] = [loc[w] EXCEPT !.i = @ + 1]
  OBVIOUS
<1>3. loc'[w] \in Locals
  BY <1>1, <1>2, NextSlot
<1>4. /\ loc'[w].i = loc[w].i + 1
      /\ loc'[w].n = loc[w].n /\ loc'[w].max = loc[w].max /\ loc'[w].min = loc[w].min
  BY <1>1, <1>2, NextSlot
<1> QED BY <1>3, <1>4

\* snap[w].arr[n] = x: one entry changes.
LEMMA AssignArr ==
  ASSUME snap \in [Workers -> SnapShotInfo], NEW w \in Workers, NEW x \in 0 .. MaxXtid,
         NEW n \in Workers, snap' = [snap EXCEPT ![w].arr[n] = x]
  PROVE  /\ snap' \in [Workers -> SnapShotInfo]
         /\ snap'[w].arr[n] = x
         /\ \A m \in Workers \ {n} : snap'[w].arr[m] = snap[w].arr[m]
         /\ \A v \in Workers \ {w} : snap'[v] = snap[v]
<1> DEFINE s == [snap[w] EXCEPT !.arr[n] = x]
<1>1. /\ s \in SnapShotInfo
      /\ s.arr[n] = x
      /\ \A m \in Workers \ {n} : s.arr[m] = snap[w].arr[m]
  BY DEF SnapShotInfo
<1>2. snap'[w] = s
  OBVIOUS
<1> HIDE DEF s
<1> QED BY <1>1, <1>2

\* GetSnapshot stores the marks and leaves the array.
LEMMA AssignSnapshot ==
  ASSUME snap \in [Workers -> SnapShotInfo], NEW w \in Workers,
         NEW hi \in 0 .. MaxXtid + 2, NEW lo \in 0 .. MaxXtid + 2, NEW n \in 0 .. NW - 1,
         snap' = [snap EXCEPT ![w].high = hi, ![w].low = lo, ![w].num = n]
  PROVE  /\ snap' \in [Workers -> SnapShotInfo]
         /\ snap'[w].high = hi /\ snap'[w].low = lo /\ snap'[w].num = n
         /\ snap'[w].arr = snap[w].arr
         /\ \A v \in Workers \ {w} : snap'[v] = snap[v]
<1> DEFINE s == [snap[w] EXCEPT !.high = hi, !.low = lo, !.num = n]
<1>1. /\ s \in SnapShotInfo
      /\ s.high = hi /\ s.low = lo /\ s.num = n /\ s.arr = snap[w].arr
  BY DEF SnapShotInfo
<1>2. snap'[w] = s
  BY DEF SnapShotInfo
<1>3. \A v \in Workers \ {w} : snap'[v] = snap[v]
  OBVIOUS
<1> HIDE DEF s
<1> QED BY <1>1, <1>2, <1>3

-----------------------------------------------------------------------------
\* The slot that TakeSlot records has a place in the array, and another worker's
\* array always has one left: the own slot is never recorded.
LEMMA TakenBound ==
  ASSUME XtidInv, NEW w \in Workers, TakeSlot(w)
  PROVE  loc[w].n + 1 \in 1 .. NW - 1 /\ loc[w].n + 1 \in Workers
<1>1. /\ loc[w].i \in 1 .. NW + 1 /\ loc[w].n \in 0 .. NW - 1
  BY LocalsFields DEF XtidInv, TypeOK
<1>2. /\ loc[w].i <= NW /\ loc[w].i # w
      /\ loc[w].n < loc[w].i
      /\ loc[w].i > w => loc[w].n <= loc[w].i - 2
  BY DEF XtidInv, ScanOK, TakeSlot, PassedOver, At
<1> QED BY <1>1, <1>2

\* What the type invariant says of the numbers a worker uses.
LEMMA Ranges ==
  ASSUME TypeOK, NEW w \in Workers
  PROVE  /\ highXtid + 1 \in 0 .. MaxXtid + 2
         /\ nextXtid \in 0 .. MaxXtid + 1
         /\ xtid[w] \in 0 .. MaxXtid + 2
         /\ disk \in 0 .. MaxXtid + 1
         /\ horizon[w] \in 0 .. MaxXtid + 1
BY DEF TypeOK

\* What the type invariant says of the locals of a worker.
LEMMA LocalRanges ==
  ASSUME TypeOK, NEW w \in Workers
  PROVE  /\ loc[w] \in Locals /\ snap[w] \in SnapShotInfo
         /\ NoLocals \in Locals
         /\ loc[w].h \in 0 .. MaxXtid + 1
         /\ loc[w].max \in 0 .. MaxXtid + 2
         /\ loc[w].min \in 0 .. MaxXtid + 2
         /\ loc[w].i \in 1 .. NW + 1
         /\ loc[w].n \in 0 .. NW - 1
BY LocalsFields, NoLocalsType DEF TypeOK

\* What TakeSlot does to the locals of the worker.
LEMMA TakeSlotLocals ==
  ASSUME XtidInv, NEW w \in Workers, TakeSlot(w)
  PROVE  /\ loc' \in [Workers -> Locals]
         /\ loc'[w].i = loc[w].i + 1 /\ loc'[w].n = loc[w].n + 1
         /\ loc'[w].max = loc[w].max /\ loc'[w].min <= loc[w].min
<1> DEFINE x == xtid[loc[w].i]
           k == loc[w].n + 1
           a == [loc[w] EXCEPT !.i = @ + 1]
           b == [a EXCEPT !.n = k]
           c == [b EXCEPT !.min = IF x < @ THEN x ELSE @]
<1>1. loc \in [Workers -> Locals] /\ loc[w] \in Locals
  BY DEF XtidInv, TypeOK
<1>2. loc[w].i \in 1 .. NW + 1
  BY <1>1, LocalsFields
<1>3. /\ loc' = [loc EXCEPT ![w].i = @ + 1, ![w].n = k, ![w].min = IF x < @ THEN x ELSE @]
      /\ loc[w].i <= NW
  BY DEF TakeSlot, At
<1>4. x \in 0 .. MaxXtid
  BY <1>2, <1>3 DEF XtidInv, TypeOK
<1>5. k \in 0 .. NW - 1
  BY TakenBound
<1>6. loc'[w] = c /\ \A v \in Workers \ {w} : loc'[v] = loc[v]
  BY <1>1, <1>3
<1>7. a \in Locals /\ a.i = loc[w].i + 1 /\ a.max = loc[w].max /\ a.min = loc[w].min
  BY <1>1, <1>3, NextSlot
<1>8. b \in Locals /\ b.i = a.i /\ b.n = k /\ b.max = a.max /\ b.min = a.min
  <2> HIDE DEF a, k
  <2> QED BY <1>5, <1>7, NextEntry
<1>9. c \in Locals /\ c.i = b.i /\ c.n = b.n /\ c.max = b.max /\ c.min <= b.min
  <2> HIDE DEF b, x
  <2> QED BY <1>4, <1>8, LowerMin
<1>10. loc' \in [Workers -> Locals]
  <2> HIDE DEF c
  <2> QED BY <1>1, <1>3, <1>6, <1>9
<1> HIDE DEF a, b, c
<1> QED BY <1>6, <1>7, <1>8, <1>9, <1>10

\* Every step of a command keeps the types.
LEMMA CommandType ==
  ASSUME XtidInv, NEW w \in Workers, Command(w)
  PROVE  TypeOK'
<1> TypeOK /\ IdsOK(w)
  BY DEF XtidInv
<1> /\ highXtid + 1 \in 0 .. MaxXtid + 2
    /\ nextXtid \in 0 .. MaxXtid + 1
    /\ xtid[w] \in 0 .. MaxXtid + 2
  BY Ranges
<1> /\ loc[w] \in Locals /\ snap[w] \in SnapShotInfo
    /\ NoLocals \in Locals
    /\ loc[w].h \in 0 .. MaxXtid + 1
    /\ loc[w].max \in 0 .. MaxXtid + 2
    /\ loc[w].min \in 0 .. MaxXtid + 2
    /\ loc[w].i \in 1 .. NW + 1
    /\ loc[w].n \in 0 .. NW - 1
  BY LocalRanges
<1> USE DEF TypeOK, slotVars, history, At, Goto, Xtids
<1>1. CASE StartTransaction(w)
  BY <1>1 DEF StartTransaction
<1>2. CASE StartedAlready(w)
  BY <1>2 DEF StartedAlready
<1>3. CASE GetNewTransactionID(w)
  <2>0. nextXtid <= MaxXtid /\ nextXtid' = nextXtid + 1
    BY <1>3 DEF GetNewTransactionID
  <2>1. nextXtid \in 0 .. MaxXtid + 1 /\ nextXtid' \in 1 .. MaxXtid + 1
    BY <2>0
  <2>2. loc' \in [Workers -> Locals]
    BY <1>3, <2>1, AssignH DEF GetNewTransactionID
  <2> QED BY <1>3, <2>1, <2>2 DEF GetNewTransactionID
<1>4. CASE SetTransactionID(w)
  <2>0. pc[w] = "setid"
    BY <1>4, Zenon DEF SetTransactionID
  <2>1. loc[w].h \in 0 .. MaxXtid
    <3> HIDE DEF TypeOK
    <3>1. loc[w].h \in 1 .. nextXtid - 1
      BY <2>0, Zenon DEF IdsOK
    <3> QED BY <3>1
  <2> QED BY <1>4, <2>1 DEF SetTransactionID
<1>5. CASE QueryError(w)
  BY <1>5 DEF QueryError
<1>6. CASE GenerateSnapshot(w)
  <2> DEFINE m == IF xtid[w] < highXtid + 1 THEN xtid[w] ELSE highXtid + 1
             r == [h |-> 0, max |-> highXtid + 1, i |-> 1, n |-> 0, min |-> m]
  <2>0. m \in 0 .. MaxXtid + 2 /\ highXtid + 1 \in 0 .. MaxXtid + 2
    OBVIOUS
  <2>1. r \in Locals
    <3> HIDE DEF m
    <3> QED BY <2>0 DEF Locals
  <2>2. loc' = [loc EXCEPT ![w] = r]
    BY <1>6 DEF GenerateSnapshot
  <2>3. loc' \in [Workers -> Locals]
    <3> HIDE DEF r
    <3> QED BY <2>1, <2>2
  <2>4. horizon' \in [Workers -> 0 .. MaxXtid + 1]
    BY <1>6 DEF GenerateSnapshot
  <2>5. UNCHANGED <<up, disk, nextXtid, highXtid, slotVars, mine, snap, finished, kept>>
    BY <1>6 DEF GenerateSnapshot
  <2>6. pc' = [pc EXCEPT ![w] = "scan"]
    BY <1>6 DEF GenerateSnapshot
  <2> HIDE DEF r
  <2> QED BY <2>3, <2>4, <2>5, <2>6
<1>7. CASE SnapshotTaken(w)
  BY <1>7 DEF SnapshotTaken
<1>8. CASE SkipSlot(w)
  <2>1. loc' \in [Workers -> Locals]
    BY <1>8, AssignI DEF SkipSlot
  <2> QED BY <1>8, <2>1 DEF SkipSlot
<1>9. CASE TakeSlot(w)
  <2>1. xtid[loc[w].i] \in 0 .. MaxXtid
    BY <1>9 DEF TakeSlot
  <2>2. loc[w].n + 1 \in 0 .. NW - 1 /\ loc[w].n + 1 \in Workers
    BY <1>9, TakenBound
  <2>3. loc' \in [Workers -> Locals]
    BY <1>9, TakeSlotLocals
  <2>4. snap' \in [Workers -> SnapShotInfo]
    BY <1>9, <2>1, <2>2, AssignArr DEF TakeSlot
  <2> QED BY <1>9, <2>3, <2>4 DEF TakeSlot
<1>10. CASE GetSnapshot(w)
  <2>1. snap' \in [Workers -> SnapShotInfo]
    BY <1>10, AssignSnapshot DEF GetSnapshot
  <2> QED BY <1>10, <2>1 DEF GetSnapshot
<1>11. CASE ExecutorPlan(w)
  BY <1>11 DEF ExecutorPlan
<1>12. CASE BeginTransaction(w)
  BY <1>12 DEF BeginTransaction
<1>13. CASE EndTransaction(w)
  BY <1>13 DEF EndTransaction
<1>14. CASE AbortTransaction(w)
  BY <1>14 DEF AbortTransaction
<1>15. CASE StayInBlock(w)
  BY <1>15 DEF StayInBlock
<1>16. CASE FinishTransaction(w)
  BY <1>16 DEF FinishTransaction
<1>17. CASE ReadHighLevel(w)
  <2>1. loc' \in [Workers -> Locals]
    BY <1>17, AssignH DEF ReadHighLevel
  <2> QED BY <1>17, <2>1 DEF ReadHighLevel
<1>18. ASSUME Finished(w), pc[w] = "cas", highXtid' \in {highXtid, xtid[w]} PROVE TypeOK'
  <2>1. xtid[w] \in Xtids /\ xtid[w] \in 0 .. MaxXtid + 1
    BY <1>18 DEF IdsOK
  <2>2. /\ UNCHANGED <<up, disk, nextXtid, slotVars, snap, kept>>
        /\ pc' = [pc EXCEPT ![w] = "idle"]
        /\ finished' = finished \cup {xtid[w]}
    BY <1>18 DEF Finished
  <2>3. mine' \in [Workers -> BOOLEAN] /\ loc' \in [Workers -> Locals]
    BY <1>18 DEF Finished
  <2>4. 0 \in 0 .. MaxXtid + 1
    OBVIOUS
  <2>5. horizon' \in [Workers -> 0 .. MaxXtid + 1]
    BY <1>18, <2>4 DEF Finished
  <2> QED BY <1>18, <2>1, <2>2, <2>3, <2>5
<1>19. CASE HighEnough(w)
  BY <1>18, <1>19 DEF HighEnough
<1>20. CASE SetHighLevel(w)
  BY <1>18, <1>20 DEF SetHighLevel
<1>21. CASE RetryHighLevel(w)
  <2>1. loc' \in [Workers -> Locals]
    BY <1>21, AssignH DEF RetryHighLevel
  <2> QED BY <1>21, <2>1 DEF RetryHighLevel
<1> QED
  BY <1>1, <1>2, <1>3, <1>4, <1>5, <1>6, <1>7, <1>8, <1>9, <1>10, <1>11, <1>12, <1>13,
     <1>14, <1>15, <1>16, <1>17, <1>19, <1>20, <1>21 DEF Command

-----------------------------------------------------------------------------
\* What a step of worker w leaves alone of worker v.
Apart(v) ==
  /\ pc'[v] = pc[v] /\ loc'[v] = loc[v] /\ mine'[v] = mine[v]
  /\ xtid'[v] = xtid[v] /\ taken'[v] = taken[v] /\ snap'[v] = snap[v]
  /\ horizon'[v] = horizon[v]

\* A command touches the slot and the locals of its own worker only; the next identifier
\* and the high level do not go back.
LEMMA CommandFrame ==
  ASSUME XtidInv, NEW w \in Workers, Command(w)
  PROVE  /\ up /\ up' = up /\ disk' = disk /\ kept' = kept
         /\ nextXtid' \in {nextXtid, nextXtid + 1}
         /\ highXtid' >= highXtid
         /\ \A v \in Workers \ {w} : Apart(v)
<1> TypeOK
  BY DEF XtidInv
<1> highXtid \in Int /\ xtid[w] \in Int
  BY DEF TypeOK
<1> USE DEF TypeOK, slotVars, history, At, Goto, Apart
<1>1. CASE StartTransaction(w)
  BY <1>1 DEF StartTransaction
<1>2. CASE StartedAlready(w)
  BY <1>2 DEF StartedAlready
<1>3. CASE GetNewTransactionID(w)
  BY <1>3 DEF GetNewTransactionID
<1>4. CASE SetTransactionID(w)
  BY <1>4 DEF SetTransactionID
<1>5. CASE QueryError(w)
  BY <1>5 DEF QueryError
<1>6. CASE GenerateSnapshot(w)
  BY <1>6 DEF GenerateSnapshot
<1>7. CASE SnapshotTaken(w)
  BY <1>7 DEF SnapshotTaken
<1>8. CASE SkipSlot(w)
  <2>1. \A v \in Workers \ {w} : loc'[v] = loc[v]
    BY <1>8 DEF SkipSlot
  <2> QED BY <1>8, <2>1 DEF SkipSlot
<1>9. CASE TakeSlot(w)
  <2>1. \A v \in Workers \ {w} : loc'[v] = loc[v]
    BY <1>9 DEF TakeSlot
  <2>2. \A v \in Workers \ {w} : snap'[v] = snap[v]
    BY <1>9 DEF TakeSlot
  <2> QED BY <1>9, <2>1, <2>2 DEF TakeSlot
<1>10. CASE GetSnapshot(w)
  <2>1. \A v \in Workers \ {w} : snap'[v] = snap[v]
    BY <1>10 DEF GetSnapshot
  <2> QED BY <1>10, <2>1 DEF GetSnapshot
<1>11. CASE ExecutorPlan(w)
  BY <1>11 DEF ExecutorPlan
<1>12. CASE BeginTransaction(w)
  BY <1>12 DEF BeginTransaction
<1>13. CASE EndTransaction(w)
  BY <1>13 DEF EndTransaction
<1>14. CASE AbortTransaction(w)
  BY <1>14 DEF AbortTransaction
<1>15. CASE StayInBlock(w)
  BY <1>15 DEF StayInBlock
<1>16. CASE FinishTransaction(w)
  BY <1>16 DEF FinishTransaction
<1>17. CASE ReadHighLevel(w)
  BY <1>17 DEF ReadHighLevel
<1>18. CASE HighEnough(w)
  BY <1>18 DEF HighEnough, Finished
<1>19. CASE SetHighLevel(w)
  <2>1. loc[w].h < xtid[w] /\ highXtid = loc[w].h /\ highXtid' = xtid[w]
    BY <1>19 DEF SetHighLevel, Exchangeable
  <2>2. highXtid' >= highXtid
    BY <2>1
  <2> QED BY <1>19, <2>2 DEF SetHighLevel, Finished
<1>20. CASE RetryHighLevel(w)
  BY <1>20 DEF RetryHighLevel
<1> QED
  BY <1>1, <1>2, <1>3, <1>4, <1>5, <1>6, <1>7, <1>8, <1>9, <1>10, <1>11, <1>12, <1>13,
     <1>14, <1>15, <1>16, <1>17, <1>18, <1>19, <1>20 DEF Command

\* Identifiers: the worker's own step.
LEMMA IdsStep ==
  ASSUME XtidInv, NEW w \in Workers, Command(w)
  PROVE  IdsOK(w)'
<1> TypeOK /\ IdsOK(w) /\ LevelsOK
  BY DEF XtidInv
<1> /\ up /\ up' = up /\ disk' = disk
    /\ nextXtid' \in {nextXtid, nextXtid + 1}
  BY CommandFrame
<1> nextXtid >= 1 /\ disk <= nextXtid
  BY DEF LevelsOK, TypeOK
<1> nextXtid \in Int /\ xtid[w] \in Int /\ disk \in Int
  BY Ranges
<1> loc[w].h \in Int
  BY LocalRanges
<1> USE DEF IdsOK, TypeOK, slotVars, history, At, Goto
<1>1. CASE StartTransaction(w)
  BY <1>1 DEF StartTransaction
<1>2. CASE StartedAlready(w)
  BY <1>2 DEF StartedAlready
<1>3. CASE GetNewTransactionID(w)
  <2>1. loc'[w].h = nextXtid
    BY <1>3, AssignH, Ranges DEF GetNewTransactionID
  <2>2. nextXtid' = nextXtid + 1 /\ pc'[w] = "setid" /\ mine'[w] /\ xtid'[w] = xtid[w]
    BY <1>3 DEF GetNewTransactionID
  <2> QED BY <2>1, <2>2
<1>4. CASE SetTransactionID(w)
  BY <1>4 DEF SetTransactionID
<1>5. CASE QueryError(w)
  BY <1>5 DEF QueryError
<1>6. CASE GenerateSnapshot(w)
  BY <1>6 DEF GenerateSnapshot
<1>7. CASE SnapshotTaken(w)
  BY <1>7 DEF SnapshotTaken
<1>8. CASE SkipSlot(w)
  BY <1>8 DEF SkipSlot
<1>9. CASE TakeSlot(w)
  BY <1>9 DEF TakeSlot
<1>10. CASE GetSnapshot(w)
  BY <1>10 DEF GetSnapshot
<1>11. CASE ExecutorPlan(w)
  BY <1>11 DEF ExecutorPlan
<1>12. CASE BeginTransaction(w)
  BY <1>12 DEF BeginTransaction
<1>13. CASE EndTransaction(w)
  BY <1>13 DEF EndTransaction
<1>14. CASE AbortTransaction(w)
  BY <1>14 DEF AbortTransaction
<1>15. CASE StayInBlock(w)
  BY <1>15 DEF StayInBlock
<1>16. CASE FinishTransaction(w)
  BY <1>16 DEF FinishTransaction
<1>17. CASE ReadHighLevel(w)
  BY <1>17 DEF ReadHighLevel
<1>18. CASE HighEnough(w)
  BY <1>18 DEF HighEnough, Finished
<1>19. CASE SetHighLevel(w)
  BY <1>19 DEF SetHighLevel, Finished
<1>20. CASE RetryHighLevel(w)
  BY <1>20 DEF RetryHighLevel
<1> QED
  BY <1>1, <1>2, <1>3, <1>4, <1>5, <1>6, <1>7, <1>8, <1>9, <1>10, <1>11, <1>12, <1>13,
     <1>14, <1>15, <1>16, <1>17, <1>18, <1>19, <1>20 DEF Command

\* The levels, when the worker's step is neither the exchange nor the end of a
\* transaction.
LEMMA LevelsKept ==
  ASSUME XtidInv, NEW w \in Workers, Command(w),
         finished' = finished, highXtid' = highXtid,
         pc'[w] = "cas" => loc'[w].h <= highXtid
  PROVE  LevelsOK'
<1> LevelsOK /\ TypeOK
  BY DEF XtidInv
<1>1. /\ up /\ up' = up /\ disk' = disk /\ kept' = kept
      /\ nextXtid' \in {nextXtid, nextXtid + 1}
      /\ \A v \in Workers \ {w} : pc'[v] = pc[v] /\ loc'[v] = loc[v]
  BY CommandFrame DEF Apart
<1>2. nextXtid \in Int /\ nextXtid' >= nextXtid /\ disk \in Int /\ nextXtid' \in Int
  BY <1>1, Ranges
<1>3. finished \subseteq Int
  BY DEF TypeOK, Xtids
<1>4. \A v \in Workers : pc'[v] = "cas" => loc'[v].h <= highXtid'
  BY <1>1 DEF LevelsOK
<1> QED BY <1>1, <1>2, <1>3, <1>4 DEF LevelsOK

\* The levels, when the worker's transaction ends.
LEMMA LevelsFinished ==
  ASSUME XtidInv, NEW w \in Workers, Command(w), Finished(w), pc[w] = "cas",
         \/ highXtid' = highXtid /\ xtid[w] <= highXtid
         \/ highXtid' = xtid[w] /\ highXtid <= xtid[w]
  PROVE  LevelsOK'
<1> LevelsOK /\ TypeOK /\ IdsOK(w)
  BY DEF XtidInv
<1>1. /\ up /\ up' = up /\ disk' = disk /\ kept' = kept /\ highXtid' >= highXtid
      /\ \A v \in Workers \ {w} : pc'[v] = pc[v] /\ loc'[v] = loc[v]
  BY CommandFrame DEF Apart
<1>2. /\ nextXtid' = nextXtid /\ finished' = finished \cup {xtid[w]} /\ pc'[w] = "idle"
  BY DEF Finished, Goto, TypeOK
<1>3. /\ nextXtid \in Int /\ disk \in Int /\ xtid[w] \in Int
  BY Ranges
<1>4. finished \subseteq Int /\ highXtid \in Int
  BY DEF TypeOK, Xtids
<1>5. xtid[w] < nextXtid /\ disk <= xtid[w]
  BY <1>3 DEF IdsOK
<1>6. highXtid' \in Int /\ xtid[w] <= highXtid'
  BY <1>3, <1>4
<1>7. /\ disk <= highXtid /\ disk <= nextXtid /\ highXtid \in finished \cup {disk}
      /\ \A x \in finished : x <= highXtid /\ x < nextXtid
      /\ \A x \in kept : x < disk
  BY <1>1 DEF LevelsOK
<1>8. \A v \in Workers : pc'[v] = "cas" => loc'[v].h <= highXtid'
  <2> TAKE v \in Workers
  <2> HAVE pc'[v] = "cas"
  <2>1. v # w /\ pc[v] = "cas" /\ loc'[v] = loc[v]
    BY <1>1, <1>2
  <2>2. loc[v].h <= highXtid
    BY <2>1 DEF LevelsOK
  <2>3. loc[v].h \in Int
    BY LocalRanges
  <2> QED BY <1>1, <1>4, <1>6, <2>1, <2>2, <2>3
<1>9. \A x \in finished' : x <= highXtid' /\ x < nextXtid'
  BY <1>1, <1>2, <1>3, <1>4, <1>5, <1>6, <1>7
<1>10. highXtid' \in finished' \cup {disk}
  BY <1>2, <1>7
<1>11. disk <= highXtid'
  BY <1>1, <1>3, <1>4, <1>6, <1>7
<1> QED BY <1>1, <1>2, <1>7, <1>8, <1>9, <1>10, <1>11 DEF LevelsOK

\* The levels: the worker's own step.
LEMMA LevelsStep ==
  ASSUME XtidInv, NEW w \in Workers, Command(w)
  PROVE  LevelsOK'
<1> TypeOK /\ LevelsOK
  BY DEF XtidInv
<1> highXtid \in 0 .. MaxXtid + 1 /\ xtid[w] \in Int
  BY DEF TypeOK
<1> loc[w].h \in Int
  BY LocalRanges
<1> USE DEF TypeOK, slotVars, history, At, Goto
<1>1. CASE StartTransaction(w)
  BY <1>1, LevelsKept DEF StartTransaction
<1>2. CASE StartedAlready(w)
  BY <1>2, LevelsKept DEF StartedAlready
<1>3. CASE GetNewTransactionID(w)
  BY <1>3, LevelsKept DEF GetNewTransactionID
<1>4. CASE SetTransactionID(w)
  BY <1>4, LevelsKept DEF SetTransactionID
<1>5. CASE QueryError(w)
  BY <1>5, LevelsKept DEF QueryError
<1>6. CASE GenerateSnapshot(w)
  BY <1>6, LevelsKept DEF GenerateSnapshot
<1>7. CASE SnapshotTaken(w)
  BY <1>7, LevelsKept DEF SnapshotTaken
<1>8. CASE SkipSlot(w)
  BY <1>8, LevelsKept DEF SkipSlot
<1>9. CASE TakeSlot(w)
  BY <1>9, LevelsKept DEF TakeSlot
<1>10. CASE GetSnapshot(w)
  BY <1>10, LevelsKept DEF GetSnapshot
<1>11. CASE ExecutorPlan(w)
  BY <1>11, LevelsKept DEF ExecutorPlan
<1>12. CASE BeginTransaction(w)
  BY <1>12, LevelsKept DEF BeginTransaction
<1>13. CASE EndTransaction(w)
  BY <1>13, LevelsKept DEF EndTransaction
<1>14. CASE AbortTransaction(w)
  BY <1>14, LevelsKept DEF AbortTransaction
<1>15. CASE StayInBlock(w)
  BY <1>15, LevelsKept DEF StayInBlock
<1>16. CASE FinishTransaction(w)
  BY <1>16, LevelsKept DEF FinishTransaction
<1>17. CASE ReadHighLevel(w)
  <2>1. loc'[w].h = highXtid
    BY <1>17, AssignH DEF ReadHighLevel
  <2> QED BY <1>17, <2>1, LevelsKept DEF ReadHighLevel
<1>18. CASE HighEnough(w)
  <2>1. loc[w].h <= highXtid /\ loc[w].h >= xtid[w]
    BY <1>18 DEF HighEnough, LevelsOK
  <2> QED BY <1>18, <2>1, LevelsFinished DEF HighEnough
<1>19. CASE SetHighLevel(w)
  <2>1. highXtid = loc[w].h /\ loc[w].h < xtid[w]
    BY <1>19 DEF SetHighLevel, Exchangeable
  <2> QED BY <1>19, <2>1, LevelsFinished DEF SetHighLevel
<1>20. CASE RetryHighLevel(w)
  <2>1. loc'[w].h = highXtid
    BY <1>20, AssignH DEF RetryHighLevel
  <2> QED BY <1>20, <2>1, LevelsKept DEF RetryHighLevel
<1> QED
  BY <1>1, <1>2, <1>3, <1>4, <1>5, <1>6, <1>7, <1>8, <1>9, <1>10, <1>11, <1>12, <1>13,
     <1>14, <1>15, <1>16, <1>17, <1>18, <1>19, <1>20 DEF Command

\* One slot is passed over: what is collected stays as good.
LEMMA SkipSlotScan ==
  ASSUME XtidInv, NEW w \in Workers, SkipSlot(w), disk' = disk
  PROVE  ScanOK(w)'
<1>1. loc \in [Workers -> Locals] /\ ScanOK(w) /\ w \in Int
  BY DEF XtidInv, TypeOK
<1>2. /\ loc' = [loc EXCEPT ![w].i = @ + 1] /\ loc[w].i <= NW
      /\ xtid' = xtid /\ horizon' = horizon /\ pc[w] = "scan" /\ snap' = snap
  BY DEF SkipSlot, At, slotVars, history
<1>3. /\ loc'[w].i = loc[w].i + 1
      /\ loc'[w].n = loc[w].n /\ loc'[w].max = loc[w].max /\ loc'[w].min = loc[w].min
  BY <1>1, <1>2, AssignI
<1>4. loc[w] \in Locals
  BY <1>1
<1>5. loc[w].i \in Int /\ loc[w].n \in Int
  BY <1>4, LocalsFields
<1>6. /\ loc[w].n < loc[w].i
      /\ loc[w].i > w => loc[w].n <= loc[w].i - 2
      /\ loc[w].i # w \/ loc[w].n <= loc[w].i - 1
  BY <1>1, <1>2, <1>5 DEF ScanOK
<1>7. /\ loc'[w].n < loc'[w].i
      /\ loc'[w].i > w => loc'[w].n <= loc'[w].i - 2
  BY <1>1, <1>3, <1>5, <1>6
<1> QED BY <1>1, <1>2, <1>3, <1>7 DEF ScanOK

\* One slot is recorded: its identifier was handed out since the last recorded stop.
LEMMA TakeSlotScan ==
  ASSUME XtidInv, NEW w \in Workers, TakeSlot(w), disk' = disk
  PROVE  ScanOK(w)'
<1> DEFINE x == xtid[loc[w].i]
           k == loc[w].n + 1
<1>1. loc \in [Workers -> Locals] /\ snap \in [Workers -> SnapShotInfo] /\ ScanOK(w)
  BY DEF XtidInv, TypeOK
<1>2. loc[w] \in Locals
  BY <1>1
<1>3. /\ loc[w].i \in 1 .. NW + 1 /\ loc[w].n \in Int
      /\ loc[w].min \in Int /\ loc[w].max \in Int
  BY <1>2, LocalsFields
<1>4. /\ snap' = [snap EXCEPT ![w].arr[k] = x]
      /\ loc' = [loc EXCEPT ![w].i = @ + 1, ![w].n = k, ![w].min = IF x < @ THEN x ELSE @]
      /\ loc[w].i <= NW /\ loc[w].i # w
      /\ xtid' = xtid /\ horizon' = horizon /\ pc[w] = "scan"
  BY DEF TakeSlot, PassedOver, At, slotVars, history
<1>5. loc[w].i \in Workers
  BY <1>3, <1>4
<1>6. x \in 0 .. MaxXtid /\ (x = 0 \/ x >= disk)
  BY <1>5 DEF XtidInv, TypeOK, IdsOK
<1>7. k \in 0 .. NW - 1 /\ k \in Workers
  BY TakenBound
<1>8. /\ \A n \in 1 .. loc[w].n : snap[w].arr[n] = 0 \/ snap[w].arr[n] >= disk
      /\ loc[w].n < loc[w].i
      /\ loc[w].i > w => loc[w].n <= loc[w].i - 2
      /\ loc[w].min <= loc[w].max
  BY <1>1, <1>4 DEF ScanOK
<1>9. k = loc[w].n + 1
  OBVIOUS
<1>10. /\ loc' \in [Workers -> Locals]
       /\ loc'[w].i = loc[w].i + 1 /\ loc'[w].n = k
       /\ loc'[w].max = loc[w].max /\ loc'[w].min <= loc[w].min
  BY TakeSlotLocals
<1> HIDE DEF x, k
<1>11. /\ snap'[w].arr[k] = x
       /\ \A m \in Workers \ {k} : snap'[w].arr[m] = snap[w].arr[m]
  <2>1. snap'[w] = [snap[w] EXCEPT !.arr[k] = x]
    BY <1>1, <1>4
  <2>2. snap[w] \in SnapShotInfo
    BY <1>1
  <2> QED BY <1>7, <2>1, <2>2 DEF SnapShotInfo
<1>12. \A n \in 1 .. loc'[w].n : snap'[w].arr[n] = 0 \/ snap'[w].arr[n] >= disk
  <2> SUFFICES ASSUME NEW n \in 1 .. k PROVE snap'[w].arr[n] = 0 \/ snap'[w].arr[n] >= disk
    BY <1>10
  <2>1. CASE n = k
    BY <2>1, <1>6, <1>11
  <2>2. CASE n # k
    <3>1. n \in 1 .. loc[w].n /\ n \in Workers \ {k}
      BY <2>2, <1>3, <1>7, <1>9
    <3> QED BY <3>1, <1>8, <1>11
  <2> QED BY <2>1, <2>2
<1>13. loc'[w] \in Locals
  BY <1>10
<1>14. loc'[w].min \in Int
  BY <1>13, LocalsFields
<1>15. /\ loc'[w].n < loc'[w].i
       /\ loc'[w].i > w => loc'[w].n <= loc'[w].i - 2
       /\ loc'[w].min <= loc'[w].max
  BY <1>3, <1>4, <1>8, <1>9, <1>10, <1>14
<1> QED BY <1>1, <1>4, <1>10, <1>12, <1>15 DEF ScanOK

\* The collected values become the snapshot.
LEMMA GetSnapshotEffect ==
  ASSUME XtidInv, NEW w \in Workers, GetSnapshot(w)
  PROVE  /\ snap'[w].high = loc[w].max /\ snap'[w].low = loc[w].min
         /\ snap'[w].num = loc[w].n /\ snap'[w].arr = snap[w].arr
<1>1. loc \in [Workers -> Locals] /\ snap \in [Workers -> SnapShotInfo]
  BY DEF XtidInv, TypeOK
<1>2. loc[w] \in Locals
  BY <1>1
<1>3. /\ loc[w].max \in 0 .. MaxXtid + 2 /\ loc[w].min \in 0 .. MaxXtid + 2
      /\ loc[w].n \in 0 .. NW - 1
  BY <1>2, LocalsFields
<1>4. snap' = [snap EXCEPT ![w].high = loc[w].max, ![w].low = loc[w].min,
                           ![w].num = loc[w].n]
  BY DEF GetSnapshot
<1>5. snap'[w] = [snap[w] EXCEPT !.high = loc[w].max, !.low = loc[w].min, !.num = loc[w].n]
  BY <1>1, <1>4
<1>6. snap[w] \in SnapShotInfo
  BY <1>1
<1> QED BY <1>5, <1>6 DEF SnapShotInfo

\* The snapshot under construction: the worker's own step.
LEMMA ScanStep ==
  ASSUME XtidInv, NEW w \in Workers, Command(w)
  PROVE  ScanOK(w)'
<1> TypeOK /\ LevelsOK /\ IdsOK(w) /\ ScanOK(w) /\ SnapshotOK(w)
  BY DEF XtidInv
<1> /\ up /\ disk' = disk
  BY CommandFrame
<1> USE DEF TypeOK, slotVars, history, At, Goto
<1>1. CASE StartTransaction(w)
  BY <1>1 DEF StartTransaction, ScanOK
<1>2. CASE StartedAlready(w)
  BY <1>2 DEF StartedAlready, ScanOK
<1>3. CASE GetNewTransactionID(w)
  BY <1>3 DEF GetNewTransactionID, ScanOK
<1>4. CASE SetTransactionID(w)
  BY <1>4 DEF SetTransactionID, ScanOK
<1>5. CASE QueryError(w)
  BY <1>5 DEF QueryError, ScanOK
<1>6. CASE GenerateSnapshot(w)
  <2> DEFINE m == IF xtid[w] < highXtid + 1 THEN xtid[w] ELSE highXtid + 1
             r == [h |-> 0, max |-> highXtid + 1, i |-> 1, n |-> 0, min |-> m]
  <2>1. loc'[w] = r /\ horizon'[w] = nextXtid /\ xtid'[w] = xtid[w] /\ pc[w] = "exec"
    BY <1>6 DEF GenerateSnapshot
  <2>2. r.i = 1 /\ r.n = 0 /\ r.max = highXtid + 1 /\ r.min = m
    OBVIOUS
  <2>3. xtid[w] >= 1 /\ xtid[w] < nextXtid /\ disk <= xtid[w]
    BY <2>1 DEF IdsOK
  <2>4. /\ disk <= highXtid /\ highXtid \in finished \cup {disk}
        /\ \A x \in finished : x < nextXtid
    BY DEF LevelsOK
  <2>5. /\ highXtid \in Int /\ nextXtid \in Int /\ disk \in Int /\ xtid[w] \in Int
    OBVIOUS
  <2>6. highXtid + 1 <= nextXtid /\ disk < highXtid + 1 /\ m <= highXtid + 1
    BY <2>3, <2>4, <2>5
  <2>7. /\ loc'[w].i = 1 /\ loc'[w].n = 0 /\ loc'[w].max = highXtid + 1 /\ loc'[w].min = m
    BY <2>1, <2>2
  <2> HIDE DEF r, m
  <2> QED BY <2>1, <2>3, <2>6, <2>7 DEF ScanOK
<1>7. CASE SnapshotTaken(w)
  BY <1>7 DEF SnapshotTaken, ScanOK
<1>8. CASE SkipSlot(w)
  BY <1>8, SkipSlotScan
<1>9. CASE TakeSlot(w)
  BY <1>9, TakeSlotScan
<1>10. CASE GetSnapshot(w)
  BY <1>10 DEF GetSnapshot, ScanOK
<1>11. CASE ExecutorPlan(w)
  BY <1>11 DEF ExecutorPlan, ScanOK
<1>12. CASE BeginTransaction(w)
  BY <1>12 DEF BeginTransaction, ScanOK
<1>13. CASE EndTransaction(w)
  BY <1>13 DEF EndTransaction, ScanOK
<1>14. CASE AbortTransaction(w)
  BY <1>14 DEF AbortTransaction, ScanOK
<1>15. CASE StayInBlock(w)
  BY <1>15 DEF StayInBlock, ScanOK
<1>16. CASE FinishTransaction(w)
  BY <1>16 DEF FinishTransaction, ScanOK
<1>17. CASE ReadHighLevel(w)
  BY <1>17 DEF ReadHighLevel, ScanOK
<1>18. CASE HighEnough(w)
  BY <1>18 DEF HighEnough, Finished, ScanOK
<1>19. CASE SetHighLevel(w)
  BY <1>19 DEF SetHighLevel, Finished, ScanOK
<1>20. CASE RetryHighLevel(w)
  BY <1>20 DEF RetryHighLevel, ScanOK
<1> QED
  BY <1>1, <1>2, <1>3, <1>4, <1>5, <1>6, <1>7, <1>8, <1>9, <1>10, <1>11, <1>12, <1>13,
     <1>14, <1>15, <1>16, <1>17, <1>18, <1>19, <1>20 DEF Command

\* The snapshot of the transaction: the worker's own step.
LEMMA SnapshotStep ==
  ASSUME XtidInv, NEW w \in Workers, Command(w)
  PROVE  SnapshotOK(w)'
<1> TypeOK /\ IdsOK(w) /\ ScanOK(w) /\ SnapshotOK(w)
  BY DEF XtidInv
<1> /\ up /\ disk' = disk
  BY CommandFrame
<1> USE DEF TypeOK, slotVars, history, At, Goto
<1>1. CASE StartTransaction(w)
  BY <1>1 DEF StartTransaction, SnapshotOK
<1>2. CASE StartedAlready(w)
  BY <1>2 DEF StartedAlready, SnapshotOK
<1>3. CASE GetNewTransactionID(w)
  BY <1>3 DEF GetNewTransactionID, SnapshotOK
<1>4. CASE SetTransactionID(w)
  BY <1>4 DEF SetTransactionID, SnapshotOK
<1>5. CASE QueryError(w)
  BY <1>5 DEF QueryError, SnapshotOK
<1>6. CASE GenerateSnapshot(w)
  <2>1. ~taken[w] /\ taken' = taken /\ pc'[w] = "scan"
    BY <1>6 DEF GenerateSnapshot, NeedSnapshot
  <2> QED BY <2>1 DEF SnapshotOK
<1>7. CASE SnapshotTaken(w)
  BY <1>7 DEF SnapshotTaken, NeedSnapshot, SnapshotOK
<1>8. CASE SkipSlot(w)
  BY <1>8 DEF SkipSlot, SnapshotOK
<1>9. CASE TakeSlot(w)
  <2>1. pc' = pc /\ taken' = taken /\ mine' = mine /\ pc[w] = "scan"
    BY <1>9 DEF TakeSlot
  <2>2. mine[w] /\ ~taken[w]
    BY <2>1 DEF SnapshotOK, IdsOK
  <2> QED BY <2>1, <2>2 DEF SnapshotOK
<1>10. CASE GetSnapshot(w)
  <2>1. /\ snap'[w].high = loc[w].max /\ snap'[w].low = loc[w].min
        /\ snap'[w].num = loc[w].n /\ snap'[w].arr = snap[w].arr
    BY <1>10, GetSnapshotEffect
  <2>2. /\ xtid'[w] = xtid[w] /\ horizon'[w] = horizon[w] /\ pc[w] = "scan"
        /\ pc'[w] = "plan" /\ taken'[w]
    BY <1>10 DEF GetSnapshot
  <2> QED BY <2>1, <2>2 DEF ScanOK, SnapshotOK
<1>11. CASE ExecutorPlan(w)
  BY <1>11 DEF ExecutorPlan, SnapshotOK
<1>12. CASE BeginTransaction(w)
  BY <1>12 DEF BeginTransaction, SnapshotOK
<1>13. CASE EndTransaction(w)
  BY <1>13 DEF EndTransaction, SnapshotOK
<1>14. CASE AbortTransaction(w)
  BY <1>14 DEF AbortTransaction, SnapshotOK
<1>15. CASE StayInBlock(w)
  BY <1>15 DEF StayInBlock, SnapshotOK
<1>16. CASE FinishTransaction(w)
  BY <1>16 DEF FinishTransaction, SnapshotOK
<1>17. CASE ReadHighLevel(w)
  BY <1>17 DEF ReadHighLevel, SnapshotOK
<1>18. CASE HighEnough(w)
  BY <1>18 DEF HighEnough, Finished, SnapshotOK
<1>19. CASE SetHighLevel(w)
  BY <1>19 DEF SetHighLevel, Finished, SnapshotOK
<1>20. CASE RetryHighLevel(w)
  BY <1>20 DEF RetryHighLevel, SnapshotOK
<1> QED
  BY <1>1, <1>2, <1>3, <1>4, <1>5, <1>6, <1>7, <1>8, <1>9, <1>10, <1>11, <1>12, <1>13,
     <1>14, <1>15, <1>16, <1>17, <1>18, <1>19, <1>20 DEF Command

-----------------------------------------------------------------------------
\* A step of a command keeps the invariant, of every worker.
LEMMA CommandStep ==
  ASSUME XtidInv, NEW w \in Workers, Command(w)
  PROVE  XtidInv'
<1>1. TypeOK' /\ LevelsOK' /\ IdsOK(w)' /\ ScanOK(w)' /\ SnapshotOK(w)'
  BY CommandType, LevelsStep, IdsStep, ScanStep, SnapshotStep
<1>2. ASSUME NEW v \in Workers, v # w PROVE IdsOK(v)' /\ ScanOK(v)' /\ SnapshotOK(v)'
  <2>1. /\ TypeOK /\ IdsOK(v) /\ ScanOK(v) /\ SnapshotOK(v)
    BY DEF XtidInv
  <2>2. /\ up' = up /\ disk' = disk /\ nextXtid' \in {nextXtid, nextXtid + 1} /\ Apart(v)
    BY <1>2, CommandFrame
  <2>3. /\ nextXtid \in Int /\ nextXtid' \in Int /\ nextXtid' >= nextXtid
        /\ xtid[v] \in Int
    BY <2>1, <2>2, Ranges
  <2>4. loc[v].h \in Int
    BY <2>1, LocalRanges
  <2>5. IdsOK(v)'
    BY <2>1, <2>2, <2>3, <2>4 DEF IdsOK, Apart
  <2>6. ScanOK(v)'
    BY <2>1, <2>2 DEF ScanOK, Apart
  <2>7. SnapshotOK(v)'
    BY <2>1, <2>2 DEF SnapshotOK, Apart
  <2> QED BY <2>5, <2>6, <2>7
<1> QED BY <1>1, <1>2 DEF XtidInv

\* A start restores the identifiers: every kept one is below them.
LEMMA StartStep == XtidInv /\ StartToadb => XtidInv'
<1> SUFFICES ASSUME XtidInv, StartToadb PROVE XtidInv'
  OBVIOUS
<1>0. TypeOK /\ LevelsOK /\ \A w \in Workers : IdsOK(w) /\ ScanOK(w) /\ SnapshotOK(w)
  BY DEF XtidInv
<1>1. /\ ~up /\ up' = TRUE /\ disk' = disk /\ finished = kept
      /\ nextXtid' = (IF disk = 0 THEN 1 ELSE disk) /\ highXtid' = disk
      /\ ts' = ts /\ xtid' = xtid /\ taken' = taken /\ mine' = mine /\ snap' = snap
      /\ pc' = pc /\ loc' = loc
      /\ finished' = finished /\ kept' = kept /\ horizon' = horizon
  BY <1>0 DEF StartToadb, RestoredHigh, NoFile, slotVars, history, LevelsOK
<1>2. disk \in 0 .. MaxXtid + 1 /\ kept \subseteq Int
  BY <1>0 DEF TypeOK, Xtids
<1>3. nextXtid' \in 1 .. MaxXtid + 1 /\ disk <= nextXtid' /\ highXtid' \in 0 .. MaxXtid + 1
  BY <1>1, <1>2
<1>4. TypeOK'
  BY <1>0, <1>1, <1>3 DEF TypeOK
<1>5. \A w \in Workers : pc[w] = "idle" /\ ~mine[w]
  BY <1>0, <1>1 DEF IdsOK
<1>6. \A x \in kept : x < disk
  BY <1>0 DEF LevelsOK
<1>7. \A x \in kept : x <= disk /\ x < nextXtid'
  BY <1>2, <1>3, <1>6
<1>8. LevelsOK'
  <2>1. /\ up' /\ disk' = disk /\ highXtid' = disk /\ finished' = kept /\ kept' = kept
        /\ pc' = pc
    BY <1>1
  <2>2. disk' <= highXtid' /\ disk' <= nextXtid'
    BY <1>2, <1>3, <2>1
  <2>3. \A x \in finished' : x <= highXtid' /\ x < nextXtid'
    BY <1>7, <2>1
  <2>4. highXtid' \in finished' \cup {disk'}
    BY <2>1
  <2> QED BY <1>5, <1>6, <2>1, <2>2, <2>3, <2>4 DEF LevelsOK
<1>9. ASSUME NEW w \in Workers PROVE IdsOK(w)' /\ ScanOK(w)' /\ SnapshotOK(w)'
  <2>1. xtid[w] \in 0 .. MaxXtid /\ xtid[w] < nextXtid /\ nextXtid = 1
    BY <1>0, <1>1 DEF TypeOK, IdsOK, LevelsOK
  <2>2. xtid[w] = 0
    BY <2>1
  <2> QED BY <1>1, <1>3, <1>5, <2>2 DEF IdsOK, ScanOK, SnapshotOK
<1> QED BY <1>4, <1>8, <1>9 DEF XtidInv

\* The end of the process, recorded or not, clears everything that XtidInv relates to
\* the identifiers still in memory.
LEMMA EndStep ==
  ASSUME XtidInv, ExitToad \/ Kill
  PROVE  XtidInv'
<1>0. TypeOK /\ LevelsOK
  BY DEF XtidInv
<1>1. /\ up /\ ~up' /\ nextXtid' = 1 /\ highXtid' = 0
      /\ ts' = [w \in Workers |-> "TS_IDLE"]
      /\ xtid' = [w \in Workers |-> 0]
      /\ taken' = [w \in Workers |-> FALSE]
      /\ mine' = [w \in Workers |-> FALSE]
      /\ snap' = [w \in Workers |-> NoSnapshot]
      /\ pc' = [w \in Workers |-> "idle"]
      /\ loc' = [w \in Workers |-> NoLocals]
      /\ horizon' = [w \in Workers |-> 0]
      /\ up' \in BOOLEAN
  BY DEF ExitToad, Kill, ProcessEnds
<1>2. /\ disk' \in 0 .. MaxXtid + 1 /\ finished' = kept' /\ kept' \subseteq Xtids
      /\ \A x \in kept' : x < disk'
  BY <1>0, <1>1 DEF ExitToad, Kill, TypeOK, LevelsOK
<1>3. nextXtid' \in 1 .. MaxXtid + 1 /\ highXtid' \in 0 .. MaxXtid + 1
  BY <1>1
<1>4. TypeOK'
  BY <1>1, <1>2, <1>3, NoLocalsType, NoSnapshotType DEF TypeOK
<1>5. LevelsOK'
  BY <1>1, <1>2 DEF LevelsOK
<1>6. \A w \in Workers : IdsOK(w)' /\ ScanOK(w)' /\ SnapshotOK(w)'
  BY <1>1 DEF IdsOK, ScanOK, SnapshotOK
<1> QED BY <1>4, <1>5, <1>6 DEF XtidInv

\* The next session starts with a cleared snapshot and nothing else changes.
LEMMA SessionStep ==
  ASSUME XtidInv, NEW w \in Workers, NewSession(w)
  PROVE  XtidInv'
<1>0. TypeOK /\ LevelsOK /\ \A v \in Workers : IdsOK(v) /\ ScanOK(v) /\ SnapshotOK(v)
  BY DEF XtidInv
<1>1. /\ up' = up /\ disk' = disk /\ nextXtid' = nextXtid /\ highXtid' = highXtid
      /\ ts' = ts /\ xtid' = xtid /\ taken' = taken /\ mine' = mine
      /\ pc' = pc /\ loc' = loc /\ pc[w] = "idle"
      /\ finished' = finished /\ kept' = kept /\ horizon' = horizon
      /\ snap' = [snap EXCEPT ![w] = NoSnapshot]
  BY DEF NewSession, slotVars, history
<1>2. TypeOK'
  BY <1>0, <1>1, NoSnapshotType DEF TypeOK
<1>3. LevelsOK'
  BY <1>0, <1>1 DEF LevelsOK
<1>4. ASSUME NEW v \in Workers PROVE IdsOK(v)' /\ ScanOK(v)' /\ SnapshotOK(v)'
  <2>1. IdsOK(v)'
    BY <1>0, <1>1 DEF IdsOK
  <2>2. CASE v = w
    <3>1. snap'[w].high = 0
      BY <1>0, <1>1, NoSnapshotType DEF TypeOK
    <3> QED BY <1>0, <1>1, <2>1, <2>2, <3>1 DEF ScanOK, SnapshotOK
  <2>3. CASE v # w
    <3>1. snap'[v] = snap[v]
      BY <1>0, <1>1, <2>3 DEF TypeOK
    <3> QED BY <1>0, <1>1, <2>1, <3>1 DEF ScanOK, SnapshotOK
  <2> QED BY <2>2, <2>3
<1> QED BY <1>2, <1>3, <1>4 DEF XtidInv

\* Every step keeps the invariant.
LEMMA XtidStep == XtidInv /\ [Next]_vars => XtidInv'
<1> SUFFICES ASSUME XtidInv, [Next]_vars PROVE XtidInv'
  OBVIOUS
<1>1. CASE UNCHANGED vars
  BY <1>1 DEF vars, slotVars, history, XtidInv, TypeOK, LevelsOK, IdsOK, ScanOK, SnapshotOK
<1>2. CASE Next
  BY <1>2, StartStep, EndStep, SessionStep, CommandStep DEF Next
<1> QED BY <1>1, <1>2

\* The first start in an empty data directory.
LEMMA XtidInit == Init => XtidInv
<1> SUFFICES ASSUME Init PROVE XtidInv
  OBVIOUS
<1> USE DEF Init, InitTransactContext, NoFile
<1>1. TypeOK
  BY NoLocalsType, NoSnapshotType DEF TypeOK
<1>2. LevelsOK
  BY DEF LevelsOK
<1>3. \A w \in Workers : IdsOK(w) /\ ScanOK(w) /\ SnapshotOK(w)
  BY DEF IdsOK, ScanOK, SnapshotOK
<1> QED BY <1>1, <1>2, <1>3 DEF XtidInv

\* XtidInv is an invariant of the transactions of every number of workers.
THEOREM TransactionsInvariant == Spec => []XtidInv
<1> QED BY XtidInit, XtidStep, PTL DEF Spec

\* The types of the shared words, of the slots, of the snapshots and of the locals; the
\* snapshot's array never needs more than NW - 1 entries.
THEOREM TransactionsTypeOK == Spec => []TypeOK
<1>1. XtidInv => TypeOK
  BY DEF XtidInv
<1> QED BY <1>1, TransactionsInvariant, PTL

\* SetHighLevelTransaction keeps the greatest finished identifier, whatever exchanges
\* of other workers come between its read and its exchange.
THEOREM TransactionsHighIsMaxFinished == Spec => []HighIsMaxFinished
<1>1. XtidInv => HighIsMaxFinished
  BY DEF XtidInv, LevelsOK, HighIsMaxFinished
<1> QED BY <1>1, TransactionsInvariant, PTL

-----------------------------------------------------------------------------
(* The verdicts of TupleVisibilitySatisfy on one other transaction. *)

\* An identifier at or above the snapshot's high mark is not seen.
LEMMA AboveHigh ==
  ASSUME NEW w \in Workers, NEW x \in Xtids, x # xtid[w], xtid[w] \in Nat,
         ~(x < snap[w].low), ~(x < snap[w].high)
  PROVE  ~SeesInsert(w, x) /\ ~SeesDelete(w, x)
<1>1. TupleVisibilitySnapshot(x, snap[w]) = "IN_SNAPSHOT"
  BY DEF TupleVisibilitySnapshot
<1>2. x # INVALID_XTID /\ xtid[w] # INVALID_XTID
  BY DEF INVALID_XTID, Xtids
<1> QED BY <1>1, <1>2 DEF SeesInsert, SeesDelete, TupleVisibilitySatisfy

\* An identifier below the high mark that is not in the array is seen.
LEMMA BelowHigh ==
  ASSUME NEW w \in Workers, NEW x \in Xtids, x < snap[w].high,
         ~XtidIsInSnapshot(x, snap[w])
  PROVE  SeesInsert(w, x) /\ SeesDelete(w, x)
<1>1. TupleVisibilitySnapshot(x, snap[w]) = "OUT_SNAPSHOT"
  BY DEF TupleVisibilitySnapshot
<1>2. x # INVALID_XTID
  BY DEF INVALID_XTID, Xtids
<1>3. GetTransactionState(x) = "TRANS_COMMITED" /\ GetTransactionState(xtid[w]) = "TRANS_COMMITED"
  BY DEF GetTransactionState
<1>4. "OUT_SNAPSHOT" # "IN_SNAPSHOT"
  OBVIOUS
<1> QED BY <1>1, <1>2, <1>3, <1>4 DEF SeesInsert, SeesDelete, TupleVisibilitySatisfy

\* What XtidInv says of a worker that executes a statement.
LEMMA ReadingSnapshot ==
  ASSUME XtidInv, NEW w \in Workers, Reading(w)
  PROVE  /\ xtid[w] < horizon[w] /\ xtid[w] \in Nat /\ horizon[w] \in Int /\ disk \in Int
         /\ snap[w].low <= snap[w].high /\ snap[w].low \in Int /\ snap[w].high \in Int
         /\ disk < snap[w].high /\ snap[w].high <= horizon[w]
         /\ snap[w].num \in 0 .. NW - 1 /\ snap[w].arr \in [Workers -> 0 .. MaxXtid]
         /\ \A n \in 1 .. snap[w].num : snap[w].arr[n] = 0 \/ snap[w].arr[n] >= disk
<1>1. TypeOK /\ IdsOK(w) /\ SnapshotOK(w)
  BY DEF XtidInv
<1>2. mine[w] /\ taken[w] /\ snap[w].high > 0
  BY <1>1 DEF Reading, At, IdsOK, SnapshotOK
<1>3. snap[w] \in SnapShotInfo /\ xtid[w] \in Nat /\ horizon[w] \in Int /\ disk \in Int
  BY <1>1 DEF TypeOK
<1>4. /\ snap[w].low \in Int /\ snap[w].high \in Int
      /\ snap[w].num \in 0 .. NW - 1 /\ snap[w].arr \in [Workers -> 0 .. MaxXtid]
  BY <1>3, SnapshotFields
<1> QED BY <1>1, <1>2, <1>3, <1>4 DEF SnapshotOK

\* Nothing of a transaction that began after the snapshot is seen through it.
THEOREM TransactionsNoFutureRead == Spec => []NoFutureRead
<1>1. XtidInv => NoFutureRead
  <2> SUFFICES ASSUME XtidInv, NEW w \in Workers, Reading(w),
                      NEW x \in Xtids, x >= horizon[w]
               PROVE  ~SeesInsert(w, x) /\ ~SeesDelete(w, x)
    BY DEF NoFutureRead
  <2>1. /\ xtid[w] < horizon[w] /\ xtid[w] \in Nat /\ horizon[w] \in Int
        /\ snap[w].low <= snap[w].high /\ snap[w].low \in Int /\ snap[w].high \in Int
        /\ snap[w].high <= horizon[w]
    BY ReadingSnapshot
  <2>2. x # xtid[w] /\ ~(x < snap[w].low) /\ ~(x < snap[w].high)
    BY <2>1 DEF Xtids
  <2> QED BY <2>1, <2>2, AboveHigh
<1> QED BY <1>1, TransactionsInvariant, PTL

\* What finished before the last recorded stop is seen by every later snapshot.
THEOREM TransactionsPersistedVisible == Spec => []PersistedVisible
<1>1. XtidInv => PersistedVisible
  <2> SUFFICES ASSUME XtidInv, NEW w \in Workers, Reading(w), NEW x \in kept
               PROVE  SeesInsert(w, x) /\ SeesDelete(w, x)
    BY DEF PersistedVisible
  <2>1. x \in Xtids /\ x < disk
    BY DEF XtidInv, TypeOK, LevelsOK
  <2> DEFINE arr == snap[w].arr
             num == snap[w].num
  <2>2. /\ disk \in Int /\ disk < snap[w].high /\ snap[w].high \in Int
        /\ num \in 0 .. NW - 1 /\ arr \in [Workers -> 0 .. MaxXtid]
        /\ \A n \in 1 .. num : arr[n] = 0 \/ arr[n] >= disk
    BY ReadingSnapshot
  <2>3. x < snap[w].high
    BY <2>1, <2>2 DEF Xtids
  <2>4. ASSUME NEW n \in 1 .. num PROVE arr[n] # x
    <3> HIDE DEF arr, num
    <3>1. n \in Workers
      BY <2>2
    <3>2. arr[n] \in Int
      BY <2>2, <3>1
    <3>3. arr[n] = 0 \/ arr[n] >= disk
      BY <2>2
    <3> QED BY <2>1, <2>2, <3>2, <3>3 DEF Xtids
  <2>5. ~XtidIsInSnapshot(x, snap[w])
    BY <2>4 DEF XtidIsInSnapshot
  <2> QED BY <2>1, <2>3, <2>5, BelowHigh
<1> QED BY <1>1, TransactionsInvariant, PTL

\* Within one transaction of a session no step, of any worker, changes a verdict: once
\* the snapshot is taken nothing writes to it.
THEOREM TransactionsRepeatableRead == Spec => RepeatableRead
<1> DEFINE Same(w) == \A x \in Xtids : /\ SeesInsert(w, x)' = SeesInsert(w, x)
                                       /\ SeesDelete(w, x)' = SeesDelete(w, x)
           Within(w) == mine[w] /\ taken[w] /\ xtid'[w] = xtid[w] /\ mine'[w] /\ up
                        /\ ~NewSession(w)
<1>1. ASSUME XtidInv, Next, NEW w \in Workers, Within(w) PROVE Same(w)
  <2>1. snap'[w] = snap[w]
    <3>0. TypeOK /\ SnapshotOK(w)
      BY <1>1 DEF XtidInv
    <3>1. CASE StartToadb
      BY <1>1, <3>1 DEF StartToadb
    <3>2. CASE ExitToad \/ Kill
      BY <1>1, <3>2 DEF ExitToad, Kill, ProcessEnds
    <3>3. ASSUME NEW v \in Workers, NewSession(v) PROVE snap'[w] = snap[w]
      <4>1. v # w
        BY <1>1, <3>3
      <4> QED BY <3>0, <3>3, <4>1 DEF NewSession, TypeOK
    <3>4. ASSUME NEW v \in Workers, v # w, Command(v) PROVE snap'[w] = snap[w]
      BY <1>1, <3>4, CommandFrame DEF Apart
    <3>5. CASE Command(w)
      <4>1. pc[w] # "scan"
        BY <1>1, <3>0 DEF SnapshotOK
      <4>2. ~TakeSlot(w) /\ ~GetSnapshot(w)
        BY <4>1 DEF TakeSlot, GetSnapshot, At
      <4> QED
        BY <3>5, <4>2 DEF Command, StartTransaction, StartedAlready, GetNewTransactionID,
             SetTransactionID, QueryError, GenerateSnapshot, SnapshotTaken, SkipSlot,
             ExecutorPlan, BeginTransaction, EndTransaction, AbortTransaction, StayInBlock,
             FinishTransaction, ReadHighLevel, HighEnough, SetHighLevel, RetryHighLevel,
             Finished
    <3> QED BY <1>1, <3>1, <3>2, <3>3, <3>4, <3>5 DEF Next
  <2>2. xtid'[w] = xtid[w]
    BY <1>1
  <2> QED
    BY <2>1, <2>2 DEF SeesInsert, SeesDelete, TupleVisibilitySatisfy,
                      TupleVisibilitySnapshot, XtidIsInSnapshot, GetTransactionState
<1>2. XtidInv /\ [Next]_vars => [\A w \in Workers : Within(w) => Same(w)]_vars
  BY <1>1
<1> QED BY <1>2, TransactionsInvariant, PTL DEF Spec, RepeatableRead
=============================================================================

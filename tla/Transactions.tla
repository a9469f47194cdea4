---------------------------- MODULE Transactions ----------------------------
(***************************************************************************)
(* Transaction identifiers, the transaction of each worker, and the        *)
(* snapshots that decide which row versions a statement sees               *)
(* (sqlcore/transaction, executor/execTransaction.c), as ToadMainEntry     *)
(* drives them for every command, with the stop, the kill and the start of *)
(* the server that save and restore the identifiers (toadmain.c).          *)
(*                                                                         *)
(*   idle -> newid -> setid -> exec -> scan -> plan -> finish -> idle      *)
(*                                                       |        ^        *)
(*                                                       +-> high -> cas   *)
(*                                                                         *)
(* No step takes a lock ("TODO: lock"), so every access to a shared word   *)
(* is a step of its own; ts and transactionID of one slot are read in one  *)
(* step, which gives the same results as two.  A row is its header: the    *)
(* identifiers that wrote it (tmin) and that replaced it (tmax).           *)
(***************************************************************************)
EXTENDS Integers, FiniteSets

CONSTANTS
  NW,          \* maxThreadWorkerNum, the length of transactionContextArray
  MaxXtid      \* bound: the identifiers 1 .. MaxXtid are handed out

ASSUME NWAssumption == NW \in Nat \ {0}
ASSUME MaxXtidAssumption == MaxXtid \in Nat \ {0}

Workers == 1 .. NW
Xtids == 1 .. MaxXtid

INVALID_XTID == -1
NoFile == 0

VARIABLES
  up,                \* the server runs
  disk,              \* nextTransactionId in the file of global data
  nextXtid, highXtid, \* transactionInfo
  ts, xtid, taken,   \* a slot of transactionContextArray; taken is its field snapshot
  mine,              \* myTransaction # NULL
  snap,              \* servContext.snapshotPortal of the session
  pc, loc,           \* a worker in ToadMainEntry and its locals
  finished,          \* history: identifiers whose FinishTransaction is complete
  kept,              \* history: those finished before the last recorded stop
  horizon            \* history: nextXtid when the worker's snapshot was begun

slotVars == <<ts, xtid, taken>>
history  == <<finished, kept, horizon>>
vars == <<up, disk, nextXtid, highXtid, slotVars, mine, snap, pc, loc, history>>

NoSnapshot == [high |-> 0, low |-> 0, num |-> 0, arr |-> [n \in Workers |-> 0]]
NoLocals   == [h |-> 0, max |-> 0, min |-> 0, i |-> 1, n |-> 0]

\* SnapShotInfo, and the locals of the functions of a worker.
SnapShotInfo == [high : 0 .. MaxXtid + 2, low : 0 .. MaxXtid + 2, num : 0 .. NW - 1,
                 arr : [Workers -> 0 .. MaxXtid]]
Locals == [h : 0 .. MaxXtid + 1, max : 0 .. MaxXtid + 2, min : 0 .. MaxXtid + 2,
           i : 1 .. NW + 1, n : 0 .. NW - 1]

TypeOK ==
  /\ up \in BOOLEAN
  /\ disk \in 0 .. MaxXtid + 1
  /\ nextXtid \in 1 .. MaxXtid + 1
  /\ highXtid \in 0 .. MaxXtid + 1
  /\ ts \in [Workers -> {"TS_IDLE", "TS_START", "TS_BEGIN", "TS_COMMIT", "TS_ABORT"}]
  /\ xtid \in [Workers -> 0 .. MaxXtid]
  /\ taken \in [Workers -> BOOLEAN]
  /\ mine \in [Workers -> BOOLEAN]
  /\ snap \in [Workers -> SnapShotInfo]
  /\ pc \in [Workers -> {"idle", "newid", "setid", "exec", "scan", "plan", "finish",
                         "high", "cas"}]
  /\ loc \in [Workers -> Locals]
  /\ finished \subseteq Xtids
  /\ kept \subseteq Xtids
  /\ horizon \in [Workers -> 0 .. MaxXtid + 1]

-----------------------------------------------------------------------------
(* The server process. *)

\* InitTransactContext clears the slots; a worker thread starts without transaction.
InitTransactContext ==
  /\ ts = [w \in Workers |-> "TS_IDLE"]
  /\ xtid = [w \in Workers |-> 0]
  /\ taken = [w \in Workers |-> FALSE]
  /\ mine = [w \in Workers |-> FALSE]
  /\ snap = [w \in Workers |-> NoSnapshot]
  /\ pc = [w \in Workers |-> "idle"]
  /\ loc = [w \in Workers |-> NoLocals]

\* The first start in an empty data directory: transactionInfo = {1,0,0}.
Init ==
  /\ up = TRUE /\ disk = NoFile
  /\ nextXtid = 1 /\ highXtid = 0
  /\ InitTransactContext
  /\ finished = {} /\ kept = {}
  /\ horizon = [w \in Workers |-> 0]

\* Mutant: the high level is left as the program initialises it.
HighNotRestored == 0

\* Mutant: the high level is one more than what is handed out first.
HighTooFar == IF disk = NoFile THEN 0 ELSE disk + 1

\* ReadSysGlobalData: every identifier below the saved one counts as finished.
RestoredHigh == IF disk = NoFile THEN 0 ELSE disk

StartToadb ==
  /\ ~up
  /\ up' = TRUE
  /\ nextXtid' = IF disk = NoFile THEN 1 ELSE disk
  /\ highXtid' = RestoredHigh
  /\ UNCHANGED <<disk, slotVars, mine, snap, pc, loc, history>>

\* The process is gone with its memory; InitTransactContext finds the slots cleared.
ProcessEnds ==
  /\ up
  /\ up' = FALSE
  /\ nextXtid' = 1 /\ highXtid' = 0
  /\ ts' = [w \in Workers |-> "TS_IDLE"]
  /\ xtid' = [w \in Workers |-> 0]
  /\ taken' = [w \in Workers |-> FALSE]
  /\ mine' = [w \in Workers |-> FALSE]
  /\ snap' = [w \in Workers |-> NoSnapshot]
  /\ pc' = [w \in Workers |-> "idle"]
  /\ loc' = [w \in Workers |-> NoLocals]
  /\ horizon' = [w \in Workers |-> 0]

\* SIGTERM: the workers are ended wherever they are, then RecordSysGlobal.
ExitToad ==
  /\ ProcessEnds
  /\ disk' = nextXtid
  /\ kept' = finished
  /\ UNCHANGED finished

\* kill -9: nothing is recorded; the identifiers since the last record come again.
Kill ==
  /\ ProcessEnds
  /\ finished' = kept
  /\ UNCHANGED <<disk, kept>>

\* BeginTask of the next client: CreateSnapshot returns cleared memory, myTransaction stays.
NewSession(w) ==
  /\ up /\ pc[w] = "idle"
  /\ snap[w] # NoSnapshot
  /\ snap' = [snap EXCEPT ![w] = NoSnapshot]
  /\ UNCHANGED <<up, disk, nextXtid, highXtid, slotVars, mine, pc, loc, history>>

-----------------------------------------------------------------------------
(* One command. *)

At(w, l) == up /\ pc[w] = l
Goto(w, l) == pc' = [pc EXCEPT ![w] = l]

\* StartTransaction, when the worker has no transaction: the slot is shown as started
\* before its identifier is there.
StartTransaction(w) ==
  /\ At(w, "idle") /\ ~mine[w]
  /\ nextXtid <= MaxXtid
  /\ mine' = [mine EXCEPT ![w] = TRUE]
  /\ taken' = [taken EXCEPT ![w] = FALSE]
  /\ ts[w] = "TS_IDLE"
  /\ ts' = [ts EXCEPT ![w] = "TS_START"]
  /\ Goto(w, "newid")
  /\ UNCHANGED <<up, disk, nextXtid, highXtid, xtid, snap, loc, history>>

\* "transaction is already started."
StartedAlready(w) ==
  /\ At(w, "idle") /\ mine[w]
  /\ Goto(w, "exec")
  /\ UNCHANGED <<up, disk, nextXtid, highXtid, slotVars, mine, snap, loc, history>>

GetNewTransactionID(w) ==
  /\ At(w, "newid")
  /\ nextXtid <= MaxXtid
  /\ loc' = [loc EXCEPT ![w].h = nextXtid]
  /\ nextXtid' = nextXtid + 1
  /\ Goto(w, "setid")
  /\ UNCHANGED <<up, disk, highXtid, slotVars, mine, snap, history>>

SetTransactionID(w) ==
  /\ At(w, "setid")
  /\ xtid' = [xtid EXCEPT ![w] = loc[w].h]
  /\ loc' = [loc EXCEPT ![w] = NoLocals]
  /\ Goto(w, "exec")
  /\ UNCHANGED <<up, disk, nextXtid, highXtid, ts, taken, mine, snap, history>>

\* raw_parser or QueryAnalyzeAndRewrite failed: nothing is executed.
QueryError(w) ==
  /\ At(w, "exec")
  /\ Goto(w, "finish")
  /\ UNCHANGED <<up, disk, nextXtid, highXtid, slotVars, mine, snap, loc, history>>

\* Mutant: the snapshot is generated for every statement.
NeedSnapshotAlways(w) == TRUE

\* til_Read_Repeatable: "snapshot is generated once."
NeedSnapshot(w) == ~taken[w]

GenerateSnapshot(w) ==
  /\ At(w, "exec")
  /\ NeedSnapshot(w)
  /\ LET max == highXtid + 1
     IN  loc' = [loc EXCEPT ![w] =
                   [h |-> 0, max |-> max, i |-> 1, n |-> 0,
                    min |-> IF xtid[w] < max THEN xtid[w] ELSE max]]
  /\ horizon' = [horizon EXCEPT ![w] = nextXtid]
  /\ Goto(w, "scan")
  /\ UNCHANGED <<up, disk, nextXtid, highXtid, slotVars, mine, snap, finished, kept>>

SnapshotTaken(w) ==
  /\ At(w, "exec")
  /\ ~NeedSnapshot(w)
  /\ Goto(w, "plan")
  /\ UNCHANGED <<up, disk, nextXtid, highXtid, slotVars, mine, snap, loc, history>>

\* Mutant: the worker's own slot is not left out.
IdleSlot(w, i) == ts[i] = "TS_IDLE"

\* Slots that GetActiveXtids passes over: idle ones and the worker's own.
PassedOver(w, i) == ts[i] = "TS_IDLE" \/ xtid[i] = xtid[w]

\* The test "xtid overhead max" reads the array before it is written: it sees what an
\* earlier snapshot of the session left there.
OverMax(w) == snap[w].arr[loc[w].n + 1] > loc[w].max

SkipSlot(w) ==
  /\ At(w, "scan") /\ loc[w].i <= NW
  /\ PassedOver(w, loc[w].i) \/ OverMax(w)
  /\ loc' = [loc EXCEPT ![w].i = @ + 1]
  /\ UNCHANGED <<up, disk, nextXtid, highXtid, slotVars, mine, snap, pc, history>>

TakeSlot(w) ==
  /\ At(w, "scan") /\ loc[w].i <= NW
  /\ ~PassedOver(w, loc[w].i) /\ ~OverMax(w)
  /\ LET x == xtid[loc[w].i]
         n == loc[w].n + 1
     IN  /\ snap' = [snap EXCEPT ![w].arr[n] = x]
         /\ loc' = [loc EXCEPT ![w].i = @ + 1, ![w].n = n,
                               ![w].min = IF x < @ THEN x ELSE @]
  /\ UNCHANGED <<up, disk, nextXtid, highXtid, slotVars, mine, pc, history>>

GetSnapshot(w) ==
  /\ At(w, "scan") /\ loc[w].i > NW
  /\ snap' = [snap EXCEPT ![w].high = loc[w].max, ![w].low = loc[w].min,
                          ![w].num = loc[w].n]
  /\ taken' = [taken EXCEPT ![w] = TRUE]
  /\ loc' = [loc EXCEPT ![w] = NoLocals]
  /\ Goto(w, "plan")
  /\ UNCHANGED <<up, disk, nextXtid, highXtid, ts, xtid, mine, history>>

\* A query, a change of rows or another utility: transactions are not affected.
ExecutorPlan(w) ==
  /\ At(w, "plan")
  /\ Goto(w, "finish")
  /\ UNCHANGED <<up, disk, nextXtid, highXtid, slotVars, mine, snap, loc, history>>

BeginTransaction(w) ==
  /\ At(w, "plan")
  /\ ts' = [ts EXCEPT ![w] = IF @ = "TS_START" THEN "TS_BEGIN" ELSE @]
  /\ Goto(w, "finish")
  /\ UNCHANGED <<up, disk, nextXtid, highXtid, xtid, taken, mine, snap, loc, history>>

EndTransaction(w) ==
  /\ At(w, "plan")
  /\ ts' = [ts EXCEPT ![w] = "TS_COMMIT"]
  /\ Goto(w, "finish")
  /\ UNCHANGED <<up, disk, nextXtid, highXtid, xtid, taken, mine, snap, loc, history>>

AbortTransaction(w) ==
  /\ At(w, "plan")
  /\ ts' = [ts EXCEPT ![w] = "TS_ABORT"]
  /\ Goto(w, "finish")
  /\ UNCHANGED <<up, disk, nextXtid, highXtid, xtid, taken, mine, snap, loc, history>>

\* A transaction block stays open.
StayInBlock(w) ==
  /\ At(w, "finish")
  /\ ts[w] = "TS_BEGIN"
  /\ Goto(w, "idle")
  /\ UNCHANGED <<up, disk, nextXtid, highXtid, slotVars, mine, snap, loc, history>>

FinishTransaction(w) ==
  /\ At(w, "finish")
  /\ ts[w] \in {"TS_START", "TS_COMMIT", "TS_ABORT"}
  /\ ts' = [ts EXCEPT ![w] = "TS_IDLE"]
  /\ Goto(w, "high")
  /\ UNCHANGED <<up, disk, nextXtid, highXtid, xtid, taken, mine, snap, loc, history>>

\* SetHighLevelTransaction: read, then compare and exchange until it is not below xtid.
ReadHighLevel(w) ==
  /\ At(w, "high")
  /\ loc' = [loc EXCEPT ![w].h = highXtid]
  /\ Goto(w, "cas")
  /\ UNCHANGED <<up, disk, nextXtid, highXtid, slotVars, mine, snap, history>>

\* myTransaction = NULL
Finished(w) ==
  /\ mine' = [mine EXCEPT ![w] = FALSE]
  /\ finished' = finished \cup {xtid[w]}
  /\ loc' = [loc EXCEPT ![w] = NoLocals]
  /\ horizon' = [horizon EXCEPT ![w] = 0]
  /\ Goto(w, "idle")
  /\ UNCHANGED <<up, disk, nextXtid, slotVars, snap, kept>>

HighEnough(w) ==
  /\ At(w, "cas")
  /\ loc[w].h >= xtid[w]
  /\ UNCHANGED highXtid
  /\ Finished(w)

\* Mutant: a plain store.
ExchangeBlindly(w) == TRUE

\* What atomic_compare_exchange64 compares.
Exchangeable(w) == highXtid = loc[w].h

SetHighLevel(w) ==
  /\ At(w, "cas")
  /\ loc[w].h < xtid[w] /\ Exchangeable(w)
  /\ highXtid' = xtid[w]
  /\ Finished(w)

RetryHighLevel(w) ==
  /\ At(w, "cas")
  /\ loc[w].h < xtid[w] /\ ~Exchangeable(w)
  /\ loc' = [loc EXCEPT ![w].h = highXtid]
  /\ UNCHANGED <<up, disk, nextXtid, highXtid, slotVars, mine, snap, pc, history>>

Command(w) ==
  \/ StartTransaction(w) \/ StartedAlready(w)
  \/ GetNewTransactionID(w) \/ SetTransactionID(w) \/ QueryError(w)
  \/ GenerateSnapshot(w) \/ SnapshotTaken(w)
  \/ SkipSlot(w) \/ TakeSlot(w) \/ GetSnapshot(w)
  \/ ExecutorPlan(w) \/ BeginTransaction(w) \/ EndTransaction(w) \/ AbortTransaction(w)
  \/ StayInBlock(w) \/ FinishTransaction(w)
  \/ ReadHighLevel(w) \/ HighEnough(w) \/ SetHighLevel(w) \/ RetryHighLevel(w)

Next ==
  \/ StartToadb \/ ExitToad \/ Kill
  \/ \E w \in Workers : NewSession(w) \/ Command(w)

Spec == Init /\ [][Next]_vars

-----------------------------------------------------------------------------
(* Visibility. *)

XtidIsInSnapshot(x, s) == \E n \in 1 .. s.num : s.arr[n] = x

TupleVisibilitySnapshot(x, s) ==
  IF x < s.low \/ (x < s.high /\ ~XtidIsInSnapshot(x, s))
  THEN "OUT_SNAPSHOT" ELSE "IN_SNAPSHOT"

\* "TODO": no state of a transaction is kept.
GetTransactionState(x) == "TRANS_COMMITED"

\* TupleVisibilitySatisfy: is a row with this header visible to worker w?
TupleVisibilitySatisfy(w, header) ==
  /\ header.tmin # INVALID_XTID
  /\ \/ header.tmin = xtid[w]
     \/ /\ TupleVisibilitySnapshot(header.tmin, snap[w]) = "OUT_SNAPSHOT"
        /\ GetTransactionState(header.tmin) = "TRANS_COMMITED"
  /\ \/ header.tmax = INVALID_XTID
     \/ /\ header.tmax # xtid[w]
        /\ \/ TupleVisibilitySnapshot(header.tmax, snap[w]) = "IN_SNAPSHOT"
           \/ GetTransactionState(header.tmin) # "TRANS_COMMITED"

\* What transaction x wrote, and what it deleted, as worker w finds it.
SeesInsert(w, x) == TupleVisibilitySatisfy(w, [tmin |-> x, tmax |-> INVALID_XTID])
SeesDelete(w, x) == ~TupleVisibilitySatisfy(w, [tmin |-> xtid[w], tmax |-> x])

\* A worker that executes a statement with a snapshot of its session.
Reading(w) == At(w, "plan") /\ snap[w].high > 0

-----------------------------------------------------------------------------
(***************************************************************************)
(* Properties.                                                             *)
(***************************************************************************)

\* "max finish transaction id": the high level is the greatest identifier that has
\* finished, or the one the server started from, whatever compare-and-exchange loops
\* are under way.
HighIsMaxFinished ==
  up => /\ highXtid \in finished \cup {disk}
        /\ \A x \in finished : x <= highXtid

\* Nothing that a transaction does which began after the snapshot is seen through it,
\* neither rows nor deletions, also in the first snapshots after a start.
NoFutureRead ==
  \A w \in Workers : Reading(w) =>
    \A x \in Xtids : x >= horizon[w] => ~SeesInsert(w, x) /\ ~SeesDelete(w, x)

\* What was finished before the last recorded stop is seen by every later snapshot,
\* even when the server has been killed since and hands out identifiers again.
PersistedVisible ==
  \A w \in Workers : Reading(w) =>
    \A x \in kept : SeesInsert(w, x) /\ SeesDelete(w, x)

\* til_Read_Repeatable: within one transaction of a session the verdict on no other
\* transaction changes, however many of them begin and finish.
RepeatableRead ==
  [][\A w \in Workers :
       mine[w] /\ taken[w] /\ xtid'[w] = xtid[w] /\ mine'[w] /\ up /\ ~NewSession(w) =>
         \A x \in Xtids : /\ SeesInsert(w, x)' = SeesInsert(w, x)
                          /\ SeesDelete(w, x)' = SeesDelete(w, x)]_vars

-----------------------------------------------------------------------------
(***************************************************************************)
(* What the properties rest on between the steps.                          *)
(***************************************************************************)

\* Identifiers: below the next one and, once handed out, not below the saved one.
IdsOK(w) ==
  /\ pc[w] # "idle" => up /\ mine[w]
  /\ mine[w] => up
  /\ xtid[w] < nextXtid
  /\ xtid[w] = 0 \/ xtid[w] >= disk
  /\ pc[w] = "setid" => loc[w].h \in 1 .. nextXtid - 1 /\ loc[w].h >= disk
  /\ mine[w] /\ pc[w] \notin {"newid", "setid"} => xtid[w] >= 1

\* What has finished, in memory and in the file.
LevelsOK ==
  /\ \A x \in kept : x < disk
  /\ ~up => finished = kept /\ nextXtid = 1
  /\ up => /\ disk <= highXtid
           /\ disk <= nextXtid
           /\ highXtid \in finished \cup {disk}
           /\ \A x \in finished : x <= highXtid /\ x < nextXtid
  /\ \A w \in Workers : pc[w] = "cas" => loc[w].h <= highXtid

\* A snapshot under construction.
ScanOK(w) ==
  pc[w] = "scan" =>
    /\ loc[w].n < loc[w].i
    /\ loc[w].i > w => loc[w].n <= loc[w].i - 2
    /\ xtid[w] < horizon[w]
    /\ loc[w].min <= loc[w].max
    /\ disk < loc[w].max /\ loc[w].max <= horizon[w]
    /\ \A n \in 1 .. loc[w].n : snap[w].arr[n] = 0 \/ snap[w].arr[n] >= disk

\* The snapshot of a transaction.
SnapshotOK(w) ==
  /\ pc[w] = "plan" => taken[w]
  /\ mine[w] /\ taken[w] => pc[w] \notin {"newid", "setid", "scan"}
  /\ mine[w] /\ taken[w] /\ snap[w].high > 0 =>
       /\ xtid[w] < horizon[w]
       /\ snap[w].low <= snap[w].high
       /\ disk < snap[w].high /\ snap[w].high <= horizon[w]
       /\ \A n \in 1 .. snap[w].num : snap[w].arr[n] = 0 \/ snap[w].arr[n] >= disk

XtidInv ==
  /\ TypeOK
  /\ LevelsOK
  /\ \A w \in Workers : IdsOK(w) /\ ScanOK(w) /\ SnapshotOK(w)

-----------------------------------------------------------------------------
(* What the repository says, and the code does not do. *)

\* snapshot.c: "tmin is in progress, this tuple is not visible".  A statement does not
\* see the rows of a transaction that is executing on another worker.
NoDirtyRead ==
  \A w, v \in Workers :
    w # v /\ Reading(w) /\ At(v, "plan") => ~SeesInsert(w, xtid[v])
=============================================================================

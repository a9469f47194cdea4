--------------------------- MODULE DispatchProofs ---------------------------
(***************************************************************************)
(* Proofs about Dispatch: Inv is an inductive invariant, and the ownership *)
(* of connections, the wake-up of workers and the bound of the semaphores  *)
(* follow from it, for any number of workers and connections.              *)
(*                                                                         *)
(* Inv is the conjunction of                                               *)
(*   Shape       the types, without the bound of the semaphores;           *)
(*   PickValid   what PushTask has in hand is a client and a worker;       *)
(*   FreshClient the connection that PushTask has not stored yet belongs   *)
(*               to nobody;                                                *)
(*   TaskOpen    a connection in a task is open, and in that task only;    *)
(*   SessionOwnsItsClient, which is checked by TLC;                        *)
(*   Woken       AssignedIsWoken, for a worker on its way to sem_wait too; *)
(*   PostsCount  a semaphore is posted once per accepted connection;       *)
(*   LockHeld    a worker does file I/O with the page lock only.           *)
(***************************************************************************)
EXTENDS Dispatch, FiniteSetTheorems, TLAPS

USE NWAssumption, ClientAssumption DEF Workers

PcMain   == {"accept", "pick", "store", "post", "stop", "join", "exited"}
PcWorker == {"read", "query", "io", "wait", "begin", "task", "finish", "done", "exit", "dead"}

Shape ==
  /\ conn \in [Clients -> {"off", "open", "closed"}]
  /\ gone \in SUBSET Clients
  /\ mpc \in PcMain
  /\ mclient \in Clients \cup {NoClient}
  /\ mpick \in Workers \cup {NoWorker}
  /\ state \in [Workers -> {"IDLE", "RUNNING"}]
  /\ sem \in [Workers -> Nat]
  /\ taskfd \in [Workers -> Clients \cup {NoClient}]
  /\ wpc \in [Workers -> PcWorker]
  /\ servfd \in [Workers -> Clients \cup {NoClient}]
  /\ cancelled \in [Workers -> BOOLEAN]
  /\ pageLock \in Workers \cup {NoWorker}

PickValid ==
  /\ mpc \in {"pick", "store"} => mclient \in Clients
  /\ mpc \in {"store", "post"} => mpick \in Workers

FreshClient ==
  mpc \in {"pick", "store"} =>
    /\ conn[mclient] = "open"
    /\ \A v \in Workers : /\ taskfd[v] # mclient
                          /\ wpc[v] \in Session => servfd[v] # mclient

TaskOpen ==
  \A v \in Workers : taskfd[v] # NoClient =>
    /\ conn[taskfd[v]] = "open"
    /\ \A u \in Workers \ {v} : taskfd[u] # taskfd[v]

Woken ==
  \A w \in Workers :
    taskfd[w] # NoClient /\ wpc[w] \in {"wait", "done", "exit"} /\ ~Stopping =>
      sem[w] > 0 \/ (mpc = "post" /\ mpick = w)

\* The connections that were accepted, and how often a worker can have been posted when
\* there are k of them.
Accepted == {c \in Clients : conn[c] # "off"}
Posts(pc, k) == IF pc \in {"pick", "store", "post"} THEN k - 1
                ELSE IF pc \in {"join", "exited"} THEN k + 1
                ELSE k
PostsCount == \A w \in Workers : sem[w] <= Posts(mpc, Cardinality(Accepted))

LockHeld ==
  \A w \in Workers :
    /\ wpc[w] = "io" => pageLock = w
    /\ pageLock = w => wpc[w] \in {"io", "dead"}

Ownership == PickValid /\ FreshClient /\ TaskOpen /\ SessionOwnsItsClient
Inv == Shape /\ Ownership /\ Woken /\ PostsCount /\ LockHeld

-----------------------------------------------------------------------------
(* The parts that one step at a time preserves. *)

LEMMA InitInv == Init => Inv
<1> SUFFICES ASSUME Init PROVE Inv
  OBVIOUS
<1>1. Shape
  BY DEF Init, Shape, PcMain, PcWorker
<1>2. Ownership
  BY DEF Init, Ownership, PickValid, FreshClient, TaskOpen, SessionOwnsItsClient, Session
<1>3. Woken /\ LockHeld
  BY DEF Init, Woken, LockHeld
<1>4. PostsCount
  <2>1. Accepted = {}
    BY DEF Init, Accepted
  <2>2. Cardinality(Accepted) = 0
    BY <2>1, FS_EmptySet
  <2> QED BY <2>2 DEF Init, PostsCount, Posts
<1> QED BY <1>1, <1>2, <1>3, <1>4 DEF Inv

LEMMA ShapeStep ==
  ASSUME Shape, PickValid, Next PROVE Shape' /\ PickValid'
<1> USE DEF Shape, PickValid, PcMain, PcWorker
<1>1. ASSUME NEW c \in Clients, Accept(c) PROVE Shape' /\ PickValid'
  BY <1>1 DEF Accept, workerVars
<1>2. CASE GetIdleWorker
  BY <1>2 DEF GetIdleWorker, workerVars
<1>3. CASE Reject
  BY <1>3 DEF Reject, workerVars
<1>4. CASE StoreTask
  BY <1>4 DEF StoreTask
<1>5. CASE PostTask
  BY <1>5 DEF PostTask, Posted
<1>6. CASE StopThreadPool
  BY <1>6 DEF StopThreadPool
<1>7. CASE JoinWorkers
  BY <1>7 DEF JoinWorkers, workerVars
<1>8. CASE Signal
  BY <1>8 DEF Signal, workerVars
<1>9. ASSUME NEW w \in Workers, WaitSem(w) PROVE Shape' /\ PickValid'
  BY <1>9 DEF WaitSem, mainVars
<1>10. ASSUME NEW w \in Workers, BeginWorkerThread(w) \/ FinishWorkerThread(w)
       PROVE  Shape' /\ PickValid'
  BY <1>10 DEF BeginWorkerThread, FinishWorkerThread, mainVars
<1>11. ASSUME NEW w \in Workers, BeginTask(w) PROVE Shape' /\ PickValid'
  BY <1>11 DEF BeginTask, mainVars
<1>12. ASSUME NEW w \in Workers, ReadMsg(w) \/ ReadEnd(w) \/ ExitWorker(w) \/ Cancel(w)
       PROVE  Shape' /\ PickValid'
  BY <1>12 DEF ReadMsg, ReadEnd, ExitWorker, Cancel, mainVars
<1>13. ASSUME NEW w \in Workers, LockPage(w) \/ PageIO(w) PROVE Shape' /\ PickValid'
  BY <1>13 DEF LockPage, PageIO, mainVars
<1>14. ASSUME NEW w \in Workers, FinishTask(w) PROVE Shape' /\ PickValid'
  BY <1>14 DEF FinishTask, mainVars
<1>15. ASSUME NEW c \in Clients, Leave(c) PROVE Shape' /\ PickValid'
  BY <1>15 DEF Leave, mainVars, workerVars
<1> QED
  BY <1>1, <1>2, <1>3, <1>4, <1>5, <1>6, <1>7, <1>8, <1>9, <1>10, <1>11, <1>12, <1>13,
     <1>14, <1>15 DEF Next, Main, Worker

LEMMA LockHeldStep ==
  ASSUME Shape, LockHeld, Next PROVE LockHeld'
<1> USE DEF Shape, LockHeld
<1>1. ASSUME NEW w \in Workers, LockPage(w) PROVE LockHeld'
  BY <1>1 DEF LockPage
<1>2. ASSUME NEW w \in Workers, PageIO(w) PROVE LockHeld'
  BY <1>2 DEF PageIO
<1>3. ASSUME NEW w \in Workers, Cancel(w) PROVE LockHeld'
  BY <1>3 DEF Cancel, CancelPoints
<1>4. ASSUME NEW w \in Workers,
             \/ WaitSem(w) \/ BeginWorkerThread(w) \/ BeginTask(w) \/ ReadMsg(w) \/ ReadEnd(w)
             \/ FinishTask(w) \/ FinishWorkerThread(w) \/ ExitWorker(w)
      PROVE  LockHeld'
  BY <1>4 DEF WaitSem, BeginWorkerThread, BeginTask, ReadMsg, ReadEnd, FinishTask,
              FinishWorkerThread, ExitWorker
<1>5. CASE \/ Main \/ Signal \/ \E c \in Clients : Accept(c) \/ Leave(c)
  <2>1. UNCHANGED <<wpc, pageLock>>
    BY <1>5 DEF Main, GetIdleWorker, Reject, StoreTask, PostTask, StopThreadPool, JoinWorkers,
                Signal, Accept, Leave, workerVars
  <2> QED BY <2>1
<1> QED BY <1>1, <1>2, <1>3, <1>4, <1>5 DEF Next, Worker

-----------------------------------------------------------------------------
(* Ownership of connections. *)

\* A step that moves neither a connection nor a descriptor, starts no session and leaves
\* PushTask where it is or takes it out of the way, keeps the owners.
LEMMA OwnershipFrame ==
  ASSUME Shape, Ownership, PickValid',
         UNCHANGED <<conn, taskfd, servfd>>,
         mpc' \in {"pick", "store"} => mpc \in {"pick", "store"} /\ mclient' = mclient,
         \A w \in Workers : wpc'[w] \in Session => wpc[w] \in Session
  PROVE  Ownership'
BY DEF Shape, Ownership, FreshClient, TaskOpen, SessionOwnsItsClient

\* A new connection has no owner: what is in a task or in a session is open already.
LEMMA OwnershipAccept ==
  ASSUME Shape, Ownership, PickValid', NEW c \in Clients, Accept(c) PROVE Ownership'
<1> USE DEF Shape, Accept, workerVars
<1>1. \A v \in Workers : taskfd[v] # c /\ (wpc[v] \in Session => servfd[v] # c)
  BY DEF Ownership, TaskOpen, SessionOwnsItsClient
<1>2. FreshClient'
  BY <1>1 DEF FreshClient
<1>3. TaskOpen'
  BY <1>1 DEF Ownership, TaskOpen
<1>4. SessionOwnsItsClient'
  BY <1>1 DEF Ownership, SessionOwnsItsClient
<1> QED BY <1>2, <1>3, <1>4 DEF Ownership

\* PushTask closes a connection that nobody else has.
LEMMA OwnershipReject ==
  ASSUME Shape, Ownership, PickValid', Reject PROVE Ownership'
<1> USE DEF Shape, Reject, workerVars
<1>1. mclient \in Clients /\ FreshClient
  BY DEF Ownership, PickValid
<1>2. \A v \in Workers : taskfd[v] # mclient /\ (wpc[v] \in Session => servfd[v] # mclient)
  BY <1>1 DEF FreshClient
<1>3. FreshClient'
  BY DEF FreshClient
<1>4. TaskOpen'
  BY <1>1, <1>2 DEF Ownership, TaskOpen
<1>5. SessionOwnsItsClient'
  BY <1>1, <1>2 DEF Ownership, SessionOwnsItsClient
<1> QED BY <1>3, <1>4, <1>5 DEF Ownership

\* PushTask may overwrite the task of a running worker: the connection that was there has
\* been taken by the session, the new one is nobody's.
LEMMA OwnershipStore ==
  ASSUME Shape, Ownership, PickValid', StoreTask PROVE Ownership'
<1> USE DEF Shape, StoreTask
<1>1. mclient \in Clients /\ mpick \in Workers /\ FreshClient
  BY DEF Ownership, PickValid
<1>2. FreshClient'
  BY DEF FreshClient
<1>3. TaskOpen'
  BY <1>1 DEF Ownership, TaskOpen, FreshClient
<1>4. SessionOwnsItsClient'
  BY <1>1 DEF Ownership, SessionOwnsItsClient, FreshClient
<1> QED BY <1>2, <1>3, <1>4 DEF Ownership

\* A session takes the connection of its own task, which is in no other task and session.
LEMMA OwnershipBegin ==
  ASSUME Shape, Ownership, PickValid', NEW w \in Workers, BeginTask(w) PROVE Ownership'
<1> USE DEF Shape, BeginTask, mainVars
<1>1. FreshClient'
  BY DEF Ownership, FreshClient
<1>2. TaskOpen'
  BY DEF Ownership, TaskOpen
<1>3. SessionOwnsItsClient'
  BY DEF Ownership, TaskOpen, SessionOwnsItsClient, Session
<1> QED BY <1>1, <1>2, <1>3 DEF Ownership

\* FinishTask closes what is in the task now, which no running session has.
LEMMA OwnershipFinish ==
  ASSUME Shape, Ownership, PickValid', NEW w \in Workers, FinishTask(w) PROVE Ownership'
<1> USE DEF Shape, FinishTask, mainVars
<1>1. \A v \in Workers : wpc'[v] \in Session => v # w /\ wpc[v] \in Session
  BY DEF Session
<1>2. FreshClient'
  BY <1>1 DEF Ownership, PickValid, FreshClient
<1>3. TaskOpen'
  BY DEF Ownership, TaskOpen
<1>4. SessionOwnsItsClient'
  BY <1>1 DEF Ownership, TaskOpen, SessionOwnsItsClient
<1> QED BY <1>2, <1>3, <1>4 DEF Ownership

LEMMA OwnershipStep ==
  ASSUME Shape, Ownership, Next PROVE Ownership'
<1>0. PickValid'
  BY ShapeStep DEF Ownership
<1>1. CASE \E c \in Clients : Accept(c)
  BY <1>0, <1>1, OwnershipAccept
<1>2. CASE Reject
  BY <1>0, <1>2, OwnershipReject
<1>3. CASE StoreTask
  BY <1>0, <1>3, OwnershipStore
<1>4. CASE \E w \in Workers : BeginTask(w)
  BY <1>0, <1>4, OwnershipBegin
<1>5. CASE \E w \in Workers : FinishTask(w)
  BY <1>0, <1>5, OwnershipFinish
<1>6. CASE \/ GetIdleWorker \/ PostTask \/ StopThreadPool \/ JoinWorkers \/ Signal
           \/ \E c \in Clients : Leave(c)
  <2>1. /\ UNCHANGED <<conn, taskfd, servfd, wpc>>
        /\ mpc' \in {"pick", "store"} => mpc \in {"pick", "store"} /\ mclient' = mclient
    BY <1>6 DEF GetIdleWorker, PostTask, StopThreadPool, JoinWorkers, Signal, Leave,
                mainVars, workerVars
  <2> QED BY <1>0, <2>1, OwnershipFrame
<1>7. ASSUME NEW w \in Workers,
             \/ WaitSem(w) \/ BeginWorkerThread(w) \/ ReadMsg(w) \/ ReadEnd(w) \/ LockPage(w)
             \/ PageIO(w) \/ FinishWorkerThread(w) \/ ExitWorker(w) \/ Cancel(w)
      PROVE  Ownership'
  <2>1. UNCHANGED <<conn, taskfd, servfd, mpc, mclient>>
    BY <1>7 DEF WaitSem, BeginWorkerThread, ReadMsg, ReadEnd, LockPage, PageIO,
                FinishWorkerThread, ExitWorker, Cancel, mainVars
  <2>2. \A v \in Workers : wpc'[v] \in Session => wpc[v] \in Session
    BY <1>7 DEF WaitSem, BeginWorkerThread, ReadMsg, ReadEnd, LockPage, PageIO,
                FinishWorkerThread, ExitWorker, Cancel, Shape, Session
  <2> QED BY <1>0, <2>1, <2>2, OwnershipFrame
<1> QED
  BY <1>1, <1>2, <1>3, <1>4, <1>5, <1>6, <1>7 DEF Next, Main, Worker

-----------------------------------------------------------------------------
(* Wake-ups. *)

LEMMA WokenStep ==
  ASSUME Shape, PickValid, Woken, Next PROVE Woken'
<1> USE DEF Shape, Woken, Stopping
<1>1. CASE StoreTask
  BY <1>1 DEF StoreTask, PickValid
<1>2. CASE PostTask
  BY <1>2 DEF PostTask, Posted, PickValid
<1>3. CASE \E w \in Workers : WaitSem(w)
  BY <1>3 DEF WaitSem, mainVars
<1>4. CASE \E w \in Workers : FinishTask(w)
  BY <1>4 DEF FinishTask, mainVars
<1>5. CASE \E w \in Workers : FinishWorkerThread(w) \/ ExitWorker(w)
  BY <1>5 DEF FinishWorkerThread, ExitWorker, mainVars
<1>6. CASE \E w \in Workers : \/ BeginWorkerThread(w) \/ BeginTask(w) \/ ReadMsg(w)
                              \/ ReadEnd(w) \/ LockPage(w) \/ PageIO(w) \/ Cancel(w)
  BY <1>6 DEF BeginWorkerThread, BeginTask, ReadMsg, ReadEnd, LockPage, PageIO, Cancel,
              mainVars
<1>7. CASE Signal \/ StopThreadPool \/ JoinWorkers
  BY <1>7 DEF Signal, StopThreadPool, JoinWorkers
<1>8. CASE GetIdleWorker \/ Reject \/ \E c \in Clients : Accept(c) \/ Leave(c)
  BY <1>8 DEF GetIdleWorker, Reject, Accept, Leave, mainVars, workerVars
<1> QED
  BY <1>1, <1>2, <1>3, <1>4, <1>5, <1>6, <1>7, <1>8 DEF Next, Main, Worker

-----------------------------------------------------------------------------
(* The number of posts. *)

LEMMA AcceptedFinite ==
  /\ IsFiniteSet(Accepted)
  /\ Cardinality(Accepted) \in Nat
  /\ Cardinality(Accepted) <= Cardinality(Clients)
<1>1. Accepted \subseteq Clients
  BY DEF Accepted
<1>2. IsFiniteSet(Accepted) /\ Cardinality(Accepted) <= Cardinality(Clients)
  BY <1>1, FS_Subset
<1> QED BY <1>2, FS_CardinalityType

\* One more connection, room for one more post.
LEMMA AcceptedGrows ==
  ASSUME Shape, NEW c \in Clients, Accept(c)
  PROVE  Cardinality(Accepted') = Cardinality(Accepted) + 1
<1>1. Accepted' = Accepted \cup {c} /\ c \notin Accepted
  BY DEF Shape, Accept, Accepted
<1> QED BY <1>1, AcceptedFinite, FS_AddElement

\* A connection that was accepted is never "off" again, and no other step accepts one.
LEMMA AcceptedStays ==
  ASSUME Shape, Ownership, Next, ~\E c \in Clients : Accept(c)
  PROVE  Accepted' = Accepted
<1>1. CASE Reject
  <2>1. mclient \in Clients /\ conn[mclient] = "open"
    BY <1>1 DEF Reject, Ownership, PickValid, FreshClient
  <2> QED BY <1>1, <2>1 DEF Reject, Shape, Accepted
<1>2. ASSUME NEW w \in Workers, FinishTask(w) PROVE Accepted' = Accepted
  <2>1. conn' = [c \in Clients |-> IF c = taskfd[w] THEN "closed" ELSE conn[c]]
    BY <1>2 DEF FinishTask
  <2>2. \A c \in Clients : c = taskfd[w] => conn[c] # "off"
    BY DEF Ownership, TaskOpen
  <2>3. \A c \in Clients : conn'[c] # "off" <=> conn[c] # "off"
    BY <2>1, <2>2
  <2> QED BY <2>3 DEF Accepted
<1>3. CASE UNCHANGED conn
  BY <1>3 DEF Accepted
<1>4. CASE GetIdleWorker \/ StoreTask \/ PostTask \/ StopThreadPool \/ JoinWorkers \/ Signal
  BY <1>3, <1>4 DEF GetIdleWorker, StoreTask, PostTask, StopThreadPool, JoinWorkers, Signal
<1>5. CASE \E c \in Clients : Leave(c)
  BY <1>3, <1>5 DEF Leave
<1>6. CASE \E w \in Workers : \/ WaitSem(w) \/ BeginWorkerThread(w) \/ BeginTask(w) \/ ReadMsg(w)
                              \/ ReadEnd(w) \/ LockPage(w) \/ PageIO(w)
                              \/ FinishWorkerThread(w) \/ ExitWorker(w) \/ Cancel(w)
  BY <1>3, <1>6 DEF WaitSem, BeginWorkerThread, BeginTask, ReadMsg, ReadEnd, LockPage,
                    PageIO, FinishWorkerThread, ExitWorker, Cancel
<1> QED BY <1>1, <1>2, <1>4, <1>5, <1>6 DEF Next, Main, Worker

LEMMA PostsStep ==
  ASSUME Shape, Ownership, PostsCount, Next PROVE PostsCount'
<1> DEFINE n == Cardinality(Accepted)
           k == Cardinality(Accepted')
<1> HIDE DEF n, k
<1>0. n \in Nat /\ \A w \in Workers : sem[w] <= Posts(mpc, n)
  BY AcceptedFinite DEF n, PostsCount
<1>1. SUFFICES \A w \in Workers : sem'[w] <= Posts(mpc', k)
  BY DEF PostsCount, k
<1>2. ASSUME NEW c \in Clients, Accept(c) PROVE \A w \in Workers : sem'[w] <= Posts(mpc', k)
  <2>1. k = n + 1
    BY <1>2, AcceptedGrows DEF n, k
  <2> QED BY <1>0, <1>2, <2>1 DEF Accept, workerVars, Posts
<1>3. CASE ~\E c \in Clients : Accept(c)
  <2>1. k = n
    BY <1>3, AcceptedStays DEF n, k
  <2>2. CASE GetIdleWorker \/ Reject \/ StoreTask \/ JoinWorkers
    BY <1>0, <2>1, <2>2 DEF GetIdleWorker, Reject, StoreTask, JoinWorkers, workerVars, Posts, Shape
  <2>3. CASE PostTask
    BY <1>0, <2>1, <2>3 DEF PostTask, Posted, Posts, Shape, Ownership, PickValid
  <2>4. CASE Signal
    BY <1>0, <2>1, <2>4 DEF Signal, workerVars, Posts, Shape
  <2>5. CASE StopThreadPool
    BY <1>0, <2>1, <2>5 DEF StopThreadPool, Posts, Shape
  <2>6. CASE \E w \in Workers : WaitSem(w)
    BY <1>0, <2>1, <2>6 DEF WaitSem, mainVars, Posts, Shape
  <2>7. CASE \/ \E w \in Workers : \/ BeginWorkerThread(w) \/ BeginTask(w) \/ ReadMsg(w)
                   \/ ReadEnd(w) \/ LockPage(w) \/ PageIO(w) \/ FinishTask(w)
                   \/ FinishWorkerThread(w) \/ ExitWorker(w) \/ Cancel(w)
             \/ \E c \in Clients : Leave(c)
    <3>1. UNCHANGED <<sem, mpc>>
      BY <2>7 DEF BeginWorkerThread, BeginTask, ReadMsg, ReadEnd, LockPage, PageIO, FinishTask,
                  FinishWorkerThread, ExitWorker, Cancel, Leave, mainVars, workerVars
    <3> QED BY <1>0, <2>1, <3>1 DEF Posts
  <2> QED BY <1>3, <2>2, <2>3, <2>4, <2>5, <2>6, <2>7 DEF Next, Main, Worker
<1> QED BY <1>2, <1>3

-----------------------------------------------------------------------------
(***************************************************************************)
(* The theorems.                                                           *)
(***************************************************************************)

LEMMA InvStep == Inv /\ [Next]_vars => Inv'
<1>1. ASSUME Inv, Next PROVE Inv'
  BY <1>1, ShapeStep, OwnershipStep, WokenStep, PostsStep, LockHeldStep DEF Inv, Ownership
<1>2. ASSUME Inv, UNCHANGED vars PROVE Inv'
  <2>1. Shape' /\ Ownership' /\ LockHeld'
    BY <1>2 DEF Inv, vars, mainVars, workerVars, Shape, Ownership, PickValid, FreshClient,
                TaskOpen, SessionOwnsItsClient, LockHeld
  <2>2. Woken' /\ PostsCount'
    BY <1>2 DEF Inv, vars, mainVars, workerVars, Woken, Stopping, PostsCount, Posts, Accepted
  <2> QED BY <2>1, <2>2 DEF Inv
<1> QED BY <1>1, <1>2

\* Inv holds in every state of ServerLoop and the worker threads.
THEOREM DispatchInv == Spec => []Inv
BY InitInv, InvStep, PTL DEF Spec

\* Types, and the bound of taskIdleLock: a worker is posted at most once for every connection
\* that PushTask got, and once more by StopThreadPool.
THEOREM DispatchTypes == Spec => []TypeOK
<1>1. Inv => TypeOK
  <2> SUFFICES ASSUME Inv PROVE TypeOK
    OBVIOUS
  <2>1. \A w \in Workers : sem[w] \in 0 .. Cardinality(Clients) + 1
    <3>1. Cardinality(Clients) \in Nat
      BY FS_CardinalityType
    <3>2. SUFFICES ASSUME NEW w \in Workers PROVE sem[w] \in 0 .. Cardinality(Clients) + 1
      OBVIOUS
    <3>3. sem[w] \in Nat /\ sem[w] <= Posts(mpc, Cardinality(Accepted))
      BY DEF Inv, Shape, PostsCount
    <3>4. Posts(mpc, Cardinality(Accepted)) \in Int
          /\ Posts(mpc, Cardinality(Accepted)) <= Cardinality(Clients) + 1
      BY <3>1, AcceptedFinite DEF Posts
    <3> QED BY <3>1, <3>3, <3>4
  <2>2. sem \in [Workers -> 0 .. Cardinality(Clients) + 1]
    BY <2>1 DEF Inv, Shape
  <2> QED BY <2>2 DEF Inv, Shape, TypeOK, PcMain, PcWorker, Session
<1> QED BY <1>1, DispatchInv, PTL

\* While a worker serves a connection nobody else serves it, closes it or is given it, although
\* PushTask writes into a task that a running worker will close (PushTask, FinishTask).
THEOREM ConnectionOwned == Spec => []SessionOwnsItsClient
<1>1. Inv => SessionOwnsItsClient
  BY DEF Inv, Ownership
<1> QED BY <1>1, DispatchInv, PTL

\* A worker that waits in sem_wait with a task in its context was posted or is about to be.
THEOREM NoLostWakeup == Spec => []AssignedIsWoken
<1>1. Inv => AssignedIsWoken
  BY DEF Inv, Woken, AssignedIsWoken
<1> QED BY <1>1, DispatchInv, PTL

\* Two workers never do file I/O under the page lock at once, and after a cancellation the lock
\* is kept by a thread that has ended (ToadMainEntry, pthread_cancel).
THEOREM PageLockExclusive == Spec => []LockHeld
<1>1. Inv => LockHeld
  BY DEF Inv
<1> QED BY <1>1, DispatchInv, PTL
=============================================================================

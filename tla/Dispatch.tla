------------------------------ MODULE Dispatch ------------------------------
(***************************************************************************)
(* The main thread of the server and its worker threads: how a connection  *)
(* gets to a worker, how a session ends, and how the server stops          *)
(* (processor/threadPool, processor/dispatch, toadmain/workermain.c).      *)
(*                                                                         *)
(*   main:    accept -> pick -> store -> post -> accept ...                *)
(*                signal: stop -> join -> exited                           *)
(*   worker:  wait -> begin -> task -> read <-> query -> io                *)
(*                                      |                                  *)
(*                                      +-> finish -> done -> exit -> wait *)
(*                                                                         *)
(* A connection is the client it came from; -1 as a file descriptor is     *)
(* NoClient.  A query is reduced to what matters between workers: it takes *)
(* a page lock, does file I/O under it, and releases it.                   *)
(***************************************************************************)
EXTENDS Integers, FiniteSets

CONSTANTS
  Clients,     \* the connections that may come (a bound)
  NW,          \* maxThreadWorkerNum; workers are 0 .. NW-1
  NoClient, NoWorker

ASSUME NWAssumption == NW \in Nat \ {0}
ASSUME ClientAssumption ==
  NoClient \notin Clients /\ NoWorker \notin Int /\ IsFiniteSet(Clients)

Workers == 0 .. NW-1

VARIABLES
  conn,            \* the server's socket for a client: "off", "open", "closed"
  gone,            \* the clients that quit or broke the connection
  mpc, mclient, mpick,   \* the main thread in ServerLoop, PushTask, StopThreadPool
  state,           \* tw_state
  sem,             \* taskIdleLock
  taskfd,          \* taskContext.clientfd, written by the main thread
  wpc, servfd,     \* a worker in threadEntry; its servContext.servfd
  cancelled,       \* pthread_cancel was called for the worker
  pageLock         \* the worker that holds the page lock

mainVars   == <<mpc, mclient, mpick>>
workerVars == <<state, sem, taskfd, wpc, servfd, cancelled>>
vars == <<conn, gone, mainVars, workerVars, pageLock>>

Session == {"read", "query", "io"}

\* pthread_cancel is deferred: the worker ends at sem_wait, recv and file I/O.
CancelPoints == {"wait", "read", "io"}

TypeOK ==
  /\ conn \in [Clients -> {"off", "open", "closed"}]
  /\ gone \in SUBSET Clients
  /\ mpc \in {"accept", "pick", "store", "post", "stop", "join", "exited"}
  /\ mclient \in Clients \cup {NoClient}
  /\ mpick \in Workers \cup {NoWorker}
  /\ state \in [Workers -> {"IDLE", "RUNNING"}]
  /\ sem \in [Workers -> 0 .. Cardinality(Clients) + 1]
  /\ taskfd \in [Workers -> Clients \cup {NoClient}]
  /\ wpc \in [Workers -> Session \cup
                {"wait", "begin", "task", "finish", "done", "exit", "dead"}]
  /\ servfd \in [Workers -> Clients \cup {NoClient}]
  /\ cancelled \in [Workers -> BOOLEAN]
  /\ pageLock \in Workers \cup {NoWorker}

\* InitThreadPool: all workers are created, idle and waiting.
Init ==
  /\ conn = [c \in Clients |-> "off"]
  /\ gone = {}
  /\ mpc = "accept" /\ mclient = NoClient /\ mpick = NoWorker
  /\ state = [w \in Workers |-> "IDLE"]
  /\ sem = [w \in Workers |-> 0]
  /\ taskfd = [w \in Workers |-> NoClient]
  /\ wpc = [w \in Workers |-> "wait"]
  /\ servfd = [w \in Workers |-> NoClient]
  /\ cancelled = [w \in Workers |-> FALSE]
  /\ pageLock = NoWorker

-----------------------------------------------------------------------------
(* The main thread: ServerLoop and PushTask. *)

Accept(c) ==
  /\ mpc = "accept"
  /\ conn[c] = "off"
  /\ conn' = [conn EXCEPT ![c] = "open"]
  /\ mclient' = c
  /\ mpc' = "pick"
  /\ UNCHANGED <<gone, mpick, workerVars, pageLock>>

IsIdleWorker(w) == state[w] = "IDLE"

\* GetIdleWorker: the last idle worker of the list.
GetIdleWorker ==
  /\ mpc = "pick"
  /\ \E w \in Workers :
       /\ IsIdleWorker(w)
       /\ \A v \in Workers : IsIdleWorker(v) => v <= w
       /\ mpick' = w
  /\ mpc' = "store"
  /\ UNCHANGED <<conn, gone, mclient, workerVars, pageLock>>

\* "client is over limited": the connection is closed at once.
Reject ==
  /\ mpc = "pick"
  /\ ~\E w \in Workers : IsIdleWorker(w)
  /\ conn' = [conn EXCEPT ![mclient] = "closed"]
  /\ mclient' = NoClient
  /\ mpc' = "accept"
  /\ UNCHANGED <<gone, mpick, workerVars, pageLock>>

StoreTask ==
  /\ mpc = "store"
  /\ taskfd' = [taskfd EXCEPT ![mpick] = mclient]
  /\ mpc' = "post"
  /\ UNCHANGED <<conn, gone, mclient, mpick, state, sem, wpc, servfd, cancelled, pageLock>>

\* Mutant: a worker that is running already is not posted.
PostedIfIdle(w) == IF IsIdleWorker(w) THEN [sem EXCEPT ![w] = @ + 1] ELSE sem

Posted(w) == [sem EXCEPT ![w] = @ + 1]

PostTask ==
  /\ mpc = "post"
  /\ sem' = Posted(mpick)
  /\ mclient' = NoClient
  /\ mpick' = NoWorker
  /\ mpc' = "accept"
  /\ UNCHANGED <<conn, gone, state, taskfd, wpc, servfd, cancelled, pageLock>>

-----------------------------------------------------------------------------
(* A worker: threadEntry. *)

\* Mutant: the result of sem_wait is ignored.
WaitSemInterrupted(w) ==
  /\ wpc[w] = "wait"
  /\ ~cancelled[w]
  /\ sem' = [sem EXCEPT ![w] = @ - 1]
  /\ wpc' = [wpc EXCEPT ![w] = "begin"]
  /\ UNCHANGED <<conn, gone, mainVars, state, taskfd, servfd, cancelled, pageLock>>

WaitSem(w) ==
  /\ wpc[w] = "wait"
  /\ sem[w] > 0
  /\ ~cancelled[w]
  /\ sem' = [sem EXCEPT ![w] = @ - 1]
  /\ wpc' = [wpc EXCEPT ![w] = "begin"]
  /\ UNCHANGED <<conn, gone, mainVars, state, taskfd, servfd, cancelled, pageLock>>

\* Only now does the worker stop looking idle to the main thread.
BeginWorkerThread(w) ==
  /\ wpc[w] = "begin"
  /\ state' = [state EXCEPT ![w] = "RUNNING"]
  /\ wpc' = [wpc EXCEPT ![w] = "task"]
  /\ UNCHANGED <<conn, gone, mainVars, sem, taskfd, servfd, cancelled, pageLock>>

BeginTask(w) ==
  /\ wpc[w] = "task"
  /\ servfd' = [servfd EXCEPT ![w] = taskfd[w]]
  /\ wpc' = [wpc EXCEPT ![w] = "read"]
  /\ UNCHANGED <<conn, gone, mainVars, state, sem, taskfd, cancelled, pageLock>>

\* ReadMsg returns a command.
ReadMsg(w) ==
  /\ wpc[w] = "read"
  /\ ~cancelled[w]
  /\ servfd[w] \in Clients \ gone
  /\ wpc' = [wpc EXCEPT ![w] = "query"]
  /\ UNCHANGED <<conn, gone, mainVars, state, sem, taskfd, servfd, cancelled, pageLock>>

\* "quit", "client interrupt connecting", or no connection at all.
ReadEnd(w) ==
  /\ wpc[w] = "read"
  /\ ~cancelled[w]
  /\ servfd[w] \notin Clients \ gone
  /\ wpc' = [wpc EXCEPT ![w] = "finish"]
  /\ UNCHANGED <<conn, gone, mainVars, state, sem, taskfd, servfd, cancelled, pageLock>>

\* ToadMainEntry: the statement locks a page (not a cancellation point) ...
LockPage(w) ==
  /\ wpc[w] = "query"
  /\ pageLock = NoWorker
  /\ pageLock' = w
  /\ wpc' = [wpc EXCEPT ![w] = "io"]
  /\ UNCHANGED <<conn, gone, mainVars, state, sem, taskfd, servfd, cancelled>>

\* Mutant: a statement whose client has gone leaves the page locked.
PageIOKeepsLock(w) ==
  /\ wpc[w] = "io"
  /\ ~cancelled[w]
  /\ pageLock' = IF servfd[w] \in gone THEN w ELSE NoWorker
  /\ wpc' = [wpc EXCEPT ![w] = "read"]
  /\ UNCHANGED <<conn, gone, mainVars, state, sem, taskfd, servfd, cancelled>>

\* ... and reads or writes it, and unlocks it.
PageIO(w) ==
  /\ wpc[w] = "io"
  /\ ~cancelled[w]
  /\ pageLock' = NoWorker
  /\ wpc' = [wpc EXCEPT ![w] = "read"]
  /\ UNCHANGED <<conn, gone, mainVars, state, sem, taskfd, servfd, cancelled>>

\* Mutant: the descriptor stays in the task after it was closed.
FinishTaskKeepsFd(w) ==
  /\ wpc[w] = "finish"
  /\ conn' = [c \in Clients |-> IF c = taskfd[w] THEN "closed" ELSE conn[c]]
  /\ wpc' = [wpc EXCEPT ![w] = "done"]
  /\ UNCHANGED <<gone, mainVars, state, sem, taskfd, servfd, cancelled, pageLock>>

\* FinishTask closes the descriptor that is in the task now.
FinishTask(w) ==
  /\ wpc[w] = "finish"
  /\ conn' = [c \in Clients |-> IF c = taskfd[w] THEN "closed" ELSE conn[c]]
  /\ taskfd' = [taskfd EXCEPT ![w] = NoClient]
  /\ wpc' = [wpc EXCEPT ![w] = "done"]
  /\ UNCHANGED <<gone, mainVars, state, sem, servfd, cancelled, pageLock>>

FinishWorkerThread(w) ==
  /\ wpc[w] = "done"
  /\ state' = [state EXCEPT ![w] = "IDLE"]
  /\ wpc' = [wpc EXCEPT ![w] = "exit"]
  /\ UNCHANGED <<conn, gone, mainVars, sem, taskfd, servfd, cancelled, pageLock>>

ExitWorker(w) ==
  /\ wpc[w] = "exit"
  /\ wpc' = [wpc EXCEPT ![w] = "wait"]
  /\ UNCHANGED <<conn, gone, mainVars, state, sem, taskfd, servfd, cancelled, pageLock>>

\* A cancelled worker ends where it is; nothing releases its page lock.
Cancel(w) ==
  /\ cancelled[w]
  /\ wpc[w] \in CancelPoints
  /\ wpc' = [wpc EXCEPT ![w] = "dead"]
  /\ UNCHANGED <<conn, gone, mainVars, state, sem, taskfd, servfd, cancelled, pageLock>>

-----------------------------------------------------------------------------
(* SIGTERM: ToadExitSigProc calls exit, and exit calls StopThreadPool. *)

Signal ==
  /\ mpc \in {"accept", "pick", "store", "post"}
  /\ mpc' = "stop"
  /\ UNCHANGED <<conn, gone, mclient, mpick, workerVars, pageLock>>

StopThreadPool ==
  /\ mpc = "stop"
  /\ cancelled' = [w \in Workers |-> TRUE]
  /\ sem' = [w \in Workers |-> sem[w] + 1]
  /\ mpc' = "join"
  /\ UNCHANGED <<conn, gone, mclient, mpick, state, taskfd, wpc, servfd, pageLock>>

\* DestoryWorkerThread joins every worker, then the process ends.
JoinWorkers ==
  /\ mpc = "join"
  /\ \A w \in Workers : wpc[w] = "dead"
  /\ mpc' = "exited"
  /\ UNCHANGED <<conn, gone, mclient, mpick, workerVars, pageLock>>

-----------------------------------------------------------------------------
\* A client quits, or its connection breaks.
Leave(c) ==
  /\ conn[c] = "open"
  /\ c \notin gone
  /\ gone' = gone \cup {c}
  /\ UNCHANGED <<conn, mainVars, workerVars, pageLock>>

\* The main thread after accept.
Main ==
  \/ GetIdleWorker \/ Reject \/ StoreTask \/ PostTask
  \/ StopThreadPool \/ JoinWorkers

\* A worker, except for the arrival of a command.
Worker(w) ==
  \/ WaitSem(w) \/ BeginWorkerThread(w) \/ BeginTask(w)
  \/ ReadEnd(w) \/ LockPage(w) \/ PageIO(w)
  \/ FinishTask(w) \/ FinishWorkerThread(w) \/ ExitWorker(w) \/ Cancel(w)

Next ==
  \/ Main
  \/ Signal
  \/ \E w \in Workers : Worker(w) \/ ReadMsg(w)
  \/ \E c \in Clients : Accept(c) \/ Leave(c)

Spec == Init /\ [][Next]_vars

\* The scheduler runs every thread and a waiter for the page lock gets it in its turn;
\* clients need not connect, send a command or leave, and no signal need come.
FairSpec ==
  /\ Spec
  /\ WF_vars(Main)
  /\ \A w \in Workers : WF_vars(Worker(w)) /\ SF_vars(LockPage(w))

-----------------------------------------------------------------------------
(***************************************************************************)
(* Properties.                                                             *)
(***************************************************************************)

Stopping == mpc \in {"stop", "join", "exited"}

\* A connection belongs to one worker: while a session runs on it nobody else closes
\* it, serves it or has it as a task, although PushTask writes the task of a worker
\* that may be running and FinishTask closes whatever is in the task.
SessionOwnsItsClient ==
  \A w \in Workers :
    wpc[w] \in Session /\ servfd[w] # NoClient =>
      /\ conn[servfd[w]] = "open"
      /\ \A v \in Workers \ {w} :
           /\ taskfd[v] # servfd[w]
           /\ wpc[v] \in Session => servfd[v] # servfd[w]

\* No wake-up is lost: a worker with a task in its context that waits on its semaphore
\* has been posted, or the main thread is about to post it.
AssignedIsWoken ==
  \A w \in Workers :
    taskfd[w] # NoClient /\ wpc[w] = "wait" /\ ~Stopping =>
      sem[w] > 0 \/ (mpc = "post" /\ mpick = w)

\* A worker whose client has gone becomes idle again, whatever the other workers do
\* with the page lock, until the server stops.
WorkerComesBack ==
  \A w \in Workers :
    wpc[w] \in Session /\ servfd[w] \in gone ~> state[w] = "IDLE" \/ Stopping

-----------------------------------------------------------------------------
(* What the repository says, and the code does not do. *)

\* README.md: every worker thread serves one client, and a client over the limit is
\* refused.  An accepted connection is served by a worker or closed.
ClientServed ==
  \A c \in Clients :
    conn[c] = "open" ~>
      \/ conn[c] = "closed" \/ c \in gone \/ Stopping
      \/ \E w \in Workers : wpc[w] \in Session /\ servfd[w] = c

\* doc/toadb_servicemgr.md: after SIGTERM the server exits safely.
StopEnds == mpc = "stop" ~> mpc = "exited"
=============================================================================

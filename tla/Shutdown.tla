------------------------------ MODULE Shutdown ------------------------------
(***************************************************************************)
(* How a running bridge ends: mgr.Start returns after a signal, the        *)
(* deferred calls of doMain stop the transport and then the worker pool,   *)
(* and the process exits.  Nobody waits for the goroutines, so the         *)
(* dispatcher, the workers, the transport and the poller of the sync       *)
(* service client go on while main cancels contexts and closes channels    *)
(* that they use.                                                          *)
(*                                                                         *)
(* Conflation is reduced to the set of leaf hubs with a ready bundle.  In  *)
(* Go a send on a closed channel panics, and a receive from one returns    *)
(* nil once the channel is empty; here nil is then used, which panics too. *)
(***************************************************************************)
EXTENDS Naturals

CONSTANTS
    LeafHubs,
    Workers,
    Nil

ASSUME ShutdownAssumption == Nil \notin LeafHubs /\ Nil \notin Workers

VARIABLES
    main,          \* where doMain is
    dispatcherCtx, \* whether the dispatcher's context is cancelled
    poolCtx,       \* whether the pool's context is cancelled
    stopChan,      \* whether the transport's stopChan is closed
    objectsChan,   \* whether objectsMetaDataChan is closed
    connPool,      \* whether the connection pool is closed
    workersChan,   \* whether dbWorkers is closed
    jobsChan,      \* jobsChan[w]: whether w's jobsQueue is closed
    transport,     \* where handleBundles is
    poller,        \* where the poller of the client is
    readyQueue,    \* the leaf hubs whose units are in the ready queue
    dispatcher,    \* where dispatch is and what it holds
    dbWorkers,     \* the workers in the channel
    worker,        \* worker[w]: where w is in its loop
    job,           \* job[w]: the leaf hub of the job in w's queue or hands, or Nil
    afterStop,     \* history: jobs handed out since the dispatcher was stopped
    panicked       \* who panicked, or Nil: the process has ended

stopVars == <<dispatcherCtx, poolCtx, stopChan, objectsChan, connPool, workersChan>>
transportVars == <<transport, poller>>
workerVars == <<dbWorkers, worker, job, jobsChan>>
shVars == <<main, stopVars, transportVars, readyQueue, dispatcher, workerVars, afterStop, panicked>>

\* The points of doMain after mgr.Start, in the order of its deferred calls.
MainSteps == {"running", "closeStopChan", "closeObjects", "cancel", "closeConns", "waitConns",
              "closeWorkers", "exited"}

SHTypeOK ==
    /\ main \in MainSteps
    /\ \A closed \in {dispatcherCtx, poolCtx, stopChan, objectsChan, connPool, workersChan} :
           closed \in BOOLEAN
    /\ jobsChan \in [Workers -> BOOLEAN]
    /\ transport \in {"select", "handling", "returned"}
    /\ poller \in {"polling", "sending"}
    /\ readyQueue \subseteq LeafHubs
    /\ dispatcher \in [pc : {"check", "dequeue", "acquire", "runAsync", "returned"},
                       unit : LeafHubs \cup {Nil}, worker : Workers \cup {Nil}]
    /\ dbWorkers \subseteq Workers
    /\ worker \in [Workers -> {"register", "select", "handling", "querying", "failed", "succeeded",
                               "returned"}]
    /\ job \in [Workers -> LeafHubs \cup {Nil}]
    /\ afterStop \in 0 .. 2
    /\ panicked \in {Nil, "poller", "transport", "dispatcher"} \cup Workers
    \* A worker in the channel has no job; a worker at work has one.
    /\ \A w \in dbWorkers : job[w] = Nil /\ worker[w] \in {"select", "returned"}
    /\ \A w \in Workers : worker[w] \in {"handling", "querying", "failed", "succeeded"} => job[w] # Nil

SHInit ==
    /\ main = "running"
    /\ dispatcherCtx = FALSE
    /\ poolCtx = FALSE
    /\ stopChan = FALSE
    /\ objectsChan = FALSE
    /\ connPool = FALSE
    /\ workersChan = FALSE
    /\ jobsChan = [w \in Workers |-> FALSE]
    /\ transport = "select"
    /\ poller = "polling"
    /\ readyQueue = {}
    /\ dispatcher = [pc |-> "check", unit |-> Nil, worker |-> Nil]
    /\ dbWorkers = {}
    /\ worker = [w \in Workers |-> "register"]
    /\ job = [w \in Workers |-> Nil]
    /\ afterStop = 0
    /\ panicked = Nil

\* Goroutines run until the process ends.
Alive == main # "exited" /\ panicked = Nil

Panics(who) == panicked' = who

-----------------------------------------------------------------------------
(***************************************************************************)
(* main.                                                                   *)
(***************************************************************************)

othersUnchanged ==
    UNCHANGED <<transportVars, readyQueue, dispatcher, workerVars, afterStop, panicked>>

\* A signal, or the lease is lost: mgr.Start returns without waiting for what it
\* started, and the deferred calls begin.
ManagerReturns ==
    /\ Alive
    /\ main = "running"
    /\ main' = "closeStopChan"
    /\ UNCHANGED stopVars
    /\ othersUnchanged

\* Start of the dispatcher gets the stop event.
CancelDispatcher ==
    /\ Alive
    /\ main # "running"
    /\ dispatcherCtx' = TRUE
    /\ UNCHANGED <<main, poolCtx, stopChan, objectsChan, connPool, workersChan>>
    /\ othersUnchanged

\* Stop of the sync service.
CloseStopChan ==
    /\ Alive
    /\ main = "closeStopChan"
    /\ stopChan' = TRUE
    /\ main' = "closeObjects"
    /\ UNCHANGED <<dispatcherCtx, poolCtx, objectsChan, connPool, workersChan>>
    /\ othersUnchanged

CloseObjectsChan ==
    /\ Alive
    /\ main = "closeObjects"
    /\ objectsChan' = TRUE
    /\ main' = "cancel"
    /\ UNCHANGED <<dispatcherCtx, poolCtx, stopChan, connPool, workersChan>>
    /\ othersUnchanged

\* Mutant of CancelPool: the context is not cancelled.
ForgetToCancelPool ==
    /\ Alive
    /\ main = "cancel"
    /\ main' = "closeConns"
    /\ UNCHANGED stopVars
    /\ othersUnchanged

\* Stop of the worker pool: cancelContext.
CancelPool ==
    /\ Alive
    /\ main = "cancel"
    /\ poolCtx' = TRUE
    /\ main' = "closeConns"
    /\ UNCHANGED <<dispatcherCtx, stopChan, objectsChan, connPool, workersChan>>
    /\ othersUnchanged

\* Mutant of CloseConns: the connections are not closed.
SkipClosingConns ==
    /\ Alive
    /\ main = "closeConns"
    /\ main' = "closeWorkers"
    /\ UNCHANGED stopVars
    /\ othersUnchanged

\* dbConnPool.Stop: no connection is given out any more ...
CloseConns ==
    /\ Alive
    /\ main = "closeConns"
    /\ connPool' = TRUE
    /\ main' = "waitConns"
    /\ UNCHANGED <<dispatcherCtx, poolCtx, stopChan, objectsChan, workersChan>>
    /\ othersUnchanged

\* ... and those in use come back.
ConnsReturned ==
    /\ Alive
    /\ main = "waitConns"
    /\ \A w \in Workers : worker[w] # "querying"
    /\ main' = "closeWorkers"
    /\ UNCHANGED stopVars
    /\ othersUnchanged

CloseWorkers ==
    /\ Alive
    /\ main = "closeWorkers"
    /\ ~workersChan
    /\ workersChan' = TRUE
    /\ UNCHANGED <<main, dispatcherCtx, poolCtx, stopChan, objectsChan, connPool>>
    /\ othersUnchanged

\* doMain returned, os.Exit.
Exit ==
    /\ Alive
    /\ main = "closeWorkers"
    /\ workersChan
    /\ main' = "exited"
    /\ UNCHANGED stopVars
    /\ othersUnchanged

-----------------------------------------------------------------------------
(***************************************************************************)
(* The poller and the transport.                                           *)
(***************************************************************************)

\* A poll returned objects: the poller sends them on the unbuffered channel.
PollerSends ==
    /\ Alive
    /\ poller = "polling"
    /\ poller' = "sending"
    /\ UNCHANGED <<main, stopVars, transport, readyQueue, dispatcher, workerVars, afterStop, panicked>>

PollerPanics ==
    /\ Alive
    /\ poller = "sending"
    /\ objectsChan
    /\ Panics("poller")
    /\ UNCHANGED <<main, stopVars, transportVars, readyQueue, dispatcher, workerVars, afterStop>>

TransportReceives ==
    /\ Alive
    /\ transport = "select"
    /\ poller = "sending"
    /\ ~objectsChan
    /\ transport' = "handling"
    /\ poller' = "polling"
    /\ UNCHANGED <<main, stopVars, readyQueue, dispatcher, workerVars, afterStop, panicked>>

\* The other cases of its select, of which any may be taken: stopChan, or nil from
\* the closed channel, whose fields are then read.
TransportReturns ==
    /\ Alive
    /\ transport = "select"
    /\ stopChan
    /\ transport' = "returned"
    /\ UNCHANGED <<main, stopVars, poller, readyQueue, dispatcher, workerVars, afterStop, panicked>>

TransportPanics ==
    /\ Alive
    /\ transport = "select"
    /\ objectsChan
    /\ Panics("transport")
    /\ UNCHANGED <<main, stopVars, transportVars, readyQueue, dispatcher, workerVars, afterStop>>

\* The units that are not announced and not in process.
Announceable ==
    {u \in LeafHubs \ readyQueue : dispatcher.unit # u /\ \A w \in Workers : job[w] # u}

\* The bundle is inserted and the object marked, or it is skipped.
TransportHandles ==
    /\ Alive
    /\ transport = "handling"
    /\ transport' = "select"
    /\ \E units \in {{}} \cup {{u} : u \in Announceable} : readyQueue' = readyQueue \cup units
    /\ UNCHANGED <<main, stopVars, poller, dispatcher, workerVars, afterStop, panicked>>

-----------------------------------------------------------------------------
(***************************************************************************)
(* The dispatcher.                                                         *)
(***************************************************************************)

DispatcherAt(pc) == Alive /\ dispatcher.pc = pc

keptByDispatcher == <<main, stopVars, transportVars>>

\* The select at the top of its loop looks at the context, which is the only time
\* that it does.
CheckStopped ==
    /\ DispatcherAt("check")
    /\ dispatcher' = [dispatcher EXCEPT !.pc = IF dispatcherCtx THEN "returned" ELSE "dequeue"]
    /\ UNCHANGED <<keptByDispatcher, readyQueue, workerVars, afterStop, panicked>>

BlockingDequeue(u) ==
    /\ DispatcherAt("dequeue")
    /\ u \in readyQueue
    /\ readyQueue' = readyQueue \ {u}
    /\ dispatcher' = [dispatcher EXCEPT !.pc = "acquire", !.unit = u]
    /\ UNCHANGED <<keptByDispatcher, workerVars, afterStop, panicked>>

\* Workers that are in the channel when it is closed are still received.
Acquire(w) ==
    /\ DispatcherAt("acquire")
    /\ w \in dbWorkers
    /\ dbWorkers' = dbWorkers \ {w}
    /\ dispatcher' = [dispatcher EXCEPT !.pc = "runAsync", !.worker = w]
    /\ UNCHANGED <<keptByDispatcher, readyQueue, worker, job, jobsChan, afterStop, panicked>>

\* Acquire returns nil, and RunAsync uses it.
DispatcherGetsNil ==
    /\ DispatcherAt("acquire")
    /\ workersChan
    /\ dbWorkers = {}
    /\ Panics("dispatcher")
    /\ UNCHANGED <<keptByDispatcher, readyQueue, dispatcher, workerVars, afterStop>>

\* GetNext, then RunAsync puts the job into the worker's queue.
RunAsync ==
    /\ DispatcherAt("runAsync")
    /\ ~jobsChan[dispatcher.worker]
    /\ job' = [job EXCEPT ![dispatcher.worker] = dispatcher.unit]
    /\ afterStop' = IF dispatcherCtx /\ afterStop < 2 THEN afterStop + 1 ELSE afterStop
    /\ dispatcher' = [pc |-> "check", unit |-> Nil, worker |-> Nil]
    /\ UNCHANGED <<keptByDispatcher, readyQueue, dbWorkers, worker, jobsChan, panicked>>

\* The worker has returned and closed its queue.
RunAsyncPanics ==
    /\ DispatcherAt("runAsync")
    /\ jobsChan[dispatcher.worker]
    /\ Panics("dispatcher")
    /\ UNCHANGED <<keptByDispatcher, readyQueue, dispatcher, workerVars, afterStop>>

-----------------------------------------------------------------------------
(***************************************************************************)
(* Worker w.                                                               *)
(***************************************************************************)

WorkerAt(w, pc) == Alive /\ worker[w] = pc

keptByWorker == <<main, stopVars, transportVars, dispatcher, afterStop>>

Goto(w, pc) == worker' = [worker EXCEPT ![w] = pc]

Register(w) ==
    /\ WorkerAt(w, "register")
    /\ ~workersChan
    /\ dbWorkers' = dbWorkers \cup {w}
    /\ Goto(w, "select")
    /\ UNCHANGED <<keptByWorker, readyQueue, job, jobsChan, panicked>>

RegisterPanics(w) ==
    /\ WorkerAt(w, "register")
    /\ workersChan
    /\ Panics(w)
    /\ UNCHANGED <<keptByWorker, readyQueue, workerVars>>

\* The two cases of its select.
WorkerReturns(w) ==
    /\ WorkerAt(w, "select")
    /\ poolCtx
    /\ jobsChan' = [jobsChan EXCEPT ![w] = TRUE]
    /\ Goto(w, "returned")
    /\ UNCHANGED <<keptByWorker, readyQueue, dbWorkers, job, panicked>>

TakeJob(w) ==
    /\ WorkerAt(w, "select")
    /\ job[w] # Nil
    /\ Goto(w, "handling")
    /\ UNCHANGED <<keptByWorker, readyQueue, dbWorkers, job, jobsChan, panicked>>

\* The handler gets a connection and waits for the database; without one it ends
\* with an error.
Query(w) ==
    /\ WorkerAt(w, "handling")
    /\ ~poolCtx
    /\ ~connPool
    /\ Goto(w, "querying")
    /\ UNCHANGED <<keptByWorker, readyQueue, dbWorkers, job, jobsChan, panicked>>

QueryRefused(w) ==
    /\ WorkerAt(w, "handling")
    /\ poolCtx \/ connPool
    /\ Goto(w, "failed")
    /\ UNCHANGED <<keptByWorker, readyQueue, dbWorkers, job, jobsChan, panicked>>

\* The database answers, which it may never do.
QueryEnds(w) ==
    /\ WorkerAt(w, "querying")
    /\ Goto(w, "succeeded") \/ Goto(w, "failed")
    /\ UNCHANGED <<keptByWorker, readyQueue, dbWorkers, job, jobsChan, panicked>>

\* The cancelled context ends the query.
QueryCancelled(w) ==
    /\ WorkerAt(w, "querying")
    /\ poolCtx
    /\ Goto(w, "failed")
    /\ UNCHANGED <<keptByWorker, readyQueue, dbWorkers, job, jobsChan, panicked>>

\* Mutant of ReportResult: the worker returns to the pool with its job.
ReportAndKeepJob(w) ==
    /\ Alive
    /\ worker[w] \in {"failed", "succeeded"}
    /\ Goto(w, "register")
    /\ UNCHANGED <<keptByWorker, readyQueue, dbWorkers, job, jobsChan, panicked>>

\* ReportResult: a bundle that failed is announced again, and after one that
\* succeeded the next may be.
ReportResult(w) ==
    /\ Alive
    /\ \/ worker[w] = "failed" /\ readyQueue' = readyQueue \cup {job[w]}
       \/ worker[w] = "succeeded" /\ readyQueue' \in {readyQueue, readyQueue \cup {job[w]}}
    /\ job' = [job EXCEPT ![w] = Nil]
    /\ Goto(w, "register")
    /\ UNCHANGED <<keptByWorker, dbWorkers, jobsChan, panicked>>

-----------------------------------------------------------------------------
MainStep ==
    \/ CloseStopChan
    \/ CloseObjectsChan
    \/ CancelPool
    \/ CloseConns
    \/ ConnsReturned
    \/ CloseWorkers
    \/ Exit

TransportStep ==
    \/ PollerSends
    \/ PollerPanics
    \/ TransportReceives
    \/ TransportReturns
    \/ TransportPanics
    \/ TransportHandles

DispatcherStep ==
    \/ CheckStopped
    \/ \E u \in LeafHubs : BlockingDequeue(u)
    \/ \E w \in Workers : Acquire(w)
    \/ DispatcherGetsNil
    \/ RunAsync
    \/ RunAsyncPanics

WorkerStep(w) ==
    \/ Register(w)
    \/ RegisterPanics(w)
    \/ WorkerReturns(w)
    \/ TakeJob(w)
    \/ Query(w)
    \/ QueryRefused(w)
    \/ QueryEnds(w)
    \/ QueryCancelled(w)
    \/ ReportResult(w)

SHNext ==
    \/ ManagerReturns
    \/ CancelDispatcher
    \/ MainStep
    \/ TransportStep
    \/ DispatcherStep
    \/ \E w \in Workers : WorkerStep(w)

SHSpec == SHInit /\ [][SHNext]_shVars

\* main runs on, and a query ends when its context is cancelled; nothing is
\* assumed of the database.
SHFairSpec ==
    /\ SHSpec
    /\ WF_shVars(MainStep)
    /\ \A w \in Workers : WF_shVars(QueryCancelled(w))
-----------------------------------------------------------------------------
(***************************************************************************)
(* Properties.                                                             *)
(***************************************************************************)

\* Once mgr.Start has returned the process ends, even if the database never
\* answers the queries of the handlers: Close waits for their connections, so
\* their context has to be cancelled before it.
StopEnds == main # "running" ~> ~Alive

\* A dispatcher that is stopped hands out at most one more job.
AtMostOneMoreJob == afterStop <= 1

\* Which end of the process may cut a statement that is under way in the database:
\* the panic of the poller or the transport in the channel that main closes before
\* it stops the worker pool, or of the dispatcher when the pool's context is already
\* cancelled.  The orderly exit and the panic of a worker come after the connections
\* were closed, and cut none.
OnlyPanicsCutQueries ==
    ~Alive /\ (\E w \in Workers : worker[w] = "querying") =>
        panicked \in {"poller", "transport"} \/ (panicked = "dispatcher" /\ poolCtx)

\* "if dispatcher was stopped do not process more bundles", and "worker pool is
\* responsible for stopping it's workers, it's done using context": it does not
\* happen that a job was handed out after the dispatcher was stopped and a worker ran
\* into the channel closed under it.
StopIsHeeded == panicked \in Workers => afterStop = 0
=============================================================================

--------------------------- MODULE ShutdownProofs ---------------------------
(***************************************************************************)
(* Proofs about the end of the bridge, for any leaf hubs and any workers:  *)
(* what main, the dispatcher and the workers may still do to each other    *)
(* while the contexts are cancelled and the channels closed.               *)
(***************************************************************************)
EXTENDS Shutdown, TLAPS

(***************************************************************************)
(* The inductive invariant: besides the types,                             *)
(*   - what the dispatcher holds at each point of its loop.  The worker it *)
(*     has acquired has left the channel, has no job and waits for one, or *)
(*     has returned: it can not be working, and not be registering again;  *)
(*   - a worker that registers has no job, so that none in the channel has;*)
(*   - what main has done at each point of its deferred calls;             *)
(*   - a job handed out after the stop leaves the dispatcher where it      *)
(*     looks at its context next, and the context stays cancelled;         *)
(*   - no query is under way once Close of the connection pool returned;   *)
(*   - which of the stops a goroutine that panicked has run into.          *)
(***************************************************************************)
DispatcherHolds ==
    /\ dispatcher.pc \in {"acquire", "runAsync"} => dispatcher.unit \in LeafHubs
    /\ dispatcher.pc = "runAsync" =>
           /\ dispatcher.worker \in Workers \ dbWorkers
           /\ job[dispatcher.worker] = Nil
           /\ worker[dispatcher.worker] \in {"select", "returned"}

RegistersWithoutJob == \A w \in Workers : worker[w] = "register" => job[w] = Nil

MainHasStopped ==
    /\ main \in {"closeConns", "waitConns", "closeWorkers", "exited"} => poolCtx
    /\ main \in {"waitConns", "closeWorkers", "exited"} => connPool
    /\ workersChan => main \in {"closeWorkers", "exited"}

StoppedDispatcherChecks ==
    /\ afterStop \in {0, 1}
    /\ afterStop = 1 => dispatcherCtx /\ dispatcher.pc \in {"check", "returned"}

ClosedPoolIsUnused ==
    main \in {"closeWorkers", "exited"} => \A w \in Workers : worker[w] # "querying"

PanicsHaveCauses ==
    /\ \A w \in Workers : jobsChan[w] => poolCtx
    /\ panicked \in {Nil, "poller", "transport"} \/ poolCtx
    /\ panicked \in {Nil, "poller", "transport", "dispatcher"} \/ workersChan

SHInv ==
    /\ SHTypeOK
    /\ DispatcherHolds
    /\ RegistersWithoutJob
    /\ MainHasStopped
    /\ StoppedDispatcherChecks
    /\ ClosedPoolIsUnused
    /\ PanicsHaveCauses

\* The process starts with nothing stopped, and with its workers about to register.
LEMMA SHInitInv == SHInit => SHInv
<1> SUFFICES ASSUME SHInit PROVE SHInv
    OBVIOUS
<1> USE ShutdownAssumption DEF SHInit
<1>0. \A closed \in {dispatcherCtx, poolCtx, stopChan, objectsChan, connPool, workersChan} :
          closed \in BOOLEAN
  BY Zenon
<1>1. SHTypeOK
  BY <1>0 DEF SHTypeOK, MainSteps
<1>2. DispatcherHolds /\ RegistersWithoutJob
  BY DEF DispatcherHolds, RegistersWithoutJob
<1>3. MainHasStopped /\ StoppedDispatcherChecks /\ ClosedPoolIsUnused /\ PanicsHaveCauses
  BY DEF MainHasStopped, StoppedDispatcherChecks, ClosedPoolIsUnused, PanicsHaveCauses
<1> QED
  BY <1>1, <1>2, <1>3 DEF SHInv

-----------------------------------------------------------------------------
(***************************************************************************)
(* Each of the four kinds of steps keeps the invariant.                    *)
(***************************************************************************)

\* main, and the stop event of the dispatcher: contexts and channels only go from
\* open to closed, and main passes waitConns when no query is under way.
LEMMA MainKeepsInv ==
    ASSUME SHInv, ManagerReturns \/ CancelDispatcher \/ MainStep
    PROVE  SHInv'
<1> USE ShutdownAssumption
<1>0. othersUnchanged
  BY DEF ManagerReturns, CancelDispatcher, MainStep, CloseStopChan, CloseObjectsChan, CancelPool,
         CloseConns, ConnsReturned, CloseWorkers, Exit
<1>1. main' \in MainSteps
  BY DEF SHInv, SHTypeOK, MainSteps, ManagerReturns, CancelDispatcher, MainStep, CloseStopChan,
         CloseObjectsChan, CancelPool, CloseConns, ConnsReturned, CloseWorkers, Exit
<1>2. \A closed \in {dispatcherCtx', poolCtx', stopChan', objectsChan', connPool', workersChan'} :
          closed \in BOOLEAN
  <2>1. /\ dispatcherCtx' \in {dispatcherCtx, TRUE}
        /\ poolCtx' \in {poolCtx, TRUE}
        /\ stopChan' \in {stopChan, TRUE}
        /\ objectsChan' \in {objectsChan, TRUE}
        /\ connPool' \in {connPool, TRUE}
        /\ workersChan' \in {workersChan, TRUE}
    BY Zenon DEF ManagerReturns, CancelDispatcher, MainStep, CloseStopChan, CloseObjectsChan,
           CancelPool, CloseConns, ConnsReturned, CloseWorkers, Exit, stopVars
  <2> QED
    BY <2>1, Zenon DEF SHInv, SHTypeOK
<1>3. MainHasStopped'
  BY DEF SHInv, MainHasStopped, ManagerReturns, CancelDispatcher, MainStep, CloseStopChan,
         CloseObjectsChan, CancelPool, CloseConns, ConnsReturned, CloseWorkers, Exit, stopVars
<1>4. dispatcherCtx => dispatcherCtx'
  BY DEF ManagerReturns, CancelDispatcher, MainStep, CloseStopChan, CloseObjectsChan,
         CancelPool, CloseConns, ConnsReturned, CloseWorkers, Exit, stopVars
<1>5. main' \in {"closeWorkers", "exited"} =>
          main \in {"closeWorkers", "exited"} \/ \A w \in Workers : worker[w] # "querying"
  BY DEF ManagerReturns, CancelDispatcher, MainStep, CloseStopChan, CloseObjectsChan,
         CancelPool, CloseConns, ConnsReturned, CloseWorkers, Exit
<1>6. SHTypeOK'
  BY <1>0, <1>1, <1>2 DEF SHInv, SHTypeOK, othersUnchanged, transportVars, workerVars
<1>7. DispatcherHolds' /\ RegistersWithoutJob'
  BY <1>0 DEF SHInv, DispatcherHolds, RegistersWithoutJob, othersUnchanged, workerVars
<1>8. StoppedDispatcherChecks'
  BY <1>0, <1>4 DEF SHInv, StoppedDispatcherChecks, othersUnchanged
<1>9. ClosedPoolIsUnused'
  BY <1>0, <1>5 DEF SHInv, ClosedPoolIsUnused, othersUnchanged, workerVars
<1>10. PanicsHaveCauses'
  <2>1. (poolCtx => poolCtx') /\ (workersChan => workersChan')
    BY DEF ManagerReturns, CancelDispatcher, MainStep, CloseStopChan, CloseObjectsChan,
           CancelPool, CloseConns, ConnsReturned, CloseWorkers, Exit, stopVars
  <2> QED
    BY <1>0, <2>1 DEF SHInv, PanicsHaveCauses, othersUnchanged, workerVars
<1> QED
  BY <1>3, <1>6, <1>7, <1>8, <1>9, <1>10 DEF SHInv

\* The poller and the transport touch the ready queue only.
LEMMA TransportKeepsInv == SHInv /\ TransportStep => SHInv'
<1> SUFFICES ASSUME SHInv, TransportStep PROVE SHInv'
    OBVIOUS
<1>1. UNCHANGED <<main, stopVars, dispatcher, workerVars, afterStop>>
  BY DEF TransportStep, PollerSends, PollerPanics, TransportReceives, TransportReturns,
         TransportPanics, TransportHandles
<1>2. /\ transport' \in {"select", "handling", "returned"}
      /\ poller' \in {"polling", "sending"}
      /\ readyQueue' \subseteq LeafHubs
      /\ panicked' \in {Nil, "poller", "transport", "dispatcher"} \cup Workers
  BY DEF SHInv, SHTypeOK, TransportStep, PollerSends, PollerPanics, TransportReceives,
         TransportReturns, TransportPanics, TransportHandles, Panics, transportVars, Announceable
<1>3. SHTypeOK'
  BY <1>1, <1>2 DEF SHInv, SHTypeOK, stopVars, workerVars
<1>4. PanicsHaveCauses'
  <2>1. panicked' \in {panicked, "poller", "transport"}
    BY DEF TransportStep, PollerSends, PollerPanics, TransportReceives, TransportReturns,
           TransportPanics, TransportHandles, Panics
  <2> QED
    BY <1>1, <2>1 DEF SHInv, PanicsHaveCauses, stopVars, workerVars
<1> QED
  BY <1>1, <1>3, <1>4 DEF SHInv, DispatcherHolds, RegistersWithoutJob, MainHasStopped,
                    StoppedDispatcherChecks, ClosedPoolIsUnused, stopVars, workerVars

\* The dispatcher: between two looks at its context it hands out one job, to a
\* worker that is neither in the channel nor at work.
LEMMA DispatcherKeepsInv == SHInv /\ DispatcherStep => SHInv'
<1> SUFFICES ASSUME SHInv, DispatcherStep PROVE SHInv'
    OBVIOUS
<1> USE ShutdownAssumption
<1>0. /\ UNCHANGED <<main, stopVars, transportVars, worker, jobsChan>>
      /\ panicked' \in {Nil, "poller", "transport", "dispatcher"} \cup Workers
      /\ readyQueue' \subseteq LeafHubs
  BY DEF SHInv, SHTypeOK, DispatcherStep, CheckStopped, BlockingDequeue, Acquire, DispatcherGetsNil,
         RunAsync, RunAsyncPanics, keptByDispatcher, workerVars, Panics
<1>b. PanicsHaveCauses'
  <2>1. CASE UNCHANGED panicked
    BY <1>0, <2>1 DEF SHInv, PanicsHaveCauses, stopVars
  <2>2. CASE DispatcherGetsNil
    <3>1. poolCtx /\ panicked' = "dispatcher"
      BY <2>2 DEF SHInv, MainHasStopped, DispatcherGetsNil, Panics
    <3> QED
      BY <1>0, <3>1 DEF SHInv, PanicsHaveCauses, stopVars
  <2>3. CASE RunAsyncPanics
    <3>1. poolCtx /\ panicked' = "dispatcher"
      BY <2>3 DEF SHInv, PanicsHaveCauses, DispatcherHolds, RunAsyncPanics, DispatcherAt, Panics
    <3> QED
      BY <1>0, <3>1 DEF SHInv, PanicsHaveCauses, stopVars
  <2> QED
    BY <2>1, <2>2, <2>3 DEF DispatcherStep, CheckStopped, BlockingDequeue, Acquire, RunAsync
<1>a. MainHasStopped' /\ ClosedPoolIsUnused' /\ PanicsHaveCauses'
  BY <1>0, <1>b DEF SHInv, MainHasStopped, ClosedPoolIsUnused, stopVars
<1>1. CASE CheckStopped
  <2>1. SHTypeOK'
    BY <1>0, <1>1 DEF SHInv, SHTypeOK, CheckStopped, stopVars, transportVars, workerVars
  <2> QED
    BY <1>0, <1>1, <1>a, <2>1 DEF SHInv, SHTypeOK, CheckStopped, DispatcherHolds, RegistersWithoutJob,
        StoppedDispatcherChecks, stopVars, workerVars
<1>2. ASSUME NEW u \in LeafHubs, BlockingDequeue(u) PROVE SHInv'
  <2>1. SHTypeOK'
    BY <1>0, <1>2 DEF SHInv, SHTypeOK, BlockingDequeue, stopVars, transportVars, workerVars
  <2> QED
    BY <1>0, <1>2, <1>a, <2>1 DEF SHInv, SHTypeOK, BlockingDequeue, DispatcherAt, DispatcherHolds,
        RegistersWithoutJob, StoppedDispatcherChecks, stopVars, workerVars
<1>3. ASSUME NEW w \in Workers, Acquire(w) PROVE SHInv'
  <2>1. SHTypeOK'
    BY <1>0, <1>3 DEF SHInv, SHTypeOK, Acquire, stopVars, transportVars
  <2>2. DispatcherHolds'
    BY <1>0, <1>3 DEF SHInv, SHTypeOK, Acquire, DispatcherAt, DispatcherHolds
  <2> QED
    BY <1>0, <1>3, <1>a, <2>1, <2>2 DEF SHInv, SHTypeOK, Acquire, DispatcherAt,
        RegistersWithoutJob, StoppedDispatcherChecks, stopVars
<1>4. CASE DispatcherGetsNil \/ RunAsyncPanics
  <2>1. UNCHANGED <<readyQueue, dispatcher, workerVars, afterStop>>
    BY <1>4 DEF DispatcherGetsNil, RunAsyncPanics
  <2>2. SHTypeOK'
    BY <1>0, <2>1 DEF SHInv, SHTypeOK, stopVars, transportVars, workerVars
  <2> QED
    BY <1>0, <1>a, <2>1, <2>2 DEF SHInv, DispatcherHolds, RegistersWithoutJob,
        StoppedDispatcherChecks, stopVars, workerVars
<1>5. CASE RunAsync
  <2> DEFINE w == dispatcher.worker
  <2>1. /\ dispatcher.pc = "runAsync" /\ w \in Workers \ dbWorkers
        /\ worker[w] \in {"select", "returned"} /\ dispatcher.unit \in LeafHubs
        /\ job' = [job EXCEPT ![w] = dispatcher.unit]
        /\ dispatcher' = [pc |-> "check", unit |-> Nil, worker |-> Nil]
        /\ UNCHANGED dbWorkers
        /\ afterStop = 0
        /\ afterStop' \in {0, 1}
        /\ afterStop' = 1 => dispatcherCtx
    BY <1>5 DEF SHInv, RunAsync, DispatcherAt, DispatcherHolds, StoppedDispatcherChecks
  <2>2. /\ dispatcher' \in [pc : {"check", "dequeue", "acquire", "runAsync", "returned"},
                            unit : LeafHubs \cup {Nil}, worker : Workers \cup {Nil}]
        /\ job' \in [Workers -> LeafHubs \cup {Nil}]
        /\ \A x \in Workers : job'[x] = IF x = w THEN dispatcher.unit ELSE job[x]
    BY <2>1 DEF SHInv, SHTypeOK
  <2>3. /\ \A x \in dbWorkers' : job'[x] = Nil /\ worker'[x] \in {"select", "returned"}
        /\ \A x \in Workers :
               worker'[x] \in {"handling", "querying", "failed", "succeeded"} => job'[x] # Nil
    BY <1>0, <2>1, <2>2 DEF SHInv, SHTypeOK
  <2>4. SHTypeOK'
    BY <1>0, <2>1, <2>2, <2>3 DEF SHInv, SHTypeOK, stopVars, transportVars
  <2>5. RegistersWithoutJob'
    BY <1>0, <2>1, <2>2 DEF SHInv, RegistersWithoutJob
  <2>6. DispatcherHolds' /\ StoppedDispatcherChecks'
    BY <1>0, <2>1 DEF DispatcherHolds, StoppedDispatcherChecks, stopVars
  <2> QED
    BY <1>a, <2>4, <2>5, <2>6 DEF SHInv
<1> QED
  BY <1>1, <1>2, <1>3, <1>4, <1>5 DEF DispatcherStep

\* The workers: one that registers has no job, one at work is not the one that the
\* dispatcher holds, and no query begins once a context or the connection pool
\* refuses it.
LEMMA WorkerKeepsInv ==
    ASSUME SHInv, NEW w \in Workers, WorkerStep(w)
    PROVE  SHInv'
<1> USE ShutdownAssumption
<1> DEFINE States == {"register", "select", "handling", "querying", "failed", "succeeded",
                      "returned"}
<1>0. /\ UNCHANGED <<main, stopVars, transportVars, dispatcher, afterStop>>
      /\ panicked' \in {Nil, "poller", "transport", "dispatcher"} \cup Workers
  BY DEF SHInv, SHTypeOK, WorkerStep, Register, RegisterPanics, WorkerReturns, TakeJob, Query,
         QueryRefused, QueryEnds, QueryCancelled, ReportResult, keptByWorker, Panics
<1>a. PanicsHaveCauses'
  <2>1. \A x \in Workers : jobsChan'[x] => poolCtx
    <3>1. CASE UNCHANGED jobsChan
      BY <3>1 DEF SHInv, PanicsHaveCauses
    <3>2. CASE WorkerReturns(w)
      BY <3>2 DEF WorkerReturns
    <3> QED
      BY <3>1, <3>2 DEF WorkerStep, Register, RegisterPanics, TakeJob, Query, QueryRefused,
          QueryEnds, QueryCancelled, ReportResult, workerVars
  <2>2. UNCHANGED panicked \/ workersChan
    BY DEF WorkerStep, Register, RegisterPanics, WorkerReturns, TakeJob, Query, QueryRefused,
           QueryEnds, QueryCancelled, ReportResult
  <2>3. workersChan => poolCtx
    BY DEF SHInv, MainHasStopped
  <2> QED
    BY <1>0, <2>1, <2>2, <2>3 DEF SHInv, PanicsHaveCauses, stopVars
<1>1. MainHasStopped' /\ StoppedDispatcherChecks' /\ PanicsHaveCauses'
  BY <1>0, <1>a DEF SHInv, MainHasStopped, StoppedDispatcherChecks, stopVars
<1>2. readyQueue' \subseteq LeafHubs
  BY DEF SHInv, SHTypeOK, WorkerStep, Register, RegisterPanics, WorkerReturns, TakeJob, Query,
         QueryRefused, QueryEnds, QueryCancelled, ReportResult, keptByWorker
<1>3. jobsChan' \in [Workers -> BOOLEAN]
  BY Zenon DEF SHInv, SHTypeOK, WorkerStep, Register, RegisterPanics, WorkerReturns, TakeJob, Query,
         QueryRefused, QueryEnds, QueryCancelled, ReportResult, workerVars
<1>4. CASE RegisterPanics(w)
  <2>1. UNCHANGED workerVars
    BY <1>4 DEF RegisterPanics
  <2>2. SHTypeOK'
    BY <1>0, <1>2, <2>1 DEF SHInv, SHTypeOK, stopVars, transportVars, workerVars
  <2> QED
    BY <1>0, <1>1, <2>1, <2>2 DEF SHInv, DispatcherHolds, RegistersWithoutJob, ClosedPoolIsUnused,
        workerVars
<1>5. CASE ~RegisterPanics(w)
  <2>1. PICK pc \in States : worker' = [worker EXCEPT ![w] = pc]
    BY <1>5 DEF WorkerStep, Register, WorkerReturns, TakeJob, Query, QueryRefused, QueryEnds,
        QueryCancelled, ReportResult, Goto
  <2>2. /\ worker' \in [Workers -> States]
        /\ worker'[w] = pc
        /\ \A x \in Workers \ {w} : worker'[x] = worker[x]
    BY <2>1 DEF SHInv, SHTypeOK
  <2>3. \/ job' = job
        \/ job' = [job EXCEPT ![w] = Nil] /\ worker[w] \in {"failed", "succeeded"}
               /\ worker'[w] = "register"
    BY <1>5, <2>2 DEF WorkerStep, Register, WorkerReturns, TakeJob, Query, QueryRefused, QueryEnds,
        QueryCancelled, ReportResult, Goto
  <2>4. /\ job' \in [Workers -> LeafHubs \cup {Nil}]
        /\ \A x \in Workers \ {w} : job'[x] = job[x]
        /\ job'[w] \in {job[w], Nil}
        /\ job'[w] # job[w] => worker'[w] = "register" /\ job'[w] = Nil
    BY <2>3 DEF SHInv, SHTypeOK
  <2>5. \/ dbWorkers' = dbWorkers
        \/ worker[w] = "register" /\ pc = "select" /\ job' = job /\ dbWorkers' = dbWorkers \cup {w}
    BY <1>5, <2>1, <2>2 DEF WorkerStep, Register, WorkerAt, WorkerReturns, TakeJob, Query,
        QueryRefused, QueryEnds, QueryCancelled, ReportResult, Goto
  <2>6. \* where w was and where it goes
        \/ worker[w] = "register" /\ pc = "select"
        \/ worker[w] = "select" /\ pc = "returned"
        \/ worker[w] = "select" /\ pc = "handling" /\ job[w] # Nil /\ job' = job
        \/ worker[w] = "handling" /\ pc = "querying" /\ ~connPool /\ job' = job
        \/ worker[w] \in {"handling", "querying"} /\ pc \in {"failed", "succeeded"} /\ job' = job
        \/ worker[w] \in {"failed", "succeeded"} /\ pc = "register" /\ job'[w] = Nil
    BY <1>5, <2>2 DEF SHInv, SHTypeOK, WorkerStep, WorkerAt, Register, WorkerReturns, TakeJob,
        Query, QueryRefused, QueryEnds, QueryCancelled, ReportResult, Goto
  <2>7. /\ \A x \in dbWorkers' : job'[x] = Nil /\ worker'[x] \in {"select", "returned"}
        /\ \A x \in Workers :
               worker'[x] \in {"handling", "querying", "failed", "succeeded"} => job'[x] # Nil
        /\ dbWorkers' \subseteq Workers
    BY <2>2, <2>4, <2>5, <2>6 DEF SHInv, SHTypeOK, RegistersWithoutJob
  <2>8. SHTypeOK'
    BY <1>0, <1>2, <1>3, <2>2, <2>4, <2>7 DEF SHInv, SHTypeOK, stopVars, transportVars
  <2>9. RegistersWithoutJob'
    BY <2>2, <2>4, <2>6 DEF SHInv, RegistersWithoutJob
  <2>10. DispatcherHolds'
    BY <1>0, <2>2, <2>4, <2>5, <2>6 DEF SHInv, DispatcherHolds
  <2>11. ClosedPoolIsUnused'
    BY <1>0, <2>2, <2>6 DEF SHInv, ClosedPoolIsUnused, MainHasStopped, stopVars
  <2> QED
    BY <1>1, <2>8, <2>9, <2>10, <2>11 DEF SHInv
<1> QED
  BY <1>4, <1>5

\* SHInv is an invariant of the specification.
LEMMA SHInvariance == SHSpec => []SHInv
<1>1. SHInv /\ [SHNext]_shVars => SHInv'
  <2> SUFFICES ASSUME SHInv, [SHNext]_shVars PROVE SHInv'
      OBVIOUS
  <2>1. CASE UNCHANGED shVars
    <3>1. SHTypeOK'
      BY <2>1 DEF SHInv, SHTypeOK, shVars, stopVars, transportVars, workerVars
    <3> QED
      BY <2>1, <3>1 DEF SHInv, DispatcherHolds, RegistersWithoutJob, MainHasStopped,
          StoppedDispatcherChecks, ClosedPoolIsUnused, PanicsHaveCauses, shVars, stopVars,
          workerVars
  <2> QED
    BY <2>1, MainKeepsInv, TransportKeepsInv, DispatcherKeepsInv, WorkerKeepsInv DEF SHNext
<1> QED
  BY <1>1, SHInitInv, PTL DEF SHSpec

-----------------------------------------------------------------------------
(***************************************************************************)
(* The theorems.                                                           *)
(***************************************************************************)

\* Contexts, channels and goroutines stay in their states, workers in the channel
\* have no job and workers at work have one, until and while the process ends.
THEOREM SHTypeCorrect == SHSpec => []SHTypeOK
<1>1. SHInv => SHTypeOK
  BY DEF SHInv
<1> QED
  BY <1>1, SHInvariance, PTL

\* A dispatcher that is stopped hands out at most one more job, at whatever point
\* of its loop the stop event finds it: it looks at the context before each.
THEOREM DispatcherStops == SHSpec => []AtMostOneMoreJob
<1>1. SHInv => AtMostOneMoreJob
  BY DEF SHInv, StoppedDispatcherChecks, AtMostOneMoreJob
<1> QED
  BY <1>1, SHInvariance, PTL

\* An end of the process that cuts a statement under way in the database is a panic
\* of the poller or the transport, or of the dispatcher when the statement's context
\* is already cancelled.  Neither os.Exit nor a worker that panics cuts one: both come
\* after the connection pool was closed and the connections had come back, and no
\* query begins then.
THEOREM CutsArePanics == SHSpec => []OnlyPanicsCutQueries
<1>1. SHInv => OnlyPanicsCutQueries
  <2> SUFFICES ASSUME SHInv, ~Alive, NEW w \in Workers, worker[w] = "querying"
               PROVE  panicked \in {"poller", "transport"} \/ (panicked = "dispatcher" /\ poolCtx)
      BY DEF OnlyPanicsCutQueries
  <2>1. main \notin {"closeWorkers", "exited"} /\ ~workersChan
    BY DEF SHInv, ClosedPoolIsUnused, MainHasStopped
  <2> QED
    BY <2>1 DEF SHInv, PanicsHaveCauses, Alive
<1> QED
  BY <1>1, SHInvariance, PTL
=============================================================================

-------------------------- MODULE DispatchPipeline --------------------------
(***************************************************************************)
(* The status pipeline of the bridge, from the moment the transport hands  *)
(* a bundle to the conflation manager until its handler has written it to  *)
(* the database: the conflation units, the ready queue they share with the *)
(* dispatcher, the dispatcher goroutine and the pool of DB workers.        *)
(*                                                                         *)
(* The actors are the transport goroutine (Insert), the dispatcher         *)
(* goroutine and one goroutine per worker.  Each action is what one of     *)
(* them does between two points where another may run: insert, GetNext and *)
(* ReportResult run under the unit's lock and Enqueue, called by them,     *)
(* under the queue's lock as well, so each is one step.                    *)
(***************************************************************************)
EXTENDS ConflationUnit, Sequences

CONSTANTS
    LeafHubs,   \* the leaf hubs that report to this hub of hubs
    Workers,    \* the DB workers, one per connection of the pool
    bundles     \* bundles[p]: what a leaf hub may send as bundles of type p

\* DBJob: a bundle, its metadata and the unit to report to; the handler function
\* is the one registered for the bundle's type.
Job == [leafHub : LeafHubs, priority : Priorities, bundle : Bundle,
        bundleMetadata : MetadataRefs]

ASSUME PipelineAssumption ==
    /\ bundles \in [Priorities -> SUBSET Bundle]
    /\ Nil \notin LeafHubs
    /\ Nil \notin Workers
    /\ Nil \notin Job

VARIABLES
    priorityQueue,   \* priorityQueue[lh]: the elements of lh's unit
    isInReadyQueue,  \* isInReadyQueue[lh]: the unit's own flag
    metadata,        \* metadata[lh][p][m]: generation in the BundleMetadata at m
    readyQueue,      \* the units that announced a ready bundle, oldest first
    dispatcher,      \* where the dispatcher is and what it holds
    dbWorkers,       \* the channel of available workers, as a set
    worker,          \* worker[w]: where worker w is in its loop
    job,             \* job[w]: the DBJob in w's queue or hands, or Nil
    stored,          \* stored[lh][p]: generation last written by a handler
    delivered        \* history: highest generation the transport delivered

unitVars == <<priorityQueue, isInReadyQueue, metadata>>
vars == <<unitVars, readyQueue, dispatcher, dbWorkers, worker, job, stored, delivered>>

-----------------------------------------------------------------------------
DispatcherStates == {"dequeue", "waiting", "acquire", "getNext"}
WorkerStates == {"register", "select", "succeeded", "failed"}

TypeOK ==
    /\ priorityQueue \in [LeafHubs -> PriorityQueue]
    /\ isInReadyQueue \in [LeafHubs -> BOOLEAN]
    /\ metadata \in [LeafHubs -> [Priorities -> [MetadataRefs -> Nat]]]
    /\ readyQueue \in Seq(LeafHubs)
    /\ dispatcher \in [pc : DispatcherStates, unit : LeafHubs \cup {Nil},
                       worker : Workers \cup {Nil}]
    /\ dbWorkers \subseteq Workers
    /\ worker \in [Workers -> WorkerStates]
    /\ job \in [Workers -> Job \cup {Nil}]
    /\ stored \in [LeafHubs -> [Priorities -> Nat]]
    /\ delivered \in [LeafHubs -> [Priorities -> Nat]]

Init ==
    /\ priorityQueue = [lh \in LeafHubs |-> [p \in Priorities |-> EmptyElement]]
    /\ isInReadyQueue = [lh \in LeafHubs |-> FALSE]
    /\ metadata = [lh \in LeafHubs |-> [p \in Priorities |-> [m \in MetadataRefs |-> 0]]]
    /\ readyQueue = <<>>
    /\ dispatcher = [pc |-> "dequeue", unit |-> Nil, worker |-> Nil]
    /\ dbWorkers = {}
    /\ worker = [w \in Workers |-> "register"]
    /\ job = [w \in Workers |-> Nil]
    /\ stored = [lh \in LeafHubs |-> [p \in Priorities |-> 0]]
    /\ delivered = [lh \in LeafHubs |-> [p \in Priorities |-> 0]]

-----------------------------------------------------------------------------
(***************************************************************************)
(* The ready queue.                                                        *)
(***************************************************************************)

\* Mutants of Enqueue: a unit goes to the front, or the condition variable is not
\* signalled.
EnqueueInFront(lh) ==
    /\ readyQueue' = <<lh>> \o readyQueue
    /\ dispatcher' = IF dispatcher.pc = "waiting"
                     THEN [dispatcher EXCEPT !.pc = "dequeue"]
                     ELSE dispatcher

EnqueueWithoutSignal(lh) ==
    /\ readyQueue' = Append(readyQueue, lh)
    /\ UNCHANGED dispatcher

\* Enqueue: PushBack, then Signal wakes the dispatcher if it waits.
Enqueue(lh) ==
    /\ readyQueue' = Append(readyQueue, lh)
    /\ dispatcher' = IF dispatcher.pc = "waiting"
                     THEN [dispatcher EXCEPT !.pc = "dequeue"]
                     ELSE dispatcher

\* Mutants of AddCUToReadyQueueIfNeeded: a unit in process is announced, or one
\* that has no ready bundle.
AddCUInProcess(lh) ==
    IF ~isInReadyQueue[lh] /\ HasReadyBundle(priorityQueue'[lh])
    THEN /\ Enqueue(lh)
         /\ isInReadyQueue' = [isInReadyQueue EXCEPT ![lh] = TRUE]
    ELSE UNCHANGED <<readyQueue, dispatcher, isInReadyQueue>>

AddCUWithoutReadyBundle(lh) ==
    IF ~isInReadyQueue[lh] /\ ~UnitInProcess(priorityQueue'[lh])
    THEN /\ Enqueue(lh)
         /\ isInReadyQueue' = [isInReadyQueue EXCEPT ![lh] = TRUE]
    ELSE UNCHANGED <<readyQueue, dispatcher, isInReadyQueue>>

\* addCUToReadyQueueIfNeeded, the last thing insert and ReportResult do: it
\* looks at the priority queue they leave behind.
AddCUToReadyQueueIfNeeded(lh) ==
    IF ~isInReadyQueue[lh] /\ ~UnitInProcess(priorityQueue'[lh])
                           /\ HasReadyBundle(priorityQueue'[lh])
    THEN /\ Enqueue(lh)
         /\ isInReadyQueue' = [isInReadyQueue EXCEPT ![lh] = TRUE]
    ELSE UNCHANGED <<readyQueue, dispatcher, isInReadyQueue>>

-----------------------------------------------------------------------------
(***************************************************************************)
(* The transport inserts bundles through the conflation manager.  A unit   *)
(* that getConflationUnit has not created yet is in the state in which it  *)
(* would create it.                                                        *)
(***************************************************************************)

\* The metadata objects that jobs for (lh, p) still point to.
JobMetadata(lh, p) ==
    {job[w].bundleMetadata :
        w \in {v \in Workers : job[v] # Nil /\ job[v].leafHub = lh /\ job[v].priority = p}}

Deliver(lh, p, b) ==
    delivered' = [delivered EXCEPT ![lh][p] = IF b.generation > @ THEN b.generation ELSE @]

\* Mutant of UpdatesInPlace: the metadata of a bundle in process is overwritten.
UpdatesGivenMetadata(e) == e.bundleMetadata # Nil

\* Whether insert overwrites the metadata object it finds or points the element
\* at a new one: an object given to a worker must not change.
UpdatesInPlace(e) == e.bundleMetadata # Nil /\ ~e.isInProcess

\* insert, once the bundle is known to be newer: metadata object m describes it.
InsertNewer(lh, p, b) ==
    LET e == priorityQueue[lh][p]
    IN  /\ IsNewer(e, b)
        /\ \E m \in IF UpdatesInPlace(e) THEN {e.bundleMetadata}
                                         ELSE MetadataRefs \ JobMetadata(lh, p) :
             /\ priorityQueue' = [priorityQueue EXCEPT
                    ![lh][p] = [@ EXCEPT !.bundle = b, !.bundleMetadata = m]]
             /\ metadata' = [metadata EXCEPT ![lh][p][m] = b.generation]
        /\ AddCUToReadyQueueIfNeeded(lh)
        /\ Deliver(lh, p, b)
        /\ UNCHANGED <<dbWorkers, worker, job, stored>>

\* insert returns early: a newer or equal bundle was processed or is in memory.
InsertOld(lh, p, b) ==
    /\ ~IsNewer(priorityQueue[lh][p], b)
    /\ Deliver(lh, p, b)
    /\ UNCHANGED <<unitVars, readyQueue, dispatcher, dbWorkers, worker, job, stored>>

-----------------------------------------------------------------------------
(***************************************************************************)
(* The dispatcher's loop.                                                  *)
(***************************************************************************)

\* BlockingDequeue finds the queue empty and waits on the condition variable.
DispatcherWait ==
    /\ dispatcher.pc = "dequeue"
    /\ readyQueue = <<>>
    /\ dispatcher' = [dispatcher EXCEPT !.pc = "waiting"]
    /\ UNCHANGED <<unitVars, readyQueue, dbWorkers, worker, job, stored, delivered>>

\* BlockingDequeue removes the front of the queue.
BlockingDequeue ==
    /\ dispatcher.pc = "dequeue"
    /\ readyQueue # <<>>
    /\ readyQueue' = Tail(readyQueue)
    /\ dispatcher' = [dispatcher EXCEPT !.pc = "acquire", !.unit = Head(readyQueue)]
    /\ UNCHANGED <<unitVars, dbWorkers, worker, job, stored, delivered>>

\* Acquire receives an available worker from the pool, or blocks.
Acquire(w) ==
    /\ dispatcher.pc = "acquire"
    /\ w \in dbWorkers
    /\ dbWorkers' = dbWorkers \ {w}
    /\ dispatcher' = [dispatcher EXCEPT !.pc = "getNext", !.worker = w]
    /\ UNCHANGED <<unitVars, readyQueue, worker, job, stored, delivered>>

DispatcherLoops == dispatcher' = [pc |-> "dequeue", unit |-> Nil, worker |-> Nil]

\* Mutant of GetNext: the unit gives up the bundle when a worker takes it.
GetNextTakesBundle(p) ==
    LET lh == dispatcher.unit
        w  == dispatcher.worker
        e  == priorityQueue[lh][p]
    IN  /\ dispatcher.pc = "getNext"
        /\ IsNextReady(priorityQueue[lh], p)
        /\ job[w] = Nil
        /\ isInReadyQueue' = [isInReadyQueue EXCEPT ![lh] = FALSE]
        /\ priorityQueue' = [priorityQueue EXCEPT
               ![lh][p] = [@ EXCEPT !.isInProcess = TRUE, !.bundle = Nil]]
        /\ job' = [job EXCEPT ![w] = [leafHub |-> lh, priority |-> p, bundle |-> e.bundle,
                                      bundleMetadata |-> e.bundleMetadata]]
        /\ DispatcherLoops
        /\ UNCHANGED <<metadata, readyQueue, dbWorkers, worker, stored, delivered>>

\* GetNext returns the next ready bundle and RunAsync puts the job into the
\* worker's queue, which has room for one job: the dispatcher would block on a
\* full queue.
GetNext(p) ==
    LET lh == dispatcher.unit
        w  == dispatcher.worker
        e  == priorityQueue[lh][p]
    IN  /\ dispatcher.pc = "getNext"
        /\ IsNextReady(priorityQueue[lh], p)
        /\ job[w] = Nil
        /\ isInReadyQueue' = [isInReadyQueue EXCEPT ![lh] = FALSE]
        /\ priorityQueue' = [priorityQueue EXCEPT ![lh][p].isInProcess = TRUE]
        /\ job' = [job EXCEPT ![w] = [leafHub |-> lh, priority |-> p, bundle |-> e.bundle,
                                      bundleMetadata |-> e.bundleMetadata]]
        /\ DispatcherLoops
        /\ UNCHANGED <<metadata, readyQueue, dbWorkers, worker, stored, delivered>>

\* GetNext returns errNoReadyBundle: the dispatcher logs it and continues with
\* the next unit, leaving the unit's flag and the acquired worker as they are.
GetNextFails ==
    /\ dispatcher.pc = "getNext"
    /\ ~HasReadyBundle(priorityQueue[dispatcher.unit])
    /\ DispatcherLoops
    /\ UNCHANGED <<unitVars, readyQueue, dbWorkers, worker, job, stored, delivered>>

-----------------------------------------------------------------------------
(***************************************************************************)
(* The loop of DB worker w.                                                *)
(***************************************************************************)

\* The worker adds itself to the pool and waits for a job.
Register(w) ==
    /\ worker[w] = "register"
    /\ dbWorkers' = dbWorkers \cup {w}
    /\ worker' = [worker EXCEPT ![w] = "select"]
    /\ UNCHANGED <<unitVars, readyQueue, dispatcher, job, stored, delivered>>

HasJob(w) == worker[w] = "select" /\ job[w] # Nil

Write(j) == [stored EXCEPT ![j.leafHub][j.priority] = j.bundle.generation]

\* The handler function returns nil: the database executed its statements.
HandlerSucceeds(w) ==
    /\ HasJob(w)
    /\ stored' = Write(job[w])
    /\ worker' = [worker EXCEPT ![w] = "succeeded"]
    /\ UNCHANGED <<unitVars, readyQueue, dispatcher, dbWorkers, job, delivered>>

\* The handler function returns an error.  The database may have executed the
\* statements all the same, when only the answer was lost.
HandlerFails(w) ==
    /\ HasJob(w)
    /\ stored' \in {stored, Write(job[w])}
    /\ worker' = [worker EXCEPT ![w] = "failed"]
    /\ UNCHANGED <<unitVars, readyQueue, dispatcher, dbWorkers, job, delivered>>

\* Mutant of ProcessedElement: the element is cleared although a newer bundle
\* arrived.
ClearedElement(e, g) ==
    [e EXCEPT
        !.isInProcess = FALSE,
        !.lastProcessedBundleGeneration = IF g > @ THEN g ELSE @,
        !.bundle = Nil,
        !.bundleMetadata = Nil]

\* What ReportResult makes of the element when the handler succeeded with the
\* bundle whose metadata holds generation g.
ProcessedElement(e, g) ==
    [e EXCEPT
        !.isInProcess = FALSE,
        !.lastProcessedBundleGeneration = IF g > @ THEN g ELSE @,
        !.bundle = IF g = e.bundle.generation THEN Nil ELSE @,
        !.bundleMetadata = IF g = e.bundle.generation THEN Nil ELSE @]

\* Mutant of FinishJob: the worker waits for a job without returning to the pool.
FinishJobOutsidePool(w) ==
    /\ job' = [job EXCEPT ![w] = Nil]
    /\ worker' = [worker EXCEPT ![w] = "select"]

\* After ReportResult the worker turns to its next iteration.
FinishJob(w) ==
    /\ job' = [job EXCEPT ![w] = Nil]
    /\ worker' = [worker EXCEPT ![w] = "register"]

\* ReportResult without an error.
ReportSuccess(w) ==
    LET lh == job[w].leafHub
        p  == job[w].priority
    IN  /\ worker[w] = "succeeded"
        /\ priorityQueue' = [priorityQueue EXCEPT
               ![lh][p] = ProcessedElement(@, metadata[lh][p][job[w].bundleMetadata])]
        /\ AddCUToReadyQueueIfNeeded(lh)
        /\ FinishJob(w)
        /\ UNCHANGED <<metadata, dbWorkers, stored, delivered>>

\* Mutants of ReportFailure: the error is ignored, or the bundle is not announced
\* for another attempt.
ReportIgnoresError(w) ==
    LET lh == job[w].leafHub
        p  == job[w].priority
    IN  /\ worker[w] = "failed"
        /\ priorityQueue' = [priorityQueue EXCEPT
               ![lh][p] = ProcessedElement(@, metadata[lh][p][job[w].bundleMetadata])]
        /\ AddCUToReadyQueueIfNeeded(lh)
        /\ FinishJob(w)
        /\ UNCHANGED <<metadata, dbWorkers, stored, delivered>>

ReportFailureOnly(w) ==
    LET lh == job[w].leafHub
        p  == job[w].priority
    IN  /\ worker[w] = "failed"
        /\ priorityQueue' = [priorityQueue EXCEPT ![lh][p].isInProcess = FALSE]
        /\ FinishJob(w)
        /\ UNCHANGED <<isInReadyQueue, metadata, readyQueue, dispatcher, dbWorkers,
                       stored, delivered>>

\* ReportResult with an error.
ReportFailure(w) ==
    LET lh == job[w].leafHub
        p  == job[w].priority
    IN  /\ worker[w] = "failed"
        /\ priorityQueue' = [priorityQueue EXCEPT ![lh][p].isInProcess = FALSE]
        /\ AddCUToReadyQueueIfNeeded(lh)
        /\ FinishJob(w)
        /\ UNCHANGED <<metadata, dbWorkers, stored, delivered>>

-----------------------------------------------------------------------------
TransportStep ==
    \E lh \in LeafHubs, p \in Priorities : \E b \in bundles[p] :
        InsertNewer(lh, p, b) \/ InsertOld(lh, p, b)

DispatcherStep ==
    \/ DispatcherWait
    \/ BlockingDequeue
    \/ \E w \in Workers : Acquire(w)
    \/ \E p \in Priorities : GetNext(p)
    \/ GetNextFails

WorkerStep(w) ==
    \/ Register(w)
    \/ HandlerSucceeds(w)
    \/ HandlerFails(w)
    \/ ReportSuccess(w)
    \/ ReportFailure(w)

Next == TransportStep \/ DispatcherStep \/ \E w \in Workers : WorkerStep(w)

Spec == Init /\ [][Next]_vars

SucceedsFor(w, lh, p) ==
    HasJob(w) /\ job[w].leafHub = lh /\ job[w].priority = p /\ HandlerSucceeds(w)

\* Goroutines are scheduled: the dispatcher and every worker keep going, and a
\* handler returns.  The database does not refuse the same leaf hub's bundles
\* of one type forever, those in refused excepted.  Nothing is assumed of the
\* transport.
Fairness(refused) ==
    /\ WF_vars(DispatcherStep)
    /\ \A w \in Workers : WF_vars(WorkerStep(w))
    /\ \A lh \in LeafHubs, p \in Priorities :
           <<lh, p>> \notin refused => SF_vars(\E w \in Workers : SucceedsFor(w, lh, p))
-----------------------------------------------------------------------------
(***************************************************************************)
(* Safety.                                                                 *)
(***************************************************************************)

\* Two workers never handle bundles of the same leaf hub at the same time, so
\* no handler's read of the leaf hub's rows is stale when it writes them
\* ("allow CU to appear only once in RQ/processing").
OneJobPerLeafHub ==
    \A v, w \in Workers :
        job[v] # Nil /\ job[w] # Nil /\ job[v].leafHub = job[w].leafHub => v = w

\* A handler only sees a bundle newer than every bundle of its type that was
\* handled ("if we got inside the handler function, then the bundle generation
\* is newer than what was already handled").
HandledBundleIsNewer ==
    \A w \in Workers : job[w] # Nil =>
        job[w].bundle.generation
            > priorityQueue[job[w].leafHub][job[w].priority].lastProcessedBundleGeneration

\* When a dependant bundle is handled, the database already has its base bundle
\* in the generation it asked for, or in a newer one ("base bundle was already
\* handled successfully").
DependencyHandledFirst ==
    \A w \in Workers :
        job[w] # Nil /\ dependency[job[w].priority] # Nil =>
            job[w].bundle.dependencyGeneration
                <= stored[job[w].leafHub][dependency[job[w].priority]]

\* Conflation never loses the newest bundle the transport delivered: it is in
\* memory until a worker reported it as processed.
NewestBundleSurvives ==
    \A lh \in LeafHubs, p \in Priorities :
        LET e == priorityQueue[lh][p]
        IN  delivered[lh][p] = IF e.bundle = Nil THEN e.lastProcessedBundleGeneration
                                                 ELSE e.bundle.generation

\* A generation counts as processed only when the database has it, or a newer
\* one: insert may drop what it believes to be processed.
ProcessedIsStored ==
    \A lh \in LeafHubs, p \in Priorities :
        priorityQueue[lh][p].lastProcessedBundleGeneration <= stored[lh][p]

\* The metadata a worker reports with is that of the bundle it was given, also
\* when newer bundles arrived meanwhile (the NOTICE in insert).
JobMetadataMatchesBundle ==
    \A w \in Workers : job[w] # Nil =>
        metadata[job[w].leafHub][job[w].priority][job[w].bundleMetadata]
            = job[w].bundle.generation

\* While a worker has a job, the element keeps a bundle at least as new, so
\* ReportResult finds one to compare generations with.
BundleOutlivesJob ==
    \A w \in Workers : job[w] # Nil =>
        LET b == priorityQueue[job[w].leafHub][job[w].priority].bundle
        IN  b # Nil /\ b.generation >= job[w].bundle.generation

\* No wakeup is lost: the dispatcher sleeps only while the ready queue is empty.
DispatcherSleepsOnlyIfIdle == dispatcher.pc = "waiting" => readyQueue = <<>>

\* The database never goes back to an older generation of a leaf hub's bundle.
StoredNeverRegresses ==
    [][\A lh \in LeafHubs, p \in Priorities : stored'[lh][p] >= stored[lh][p]]_vars

-----------------------------------------------------------------------------
(***************************************************************************)
(* Properties that rest on a unit keeping its promise to the dispatcher    *)
(* until the dispatcher calls GetNext.                                     *)
(***************************************************************************)

\* The comment in GetNext: "CU adds itself to RQ only when it has ready to
\* process bundle, therefore this shouldn't happen".
GetNextFindsBundle ==
    dispatcher.pc = "getNext" => HasReadyBundle(priorityQueue[dispatcher.unit])

\* A unit that has a ready bundle and nothing in process is on its way to a
\* worker: in the ready queue or with the dispatcher ("let the dispatcher know
\* this CU has a ready to be processed bundle").
DispatcherKnowsReadyUnits ==
    \A lh \in LeafHubs :
        HasReadyBundle(priorityQueue[lh]) /\ ~UnitInProcess(priorityQueue[lh]) =>
            \/ \E i \in 1 .. Len(readyQueue) : readyQueue[i] = lh
            \/ dispatcher.unit = lh

\* Acquire is "blocking until a worker becomes available": one does, as every worker
\* comes back to the pool.
AcquireReturns == dispatcher.pc = "acquire" ~> dispatcher.pc # "acquire"
-----------------------------------------------------------------------------
(***************************************************************************)
(* What the pipeline promises the handlers: SerialDelivery, where a leaf   *)
(* hub's activity is the job some worker has for it.                       *)
(***************************************************************************)

heldBundles == [lh \in LeafHubs |-> [p \in Priorities |-> priorityQueue[lh][p].bundle]]

processedGenerations ==
    [lh \in LeafHubs |-> [p \in Priorities |->
        priorityQueue[lh][p].lastProcessedBundleGeneration]]

activities ==
    [lh \in LeafHubs |->
        {[priority |-> job[w].priority, bundle |-> job[w].bundle] :
            w \in {v \in Workers : job[v] # Nil /\ job[v].leafHub = lh}}]

Serial == INSTANCE SerialDelivery WITH
    held <- heldBundles, processed <- processedGenerations, active <- activities

\* Every step of the pipeline is a step of SerialDelivery or changes nothing it
\* speaks of, however transport, dispatcher and workers interleave.
KeepsSerialDelivery == Serial!SDSpec

-----------------------------------------------------------------------------
(***************************************************************************)
(* The inductive invariant from which the safety properties follow.        *)
(***************************************************************************)

\* A unit is announced at most once, and not while it is in process.
AnnouncedOnce ==
    /\ \A i, j \in 1 .. Len(readyQueue) : readyQueue[i] = readyQueue[j] => i = j
    /\ \A i \in 1 .. Len(readyQueue) :
           isInReadyQueue[readyQueue[i]] /\ dispatcher.unit # readyQueue[i]
    /\ dispatcher.unit # Nil => isInReadyQueue[dispatcher.unit]
    /\ \A lh \in LeafHubs : isInReadyQueue[lh] => ~UnitInProcess(priorityQueue[lh])

\* What the dispatcher holds at each point of its loop.
DispatcherHolds ==
    /\ dispatcher.pc \in {"acquire", "getNext"} <=> dispatcher.unit # Nil
    /\ dispatcher.pc = "getNext" <=> dispatcher.worker # Nil

\* A worker has a job from RunAsync until it has reported the result; while it
\* is available it has none and nobody holds it.
WorkerHolds ==
    \A w \in Workers :
        /\ worker[w] = "register" => job[w] = Nil
        /\ worker[w] \in {"succeeded", "failed"} => job[w] # Nil
        /\ w \in dbWorkers \/ dispatcher.worker = w => worker[w] = "select" /\ job[w] = Nil
        /\ w \in dbWorkers => dispatcher.worker # w

\* The bundle in memory is the newest one delivered and the database has no
\* newer one; without a bundle everything delivered was processed and stored.
ElementOK(lh, p) ==
    LET e == priorityQueue[lh][p]
    IN  /\ e.lastProcessedBundleGeneration <= stored[lh][p]
        /\ IF e.bundle = Nil
           THEN /\ delivered[lh][p] = e.lastProcessedBundleGeneration
                /\ stored[lh][p] = e.lastProcessedBundleGeneration
           ELSE /\ delivered[lh][p] = e.bundle.generation
                /\ stored[lh][p] <= e.bundle.generation
                /\ e.lastProcessedBundleGeneration < e.bundle.generation
                /\ e.bundleMetadata # Nil
                /\ metadata[lh][p][e.bundleMetadata] = e.bundle.generation

\* What is true of a job for type p of leaf hub lh until its result is reported.
JobOK(j, lh, p) ==
    LET e == priorityQueue[lh][p]
        g == j.bundle.generation
    IN  /\ e.isInProcess
        /\ e.bundle # Nil
        /\ g <= e.bundle.generation
        /\ e.lastProcessedBundleGeneration < g
        /\ metadata[lh][p][j.bundleMetadata] = g
        /\ stored[lh][p] <= g
        /\ dependency[p] # Nil =>
               j.bundle.dependencyGeneration <= stored[lh][dependency[p]]

ElementInv == \A lh \in LeafHubs, p \in Priorities : ElementOK(lh, p)

JobInv ==
    \A w \in Workers : job[w] # Nil =>
        /\ JobOK(job[w], job[w].leafHub, job[w].priority)
        /\ worker[w] = "succeeded" =>
               stored[job[w].leafHub][job[w].priority] = job[w].bundle.generation

Inv ==
    /\ TypeOK
    /\ AnnouncedOnce
    /\ DispatcherHolds
    /\ WorkerHolds
    /\ ElementInv
    /\ JobInv
    /\ OneJobPerLeafHub
=============================================================================

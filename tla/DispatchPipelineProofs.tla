----------------------- MODULE DispatchPipelineProofs -----------------------
(***************************************************************************)
(* Proofs that the safety properties of DispatchPipeline hold for every    *)
(* set of leaf hubs, workers and bundle types and every dependency between *)
(* the types.  Inv is inductive; each property follows from it.  The last  *)
(* part proves that the pipeline implements SerialDelivery.                *)
(***************************************************************************)
EXTENDS DispatchPipeline, TLAPS

\* The bridge starts with nothing received, queued or stored.
LEMMA InitInv == Init => Inv
<1> SUFFICES ASSUME Init PROVE Inv
    OBVIOUS
<1> USE UnitAssumption, PipelineAssumption DEF Init
<1>1. EmptyElement \in Element
  BY DEF EmptyElement, Element
<1>2. TypeOK
  BY <1>1 DEF TypeOK, PriorityQueue, DispatcherStates, WorkerStates
<1>3. AnnouncedOnce
  BY DEF AnnouncedOnce, UnitInProcess, EmptyElement
<1>4. DispatcherHolds /\ WorkerHolds /\ JobInv /\ OneJobPerLeafHub
  BY DEF DispatcherHolds, WorkerHolds, JobInv, OneJobPerLeafHub
<1>5. ElementInv
  BY DEF ElementInv, ElementOK, EmptyElement
<1> QED
  BY <1>2, <1>3, <1>4, <1>5 DEF Inv

\* addCUToReadyQueueIfNeeded keeps every unit announced at most once, for any
\* new priority queue of the unit in which no other unit changes.
LEMMA AddCU ==
    ASSUME TypeOK, AnnouncedOnce, DispatcherHolds, WorkerHolds, NEW lh \in LeafHubs,
           priorityQueue' \in [LeafHubs -> PriorityQueue],
           \A k \in LeafHubs \ {lh} : priorityQueue'[k] = priorityQueue[k],
           isInReadyQueue[lh] => ~UnitInProcess(priorityQueue'[lh]),
           AddCUToReadyQueueIfNeeded(lh)
    PROVE  /\ isInReadyQueue' \in [LeafHubs -> BOOLEAN]
           /\ readyQueue' \in Seq(LeafHubs)
           /\ dispatcher' \in [pc : DispatcherStates, unit : LeafHubs \cup {Nil},
                               worker : Workers \cup {Nil}]
           /\ AnnouncedOnce'
           /\ DispatcherHolds'
           /\ dispatcher'.worker = dispatcher.worker
<1> USE PipelineAssumption
<1>0. dispatcher \in [pc : DispatcherStates, unit : LeafHubs \cup {Nil},
                      worker : Workers \cup {Nil}] /\ readyQueue \in Seq(LeafHubs)
                      /\ isInReadyQueue \in [LeafHubs -> BOOLEAN]
  BY DEF TypeOK
<1>1. CASE UNCHANGED <<readyQueue, dispatcher, isInReadyQueue>>
  <2>1. AnnouncedOnce'
    BY <1>0, <1>1 DEF AnnouncedOnce
  <2> QED
    BY <1>0, <1>1, <2>1 DEF DispatcherHolds
<1>2. CASE /\ ~isInReadyQueue[lh] /\ ~UnitInProcess(priorityQueue'[lh])
           /\ Enqueue(lh)
           /\ isInReadyQueue' = [isInReadyQueue EXCEPT ![lh] = TRUE]
  <2>1. readyQueue' = Append(readyQueue, lh) /\ readyQueue' \in Seq(LeafHubs)
    BY <1>0, <1>2 DEF Enqueue
  <2>2. /\ dispatcher' \in [pc : DispatcherStates, unit : LeafHubs \cup {Nil},
                            worker : Workers \cup {Nil}]
        /\ dispatcher'.unit = dispatcher.unit
        /\ dispatcher'.worker = dispatcher.worker
        /\ DispatcherHolds'
    BY <1>0, <1>2 DEF Enqueue, DispatcherHolds, DispatcherStates
  <2>3. \A i \in 1 .. Len(readyQueue) : readyQueue[i] # lh
    BY <1>0, <1>2 DEF AnnouncedOnce
  <2>4. dispatcher.unit # lh
    BY <1>2, <1>0 DEF AnnouncedOnce
  <2>5. /\ Len(readyQueue') = Len(readyQueue) + 1
        /\ \A i \in 1 .. Len(readyQueue) : readyQueue'[i] = readyQueue[i]
        /\ readyQueue'[Len(readyQueue) + 1] = lh
        /\ Len(readyQueue) \in Nat
    BY <1>0, <2>1
  <2>6. \A i, j \in 1 .. Len(readyQueue') : readyQueue'[i] = readyQueue'[j] => i = j
    <3> TAKE i, j \in 1 .. Len(readyQueue')
    <3>1. i \in 1 .. Len(readyQueue) \/ i = Len(readyQueue) + 1
      BY <2>5
    <3>2. j \in 1 .. Len(readyQueue) \/ j = Len(readyQueue) + 1
      BY <2>5
    <3> QED
      BY <2>3, <2>5, <3>1, <3>2 DEF AnnouncedOnce
  <2>7. \A i \in 1 .. Len(readyQueue') :
            isInReadyQueue'[readyQueue'[i]] /\ dispatcher'.unit # readyQueue'[i]
    <3> TAKE i \in 1 .. Len(readyQueue')
    <3>1. i \in 1 .. Len(readyQueue) \/ i = Len(readyQueue) + 1
      BY <2>5
    <3> QED
      BY <1>0, <1>2, <2>2, <2>4, <2>5, <3>1 DEF AnnouncedOnce
  <2>8. dispatcher'.unit # Nil => isInReadyQueue'[dispatcher'.unit]
    BY <1>0, <1>2, <2>2 DEF AnnouncedOnce
  <2>9. \A k \in LeafHubs : isInReadyQueue'[k] => ~UnitInProcess(priorityQueue'[k])
    BY <1>0, <1>2 DEF AnnouncedOnce
  <2>10. AnnouncedOnce'
    BY <2>6, <2>7, <2>8, <2>9 DEF AnnouncedOnce
  <2> QED
    BY <1>0, <1>2, <2>1, <2>2, <2>10
<1> QED
  BY <1>1, <1>2 DEF AddCUToReadyQueueIfNeeded

\* insert and ReportResult change one element of one unit.
LEMMA OneElementChanges ==
    ASSUME TypeOK, NEW lh \in LeafHubs, NEW p \in Priorities, NEW f \in Element,
           priorityQueue' = [priorityQueue EXCEPT ![lh][p] = f]
    PROVE  /\ priorityQueue' \in [LeafHubs -> PriorityQueue]
           /\ priorityQueue'[lh][p] = f
           /\ \A k \in LeafHubs, q \in Priorities :
                  k # lh \/ q # p => priorityQueue'[k][q] = priorityQueue[k][q]
           /\ \A k \in LeafHubs \ {lh} : priorityQueue'[k] = priorityQueue[k]
<1>1. priorityQueue \in [LeafHubs -> [Priorities -> Element]]
  BY DEF TypeOK, PriorityQueue
<1>2. priorityQueue' \in [LeafHubs -> [Priorities -> Element]]
      /\ priorityQueue'[lh][p] = f
  BY <1>1
<1>3. \A k \in LeafHubs, q \in Priorities :
         k # lh \/ q # p => priorityQueue'[k][q] = priorityQueue[k][q]
  BY <1>1
<1>4. \A k \in LeafHubs \ {lh} : priorityQueue'[k] = priorityQueue[k]
  BY <1>1
<1> QED
  BY <1>2, <1>3, <1>4 DEF PriorityQueue

\* The transport counts a delivery.
LEMMA DeliverType ==
    ASSUME TypeOK, NEW lh \in LeafHubs, NEW p \in Priorities, NEW b \in Bundle,
           Deliver(lh, p, b)
    PROVE  /\ delivered' \in [LeafHubs -> [Priorities -> Nat]]
           /\ delivered'[lh][p] = IF b.generation > delivered[lh][p] THEN b.generation
                                                                   ELSE delivered[lh][p]
           /\ \A k \in LeafHubs, q \in Priorities :
                  k # lh \/ q # p => delivered'[k][q] = delivered[k][q]
BY DEF Deliver, TypeOK, Bundle

\* A newer bundle replaces the one in memory.  A job that is running keeps its
\* metadata: it has the element in process, so a new metadata object is used.
LEMMA InsertNewerInv ==
    ASSUME Inv, NEW lh \in LeafHubs, NEW p \in Priorities, NEW b \in bundles[p],
           InsertNewer(lh, p, b)
    PROVE  Inv'
<1> USE UnitAssumption, PipelineAssumption
<1> DEFINE e == priorityQueue[lh][p]
<1>0. TypeOK /\ AnnouncedOnce /\ DispatcherHolds /\ WorkerHolds /\ ElementInv /\ JobInv
      /\ OneJobPerLeafHub
  BY DEF Inv
<1>1. b \in Bundle /\ b.generation \in Nat /\ b # Nil
  BY DEF Bundle
<1>2. e \in Element
  BY <1>0 DEF TypeOK, PriorityQueue
<1>3. IsNewer(e, b) /\ AddCUToReadyQueueIfNeeded(lh) /\ Deliver(lh, p, b)
      /\ UNCHANGED <<dbWorkers, worker, job, stored>>
  BY DEF InsertNewer
<1>4. PICK m \in (IF UpdatesInPlace(e) THEN {e.bundleMetadata}
                                       ELSE MetadataRefs \ JobMetadata(lh, p)) :
         /\ priorityQueue' = [priorityQueue EXCEPT
                ![lh][p] = [@ EXCEPT !.bundle = b, !.bundleMetadata = m]]
         /\ metadata' = [metadata EXCEPT ![lh][p][m] = b.generation]
  BY DEF InsertNewer
<1>5. m \in MetadataRefs
  BY <1>2, <1>4 DEF UpdatesInPlace, Element
<1> DEFINE f == [e EXCEPT !.bundle = b, !.bundleMetadata = m]
<1>6. /\ f \in Element
      /\ f.bundle = b /\ f.bundleMetadata = m
      /\ f.isInProcess = e.isInProcess
      /\ f.lastProcessedBundleGeneration = e.lastProcessedBundleGeneration
      /\ e.lastProcessedBundleGeneration \in Nat
  BY <1>1, <1>2, <1>5 DEF Element
<1>7. /\ priorityQueue' \in [LeafHubs -> PriorityQueue]
      /\ priorityQueue'[lh][p] = f
      /\ \A k \in LeafHubs, q \in Priorities :
             k # lh \/ q # p => priorityQueue'[k][q] = priorityQueue[k][q]
      /\ \A k \in LeafHubs \ {lh} : priorityQueue'[k] = priorityQueue[k]
  <2>1. priorityQueue' = [priorityQueue EXCEPT ![lh][p] = f]
    BY <1>4
  <2> HIDE DEF f
  <2> QED
    BY <1>0, <1>6, <2>1, OneElementChanges
<1>8. /\ metadata' \in [LeafHubs -> [Priorities -> [MetadataRefs -> Nat]]]
      /\ metadata'[lh][p][m] = b.generation
      /\ \A k \in LeafHubs, q \in Priorities, r \in MetadataRefs :
             k # lh \/ q # p \/ r # m => metadata'[k][q][r] = metadata[k][q][r]
  BY <1>0, <1>1, <1>4, <1>5 DEF TypeOK
<1>9. /\ delivered' \in [LeafHubs -> [Priorities -> Nat]]
      /\ delivered'[lh][p] = IF b.generation > delivered[lh][p] THEN b.generation
                                                              ELSE delivered[lh][p]
      /\ \A k \in LeafHubs, q \in Priorities :
             k # lh \/ q # p => delivered'[k][q] = delivered[k][q]
  BY <1>0, <1>1, <1>3, DeliverType
<1> HIDE DEF f
<1>10. /\ isInReadyQueue' \in [LeafHubs -> BOOLEAN]
       /\ readyQueue' \in Seq(LeafHubs)
       /\ dispatcher' \in [pc : DispatcherStates, unit : LeafHubs \cup {Nil},
                           worker : Workers \cup {Nil}]
       /\ AnnouncedOnce' /\ DispatcherHolds'
       /\ dispatcher'.worker = dispatcher.worker
  <2>1. isInReadyQueue[lh] => ~UnitInProcess(priorityQueue[lh]) /\ ~e.isInProcess
    BY <1>0 DEF AnnouncedOnce, UnitInProcess
  <2>2. isInReadyQueue[lh] => ~UnitInProcess(priorityQueue'[lh])
    BY <1>6, <1>7, <2>1 DEF UnitInProcess
  <2> QED
    BY <1>0, <1>3, <1>7, <2>2, AddCU
<1>11. TypeOK'
  BY <1>0, <1>3, <1>7, <1>8, <1>9, <1>10 DEF TypeOK
<1>12. WorkerHolds' /\ OneJobPerLeafHub'
  BY <1>0, <1>3, <1>10 DEF WorkerHolds, OneJobPerLeafHub
<1>13. ElementInv'
  <2> SUFFICES ASSUME NEW k \in LeafHubs, NEW q \in Priorities
               PROVE  ElementOK(k, q)'
    BY DEF ElementInv
  <2>0. ElementOK(k, q)
    BY <1>0 DEF ElementInv
  <2>1. CASE k = lh /\ q = p
    <3>1. delivered[lh][p] \in Nat /\ stored[lh][p] \in Nat
      BY <1>0 DEF TypeOK
    <3>2. e.bundle # Nil => e.bundle.generation \in Nat
      BY <1>2 DEF Element, Bundle
    <3>3. delivered[lh][p] < b.generation /\ stored[lh][p] < b.generation
          /\ e.lastProcessedBundleGeneration < b.generation
          /\ e.lastProcessedBundleGeneration <= stored[lh][p]
      BY <1>1, <1>3, <1>6, <2>0, <2>1, <3>1, <3>2 DEF ElementOK, IsNewer
    <3>4. delivered'[lh][p] = b.generation /\ stored'[lh][p] = stored[lh][p]
      BY <1>3, <1>9, <3>3
    <3> HIDE DEF e
    <3> QED
      BY <1>1, <1>5, <1>6, <1>7, <1>8, <2>1, <3>1, <3>3, <3>4 DEF ElementOK
  <2>2. CASE k # lh \/ q # p
    <3>1. priorityQueue'[k][q] = priorityQueue[k][q] /\ delivered'[k][q] = delivered[k][q]
          /\ stored'[k][q] = stored[k][q]
      BY <1>3, <1>7, <1>9, <2>2
    <3>2. \A r \in MetadataRefs : metadata'[k][q][r] = metadata[k][q][r]
      BY <1>8, <2>2
    <3>3. priorityQueue[k][q].bundleMetadata \in MetadataRefs \cup {Nil}
      BY <1>0 DEF TypeOK, PriorityQueue, Element
    <3> QED
      BY <2>0, <3>1, <3>2, <3>3 DEF ElementOK
  <2> QED
    BY <2>1, <2>2
<1>14. JobInv'
  <2> SUFFICES ASSUME NEW w \in Workers, job[w] # Nil
               PROVE  JobOK(job[w], job[w].leafHub, job[w].priority)'
    BY <1>0, <1>3 DEF JobInv
  <2> DEFINE k == job[w].leafHub
             q == job[w].priority
  <2>0. JobOK(job[w], k, q) /\ job[w] \in Job
    BY <1>0 DEF JobInv, TypeOK
  <2>1. k \in LeafHubs /\ q \in Priorities /\ job[w].bundleMetadata \in MetadataRefs
        /\ job[w].bundle.generation \in Nat
    BY <2>0 DEF Job, Bundle
  <2>2. CASE k = lh /\ q = p
    <3>1. e.isInProcess /\ e.bundle # Nil /\ job[w].bundle.generation <= e.bundle.generation
      BY <2>0, <2>2 DEF JobOK
    <3>2. job[w].bundleMetadata \in JobMetadata(lh, p)
      BY <2>1, <2>2 DEF JobMetadata
    <3>3. job[w].bundleMetadata # m
      BY <1>4, <3>1, <3>2 DEF UpdatesInPlace
    <3>4. e.bundle.generation \in Nat
      BY <1>2, <3>1 DEF Element, Bundle
    <3>5. job[w].bundle.generation <= b.generation
      BY <1>1, <1>3, <2>1, <3>1, <3>4 DEF IsNewer
    <3>6. metadata'[lh][p][job[w].bundleMetadata] = metadata[lh][p][job[w].bundleMetadata]
      BY <1>8, <2>1, <3>3
    <3> QED
      BY <1>1, <1>3, <1>6, <1>7, <2>0, <2>2, <3>1, <3>5, <3>6 DEF JobOK
  <2>3. CASE k # lh \/ q # p
    <3>1. priorityQueue'[k][q] = priorityQueue[k][q]
          /\ metadata'[k][q][job[w].bundleMetadata] = metadata[k][q][job[w].bundleMetadata]
      BY <1>7, <1>8, <2>1, <2>3
    <3> QED
      BY <1>3, <2>0, <3>1 DEF JobOK
  <2> QED
    BY <2>2, <2>3
<1> QED
  BY <1>10, <1>11, <1>12, <1>13, <1>14 DEF Inv

\* Steps that leave the elements, the jobs and the database alone.
LEMMA DataUnchanged ==
    ASSUME ElementInv, JobInv, OneJobPerLeafHub,
           UNCHANGED <<priorityQueue, metadata, job, stored, delivered>>,
           \A w \in Workers : worker'[w] = "succeeded" => worker[w] = "succeeded"
    PROVE  ElementInv' /\ JobInv' /\ OneJobPerLeafHub'
<1>1. ElementInv'
  BY DEF ElementInv, ElementOK
<1>2. \A w \in Workers :
         JobOK(job[w], job[w].leafHub, job[w].priority)
            => JobOK(job[w], job[w].leafHub, job[w].priority)'
  BY DEF JobOK
<1>3. JobInv'
  BY <1>2 DEF JobInv
<1>4. OneJobPerLeafHub'
  BY DEF OneJobPerLeafHub
<1> QED
  BY <1>1, <1>3, <1>4

\* A stuttering step.
LEMMA StutterInv == ASSUME Inv, UNCHANGED vars PROVE Inv'
<1>1. TypeOK'
  BY DEF vars, unitVars, Inv, TypeOK
<1>2. AnnouncedOnce'
  BY DEF vars, unitVars, Inv, AnnouncedOnce, UnitInProcess
<1>3. DispatcherHolds' /\ WorkerHolds'
  BY DEF vars, unitVars, Inv, DispatcherHolds, WorkerHolds
<1>4. ElementInv' /\ JobInv' /\ OneJobPerLeafHub'
  BY DataUnchanged DEF vars, unitVars, Inv
<1> QED
  BY <1>1, <1>2, <1>3, <1>4 DEF Inv

\* An old bundle changes nothing: its generation was delivered before.
LEMMA InsertOldInv ==
    ASSUME Inv, NEW lh \in LeafHubs, NEW p \in Priorities, NEW b \in bundles[p],
           InsertOld(lh, p, b)
    PROVE  Inv' /\ UNCHANGED vars
<1> USE UnitAssumption, PipelineAssumption
<1> DEFINE e == priorityQueue[lh][p]
<1>1. b.generation \in Nat /\ e \in Element /\ delivered[lh][p] \in Nat
      /\ delivered \in [LeafHubs -> [Priorities -> Nat]]
  BY DEF Inv, TypeOK, PriorityQueue, Bundle
<1>2. b.generation <= delivered[lh][p]
  <2>1. ElementOK(lh, p) /\ ~IsNewer(e, b)
    BY DEF Inv, ElementInv, InsertOld
  <2>2. e.bundle # Nil => e.bundle.generation \in Nat
    BY <1>1 DEF Element, Bundle
  <2>3. e.lastProcessedBundleGeneration \in Nat
    BY <1>1 DEF Element
  <2> QED
    BY <1>1, <2>1, <2>2, <2>3 DEF ElementOK, IsNewer
<1>3. delivered' = delivered
  BY <1>1, <1>2 DEF InsertOld, Deliver
<1>4. UNCHANGED vars
  BY <1>3 DEF InsertOld, vars, unitVars
<1> QED
  BY <1>4, StutterInv

\* The dispatcher goes to sleep.
LEMMA DispatcherWaitInv == ASSUME Inv, DispatcherWait PROVE Inv'
<1> USE PipelineAssumption DEF DispatcherWait, unitVars
<1>1. dispatcher'.unit = dispatcher.unit /\ dispatcher'.worker = dispatcher.worker
      /\ dispatcher' \in [pc : DispatcherStates, unit : LeafHubs \cup {Nil},
                          worker : Workers \cup {Nil}]
  BY DEF Inv, TypeOK, DispatcherStates
<1>2. TypeOK'
  BY <1>1 DEF Inv, TypeOK
<1>3. AnnouncedOnce' /\ WorkerHolds'
  BY <1>1 DEF Inv, AnnouncedOnce, WorkerHolds
<1>4. DispatcherHolds'
  BY <1>1 DEF Inv, TypeOK, DispatcherHolds
<1> QED
  BY <1>2, <1>3, <1>4, DataUnchanged DEF Inv

\* The unit at the front of the queue moves to the dispatcher: it was in the
\* queue once, so it is not in the rest of it.
LEMMA BlockingDequeueInv == ASSUME Inv, BlockingDequeue PROVE Inv'
<1> USE PipelineAssumption DEF BlockingDequeue, unitVars
<1>0. TypeOK /\ AnnouncedOnce /\ DispatcherHolds /\ WorkerHolds
  BY DEF Inv
<1>1. /\ readyQueue \in Seq(LeafHubs) /\ Len(readyQueue) \in Nat \ {0}
      /\ Head(readyQueue) = readyQueue[1] /\ Head(readyQueue) \in LeafHubs
      /\ readyQueue' \in Seq(LeafHubs)
      /\ Len(readyQueue') = Len(readyQueue) - 1
      /\ \A i \in 1 .. Len(readyQueue') : readyQueue'[i] = readyQueue[i + 1]
  BY <1>0 DEF TypeOK
<1>2. /\ dispatcher'.unit = readyQueue[1] /\ dispatcher'.worker = dispatcher.worker
      /\ dispatcher'.pc = "acquire" /\ dispatcher.pc = "dequeue"
      /\ dispatcher' \in [pc : DispatcherStates, unit : LeafHubs \cup {Nil},
                          worker : Workers \cup {Nil}]
  BY <1>0, <1>1 DEF TypeOK, DispatcherStates
<1>3. TypeOK'
  BY <1>0, <1>1, <1>2 DEF TypeOK
<1>4. AnnouncedOnce'
  <2>1. \A i, j \in 1 .. Len(readyQueue') : readyQueue'[i] = readyQueue'[j] => i = j
    <3> TAKE i, j \in 1 .. Len(readyQueue')
    <3>1. i + 1 \in 1 .. Len(readyQueue) /\ j + 1 \in 1 .. Len(readyQueue)
          /\ (i + 1 = j + 1 => i = j)
      BY <1>1
    <3> QED
      BY <1>0, <1>1, <3>1 DEF AnnouncedOnce
  <2>2. \A i \in 1 .. Len(readyQueue') :
            isInReadyQueue'[readyQueue'[i]] /\ dispatcher'.unit # readyQueue'[i]
    <3> TAKE i \in 1 .. Len(readyQueue')
    <3>1. i + 1 \in 1 .. Len(readyQueue) /\ 1 \in 1 .. Len(readyQueue) /\ i + 1 # 1
      BY <1>1
    <3> QED
      BY <1>0, <1>1, <1>2, <3>1 DEF AnnouncedOnce
  <2>3. isInReadyQueue[readyQueue[1]]
    <3>1. 1 \in 1 .. Len(readyQueue)
      BY <1>1
    <3> QED
      BY <1>0, <3>1 DEF AnnouncedOnce
  <2> QED
    BY <1>0, <1>2, <2>1, <2>2, <2>3 DEF AnnouncedOnce
<1>5. DispatcherHolds' /\ WorkerHolds'
  BY <1>0, <1>1, <1>2 DEF DispatcherHolds, WorkerHolds
<1> QED
  BY <1>3, <1>4, <1>5, DataUnchanged DEF Inv

\* The dispatcher takes an available worker out of the pool.
LEMMA AcquireInv == ASSUME Inv, NEW w \in Workers, Acquire(w) PROVE Inv'
<1> USE PipelineAssumption DEF Acquire, unitVars
<1>1. /\ dispatcher'.unit = dispatcher.unit /\ dispatcher'.worker = w
      /\ dispatcher'.pc = "getNext" /\ dispatcher.pc = "acquire"
      /\ dispatcher' \in [pc : DispatcherStates, unit : LeafHubs \cup {Nil},
                          worker : Workers \cup {Nil}]
  BY DEF Inv, TypeOK, DispatcherStates
<1>2. TypeOK'
  BY <1>1 DEF Inv, TypeOK
<1>3. AnnouncedOnce'
  BY <1>1 DEF Inv, AnnouncedOnce
<1>4. DispatcherHolds' /\ WorkerHolds'
  BY <1>1 DEF Inv, DispatcherHolds, WorkerHolds
<1> QED
  BY <1>2, <1>3, <1>4, DataUnchanged DEF Inv

\* The dispatcher drops the unit and the worker.
LEMMA GetNextFailsInv == ASSUME Inv, GetNextFails PROVE Inv'
<1> USE PipelineAssumption DEF GetNextFails, DispatcherLoops, unitVars
<1>1. TypeOK'
  BY DEF Inv, TypeOK, DispatcherStates
<1>2. AnnouncedOnce'
  BY DEF Inv, TypeOK, AnnouncedOnce
<1>3. DispatcherHolds' /\ WorkerHolds'
  BY DEF Inv, DispatcherHolds, WorkerHolds
<1> QED
  BY <1>1, <1>2, <1>3, DataUnchanged DEF Inv

\* A unit with the dispatcher has nothing in process, hence no job: the new job
\* is the only one for its leaf hub.
LEMMA GetNextInv == ASSUME Inv, NEW p \in Priorities, GetNext(p) PROVE Inv'
<1> USE UnitAssumption, PipelineAssumption
<1>h. dispatcher.unit \in LeafHubs /\ dispatcher.worker \in Workers
  BY DEF GetNext, Inv, DispatcherHolds, TypeOK
<1>s. SUFFICES ASSUME NEW lh \in LeafHubs, lh = dispatcher.unit,
                      NEW w \in Workers, w = dispatcher.worker
               PROVE  Inv'
  BY <1>h
<1> DEFINE e  == priorityQueue[lh][p]
           j  == [leafHub |-> lh, priority |-> p, bundle |-> e.bundle,
                  bundleMetadata |-> e.bundleMetadata]
           f  == [e EXCEPT !.isInProcess = TRUE]
<1>0. TypeOK /\ AnnouncedOnce /\ DispatcherHolds /\ WorkerHolds /\ ElementInv /\ JobInv
      /\ OneJobPerLeafHub
  BY DEF Inv
<1>1. /\ dispatcher.pc = "getNext"
      /\ IsReady(priorityQueue[lh], p)
      /\ isInReadyQueue' = [isInReadyQueue EXCEPT ![lh] = FALSE]
      /\ priorityQueue' = [priorityQueue EXCEPT ![lh][p].isInProcess = TRUE]
      /\ job' = [job EXCEPT ![w] = j]
      /\ dispatcher' = [pc |-> "dequeue", unit |-> Nil, worker |-> Nil]
      /\ UNCHANGED <<metadata, readyQueue, dbWorkers, worker, stored, delivered>>
  BY <1>s DEF GetNext, IsNextReady, DispatcherLoops
<1>2. lh \in LeafHubs /\ lh = dispatcher.unit /\ w \in Workers /\ w = dispatcher.worker
  BY <1>s
<1>3. e \in Element /\ ElementOK(lh, p)
  BY <1>0, <1>2 DEF TypeOK, PriorityQueue, ElementInv
<1>4. e.bundle # Nil /\ e.bundle \in Bundle /\ e.bundle.generation \in Nat
      /\ e.lastProcessedBundleGeneration < e.bundle.generation
      /\ stored[lh][p] <= e.bundle.generation
      /\ e.bundleMetadata \in MetadataRefs
      /\ metadata[lh][p][e.bundleMetadata] = e.bundle.generation
  BY <1>1, <1>3 DEF IsReady, ElementOK, Element, Bundle
<1>5. j \in Job /\ j # Nil
  BY <1>2, <1>4 DEF Job
<1>6. f \in Element /\ f.isInProcess
      /\ f.bundle = e.bundle /\ f.bundleMetadata = e.bundleMetadata
      /\ f.lastProcessedBundleGeneration = e.lastProcessedBundleGeneration
  BY <1>3 DEF Element
<1>7. /\ priorityQueue' \in [LeafHubs -> PriorityQueue]
      /\ priorityQueue'[lh][p] = f
      /\ \A k \in LeafHubs, q \in Priorities :
             k # lh \/ q # p => priorityQueue'[k][q] = priorityQueue[k][q]
      /\ \A k \in LeafHubs \ {lh} : priorityQueue'[k] = priorityQueue[k]
  <2>1. priorityQueue' = [priorityQueue EXCEPT ![lh][p] = f]
    BY <1>1
  <2>2. f \in Element /\ TypeOK
    BY <1>0, <1>6
  <2> HIDE DEF f
  <2> QED
    BY <2>1, <2>2, OneElementChanges
<1>8. \A v \in Workers : job[v] # Nil => job[v].leafHub # lh
  <2>1. ~UnitInProcess(priorityQueue[lh])
    BY <1>0, <1>1, <1>2 DEF DispatcherHolds, AnnouncedOnce
  <2>2. \A v \in Workers : job[v] # Nil => job[v].priority \in Priorities
    BY <1>0 DEF TypeOK, Job
  <2> QED
    BY <1>0, <2>1, <2>2 DEF JobInv, JobOK, UnitInProcess
<1>9. job \in [Workers -> Job \cup {Nil}] /\ job'[w] = j
      /\ \A v \in Workers : v # w => job'[v] = job[v]
  BY <1>0, <1>1, <1>2 DEF TypeOK
<1>10. TypeOK'
  <2>1. job' \in [Workers -> Job \cup {Nil}]
    BY <1>1, <1>2, <1>5, <1>9
  <2>2. dispatcher' \in [pc : DispatcherStates, unit : LeafHubs \cup {Nil},
                         worker : Workers \cup {Nil}]
    BY <1>1 DEF DispatcherStates
  <2>3. isInReadyQueue' \in [LeafHubs -> BOOLEAN]
    BY <1>0, <1>1 DEF TypeOK
  <2> QED
    BY <1>0, <1>1, <1>7, <2>1, <2>2, <2>3 DEF TypeOK
<1> HIDE DEF j, f
<1>11. AnnouncedOnce'
  <2>1. \A i \in 1 .. Len(readyQueue) : readyQueue[i] \in LeafHubs /\ readyQueue[i] # lh
    BY <1>0, <1>2 DEF AnnouncedOnce, TypeOK
  <2>2. \A k \in LeafHubs \ {lh} : isInReadyQueue'[k] = isInReadyQueue[k]
    BY <1>0, <1>1 DEF TypeOK
  <2>3. ~isInReadyQueue'[lh]
    BY <1>0, <1>1, <1>2 DEF TypeOK
  <2>4. \A k \in LeafHubs : isInReadyQueue'[k] => ~UnitInProcess(priorityQueue'[k])
    <3> TAKE k \in LeafHubs
    <3>1. CASE k = lh
      BY <2>3, <3>1
    <3>2. CASE k # lh
      BY <1>0, <1>7, <2>2, <3>2 DEF AnnouncedOnce
    <3> QED
      BY <3>1, <3>2
  <2>5. dispatcher'.unit = Nil /\ readyQueue' = readyQueue
    BY <1>1
  <2>6. \A i \in 1 .. Len(readyQueue) :
           isInReadyQueue'[readyQueue[i]] /\ Nil # readyQueue[i]
    BY <1>0, <2>1, <2>2 DEF AnnouncedOnce
  <2> QED
    BY <1>0, <2>4, <2>5, <2>6 DEF AnnouncedOnce
<1>12. DispatcherHolds' /\ WorkerHolds'
  <2>1. DispatcherHolds'
    BY <1>1 DEF DispatcherHolds
  <2>2. worker[w] = "select" /\ w \notin dbWorkers
    BY <1>0, <1>2 DEF WorkerHolds
  <2>3. dispatcher'.worker = Nil
    BY <1>1
  <2> QED
    BY <1>0, <1>1, <1>2, <1>9, <2>1, <2>2, <2>3 DEF WorkerHolds
<1>13. ElementInv'
  <2> SUFFICES ASSUME NEW k \in LeafHubs, NEW q \in Priorities
               PROVE  ElementOK(k, q)'
    BY DEF ElementInv
  <2>0. ElementOK(k, q)
    BY <1>0 DEF ElementInv
  <2>1. CASE k = lh /\ q = p
    BY <1>1, <1>3, <1>6, <1>7, <2>1 DEF ElementOK
  <2>2. CASE k # lh \/ q # p
    <3>1. priorityQueue'[k][q] = priorityQueue[k][q]
      BY <1>7, <2>2
    <3>2. UNCHANGED <<metadata, stored, delivered>>
      BY <1>1
    <3> QED
      BY <2>0, <3>1, <3>2 DEF ElementOK
  <2> QED
    BY <2>1, <2>2
<1>14. JobInv'
  <2> SUFFICES ASSUME NEW v \in Workers, job'[v] # Nil
               PROVE  /\ JobOK(job[v], job[v].leafHub, job[v].priority)'
                      /\ worker'[v] = "succeeded" =>
                           stored'[job'[v].leafHub][job'[v].priority]
                              = job'[v].bundle.generation
    BY DEF JobInv
  <2>1. CASE v = w
    <3>1. /\ j.leafHub = lh /\ j.priority = p /\ j.bundle = e.bundle
          /\ j.bundleMetadata = e.bundleMetadata
      BY DEF j
    <3>2. dependency[p] # Nil => e.bundle.dependencyGeneration <= stored[lh][dependency[p]]
      <4> SUFFICES ASSUME dependency[p] # Nil
                   PROVE  e.bundle.dependencyGeneration <= stored[lh][dependency[p]]
        OBVIOUS
      <4>1. dependency[p] \in Priorities
        OBVIOUS
      <4>2. e.bundle.dependencyGeneration
               <= priorityQueue[lh][dependency[p]].lastProcessedBundleGeneration
        BY <1>1 DEF IsReady, CheckDependency
      <4>3. priorityQueue[lh][dependency[p]].lastProcessedBundleGeneration
               <= stored[lh][dependency[p]]
        BY <1>0, <1>2, <4>1 DEF ElementInv, ElementOK
      <4>4. /\ priorityQueue[lh][dependency[p]].lastProcessedBundleGeneration \in Nat
            /\ stored[lh][dependency[p]] \in Nat
        BY <1>0, <1>2, <4>1 DEF TypeOK, PriorityQueue, Element
      <4>5. e.bundle.dependencyGeneration \in Nat
        BY <1>4 DEF Bundle
      <4> QED
        BY <4>2, <4>3, <4>4, <4>5
    <3>3. worker'[v] = "select"
      BY <1>0, <1>1, <1>2, <2>1 DEF WorkerHolds
    <3>4. job'[v] = j
      BY <1>9, <2>1
    <3>5. JobOK(job[v], lh, p)'
      BY <1>1, <1>4, <1>6, <1>7, <3>1, <3>2, <3>4 DEF JobOK
    <3> QED
      BY <3>1, <3>3, <3>4, <3>5
  <2>2. CASE v # w
    <3>1. job'[v] = job[v] /\ job[v] # Nil /\ job[v] \in Job
      BY <1>9, <2>2
    <3>2. job[v].leafHub \in LeafHubs \ {lh}
      BY <1>8, <3>1 DEF Job
    <3>3. priorityQueue'[job[v].leafHub] = priorityQueue[job[v].leafHub]
      BY <1>7, <3>2
    <3>4. /\ JobOK(job[v], job[v].leafHub, job[v].priority)
          /\ worker[v] = "succeeded" =>
                 stored[job[v].leafHub][job[v].priority] = job[v].bundle.generation
      BY <1>0, <3>1 DEF JobInv
    <3> QED
      BY <1>1, <3>1, <3>3, <3>4 DEF JobOK
  <2> QED
    BY <2>1, <2>2
<1>15. OneJobPerLeafHub'
  <2>1. j.leafHub = lh
    BY DEF j
  <2> QED
    BY <1>0, <1>8, <1>9, <2>1 DEF OneJobPerLeafHub
<1> QED
  BY <1>10, <1>11, <1>12, <1>13, <1>14, <1>15 DEF Inv

\* A worker makes itself available.
LEMMA RegisterInv == ASSUME Inv, NEW w \in Workers, Register(w) PROVE Inv'
<1> USE PipelineAssumption DEF Register, unitVars
<1>1. TypeOK'
  BY DEF Inv, TypeOK, WorkerStates
<1>2. AnnouncedOnce' /\ DispatcherHolds'
  BY DEF Inv, AnnouncedOnce, DispatcherHolds
<1>3. WorkerHolds'
  BY DEF Inv, TypeOK, WorkerHolds
<1>4. \A v \in Workers : worker'[v] = "succeeded" => worker[v] = "succeeded"
  BY DEF Inv, TypeOK
<1> QED
  BY <1>1, <1>2, <1>3, <1>4, DataUnchanged DEF Inv

\* A handler that writes moves the stored generation of its type up to the one
\* of its bundle; no other job has this leaf hub.
LEMMA WriteInv ==
    ASSUME Inv, NEW w \in Workers, HasJob(w), stored' = Write(job[w]),
           NEW outcome \in {"succeeded", "failed"},
           worker' = [worker EXCEPT ![w] = outcome],
           UNCHANGED <<unitVars, readyQueue, dispatcher, dbWorkers, job, delivered>>
    PROVE  Inv' /\ \A lh \in LeafHubs, p \in Priorities : stored'[lh][p] >= stored[lh][p]
<1> USE UnitAssumption, PipelineAssumption DEF unitVars
<1>0. TypeOK /\ AnnouncedOnce /\ DispatcherHolds /\ WorkerHolds /\ ElementInv /\ JobInv
      /\ OneJobPerLeafHub
  BY DEF Inv
<1>1. job[w] # Nil /\ worker[w] = "select" /\ job[w] \in Job
  BY <1>0 DEF HasJob, TypeOK
<1>s. SUFFICES ASSUME NEW k \in LeafHubs, NEW q \in Priorities, NEW g \in Nat,
                      k = job[w].leafHub, q = job[w].priority, g = job[w].bundle.generation
               PROVE  Inv' /\ \A lh \in LeafHubs, p \in Priorities :
                                  stored'[lh][p] >= stored[lh][p]
  BY <1>1 DEF Job, Bundle
<1>2. stored \in [LeafHubs -> [Priorities -> Nat]] /\ JobOK(job[w], k, q)
  BY <1>0, <1>1, <1>s DEF TypeOK, JobInv
<1>3. /\ stored' \in [LeafHubs -> [Priorities -> Nat]]
      /\ stored'[k][q] = g
      /\ \A lh \in LeafHubs, p \in Priorities :
             lh # k \/ p # q => stored'[lh][p] = stored[lh][p]
  BY <1>2, <1>s DEF Write
<1>4. \A lh \in LeafHubs, p \in Priorities : stored'[lh][p] >= stored[lh][p]
  <2> TAKE lh \in LeafHubs, p \in Priorities
  <2>1. stored[lh][p] \in Nat
    BY <1>2
  <2>2. stored[k][q] <= g
    BY <1>2, <1>s DEF JobOK
  <2> QED
    BY <1>3, <2>1, <2>2
<1>5. worker'[w] = outcome /\ (\A v \in Workers : v # w => worker'[v] = worker[v])
      /\ worker' \in [Workers -> WorkerStates]
  BY <1>0 DEF TypeOK, WorkerStates
<1>6. TypeOK'
  BY <1>0, <1>3, <1>5 DEF TypeOK
<1>7. AnnouncedOnce' /\ DispatcherHolds' /\ OneJobPerLeafHub'
  BY <1>0 DEF AnnouncedOnce, DispatcherHolds, OneJobPerLeafHub
<1>8. WorkerHolds'
  BY <1>0, <1>1, <1>5 DEF WorkerHolds
<1>9. ElementInv'
  <2> SUFFICES ASSUME NEW lh \in LeafHubs, NEW p \in Priorities
               PROVE  ElementOK(lh, p)'
    BY DEF ElementInv
  <2>0. ElementOK(lh, p)
    BY <1>0 DEF ElementInv
  <2>1. CASE lh = k /\ p = q
    <3>1. priorityQueue[k][q] \in Element
      BY <1>0 DEF TypeOK, PriorityQueue
    <3>2. /\ priorityQueue[k][q].bundle # Nil
          /\ g <= priorityQueue[k][q].bundle.generation
          /\ priorityQueue[k][q].lastProcessedBundleGeneration < g
          /\ priorityQueue[k][q].lastProcessedBundleGeneration \in Nat
      BY <1>2, <1>s, <3>1 DEF JobOK, Element
    <3> QED
      BY <1>3, <2>0, <2>1, <3>2 DEF ElementOK
  <2>2. CASE lh # k \/ p # q
    BY <1>3, <2>0, <2>2 DEF ElementOK
  <2> QED
    BY <2>1, <2>2
<1>10. JobInv'
  <2> SUFFICES ASSUME NEW v \in Workers, job[v] # Nil
               PROVE  /\ JobOK(job[v], job[v].leafHub, job[v].priority)'
                      /\ worker'[v] = "succeeded" =>
                           stored'[job[v].leafHub][job[v].priority] = job[v].bundle.generation
    BY DEF JobInv
  <2>1. CASE v = w
    <3>1. dependency[q] # Nil => job[w].bundle.dependencyGeneration <= stored'[k][dependency[q]]
      <4> SUFFICES ASSUME dependency[q] # Nil
                   PROVE  job[w].bundle.dependencyGeneration <= stored'[k][dependency[q]]
        OBVIOUS
      <4>1. dependency[q] \in Priorities
        OBVIOUS
      <4>2. job[w].bundle.dependencyGeneration <= stored[k][dependency[q]]
        BY <1>2 DEF JobOK
      <4>0. \A p \in Priorities : /\ stored[k][p] \in Nat
                                    /\ stored'[k][p] \in Nat
                                    /\ stored'[k][p] >= stored[k][p]
        BY <1>2, <1>3, <1>4
      <4>3. /\ stored[k][dependency[q]] \in Nat
            /\ stored'[k][dependency[q]] \in Nat
            /\ stored'[k][dependency[q]] >= stored[k][dependency[q]]
        BY <4>0, <4>1
      <4>4. job[w].bundle.dependencyGeneration \in Nat
        BY <1>1 DEF Job, Bundle
      <4> QED
        BY <4>2, <4>3, <4>4
    <3>2. stored'[k][q] = job[w].bundle.generation /\ job[w].bundle.generation \in Nat
      BY <1>3, <1>s
    <3>3. JobOK(job[w], k, q)'
      BY <1>2, <3>1, <3>2 DEF JobOK
    <3> QED
      BY <1>s, <2>1, <3>2, <3>3
  <2>2. CASE v # w
    <3>1. job[v] \in Job /\ job[v].leafHub # k
      BY <1>0, <1>1, <1>s, <2>2 DEF OneJobPerLeafHub, TypeOK
    <3>2. job[v].leafHub \in LeafHubs /\ job[v].priority \in Priorities
      BY <3>1 DEF Job
    <3>3. \A p \in Priorities : stored'[job[v].leafHub][p] = stored[job[v].leafHub][p]
      BY <1>3, <3>1, <3>2
    <3>4. dependency[job[v].priority] # Nil => dependency[job[v].priority] \in Priorities
      BY <3>2
    <3>5. JobOK(job[v], job[v].leafHub, job[v].priority)
      BY <1>0 DEF JobInv
    <3>6. JobOK(job[v], job[v].leafHub, job[v].priority)'
      BY <3>2, <3>3, <3>4, <3>5 DEF JobOK
    <3> QED
      BY <1>0, <1>5, <2>2, <3>2, <3>3, <3>6 DEF JobInv
  <2> QED
    BY <2>1, <2>2
<1> QED
  BY <1>4, <1>6, <1>7, <1>8, <1>9, <1>10 DEF Inv

\* A handler that fails without having written leaves everything but the worker.
LEMMA FailInv ==
    ASSUME Inv, NEW w \in Workers, HasJob(w), stored' = stored,
           worker' = [worker EXCEPT ![w] = "failed"],
           UNCHANGED <<unitVars, readyQueue, dispatcher, dbWorkers, job, delivered>>
    PROVE  Inv'
<1> USE PipelineAssumption DEF unitVars
<1>1. worker'[w] = "failed" /\ (\A v \in Workers : v # w => worker'[v] = worker[v])
      /\ worker' \in [Workers -> WorkerStates]
  BY DEF Inv, TypeOK, WorkerStates
<1>2. TypeOK'
  BY <1>1 DEF Inv, TypeOK
<1>3. AnnouncedOnce' /\ DispatcherHolds'
  BY DEF Inv, AnnouncedOnce, DispatcherHolds
<1>4. WorkerHolds'
  BY <1>1 DEF Inv, WorkerHolds, HasJob
<1>5. \A v \in Workers : worker'[v] = "succeeded" => worker[v] = "succeeded"
  BY <1>1
<1> QED
  BY <1>2, <1>3, <1>4, <1>5, DataUnchanged DEF Inv

\* ReportResult of worker w leaves element f behind, no longer in process.
LEMMA ReportInv ==
    ASSUME Inv, NEW w \in Workers, worker[w] \in {"succeeded", "failed"},
           NEW k \in LeafHubs, NEW q \in Priorities,
           job[w].leafHub = k, job[w].priority = q,
           NEW f \in Element, ~f.isInProcess,
           priorityQueue' = [priorityQueue EXCEPT ![k][q] = f],
           AddCUToReadyQueueIfNeeded(k), FinishJob(w),
           UNCHANGED <<metadata, dbWorkers, stored, delivered>>,
           ElementOK(k, q)'
    PROVE  Inv'
<1> USE UnitAssumption, PipelineAssumption
<1>0. TypeOK /\ AnnouncedOnce /\ DispatcherHolds /\ WorkerHolds /\ ElementInv /\ JobInv
      /\ OneJobPerLeafHub
  BY DEF Inv
<1>1. job[w] # Nil /\ job[w] \in Job /\ JobOK(job[w], k, q)
  BY <1>0 DEF WorkerHolds, TypeOK, JobInv
<1>2. /\ priorityQueue' \in [LeafHubs -> PriorityQueue]
      /\ priorityQueue'[k][q] = f
      /\ \A lh \in LeafHubs, p \in Priorities :
             lh # k \/ p # q => priorityQueue'[lh][p] = priorityQueue[lh][p]
      /\ \A lh \in LeafHubs \ {k} : priorityQueue'[lh] = priorityQueue[lh]
  <2>1. priorityQueue \in [LeafHubs -> [Priorities -> Element]]
    BY <1>0 DEF TypeOK, PriorityQueue
  <2>2. priorityQueue' \in [LeafHubs -> [Priorities -> Element]]
    BY <2>1
  <2> QED
    BY <2>1, <2>2 DEF PriorityQueue
<1>3. ~isInReadyQueue[k]
  BY <1>0, <1>1 DEF JobOK, AnnouncedOnce, UnitInProcess
<1>4. /\ isInReadyQueue' \in [LeafHubs -> BOOLEAN]
      /\ readyQueue' \in Seq(LeafHubs)
      /\ dispatcher' \in [pc : DispatcherStates, unit : LeafHubs \cup {Nil},
                          worker : Workers \cup {Nil}]
      /\ AnnouncedOnce' /\ DispatcherHolds'
      /\ dispatcher'.worker = dispatcher.worker
  BY <1>0, <1>2, <1>3, AddCU
<1>5. /\ job' \in [Workers -> Job \cup {Nil}] /\ job'[w] = Nil
      /\ worker' \in [Workers -> WorkerStates] /\ worker'[w] = "register"
      /\ \A v \in Workers \ {w} : job'[v] = job[v] /\ worker'[v] = worker[v]
  BY <1>0 DEF FinishJob, TypeOK, WorkerStates
<1>6. TypeOK'
  BY <1>0, <1>2, <1>4, <1>5 DEF TypeOK
<1>7. WorkerHolds'
  <2>1. w \notin dbWorkers /\ dispatcher.worker # w
    BY <1>0, <1>1 DEF WorkerHolds
  <2> QED
    BY <1>0, <1>4, <1>5, <2>1 DEF WorkerHolds
<1>8. ElementInv'
  <2> SUFFICES ASSUME NEW lh \in LeafHubs, NEW p \in Priorities
               PROVE  ElementOK(lh, p)'
    BY DEF ElementInv
  <2>1. CASE lh = k /\ p = q
    BY <2>1
  <2>2. CASE lh # k \/ p # q
    <3>1. ElementOK(lh, p) /\ priorityQueue'[lh][p] = priorityQueue[lh][p]
      BY <1>0, <1>2, <2>2 DEF ElementInv
    <3> QED
      BY <3>1 DEF ElementOK
  <2> QED
    BY <2>1, <2>2
<1>9. JobInv'
  <2> SUFFICES ASSUME NEW v \in Workers, job'[v] # Nil
               PROVE  /\ JobOK(job[v], job[v].leafHub, job[v].priority)'
                      /\ worker'[v] = "succeeded" =>
                           stored'[job'[v].leafHub][job'[v].priority]
                              = job'[v].bundle.generation
    BY DEF JobInv
  <2>1. v # w /\ job'[v] = job[v] /\ worker'[v] = worker[v] /\ job[v] \in Job
    BY <1>5
  <2>2. job[v].leafHub \in LeafHubs \ {k}
    BY <1>0, <1>1, <2>1 DEF OneJobPerLeafHub, Job
  <2>3. priorityQueue'[job[v].leafHub] = priorityQueue[job[v].leafHub]
    BY <1>2, <2>2
  <2>4. /\ JobOK(job[v], job[v].leafHub, job[v].priority)
        /\ worker[v] = "succeeded" =>
               stored[job[v].leafHub][job[v].priority] = job[v].bundle.generation
    BY <1>0, <2>1 DEF JobInv
  <2> QED
    BY <2>1, <2>3, <2>4 DEF JobOK
<1>10. OneJobPerLeafHub'
  BY <1>0, <1>5 DEF OneJobPerLeafHub
<1> QED
  BY <1>4, <1>6, <1>7, <1>8, <1>9, <1>10 DEF Inv

\* The facts both outcomes of a job start from.
LEMMA ReportedJob ==
    ASSUME Inv, NEW w \in Workers, worker[w] \in {"succeeded", "failed"}
    PROVE  /\ job[w].leafHub \in LeafHubs /\ job[w].priority \in Priorities
           /\ job[w].bundle.generation \in Nat
           /\ JobOK(job[w], job[w].leafHub, job[w].priority)
           /\ ElementOK(job[w].leafHub, job[w].priority)
           /\ priorityQueue[job[w].leafHub][job[w].priority] \in Element
<1>1. job[w] # Nil /\ job[w] \in Job
  BY DEF Inv, WorkerHolds, TypeOK
<1>2. job[w].leafHub \in LeafHubs /\ job[w].priority \in Priorities
      /\ job[w].bundle.generation \in Nat
  BY <1>1 DEF Job, Bundle
<1>3. priorityQueue[job[w].leafHub][job[w].priority] \in Element
  BY <1>2 DEF Inv, TypeOK, PriorityQueue
<1> QED
  BY <1>1, <1>2, <1>3 DEF Inv, JobInv, ElementInv

\* A failed job leaves its bundle in memory, ready for a retry.
LEMMA ReportFailureInv == ASSUME Inv, NEW w \in Workers, ReportFailure(w) PROVE Inv'
<1>0. /\ job[w].leafHub \in LeafHubs /\ job[w].priority \in Priorities
      /\ ElementOK(job[w].leafHub, job[w].priority)
      /\ priorityQueue[job[w].leafHub][job[w].priority] \in Element
      /\ priorityQueue \in [LeafHubs -> [Priorities -> Element]]
  BY ReportedJob DEF ReportFailure, Inv, TypeOK, PriorityQueue
<1>s. SUFFICES ASSUME NEW k \in LeafHubs, NEW q \in Priorities,
                      k = job[w].leafHub, q = job[w].priority
               PROVE  Inv'
  BY <1>0
<1> DEFINE e == priorityQueue[k][q]
           f == [e EXCEPT !.isInProcess = FALSE]
<1>1. /\ f \in Element /\ ~f.isInProcess
      /\ f.bundle = e.bundle /\ f.bundleMetadata = e.bundleMetadata
      /\ f.lastProcessedBundleGeneration = e.lastProcessedBundleGeneration
  BY <1>0, <1>s DEF Element
<1>2. /\ worker[w] \in {"succeeded", "failed"}
      /\ priorityQueue' = [priorityQueue EXCEPT ![k][q] = f]
      /\ AddCUToReadyQueueIfNeeded(k) /\ FinishJob(w)
      /\ UNCHANGED <<metadata, dbWorkers, stored, delivered>>
  BY <1>s DEF ReportFailure
<1>3. priorityQueue'[k][q] = f
  BY <1>0, <1>2
<1> HIDE DEF f
<1>4. ElementOK(k, q)'
  BY <1>0, <1>1, <1>2, <1>3, <1>s DEF ElementOK
<1> QED
  BY <1>1, <1>2, <1>4, <1>s, ReportInv

\* A job that succeeded is recorded as processed; its bundle is dropped unless a
\* newer one replaced it meanwhile.
LEMMA ReportSuccessInv == ASSUME Inv, NEW w \in Workers, ReportSuccess(w) PROVE Inv'
<1> USE UnitAssumption
<1>0. /\ job[w].leafHub \in LeafHubs /\ job[w].priority \in Priorities
      /\ job[w].bundle.generation \in Nat
      /\ JobOK(job[w], job[w].leafHub, job[w].priority)
      /\ ElementOK(job[w].leafHub, job[w].priority)
      /\ priorityQueue[job[w].leafHub][job[w].priority] \in Element
      /\ worker[w] = "succeeded"
  BY ReportedJob DEF ReportSuccess
<1>s. SUFFICES ASSUME NEW k \in LeafHubs, NEW q \in Priorities, NEW g \in Nat,
                      k = job[w].leafHub, q = job[w].priority, g = job[w].bundle.generation
               PROVE  Inv'
  BY <1>0
<1> DEFINE e == priorityQueue[k][q]
           f == ProcessedElement(e, g)
<1>1. e \in Element /\ e.bundle \in Bundle /\ e.bundle.generation \in Nat
      /\ e.lastProcessedBundleGeneration \in Nat
      /\ g <= e.bundle.generation /\ e.lastProcessedBundleGeneration < g
      /\ metadata[k][q][job[w].bundleMetadata] = g
  BY <1>0, <1>s DEF JobOK, Element, Bundle
<1>2. stored[k][q] = g /\ priorityQueue \in [LeafHubs -> [Priorities -> Element]]
  BY <1>0, <1>s DEF Inv, JobInv, WorkerHolds, TypeOK, PriorityQueue
<1>3. /\ f \in Element /\ ~f.isInProcess
      /\ f.lastProcessedBundleGeneration = g
      /\ g = e.bundle.generation => f.bundle = Nil
      /\ g # e.bundle.generation =>
             f.bundle = e.bundle /\ f.bundleMetadata = e.bundleMetadata
  BY <1>1 DEF ProcessedElement, Element
<1> HIDE DEF f
<1>4. /\ worker[w] \in {"succeeded", "failed"}
      /\ priorityQueue' = [priorityQueue EXCEPT ![k][q] = f]
      /\ AddCUToReadyQueueIfNeeded(k) /\ FinishJob(w)
      /\ UNCHANGED <<metadata, dbWorkers, stored, delivered>>
  BY <1>1, <1>s DEF ReportSuccess, f
<1>5. priorityQueue'[k][q] = f
  BY <1>2, <1>3, <1>4
<1>6. ElementOK(k, q)'
  <2>1. /\ e.bundle # Nil /\ ElementOK(k, q)
        /\ stored'[k][q] = g /\ delivered'[k][q] = delivered[k][q]
        /\ metadata'[k][q] = metadata[k][q]
    BY <1>0, <1>1, <1>2, <1>4, <1>s
  <2>2. CASE g = e.bundle.generation
    BY <1>1, <1>3, <1>5, <2>1, <2>2 DEF ElementOK
  <2>3. CASE g # e.bundle.generation
    BY <1>1, <1>3, <1>5, <2>1, <2>3 DEF ElementOK
  <2> QED
    BY <2>2, <2>3
<1> QED
  BY <1>3, <1>4, <1>6, <1>s, ReportInv

\* Both outcomes of a handler, and that neither makes the database forget.
LEMMA HandlerInv ==
    ASSUME Inv, NEW w \in Workers, HandlerSucceeds(w) \/ HandlerFails(w)
    PROVE  Inv' /\ \A lh \in LeafHubs, p \in Priorities : stored'[lh][p] >= stored[lh][p]
<1>1. CASE HandlerSucceeds(w)
  BY <1>1, WriteInv DEF HandlerSucceeds
<1>2. CASE HandlerFails(w)
  <2>0. HasJob(w) /\ worker' = [worker EXCEPT ![w] = "failed"]
        /\ UNCHANGED <<unitVars, readyQueue, dispatcher, dbWorkers, job, delivered>>
    BY <1>2 DEF HandlerFails
  <2>1. CASE stored' = Write(job[w])
    BY <2>0, <2>1, WriteInv
  <2>2. CASE stored' = stored
    <3>1. Inv'
      BY <2>0, <2>2, FailInv
    <3> QED
      BY <2>2, <3>1 DEF Inv, TypeOK
  <2> QED
    BY <1>2, <2>1, <2>2 DEF HandlerFails
<1> QED
  BY <1>1, <1>2

\* Inv is inductive: one step per action.
LEMMA StepInv == Inv /\ [Next]_vars => Inv'
<1> SUFFICES ASSUME Inv, [Next]_vars PROVE Inv'
    OBVIOUS
<1>1. CASE UNCHANGED vars
  BY <1>1, StutterInv
<1>2. ASSUME NEW lh \in LeafHubs, NEW p \in Priorities, NEW b \in bundles[p],
             InsertNewer(lh, p, b)
      PROVE  Inv'
  BY <1>2, InsertNewerInv
<1>3. ASSUME NEW lh \in LeafHubs, NEW p \in Priorities, NEW b \in bundles[p],
             InsertOld(lh, p, b)
      PROVE  Inv'
  BY <1>3, InsertOldInv
<1>4. CASE DispatcherWait
  BY <1>4, DispatcherWaitInv
<1>5. CASE BlockingDequeue
  BY <1>5, BlockingDequeueInv
<1>6. ASSUME NEW w \in Workers, Acquire(w) PROVE Inv'
  BY <1>6, AcquireInv
<1>7. ASSUME NEW p \in Priorities, GetNext(p) PROVE Inv'
  BY <1>7, GetNextInv
<1>8. CASE GetNextFails
  BY <1>8, GetNextFailsInv
<1>9. ASSUME NEW w \in Workers, WorkerStep(w) PROVE Inv'
  BY <1>9, RegisterInv, HandlerInv, ReportSuccessInv, ReportFailureInv DEF WorkerStep
<1> QED
  BY <1>1, <1>2, <1>3, <1>4, <1>5, <1>6, <1>7, <1>8, <1>9
     DEF Next, TransportStep, DispatcherStep

\* Every reachable state satisfies the inductive invariant.
THEOREM Invariance == Spec => []Inv
<1>1. Init => Inv
  BY InitInv
<1>2. Inv /\ [Next]_vars => Inv'
  BY StepInv
<1> QED
  BY <1>1, <1>2, PTL DEF Spec

\* The state of the units, the queue, the dispatcher, the workers and the
\* database is always of the declared type.
THEOREM TypeCorrect == Spec => []TypeOK
<1>1. Inv => TypeOK
  BY DEF Inv
<1> QED
  BY <1>1, Invariance, PTL

\* Whatever the number of workers, two of them never handle bundles of the same
\* leaf hub at the same time ("allow CU to appear only once in RQ/processing").
THEOREM SerialPerLeafHub == Spec => []OneJobPerLeafHub
<1>1. Inv => OneJobPerLeafHub
  BY DEF Inv
<1> QED
  BY <1>1, Invariance, PTL

\* A handler only gets bundles newer than what was already handled.
THEOREM HandlersSeeNewerBundles == Spec => []HandledBundleIsNewer
<1>1. Inv => HandledBundleIsNewer
  <2> SUFFICES ASSUME Inv, NEW w \in Workers, job[w] # Nil
               PROVE  job[w].bundle.generation >
                         priorityQueue[job[w].leafHub][job[w].priority].lastProcessedBundleGeneration
    BY DEF HandledBundleIsNewer
  <2>1. job[w] \in Job /\ JobOK(job[w], job[w].leafHub, job[w].priority)
    BY DEF Inv, TypeOK, JobInv
  <2>2. job[w].bundle.generation \in Nat /\ job[w].leafHub \in LeafHubs
        /\ job[w].priority \in Priorities
    BY <2>1 DEF Job, Bundle
  <2>3. priorityQueue[job[w].leafHub][job[w].priority].lastProcessedBundleGeneration \in Nat
    BY <2>2 DEF Inv, TypeOK, PriorityQueue, Element
  <2> QED
    BY <2>1, <2>2, <2>3 DEF JobOK
<1> QED
  BY <1>1, Invariance, PTL

\* A dependant bundle is handled only when the database has its base.
THEOREM DependenciesFirst == Spec => []DependencyHandledFirst
<1>1. Inv => DependencyHandledFirst
  BY DEF Inv, JobInv, JobOK, DependencyHandledFirst
<1> QED
  BY <1>1, Invariance, PTL

\* Conflation never loses the newest bundle of any type of any leaf hub.
THEOREM ConflationKeepsNewest == Spec => []NewestBundleSurvives
<1>1. Inv => NewestBundleSurvives
  BY DEF Inv, ElementInv, ElementOK, NewestBundleSurvives
<1> QED
  BY <1>1, Invariance, PTL

\* What a unit remembers as processed is in the database.
THEOREM ProcessedBundlesAreStored == Spec => []ProcessedIsStored
<1>1. Inv => ProcessedIsStored
  BY DEF Inv, ElementInv, ElementOK, ProcessedIsStored
<1> QED
  BY <1>1, Invariance, PTL

\* A worker reports with the metadata of the bundle it was given, and finds a
\* bundle in memory to compare it with (the NOTICE in insert, ReportResult).
THEOREM MetadataIsStable == Spec => [](JobMetadataMatchesBundle /\ BundleOutlivesJob)
<1>1. Inv => JobMetadataMatchesBundle
  BY DEF Inv, JobInv, JobOK, JobMetadataMatchesBundle
<1>2. Inv => BundleOutlivesJob
  <2> SUFFICES ASSUME Inv, NEW w \in Workers, job[w] # Nil
               PROVE  LET b == priorityQueue[job[w].leafHub][job[w].priority].bundle
                      IN  b # Nil /\ b.generation >= job[w].bundle.generation
    BY DEF BundleOutlivesJob
  <2>1. job[w] \in Job /\ JobOK(job[w], job[w].leafHub, job[w].priority)
    BY DEF Inv, TypeOK, JobInv
  <2>2. job[w].bundle.generation \in Nat /\ job[w].leafHub \in LeafHubs
        /\ job[w].priority \in Priorities
    BY <2>1 DEF Job, Bundle
  <2>3. priorityQueue[job[w].leafHub][job[w].priority] \in Element
    BY <2>2 DEF Inv, TypeOK, PriorityQueue
  <2>4. priorityQueue[job[w].leafHub][job[w].priority].bundle.generation \in Nat
    BY <2>1, <2>3 DEF JobOK, Element, Bundle
  <2> QED
    BY <2>1, <2>2, <2>4 DEF JobOK
<1> QED
  BY <1>1, <1>2, Invariance, PTL

\* Only handlers touch the database, and no handler takes it back to an older
\* generation of a leaf hub's bundle.
THEOREM StoredIsMonotonic == Spec => StoredNeverRegresses
<1> DEFINE Grows == \A lh \in LeafHubs, p \in Priorities : stored'[lh][p] >= stored[lh][p]
<1>1. ASSUME Inv, [Next]_vars PROVE [Grows]_vars
  <2>1. CASE stored' = stored
    BY <1>1, <2>1 DEF Inv, TypeOK
  <2>2. ASSUME NEW w \in Workers, HandlerSucceeds(w) \/ HandlerFails(w) PROVE Grows
    BY <1>1, <2>2, HandlerInv
  <2>3. CASE UNCHANGED vars
    BY <2>3
  <2>4. CASE Next
    <3>1. stored' = stored \/ \E w \in Workers : HandlerSucceeds(w) \/ HandlerFails(w)
      BY <2>4 DEF Next, TransportStep, InsertNewer, InsertOld, DispatcherStep, DispatcherWait,
                  BlockingDequeue, Acquire, GetNext, GetNextFails, WorkerStep, Register,
                  ReportSuccess, ReportFailure
    <3> QED
      BY <2>1, <2>2, <3>1
  <2> QED
    BY <1>1, <2>3, <2>4
<1> QED
  BY <1>1, Invariance, PTL DEF Spec, StoredNeverRegresses

\* Enqueue's Signal is never lost: the dispatcher sleeps only on an empty queue.
THEOREM NoLostWakeup == Spec => []DispatcherSleepsOnlyIfIdle
<1>1. Init => DispatcherSleepsOnlyIfIdle
  BY DEF Init, DispatcherSleepsOnlyIfIdle
<1>2. ASSUME TypeOK, DispatcherSleepsOnlyIfIdle, [Next]_vars
      PROVE  DispatcherSleepsOnlyIfIdle'
  <2> USE <1>2 DEF DispatcherSleepsOnlyIfIdle
  <2>0. dispatcher \in [pc : DispatcherStates, unit : LeafHubs \cup {Nil},
                        worker : Workers \cup {Nil}]
    BY DEF TypeOK
  <2>1. CASE UNCHANGED <<readyQueue, dispatcher>>
    BY <2>1
  <2>2. ASSUME NEW lh, AddCUToReadyQueueIfNeeded(lh)
        PROVE  DispatcherSleepsOnlyIfIdle'
    BY <2>0, <2>2 DEF AddCUToReadyQueueIfNeeded, Enqueue
  <2>3. CASE DispatcherStep
    <3>1. CASE DispatcherWait
      BY <3>1 DEF DispatcherWait
    <3>2. CASE BlockingDequeue
      BY <2>0, <3>2 DEF BlockingDequeue
    <3>3. ASSUME NEW w \in Workers, Acquire(w) PROVE DispatcherSleepsOnlyIfIdle'
      BY <2>0, <3>3 DEF Acquire
    <3>4. CASE DispatcherLoops
      BY <3>4 DEF DispatcherLoops
    <3>5. (\E p \in Priorities : GetNext(p)) \/ GetNextFails => DispatcherLoops
      BY DEF GetNext, GetNextFails
    <3> QED
      BY <2>3, <3>1, <3>2, <3>3, <3>4, <3>5 DEF DispatcherStep
  <2>4. CASE TransportStep
    BY <2>1, <2>2, <2>4 DEF TransportStep, InsertNewer, InsertOld
  <2>5. ASSUME NEW w \in Workers, WorkerStep(w) PROVE DispatcherSleepsOnlyIfIdle'
    BY <2>1, <2>2, <2>5 DEF WorkerStep, Register, HandlerSucceeds, HandlerFails,
                            ReportSuccess, ReportFailure
  <2> QED
    BY <2>1, <2>3, <2>4, <2>5 DEF Next, vars
<1> QED
  BY <1>1, <1>2, TypeCorrect, PTL DEF Spec

-----------------------------------------------------------------------------
(***************************************************************************)
(* Units and the dispatcher.  A unit that has announced itself keeps its   *)
(* promise to have a ready bundle if a bundle never needs a newer base     *)
(* than the older bundle that it replaces; without this the promise can be *)
(* broken and the unit is forgotten (UnitForgotten.cfg).                   *)
(***************************************************************************)
BasesDoNotMove ==
    \A p \in Priorities : \A b, c \in bundles[p] :
        b.generation < c.generation => c.dependencyGeneration <= b.dependencyGeneration

Announced(lh) ==
    \/ \E i \in 1 .. Len(readyQueue) : readyQueue[i] = lh
    \/ dispatcher.unit = lh

\* A unit has its flag set exactly while it is announced, and then it has a ready
\* bundle; one that has a ready bundle and nothing in process has its flag set.
UnitAnnounced(lh) ==
    /\ \A p \in Priorities : priorityQueue[lh][p].bundle # Nil => priorityQueue[lh][p].bundle \in bundles[p]
    /\ HasReadyBundle(priorityQueue[lh]) /\ ~UnitInProcess(priorityQueue[lh]) => isInReadyQueue[lh]
    /\ isInReadyQueue[lh] => HasReadyBundle(priorityQueue[lh]) /\ Announced(lh)

AnnouncedInv == \A lh \in LeafHubs : UnitAnnounced(lh)

\* Which elements wait for others depends on nothing but isInProcess.
LEMMA SameInProcess ==
    ASSUME NEW pq, NEW qq, NEW p,
           \A q \in Priorities : qq[q].isInProcess = pq[q].isInProcess
    PROVE  IsCurrentOrAnyDependencyInProcess(qq, p) = IsCurrentOrAnyDependencyInProcess(pq, p)
<1>1. ASSUME NEW f
      PROVE  [q \in Priorities |-> qq[q].isInProcess \/ (dependency[q] # Nil /\ f[dependency[q]])]
             = [q \in Priorities |-> pq[q].isInProcess \/ (dependency[q] # Nil /\ f[dependency[q]])]
  BY Zenon
<1> QED
  BY <1>1, Zenon DEF IsCurrentOrAnyDependencyInProcess

\* One element changes, seen from its unit.
OnlyChanges(lh, p, f) ==
    /\ priorityQueue' \in [LeafHubs -> PriorityQueue]
    /\ priorityQueue'[lh][p] = f
    /\ \A q \in Priorities \ {p} : priorityQueue'[lh][q] = priorityQueue[lh][q]
    /\ \A k \in LeafHubs \ {lh} : priorityQueue'[k] = priorityQueue[k]

LEMMA OneUnitChanges ==
    ASSUME TypeOK, NEW lh \in LeafHubs, NEW p \in Priorities, NEW f \in Element,
           priorityQueue' = [priorityQueue EXCEPT ![lh][p] = f]
    PROVE  OnlyChanges(lh, p, f)
<1>1. /\ priorityQueue' \in [LeafHubs -> PriorityQueue]
      /\ priorityQueue'[lh][p] = f
      /\ \A k \in LeafHubs, q \in Priorities :
             k # lh \/ q # p => priorityQueue'[k][q] = priorityQueue[k][q]
      /\ \A k \in LeafHubs \ {lh} : priorityQueue'[k] = priorityQueue[k]
  BY OneElementChanges, Zenon
<1>2. \A q \in Priorities \ {p} : priorityQueue'[lh][q] = priorityQueue[lh][q]
  BY <1>1
<1> QED
  BY <1>1, <1>2 DEF OnlyChanges

\* A newer bundle for the same base, or for an older one, is ready if the one that
\* it replaces was; others do not notice.
LEMMA ReadyStays ==
    ASSUME BasesDoNotMove, TypeOK, NEW lh \in LeafHubs, UnitAnnounced(lh), NEW p \in Priorities,
           NEW b \in bundles[p], NEW m, IsNewer(priorityQueue[lh][p], b),
           NEW qq, qq \in PriorityQueue,
           qq[p] = [priorityQueue[lh][p] EXCEPT !.bundle = b, !.bundleMetadata = m],
           \A q \in Priorities \ {p} : qq[q] = priorityQueue[lh][q],
           HasReadyBundle(priorityQueue[lh])
    PROVE  HasReadyBundle(qq)
<1> DEFINE pq == priorityQueue[lh]
<1>0. pq \in [Priorities -> Element]
  BY DEF TypeOK, PriorityQueue
<1>1. PICK r \in Priorities : IsReady(pq, r)
  BY DEF HasReadyBundle
<1>2. /\ qq[p].bundle = b /\ qq[p].isInProcess = pq[p].isInProcess
      /\ qq[p].lastProcessedBundleGeneration = pq[p].lastProcessedBundleGeneration
  BY <1>0 DEF Element
<1>3. \A q \in Priorities :
          /\ qq[q].isInProcess = pq[q].isInProcess
          /\ qq[q].lastProcessedBundleGeneration = pq[q].lastProcessedBundleGeneration
  BY <1>2
<1>4. b \in Bundle /\ b # Nil
  BY PipelineAssumption, UnitAssumption
<1> HIDE DEF pq
<1>5. IsCurrentOrAnyDependencyInProcess(qq, r) = IsCurrentOrAnyDependencyInProcess(pq, r)
  BY <1>3, SameInProcess
<1>6. qq[r].bundle # Nil
  BY <1>1, <1>2, <1>4 DEF IsReady, pq
<1>7. CheckDependency(qq, r)
  <2> SUFFICES ASSUME dependency[r] # Nil
               PROVE  /\ r \in DependantTypes
                      /\ qq[r].bundle.dependencyGeneration
                             <= qq[dependency[r]].lastProcessedBundleGeneration
      BY DEF CheckDependency
  <2>1. /\ r \in DependantTypes /\ pq[r].bundle # Nil
        /\ pq[r].bundle.dependencyGeneration <= pq[dependency[r]].lastProcessedBundleGeneration
    BY <1>1 DEF IsReady, CheckDependency
  <2>2. dependency[r] \in Priorities
    BY UnitAssumption
  <2>3. qq[dependency[r]].lastProcessedBundleGeneration = pq[dependency[r]].lastProcessedBundleGeneration
    BY <1>3, <2>2
  <2>4. CASE r # p
    BY <2>1, <2>3, <2>4 DEF pq
  <2>5. CASE r = p
    <3>1. pq[p].bundle \in bundles[p] /\ pq[p].bundle \in Bundle
      BY <2>1, <2>5, PipelineAssumption DEF UnitAnnounced, pq
    <3>2. pq[p].bundle.generation < b.generation
      BY <1>4, <2>1, <2>5, <3>1 DEF IsNewer, Bundle, pq
    <3>3. b.dependencyGeneration <= pq[p].bundle.dependencyGeneration
      BY <3>1, <3>2 DEF BasesDoNotMove
    <3>4. pq[dependency[r]].lastProcessedBundleGeneration \in Nat
      BY <1>0, <2>2 DEF Element
    <3>5. b.dependencyGeneration \in Nat /\ pq[p].bundle.dependencyGeneration \in Nat
      BY <1>4, <3>1 DEF Bundle
    <3>6. qq[r].bundle.dependencyGeneration = b.dependencyGeneration
      BY <1>2, <2>5
    <3>7. pq[p].bundle.dependencyGeneration <= pq[dependency[r]].lastProcessedBundleGeneration
      BY <2>1, <2>5
    <3>8. b.dependencyGeneration <= pq[dependency[r]].lastProcessedBundleGeneration
      BY <3>3, <3>4, <3>5, <3>7
    <3> QED
      BY <2>1, <2>3, <3>6, <3>8
  <2> QED
    BY <2>4, <2>5
<1> QED
  BY <1>1, <1>5, <1>6, <1>7 DEF HasReadyBundle, IsReady

\* addCUToReadyQueueIfNeeded announces a unit that became ready.
LEMMA AddCUAnnounces ==
    ASSUME TypeOK, AnnouncedInv, NEW lh \in LeafHubs,
           \A k \in LeafHubs \ {lh} : priorityQueue'[k] = priorityQueue[k],
           isInReadyQueue[lh] => HasReadyBundle(priorityQueue'[lh]),
           \A p \in Priorities :
               priorityQueue'[lh][p].bundle # Nil => priorityQueue'[lh][p].bundle \in bundles[p],
           AddCUToReadyQueueIfNeeded(lh)
    PROVE  AnnouncedInv'
<1>0. /\ isInReadyQueue \in [LeafHubs -> BOOLEAN] /\ readyQueue \in Seq(LeafHubs)
      /\ dispatcher \in [pc : DispatcherStates, unit : LeafHubs \cup {Nil}, worker : Workers \cup {Nil}]
  BY DEF TypeOK
<1> SUFFICES ASSUME NEW k \in LeafHubs PROVE UnitAnnounced(k)'
    BY DEF AnnouncedInv
<1>1. UnitAnnounced(k) /\ UnitAnnounced(lh)
  BY DEF AnnouncedInv
<1>2. CASE UNCHANGED <<readyQueue, dispatcher, isInReadyQueue>>
  <2>1. Announced(k)' <=> Announced(k)
    BY <1>2 DEF Announced
  <2>2. CASE k # lh
    BY <1>1, <1>2, <2>1, <2>2 DEF UnitAnnounced
  <2>3. CASE k = lh
    <3>1. HasReadyBundle(priorityQueue'[k]) /\ ~UnitInProcess(priorityQueue'[k]) => isInReadyQueue[k]
      BY <1>0, <1>2, <2>3 DEF AddCUToReadyQueueIfNeeded
    <3> QED
      BY <1>1, <1>2, <2>1, <2>3, <3>1 DEF UnitAnnounced
  <2> QED
    BY <2>2, <2>3
<1>3. CASE /\ HasReadyBundle(priorityQueue'[lh]) /\ Enqueue(lh)
           /\ isInReadyQueue' = [isInReadyQueue EXCEPT ![lh] = TRUE]
  <2>1. /\ Len(readyQueue') = Len(readyQueue) + 1 /\ Len(readyQueue) \in Nat
        /\ \A i \in 1 .. Len(readyQueue) : readyQueue'[i] = readyQueue[i]
        /\ readyQueue'[Len(readyQueue) + 1] = lh
    BY <1>0, <1>3 DEF Enqueue
  <2>2. dispatcher'.unit = dispatcher.unit
    BY <1>0, <1>3 DEF Enqueue
  <2>3. Announced(lh)'
    BY <2>1 DEF Announced
  <2>4. Announced(k) => Announced(k)'
    BY <2>1, <2>2 DEF Announced
  <2>5. isInReadyQueue'[lh] /\ (k # lh => isInReadyQueue'[k] = isInReadyQueue[k])
    BY <1>0, <1>3, Zenon
  <2>6. CASE k # lh
    BY <1>1, <2>4, <2>5, <2>6 DEF UnitAnnounced
  <2>7. CASE k = lh
    BY <1>3, <2>3, <2>5, <2>7 DEF UnitAnnounced
  <2> QED
    BY <2>6, <2>7
<1> QED
  BY <1>2, <1>3 DEF AddCUToReadyQueueIfNeeded

\* A step that leaves the units alone and takes none away from the dispatcher.
LEMMA AnnouncedFrame ==
    ASSUME AnnouncedInv, UNCHANGED <<priorityQueue, isInReadyQueue>>,
           \A lh \in LeafHubs : Announced(lh) => Announced(lh)'
    PROVE  AnnouncedInv'
BY DEF AnnouncedInv, UnitAnnounced

LEMMA InsertNewerAnnounces ==
    ASSUME BasesDoNotMove, Inv, AnnouncedInv, NEW lh \in LeafHubs, NEW p \in Priorities,
           NEW b \in bundles[p], InsertNewer(lh, p, b)
    PROVE  AnnouncedInv'
<1> DEFINE e == priorityQueue[lh][p]
<1>0. TypeOK /\ e \in Element /\ b \in Bundle /\ UnitAnnounced(lh)
  BY PipelineAssumption DEF Inv, TypeOK, PriorityQueue, AnnouncedInv
<1>1. PICK m \in MetadataRefs \cup {Nil} :
          priorityQueue' = [priorityQueue EXCEPT ![lh][p] = [@ EXCEPT !.bundle = b, !.bundleMetadata = m]]
  <2>1. PICK m \in IF UpdatesInPlace(e) THEN {e.bundleMetadata} ELSE MetadataRefs \ JobMetadata(lh, p) :
            priorityQueue' = [priorityQueue EXCEPT ![lh][p] = [@ EXCEPT !.bundle = b, !.bundleMetadata = m]]
    BY DEF InsertNewer
  <2>2. m \in MetadataRefs \cup {Nil}
    BY <1>0 DEF Element
  <2> QED
    BY <2>1, <2>2
<1> DEFINE f == [e EXCEPT !.bundle = b, !.bundleMetadata = m]
<1>2. f \in Element /\ f.bundle = b
  BY <1>0, <1>1 DEF Element
<1>3. priorityQueue' = [priorityQueue EXCEPT ![lh][p] = f]
  BY <1>0, <1>1 DEF TypeOK, PriorityQueue
<1> HIDE DEF f
<1>4. /\ priorityQueue' \in [LeafHubs -> PriorityQueue]
      /\ priorityQueue'[lh][p] = f
      /\ \A q \in Priorities \ {p} : priorityQueue'[lh][q] = priorityQueue[lh][q]
      /\ \A k \in LeafHubs \ {lh} : priorityQueue'[k] = priorityQueue[k]
  BY <1>0, <1>2, <1>3, OneUnitChanges, Zenon DEF OnlyChanges
<1>5. \A q \in Priorities : priorityQueue'[lh][q].bundle # Nil => priorityQueue'[lh][q].bundle \in bundles[q]
  BY <1>0, <1>2, <1>4 DEF UnitAnnounced
<1>6. isInReadyQueue[lh] => HasReadyBundle(priorityQueue'[lh])
  <2>1. isInReadyQueue[lh] => HasReadyBundle(priorityQueue[lh])
    BY <1>0 DEF UnitAnnounced
  <2>2. IsNewer(priorityQueue[lh][p], b) /\ priorityQueue'[lh] \in PriorityQueue
    BY <1>4 DEF InsertNewer
  <2> QED
    BY <1>0, <1>4, <2>1, <2>2, ReadyStays DEF f
<1> QED
  BY <1>0, <1>4, <1>5, <1>6, AddCUAnnounces DEF InsertNewer

\* A worker that reports finds the unit not announced: it was in process.
LEMMA ReportAnnounces ==
    ASSUME Inv, AnnouncedInv, NEW w \in Workers, ReportSuccess(w) \/ ReportFailure(w)
    PROVE  AnnouncedInv'
<1>0. /\ job[w].leafHub \in LeafHubs /\ job[w].priority \in Priorities
      /\ JobOK(job[w], job[w].leafHub, job[w].priority)
      /\ priorityQueue[job[w].leafHub][job[w].priority] \in Element
  BY ReportedJob DEF ReportSuccess, ReportFailure
<1>s. SUFFICES ASSUME NEW lh \in LeafHubs, NEW p \in Priorities, lh = job[w].leafHub, p = job[w].priority
               PROVE  AnnouncedInv'
  BY <1>0
<1> DEFINE e == priorityQueue[lh][p]
<1>1. TypeOK /\ e \in Element /\ e.isInProcess
  BY <1>0, <1>s DEF Inv, JobOK
<1>2. ~isInReadyQueue[lh]
  BY <1>1 DEF Inv, AnnouncedOnce, UnitInProcess
<1>3. AddCUToReadyQueueIfNeeded(lh)
  BY <1>s DEF ReportSuccess, ReportFailure
<1>4. PICK f \in Element :
          /\ priorityQueue' = [priorityQueue EXCEPT ![lh][p] = f]
          /\ f.bundle = Nil \/ f.bundle = e.bundle
  <2>1. CASE ReportFailure(w)
    <3>1. [e EXCEPT !.isInProcess = FALSE] \in Element /\ [e EXCEPT !.isInProcess = FALSE].bundle = e.bundle
      BY <1>1 DEF Element
    <3>2. priorityQueue' = [priorityQueue EXCEPT ![lh][p] = [e EXCEPT !.isInProcess = FALSE]]
      BY <1>s, <2>1 DEF ReportFailure
    <3> QED
      BY <3>1, <3>2
  <2>2. CASE ReportSuccess(w)
    <3> DEFINE g == metadata[lh][p][job[w].bundleMetadata]
    <3>1. g \in Nat
      BY <1>0, <1>s, <2>2, ReportedJob DEF JobOK, ReportSuccess
    <3>2. ProcessedElement(e, g) \in Element
      BY <1>1, <3>1 DEF ProcessedElement, Element
    <3>3. ProcessedElement(e, g).bundle \in {Nil, e.bundle}
      BY <1>1 DEF ProcessedElement, Element
    <3>4. priorityQueue' = [priorityQueue EXCEPT ![lh][p] = ProcessedElement(e, g)]
      BY <1>s, <2>2 DEF ReportSuccess
    <3> QED
      BY <3>2, <3>3, <3>4
  <2> QED
    BY <2>1, <2>2
<1>5. /\ priorityQueue'[lh][p] = f
      /\ \A q \in Priorities \ {p} : priorityQueue'[lh][q] = priorityQueue[lh][q]
      /\ \A k \in LeafHubs \ {lh} : priorityQueue'[k] = priorityQueue[k]
  <2>1. OnlyChanges(lh, p, f)
    BY <1>1, <1>4, OneUnitChanges
  <2> QED
    BY <2>1 DEF OnlyChanges
<1>6. \A q \in Priorities : priorityQueue'[lh][q].bundle # Nil => priorityQueue'[lh][q].bundle \in bundles[q]
  BY <1>4, <1>5 DEF AnnouncedInv, UnitAnnounced
<1> QED
  BY <1>1, <1>2, <1>3, <1>5, <1>6, AddCUAnnounces

LEMMA GetNextAnnounces ==
    ASSUME Inv, AnnouncedInv, NEW p \in Priorities, GetNext(p)
    PROVE  AnnouncedInv'
<1> DEFINE lh == dispatcher.unit
           e == priorityQueue[lh][p]
           f == [e EXCEPT !.isInProcess = TRUE]
<1>0. TypeOK /\ lh \in LeafHubs /\ e \in Element
  BY DEF GetNext, Inv, DispatcherHolds, TypeOK, PriorityQueue
<1>1. f \in Element /\ f.bundle = e.bundle /\ f.isInProcess
  BY <1>0 DEF Element
<1>2. /\ priorityQueue' = [priorityQueue EXCEPT ![lh][p] = f]
      /\ isInReadyQueue' = [isInReadyQueue EXCEPT ![lh] = FALSE]
      /\ UNCHANGED readyQueue /\ DispatcherLoops
  BY <1>0 DEF GetNext, TypeOK, PriorityQueue
<1>d. dispatcher'.unit = Nil
  BY <1>2 DEF DispatcherLoops
<1> HIDE DEF f, lh
<1>3. /\ priorityQueue'[lh][p] = f
      /\ \A q \in Priorities \ {p} : priorityQueue'[lh][q] = priorityQueue[lh][q]
      /\ \A k \in LeafHubs \ {lh} : priorityQueue'[k] = priorityQueue[k]
  <2>1. OnlyChanges(lh, p, f)
    BY <1>0, <1>1, <1>2, OneUnitChanges
  <2> QED
    BY <2>1 DEF OnlyChanges
<1>4. ~isInReadyQueue'[lh] /\ \A k \in LeafHubs \ {lh} : isInReadyQueue'[k] = isInReadyQueue[k]
  BY <1>0, <1>2, Zenon DEF TypeOK
<1> SUFFICES ASSUME NEW k \in LeafHubs PROVE UnitAnnounced(k)'
    BY DEF AnnouncedInv
<1>5. UnitAnnounced(k) /\ UnitAnnounced(lh)
  BY <1>0 DEF AnnouncedInv
<1>6. CASE k = lh
  <2>1. UnitInProcess(priorityQueue'[lh])
    BY <1>1, <1>3 DEF UnitInProcess
  <2>2. \A q \in Priorities : priorityQueue'[lh][q].bundle = priorityQueue[lh][q].bundle
    BY <1>1, <1>3
  <2> QED
    BY <1>4, <1>5, <1>6, <2>1, <2>2 DEF UnitAnnounced
<1>7. CASE k # lh
  <2>1. Announced(k) => Announced(k)'
    BY <1>2, <1>7 DEF Announced, lh
  <2> QED
    BY <1>3, <1>4, <1>5, <1>7, <2>1 DEF UnitAnnounced
<1> QED
  BY <1>6, <1>7

\* What the dispatcher holds is announced, so that GetNext does not fail.
LEMMA GetNextSucceeds ==
    ASSUME Inv, AnnouncedInv
    PROVE  GetNextFindsBundle
<1> SUFFICES ASSUME dispatcher.pc = "getNext" PROVE HasReadyBundle(priorityQueue[dispatcher.unit])
    BY DEF GetNextFindsBundle
<1>1. dispatcher.unit \in LeafHubs /\ isInReadyQueue[dispatcher.unit]
  BY DEF Inv, TypeOK, DispatcherHolds, AnnouncedOnce
<1> QED
  BY <1>1 DEF AnnouncedInv, UnitAnnounced

LEMMA DispatcherAnnounces ==
    ASSUME Inv, AnnouncedInv, DispatcherStep
    PROVE  AnnouncedInv'
<1>0. /\ readyQueue \in Seq(LeafHubs)
      /\ dispatcher \in [pc : DispatcherStates, unit : LeafHubs \cup {Nil}, worker : Workers \cup {Nil}]
      /\ dispatcher.pc = "dequeue" => dispatcher.unit = Nil
  BY DEF Inv, TypeOK, DispatcherHolds
<1>1. CASE DispatcherWait
  BY <1>0, <1>1, AnnouncedFrame DEF DispatcherWait, unitVars, Announced
<1>2. CASE BlockingDequeue
  <2>1. /\ UNCHANGED <<priorityQueue, isInReadyQueue>> /\ dispatcher'.unit = Head(readyQueue)
        /\ readyQueue' = Tail(readyQueue) /\ readyQueue # <<>> /\ dispatcher.unit = Nil
    BY <1>0, <1>2 DEF BlockingDequeue, unitVars
  <2>2. ASSUME NEW lh \in LeafHubs, Announced(lh) PROVE Announced(lh)'
    <3>1. PICK i \in 1 .. Len(readyQueue) : readyQueue[i] = lh
      BY <2>1, <2>2, PipelineAssumption DEF Announced
    <3>2. CASE i = 1
      BY <1>0, <2>1, <3>1, <3>2 DEF Announced
    <3>3. CASE i # 1
      <4>1. i - 1 \in 1 .. Len(readyQueue') /\ readyQueue'[i - 1] = lh
        BY <1>0, <2>1, <3>1, <3>3
      <4> QED
        BY <4>1 DEF Announced
    <3> QED
      BY <3>2, <3>3
  <2> QED
    BY <2>1, <2>2, AnnouncedFrame
<1>3. ASSUME NEW w \in Workers, Acquire(w) PROVE AnnouncedInv'
  BY <1>0, <1>3, AnnouncedFrame DEF Acquire, unitVars, Announced
<1>4. ASSUME NEW p \in Priorities, GetNext(p) PROVE AnnouncedInv'
  BY <1>4, GetNextAnnounces
<1>5. ~GetNextFails
  BY GetNextSucceeds DEF GetNextFails, GetNextFindsBundle
<1> QED
  BY <1>1, <1>2, <1>3, <1>4, <1>5 DEF DispatcherStep

LEMMA AnnouncedStep ==
    ASSUME BasesDoNotMove, Inv, AnnouncedInv, [Next]_vars
    PROVE  AnnouncedInv'
<1>1. CASE TransportStep
  <2>1. PICK lh \in LeafHubs, p \in Priorities : \E b \in bundles[p] : InsertNewer(lh, p, b) \/ InsertOld(lh, p, b)
    BY <1>1 DEF TransportStep
  <2>2. PICK b \in bundles[p] : InsertNewer(lh, p, b) \/ InsertOld(lh, p, b)
    BY <2>1
  <2>3. CASE InsertOld(lh, p, b)
    BY <2>3, AnnouncedFrame DEF InsertOld, unitVars, Announced
  <2> QED
    BY <2>2, <2>3, InsertNewerAnnounces
<1>2. CASE DispatcherStep
  BY <1>2, DispatcherAnnounces
<1>3. ASSUME NEW w \in Workers, WorkerStep(w) PROVE AnnouncedInv'
  <2>1. CASE Register(w) \/ HandlerSucceeds(w) \/ HandlerFails(w)
    BY <2>1, AnnouncedFrame DEF Register, HandlerSucceeds, HandlerFails, unitVars, Announced
  <2> QED
    BY <1>3, <2>1, ReportAnnounces DEF WorkerStep
<1>4. CASE UNCHANGED vars
  BY <1>4, AnnouncedFrame DEF vars, unitVars, Announced
<1> QED
  BY <1>1, <1>2, <1>3, <1>4 DEF Next

LEMMA AnnouncedInit == Init => AnnouncedInv
<1> SUFFICES ASSUME Init, NEW lh \in LeafHubs PROVE UnitAnnounced(lh)
    BY DEF AnnouncedInv
<1>1. ~isInReadyQueue[lh] /\ \A p \in Priorities : priorityQueue[lh][p].bundle = Nil
  BY DEF Init, EmptyElement
<1>2. ~HasReadyBundle(priorityQueue[lh])
  BY <1>1 DEF HasReadyBundle, IsReady
<1> QED
  BY <1>1, <1>2 DEF UnitAnnounced

LEMMA UnitsAreAnnounced ==
    ASSUME BasesDoNotMove
    PROVE  Spec => []AnnouncedInv
<1>1. Inv /\ AnnouncedInv /\ [Next]_vars => AnnouncedInv'
  BY AnnouncedStep
<1> QED
  BY <1>1, AnnouncedInit, Invariance, PTL DEF Spec

\* "CU adds itself to RQ only when it has ready to process bundle, therefore this
\* shouldn't happen" (GetNext): it does not, for bundles whose bases do not move.
THEOREM GetNextNeverFails ==
    ASSUME BasesDoNotMove
    PROVE  Spec => []GetNextFindsBundle
<1>1. Inv /\ AnnouncedInv => GetNextFindsBundle
  BY GetNextSucceeds
<1> QED
  BY <1>1, UnitsAreAnnounced, Invariance, PTL

\* addCUToReadyQueueIfNeeded lets the dispatcher know of every unit that has a
\* ready bundle and nothing in process, for bundles whose bases do not move.
THEOREM NoUnitIsForgotten ==
    ASSUME BasesDoNotMove
    PROVE  Spec => []DispatcherKnowsReadyUnits
<1>1. AnnouncedInv => DispatcherKnowsReadyUnits
  BY DEF AnnouncedInv, UnitAnnounced, Announced, DispatcherKnowsReadyUnits
<1> QED
  BY <1>1, UnitsAreAnnounced, PTL

-----------------------------------------------------------------------------
(***************************************************************************)
(* Proof that the pipeline implements SerialDelivery for every number of   *)
(* leaf hubs, workers and types of bundles: insert is Receive, GetNext is  *)
(* Start, a handler's write is Store, ReportResult is Succeed or Fail, and *)
(* every other step leaves the abstract state alone.                       *)
(***************************************************************************)

ActivityOf(j) == [priority |-> j.priority, bundle |-> j.bundle]

\* The abstract variables depend on the bundles and generations of the elements
\* and on the jobs only.
LEMMA Stutters ==
    ASSUME UNCHANGED <<priorityQueue, job, stored>>
    PROVE  UNCHANGED Serial!sdVars
BY DEF Serial!sdVars, heldBundles, processedGenerations, activities

\* The initial states correspond.
LEMMA InitRefines == Init => Serial!SDInit
<1> SUFFICES ASSUME Init PROVE Serial!SDInit
    OBVIOUS
<1>1. activities = [lh \in LeafHubs |-> {}]
  BY DEF Init, activities
<1> QED
  BY <1>1 DEF Init, EmptyElement, Serial!SDInit, heldBundles, processedGenerations

\* The activity of a leaf hub is the one job for it.
LEMMA OneActivity ==
    ASSUME Inv, NEW w \in Workers, job[w] # Nil
    PROVE  activities[job[w].leafHub] = {ActivityOf(job[w])}
<1>1. job[w].leafHub \in LeafHubs
  BY DEF Inv, TypeOK, Job
<1>2. \A v \in Workers : job[v] # Nil /\ job[v].leafHub = job[w].leafHub => v = w
  BY DEF Inv, OneJobPerLeafHub
<1> QED
  BY <1>1, <1>2 DEF activities, ActivityOf

\* A unit with nothing in process has no activity.
LEMMA NoActivity ==
    ASSUME Inv, NEW lh \in LeafHubs, ~UnitInProcess(priorityQueue[lh])
    PROVE  \A v \in Workers : job[v] # Nil => job[v].leafHub # lh
<1>1. \A v \in Workers : job[v] # Nil => job[v].priority \in Priorities
  BY DEF Inv, TypeOK, Job
<1> QED
  BY <1>1 DEF Inv, JobInv, JobOK, UnitInProcess

\* insert of a newer bundle is Receive: the unit's lastProcessedBundleGeneration and
\* bundle are the abstract processed and held.
LEMMA InsertNewerRefines ==
    ASSUME Inv, NEW lh \in LeafHubs, NEW p \in Priorities, NEW b \in bundles[p],
           InsertNewer(lh, p, b)
    PROVE  Serial!Receive(lh, p, b)
<1> DEFINE e == priorityQueue[lh][p]
<1>1. PICK m : priorityQueue' = [priorityQueue EXCEPT
                  ![lh][p] = [@ EXCEPT !.bundle = b, !.bundleMetadata = m]]
  BY DEF InsertNewer
<1>2. priorityQueue \in [LeafHubs -> [Priorities -> Element]] /\ e \in Element
  BY DEF Inv, TypeOK, PriorityQueue
<1>3. /\ priorityQueue'[lh][p].bundle = b
      /\ priorityQueue'[lh][p].lastProcessedBundleGeneration = e.lastProcessedBundleGeneration
      /\ \A k \in LeafHubs, q \in Priorities :
             k # lh \/ q # p => priorityQueue'[k][q] = priorityQueue[k][q]
  BY <1>1, <1>2 DEF Element
<1>4. heldBundles' = [heldBundles EXCEPT ![lh][p] = b]
  <2> DEFINE new == [k \in LeafHubs |-> [q \in Priorities |->
                        IF k = lh /\ q = p THEN b ELSE priorityQueue[k][q].bundle]]
  <2>1. heldBundles' = new
    BY <1>3 DEF heldBundles
  <2>2. [heldBundles EXCEPT ![lh][p] = b] = new
    BY DEF heldBundles
  <2> QED
    BY <2>1, <2>2
<1>5. processedGenerations' = processedGenerations
  BY <1>3 DEF processedGenerations
<1>6. UNCHANGED <<activities, stored>>
  BY DEF InsertNewer, activities
<1>7. heldBundles[lh][p] = e.bundle
      /\ processedGenerations[lh][p] = e.lastProcessedBundleGeneration
  BY DEF heldBundles, processedGenerations
<1> QED
  BY <1>4, <1>5, <1>6, <1>7 DEF Serial!Receive, InsertNewer, IsNewer

\* GetNext with RunAsync is Start: a unit the dispatcher holds has nothing in process,
\* so no worker has a job of its leaf hub, and checkDependency is Start's guard.
LEMMA GetNextRefines ==
    ASSUME Inv, NEW p \in Priorities, GetNext(p)
    PROVE  Serial!Start(dispatcher.unit, p)
<1> USE UnitAssumption, PipelineAssumption
<1>h. dispatcher.unit \in LeafHubs /\ dispatcher.worker \in Workers
      /\ ~UnitInProcess(priorityQueue[dispatcher.unit])
  BY DEF GetNext, Inv, DispatcherHolds, TypeOK, AnnouncedOnce
<1>s. SUFFICES ASSUME NEW lh \in LeafHubs, lh = dispatcher.unit,
                      NEW w \in Workers, w = dispatcher.worker
               PROVE  Serial!Start(lh, p)
  BY <1>h
<1> DEFINE e == priorityQueue[lh][p]
           j == [leafHub |-> lh, priority |-> p, bundle |-> e.bundle,
                 bundleMetadata |-> e.bundleMetadata]
<1>1. /\ IsReady(priorityQueue[lh], p)
      /\ priorityQueue' = [priorityQueue EXCEPT ![lh][p].isInProcess = TRUE]
      /\ job' = [job EXCEPT ![w] = j]
      /\ stored' = stored /\ job[w] = Nil
  BY <1>s DEF GetNext, IsNextReady
<1>2. priorityQueue \in [LeafHubs -> [Priorities -> Element]] /\ e \in Element
      /\ job \in [Workers -> Job \cup {Nil}]
  BY DEF Inv, TypeOK, PriorityQueue
<1>3. \A k \in LeafHubs, q \in Priorities :
         /\ priorityQueue'[k][q].bundle = priorityQueue[k][q].bundle
         /\ priorityQueue'[k][q].lastProcessedBundleGeneration
               = priorityQueue[k][q].lastProcessedBundleGeneration
  BY <1>1, <1>2 DEF Element
<1>4. heldBundles' = heldBundles /\ processedGenerations' = processedGenerations
  BY <1>3 DEF heldBundles, processedGenerations
<1>5. \A v \in Workers : job[v] # Nil => job[v].leafHub # lh
  BY <1>h, <1>s, NoActivity
<1>6. j # Nil /\ j.leafHub = lh /\ ActivityOf(j) = [priority |-> p, bundle |-> e.bundle]
  <2>1. Inv'
    BY GetNextInv
  <2>2. job' \in [Workers -> Job \cup {Nil}] /\ job'[w] = j
    BY <2>1, <1>1, <1>2 DEF Inv, TypeOK
  <2>3. ElementOK(lh, p) /\ e.bundle # Nil
    BY <1>1 DEF Inv, ElementInv, IsReady
  <2>4. j \in Job
    BY <1>2, <2>3 DEF ElementOK, Element, Job
  <2> QED
    BY <2>4 DEF ActivityOf
<1> HIDE DEF j
<1>7. /\ job'[w] = j
      /\ \A v \in Workers : v # w => job'[v] = job[v]
  BY <1>1, <1>2
<1>8. activities[lh] = {}
  BY <1>5 DEF activities
<1>9. activities' = [activities EXCEPT ![lh] = {ActivityOf(j)}]
  <2>1. activities'[lh] = {ActivityOf(j)}
    BY <1>5, <1>6, <1>7 DEF activities, ActivityOf
  <2>2. \A k \in LeafHubs \ {lh} : activities'[k] = activities[k]
    <3> TAKE k \in LeafHubs \ {lh}
    <3>1. {v \in Workers : job'[v] # Nil /\ job'[v].leafHub = k}
            = {v \in Workers : job[v] # Nil /\ job[v].leafHub = k}
      BY <1>1, <1>6, <1>7
    <3>2. \A v \in {u \in Workers : job[u] # Nil /\ job[u].leafHub = k} : job'[v] = job[v]
      BY <1>1, <1>7
    <3> QED
      BY <3>1, <3>2 DEF activities
  <2> QED
    BY <2>1, <2>2 DEF activities
<1>10. heldBundles[lh][p] = e.bundle
  BY DEF heldBundles
<1>11. dependency[p] # Nil =>
          e.bundle.dependencyGeneration <= processedGenerations[lh][dependency[p]]
  BY <1>1 DEF IsReady, CheckDependency, processedGenerations
<1>12. e.bundle # Nil
  BY <1>1 DEF IsReady
<1> QED
  BY <1>1, <1>4, <1>6, <1>8, <1>9, <1>10, <1>11, <1>12 DEF Serial!Start

\* A handler's write is Store.
LEMMA WriteRefines ==
    ASSUME Inv, NEW w \in Workers, HasJob(w), stored' = Write(job[w]),
           UNCHANGED <<priorityQueue, job>>
    PROVE  /\ job[w].leafHub \in LeafHubs
           /\ ActivityOf(job[w]) \in activities[job[w].leafHub]
           /\ Serial!Store(job[w].leafHub, ActivityOf(job[w]))
<1>1. job[w] # Nil /\ job[w].leafHub \in LeafHubs
  BY DEF HasJob, Inv, TypeOK, Job
<1>2. ActivityOf(job[w]) \in activities[job[w].leafHub]
  BY <1>1, OneActivity
<1>3. UNCHANGED <<heldBundles, processedGenerations, activities>>
  BY DEF heldBundles, processedGenerations, activities
<1>4. stored' = [stored EXCEPT ![job[w].leafHub][ActivityOf(job[w]).priority]
                    = ActivityOf(job[w]).bundle.generation]
  BY DEF Write, ActivityOf
<1> QED
  BY <1>1, <1>2, <1>3, <1>4 DEF Serial!Store

\* When a worker has reported, its leaf hub has no activity.
LEMMA ActivityEnds ==
    ASSUME Inv, NEW w \in Workers, job[w] # Nil, job' = [job EXCEPT ![w] = Nil]
    PROVE  activities' = [activities EXCEPT ![job[w].leafHub] = {}]
<1>1. job \in [Workers -> Job \cup {Nil}] /\ job[w].leafHub \in LeafHubs
  BY DEF Inv, TypeOK, Job
<1>s. SUFFICES ASSUME NEW lh \in LeafHubs, lh = job[w].leafHub
               PROVE  activities' = [activities EXCEPT ![lh] = {}]
  BY <1>1
<1>2. job'[w] = Nil /\ \A v \in Workers : v # w => job'[v] = job[v]
  BY <1>1
<1>3. \A v \in Workers : job[v] # Nil /\ job[v].leafHub = lh => v = w
  BY <1>s DEF Inv, OneJobPerLeafHub
<1>4. activities'[lh] = {}
  BY <1>2, <1>3 DEF activities
<1>5. \A k \in LeafHubs \ {lh} : activities'[k] = activities[k]
  <2> TAKE k \in LeafHubs \ {lh}
  <2>1. {v \in Workers : job'[v] # Nil /\ job'[v].leafHub = k}
          = {v \in Workers : job[v] # Nil /\ job[v].leafHub = k}
    BY <1>2, <1>s
  <2>2. \A v \in {u \in Workers : job[u] # Nil /\ job[u].leafHub = k} : job'[v] = job[v]
    BY <1>2, <1>s
  <2> QED
    BY <2>1, <2>2 DEF activities
<1> QED
  BY <1>4, <1>5 DEF activities

\* ReportResult with an error is Fail: only the job goes away.
LEMMA ReportFailureRefines ==
    ASSUME Inv, NEW w \in Workers, ReportFailure(w)
    PROVE  job[w].leafHub \in LeafHubs /\ Serial!Fail(job[w].leafHub)
<1>1. job[w] # Nil /\ job[w].leafHub \in LeafHubs /\ job[w].priority \in Priorities
      /\ priorityQueue \in [LeafHubs -> [Priorities -> Element]]
  BY DEF ReportFailure, Inv, WorkerHolds, TypeOK, Job, PriorityQueue
<1>2. activities[job[w].leafHub] # {}
  BY <1>1, OneActivity
<1>3. activities' = [activities EXCEPT ![job[w].leafHub] = {}]
  BY <1>1, ActivityEnds DEF ReportFailure, FinishJob
<1>4. \A k \in LeafHubs, q \in Priorities :
         /\ priorityQueue'[k][q].bundle = priorityQueue[k][q].bundle
         /\ priorityQueue'[k][q].lastProcessedBundleGeneration
               = priorityQueue[k][q].lastProcessedBundleGeneration
  <2>1. priorityQueue' = [priorityQueue EXCEPT
                             ![job[w].leafHub][job[w].priority].isInProcess = FALSE]
    BY DEF ReportFailure
  <2> QED
    BY <1>1, <2>1 DEF Element
<1>5. UNCHANGED <<heldBundles, processedGenerations, stored>>
  <2>1. stored' = stored
    BY DEF ReportFailure
  <2>2. heldBundles' = heldBundles
    BY <1>4 DEF heldBundles
  <2>3. processedGenerations' = processedGenerations
    BY <1>4 DEF processedGenerations
  <2> QED
    BY <2>1, <2>2, <2>3
<1> QED
  BY <1>1, <1>2, <1>3, <1>5 DEF Serial!Fail

\* ReportResult without an error is Succeed: the generation in the metadata is that of
\* the job's bundle, and it is the one that was stored.
LEMMA ReportSuccessRefines ==
    ASSUME Inv, NEW w \in Workers, ReportSuccess(w)
    PROVE  /\ job[w].leafHub \in LeafHubs
           /\ ActivityOf(job[w]) \in activities[job[w].leafHub]
           /\ Serial!Succeed(job[w].leafHub, ActivityOf(job[w]))
<1> USE UnitAssumption
<1>0. /\ job[w].leafHub \in LeafHubs /\ job[w].priority \in Priorities
      /\ job[w].bundle.generation \in Nat
      /\ JobOK(job[w], job[w].leafHub, job[w].priority)
      /\ worker[w] = "succeeded" /\ job[w] # Nil
  BY ReportedJob DEF ReportSuccess, Inv, WorkerHolds
<1>s. SUFFICES ASSUME NEW k \in LeafHubs, NEW q \in Priorities, NEW g \in Nat,
                      k = job[w].leafHub, q = job[w].priority, g = job[w].bundle.generation
               PROVE  /\ ActivityOf(job[w]) \in activities[k]
                      /\ Serial!Succeed(k, ActivityOf(job[w]))
  BY <1>0
<1> DEFINE e == priorityQueue[k][q]
           a == ActivityOf(job[w])
<1>1. priorityQueue \in [LeafHubs -> [Priorities -> Element]]
      /\ e \in Element /\ e.lastProcessedBundleGeneration < g
      /\ e.lastProcessedBundleGeneration \in Nat
      /\ metadata[k][q][job[w].bundleMetadata] = g
  <2>1. priorityQueue \in [LeafHubs -> [Priorities -> Element]]
    BY DEF Inv, TypeOK, PriorityQueue
  <2>2. e \in Element
    BY <2>1
  <2>3. e.lastProcessedBundleGeneration \in Nat
    BY <2>2 DEF Element
  <2> QED
    BY <1>0, <1>s, <2>1, <2>2, <2>3 DEF JobOK
<1>2. priorityQueue' = [priorityQueue EXCEPT ![k][q] = ProcessedElement(e, g)]
  BY <1>1, <1>s DEF ReportSuccess
<1>3. /\ priorityQueue'[k][q].bundle = IF g = e.bundle.generation THEN Nil ELSE e.bundle
      /\ priorityQueue'[k][q].lastProcessedBundleGeneration = g
      /\ \A lh \in LeafHubs, p \in Priorities :
             lh # k \/ p # q => priorityQueue'[lh][p] = priorityQueue[lh][p]
  BY <1>1, <1>2 DEF ProcessedElement, Element
<1>4. a.priority = q /\ a.bundle.generation = g
  BY <1>s DEF ActivityOf
<1>5. heldBundles' = [heldBundles EXCEPT ![k][q] = IF @.generation = g THEN Nil ELSE @]
  <2> DEFINE new == [lh \in LeafHubs |-> [p \in Priorities |->
                        IF lh = k /\ p = q
                        THEN IF e.bundle.generation = g THEN Nil ELSE e.bundle
                        ELSE priorityQueue[lh][p].bundle]]
  <2>1. heldBundles' = new
    BY <1>3 DEF heldBundles
  <2>2. [heldBundles EXCEPT ![k][q] = IF @.generation = g THEN Nil ELSE @] = new
    BY DEF heldBundles
  <2> QED
    BY <2>1, <2>2
<1>6. processedGenerations' = [processedGenerations EXCEPT ![k][q] = g]
  <2> DEFINE new == [lh \in LeafHubs |-> [p \in Priorities |->
                        IF lh = k /\ p = q THEN g
                        ELSE priorityQueue[lh][p].lastProcessedBundleGeneration]]
  <2>1. processedGenerations' = new
    BY <1>3 DEF processedGenerations
  <2>2. [processedGenerations EXCEPT ![k][q] = g] = new
    BY DEF processedGenerations
  <2> QED
    BY <2>1, <2>2
<1>7. activities' = [activities EXCEPT ![k] = {}]
  BY <1>0, <1>s, ActivityEnds DEF ReportSuccess, FinishJob
<1>8. a \in activities[k]
  BY <1>0, <1>s, OneActivity
<1>9. stored[k][q] = g /\ stored' = stored
  BY <1>0, <1>s DEF Inv, JobInv, ReportSuccess
<1> HIDE DEF a
<1>10. Serial!Succeed(k, a)
  BY <1>4, <1>5, <1>6, <1>7, <1>8, <1>9 DEF Serial!Succeed
<1> QED
  BY <1>8, <1>10 DEF a

\* Every step of the pipeline is a step of SerialDelivery or a stuttering step.
LEMMA StepRefines ==
    ASSUME Inv, [Next]_vars PROVE [Serial!SDNext]_(Serial!sdVars)
<1>1. CASE UNCHANGED vars
  BY <1>1, Stutters DEF vars, unitVars
<1>2. ASSUME NEW lh \in LeafHubs, NEW p \in Priorities, NEW b \in bundles[p],
             InsertNewer(lh, p, b)
      PROVE  Serial!SDNext
  BY <1>2, InsertNewerRefines DEF Serial!SDNext
<1>3. ASSUME NEW lh \in LeafHubs, NEW p \in Priorities, NEW b \in bundles[p],
             InsertOld(lh, p, b)
      PROVE  UNCHANGED Serial!sdVars
  BY <1>3, Stutters DEF InsertOld, unitVars
<1>4. CASE DispatcherWait \/ BlockingDequeue \/ (\E w \in Workers : Acquire(w)) \/ GetNextFails
  BY <1>4, Stutters DEF DispatcherWait, BlockingDequeue, Acquire, GetNextFails, unitVars
<1>5. ASSUME NEW p \in Priorities, GetNext(p) PROVE Serial!SDNext
  <2>1. dispatcher.unit \in LeafHubs
    BY <1>5 DEF GetNext, Inv, DispatcherHolds, TypeOK
  <2> QED
    BY <1>5, <2>1, GetNextRefines DEF Serial!SDNext
<1>6. ASSUME NEW w \in Workers, Register(w) PROVE UNCHANGED Serial!sdVars
  BY <1>6, Stutters DEF Register, unitVars
<1>7. ASSUME NEW w \in Workers, HandlerSucceeds(w) \/ HandlerFails(w)
      PROVE  [Serial!SDNext]_(Serial!sdVars)
  <2>0. HasJob(w) /\ UNCHANGED <<priorityQueue, job>>
        /\ (stored' = stored \/ stored' = Write(job[w]))
    BY <1>7 DEF HandlerSucceeds, HandlerFails, unitVars
  <2>1. CASE stored' = stored
    BY <2>0, <2>1, Stutters
  <2>2. CASE stored' = Write(job[w])
    <3>1. /\ job[w].leafHub \in LeafHubs
          /\ ActivityOf(job[w]) \in activities[job[w].leafHub]
          /\ Serial!Store(job[w].leafHub, ActivityOf(job[w]))
      BY <2>0, <2>2, WriteRefines
    <3> QED
      BY <3>1 DEF Serial!SDNext
  <2> QED
    BY <2>0, <2>1, <2>2
<1>8. ASSUME NEW w \in Workers, ReportSuccess(w) PROVE Serial!SDNext
  BY <1>8, ReportSuccessRefines DEF Serial!SDNext
<1>9. ASSUME NEW w \in Workers, ReportFailure(w) PROVE Serial!SDNext
  BY <1>9, ReportFailureRefines DEF Serial!SDNext
<1> QED
  BY <1>1, <1>2, <1>3, <1>4, <1>5, <1>6, <1>7, <1>8, <1>9
     DEF Next, TransportStep, DispatcherStep, WorkerStep

\* The pipeline implements SerialDelivery.
THEOREM Refinement == Spec => KeepsSerialDelivery
<1>1. Init => Serial!SDInit
  BY InitRefines
<1>2. Inv /\ [Next]_vars => [Serial!SDNext]_(Serial!sdVars)
  BY StepRefines
<1> QED
  BY <1>1, <1>2, Invariance, PTL DEF Spec, KeepsSerialDelivery, Serial!SDSpec
=============================================================================

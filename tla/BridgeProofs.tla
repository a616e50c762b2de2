---------------------------- MODULE BridgeProofs ----------------------------
(***************************************************************************)
(* Proofs about the bridge between the sync service and the database, for  *)
(* any leaf hubs, types of bundles and bounds, any number of crashes and   *)
(* restarts, and any interleaving of the transport, the config controller, *)
(* the dispatcher and the handlers.                                        *)
(***************************************************************************)
EXTENDS Bridge, TLAPS

(***************************************************************************)
(* The inductive invariant.  Of every unit: one handler works, on a bundle *)
(* that is newer than what was processed and that the unit keeps, or has   *)
(* replaced by a newer one.                                                *)
(***************************************************************************)
UnitInv(u) ==
    /\ \A a, b \in active[u] : a = b
    /\ \A p \in Priorities : held[u][p] # Nil => held[u][p].generation > processed[u][p]
    /\ \A a \in active[u] :
           /\ held[u][a.priority] # Nil
           /\ held[u][a.priority].generation >= a.bundle.generation
           /\ a.bundle.generation > processed[u][a.priority]

(***************************************************************************)
(* Of every replica: what the transport works on is a bundle of an object, *)
(* and a replica that is down polls for the first time when it runs.       *)
(***************************************************************************)
ReplicaInv(r) ==
    /\ transport[r].pc # "select" => transport[r].id \in Objects /\ transport[r].bundle \in Bundle
    /\ \A o \in polled[r] : object[o] # Nil
    /\ replica[r] = "down" => firstPoll[r]

(***************************************************************************)
(* If there is one replica: generations only grow on the way from the sync *)
(* service to the transport, the unit, the handler and the database, and   *)
(* an object that is marked has been kept, or noted as passed over.        *)
(***************************************************************************)
Older(b, o) == b.generation <= Generation(o) /\ (b.generation = Generation(o) => b = object[o])

DBInv(r, o) ==
    LET u == <<r, o[1]>>
        p == o[2]
    IN  /\ db[o] <= Generation(o)
        /\ stored[u][p] <= db[o]
        /\ processed[u][p] <= db[o]
        /\ held[u][p] # Nil => db[o] <= held[u][p].generation /\ Older(held[u][p], o)
        /\ \A a \in active[u] : a.priority = p => db[o] <= a.bundle.generation

TransportInv(r, o) ==
    LET h == held[<<r, o[1]>>][o[2]]
        b == transport[r].bundle
    IN  /\ transport[r].pc = "fetched" /\ transport[r].id = o =>
               db[o] <= b.generation /\ Older(b, o) /\ (h # Nil => h.generation <= b.generation)
        /\ transport[r].pc = "mark" /\ transport[r].id = o => Has(r, o, b.generation)

KeptInv(r, o) ==
    object[o] # Nil /\ db[o] < object[o].generation /\ received[o] /\ ~passedOver[o] => OnItsWay(r, o)

FlowInv(r, o) == DBInv(r, o) /\ TransportInv(r, o) /\ KeptInv(r, o)

OneReplica == \A r, s \in Replicas : r = s

BRInv ==
    /\ BRTypeOK
    /\ \A r \in Replicas : ReplicaInv(r)
    /\ \A u \in Units : UnitInv(u)
    /\ OneReplica => \A r \in Replicas, o \in Objects : FlowInv(r, o)

-----------------------------------------------------------------------------
(***************************************************************************)
(* What the steps of a pipeline do to its variables.                       *)
(***************************************************************************)

LEMMA BundleType ==
    \A b \in Bundle : b.generation \in Nat /\ b.dependencyGeneration \in Nat /\ b # Nil
BY UnitAssumption DEF Bundle

PipelineTypes ==
    /\ held \in [Units -> [Priorities -> Bundle \cup {Nil}]]
    /\ processed \in [Units -> [Priorities -> Nat]]
    /\ active \in [Units -> SUBSET Serial!Activity]
    /\ stored \in [Units -> [Priorities -> Nat]]

LEMMA ActivityType ==
    ASSUME PipelineTypes, NEW u \in Units, NEW a \in active[u]
    PROVE  a.priority \in Priorities /\ a.bundle \in Bundle /\ a.bundle.generation \in Nat
<1>1. a \in Serial!Activity
  BY DEF PipelineTypes
<1>2. a.priority \in Priorities /\ a.bundle \in Bundle
  BY <1>1 DEF Serial!Activity, Serial!Bundle, Bundle
<1> QED
  BY <1>2, BundleType

\* held after b is put there, or taken from there (b = Nil).
HeldIs(u, p, b) ==
    /\ held' \in [Units -> [Priorities -> Bundle \cup {Nil}]]
    /\ \A v \in Units, q \in Priorities :
           held'[v][q] = IF v = u /\ q = p THEN b ELSE held[v][q]

ActiveIs(u, S) ==
    /\ active' \in [Units -> SUBSET Serial!Activity]
    /\ \A v \in Units : active'[v] = IF v = u THEN S ELSE active[v]

LEMMA ReceiveEffect ==
    ASSUME PipelineTypes, NEW u \in Units, NEW p \in Priorities, NEW b \in Bundle,
           Serial!Receive(u, p, b)
    PROVE  /\ HeldIs(u, p, b)
           /\ b.generation > processed[u][p]
           /\ held[u][p] # Nil => b.generation > held[u][p].generation
           /\ UNCHANGED <<processed, active, stored>>
BY DEF PipelineTypes, HeldIs, Serial!Receive

LEMMA StartEffect ==
    ASSUME PipelineTypes, NEW u \in Units, NEW p \in Priorities, Serial!Start(u, p)
    PROVE  /\ held[u][p] # Nil /\ active[u] = {}
           /\ ActiveIs(u, {[priority |-> p, bundle |-> held[u][p]]})
           /\ UNCHANGED <<held, processed, stored>>
<1>1. held[u][p] # Nil /\ held[u][p] \in Bundle /\ active[u] = {} /\ UNCHANGED <<held, processed, stored>>
  BY DEF PipelineTypes, Serial!Start
<1>2. [priority |-> p, bundle |-> held[u][p]] \in Serial!Activity
  BY <1>1 DEF Serial!Activity, Serial!Bundle, Bundle
<1> QED
  BY <1>1, <1>2 DEF PipelineTypes, ActiveIs, Serial!Start

LEMMA StoreEffect ==
    ASSUME PipelineTypes, NEW u \in Units, NEW a \in active[u], Serial!Store(u, a)
    PROVE  /\ stored' \in [Units -> [Priorities -> Nat]]
           /\ \A v \in Units, q \in Priorities :
                  stored'[v][q] = IF v = u /\ q = a.priority THEN a.bundle.generation ELSE stored[v][q]
           /\ UNCHANGED <<held, processed, active>>
<1>1. a.priority \in Priorities /\ a.bundle.generation \in Nat
  BY ActivityType
<1> QED
  BY <1>1 DEF PipelineTypes, Serial!Store

LEMMA SucceedEffect ==
    ASSUME PipelineTypes, NEW u \in Units, NEW a \in active[u], Serial!Succeed(u, a)
    PROVE  /\ stored[u][a.priority] = a.bundle.generation
           /\ processed' \in [Units -> [Priorities -> Nat]]
           /\ \A v \in Units, q \in Priorities :
                  processed'[v][q] =
                      IF v = u /\ q = a.priority THEN a.bundle.generation ELSE processed[v][q]
           /\ HeldIs(u, a.priority,
                     IF held[u][a.priority].generation = a.bundle.generation
                     THEN Nil ELSE held[u][a.priority])
           /\ ActiveIs(u, {})
           /\ UNCHANGED stored
<1>1. a.priority \in Priorities /\ a.bundle.generation \in Nat
  BY ActivityType
<1>2. /\ processed' \in [Units -> [Priorities -> Nat]]
      /\ \A v \in Units, q \in Priorities :
             processed'[v][q] =
                 IF v = u /\ q = a.priority THEN a.bundle.generation ELSE processed[v][q]
  BY <1>1 DEF PipelineTypes, Serial!Succeed
<1>3. HeldIs(u, a.priority, IF held[u][a.priority].generation = a.bundle.generation
                            THEN Nil ELSE held[u][a.priority])
  BY <1>1 DEF PipelineTypes, HeldIs, Serial!Succeed
<1>4. ActiveIs(u, {}) /\ UNCHANGED stored /\ stored[u][a.priority] = a.bundle.generation
  BY DEF PipelineTypes, ActiveIs, Serial!Succeed
<1> QED
  BY <1>2, <1>3, <1>4

LEMMA FailEffect ==
    ASSUME PipelineTypes, NEW u \in Units, Serial!Fail(u)
    PROVE  ActiveIs(u, {}) /\ UNCHANGED <<held, processed, stored>>
BY DEF PipelineTypes, ActiveIs, Serial!Fail

ForgetsUnits(r) ==
    \A v \in Units :
        IF v[1] = r
        THEN /\ held'[v] = [p \in Priorities |-> Nil]
             /\ processed'[v] = [p \in Priorities |-> 0]
             /\ active'[v] = {}
             /\ stored'[v] = [p \in Priorities |-> 0]
        ELSE /\ held'[v] = held[v]
             /\ processed'[v] = processed[v]
             /\ active'[v] = active[v]
             /\ stored'[v] = stored[v]

LEMMA ForgetEffect ==
    ASSUME PipelineTypes, NEW r \in Replicas, Forget(r)
    PROVE  PipelineTypes' /\ ForgetsUnits(r)
<1>1. ForgetsUnits(r)
  BY DEF Forget, ForgetsUnits
<1>2. held' \in [Units -> [Priorities -> Bundle \cup {Nil}]]
  BY DEF PipelineTypes, Forget
<1>3. processed' \in [Units -> [Priorities -> Nat]] /\ stored' \in [Units -> [Priorities -> Nat]]
  BY DEF PipelineTypes, Forget
<1>4. active' \in [Units -> SUBSET Serial!Activity]
  BY DEF PipelineTypes, Forget
<1> QED
  BY <1>1, <1>2, <1>3, <1>4 DEF PipelineTypes

-----------------------------------------------------------------------------
(***************************************************************************)
(* Which steps change what.                                                *)
(***************************************************************************)

\* A step of the pipeline of r, for one leaf hub.
UnitStep(r, lh) ==
    \/ Dispatch(r, lh)
    \/ Write(r, lh)
    \/ HandlerSucceeds(r, lh)
    \/ HandlerFails(r, lh)

ObjectStep(r) ==
    \/ \E o \in Objects : Fetch(r, o) \/ FetchFails(r, o)
    \/ Skip(r)
    \/ Insert(r)
    \/ MarkObjectReceived(r)
    \/ MarkFails(r)

LifeStep(r) ==
    \/ Start(r)
    \/ BecomeLeader(r)
    \/ Reconcile(r)
    \/ ReconcileEnds(r)
    \/ Stop(r)
    \/ Exit(r)
    \/ Crash(r)

LEMMA Steps ==
    ASSUME BRNext
    PROVE  \/ \E lh \in LeafHubs, p \in Priorities : Send(lh, p)
           \/ \E l \in Levels \cup {Nil} : ChangeLevel(l)
           \/ \E r \in Replicas : Poll(r) \/ ObjectStep(r) \/ LifeStep(r)
           \/ \E r \in Replicas, lh \in LeafHubs : UnitStep(r, lh)
BY DEF BRNext, TransportStep, ManagerStep, PipelineStep, Fault, UnitStep, ObjectStep, LifeStep

\* The pipelines.
LEMMA PipelineChanges ==
    ASSUME BRNext
    PROVE  \/ UNCHANGED pipelineVars
           \/ \E r \in Replicas : Insert(r) \/ Forget(r)
           \/ \E r \in Replicas, lh \in LeafHubs : UnitStep(r, lh)
<1>1. CASE \E lh \in LeafHubs, p \in Priorities : Send(lh, p)
  BY <1>1 DEF Send
<1>2. CASE \E l \in Levels \cup {Nil} : ChangeLevel(l)
  BY <1>2 DEF ChangeLevel
<1>3. CASE \E r \in Replicas : Poll(r) \/ ObjectStep(r)
  BY <1>3 DEF Poll, ObjectStep, Fetch, FetchFails, Skip, MarkObjectReceived, MarkFails
<1>4. CASE \E r \in Replicas : LifeStep(r)
  BY <1>4 DEF LifeStep, Start, BecomeLeader, Reconcile, ReconcileEnds, Stop, Exit, Crash
<1> QED
  BY <1>1, <1>2, <1>3, <1>4, Steps

\* What the transport of r holds.
LEMMA FetchedType ==
    ASSUME BRInv, NEW r \in Replicas, transport[r].pc = "fetched" \/ transport[r].pc = "mark"
    PROVE  LET o == transport[r].id
           IN  /\ o \in Objects /\ o[1] \in LeafHubs /\ o[2] \in Priorities
               /\ <<r, o[1]>> \in Units /\ transport[r].bundle \in Bundle
               /\ transport[r].bundle.generation \in Nat
BY BundleType DEF BRInv, ReplicaInv, Objects, Units

LEMMA UnitsType ==
    /\ \A u \in Units : u[1] \in Replicas /\ u[2] \in LeafHubs /\ u = <<u[1], u[2]>>
    /\ \A r \in Replicas, lh \in LeafHubs : <<r, lh>> \in Units
    /\ \A o \in Objects : o[1] \in LeafHubs /\ o[2] \in Priorities /\ o = <<o[1], o[2]>>
    /\ \A lh \in LeafHubs, p \in Priorities : <<lh, p>> \in Objects
BY DEF Units, Objects

\* An insertion, if the unit takes the bundle.
LEMMA InsertEffect ==
    ASSUME BRInv, NEW r \in Replicas, Insert(r)
    PROVE  LET o == transport[r].id
               b == transport[r].bundle
           IN  IF Has(r, o, b.generation) THEN UNCHANGED pipelineVars
                                          ELSE Serial!Receive(<<r, o[1]>>, o[2], b)
BY DEF Insert

LEMMA PipelineTypesStep ==
    ASSUME BRInv, BRNext
    PROVE  PipelineTypes'
<1>0. PipelineTypes
  BY DEF BRInv, BRTypeOK, PipelineTypes
<1>1. CASE UNCHANGED pipelineVars
  BY <1>0, <1>1 DEF PipelineTypes, pipelineVars
<1>2. ASSUME NEW r \in Replicas, Insert(r) PROVE PipelineTypes'
  <2> DEFINE o == transport[r].id
             b == transport[r].bundle
  <2>1. <<r, o[1]>> \in Units /\ o[2] \in Priorities /\ b \in Bundle
    BY <1>2, FetchedType DEF Insert
  <2>2. CASE Serial!Receive(<<r, o[1]>>, o[2], b)
    <3> HIDE DEF o, b
    <3> QED
      BY <1>0, <2>1, <2>2, ReceiveEffect DEF PipelineTypes, HeldIs
  <2> QED
    BY <1>1, <1>2, <2>2, InsertEffect
<1>3. ASSUME NEW r \in Replicas, Forget(r) PROVE PipelineTypes'
  BY <1>0, <1>3, ForgetEffect
<1>4. ASSUME NEW r \in Replicas, NEW lh \in LeafHubs, UnitStep(r, lh) PROVE PipelineTypes'
  <2>0. <<r, lh>> \in Units
    BY UnitsType
  <2>1. CASE Dispatch(r, lh)
    BY <1>0, <2>0, <2>1, StartEffect DEF Dispatch, PipelineTypes, ActiveIs
  <2>2. CASE Write(r, lh)
    BY <1>0, <2>0, <2>2, StoreEffect DEF Write, PipelineTypes
  <2>3. CASE HandlerSucceeds(r, lh)
    BY <1>0, <2>0, <2>3, SucceedEffect DEF HandlerSucceeds, PipelineTypes, ActiveIs, HeldIs
  <2>4. CASE HandlerFails(r, lh)
    BY <1>0, <2>0, <2>4, FailEffect DEF HandlerFails, PipelineTypes, ActiveIs
  <2> QED
    BY <1>4, <2>1, <2>2, <2>3, <2>4 DEF UnitStep
<1> QED
  BY <1>1, <1>2, <1>3, <1>4, PipelineChanges

\* The sync service and the database.
ServiceTypes ==
    /\ object \in [Objects -> Bundle \cup {Nil}]
    /\ received \in [Objects -> BOOLEAN]
    /\ passedOver \in [Objects -> BOOLEAN]
    /\ db \in [Objects -> Nat]

LEMMA ServiceChanges ==
    ASSUME BRNext
    PROVE  \/ UNCHANGED <<serviceVars, db>>
           \/ \E lh \in LeafHubs, p \in Priorities : Send(lh, p)
           \/ \E r \in Replicas :
                  \/ \E o \in Objects : FetchFails(r, o)
                  \/ Skip(r)
                  \/ MarkObjectReceived(r)
           \/ \E r \in Replicas, lh \in LeafHubs : Write(r, lh)
<1>2. CASE \E l \in Levels \cup {Nil} : ChangeLevel(l)
  BY <1>2 DEF ChangeLevel
<1>3. CASE \E r \in Replicas : Poll(r) \/ ObjectStep(r)
  BY <1>3 DEF Poll, ObjectStep, Fetch, Insert, MarkFails
<1>4. CASE \E r \in Replicas : LifeStep(r)
  BY <1>4 DEF LifeStep, Start, BecomeLeader, Reconcile, ReconcileEnds, Stop, Exit, Crash, Forget
<1>5. CASE \E r \in Replicas, lh \in LeafHubs : UnitStep(r, lh)
  BY <1>5 DEF UnitStep, Dispatch, HandlerSucceeds, HandlerFails, othersUnchanged
<1> QED
  BY <1>2, <1>3, <1>4, <1>5, Steps

\* The generation of an object that is sent next.
LEMMA GenerationType ==
    ASSUME ServiceTypes, NEW o \in Objects
    PROVE  Generation(o) \in Nat
BY BundleType DEF ServiceTypes, Generation

LEMMA SendEffect ==
    ASSUME ServiceTypes, NEW lh \in LeafHubs, NEW p \in Priorities, Send(lh, p)
    PROVE  /\ object' \in [Objects -> Bundle \cup {Nil}]
           /\ object'[<<lh, p>>] \in Bundle
           /\ object'[<<lh, p>>].generation = Generation(<<lh, p>>) + 1
           /\ \A o \in Objects : o # <<lh, p>> => object'[o] = object[o]
           /\ received' \in [Objects -> BOOLEAN] /\ passedOver' \in [Objects -> BOOLEAN]
           /\ \A o \in Objects : o # <<lh, p>> => received'[o] = received[o] /\ passedOver'[o] = passedOver[o]
           /\ received'[<<lh, p>>] = FALSE
<1> DEFINE o == <<lh, p>>
           d == IF dependency[p] = Nil THEN 0 ELSE Generation(<<lh, dependency[p]>>)
           b == [generation |-> Generation(o) + 1, dependencyGeneration |-> d]
<1>1. o \in Objects /\ Generation(o) \in Nat
  BY UnitsType, GenerationType
<1>2. d \in Nat
  BY UnitsType, GenerationType, UnitAssumption
<1>3. b \in Bundle
  BY <1>1, <1>2 DEF Bundle
<1>4. object' = [object EXCEPT ![o] = b] /\ b.generation = Generation(o) + 1
  BY DEF Send
<1> HIDE DEF b
<1>5. received' = [received EXCEPT ![o] = FALSE] /\ passedOver' = [passedOver EXCEPT ![o] = FALSE]
  BY DEF Send
<1>6. /\ object' \in [Objects -> Bundle \cup {Nil}] /\ object'[o] = b
      /\ \A k \in Objects : k # o => object'[k] = object[k]
  BY <1>1, <1>3, <1>4 DEF ServiceTypes
<1>7. /\ received' \in [Objects -> BOOLEAN] /\ passedOver' \in [Objects -> BOOLEAN]
      /\ received'[o] = FALSE
  BY <1>1, <1>5, Zenon DEF ServiceTypes
<1>8. \A k \in Objects : k # o => received'[k] = received[k] /\ passedOver'[k] = passedOver[k]
  BY <1>1, <1>5, Zenon DEF ServiceTypes
<1> QED
  BY <1>3, <1>4, <1>6, <1>7, <1>8

\* An object of which S holds is noted as passed over.
Notes(o, S) ==
    /\ passedOver' \in [Objects -> BOOLEAN]
    /\ \A k \in Objects : passedOver'[k] <=> passedOver[k] \/ (k = o /\ S)

LEMMA NoteEffect ==
    ASSUME passedOver \in [Objects -> BOOLEAN], NEW o \in Objects, NEW S \in BOOLEAN,
           passedOver' = [passedOver EXCEPT ![o] = @ \/ S]
    PROVE  Notes(o, S)
<1>1. passedOver' \in [Objects -> BOOLEAN]
  BY Zenon
<1>2. ASSUME NEW k \in Objects PROVE passedOver'[k] <=> passedOver[k] \/ (k = o /\ S)
  <2>1. CASE k = o
    <3>1. passedOver'[k] = (passedOver[k] \/ S)
      BY <2>1, Zenon
    <3> QED
      BY <2>1, <3>1, Zenon
  <2>2. CASE k # o
    <3>1. passedOver'[k] = passedOver[k]
      BY <2>2, Zenon
    <3> QED
      BY <2>2, <3>1, Zenon
  <2> QED
    BY <2>1, <2>2
<1> QED
  BY <1>1, <1>2, Zenon DEF Notes

\* The object whose mark is set.
Marks(o) ==
    /\ received' \in [Objects -> BOOLEAN]
    /\ \A k \in Objects : received'[k] <=> received[k] \/ k = o

LEMMA MarkEffect ==
    ASSUME BRInv, NEW r \in Replicas, MarkObjectReceived(r)
    PROVE  Marks(transport[r].id) /\ Notes(transport[r].id, object[transport[r].id] # transport[r].bundle)
<1> DEFINE o == transport[r].id
           S == object[o] # transport[r].bundle
<1>1. o \in Objects
  BY FetchedType DEF MarkObjectReceived
<1>2. received' = [received EXCEPT ![o] = TRUE] /\ passedOver' = [passedOver EXCEPT ![o] = @ \/ S]
  BY DEF MarkObjectReceived
<1>3. received \in [Objects -> BOOLEAN] /\ passedOver \in [Objects -> BOOLEAN]
  BY DEF BRInv, BRTypeOK
<1>6. S \in BOOLEAN
  OBVIOUS
<1> HIDE DEF o, S
<1>4. Marks(o)
  BY <1>1, <1>2, <1>3, Zenon DEF Marks
<1>5. Notes(o, S)
  BY <1>1, <1>2, <1>3, <1>6, NoteEffect
<1> QED
  BY <1>4, <1>5 DEF o, S

LEMMA GiveUpEffect ==
    ASSUME BRInv, NEW r \in Replicas, NEW o \in Objects, GiveUp(r, o)
    PROVE  Notes(o, received[o] /\ ~Has(r, o, Generation(o)))
<1> DEFINE S == received[o] /\ ~Has(r, o, Generation(o))
<1>1. passedOver' = [passedOver EXCEPT ![o] = @ \/ S]
  BY DEF GiveUp
<1>2. passedOver \in [Objects -> BOOLEAN]
  BY DEF BRInv, BRTypeOK
<1>4. S \in BOOLEAN
  OBVIOUS
<1> HIDE DEF S
<1>3. Notes(o, S)
  BY <1>1, <1>2, <1>4, NoteEffect
<1> QED
  BY <1>3 DEF S

LEMMA WriteEffect ==
    ASSUME BRInv, NEW r \in Replicas, NEW lh \in LeafHubs, Write(r, lh)
    PROVE  \E a \in active[<<r, lh>>] :
               /\ Serial!Store(<<r, lh>>, a)
               /\ <<lh, a.priority>> \in Objects
               /\ db' \in [Objects -> Nat]
               /\ \A o \in Objects :
                      db'[o] = IF o = <<lh, a.priority>> THEN a.bundle.generation ELSE db[o]
<1>1. PICK a \in active[<<r, lh>>] :
          /\ Serial!Store(<<r, lh>>, a)
          /\ db' = [db EXCEPT ![<<lh, a.priority>>] = a.bundle.generation]
  BY DEF Write
<1>2. PipelineTypes /\ <<r, lh>> \in Units /\ db \in [Objects -> Nat]
  BY UnitsType DEF BRInv, BRTypeOK, PipelineTypes
<1>3. a.priority \in Priorities /\ a.bundle.generation \in Nat
  BY <1>1, <1>2, ActivityType
<1>4. <<lh, a.priority>> \in Objects
  BY <1>3, UnitsType
<1> QED
  BY <1>1, <1>2, <1>3, <1>4

LEMMA ServiceTypesStep ==
    ASSUME BRInv, BRNext
    PROVE  ServiceTypes'
<1>0. ServiceTypes
  BY DEF BRInv, BRTypeOK, ServiceTypes
<1>1. CASE UNCHANGED <<serviceVars, db>>
  BY <1>0, <1>1 DEF ServiceTypes, serviceVars
<1>2. ASSUME NEW lh \in LeafHubs, NEW p \in Priorities, Send(lh, p) PROVE ServiceTypes'
  <2>1. UNCHANGED db
    BY <1>2 DEF Send
  <2>2. /\ object' \in [Objects -> Bundle \cup {Nil}]
        /\ received' \in [Objects -> BOOLEAN] /\ passedOver' \in [Objects -> BOOLEAN]
    BY <1>0, <1>2, SendEffect
  <2> QED
    BY <1>0, <2>1, <2>2 DEF ServiceTypes
<1>3. ASSUME NEW r \in Replicas, NEW o \in Objects, FetchFails(r, o) PROVE ServiceTypes'
  <2>1. UNCHANGED <<object, received, db>> /\ GiveUp(r, o)
    BY <1>3 DEF FetchFails
  <2> QED
    BY <1>0, <2>1, GiveUpEffect DEF ServiceTypes, Notes
<1>4. ASSUME NEW r \in Replicas, Skip(r) PROVE ServiceTypes'
  <2>1. UNCHANGED <<object, received, db>> /\ GiveUp(r, transport[r].id) /\ transport[r].id \in Objects
    BY <1>4, FetchedType DEF Skip
  <2> QED
    BY <1>0, <2>1, GiveUpEffect DEF ServiceTypes, Notes
<1>5. ASSUME NEW r \in Replicas, MarkObjectReceived(r) PROVE ServiceTypes'
  <2>1. UNCHANGED <<object, db>>
    BY <1>5 DEF MarkObjectReceived
  <2> QED
    BY <1>0, <1>5, <2>1, MarkEffect DEF ServiceTypes, Notes, Marks
<1>6. ASSUME NEW r \in Replicas, NEW lh \in LeafHubs, Write(r, lh) PROVE ServiceTypes'
  <2>1. UNCHANGED serviceVars
    BY <1>6 DEF Write, othersUnchanged
  <2> QED
    BY <1>0, <1>6, <2>1, WriteEffect DEF ServiceTypes, serviceVars
<1> QED
  BY <1>1, <1>2, <1>3, <1>4, <1>5, <1>6, ServiceChanges

\* The configuration and the lives of replicas.
ManagerTypes ==
    /\ level \in Levels \cup {Nil}
    /\ replica \in [Replicas -> {"down", "standby", "leader", "stopping"}]
    /\ config \in [Replicas -> Levels]
    /\ writing \in [Replicas -> Levels \cup {Nil}]
    /\ request \in [Replicas -> BOOLEAN]
    /\ stops \in 0 .. MaxStops
    /\ levelChanges \in 0 .. MaxLevelChanges

managerVars == <<level, replica, configVars, bounds>>

LEMMA ManagerChanges ==
    ASSUME BRNext
    PROVE  \/ UNCHANGED managerVars
           \/ \E l \in Levels \cup {Nil} : ChangeLevel(l)
           \/ \E r \in Replicas : LifeStep(r)
<1>2. CASE \E lh \in LeafHubs, p \in Priorities : Send(lh, p)
  BY <1>2 DEF Send, managerVars
<1>3. CASE \E r \in Replicas : Poll(r) \/ ObjectStep(r)
  BY <1>3 DEF Poll, ObjectStep, Fetch, FetchFails, Skip, Insert, MarkObjectReceived, MarkFails,
      managerVars
<1>5. CASE \E r \in Replicas, lh \in LeafHubs : UnitStep(r, lh)
  BY <1>5 DEF UnitStep, Dispatch, Write, HandlerSucceeds, HandlerFails, othersUnchanged, managerVars
<1> QED
  BY <1>2, <1>3, <1>5, Steps

LEMMA ManagerTypesStep ==
    ASSUME BRInv, BRNext
    PROVE  ManagerTypes'
<1> USE BridgeAssumption
<1>0. ManagerTypes
  BY DEF BRInv, BRTypeOK, ManagerTypes
<1>1. CASE UNCHANGED managerVars
  BY <1>0, <1>1 DEF ManagerTypes, managerVars, configVars, bounds
<1>2. ASSUME NEW l \in Levels \cup {Nil}, ChangeLevel(l) PROVE ManagerTypes'
  <2>1. request' \in [Replicas -> BOOLEAN]
    BY <1>2, Zenon DEF ChangeLevel
  <2> QED
    BY <1>0, <1>2, <2>1 DEF ManagerTypes, ChangeLevel
<1>3. ASSUME NEW r \in Replicas, Start(r) \/ BecomeLeader(r) \/ Stop(r) PROVE ManagerTypes'
  <2>1. request' \in [Replicas -> BOOLEAN]
    <3>1. UNCHANGED request \/ request' = [request EXCEPT ![r] = TRUE]
      BY <1>3 DEF Start, BecomeLeader, Stop, configVars
    <3> QED
      BY <1>0, <3>1, Zenon DEF ManagerTypes
  <2>2. replica' \in [Replicas -> {"down", "standby", "leader", "stopping"}]
    BY <1>0, <1>3 DEF ManagerTypes, Start, BecomeLeader, Stop
  <2>3. /\ stops' \in 0 .. MaxStops
        /\ UNCHANGED <<level, config, writing, levelChanges>>
    BY <1>0, <1>3 DEF ManagerTypes, Start, BecomeLeader, Stop, configVars, bounds
  <2> QED
    BY <1>0, <2>1, <2>2, <2>3 DEF ManagerTypes
<1>4. ASSUME NEW r \in Replicas, Reconcile(r) \/ ReconcileEnds(r) PROVE ManagerTypes'
  <2>1. request' \in [Replicas -> BOOLEAN]
    <3>1. UNCHANGED request \/ request' = [request EXCEPT ![r] = FALSE]
      BY <1>4 DEF Reconcile, ReconcileEnds
    <3> QED
      BY <1>0, <3>1, Zenon DEF ManagerTypes
  <2>2. config' \in [Replicas -> Levels] /\ writing' \in [Replicas -> Levels \cup {Nil}]
    BY <1>0, <1>4 DEF ManagerTypes, Reconcile, ReconcileEnds
  <2>3. UNCHANGED <<level, replica, stops, levelChanges>>
    BY <1>4 DEF Reconcile, ReconcileEnds, bounds
  <2> QED
    BY <1>0, <2>1, <2>2, <2>3 DEF ManagerTypes
<1>5. ASSUME NEW r \in Replicas, Exit(r) \/ Crash(r) PROVE ManagerTypes'
  <2>0. Forget(r)
    BY <1>5 DEF Exit, Crash
  <2>1. request' \in [Replicas -> BOOLEAN]
    BY <1>0, <2>0, Zenon DEF ManagerTypes, Forget
  <2>2. /\ config' \in [Replicas -> Levels] /\ writing' \in [Replicas -> Levels \cup {Nil}]
        /\ replica' \in [Replicas -> {"down", "standby", "leader", "stopping"}]
        /\ UNCHANGED <<level, levelChanges>>
    BY <1>0, <2>0 DEF ManagerTypes, Forget, Levels
  <2>3. stops' \in 0 .. MaxStops
    BY <1>0, <1>5 DEF ManagerTypes, Exit, Crash
  <2> QED
    BY <1>0, <2>1, <2>2, <2>3 DEF ManagerTypes
<1> QED
  BY <1>1, <1>2, <1>3, <1>4, <1>5, ManagerChanges DEF LifeStep

\* The transports.
TransportStates ==
    [pc : {"select", "fetched", "mark"}, id : Objects \cup {Nil}, bundle : Bundle \cup {Nil}]

TransportTypes ==
    /\ firstPoll \in [Replicas -> BOOLEAN]
    /\ polled \in [Replicas -> SUBSET Objects]
    /\ transport \in [Replicas -> TransportStates]

LEMMA TransportChanges ==
    ASSUME BRNext
    PROVE  \/ UNCHANGED transportVars
           \/ \E r \in Replicas : Poll(r) \/ ObjectStep(r) \/ Forget(r)
<1>2. CASE \E lh \in LeafHubs, p \in Priorities : Send(lh, p)
  BY <1>2 DEF Send
<1>3. CASE \E l \in Levels \cup {Nil} : ChangeLevel(l)
  BY <1>3 DEF ChangeLevel
<1>4. CASE \E r \in Replicas : LifeStep(r)
  BY <1>4 DEF LifeStep, Start, BecomeLeader, Reconcile, ReconcileEnds, Stop, Exit, Crash
<1>5. CASE \E r \in Replicas, lh \in LeafHubs : UnitStep(r, lh)
  BY <1>5 DEF UnitStep, Dispatch, Write, HandlerSucceeds, HandlerFails, othersUnchanged
<1> QED
  BY <1>2, <1>3, <1>4, <1>5, Steps

\* The transport of r goes to state s.
TransportIs(r, s) ==
    /\ transport' \in [Replicas -> TransportStates]
    /\ \A k \in Replicas : transport'[k] = IF k = r THEN s ELSE transport[k]

LEMMA SelectEffect ==
    ASSUME TransportTypes, NEW r \in Replicas, Select(r)
    PROVE  TransportIs(r, Selecting)
<1>1. Selecting \in TransportStates
  BY DEF Selecting, TransportStates
<1> QED
  BY <1>1 DEF TransportTypes, TransportIs, Select

LEMMA FetchEffect ==
    ASSUME BRInv, NEW r \in Replicas, NEW o \in Objects, Fetch(r, o)
    PROVE  /\ TransportIs(r, [pc |-> "fetched", id |-> o, bundle |-> object[o]])
           /\ object[o] \in Bundle /\ o \in polled[r]
<1> DEFINE s == [pc |-> "fetched", id |-> o, bundle |-> object[o]]
<1>1. object[o] \in Bundle /\ o \in polled[r]
  BY DEF BRInv, BRTypeOK, ReplicaInv, Fetch
<1>2. s \in TransportStates
  BY <1>1 DEF TransportStates
<1>3. transport' = [transport EXCEPT ![r] = s] /\ transport \in [Replicas -> TransportStates]
  BY DEF Fetch, BRInv, BRTypeOK, TransportStates
<1> HIDE DEF s
<1>4. TransportIs(r, s)
  BY <1>2, <1>3 DEF TransportIs
<1> QED
  BY <1>1, <1>4 DEF s

LEMMA MarkNextEffect ==
    ASSUME BRInv, NEW r \in Replicas, Insert(r)
    PROVE  TransportIs(r, [pc |-> "mark", id |-> transport[r].id, bundle |-> transport[r].bundle])
<1> DEFINE s == [pc |-> "mark", id |-> transport[r].id, bundle |-> transport[r].bundle]
<1>1. transport \in [Replicas -> TransportStates] /\ transport[r] \in TransportStates
  BY DEF BRInv, BRTypeOK, TransportStates
<1>2. s \in TransportStates /\ [transport[r] EXCEPT !.pc = "mark"] = s
  BY <1>1 DEF TransportStates
<1>3. transport' = [transport EXCEPT ![r] = [transport[r] EXCEPT !.pc = "mark"]]
  BY <1>1 DEF Insert
<1> HIDE DEF s
<1>4. TransportIs(r, s)
  BY <1>1, <1>2, <1>3 DEF TransportIs
<1> QED
  BY <1>4 DEF s

\* polled and firstPoll, r's only.
PollsOnly(r) ==
    /\ firstPoll' \in [Replicas -> BOOLEAN]
    /\ polled' \in [Replicas -> SUBSET Objects]
    /\ \A k \in Replicas : k # r => firstPoll'[k] = firstPoll[k] /\ polled'[k] = polled[k]

LEMMA PollEffect ==
    ASSUME BRInv, NEW r \in Replicas, Poll(r)
    PROVE  /\ PollsOnly(r)
           /\ firstPoll'[r] = FALSE
           /\ polled'[r] = {o \in Objects : object[o] # Nil /\ (firstPoll[r] \/ ~received[o])}
<1> DEFINE S == {o \in Objects : object[o] # Nil /\ (firstPoll[r] \/ ~received[o])}
<1>1. firstPoll \in [Replicas -> BOOLEAN] /\ polled \in [Replicas -> SUBSET Objects]
  BY DEF BRInv, BRTypeOK
<1>2. polled' = [polled EXCEPT ![r] = S] /\ firstPoll' = [firstPoll EXCEPT ![r] = FALSE] /\ S \subseteq Objects
  BY DEF Poll
<1> HIDE DEF S
<1>3. firstPoll' \in [Replicas -> BOOLEAN] /\ firstPoll'[r] = FALSE
          /\ \A k \in Replicas : k # r => firstPoll'[k] = firstPoll[k]
  BY <1>1, <1>2, Zenon
<1>4. polled' \in [Replicas -> SUBSET Objects] /\ polled'[r] = S
          /\ \A k \in Replicas : k # r => polled'[k] = polled[k]
  BY <1>1, <1>2
<1> QED
  BY <1>3, <1>4 DEF PollsOnly, S

\* The object that a step of the transport takes from polled, if any.
LEMMA TakeEffect ==
    ASSUME BRInv, NEW r \in Replicas, ObjectStep(r)
    PROVE  /\ UNCHANGED firstPoll
           /\ PollsOnly(r)
           /\ polled'[r] \subseteq polled[r]
<1>1. firstPoll \in [Replicas -> BOOLEAN] /\ polled \in [Replicas -> SUBSET Objects]
  BY DEF BRInv, BRTypeOK
<1>2. /\ UNCHANGED firstPoll
      /\ UNCHANGED polled \/ \E o \in Objects : polled' = [polled EXCEPT ![r] = @ \ {o}]
  BY DEF ObjectStep, Fetch, FetchFails, Skip, Insert, MarkObjectReceived, MarkFails
<1> QED
  BY <1>1, <1>2 DEF PollsOnly

LEMMA ForgetTransport ==
    ASSUME BRInv, NEW r \in Replicas, Forget(r)
    PROVE  /\ PollsOnly(r)
           /\ firstPoll'[r] = TRUE
           /\ polled'[r] = {}
           /\ TransportIs(r, Selecting)
<1>1. firstPoll \in [Replicas -> BOOLEAN] /\ polled \in [Replicas -> SUBSET Objects] /\ TransportTypes
  BY DEF BRInv, BRTypeOK, TransportTypes, TransportStates
<1>2. /\ polled' = [polled EXCEPT ![r] = {}] /\ firstPoll' = [firstPoll EXCEPT ![r] = TRUE]
      /\ Select(r)
  BY DEF Forget
<1>3. firstPoll' \in [Replicas -> BOOLEAN] /\ firstPoll'[r] = TRUE
          /\ \A k \in Replicas : k # r => firstPoll'[k] = firstPoll[k]
  BY <1>1, <1>2, Zenon
<1>4. polled' \in [Replicas -> SUBSET Objects] /\ polled'[r] = {}
          /\ \A k \in Replicas : k # r => polled'[k] = polled[k]
  BY <1>1, <1>2
<1> QED
  BY <1>1, <1>2, <1>3, <1>4, SelectEffect DEF PollsOnly

\* Where a step of r's transport leaves it.
LEMMA TransportEffect ==
    ASSUME BRInv, NEW r \in Replicas, ObjectStep(r)
    PROVE  \/ UNCHANGED transport
           \/ TransportIs(r, Selecting)
           \/ \E o \in Objects :
                  /\ TransportIs(r, [pc |-> "fetched", id |-> o, bundle |-> object[o]])
                  /\ object[o] \in Bundle
           \/ /\ transport[r].pc = "fetched"
              /\ TransportIs(r, [pc |-> "mark", id |-> transport[r].id, bundle |-> transport[r].bundle])
<1>0. TransportTypes
  BY DEF BRInv, BRTypeOK, TransportTypes, TransportStates
<1>1. CASE \E o \in Objects : Fetch(r, o)
  BY <1>1, FetchEffect
<1>2. CASE \E o \in Objects : FetchFails(r, o)
  BY <1>2 DEF FetchFails
<1>3. CASE Skip(r) \/ MarkObjectReceived(r) \/ MarkFails(r)
  BY <1>0, <1>3, SelectEffect DEF Skip, MarkObjectReceived, MarkFails
<1>4. CASE Insert(r)
  BY <1>4, MarkNextEffect DEF Insert
<1> QED
  BY <1>1, <1>2, <1>3, <1>4 DEF ObjectStep

\* What is known of a state of handleBundles.
Known(s) ==
    /\ s.pc = "select" <=> s = Selecting
    /\ s.pc # "select" => s.id \in Objects /\ s.bundle \in Bundle

LEMMA TransportTypesStep ==
    ASSUME BRInv, BRNext
    PROVE  TransportTypes' /\ \A k \in Replicas : Known(transport'[k])
<1>0. TransportTypes /\ \A k \in Replicas : Known(transport[k])
  BY DEF BRInv, BRTypeOK, TransportTypes, TransportStates, Known, ReplicaInv
<1>1. CASE UNCHANGED transportVars
  BY <1>0, <1>1 DEF TransportTypes, transportVars
<1>2. ASSUME NEW r \in Replicas, NEW s, Known(s), TransportIs(r, s)
      PROVE  /\ transport' \in [Replicas -> TransportStates]
             /\ \A k \in Replicas : Known(transport'[k])
  BY <1>0, <1>2 DEF TransportIs
<1>3. Known(Selecting)
  BY DEF Known, Selecting
<1>4. ASSUME NEW r \in Replicas, Poll(r)
      PROVE  TransportTypes' /\ \A k \in Replicas : Known(transport'[k])
  <2>1. UNCHANGED transport
    BY <1>4 DEF Poll
  <2> QED
    BY <1>0, <1>4, <2>1, PollEffect DEF TransportTypes, PollsOnly
<1>5. ASSUME NEW r \in Replicas, Forget(r)
      PROVE  TransportTypes' /\ \A k \in Replicas : Known(transport'[k])
  BY <1>2, <1>3, <1>5, ForgetTransport DEF TransportTypes, PollsOnly
<1>6. ASSUME NEW r \in Replicas, ObjectStep(r)
      PROVE  TransportTypes' /\ \A k \in Replicas : Known(transport'[k])
  <2>1. ASSUME NEW o \in Objects, object[o] \in Bundle
        PROVE  Known([pc |-> "fetched", id |-> o, bundle |-> object[o]])
    BY <2>1 DEF Known, Selecting
  <2>2. ASSUME transport[r].pc = "fetched"
        PROVE  Known([pc |-> "mark", id |-> transport[r].id, bundle |-> transport[r].bundle])
    BY <1>0, <2>2 DEF Known, Selecting
  <2>3. /\ transport' \in [Replicas -> TransportStates]
        /\ \A k \in Replicas : Known(transport'[k])
    <3>1. CASE UNCHANGED transport
      BY <1>0, <3>1 DEF TransportTypes
    <3>2. CASE TransportIs(r, Selecting)
      BY <1>2, <1>3, <3>2
    <3>3. ASSUME NEW o \in Objects, object[o] \in Bundle,
                 TransportIs(r, [pc |-> "fetched", id |-> o, bundle |-> object[o]])
          PROVE  /\ transport' \in [Replicas -> TransportStates]
                 /\ \A k \in Replicas : Known(transport'[k])
      BY <1>2, <2>1, <3>3
    <3>4. CASE /\ transport[r].pc = "fetched"
               /\ TransportIs(r, [pc |-> "mark", id |-> transport[r].id, bundle |-> transport[r].bundle])
      BY <1>2, <2>2, <3>4
    <3> QED
      BY <1>6, <3>1, <3>2, <3>3, <3>4, TransportEffect
  <2> QED
    BY <1>6, <2>3, TakeEffect DEF TransportTypes, PollsOnly
<1> QED
  BY <1>1, <1>4, <1>5, <1>6, TransportChanges

\* An object that was sent stays in the sync service.
LEMMA ObjectStays ==
    ASSUME BRInv, BRNext, NEW o \in Objects
    PROVE  object[o] # Nil => object'[o] # Nil
<1>0. ServiceTypes
  BY DEF BRInv, BRTypeOK, ServiceTypes
<1>1. ASSUME NEW lh \in LeafHubs, NEW p \in Priorities, Send(lh, p), object[o] # Nil
      PROVE  object'[o] # Nil
  BY <1>0, <1>1, SendEffect, BundleType
<1>2. CASE UNCHANGED object
  BY <1>2
<1> QED
  BY <1>1, <1>2, ServiceChanges DEF FetchFails, Skip, MarkObjectReceived, Write, othersUnchanged,
      serviceVars

\* The replica that a step of the manager changes, and how.
LEMMA LifeEffect ==
    ASSUME BRInv, NEW r \in Replicas, LifeStep(r)
    PROVE  \/ UNCHANGED replica
           \/ Forget(r) /\ replica' = [replica EXCEPT ![r] = "down"]
           \/ Start(r) /\ replica' = [replica EXCEPT ![r] = "standby"]
           \/ BecomeLeader(r) /\ replica' = [replica EXCEPT ![r] = "leader"]
           \/ Stop(r) /\ replica' = [replica EXCEPT ![r] = "stopping"]
BY DEF LifeStep, Reconcile, ReconcileEnds, Start, BecomeLeader, Stop, Exit, Crash, Forget

LEMMA ReplicaChanges ==
    ASSUME BRNext
    PROVE  UNCHANGED replica \/ \E r \in Replicas : LifeStep(r)
BY ManagerChanges DEF managerVars, ChangeLevel

LEMMA ReplicaInvStep ==
    ASSUME BRInv, BRNext, NEW k \in Replicas
    PROVE  ReplicaInv(k)'
<1>0. /\ ReplicaInv(k) /\ replica \in [Replicas -> {"down", "standby", "leader", "stopping"}]
      /\ polled \in [Replicas -> SUBSET Objects]
  BY DEF BRInv, BRTypeOK
<1>1. transport'[k].pc # "select" => transport'[k].id \in Objects /\ transport'[k].bundle \in Bundle
  BY TransportTypesStep DEF Known
<1>2. \A o \in polled'[k] : object'[o] # Nil
  <2>1. CASE polled'[k] \subseteq polled[k]
    BY <1>0, <2>1, ObjectStays DEF ReplicaInv
  <2>2. ASSUME NEW r \in Replicas, Poll(r) PROVE \A o \in polled'[k] : object'[o] # Nil
    <3>1. UNCHANGED object
      BY <2>2 DEF Poll, serviceVars
    <3>2. CASE k = r
      BY <2>2, <3>1, <3>2, PollEffect
    <3>3. CASE k # r
      BY <2>1, <2>2, <3>3, PollEffect DEF PollsOnly
    <3> QED
      BY <3>2, <3>3
  <2>3. ASSUME NEW r \in Replicas, ObjectStep(r) PROVE polled'[k] \subseteq polled[k]
    BY <2>3, TakeEffect DEF PollsOnly
  <2>4. ASSUME NEW r \in Replicas, Forget(r) PROVE polled'[k] \subseteq polled[k]
    BY <2>4, ForgetTransport DEF PollsOnly
  <2>5. UNCHANGED transportVars => polled'[k] \subseteq polled[k]
    BY DEF transportVars
  <2> QED
    BY <2>1, <2>2, <2>3, <2>4, <2>5, TransportChanges
<1>3. replica'[k] = "down" => firstPoll'[k]
  <2> SUFFICES ASSUME replica'[k] = "down" PROVE firstPoll'[k]
      OBVIOUS
  <2>1. CASE \E r \in Replicas : LifeStep(r)
    <3>1. PICK r \in Replicas : LifeStep(r)
      BY <2>1
    <3>2. CASE Forget(r)
      BY <1>0, <3>2, ForgetTransport DEF Forget, ReplicaInv, PollsOnly
    <3>3. CASE ~Forget(r)
      <4>1. UNCHANGED firstPoll
        BY <3>1, <3>3 DEF LifeStep, Start, BecomeLeader, Reconcile, ReconcileEnds, Stop, Exit, Crash,
            transportVars
      <4>2. replica[k] = "down"
        BY <1>0, <3>1, <3>3, LifeEffect
      <4> QED
        BY <1>0, <4>1, <4>2 DEF ReplicaInv
    <3> QED
      BY <3>2, <3>3
  <2>2. CASE UNCHANGED replica /\ ~\E r \in Replicas : LifeStep(r)
    <3>1. ASSUME NEW r \in Replicas, Poll(r) PROVE firstPoll'[k]
      <4>1. replica[r] # "down"
        BY <3>1 DEF Poll
      <4>2. firstPoll'[k] = firstPoll[k]
        BY <2>2, <3>1, <4>1, PollEffect DEF PollsOnly
      <4> QED
        BY <1>0, <2>2, <4>2 DEF ReplicaInv
    <3>2. ASSUME NEW r \in Replicas, ObjectStep(r) PROVE firstPoll'[k]
      BY <1>0, <2>2, <3>2, TakeEffect DEF ReplicaInv
    <3>3. ASSUME UNCHANGED transportVars PROVE firstPoll'[k]
      BY <1>0, <2>2, <3>3 DEF ReplicaInv, transportVars
    <3>4. UNCHANGED transportVars \/ \E r \in Replicas : Poll(r) \/ ObjectStep(r)
      BY <2>2, Steps DEF Send, ChangeLevel, UnitStep, Dispatch, Write, HandlerSucceeds, HandlerFails,
          othersUnchanged
    <3> QED
      BY <3>1, <3>2, <3>3, <3>4
  <2> QED
    BY <2>1, <2>2, ReplicaChanges
<1> QED
  BY <1>1, <1>2, <1>3 DEF ReplicaInv

\* What r's steps do to its units.
LEMMA UnitInvStep ==
    ASSUME BRInv, BRNext, NEW v \in Units
    PROVE  UnitInv(v)'
<1>0. PipelineTypes /\ UnitInv(v)
  BY DEF BRInv, BRTypeOK, PipelineTypes
<1>f. ASSUME held'[v] = held[v], processed'[v] = processed[v], active'[v] = active[v]
      PROVE  UnitInv(v)'
  BY <1>0, <1>f DEF UnitInv
<1>t. \A q \in Priorities : /\ held[v][q] \in Bundle \cup {Nil} /\ processed[v][q] \in Nat
                            /\ held[v][q] # Nil => held[v][q].generation \in Nat
  BY <1>0, BundleType DEF PipelineTypes
<1>a. \A a \in active[v] : a.priority \in Priorities /\ a.bundle \in Bundle /\ a.bundle.generation \in Nat
  BY <1>0, ActivityType
<1>1. ASSUME UNCHANGED pipelineVars PROVE UnitInv(v)'
  BY <1>1, <1>f DEF pipelineVars
<1>2. ASSUME NEW r \in Replicas, Insert(r) PROVE UnitInv(v)'
  <2> DEFINE o == transport[r].id
             b == transport[r].bundle
             u == <<r, o[1]>>
  <2>1. u \in Units /\ o[2] \in Priorities /\ b \in Bundle /\ b.generation \in Nat /\ b # Nil
    BY <1>2, FetchedType, BundleType DEF Insert
  <2>2. CASE Serial!Receive(u, o[2], b)
    <3> HIDE DEF o, b, u
    <3>1. /\ HeldIs(u, o[2], b)
          /\ b.generation > processed[u][o[2]]
          /\ held[u][o[2]] # Nil => b.generation > held[u][o[2]].generation
          /\ UNCHANGED <<processed, active, stored>>
      BY <1>0, <2>1, <2>2, ReceiveEffect
    <3>2. \A q \in Priorities : held'[v][q] = IF v = u /\ q = o[2] THEN b ELSE held[v][q]
      BY <3>1 DEF HeldIs
    <3>3. \A q \in Priorities : held'[v][q] # Nil => held'[v][q].generation > processed'[v][q]
      BY <1>0, <3>1, <3>2 DEF UnitInv
    <3>4. ASSUME NEW a \in active[v]
          PROVE  held'[v][a.priority] # Nil /\ held'[v][a.priority].generation >= a.bundle.generation
      BY <1>0, <1>t, <1>a, <2>1, <3>1, <3>2 DEF UnitInv
    <3> QED
      BY <1>0, <3>1, <3>3, <3>4 DEF UnitInv
  <2> QED
    BY <1>1, <1>2, <2>2, InsertEffect
<1>3. ASSUME NEW r \in Replicas, Forget(r) PROVE UnitInv(v)'
  <2>1. ForgetsUnits(r)
    BY <1>0, <1>3, ForgetEffect
  <2>2. CASE v[1] = r
    BY <2>1, <2>2 DEF ForgetsUnits, UnitInv
  <2>3. CASE v[1] # r
    BY <1>f, <2>1, <2>3 DEF ForgetsUnits
  <2> QED
    BY <2>2, <2>3
<1>4. ASSUME NEW r \in Replicas, NEW lh \in LeafHubs, UnitStep(r, lh) PROVE UnitInv(v)'
  <2> DEFINE u == <<r, lh>>
  <2>0. u \in Units
    BY UnitsType
  <2>1. CASE Dispatch(r, lh)
    <3>1. PICK p \in Priorities : Serial!Start(u, p)
      BY <2>1 DEF Dispatch
    <3> HIDE DEF u
    <3>2. /\ held[u][p] # Nil /\ active[u] = {} /\ ActiveIs(u, {[priority |-> p, bundle |-> held[u][p]]})
          /\ UNCHANGED <<held, processed, stored>>
      BY <1>0, <2>0, <3>1, StartEffect
    <3>3. CASE v = u
      <4>1. active'[v] = {[priority |-> p, bundle |-> held[v][p]]}
        BY <3>2, <3>3 DEF ActiveIs
      <4>2. held[v][p].generation >= held[v][p].generation /\ held[v][p].generation > processed[v][p]
        BY <1>0, <1>t, <3>2, <3>3 DEF UnitInv
      <4> QED
        BY <1>0, <3>2, <3>3, <4>1, <4>2 DEF UnitInv
    <3>4. CASE v # u
      BY <1>f, <3>2, <3>4 DEF ActiveIs
    <3> QED
      BY <3>3, <3>4
  <2>2. CASE Write(r, lh)
    <3>1. UNCHANGED <<held, processed, active>>
      BY <2>2 DEF Write, Serial!Store
    <3> QED
      BY <1>f, <3>1
  <2>3. CASE HandlerSucceeds(r, lh)
    <3>1. PICK a \in active[u] : Serial!Succeed(u, a)
      BY <2>3 DEF HandlerSucceeds
    <3> DEFINE p == a.priority
               h == held[u][p]
               n == IF h.generation = a.bundle.generation THEN Nil ELSE h
    <3>2. /\ \A w \in Units, q \in Priorities :
                 processed'[w][q] = IF w = u /\ q = p THEN a.bundle.generation ELSE processed[w][q]
          /\ HeldIs(u, p, n)
          /\ ActiveIs(u, {})
      BY <1>0, <2>0, <3>1, SucceedEffect
    <3>3. CASE v = u
      <4>1. active'[v] = {}
        BY <3>2, <3>3 DEF ActiveIs
      <4>2. /\ p \in Priorities /\ h # Nil /\ h.generation \in Nat /\ a.bundle.generation \in Nat
            /\ h.generation >= a.bundle.generation
        BY <1>0, <1>t, <1>a, <3>3 DEF UnitInv
      <4>3. \A q \in Priorities :
                /\ held'[v][q] = IF q = p THEN n ELSE held[v][q]
                /\ processed'[v][q] = IF q = p THEN a.bundle.generation ELSE processed[v][q]
        BY <3>2, <3>3 DEF HeldIs
      <4>4. \A q \in Priorities : held'[v][q] # Nil => held'[v][q].generation > processed'[v][q]
        BY <1>0, <4>2, <4>3 DEF UnitInv
      <4> QED
        BY <4>1, <4>4 DEF UnitInv
    <3>4. CASE v # u
      <4> HIDE DEF u, n
      <4>1. active'[v] = active[v]
        BY <3>2, <3>4 DEF ActiveIs
      <4>2. \A q \in Priorities : held'[v][q] = held[v][q] /\ processed'[v][q] = processed[v][q]
        BY <3>2, <3>4 DEF HeldIs
      <4> QED
        BY <1>0, <1>a, <4>1, <4>2 DEF UnitInv
    <3> QED
      BY <3>3, <3>4
  <2>4. CASE HandlerFails(r, lh)
    <3>1. ActiveIs(u, {}) /\ UNCHANGED <<held, processed, stored>>
      BY <1>0, <2>0, <2>4, FailEffect DEF HandlerFails
    <3> HIDE DEF u
    <3>2. CASE v = u
      BY <1>0, <3>1, <3>2 DEF ActiveIs, UnitInv
    <3>3. CASE v # u
      BY <1>f, <3>1, <3>3 DEF ActiveIs
    <3> QED
      BY <3>2, <3>3
  <2> QED
    BY <1>4, <2>1, <2>2, <2>3, <2>4 DEF UnitStep
<1> QED
  BY <1>1, <1>2, <1>3, <1>4, PipelineChanges

\* One leader at most: the lease.
LEMMA OneLeaderStep ==
    ASSUME BRInv, BRNext, NEW r \in Replicas, NEW s \in Replicas,
           replica'[r] = "leader", replica'[s] = "leader"
    PROVE  r = s
<1>0. /\ replica \in [Replicas -> {"down", "standby", "leader", "stopping"}]
      /\ \A i, j \in Replicas : replica[i] = "leader" /\ replica[j] = "leader" => i = j
  BY DEF BRInv, BRTypeOK
<1>1. CASE UNCHANGED replica
  BY <1>0, <1>1
<1>2. ASSUME NEW k \in Replicas, LifeStep(k) PROVE r = s
  <2>1. CASE BecomeLeader(k)
    <3>1. replica' = [replica EXCEPT ![k] = "leader"] /\ \A j \in Replicas : replica[j] # "leader"
      BY <2>1 DEF BecomeLeader
    <3> QED
      BY <1>0, <3>1
  <2>2. CASE UNCHANGED replica \/ \E x \in {"down", "standby", "stopping"} : replica' = [replica EXCEPT ![k] = x]
    BY <1>0, <2>2
  <2> QED
    BY <1>2, <2>1, <2>2, LifeEffect
<1> QED
  BY <1>1, <1>2, ReplicaChanges

\* Handlers work for a replica that leads or led.
LEMMA WorkingStep ==
    ASSUME BRInv, BRNext, NEW u \in Units, active'[u] # {}
    PROVE  replica'[u[1]] \in {"leader", "stopping"}
<1>0. /\ PipelineTypes /\ u[1] \in Replicas
      /\ replica \in [Replicas -> {"down", "standby", "leader", "stopping"}]
      /\ active[u] # {} => replica[u[1]] \in {"leader", "stopping"}
  BY UnitsType DEF BRInv, BRTypeOK, PipelineTypes
<1>1. ASSUME NEW r \in Replicas, LifeStep(r) PROVE replica'[u[1]] \in {"leader", "stopping"}
  <2>1. CASE Forget(r)
    <3>1. u[1] # r /\ active'[u] = active[u]
      BY <1>0, <2>1, ForgetEffect DEF ForgetsUnits
    <3> QED
      BY <1>0, <2>1, <3>1 DEF Forget
  <2>2. CASE ~Forget(r)
    <3>1. UNCHANGED active
      BY <1>1, <2>2 DEF LifeStep, Start, BecomeLeader, Reconcile, ReconcileEnds, Stop, Exit, Crash,
          pipelineVars
    <3>2. CASE Start(r)
      BY <1>0, <3>1, <3>2 DEF Start
    <3> QED
      BY <1>0, <1>1, <2>2, <3>1, <3>2, LifeEffect
  <2> QED
    BY <2>1, <2>2
<1>2. ASSUME UNCHANGED replica, ~\E r \in Replicas : LifeStep(r)
      PROVE  replica'[u[1]] \in {"leader", "stopping"}
  <2>1. CASE active[u] # {}
    BY <1>0, <1>2, <2>1
  <2>2. ASSUME NEW r \in Replicas, NEW lh \in LeafHubs, Dispatch(r, lh)
        PROVE  replica'[u[1]] \in {"leader", "stopping"}
    <3>1. CASE u = <<r, lh>>
      <4>1. u[1] = r
        BY <3>1
      <4> QED
        BY <1>2, <2>2, <4>1 DEF Dispatch
    <3>2. CASE u # <<r, lh>>
      <4>1. PICK p \in Priorities : Serial!Start(<<r, lh>>, p)
        BY <2>2 DEF Dispatch
      <4>2. <<r, lh>> \in Units
        BY UnitsType
      <4>3. PICK S : ActiveIs(<<r, lh>>, S)
        BY <1>0, <4>1, <4>2, StartEffect
      <4>4. active'[u] = active[u]
        BY <3>2, <4>3 DEF ActiveIs
      <4> QED
        BY <2>1, <4>4
    <3> QED
      BY <3>1, <3>2
  <2>3. ASSUME NEW r \in Replicas, NEW lh \in LeafHubs, HandlerSucceeds(r, lh) \/ HandlerFails(r, lh)
        PROVE  active[u] # {}
    <3>1. PICK k \in Units : ActiveIs(k, {})
      BY <1>0, <2>3, SucceedEffect, FailEffect, UnitsType DEF HandlerSucceeds, HandlerFails
    <3> QED
      BY <3>1 DEF ActiveIs
  <2>4. ASSUME UNCHANGED active PROVE active[u] # {}
    BY <2>4
  <2>5. ASSUME NEW r \in Replicas, Insert(r) PROVE UNCHANGED active
    <3>1. CASE UNCHANGED pipelineVars
      BY <3>1 DEF pipelineVars
    <3> QED
      BY <2>5, <3>1, InsertEffect DEF Serial!Receive
  <2>6. ASSUME NEW r \in Replicas, NEW lh \in LeafHubs, Write(r, lh) PROVE UNCHANGED active
    BY <2>6 DEF Write, Serial!Store
  <2>7. \/ UNCHANGED pipelineVars
        \/ \E r \in Replicas : Insert(r)
        \/ \E r \in Replicas, lh \in LeafHubs : UnitStep(r, lh)
    BY <1>2, Steps DEF Send, ChangeLevel, Poll, ObjectStep, Fetch, FetchFails, Skip,
        MarkObjectReceived, MarkFails
  <2> QED
    BY <2>1, <2>2, <2>3, <2>4, <2>5, <2>6, <2>7 DEF UnitStep, pipelineVars
<1> QED
  BY <1>1, <1>2, ReplicaChanges

LEMMA BRTypeStep ==
    ASSUME BRInv, BRNext
    PROVE  BRTypeOK'
<1>1. PipelineTypes' /\ ServiceTypes' /\ ManagerTypes' /\ TransportTypes'
  BY PipelineTypesStep, ServiceTypesStep, ManagerTypesStep, TransportTypesStep
<1>2. \A r \in Replicas : transport'[r].pc = "select" <=> transport'[r] = Selecting
  BY TransportTypesStep DEF Known
<1>3. \A r, s \in Replicas : replica'[r] = "leader" /\ replica'[s] = "leader" => r = s
  BY OneLeaderStep
<1>4. \A u \in Units : active'[u] # {} => replica'[u[1]] \in {"leader", "stopping"}
  BY WorkingStep
<1> QED
  BY <1>1, <1>2, <1>3, <1>4 DEF BRTypeOK, PipelineTypes, ServiceTypes, ManagerTypes, TransportTypes,
      TransportStates

-----------------------------------------------------------------------------
(***************************************************************************)
(* One replica: bundles on their way to the database.                      *)
(***************************************************************************)

\* The types of what FlowInv is about.
LEMMA FlowTypes ==
    ASSUME BRInv, NEW r \in Replicas, NEW o \in Objects
    PROVE  LET u == <<r, o[1]>>
               p == o[2]
           IN  /\ u \in Units /\ p \in Priorities /\ o = <<o[1], p>>
               /\ Generation(o) \in Nat /\ db[o] \in Nat
               /\ stored[u][p] \in Nat /\ processed[u][p] \in Nat
               /\ held[u][p] # Nil => held[u][p].generation \in Nat
               /\ object[o] # Nil => object[o].generation = Generation(o)
               /\ UnitInv(u) /\ ReplicaInv(r)
<1>1. ServiceTypes /\ PipelineTypes
  BY DEF BRInv, BRTypeOK, ServiceTypes, PipelineTypes
<1>2. <<r, o[1]>> \in Units /\ o[2] \in Priorities /\ o = <<o[1], o[2]>>
  BY UnitsType
<1>3. Generation(o) \in Nat /\ db[o] \in Nat /\ (object[o] # Nil => object[o].generation = Generation(o))
  BY <1>1, GenerationType DEF ServiceTypes, Generation
<1>4. /\ stored[<<r, o[1]>>][o[2]] \in Nat /\ processed[<<r, o[1]>>][o[2]] \in Nat
      /\ held[<<r, o[1]>>][o[2]] # Nil => held[<<r, o[1]>>][o[2]].generation \in Nat
  BY <1>1, <1>2, BundleType DEF PipelineTypes
<1> QED
  BY <1>2, <1>3, <1>4 DEF BRInv

\* The object, its mark and the database as they were.
SameObject(o) ==
    /\ object'[o] = object[o] /\ db'[o] = db[o]
    /\ received'[o] = received[o] /\ passedOver'[o] = passedOver[o]

SameUnit(r, o) ==
    LET u == <<r, o[1]>>
        p == o[2]
    IN  /\ held'[u][p] = held[u][p] /\ processed'[u][p] = processed[u][p]
        /\ stored'[u][p] = stored[u][p] /\ active'[u] = active[u]

LEMMA SameGeneration ==
    ASSUME NEW o, object'[o] = object[o]
    PROVE  Generation(o)' = Generation(o) /\ \A b : Older(b, o)' <=> Older(b, o)
BY DEF Generation, Older

LEMMA DBFrame ==
    ASSUME NEW r, NEW o, DBInv(r, o), object'[o] = object[o], db'[o] = db[o], SameUnit(r, o)
    PROVE  DBInv(r, o)'
BY SameGeneration DEF DBInv, SameUnit

LEMMA TransportFrame ==
    ASSUME NEW r, NEW o, TransportInv(r, o), object'[o] = object[o], db'[o] = db[o], SameUnit(r, o),
           transport'[r] = transport[r]
    PROVE  TransportInv(r, o)'
<1>1. \A g : Has(r, o, g)' <=> Has(r, o, g)
  BY DEF Has, SameUnit
<1> QED
  BY <1>1, SameGeneration DEF TransportInv, SameUnit

\* handleBundles is not busy with o.
NotAt(s, o) == s.pc = "select" \/ s.id # o

LEMMA TransportElsewhere ==
    ASSUME NEW r, NEW o, NotAt(transport'[r], o)
    PROVE  TransportInv(r, o)'
BY DEF TransportInv, NotAt

LEMMA KeptFrame ==
    ASSUME NEW r, NEW o, KeptInv(r, o), SameObject(o), OnItsWay(r, o) => OnItsWay(r, o)'
    PROVE  KeptInv(r, o)'
BY DEF KeptInv, SameObject

\* A unit that has the newest generation has this very bundle, or wrote it.
LEMMA HasNewest ==
    ASSUME BRInv, NEW r \in Replicas, NEW o \in Objects, FlowInv(r, o), Has(r, o, Generation(o)),
           db[o] < Generation(o)
    PROVE  held[<<r, o[1]>>][o[2]] = object[o]
BY FlowTypes DEF FlowInv, DBInv, Has, Older

LEMMA FlowSend ==
    ASSUME BRInv, NEW lh \in LeafHubs, NEW q \in Priorities, Send(lh, q),
           NEW r \in Replicas, NEW o \in Objects, FlowInv(r, o)
    PROVE  FlowInv(r, o)'
<1>0. ServiceTypes
  BY DEF BRInv, BRTypeOK, ServiceTypes
<1>1. UNCHANGED <<db, replica, firstPoll, polled, transport, held, processed, active, stored>>
  BY DEF Send, transportVars, pipelineVars
<1>2. SameUnit(r, o)
  BY <1>1 DEF SameUnit
<1>3. CASE o # <<lh, q>>
  <2>1. SameObject(o)
    BY <1>0, <1>1, <1>3, SendEffect DEF SameObject
  <2>2. OnItsWay(r, o)' <=> OnItsWay(r, o)
    BY <1>1, <2>1 DEF OnItsWay, SameObject
  <2> QED
    BY <1>1, <1>2, <2>1, <2>2, DBFrame, TransportFrame, KeptFrame DEF FlowInv, SameObject
<1>4. CASE o = <<lh, q>>
  <2>1. object'[o] \in Bundle /\ object'[o].generation = Generation(o) + 1 /\ received'[o] = FALSE
    BY <1>0, <1>4, SendEffect
  <2>2. Generation(o)' = Generation(o) + 1 /\ Generation(o) \in Nat
    BY <2>1, FlowTypes, BundleType DEF Generation
  <2>3. ASSUME NEW b, b.generation \in Nat, Older(b, o) PROVE Older(b, o)'
    BY <2>2, <2>3 DEF Older
  <2>4. DBInv(r, o)'
    BY <1>1, <2>2, <2>3, FlowTypes DEF FlowInv, DBInv
  <2>5. TransportInv(r, o)'
    <3>1. transport[r].pc = "fetched" => transport[r].bundle.generation \in Nat
      BY FetchedType
    <3>2. \A g : Has(r, o, g)' <=> Has(r, o, g)
      BY <1>1 DEF Has
    <3> QED
      BY <1>1, <2>3, <3>1, <3>2 DEF FlowInv, TransportInv
  <2>6. KeptInv(r, o)'
    BY <2>1 DEF KeptInv
  <2> QED
    BY <2>4, <2>5, <2>6 DEF FlowInv
<1> QED
  BY <1>3, <1>4

LEMMA FlowPoll ==
    ASSUME BRInv, NEW r \in Replicas, Poll(r), NEW o \in Objects, FlowInv(r, o)
    PROVE  FlowInv(r, o)'
<1>1. /\ UNCHANGED <<object, received, passedOver, db, replica, transport, held, processed, active, stored>>
      /\ replica[r] # "down" /\ polled[r] = {}
  BY DEF Poll, serviceVars, pipelineVars
<1>2. SameObject(o) /\ SameUnit(r, o)
  BY <1>1 DEF SameObject, SameUnit
<1>3. object[o] # Nil /\ firstPoll[r] => o \in polled'[r]
  BY PollEffect
<1>4. object[o] # Nil /\ OnItsWay(r, o) => OnItsWay(r, o)'
  BY <1>1, <1>3 DEF OnItsWay
<1>5. KeptInv(r, o)'
  BY <1>2, <1>4 DEF FlowInv, KeptInv, SameObject
<1> QED
  BY <1>1, <1>2, <1>5, DBFrame, TransportFrame DEF FlowInv, SameObject

\* A step that does not concern o, or not what is known of it.
LEMMA FlowFrame ==
    ASSUME NEW r, NEW o, FlowInv(r, o), SameObject(o), SameUnit(r, o), transport'[r] = transport[r],
           OnItsWay(r, o) => OnItsWay(r, o)'
    PROVE  FlowInv(r, o)'
BY DBFrame, TransportFrame, KeptFrame DEF FlowInv, SameObject

\* handleBundles goes on with another object, or with none.
LEMMA FlowElsewhere ==
    ASSUME NEW r, NEW o, FlowInv(r, o), SameUnit(r, o), object'[o] = object[o], db'[o] = db[o],
           NotAt(transport'[r], o), KeptInv(r, o)'
    PROVE  FlowInv(r, o)'
BY DBFrame, TransportElsewhere DEF FlowInv

LEMMA FlowFetch ==
    ASSUME BRInv, NEW r \in Replicas, NEW k \in Objects, Fetch(r, k), NEW o \in Objects, FlowInv(r, o)
    PROVE  FlowInv(r, o)'
<1>1. /\ UNCHANGED <<object, received, passedOver, db, replica, firstPoll, held, processed, active, stored>>
      /\ transport[r] = Selecting
  BY DEF Fetch, serviceVars, pipelineVars
<1>2. SameObject(o) /\ SameUnit(r, o)
  BY <1>1 DEF SameObject, SameUnit
<1>3. transport'[r] = [pc |-> "fetched", id |-> k, bundle |-> object[k]] /\ object[k] \in Bundle
  BY FetchEffect DEF TransportIs
<1>4. CASE o # k
  <2>1. polled \in [Replicas -> SUBSET Objects] /\ polled' = [polled EXCEPT ![r] = @ \ {k}]
    BY DEF Fetch, BRInv, BRTypeOK
  <2>2. o \in polled[r] => o \in polled'[r]
    BY <1>4, <2>1
  <2>3. OnItsWay(r, o) => OnItsWay(r, o)'
    BY <1>1, <2>2 DEF OnItsWay, Selecting
  <2>4. NotAt(transport'[r], o)
    BY <1>3, <1>4 DEF NotAt
  <2> QED
    BY <1>2, <2>3, <2>4, KeptFrame, FlowElsewhere DEF FlowInv, SameObject
<1>5. CASE o = k
  <2>1. KeptInv(r, o)'
    BY <1>1, <1>3, <1>5 DEF KeptInv, OnItsWay
  <2>2. object[o].generation = Generation(o) /\ Older(object[o], o)
    <3>1. object[o] # Nil /\ Generation(o) \in Nat
      BY <1>3, <1>5, FlowTypes, BundleType
    <3> QED
      BY <3>1 DEF Older, Generation
  <2>3. Older(object[o], o)'
    BY <1>1, <2>2, SameGeneration
  <2>4. db[o] <= Generation(o)
    BY DEF FlowInv, DBInv
  <2>5. held[<<r, o[1]>>][o[2]] # Nil => held[<<r, o[1]>>][o[2]].generation <= Generation(o)
    BY DEF FlowInv, DBInv, Older
  <2>6. TransportInv(r, o)'
    BY <1>1, <1>3, <1>5, <2>2, <2>3, <2>4, <2>5 DEF TransportInv
  <2> QED
    BY <1>2, <2>1, <2>6, DBFrame DEF FlowInv, SameObject
<1> QED
  BY <1>4, <1>5

\* An object that is given up is offered again, is with its unit, or is noted.
LEMMA FlowGiveUp ==
    ASSUME BRInv, NEW r \in Replicas, NEW k \in Objects, GiveUp(r, k), NEW o \in Objects, FlowInv(r, o),
           UNCHANGED <<object, received, db, replica, firstPoll, pipelineVars>>,
           o # k /\ OnItsWay(r, o) => OnItsWay(r, o)'
    PROVE  KeptInv(r, o)'
<1> SUFFICES ASSUME object[o] # Nil, db[o] < object[o].generation, received[o], ~passedOver'[o]
             PROVE  OnItsWay(r, o)'
    BY DEF KeptInv
<1>1. ~passedOver[o] /\ (o = k => Has(r, o, Generation(o)))
  BY GiveUpEffect DEF Notes
<1>2. OnItsWay(r, o)
  BY <1>1 DEF FlowInv, KeptInv
<1>3. CASE o = k
  <2>1. held[<<r, o[1]>>][o[2]] = object[o]
    BY <1>1, <1>3, HasNewest, FlowTypes
  <2> QED
    BY <2>1 DEF OnItsWay, pipelineVars
<1> QED
  BY <1>2, <1>3

LEMMA FlowFetchFails ==
    ASSUME BRInv, NEW r \in Replicas, NEW k \in Objects, FetchFails(r, k), NEW o \in Objects, FlowInv(r, o)
    PROVE  FlowInv(r, o)'
<1>1. /\ UNCHANGED <<object, received, db, replica, firstPoll, transport, pipelineVars>>
      /\ transport[r] = Selecting /\ GiveUp(r, k)
  BY DEF FetchFails
<1>2. SameUnit(r, o) /\ NotAt(transport'[r], o)
  BY <1>1 DEF SameUnit, NotAt, Selecting, pipelineVars
<1>3. polled \in [Replicas -> SUBSET Objects] /\ polled' = [polled EXCEPT ![r] = @ \ {k}]
  BY DEF FetchFails, BRInv, BRTypeOK
<1>4. o # k /\ o \in polled[r] => o \in polled'[r]
  BY <1>3
<1>5. o # k /\ OnItsWay(r, o) => OnItsWay(r, o)'
  BY <1>1, <1>4 DEF OnItsWay, pipelineVars
<1> QED
  BY <1>1, <1>2, <1>5, FlowGiveUp, FlowElsewhere

LEMMA FlowSkip ==
    ASSUME BRInv, NEW r \in Replicas, Skip(r), NEW o \in Objects, FlowInv(r, o)
    PROVE  FlowInv(r, o)'
<1> DEFINE k == transport[r].id
<1>1. /\ UNCHANGED <<object, received, db, replica, firstPoll, polled, pipelineVars>>
      /\ transport[r].pc = "fetched" /\ GiveUp(r, k) /\ Select(r)
  BY DEF Skip
<1>2. k \in Objects
  BY <1>1, FetchedType
<1>3. transport'[r] = Selecting
  BY <1>1, SelectEffect DEF BRInv, BRTypeOK, TransportTypes, TransportStates, TransportIs
<1>4. SameUnit(r, o) /\ NotAt(transport'[r], o)
  BY <1>1, <1>3 DEF SameUnit, NotAt, Selecting, pipelineVars
<1>5. o # k /\ OnItsWay(r, o) => OnItsWay(r, o)'
  BY <1>1 DEF OnItsWay, pipelineVars
<1> QED
  BY <1>1, <1>2, <1>4, <1>5, FlowGiveUp, FlowElsewhere

LEMMA FlowMark ==
    ASSUME BRInv, NEW r \in Replicas, MarkObjectReceived(r), NEW o \in Objects, FlowInv(r, o)
    PROVE  FlowInv(r, o)'
<1> DEFINE k == transport[r].id
           b == transport[r].bundle
<1>1. /\ UNCHANGED <<object, db, replica, firstPoll, polled, pipelineVars>>
      /\ transport[r].pc = "mark" /\ Select(r)
  BY DEF MarkObjectReceived
<1>2. Marks(k) /\ Notes(k, object[k] # b)
  BY MarkEffect
<1>3. transport'[r] = Selecting
  BY <1>1, SelectEffect DEF BRInv, BRTypeOK, TransportTypes, TransportStates, TransportIs
<1>4. SameUnit(r, o) /\ NotAt(transport'[r], o)
  BY <1>1, <1>3 DEF SameUnit, NotAt, Selecting, pipelineVars
<1>5. OnItsWay(r, o) => OnItsWay(r, o)'
  BY <1>1 DEF OnItsWay, pipelineVars
<1>6. KeptInv(r, o)'
  <2> SUFFICES ASSUME object[o] # Nil, db[o] < object[o].generation, received'[o], ~passedOver'[o]
               PROVE  OnItsWay(r, o)'
      BY <1>1 DEF KeptInv
  <2>1. ~passedOver[o] /\ (o = k => object[o] = b) /\ (o # k => received[o])
    BY <1>2 DEF Marks, Notes
  <2>2. CASE o # k
    BY <1>5, <2>1, <2>2 DEF FlowInv, KeptInv
  <2>3. CASE o = k
    <3>1. Has(r, o, b.generation) /\ b.generation = Generation(o)
      BY <1>1, <2>1, <2>3, FlowTypes DEF FlowInv, TransportInv
    <3>2. held[<<r, o[1]>>][o[2]] = object[o]
      BY <3>1, HasNewest, FlowTypes
    <3> QED
      BY <1>1, <3>2 DEF OnItsWay, pipelineVars
  <2> QED
    BY <2>2, <2>3
<1> QED
  BY <1>1, <1>4, <1>6, FlowElsewhere

LEMMA FlowMarkFails ==
    ASSUME BRInv, NEW r \in Replicas, MarkFails(r), NEW o \in Objects, FlowInv(r, o)
    PROVE  FlowInv(r, o)'
<1>1. /\ UNCHANGED <<object, received, passedOver, db, replica, firstPoll, polled, pipelineVars>>
      /\ transport[r].pc = "mark" /\ Select(r)
  BY DEF MarkFails, serviceVars
<1>2. transport'[r] = Selecting
  BY <1>1, SelectEffect DEF BRInv, BRTypeOK, TransportTypes, TransportStates, TransportIs
<1>3. SameUnit(r, o) /\ SameObject(o) /\ NotAt(transport'[r], o)
  BY <1>1, <1>2 DEF SameUnit, SameObject, NotAt, Selecting, pipelineVars
<1>4. OnItsWay(r, o) => OnItsWay(r, o)'
  BY <1>1 DEF OnItsWay, pipelineVars
<1> QED
  BY <1>1, <1>3, <1>4, KeptFrame, FlowElsewhere DEF FlowInv

\* The unit takes a bundle that is newer than what it has; o is the newest one.
LEMMA FlowInsert ==
    ASSUME BRInv, NEW r \in Replicas, Insert(r), NEW o \in Objects, FlowInv(r, o)
    PROVE  FlowInv(r, o)'
<1> DEFINE k == transport[r].id
           b == transport[r].bundle
           u == <<r, o[1]>>
           p == o[2]
<1>0. PipelineTypes
  BY DEF BRInv, BRTypeOK, PipelineTypes
<1>1. /\ UNCHANGED <<object, received, passedOver, db, replica, firstPoll, polled>>
      /\ transport[r].pc = "fetched"
  BY DEF Insert, serviceVars
<1>2. transport'[r] = [pc |-> "mark", id |-> k, bundle |-> b]
  BY MarkNextEffect DEF TransportIs
<1>3. /\ k \in Objects /\ <<r, k[1]>> \in Units /\ k[2] \in Priorities /\ b \in Bundle
      /\ b.generation \in Nat /\ b # Nil /\ k = <<k[1], k[2]>> /\ o = <<o[1], p>>
      /\ u \in Units /\ p \in Priorities
  BY <1>1, FetchedType, BundleType, UnitsType
<1>4. SameObject(o)
  BY <1>1 DEF SameObject
<1>5. CASE o # k
  <2>1. SameUnit(r, o)
    <3>1. CASE Has(r, k, b.generation)
      BY <3>1, InsertEffect DEF SameUnit, pipelineVars
    <3>2. CASE ~Has(r, k, b.generation)
      <4>1. Serial!Receive(<<r, k[1]>>, k[2], b)
        BY <3>2, InsertEffect
      <4>2. HeldIs(<<r, k[1]>>, k[2], b) /\ UNCHANGED <<processed, active, stored>>
        BY <1>0, <1>3, <4>1, ReceiveEffect
      <4>3. ~(u = <<r, k[1]>> /\ p = k[2])
        BY <1>3, <1>5
      <4>4. held'[u][p] = held[u][p]
        BY <1>3, <4>2, <4>3 DEF HeldIs
      <4> QED
        BY <4>2, <4>4 DEF SameUnit
    <3> QED
      BY <3>1, <3>2
  <2>2. NotAt(transport'[r], o)
    BY <1>2, <1>5 DEF NotAt
  <2>3. OnItsWay(r, o) => OnItsWay(r, o)'
    BY <1>1, <1>5, <2>1 DEF OnItsWay, SameUnit
  <2> QED
    BY <1>4, <2>1, <2>2, <2>3, KeptFrame, FlowElsewhere DEF FlowInv, SameObject
<1>6. CASE o = k
  <2>0. /\ db[o] <= b.generation /\ Older(b, o)
        /\ held[u][p] # Nil => held[u][p].generation <= b.generation
    BY <1>1, <1>6 DEF FlowInv, TransportInv
  <2>1. CASE Has(r, o, b.generation)
    <3>1. UNCHANGED pipelineVars
      BY <1>6, <2>1, InsertEffect
    <3>2. SameUnit(r, o) /\ Has(r, o, b.generation)'
      <4>1. transport'[r].bundle = b
        BY <1>2
      <4> QED
        BY <1>1, <2>1, <3>1, <4>1 DEF SameUnit, Has, pipelineVars
    <3>3. TransportInv(r, o)'
      BY <1>2, <3>2 DEF TransportInv
    <3>4. KeptInv(r, o)'
      <4> SUFFICES ASSUME object[o] # Nil, db[o] < object[o].generation, received[o], ~passedOver[o]
                   PROVE  OnItsWay(r, o)'
          BY <1>1 DEF KeptInv
      <4>1. OnItsWay(r, o)
        BY DEF FlowInv, KeptInv
      <4>2. CASE b = object[o]
        <5>1. b.generation = Generation(o) /\ db[o] < Generation(o)
          BY <4>2, FlowTypes
        <5>2. held[u][p] = object[o]
          BY <2>1, <5>1, HasNewest
        <5> QED
          BY <1>1, <3>1, <5>2 DEF OnItsWay, pipelineVars
      <4>3. CASE b # object[o]
        BY <1>1, <3>1, <4>1, <4>3 DEF OnItsWay, pipelineVars
      <4> QED
        BY <4>2, <4>3
    <3> QED
      BY <1>4, <3>2, <3>3, <3>4, DBFrame DEF FlowInv, SameObject
  <2>2. CASE ~Has(r, o, b.generation)
    <3>1. Serial!Receive(u, p, b)
      BY <1>6, <2>2, InsertEffect
    <3>2. /\ HeldIs(u, p, b) /\ UNCHANGED <<processed, active, stored>>
          /\ held[u][p] # Nil => b.generation > held[u][p].generation
      BY <1>0, <1>3, <3>1, ReceiveEffect
    <3>3. held'[u][p] = b
      BY <1>3, <3>2 DEF HeldIs
    <3>4. Older(b, o)'
      <4>1. transport'[r].bundle = b
        BY <1>2
      <4> QED
        BY <1>1, <2>0, <4>1, SameGeneration DEF Older
    <3>5. DBInv(r, o)'
      BY <1>1, <2>0, <3>2, <3>3, <3>4, SameGeneration DEF FlowInv, DBInv
    <3>6. TransportInv(r, o)'
      BY <1>2, <1>3, <3>3 DEF TransportInv, Has
    <3>7. KeptInv(r, o)'
      <4> SUFFICES ASSUME object[o] # Nil, db[o] < object[o].generation, received[o], ~passedOver[o]
                   PROVE  OnItsWay(r, o)'
          BY <1>1 DEF KeptInv
      <4>1. OnItsWay(r, o)
        BY DEF FlowInv, KeptInv
      <4>2. CASE b = object[o]
        BY <1>1, <3>3, <4>2 DEF OnItsWay
      <4>3. CASE held[u][p] = object[o]
        <5>1. b.generation > Generation(o) /\ b.generation <= Generation(o)
          BY <2>0, <3>2, <4>3, FlowTypes DEF Older
        <5> QED
          BY <1>3, <5>1, FlowTypes
      <4> QED
        BY <1>1, <4>1, <4>2, <4>3 DEF OnItsWay
    <3> QED
      BY <3>5, <3>6, <3>7 DEF FlowInv
  <2> QED
    BY <2>1, <2>2
<1> QED
  BY <1>5, <1>6

LEMMA FlowLife ==
    ASSUME BRInv, NEW r \in Replicas, LifeStep(r), NEW o \in Objects, FlowInv(r, o)
    PROVE  FlowInv(r, o)'
<1>0. /\ PipelineTypes /\ ReplicaInv(r) /\ <<r, o[1]>> \in Units /\ o[2] \in Priorities
      /\ replica \in [Replicas -> {"down", "standby", "leader", "stopping"}]
  BY UnitsType DEF BRInv, BRTypeOK, PipelineTypes
<1>1. UNCHANGED <<object, received, passedOver, db>>
  BY DEF LifeStep, Start, BecomeLeader, Reconcile, ReconcileEnds, Stop, Exit, Crash, Forget, serviceVars
<1>2. SameObject(o)
  BY <1>1 DEF SameObject
<1>3. CASE Forget(r)
  <2> DEFINE u == <<r, o[1]>>
  <2>1. ForgetsUnits(r)
    BY <1>0, <1>3, ForgetEffect
  <2>2. u[1] = r
    OBVIOUS
  <2>3. held'[u][o[2]] = Nil /\ processed'[u][o[2]] = 0 /\ stored'[u][o[2]] = 0 /\ active'[u] = {}
    BY <1>0, <2>1, <2>2 DEF ForgetsUnits
  <2>4. DBInv(r, o)'
    BY <1>1, <2>3, SameGeneration, FlowTypes DEF FlowInv, DBInv
  <2>5. transport'[r] = Selecting
    BY <1>3, ForgetTransport DEF TransportIs
  <2>6. TransportInv(r, o)'
    BY <2>5, TransportElsewhere DEF NotAt, Selecting
  <2>7. KeptInv(r, o)'
    BY <1>0, <1>3 DEF Forget, KeptInv, OnItsWay
  <2> QED
    BY <2>4, <2>6, <2>7 DEF FlowInv
<1>4. CASE ~Forget(r)
  <2>1. UNCHANGED <<transportVars, pipelineVars>>
    BY <1>4 DEF LifeStep, Start, BecomeLeader, Reconcile, ReconcileEnds, Stop, Exit, Crash
  <2>2. SameUnit(r, o)
    BY <2>1 DEF SameUnit, pipelineVars
  <2>3. OnItsWay(r, o) => OnItsWay(r, o)'
    BY <1>0, <1>1, <2>1 DEF OnItsWay, ReplicaInv, pipelineVars, transportVars
  <2> QED
    BY <1>2, <2>1, <2>2, <2>3, FlowFrame DEF transportVars
<1> QED
  BY <1>3, <1>4

\* The steps of handlers leave the transport and the sync service alone.
LEMMA FlowUnit ==
    ASSUME BRInv, NEW r \in Replicas, NEW lh \in LeafHubs, UnitStep(r, lh),
           NEW o \in Objects, FlowInv(r, o)
    PROVE  FlowInv(r, o)'
<1> DEFINE u == <<r, o[1]>>
           w == <<r, lh>>
           p == o[2]
<1>0. PipelineTypes /\ u \in Units /\ w \in Units /\ p \in Priorities /\ o = <<o[1], p>> /\ UnitInv(u)
  BY UnitsType DEF BRInv, BRTypeOK, PipelineTypes
<1>1. UNCHANGED <<object, received, passedOver, replica, firstPoll, polled, transport>>
  BY DEF UnitStep, Dispatch, Write, HandlerSucceeds, HandlerFails, othersUnchanged, serviceVars,
      transportVars
<1>t. /\ Generation(o) \in Nat /\ db[o] \in Nat /\ stored[u][p] \in Nat /\ processed[u][p] \in Nat
      /\ held[u][p] # Nil => held[u][p].generation \in Nat
      /\ object[o] # Nil => object[o].generation = Generation(o)
  BY FlowTypes
<1>f. ASSUME db'[o] = db[o], SameUnit(r, o) PROVE FlowInv(r, o)'
  <2>1. SameObject(o)
    BY <1>1, <1>f DEF SameObject
  <2>2. OnItsWay(r, o) => OnItsWay(r, o)'
    BY <1>1, <1>f DEF OnItsWay, SameUnit
  <2> QED
    BY <1>1, <1>f, <2>1, <2>2, FlowFrame
<1>a. ASSUME UNCHANGED <<db, held, processed, stored>>, NEW S, ActiveIs(w, S),
             w = u => \A a \in S : a.priority = p => db[o] <= a.bundle.generation
      PROVE  FlowInv(r, o)'
  <2>1. CASE w # u
    <3> HIDE DEF u, w
    <3>1. active'[u] = active[u]
      BY <1>0, <1>a, <2>1 DEF ActiveIs
    <3> QED
      BY <1>a, <1>f, <3>1 DEF SameUnit, u
  <2>2. CASE w = u
    <3>1. active'[u] = S
      BY <1>0, <1>a, <2>2 DEF ActiveIs
    <3>2. DBInv(r, o)'
      BY <1>1, <1>a, <2>2, <3>1, SameGeneration DEF FlowInv, DBInv
    <3>3. \A g : Has(r, o, g)' <=> Has(r, o, g)
      BY <1>a DEF Has
    <3>4. TransportInv(r, o)'
      BY <1>1, <1>a, <3>3, SameGeneration DEF FlowInv, TransportInv
    <3>5. KeptInv(r, o)'
      BY <1>1, <1>a DEF FlowInv, KeptInv, OnItsWay
    <3> QED
      BY <3>2, <3>4, <3>5 DEF FlowInv
  <2> QED
    BY <2>1, <2>2
<1>2. CASE Dispatch(r, lh)
  <2>1. PICK q \in Priorities : Serial!Start(w, q)
    BY <1>2 DEF Dispatch
  <2>2. /\ held[w][q] # Nil /\ ActiveIs(w, {[priority |-> q, bundle |-> held[w][q]]})
        /\ UNCHANGED <<held, processed, stored>>
    BY <1>0, <2>1, StartEffect
  <2>3. w = u /\ q = p => db[o] <= held[w][q].generation
    BY <2>2 DEF FlowInv, DBInv
  <2> QED
    BY <1>2, <1>a, <2>2, <2>3 DEF Dispatch
<1>3. CASE HandlerFails(r, lh)
  <2>1. ActiveIs(w, {}) /\ UNCHANGED <<held, processed, stored>> /\ UNCHANGED db
    BY <1>0, <1>3, FailEffect DEF HandlerFails
  <2> QED
    BY <1>a, <2>1
\* A handler writes the bundle it was started with, which is not older than what
\* the database has, nor newer than what the unit keeps.
<1>4. CASE Write(r, lh)
  <2>1. PICK a \in active[w] :
            /\ Serial!Store(w, a)
            /\ \A k \in Objects : db'[k] = IF k = <<lh, a.priority>> THEN a.bundle.generation ELSE db[k]
    BY <1>4, WriteEffect
  <2>2. /\ \A v \in Units, q \in Priorities :
               stored'[v][q] = IF v = w /\ q = a.priority THEN a.bundle.generation ELSE stored[v][q]
        /\ UNCHANGED <<held, processed, active>>
    BY <1>0, <2>1, StoreEffect
  <2>3. CASE o # <<lh, a.priority>>
    <3>1. ~(u = w /\ p = a.priority)
      BY <1>0, <2>3
    <3>2. db'[o] = db[o] /\ stored'[u][p] = stored[u][p]
      BY <1>0, <2>1, <2>2, <2>3, <3>1
    <3> QED
      BY <1>f, <2>2, <3>2 DEF SameUnit
  <2>4. CASE o = <<lh, a.priority>>
    <3>1. u = w /\ p = a.priority
      BY <1>0, <2>4
    <3>2. /\ held[u][p] # Nil /\ held[u][p].generation >= a.bundle.generation
          /\ \A c \in active[u] : c = a
      BY <1>0, <2>1, <3>1 DEF UnitInv
    <3>3. a.bundle.generation \in Nat
      BY <1>0, <2>1, ActivityType
    <3>4. db'[o] = a.bundle.generation /\ stored'[u][p] = a.bundle.generation
      BY <1>0, <2>1, <2>2, <2>4, <3>1
    <3>5. db[o] <= a.bundle.generation /\ processed[u][p] <= db[o] /\ Older(held[u][p], o)
      BY <2>1, <3>1, <3>2 DEF FlowInv, DBInv
    <3>6. Older(held[u][p], o)'
      BY <1>1, <2>2, <3>5, SameGeneration DEF Older
    <3>7. DBInv(r, o)'
      <4>1. db'[o] <= Generation(o)'
        BY <1>1, <1>t, <3>2, <3>3, <3>4, <3>5, SameGeneration DEF Older
      <4>2. stored'[u][p] <= db'[o] /\ processed'[u][p] <= db'[o] /\ db'[o] <= held'[u][p].generation
        BY <1>t, <2>2, <3>2, <3>3, <3>4, <3>5
      <4>3. \A c \in active'[u] : db'[o] <= c.bundle.generation
        BY <2>2, <3>2, <3>3, <3>4
      <4> QED
        BY <3>6, <4>1, <4>2, <4>3 DEF DBInv
    <3>8. TransportInv(r, o)'
      <4>1. \A g : Has(r, o, g)' <=> Has(r, o, g)
        BY <2>2 DEF Has
      <4>2. ASSUME transport[r].pc = "fetched", transport[r].id = o
            PROVE  db'[o] <= transport[r].bundle.generation
        <5>1. transport[r].bundle.generation \in Nat /\ held[u][p].generation <= transport[r].bundle.generation
          BY <3>2, <4>2, FetchedType DEF FlowInv, TransportInv
        <5> QED
          BY <1>t, <3>2, <3>3, <3>4, <5>1
      <4> QED
        BY <1>1, <2>2, <4>1, <4>2, SameGeneration DEF FlowInv, TransportInv
    <3>9. KeptInv(r, o)'
      <4>1. object[o] # Nil /\ db'[o] < object[o].generation => db[o] < object[o].generation
        BY <1>t, <3>3, <3>4, <3>5
      <4>2. OnItsWay(r, o)' <=> OnItsWay(r, o)
        BY <1>1, <2>2 DEF OnItsWay
      <4> QED
        BY <1>1, <4>1, <4>2 DEF FlowInv, KeptInv
    <3> QED
      BY <3>7, <3>8, <3>9 DEF FlowInv
  <2> QED
    BY <2>3, <2>4
\* What the handler succeeded with is in the database.
<1>5. CASE HandlerSucceeds(r, lh)
  <2>1. PICK a \in active[w] : Serial!Succeed(w, a)
    BY <1>5 DEF HandlerSucceeds
  <2> DEFINE n == IF held[w][a.priority].generation = a.bundle.generation
                  THEN Nil ELSE held[w][a.priority]
  <2>2. /\ stored[w][a.priority] = a.bundle.generation
        /\ \A v \in Units, q \in Priorities :
               processed'[v][q] = IF v = w /\ q = a.priority THEN a.bundle.generation ELSE processed[v][q]
        /\ HeldIs(w, a.priority, n) /\ ActiveIs(w, {}) /\ UNCHANGED stored
    BY <1>0, <2>1, SucceedEffect
  <2>3. UNCHANGED db
    BY <1>5 DEF HandlerSucceeds
  <2>4. active'[u] = {} \/ active'[u] = active[u]
    BY <1>0, <2>2 DEF ActiveIs
  <2>5. /\ \/ processed'[u][p] = processed[u][p] /\ held'[u][p] = held[u][p]
           \/ /\ processed'[u][p] = stored[u][p] /\ stored[u][p] \in Nat
              /\ \/ held'[u][p] = held[u][p]
                 \/ held'[u][p] = Nil /\ held[u][p] # Nil /\ held[u][p].generation = stored[u][p]
              /\ stored[u][p] >= processed[u][p]
    <3>1. CASE u = w /\ p = a.priority
      <4>1. /\ processed'[u][p] = a.bundle.generation
            /\ held'[u][p] = IF held[u][p].generation = a.bundle.generation THEN Nil ELSE held[u][p]
        BY <1>0, <2>2, <3>1 DEF HeldIs
      <4>2. held[u][p] # Nil /\ a.bundle.generation > processed[u][p] /\ a.bundle.generation \in Nat
        BY <1>0, <2>1, <3>1, ActivityType DEF UnitInv
      <4> QED
        BY <1>t, <2>2, <3>1, <4>1, <4>2
    <3>2. CASE ~(u = w /\ p = a.priority)
      <4> HIDE DEF u, w, n
      <4> QED
        BY <1>0, <2>2, <3>2 DEF HeldIs
    <3> QED
      BY <3>1, <3>2
  <2> HIDE DEF n, w
  <2>6. DBInv(r, o)'
    BY <1>1, <1>t, <2>2, <2>3, <2>4, <2>5, SameGeneration DEF FlowInv, DBInv
  <2>7. ASSUME NEW g \in Nat, Has(r, o, g) PROVE Has(r, o, g)'
    BY <1>t, <2>5, <2>7 DEF Has
  <2>8. TransportInv(r, o)'
    <3>1. transport[r].pc = "mark" => transport[r].bundle.generation \in Nat
      BY FetchedType
    <3> QED
      BY <1>1, <2>3, <2>5, <2>7, <3>1, SameGeneration DEF FlowInv, TransportInv
  <2>9. KeptInv(r, o)'
    <3> SUFFICES ASSUME object[o] # Nil, db[o] < object[o].generation, received[o], ~passedOver[o]
                 PROVE  OnItsWay(r, o)'
        BY <1>1, <2>3 DEF KeptInv
    <3>1. OnItsWay(r, o)
      BY DEF FlowInv, KeptInv
    <3>2. held[u][p] = object[o] => held'[u][p] = object[o]
      <4>1. stored[u][p] <= db[o]
        BY DEF FlowInv, DBInv
      <4> QED
        BY <1>t, <2>5, <4>1
    <3> QED
      BY <1>1, <3>1, <3>2 DEF OnItsWay
  <2> QED
    BY <2>6, <2>8, <2>9 DEF FlowInv
<1> QED
  BY <1>2, <1>3, <1>4, <1>5 DEF UnitStep

LEMMA FlowStep ==
    ASSUME BRInv, BRNext, OneReplica, NEW r \in Replicas, NEW o \in Objects
    PROVE  FlowInv(r, o)'
<1>0. FlowInv(r, o) /\ \A k \in Replicas : k = r
  BY DEF BRInv, OneReplica
<1>1. CASE \E lh \in LeafHubs, p \in Priorities : Send(lh, p)
  BY <1>0, <1>1, FlowSend
<1>2. CASE \E l \in Levels \cup {Nil} : ChangeLevel(l)
  <2>1. UNCHANGED <<serviceVars, db, replica, transportVars, pipelineVars>>
    BY <1>2 DEF ChangeLevel
  <2>2. SameObject(o) /\ SameUnit(r, o) /\ transport'[r] = transport[r]
    BY <2>1 DEF SameObject, SameUnit, serviceVars, transportVars, pipelineVars
  <2>3. OnItsWay(r, o)' <=> OnItsWay(r, o)
    BY <2>1 DEF OnItsWay, serviceVars, transportVars, pipelineVars
  <2> QED
    BY <1>0, <2>2, <2>3, FlowFrame
<1>3. CASE Poll(r)
  BY <1>0, <1>3, FlowPoll
<1>4. CASE ObjectStep(r)
  BY <1>0, <1>4, FlowFetch, FlowFetchFails, FlowSkip, FlowInsert, FlowMark, FlowMarkFails DEF ObjectStep
<1>5. CASE LifeStep(r)
  BY <1>0, <1>5, FlowLife
<1>6. CASE \E lh \in LeafHubs : UnitStep(r, lh)
  BY <1>0, <1>6, FlowUnit
<1> QED
  BY <1>0, <1>1, <1>2, <1>3, <1>4, <1>5, <1>6, Steps

-----------------------------------------------------------------------------
(***************************************************************************)
(* The theorems.                                                           *)
(***************************************************************************)

LEMMA BRInitInv == BRInit => BRInv
<1> SUFFICES ASSUME BRInit PROVE BRInv
    OBVIOUS
<1> USE BridgeAssumption
<1>1. /\ held = [u \in Units |-> [p \in Priorities |-> Nil]]
      /\ processed = [u \in Units |-> [p \in Priorities |-> 0]]
      /\ active = [u \in Units |-> {}]
      /\ stored = [u \in Units |-> [p \in Priorities |-> 0]]
  BY DEF BRInit, Serial!SDInit
<1>2. PipelineTypes
  BY <1>1 DEF PipelineTypes
<1>3. ServiceTypes
  <2>1. received \in [Objects -> BOOLEAN] /\ passedOver \in [Objects -> BOOLEAN]
    BY Zenon DEF BRInit
  <2> QED
    BY <2>1 DEF BRInit, ServiceTypes
<1>4. ManagerTypes
  <2>1. request \in [Replicas -> BOOLEAN]
    BY Zenon DEF BRInit
  <2>2. Full \in Levels
    BY DEF Levels
  <2> QED
    BY <2>1, <2>2 DEF BRInit, ManagerTypes
<1>5. TransportTypes
  <2>1. firstPoll \in [Replicas -> BOOLEAN]
    BY Zenon DEF BRInit
  <2>2. Selecting \in TransportStates
    BY DEF Selecting, TransportStates
  <2> QED
    BY <2>1, <2>2 DEF BRInit, TransportTypes
<1>6. \A r \in Replicas : transport[r] = Selecting /\ transport[r].pc = "select"
  BY DEF BRInit, Selecting
<1>7. BRTypeOK
  <2>1. \A r, s \in Replicas : replica[r] = "leader" /\ replica[s] = "leader" => r = s
    BY DEF BRInit
  <2>2. \A u \in Units : active[u] = {}
    BY <1>1
  <2> QED
    BY <1>2, <1>3, <1>4, <1>5, <1>6, <2>1, <2>2 DEF BRTypeOK, PipelineTypes, ServiceTypes, ManagerTypes,
        TransportTypes, TransportStates
<1>8. ASSUME NEW r \in Replicas PROVE ReplicaInv(r)
  <2>1. polled[r] = {} /\ firstPoll[r]
    BY DEF BRInit
  <2> QED
    BY <1>6, <2>1 DEF ReplicaInv
<1>9. ASSUME NEW u \in Units PROVE UnitInv(u)
  BY <1>1 DEF UnitInv
<1>10. ASSUME NEW r \in Replicas, NEW o \in Objects PROVE FlowInv(r, o)
  <2>1. <<r, o[1]>> \in Units /\ o[2] \in Priorities
    BY UnitsType
  <2>2. object[o] = Nil /\ db[o] = 0
    BY DEF BRInit
  <2>3. DBInv(r, o)
    BY <1>1, <2>1, <2>2 DEF DBInv, Generation
  <2>4. TransportInv(r, o) /\ KeptInv(r, o)
    BY <1>6, <2>2 DEF TransportInv, KeptInv
  <2> QED
    BY <2>3, <2>4 DEF FlowInv
<1> QED
  BY <1>7, <1>8, <1>9, <1>10 DEF BRInv

LEMMA BRStutter == BRInv /\ UNCHANGED brVars => BRInv'
<1> SUFFICES ASSUME BRInv, UNCHANGED brVars PROVE BRInv'
    OBVIOUS
<1> USE DEF brVars, serviceVars, configVars, transportVars, pipelineVars, bounds
<1>1. BRTypeOK'
  BY DEF BRInv, BRTypeOK
<1>2. ASSUME NEW r \in Replicas PROVE ReplicaInv(r)'
  BY DEF BRInv, ReplicaInv
<1>3. ASSUME NEW u \in Units PROVE UnitInv(u)'
  BY DEF BRInv, UnitInv
<1>4. ASSUME OneReplica, NEW r \in Replicas, NEW o \in Objects PROVE FlowInv(r, o)'
  <2>1. FlowInv(r, o)
    BY <1>4 DEF BRInv
  <2>2. SameObject(o) /\ SameUnit(r, o) /\ transport'[r] = transport[r]
    BY DEF SameObject, SameUnit
  <2>3. OnItsWay(r, o)' <=> OnItsWay(r, o)
    BY DEF OnItsWay
  <2> QED
    BY <2>1, <2>2, <2>3, FlowFrame
<1> QED
  BY <1>1, <1>2, <1>3, <1>4 DEF BRInv

LEMMA BRStepInv == BRInv /\ [BRNext]_brVars => BRInv'
<1> SUFFICES ASSUME BRInv, BRNext PROVE BRInv'
    BY BRStutter
<1> QED
  BY BRTypeStep, ReplicaInvStep, UnitInvStep, FlowStep DEF BRInv

LEMMA BRInvariance == BRSpec => []BRInv
BY BRInitInv, BRStepInv, PTL DEF BRSpec

\* Every variable keeps its type; handleBundles holds a bundle exactly when it
\* has fetched one; one replica leads at most, and handlers work only for a
\* replica that leads or has led, for any number of replicas.
THEOREM BRTypeCorrect == BRSpec => []BRTypeOK
<1>1. BRInv => BRTypeOK
  BY DEF BRInv
<1> QED
  BY <1>1, BRInvariance, PTL

\* The bridge as it is deployed, with one replica that crashes and restarts any
\* number of times: a bundle that is marked as received and not in the database
\* yet is in memory or will be offered again, unless it was passed over.
THEOREM MarkedIsNotForgotten ==
    ASSUME OneReplica, Replicas # {}
    PROVE  BRSpec => []NothingIsForgotten
<1>1. BRInv => NothingIsForgotten
  <2> SUFFICES ASSUME BRInv, NEW o \in Objects, object[o] # Nil, db[o] < object[o].generation,
                      received[o], ~passedOver[o]
               PROVE  \E r \in Replicas : OnItsWay(r, o)
      BY DEF NothingIsForgotten
  <2>1. PICK r \in Replicas : TRUE
    OBVIOUS
  <2>2. KeptInv(r, o)
    BY <2>1 DEF BRInv, FlowInv
  <2> QED
    BY <2>1, <2>2 DEF KeptInv
<1> QED
  BY <1>1, BRInvariance, PTL

\* With one replica no handler writes a bundle over a newer one, also not over
\* one that was written before a restart.
THEOREM NeverRegresses ==
    ASSUME OneReplica
    PROVE  BRSpec => DatabaseNeverRegresses
<1>1. BRInv /\ [BRNext]_brVars => [\A o \in Objects : db'[o] >= db[o]]_brVars
  <2> SUFFICES ASSUME BRInv, BRNext, NEW o \in Objects PROVE db'[o] >= db[o]
      OBVIOUS
  <2>0. db \in [Objects -> Nat]
    BY DEF BRInv, BRTypeOK
  <2>1. CASE UNCHANGED db
    BY <2>0, <2>1
  <2>2. ASSUME NEW r \in Replicas, NEW lh \in LeafHubs, Write(r, lh) PROVE db'[o] >= db[o]
    <3>1. PICK a \in active[<<r, lh>>] :
              \A k \in Objects : db'[k] = IF k = <<lh, a.priority>> THEN a.bundle.generation ELSE db[k]
      BY <2>2, WriteEffect
    <3>2. CASE o = <<lh, a.priority>>
      <4>1. o[1] = lh /\ o[2] = a.priority
        BY <3>2
      <4>2. DBInv(r, o)
        BY DEF BRInv, FlowInv
      <4>3. db[o] <= a.bundle.generation
        BY <3>1, <4>1, <4>2 DEF DBInv
      <4>4. a.bundle.generation \in Nat
        BY <3>1, ActivityType, UnitsType DEF BRInv, BRTypeOK, PipelineTypes
      <4> QED
        BY <2>0, <3>1, <3>2, <4>3, <4>4
    <3> QED
      BY <2>0, <3>1, <3>2
  <2> QED
    BY <2>1, <2>2, ServiceChanges DEF Send, FetchFails, Skip, MarkObjectReceived
<1> QED
  BY <1>1, BRInvariance, PTL DEF BRSpec, DatabaseNeverRegresses
=============================================================================

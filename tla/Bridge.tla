------------------------------- MODULE Bridge -------------------------------
(***************************************************************************)
(* The bridge between the sync service and the database: the transport of  *)
(* every replica (pkg/transport/sync-service), the aggregation level that  *)
(* the config controller reads (pkg/controller/config), the start, the     *)
(* election and the end of replicas (cmd/manager) and, composed with them, *)
(* the pipeline of every replica as SerialDelivery describes it.           *)
(*                                                                         *)
(* The transport of a replica runs from its start; its dispatcher and its  *)
(* config controller run while it is the leader.  What a replica has in    *)
(* memory is gone when it ends.                                            *)
(*                                                                         *)
(* External, as the code uses them: the leaf hubs; the sync service, which *)
(* keeps the newest object of every type of a leaf hub, offers an object   *)
(* at every poll until it is marked as received, and offers received ones  *)
(* only at the first poll of a client; the lease of the leader.            *)
(***************************************************************************)
EXTENDS ConflationUnit

CONSTANTS
    Replicas,
    LeafHubs,
    Full, Minimal,    \* the aggregation levels
    FullTypes,        \* types registered with fullStatusPredicate
    MinimalTypes,     \* types registered with minimalStatusPredicate
    InitialLevels,    \* levels with which the resource may exist at first, or Nil
    MaxGeneration,    \* MaxGeneration[p]: bound on the bundles of type p
    MaxStops,         \* bound on crashes, signals and lost leases
    MaxLevelChanges   \* bound on changes of the configuration

Levels == {Full, Minimal}
Units == Replicas \X LeafHubs      \* every replica has a unit per leaf hub
Objects == LeafHubs \X Priorities  \* object ids: LH_ID.MSG_ID

ASSUME BridgeAssumption ==
    /\ Full # Minimal
    /\ Nil \notin Levels
    /\ FullTypes \cup MinimalTypes \subseteq Priorities
    /\ FullTypes \cap MinimalTypes = {}
    /\ InitialLevels \subseteq Levels \cup {Nil}
    /\ MaxGeneration \in [Priorities -> Nat]
    /\ MaxStops \in Nat
    /\ MaxLevelChanges \in Nat

VARIABLES
    object,      \* object[o]: the newest bundle in the sync service, or Nil
    received,    \* received[o]: whether it is marked as received
    passedOver,  \* history: it is marked, but was not read or not taken
    db,          \* db[o]: the generation that is in the database
    level,       \* the level in the Config resource, or Nil
    replica,     \* replica[r]: "down", "standby", "leader" or "stopping"
    config,      \* config[r]: the level in r's memory
    writing,     \* writing[r]: the level Reconcile is writing there, or Nil
    request,     \* request[r]: whether a request waits for Reconcile
    firstPoll,   \* firstPoll[r]: whether r has not polled yet
    polled,      \* polled[r]: objects of a poll not taken by the transport yet
    transport,   \* transport[r]: where handleBundles is, and what it holds
    held, processed, active, stored,   \* the pipelines, see SerialDelivery
    stops, levelChanges                \* count what is bounded

Serial == INSTANCE SerialDelivery WITH
    LeafHubs <- Units, bundles <- [p \in Priorities |-> Bundle]

serviceVars == <<object, received, passedOver>>
configVars == <<config, writing, request>>
transportVars == <<firstPoll, polled, transport>>
pipelineVars == <<held, processed, active, stored>>
bounds == <<stops, levelChanges>>
brVars == <<serviceVars, db, level, replica, configVars, transportVars, pipelineVars, bounds>>

\* handleBundles in its select.
Selecting == [pc |-> "select", id |-> Nil, bundle |-> Nil]

BRTypeOK ==
    /\ object \in [Objects -> Bundle \cup {Nil}]
    /\ received \in [Objects -> BOOLEAN]
    /\ passedOver \in [Objects -> BOOLEAN]
    /\ db \in [Objects -> Nat]
    /\ level \in Levels \cup {Nil}
    /\ replica \in [Replicas -> {"down", "standby", "leader", "stopping"}]
    /\ config \in [Replicas -> Levels]
    /\ writing \in [Replicas -> Levels \cup {Nil}]
    /\ request \in [Replicas -> BOOLEAN]
    /\ firstPoll \in [Replicas -> BOOLEAN]
    /\ polled \in [Replicas -> SUBSET Objects]
    /\ transport \in [Replicas -> [pc : {"select", "fetched", "mark"}, id : Objects \cup {Nil},
                                   bundle : Bundle \cup {Nil}]]
    /\ held \in [Units -> [Priorities -> Bundle \cup {Nil}]]
    /\ processed \in [Units -> [Priorities -> Nat]]
    /\ active \in [Units -> SUBSET Serial!Activity]
    /\ stored \in [Units -> [Priorities -> Nat]]
    /\ stops \in 0 .. MaxStops
    /\ levelChanges \in 0 .. MaxLevelChanges
    /\ \A r \in Replicas : transport[r].pc = "select" <=> transport[r] = Selecting
    \* Only the leader works, one at a time.
    /\ \A r, s \in Replicas : replica[r] = "leader" /\ replica[s] = "leader" => r = s
    /\ \A u \in Units : active[u] # {} => replica[u[1]] \in {"leader", "stopping"}

\* The database and the sync service are new; the configuration may exist.
BRInit ==
    /\ Serial!SDInit
    /\ object = [o \in Objects |-> Nil]
    /\ received = [o \in Objects |-> FALSE]
    /\ passedOver = [o \in Objects |-> FALSE]
    /\ db = [o \in Objects |-> 0]
    /\ level \in InitialLevels
    /\ replica = [r \in Replicas |-> "down"]
    /\ config = [r \in Replicas |-> Full]
    /\ writing = [r \in Replicas |-> Nil]
    /\ request = [r \in Replicas |-> FALSE]
    /\ firstPoll = [r \in Replicas |-> TRUE]
    /\ polled = [r \in Replicas |-> {}]
    /\ transport = [r \in Replicas |-> Selecting]
    /\ stops = 0
    /\ levelChanges = 0

-----------------------------------------------------------------------------
(***************************************************************************)
(* The leaf hubs and the sync service.                                     *)
(***************************************************************************)

Generation(o) == IF object[o] = Nil THEN 0 ELSE object[o].generation

\* A leaf hub sends its next bundle of type p, which replaces the last one; a
\* dependant bundle is made for the newest bundle it depends on.
Send(lh, p) ==
    LET o == <<lh, p>>
        b == [generation |-> Generation(o) + 1,
              dependencyGeneration |->
                  IF dependency[p] = Nil THEN 0 ELSE Generation(<<lh, dependency[p]>>)]
    IN  /\ b.generation <= MaxGeneration[p]
        /\ object' = [object EXCEPT ![o] = b]
        /\ received' = [received EXCEPT ![o] = FALSE]
        /\ passedOver' = [passedOver EXCEPT ![o] = FALSE]
        /\ UNCHANGED <<db, level, replica, configVars, transportVars, pipelineVars, bounds>>

\* The poller of r, which started with r and polls again when the transport has
\* taken everything: all objects not received, and received ones the first time.
Poll(r) ==
    /\ replica[r] # "down"
    /\ polled[r] = {}
    /\ polled' = [polled EXCEPT ![r] =
           {o \in Objects : object[o] # Nil /\ (firstPoll[r] \/ ~received[o])}]
    /\ firstPoll' = [firstPoll EXCEPT ![r] = FALSE]
    /\ UNCHANGED <<serviceVars, db, level, replica, configVars, transport, pipelineVars, bounds>>

-----------------------------------------------------------------------------
(***************************************************************************)
(* The transport: handleBundles of replica r.                              *)
(***************************************************************************)

\* What r's pipeline has processed or keeps to be processed.
Has(r, o, g) ==
    LET u == <<r, o[1]>>
    IN  \/ processed[u][o[2]] >= g
        \/ held[u][o[2]] # Nil /\ held[u][o[2]].generation >= g

Select(r) == transport' = [transport EXCEPT ![r] = Selecting]

\* An object taken from a poll is given up without being marked.  It is offered
\* again, unless it was marked before: by an earlier run of the bridge.
GiveUp(r, o) ==
    passedOver' = [passedOver EXCEPT ![o] = @ \/ (received[o] /\ ~Has(r, o, Generation(o)))]

\* FetchObjectData reads the newest data of the object.
Fetch(r, o) ==
    /\ replica[r] # "down"
    /\ transport[r] = Selecting
    /\ o \in polled[r]
    /\ polled' = [polled EXCEPT ![r] = @ \ {o}]
    /\ transport' = [transport EXCEPT ![r] = [pc |-> "fetched", id |-> o, bundle |-> object[o]]]
    /\ UNCHANGED <<serviceVars, db, level, replica, configVars, firstPoll, pipelineVars, bounds>>

\* The data cannot be fetched, or not parsed.
FetchFails(r, o) ==
    /\ replica[r] # "down"
    /\ transport[r] = Selecting
    /\ o \in polled[r]
    /\ polled' = [polled EXCEPT ![r] = @ \ {o}]
    /\ GiveUp(r, o)
    /\ UNCHANGED <<object, received, db, level, replica, configVars, firstPoll, transport,
                   pipelineVars, bounds>>

\* The predicates read the level while Reconcile may be writing it, without a
\* lock: they see the old one, the new one, or a string that is neither.
Predicate(p, l) == (p \in FullTypes => l = Full) /\ (p \in MinimalTypes => l = Minimal)

Reads(r) == IF writing[r] = Nil THEN {config[r]} ELSE {config[r], writing[r], "torn"}

\* Mutant of Skip: a bundle that nobody wants is marked as received.
SkipAndMark(r) ==
    LET o == transport[r].id
    IN  /\ replica[r] # "down"
        /\ transport[r].pc = "fetched"
        /\ \E l \in Reads(r) : ~Predicate(o[2], l)
        /\ received' = [received EXCEPT ![o] = TRUE]
        /\ Select(r)
        /\ UNCHANGED <<object, passedOver, db, level, replica, configVars, firstPoll, polled,
                       pipelineVars, bounds>>

\* The predicate is false: the bundle is not marked as received.
Skip(r) ==
    LET o == transport[r].id
    IN  /\ replica[r] # "down"
        /\ transport[r].pc = "fetched"
        /\ \E l \in Reads(r) : ~Predicate(o[2], l)
        /\ GiveUp(r, o)
        /\ Select(r)
        /\ UNCHANGED <<object, received, db, level, replica, configVars, firstPoll, polled,
                       pipelineVars, bounds>>

\* Mutant of Insert: a bundle that arrives while its leaf hub is being handled is
\* dropped.
InsertIfIdle(r) ==
    LET o == transport[r].id
        b == transport[r].bundle
    IN  /\ replica[r] # "down"
        /\ transport[r].pc = "fetched"
        /\ \E l \in Reads(r) : Predicate(o[2], l)
        /\ IF Has(r, o, b.generation) \/ active[<<r, o[1]>>] # {}
           THEN UNCHANGED pipelineVars
           ELSE Serial!Receive(<<r, o[1]>>, o[2], b)
        /\ transport' = [transport EXCEPT ![r].pc = "mark"]
        /\ UNCHANGED <<serviceVars, db, level, replica, configVars, firstPoll, polled, bounds>>

\* The predicate is true: Insert gives the bundle to the unit of its leaf hub,
\* which takes it if it is newer than what it has.
Insert(r) ==
    LET o == transport[r].id
        b == transport[r].bundle
    IN  /\ replica[r] # "down"
        /\ transport[r].pc = "fetched"
        /\ \E l \in Reads(r) : Predicate(o[2], l)
        /\ IF Has(r, o, b.generation) THEN UNCHANGED pipelineVars
                                      ELSE Serial!Receive(<<r, o[1]>>, o[2], b)
        /\ transport' = [transport EXCEPT ![r].pc = "mark"]
        /\ UNCHANGED <<serviceVars, db, level, replica, configVars, firstPoll, polled, bounds>>

\* MarkObjectReceived, after Insert.  The sync service marks the object, even if
\* the leaf hub has replaced it since it was fetched.
MarkObjectReceived(r) ==
    LET o == transport[r].id
    IN  /\ replica[r] # "down"
        /\ transport[r].pc = "mark"
        /\ received' = [received EXCEPT ![o] = TRUE]
        /\ passedOver' = [passedOver EXCEPT ![o] = @ \/ object[o] # transport[r].bundle]
        /\ Select(r)
        /\ UNCHANGED <<object, db, level, replica, configVars, firstPoll, polled, pipelineVars, bounds>>

\* The mark fails, or the sync service refuses it: it is not tried again.
MarkFails(r) ==
    /\ replica[r] # "down"
    /\ transport[r].pc = "mark"
    /\ Select(r)
    /\ UNCHANGED <<serviceVars, db, level, replica, configVars, firstPoll, polled, pipelineVars, bounds>>

-----------------------------------------------------------------------------
(***************************************************************************)
(* The configuration.                                                      *)
(***************************************************************************)

\* The Config resource is created, changed or deleted; a controller that runs
\* gets a request.
ChangeLevel(l) ==
    /\ l # level
    /\ levelChanges < MaxLevelChanges
    /\ level' = l
    /\ levelChanges' = levelChanges + 1
    /\ request' = [r \in Replicas |-> request[r] \/ replica[r] = "leader"]
    /\ UNCHANGED <<serviceVars, db, replica, config, writing, transportVars, pipelineVars, stops>>

\* Reconcile: Get begins to write the resource into the shared Config.  If the
\* resource does not exist the level stays; after any other error the request
\* comes again.
Reconcile(r) ==
    /\ replica[r] = "leader"
    /\ request[r]
    /\ writing[r] = Nil
    /\ request' = [request EXCEPT ![r] = FALSE]
    /\ writing' = [writing EXCEPT ![r] = level]
    /\ UNCHANGED <<serviceVars, db, level, replica, config, transportVars, pipelineVars, bounds>>

ReconcileEnds(r) ==
    /\ writing[r] # Nil
    /\ config' = [config EXCEPT ![r] = writing[r]]
    /\ writing' = [writing EXCEPT ![r] = Nil]
    /\ UNCHANGED <<serviceVars, db, level, replica, request, transportVars, pipelineVars, bounds>>

-----------------------------------------------------------------------------
(***************************************************************************)
(* The life of a replica.                                                  *)
(***************************************************************************)

\* doMain: the transport starts before the manager and before the election; the
\* level is Full until the controller has read it.
Start(r) ==
    /\ replica[r] = "down"
    /\ replica' = [replica EXCEPT ![r] = "standby"]
    /\ UNCHANGED <<serviceVars, db, level, configVars, transportVars, pipelineVars, bounds>>

\* The replica gets the lease; its manager starts the config controller, which
\* asks for the resource, and the dispatcher.
BecomeLeader(r) ==
    /\ replica[r] = "standby"
    /\ \A s \in Replicas : replica[s] # "leader"
    /\ replica' = [replica EXCEPT ![r] = "leader"]
    /\ request' = [request EXCEPT ![r] = TRUE]
    /\ UNCHANGED <<serviceVars, db, level, config, writing, transportVars, pipelineVars, bounds>>

\* A signal, or the lease is lost: mgr.Start returns.  Handlers go on until the
\* process ends.
Stop(r) ==
    /\ replica[r] = "leader"
    /\ stops < MaxStops
    /\ stops' = stops + 1
    /\ replica' = [replica EXCEPT ![r] = "stopping"]
    /\ UNCHANGED <<serviceVars, db, level, configVars, transportVars, pipelineVars, levelChanges>>

\* The memory of r is lost.
Forget(r) ==
    /\ replica' = [replica EXCEPT ![r] = "down"]
    /\ config' = [config EXCEPT ![r] = Full]
    /\ writing' = [writing EXCEPT ![r] = Nil]
    /\ request' = [request EXCEPT ![r] = FALSE]
    /\ firstPoll' = [firstPoll EXCEPT ![r] = TRUE]
    /\ polled' = [polled EXCEPT ![r] = {}]
    /\ Select(r)
    /\ held' = [u \in Units |-> IF u[1] = r THEN [p \in Priorities |-> Nil] ELSE held[u]]
    /\ processed' = [u \in Units |-> IF u[1] = r THEN [p \in Priorities |-> 0] ELSE processed[u]]
    /\ active' = [u \in Units |-> IF u[1] = r THEN {} ELSE active[u]]
    /\ stored' = [u \in Units |-> IF u[1] = r THEN [p \in Priorities |-> 0] ELSE stored[u]]
    /\ UNCHANGED <<serviceVars, db, level, levelChanges>>

Exit(r) ==
    /\ replica[r] = "stopping"
    /\ Forget(r)
    /\ UNCHANGED stops

Crash(r) ==
    /\ replica[r] \in {"standby", "leader"}
    /\ stops < MaxStops
    /\ stops' = stops + 1
    /\ Forget(r)

-----------------------------------------------------------------------------
(***************************************************************************)
(* The pipeline of replica r, for leaf hub lh.                             *)
(***************************************************************************)

othersUnchanged ==
    UNCHANGED <<serviceVars, level, replica, configVars, transportVars, bounds>>

\* Mutants of Dispatch: a replica that is not the leader dispatches, or a bundle is
\* dispatched while another one of its leaf hub is in process.
DispatchStandby(r, lh) ==
    /\ replica[r] # "down"
    /\ \E p \in Priorities : Serial!Start(<<r, lh>>, p)
    /\ UNCHANGED db
    /\ othersUnchanged

DispatchConcurrently(r, lh) ==
    LET u == <<r, lh>>
    IN  /\ replica[r] \in {"leader", "stopping"}
        /\ \E p \in Priorities :
               /\ held[u][p] # Nil
               /\ active' = [active EXCEPT ![u] = @ \cup {[priority |-> p, bundle |-> held[u][p]]}]
        /\ UNCHANGED <<held, processed, stored, db>>
        /\ othersUnchanged

\* Only a leader dispatches; a dispatcher that is told to stop may still be in
\* its loop.
Dispatch(r, lh) ==
    /\ replica[r] \in {"leader", "stopping"}
    /\ \E p \in Priorities : Serial!Start(<<r, lh>>, p)
    /\ UNCHANGED db
    /\ othersUnchanged

\* The database executes what the handler sent.
Write(r, lh) ==
    /\ \E a \in active[<<r, lh>>] :
           /\ Serial!Store(<<r, lh>>, a)
           /\ db' = [db EXCEPT ![<<lh, a.priority>>] = a.bundle.generation]
    /\ othersUnchanged

HandlerSucceeds(r, lh) ==
    /\ \E a \in active[<<r, lh>>] : Serial!Succeed(<<r, lh>>, a)
    /\ UNCHANGED db
    /\ othersUnchanged

\* Mutant of HandlerFails: the bundle is not handled again.
HandlerFailsForGood(r, lh) ==
    /\ \E a \in active[<<r, lh>>] :
           held' = [held EXCEPT ![<<r, lh>>][a.priority] = IF @ = a.bundle THEN Nil ELSE @]
    /\ active' = [active EXCEPT ![<<r, lh>>] = {}]
    /\ UNCHANGED <<processed, stored, db>>
    /\ othersUnchanged

HandlerFails(r, lh) ==
    /\ Serial!Fail(<<r, lh>>)
    /\ UNCHANGED db
    /\ othersUnchanged

-----------------------------------------------------------------------------
TransportStep(r) ==
    \/ \E o \in Objects : Fetch(r, o)
    \/ Skip(r)
    \/ Insert(r)
    \/ MarkObjectReceived(r)

PipelineStep(r, lh) == Dispatch(r, lh) \/ Write(r, lh) \/ HandlerSucceeds(r, lh)

ManagerStep(r) ==
    \/ Start(r)
    \/ BecomeLeader(r)
    \/ Reconcile(r)
    \/ ReconcileEnds(r)
    \/ Exit(r)

\* What fails now and then.
Fault(r) ==
    \/ \E o \in Objects : FetchFails(r, o)
    \/ MarkFails(r)
    \/ \E lh \in LeafHubs : HandlerFails(r, lh)

BRNext ==
    \/ \E lh \in LeafHubs, p \in Priorities : Send(lh, p)
    \/ \E l \in Levels \cup {Nil} : ChangeLevel(l)
    \/ \E r \in Replicas :
           \/ Poll(r)
           \/ TransportStep(r)
           \/ ManagerStep(r)
           \/ Stop(r)
           \/ Crash(r)
           \/ \E lh \in LeafHubs : PipelineStep(r, lh)
           \/ Fault(r)

BRSpec == BRInit /\ [][BRNext]_brVars

\* Goroutines keep running, a replica that ended is started again, some replica
\* gets the lease, and faults come to an end.
BRFairSpec ==
    /\ BRSpec
    /\ \A r \in Replicas :
           /\ WF_brVars(Poll(r))
           /\ WF_brVars(TransportStep(r))
           /\ WF_brVars(ManagerStep(r))
           /\ \A lh \in LeafHubs : WF_brVars(PipelineStep(r, lh))
           /\ <>[][~Fault(r)]_brVars
-----------------------------------------------------------------------------
(***************************************************************************)
(* Properties.                                                             *)
(***************************************************************************)

\* Object o is on its way to the database through replica r.
OnItsWay(r, o) ==
    \/ replica[r] = "down"
    \/ firstPoll[r]
    \/ o \in polled[r]
    \/ transport[r].pc = "fetched" /\ transport[r].id = o /\ transport[r].bundle = object[o]
    \/ held[<<r, o[1]>>][o[2]] = object[o]

\* Although a bundle is marked as received as soon as it is in memory, what the
\* database does not have yet is offered again or on its way, however the bridge
\* crashes and restarts.  It is forgotten only if it was passed over: skipped
\* after a restart although it was marked, or marked instead of the one before it.
NothingIsForgotten ==
    \A o \in Objects :
        object[o] # Nil /\ db[o] < object[o].generation =>
            ~received[o] \/ passedOver[o] \/ \E r \in Replicas : OnItsWay(r, o)

\* Handlers rely on it: "if we got inside the handler function, then the bundle
\* generation is newer than what was already handled".  No bundle is written over
\* a newer one, restarts of the bridge included.
DatabaseNeverRegresses == [][\A o \in Objects : db'[o] >= db[o]]_brVars

\* Types that the Config resource asks for are in the database in the end, those
\* included that were skipped while another level was in force or was being
\* written, unless they or the bundle they depend on were passed over.
EventuallyInSync ==
    <>[](\A o \in Objects :
            \/ object[o] = Nil
            \/ level = Nil
            \/ ~Predicate(o[2], level)
            \/ passedOver[o]
            \/ dependency[o[2]] # Nil /\ passedOver[<<o[1], dependency[o[2]]>>]
            \/ db[o] = object[o].generation)
=============================================================================

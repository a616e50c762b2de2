# Verification of the hub-of-hubs status transport bridge

The bridge receives status bundles of many leaf hubs from a transport (the edge sync service), keeps
the newest bundle of each type in memory, and writes them to PostgreSQL with a pool of workers. This
directory holds TLA+ specifications of its parts, the TLC configurations that check them on small
instances, and proofs, checked by TLAPS, that hold for every instance.

## The system

| Component | State | Operations | Talks to |
|---|---|---|---|
| Sync service transport (`pkg/transport/sync-service`) | registrations, polling channel | poll, fetch, check predicate, `Insert`, `MarkObjectReceived`, `Stop` | conflation manager |
| Conflation manager (`pkg/conflator/conflation_manager.go`) | units by leaf hub, registrations | `Register`, `Insert`, `getConflationUnit` | units |
| Conflation unit (`conflation_unit.go`), one per leaf hub | one element per bundle type: bundle, metadata, `isInProcess`, `lastProcessedBundleGeneration`; `isInReadyQueue` | `insert`, `GetNext`, `ReportResult`, each under the unit's lock | ready queue |
| Ready queue (`ready_queue.go`) | list of units, condition variable | `Enqueue`, `BlockingDequeue` | units, dispatcher |
| Dispatcher (`pkg/controller/dispatcher`) | goroutine | dequeue a unit, acquire a worker, `GetNext`, `RunAsync` | ready queue, pool, units |
| DB worker pool (`pkg/db/worker-pool`) | channel of available workers; per worker a queue of one job | `Acquire`, `RunAsync`, the worker's loop, `Stop` | handlers, units |
| Policies db syncer (`pkg/dbsyncer`) | none in memory; tables `compliance`, `aggregated_compliance` | handlers of clusters per policy, compliance and minimal compliance bundles | database |
| Managed clusters db syncer | table `managed_clusters` | handler of managed clusters bundles | database |
| PostgreSQL layer and batch builders (`pkg/db/postgresql`) | batch being built | queries, `Insert`/`Update`/`Delete`, `Build`, `SendBatch` | database |
| Config controller (`pkg/controller/config`) | the configuration, shared with the transport's predicates | `Reconcile` | transport's predicates |
| Manager set-up (`cmd/manager`, `pkg/controller`) | contexts and channels of all the others | set-up, leader election, the deferred `Stop`s | all |

What is hard here: the transport goroutine, the dispatcher and the workers meet in the units, and a
unit's readiness is announced at one time and used at another; bundles are redelivered and reordered
and depend on one another; a handler may fail before or after the database did what it asked for, in
the middle of a batch, or without noticing; a worker, a wakeup or a unit that is forgotten once is
forgotten for good. A bundle is marked as received before it is stored, so a crash loses what only the
first poll of the next process brings back; a replica consumes bundles before it leads; `main` closes
channels under goroutines that nobody waits for. `PROJECT.json` lists these hazards at their lines, with the properties that watch
them.

What makes the components correct:

- pipeline: the newest bundle of each type is kept until it was written; one handler at a time per
  leaf hub; handlers see newer bundles only, and bases before dependants; whatever is ready is
  eventually processed; no worker, unit or wakeup is lost;
- db syncers: when the newest bundles were handled, the table says what the leaf hub said, whatever
  failed and was retried on the way, and it comes to that once failures end (of the minimal compliance
  handler this holds for the policies that were sent, see below);
- batch builder: however statements are cut, the batch does what was asked for row by row;
- transport, configuration and restarts: what the sync service holds and the level asks for reaches the
  database, which never goes back to an older bundle;
- shutdown: the process ends, although the database may never answer, and its orderly exit cuts no query.

## Modules

| Module | Models | Proofs |
|---|---|---|
| `ConflationUnit` | data of a unit, the conditions of `insert`, readiness and dependencies (no variables) | |
| `SerialDelivery` | abstract specification: what the pipeline promises the handlers | `HandlerLemmas` |
| `DispatchPipeline` | units, ready queue, dispatcher and workers; refines `SerialDelivery` | `DispatchPipelineProofs`, with the refinement |
| `BatchStatements` | the statements of the batch builders and what a batch does to a leaf hub's rows (no variables) | `HandlerLemmas` |
| `PoliciesDBSyncer` | the compliance table and its two handlers, called as `SerialDelivery` says | `PoliciesProofs` |
| `ManagedClustersDBSyncer` | the managed_clusters table and its handler, called as `SerialDelivery` says | `ManagedClustersProofs` |
| `MinimalComplianceDBSyncer` | the aggregated_compliance table and its handler, statement by statement, called as `SerialDelivery` says | `MinimalComplianceProofs` |
| `BatchBuilder` | how the policies' builder collects and numbers arguments and cuts statements; what the statements mean is `BatchStatements` | `BatchBuilderProofs` |
| `Bridge` | sync service transport, config controller, leader election, crash and restart; contains `SerialDelivery` as the pipeline of every replica | `BridgeProofs` |
| `Shutdown` | the deferred calls of `doMain` against the goroutines that still run | `ShutdownProofs` |
| `MCDispatchPipeline`, `MCPoliciesDBSyncer`, `MCManagedClustersDBSyncer`, `MCMinimalComplianceDBSyncer`, `MCBatchBuilder`, `MCBridge` | values of the constants for TLC | |
| `MCRefusedBundles` | `DispatchPipeline` with a database that refuses some bundles for ever | |

`SerialDelivery` joins the parts: the pipeline is shown to implement it, and the syncers and `Bridge` are
built on it instead of on the pipeline's details. Definitions whose comment says "mutant" are deliberate
errors; `PROJECT.json` pairs each with the property that must notice it when it replaces the original.

### DispatchPipeline and the code

The transport's `Insert` is `InsertNewer` or `InsertOld`; the dispatcher's loop is `DispatcherWait`,
`BlockingDequeue`, `Acquire`, then `GetNext` (with `RunAsync`) or `GetNextFails`; a worker's loop is
`Register`, `HandlerSucceeds` or `HandlerFails`, then `ReportSuccess` or `ReportFailure`. A method that
runs under the unit's lock is one step, including `addCUToReadyQueueIfNeeded` and `Enqueue` at its end.
`GetNext` and `RunAsync` are one step because the dispatcher does nothing in between that another
goroutine could observe, and a worker that was acquired has room in its queue (`WorkerHolds`).
`ReportResult`'s two outcomes are two actions.

- A type is named by its priority, a bundle is its generation and the generation of its base. Contents
  do not influence the pipeline.
- Metadata objects have addresses, because `insert` either overwrites the object it finds or allocates
  a new one, and workers keep pointers. A new object is any address no job points to; Go frees an
  object only when nobody does. At most one job per type and leaf hub exists, so two addresses suffice.
- A unit that does not exist yet is in its initial state: `getConflationUnit` creates it so.
- `dbWorkers` is a set although the channel is first in, first out: `Acquire` may return any available
  worker, which allows more than the code does.
- `stored` records the last generation whose statements the database executed. A failed handler may
  have written or not. What a handler writes is the subject of the syncer modules.
- `delivered` is a history variable: the highest generation the transport handed over.
- The transport may deliver any bundle at any time, any number of times, in any order.
- Generations are unbounded integers. The code's `uint64` would have to count to 2^64 to wrap.

### PoliciesDBSyncer and the code

A handler is called (`CallHandler`), reads rows (`Select`, `SelectFails`), builds a batch from them and
the bundle (`ClustersPerPolicyBatches`, `ComplianceBatch`), sends it (`SendBatch`, `SendBatchFails`) and
returns (`HandlerReturns`). Bundles go on arriving between these steps.

- A statement (`BatchStatements`) has an operation, the columns that select the rows it changes, and
  values for them; a batch is a sequence of statements in the order of `Build` (inserts, policy updates,
  policy deletions, cluster updates, cluster deletions in map order). Every statement names the leaf
  hub, so each leaf hub's rows are a table of their own. A batch of the model also keeps the statements
  that have no rows, which change nothing; `HasStatements` says whether the code would send one.
- A failed batch may have executed any number of its first statements. The driver sends a batch so
  that PostgreSQL runs it as one transaction; the properties do not need that.
- `InitialTables` are the rows the bridge may find when it starts: none, or what an earlier run wrote.
- The database is assumed to have no unique index; one would turn a second insert into a failed batch. A
  table is a set of rows, so an INSERT of an exact duplicate would not be seen: the properties that a key has
  one row notice rows that differ in the other columns.
- `QueriesMayFail` says whether a query may end early. The code drops the error of `Query` and does not
  ask `rows.Err`, so the handler continues with the rows that arrived.
- A compliance bundle reports a cluster in one state.

### ManagedClustersDBSyncer and the code

The steps are those of the policies handlers, and so are the assumptions about the database. A row is a
cluster and the resource version of its payload: the handler compares nothing else, and Kubernetes
changes the version with every change of the object. Clusters without a row are inserted, rows with
another version are updated, rows of clusters that were not sent are deleted, in that order (`Build`).

### MinimalComplianceDBSyncer and the code

`SelectPolicyIDs` is `GetPolicyIDsByLeafHub`; `SelectExists` and `InsertOrUpdate` are the two statements of
`InsertOrUpdateAggregatedPolicyCompliance`, once for each object of the bundle in any order;
`DeleteAllComplianceRows` follows for each policy that was not sent; `Finish` returns nil. `StatementFails`
is every early return, where a statement that failed may have been executed. A bundle has each policy
once, and the two counts of a policy are one value.

The repository has no schema. The statements look rows up, update and insert them by a column `id` and list
and delete them by a column `policy_id`, which none of them fills. `policyColumns`, chosen from `ColumnChoices`
at the start, are the columns that the table has, and `named` in a row those that hold the policy's name
there; the others are NULL, as the INSERT leaves `policy_id`. The rows that an earlier run or whoever changed
the table left may have `policy_id` filled or not. A statement that names a column the table does not have
fails, the listing of policies without the handler noticing, and a listing that meets a NULL returns an error.

### BatchBuilder and the code

`args` and `rowsCount` are the fields of both builders, by kind of statement. `Add` is the common body of
`insert`, `update`, `delete` and `UpdateClusterCompliance`; `BuildBatch` is `Build`. A statement keeps the
numbers of rows and columns its text was generated from, and `Meaning` reads its arguments through the
positions in that text: `$(i * columns + j)` for the rows of an INSERT or UPDATE, `$2` or `$3` onwards in
a DELETE. `asked` is a history variable: the table if each operation had been a statement of its own at
once. As in the handlers, no cluster of a policy is touched by two operations of a batch, inserts are of
rows that do not exist and deletions of rows that do. The managed clusters builder is the same base
builder with other columns.

### Bridge and the code

Every replica has a transport (`Fetch`, `FetchFails`, `Skip`, `Insert`, `MarkObjectReceived`, `MarkFails`: the
cases of `handleBundles`), a copy of the configuration (`Reconcile`, `ReconcileEnds`) and a pipeline with a
unit for each leaf hub. `Start` is `doMain` up to `mgr.Start`, with the transport running; `BecomeLeader` is
what the manager starts with the lease: the controller and the dispatcher. `Stop` and `Exit` are an
orderly end, `Crash` is any other; both lose the memory (`Forget`).

- An object of the sync service is the newest bundle of a type of a leaf hub. It is offered until it is
  marked, and marked objects are offered at the first poll of a client. This is how the client library
  behaves as the code uses it; it is not in the repository.
- `Fetch` reads what the object holds then, and the mark is by id: it may cover a newer bundle.
- The predicates read the level while `Reconcile` writes it, without a lock: they may see the old value,
  the new one, or neither.
- `passedOver` is a history variable. It marks the two ways in which a marked bundle can miss the
  database with one replica: the process crashed after the mark and its successor skipped the bundle at
  its first poll (as the level is Full until the controller has read it, a Minimal bundle can meet
  this) or could not fetch it; or the mark covered a bundle that was not read. The leaf hub's next
  bundle repairs both. `NothingIsForgotten` and `EventuallyInSync` say that there is no third way.
- What a database executes late for a process that crashed is not modelled.

### Shutdown and the code

`main` moves through the deferred calls of `doMain`: `CloseStopChan` and `CloseObjectsChan` (the transport's
`Stop`), `CancelPool`, `CloseConns` with `ConnsReturned`, and `CloseWorkers` (the pool's `Stop`), then `Exit`.
`CancelDispatcher` is the stop event, which the dispatcher's `Start` may get at any time after the manager
returned. The goroutines are reduced to the points where they use a channel, a context or a connection;
of conflation only the set of announced leaf hubs is left. A send on a closed channel and the use of a
nil received from one end the process with a panic (`panicked`).

## Runs

| Run | Instance | Checks | States |
|---|---|---|---|
| `pipeline_safety` | 2 leaf hubs, 2 workers, the two types that depend on each other, bases that move, generation 0 | the promises to handlers, metadata, no lost wakeup, no regress, `Inv` (with `TypeOK` and `BundleOutlivesJob`), refinement of `SerialDelivery` | 317,560 |
| `pipeline_liveness` | 2 leaf hubs, 1 worker, all compliance bundles on base 1, those of one leaf hub refused for ever | no unit or worker lost, `Acquire` returns, ready bundles are processed, a refusal delays nobody else | 87,780 |
| `policies_sync` | 2 policies, 2 clusters, 2 bundles of each type, all compliance bundles on base 2, five contents each, tables of earlier runs | the table is the leaf hub's status and comes to be it once failures end, handlers keep to their rows | 240,835 |
| `managed_clusters_sync` | 2 clusters in 2 versions, 3 bundles with any contents, tables of earlier runs | the table is the newest bundle, one row per cluster, listed clusters never vanish | 302,248 |
| `minimal_compliance_sync` | 2 policies with 2 counts, 2 bundles with any contents, either or both columns, tables of earlier runs | policies that were sent have their counts and come to have them once failures end, no other `policy_id` is left, one row per policy, policies that were sent keep theirs | 76,398 |
| `batch_builder` | 2 policies, clusters and limits small enough that statements are cut after one row, after some, or never | the batch does what was asked, its placeholders fit, statements are cut | 78,888 |
| `bridge` | 1 replica, one end of it at any point, a Config resource that appears, a type with two bundles and one that depends on it | nothing is forgotten, no regress, in sync in the end | 453,785 |
| `shutdown` | 2 leaf hubs, 2 workers | the process ends; which of its ends may cut a query | 131,230 |
| `unit_forgotten`, `minimal_policies_left`, `bridge_two_replicas`, `worker_panics` | 1 leaf hub, 1 worker, bases that move; the column `id` alone; two replicas; 1 leaf hub, 1 worker | expected violations, see below | |

Bounds. Two workers and two leaf hubs are the least that can run handlers of one leaf hub at once or
make one leaf hub wait for another. Two generations make a newer bundle replace one that is unseen, in
the queue, in process, or failed; generation 0 is the boundary of `insert`. One worker is the worst
case for liveness. In the policies syncer, two policies and two clusters let the bundles insert, keep, update
and delete rows of the same policy and of different ones, and two bundles of each type make a retry
meet a table that an older bundle left. Both compliance bundles are made for the second clusters per policy
bundle, since their handler is sure to be called only if bases do not move (see Fairness); the safety
properties are proved for any bases. In the managed clusters syncer, two clusters in two versions let
one bundle insert, update and delete at once, and three bundles let a retry with a newer bundle meet
what a failed one wrote. Syncers have one leaf hub: statements never reach another one's rows, which
`BatchBuilder`, whose table has rows of two leaf hubs, checks. One end of the process is enough in
`Bridge`: the second one meets the same empty memory. The
level starts without a Config resource, so it is Full; the resource that appears changes it to Minimal or
writes Full again while predicates read it, and a bundle that is skipped then has to come back;
the level changes once. Leaf hubs, workers and
metadata addresses are symmetric in `pipeline_safety`. The pipeline never deadlocks, as the transport may always deliver; the
syncers' runs end when the finitely many bundles were handled, so deadlock is not checked there.

Fairness (`Fairness` in `DispatchPipeline`). Weak fairness of the dispatcher and of each worker: they are goroutines the Go
scheduler runs, and handlers return. Strong fairness of success for each type of each leaf hub: a
handler that is called again and again succeeds at some time. The code retries at once and without
limit, so this is an assumption about the database. Nothing is assumed of the transport. `RefusingSpec`
leaves out the bundles that are refused.

In the syncers (`PSFairSpec`, `MNFairSpec`) and in `Bridge` (`BRFairSpec`) a handler is called for a bundle that
is held and whose base was processed, and a handler that was called goes on. The call is what the pipeline
guarantees if bases do not move (`NoUnitIsForgotten` with the fairness above); `unit_forgotten` shows that it
does not if they do. So the bundles of these runs have bases that do not move: `policies_sync` has one base,
`minimal_compliance_sync` none, and `bridge` one dependant bundle. Failures come to an end: as a
handler starts from the beginning after an error, it would not be enough that each statement succeeds now
and then. `SentCountsCatchUp` is about tables with the column `id` alone: with other columns there are tables
on which a statement never succeeds. `BRFairSpec` also assumes that a process that ended is started again and that a replica gets the
lease, which is what the deployment does. `SHFairSpec` assumes that `main` runs on and that a query ends when
its context is cancelled; the database may never answer.

### Where the code does not do what it says

Four runs show a violation:

1. `unit_forgotten`: `pipeline_liveness` holds as long as a newer bundle does not ask for a newer base than
   the bundle it replaces. Without that restriction a unit is queued because of compliance bundle 1, and
   before the dispatcher gets to it, compliance bundle 2 replaces it and needs a base that was not
   processed. `GetNext` then finds no ready bundle, which its comment says should not happen
   (`conflation_unit.go:112`), and returns without resetting `isInReadyQueue`. The unit is not in the queue
   and believes it is, so `addCUToReadyQueueIfNeeded` never announces it again: the leaf hub's status is
   not updated until the bridge restarts. The safety properties of `pipeline_safety` hold in spite of it.
2. `minimal_policies_left`: the minimal compliance handler writes rows by the column `id` and lists and
   deletes them by `policy_id`. In a table with `id` the listing fails, its error is dropped
   (`postgresql.go:183`), nothing is deleted, and a bundle counts as handled while policies it does not list
   keep their rows. A table with both columns is no way out: `policy_id` is NULL in the rows that were
   inserted, so the next listing can not scan them and every bundle fails; with `policy_id` alone every
   write fails.
3. `bridge_two_replicas`: a replica that waits for the lease already consumes bundles (`main.go:61`). It
   holds bundle 1; the leader writes bundle 2, which is marked and not offered again; the standby becomes
   the leader and writes bundle 1 over it. The deployment asks for one replica, but two run at once while
   it is updated. A standby that ends after marking a bundle takes it with it in the same way.
4. `worker_panics`: "if dispatcher was stopped do not process more bundles" (`dispatcher.go:50`), but the
   dispatcher looks at its context only before it waits for a unit and a worker (`dispatcher.go:54`), and hands
   out the bundle that it waited for. The worker takes the job although its context is cancelled, its handler
   ends with an error for want of a connection, and it returns to the pool, which has closed the channel of workers
   without waiting for them (`db_worker_pool.go:57`): the process panics. A job handed out before the stop
   ends in the same way if it is reported after the close, and the dispatcher, the transport and the poller can
   panic in channels closed under them too.

The models also show these, each after a change of one line:

- `bundles <- MovingBase` in `PipelineLiveness.cfg`: `GetNextFindsBundle` and `AcquireReturns` fail. When
  `GetNext` fails the dispatcher continues without returning the worker it
  acquired (`dispatcher.go:58-61`); when all workers are lost this way, `Acquire` blocks forever.
- `QueriesMayFail = TRUE` in `ManagedClustersSync.cfg`: `TableMatchesBundle` and
  `OneRowPerManagedCluster` fail. The error of the query is dropped (`postgresql.go:97`), so that clusters that
  did not arrive look like clusters without a row.
- `QueriesMayFail = TRUE` in `PoliciesSync.cfg`: `RowsMatchPlacement` and `OneRowPerCluster` fail in the same way
  (`postgresql.go:125`), although "whatever is in the db and cannot be found in the bundle has to be deleted from
  the db" (`policies_transport_to_db_syncer.go:72`).
- `StatementsAreCut` without its exception: the clusters to delete of one policy become one statement of
  any size (`policies_batch_builder.go:83`), while all others are cut at `maxArgsInStatement`.

## Proofs

Every invariant and every action property of the passing runs, and the refinement, is also a theorem: it
holds for all sets of leaf hubs, workers, replicas, types, bundles, policies, clusters and rows that satisfy
the assumptions of the modules, for batches of any length, and for any number of failures, retries, crashes
and restarts. The exceptions are the liveness properties (see the end of this section).

The assumptions are named in the module that declares the constants. Most say what kind of value a constant
is: priorities are naturals, `dependency` maps a type to a type or `Nil`, a bundle is a record of two
naturals, `Nil` is none of the values that occur next to it. Those that say more:

- `SyncerAssumption`, `ManagedClustersAssumption`, `MinimalComplianceAssumption`: the bridge finds tables in
  which a key has at most one row. Policies are finitely many, since Go ranges over a finite map.
- `BuilderAssumption`: the limit on arguments is positive (`maxArgsInStatement` is 50000,
  `base_batch_builder.go:14`). A deletion starts with the leaf hub's name as argument, so with limit 0 the
  builder would cut statements without rows.

Hypotheses of single theorems mark what the code does not guarantee by itself. All but `OneBasePerBundle`,
which says what a bundle is, are there because a run or a changed constant shows the property fail without
them (see above):

| Hypothesis | Theorems | Without it |
|---|---|---|
| `BasesDoNotMove`: a newer bundle needs no newer base than an older one | `GetNextNeverFails`, `NoUnitIsForgotten` | `unit_forgotten` |
| `~QueriesMayFail`: a SELECT returns all rows | what the tables say, one row per cluster | `QueriesMayFail = TRUE` |
| `OneBasePerBundle`: a compliance bundle is made for one clusters per policy bundle | `TableIsLeafHubStatus` | two bundles with one generation would be one report for two placements |
| `OneReplica` (`replicas: 1` in the deployment) | `NothingIsForgotten`, `DatabaseNeverRegresses` | `bridge_two_replicas` |

`MarkedIsNotForgotten` also needs a replica to exist. All other theorems have no hypothesis.
`pipeline_liveness` runs `RefusingSpec`, whose steps are steps of `Next`, so the theorems about `Spec` cover it.

### Pipeline

`DispatchPipelineProofs` proves that `Inv` is inductive, with one lemma per action, and derives from it
`TypeOK`, `OneJobPerLeafHub`, `HandledBundleIsNewer`, `DependencyHandledFirst`, `NewestBundleSurvives`,
`ProcessedIsStored`, `JobMetadataMatchesBundle` with `BundleOutlivesJob`, and the action property
`StoredNeverRegresses`. `DispatcherSleepsOnlyIfIdle` is proved with it. None of these is inductive
alone. `Inv` adds:

- `AnnouncedOnce`: a unit is in the queue or with the dispatcher at most once, marked so, and has
  nothing in process then. This is why the job `GetNext` makes is the only one of its leaf hub, and it
  survives `GetNextFails` because the flag only ever errs in one direction.
- `DispatcherHolds`, `WorkerHolds`: what the dispatcher and a worker hold at each point of their loops;
  a worker that is available or acquired has no job.
- `ElementInv`: the bundle in memory is the newest delivered, its metadata agrees with it, it is newer
  than what was processed and not older than what is stored; without a bundle, what was delivered,
  processed and stored is the same.
- `JobInv`: while a worker has a job its element is in process, so `insert` leaves the job's metadata
  alone; the element keeps a bundle at least as new; the base it needs is stored.

`AnnouncedInv` strengthens this under `BasesDoNotMove`: a unit's flag is set exactly while the unit is
announced, an announced unit has a ready bundle, and a unit with a ready bundle and nothing in process has
its flag set. The critical step is `InsertNewer` on an announced unit: the bundle that made it ready may be
replaced, and the new one is ready too because its base is no newer.

The refinement `Spec => Serial!SDSpec` reads `held`, `processed` and `active` off the elements and the jobs:
`InsertNewer` is `Receive`, `GetNext` is `Start`, a handler that writes is `Store`, the reports are `Succeed`
and `Fail`, and everything else stutters.

### Handlers

`HandlerLemmas` holds what the proofs about the syncers share: `SDInv`, an inductive invariant of
`SerialDelivery` (one handler per leaf hub, working on a bundle newer than what was processed, which the
unit keeps or has replaced by a newer one), and what batches do. `ExecuteFirst`, the effect of the first n
statements of a batch, is a recursive function; `ExecuteFirstStep` proves its recursive equation and
`SetInduction` the induction over batches, both from the minimal element of a set of naturals.

Each syncer's invariant (`PSInv`, `MCInv`, `MNInv`) is `SDInv`, the types, and `HubInv` of each leaf hub.
`HubInv` follows the handler through its points: when it sends, the rows it read are still those of
the table, as nobody else writes rows of the leaf hub; when it succeeded, the table is what its bundle asks
for; and when nothing newer is held, the table is what was processed last.

- `PoliciesProofs` and `ManagedClustersProofs` prove what a batch leaves after any number of its first
  statements: keys keep one row, the clusters per policy handler changes no status, the compliance handler
  adds and removes no row, and the whole batch makes the table say what the bundle says, whichever table it
  started from. So a batch that failed in the middle does no harm and its repetition ends in the same
  table. For the compliance table, `HubInv` adds that a compliance bundle is handled after its base.
- `MinimalComplianceProofs` has `Progress` in place of a batch: policies that are done have their counts, a row
  with the `policy_id` of another policy is on the list to delete, and no policy of the bundle that is done is.
  That what the handler found out about a row is still true when it writes it (`FoundRow`) gives one row per
  policy. The theorems hold for each choice of columns; `SentCountsAreWritten` speaks of the rows with a
  `policy_id` only, as the handler sees no others.
- The action properties `HandlersKeepToTheirRows`, `LivingClustersStay`, `SentPoliciesStay` and the theorem
  `OneRowPerPolicy` need no hypothesis on the queries.

`BatchBuilderProofs` proves that what `Build` returns does what was asked for, whatever the limit and the
order of the calls. `BBInv` says, besides types: the arguments collected of each kind are whole rows
(`ArgsOK`), not more than the limit; statements that were queued have the arguments their text refers to;
what was asked for is what the queued statements do, followed by what is still collected; and the
collected changes of different kinds are of different clusters (`ApartInv`). The last conjunct is what
makes the cut sound: `ResultOfBoth` shows that changes of different clusters may be merged and exchanged, so
that statements that are cut early or put together in the order of `Build` do the same as one statement for
each call. `GeneratedMeaning` reads the rows back through the positions in the text; the number of columns
is the quotient of arguments and rows (`DivIsWidth`).

### Whole bridge and shutdown

`BridgeProofs`: `BRInv` is the types, `UnitInv` (as `SDInv`) and `ReplicaInv` for any number of replicas and, for
one replica, `FlowInv` of each object: generations only grow on the way from the database over the unit and
the transport to the sync service (`DBInv`, `TransportInv`), and an object that is marked is stored, on its
way or passed over (`KeptInv`). A crash empties the memory and makes the next poll a first one, which offers
marked objects again; this is the case that needs `replica[r] = "down" => firstPoll[r]`. With two replicas
`DBInv` is not preserved: what one holds may be older than what the other wrote.

`ShutdownProofs`: `SHInv` says what `main` has closed at each point of its deferred calls, what the dispatcher
holds at each point of its loop, that a job handed out after the stop leaves the dispatcher where it
looks at its context next (so at most one is, `DispatcherStops`), that no query is under way once `CloseConns` has
got every connection back (`ClosedPoolIsUnused`), and which stop a goroutine that panicked has run into
(`PanicsHaveCauses`). `CutsArePanics` follows: the exit and a worker's panic come after the connections are back;
the dispatcher panics in a queue that a worker closed because the pool's context was cancelled, or later; the
poller and the transport panic in a channel that is closed before all that, and may cut any query.

### Only model-checked

`AcquireReturns`, `RefusalStaysInItsUnit`, `TableCatchesUp`, `SentCountsCatchUp`, `EventuallyInSync` and
`StopEnds` are liveness properties under fairness, which the prover does not handle. Everything else the
passing runs check is proved.

## Plan

Every component that keeps state is modelled, and every safety property of the passing runs is proved. Open:

1. to prove the steps liveness rests on, as far as they are safety: what a unit that is ready, a bundle that
   is held and a handler that works can still lose on the way (nothing), for any instance;
2. to compose: that `Bridge`'s pipeline of one replica and leaf hub takes only steps of `SerialDelivery` while the
   replica runs is by construction of the module, and could be stated as a refinement.

## Not modelled

- Logging, type names by reflection, reading environment variables, build and deployment files: no
  behaviour that a property could be about.
- Set-up that fails (`createManager`, `NewDBWorkerPool`): the process ends before anything runs.
- Kubernetes' client, the leader election protocol, the sync service and its client, pgx and PostgreSQL:
  not in the repository; modelled as far as the code relies on them and marked external.
- The database's own concurrency, and statements of a crashed process that it executes later.

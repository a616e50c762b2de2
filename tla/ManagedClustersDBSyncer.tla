----------------------- MODULE ManagedClustersDBSyncer -----------------------
(***************************************************************************)
(* The managed clusters db syncer and the managed_clusters table: one      *)
(* handler, which inserts, updates and deletes rows.  It is called as      *)
(* SerialDelivery says.  The handler SELECTs the names and resource        *)
(* versions of its leaf hub's rows, compares them with the bundle, builds  *)
(* a batch of statements and sends it; newer bundles arrive between these  *)
(* steps and each step may fail.                                           *)
(*                                                                         *)
(* The payload of a row is a ManagedCluster resource.  It is known by its  *)
(* resource version, which Kubernetes changes with every change of the     *)
(* resource.  What is said of the database in PoliciesDBSyncer holds here. *)
(***************************************************************************)
EXTENDS SerialDelivery, BatchStatements

CONSTANTS
    ManagedClusters,   \* the type of the bundles
    Clusters,          \* names of managed clusters
    ResourceVersions,
    Resources,         \* the objects a managed clusters bundle may have
    InitialTables,     \* what an earlier run of the bridge may have left
    QueriesMayFail     \* whether a SELECT may end with an error

\* A bundle has a resource, in one version, for some of the clusters.
ManagedClusterLists == UNION {[listed -> ResourceVersions] : listed \in SUBSET Clusters}

\* The columns of the managed_clusters table, and the one that names a row.
Row == [cluster : Clusters, payload : ResourceVersions]
RowKey == {"cluster"}

ASSUME ManagedClustersAssumption ==
    /\ Priorities = {ManagedClusters}
    /\ dependency[ManagedClusters] = Nil
    /\ Resources \subseteq ManagedClusterLists
    /\ \A rows \in InitialTables :
           rows \subseteq Row /\ \A r, s \in rows : Agree(r, s, RowKey) => r = s
    /\ QueriesMayFail \in BOOLEAN

VARIABLES
    resources,   \* resources[lh][g]: objects of the bundle with generation g
    table,       \* table[lh]: the leaf hub's rows of the managed_clusters table
    handler,     \* handler[lh]: where the handler called for lh is
    rowsFromDB   \* rowsFromDB[lh]: what the handler's SELECT returned

mcVars == <<sdVars, resources, table, handler, rowsFromDB>>

Generations == {b.generation : b \in bundles[ManagedClusters]}

HandlerStates == {"idle", "select", "send", "succeeded", "failed"}

MCTypeOK ==
    /\ resources \in [LeafHubs -> [Generations -> Resources]]
    /\ table \in [LeafHubs -> SUBSET Row]
    /\ handler \in [LeafHubs -> HandlerStates]
    /\ rowsFromDB \in [LeafHubs -> SUBSET Row]
    /\ active \in [LeafHubs -> SUBSET Activity]
    /\ \A lh \in LeafHubs : handler[lh] = "idle" <=> active[lh] = {}

MCInit ==
    /\ SDInit
    /\ resources \in [LeafHubs -> [Generations -> Resources]]
    /\ table \in [LeafHubs -> InitialTables]
    /\ handler = [lh \in LeafHubs |-> "idle"]
    /\ rowsFromDB = [lh \in LeafHubs |-> {}]

-----------------------------------------------------------------------------
ClustersIn(rows) == {r.cluster : r \in rows}

RowsOf(clusters, listed) == {[cluster |-> c, payload |-> listed[c]] : c \in clusters}

\* The listed clusters without a row are inserted.
InsertNewClusters(rows, listed) ==
    InsertRows(RowsOf(DOMAIN listed \ ClustersIn(rows), listed))

\* Rows of clusters that were not sent are deleted.
DeleteUnsentClusters(rows, listed) ==
    DeleteRows(RowKey, {[cluster |-> c] : c \in ClustersIn(rows) \ DOMAIN listed})

\* Mutant of UpdateChangedClusters: resources with another version are not written.
UpdateNoClusters(rows, listed) == UpdateRows("payload", RowKey, {})

\* Listed clusters whose row has another resource version are updated.
UpdateChangedClusters(rows, listed) ==
    UpdateRows("payload", RowKey, RowsOf(DOMAIN listed \cap ClustersIn(rows), listed) \ rows)

\* Mutants of ManagedClustersBatch: all rows are deleted and written again, or
\* clusters that have a row are inserted as well.
ReplaceAllClusters(rows, listed) ==
    <<DeleteRows(RowKey, rows), InsertNewClusters({}, listed)>>

InsertAllClusters(rows, listed) ==
    <<InsertNewClusters({}, listed), DeleteUnsentClusters(rows, listed)>>

\* handleManagedClustersBundle and Build: inserts, updates, deletions.
ManagedClustersBatch(rows, listed) ==
    <<InsertNewClusters(rows, listed),
      UpdateChangedClusters(rows, listed),
      DeleteUnsentClusters(rows, listed)>>

Batch(lh, a) == ManagedClustersBatch(rowsFromDB[lh], resources[lh][a.bundle.generation])

-----------------------------------------------------------------------------
ReceiveBundle(lh) ==
    /\ \E b \in bundles[ManagedClusters] : Receive(lh, ManagedClusters, b)
    /\ UNCHANGED <<resources, table, handler, rowsFromDB>>

CallHandler(lh) ==
    /\ Start(lh, ManagedClusters)
    /\ handler' = [handler EXCEPT ![lh] = "select"]
    /\ UNCHANGED <<resources, table, rowsFromDB>>

\* GetManagedClustersByLeafHub.  When conn.Query or a later read fails, the loop
\* ends and nobody asks for the error: the rows that arrived are returned.
Returned(rows) == IF QueriesMayFail THEN SUBSET rows ELSE {rows}

Select(lh) ==
    /\ handler[lh] = "select"
    /\ \E rows \in Returned(table[lh]) : rowsFromDB' = [rowsFromDB EXCEPT ![lh] = rows]
    /\ handler' = [handler EXCEPT ![lh] = "send"]
    /\ UNCHANGED <<sdVars, resources, table>>

\* Mutant of SelectFails: the handler ends without reporting its error.
SelectFailsSilently(lh) ==
    /\ handler[lh] = "select"
    /\ table[lh] # {}
    /\ handler' = [handler EXCEPT ![lh] = "idle"]
    /\ UNCHANGED <<sdVars, resources, table, rowsFromDB>>

\* A row that cannot be scanned makes the handler return an error.
SelectFails(lh) ==
    /\ handler[lh] = "select"
    /\ table[lh] # {}
    /\ handler' = [handler EXCEPT ![lh] = "failed"]
    /\ UNCHANGED <<sdVars, resources, table, rowsFromDB>>

\* All statements were executed, or there were none.
SendBatch(lh) ==
    /\ handler[lh] = "send"
    /\ \E a \in active[lh] :
           /\ table' = [table EXCEPT ![lh] = ExecuteFirst(Len(Batch(lh, a)), Batch(lh, a), @)]
           /\ Store(lh, a)
    /\ handler' = [handler EXCEPT ![lh] = "succeeded"]
    /\ UNCHANGED <<resources, rowsFromDB>>

\* Some statement failed, or the answer was lost.
SendBatchFails(lh) ==
    /\ handler[lh] = "send"
    /\ \E a \in active[lh] :
           /\ HasStatements(Batch(lh, a))
           /\ \E n \in 0 .. Len(Batch(lh, a)) :
                  table' = [table EXCEPT ![lh] = ExecuteFirst(n, Batch(lh, a), @)]
    /\ handler' = [handler EXCEPT ![lh] = "failed"]
    /\ UNCHANGED <<sdVars, resources, rowsFromDB>>

HandlerReturns(lh) ==
    /\ \/ handler[lh] = "succeeded" /\ \E a \in active[lh] : Succeed(lh, a)
       \/ handler[lh] = "failed" /\ Fail(lh)
    /\ handler' = [handler EXCEPT ![lh] = "idle"]
    /\ rowsFromDB' = [rowsFromDB EXCEPT ![lh] = {}]
    /\ UNCHANGED <<resources, table>>

MCNext ==
    \E lh \in LeafHubs :
        \/ ReceiveBundle(lh)
        \/ CallHandler(lh)
        \/ Select(lh)
        \/ SelectFails(lh)
        \/ SendBatch(lh)
        \/ SendBatchFails(lh)
        \/ HandlerReturns(lh)

MCSpec == MCInit /\ [][MCNext]_mcVars
-----------------------------------------------------------------------------
\* When the newest bundle was handled, whatever failures, retries and restarts
\* came before, the table has exactly its resources ("whatever is in the db and
\* cannot be found in the bundle has to be deleted from the db", "if the object
\* was changed, update the db with the current object").
TableMatchesBundle ==
    \A lh \in LeafHubs :
        held[lh][ManagedClusters] = Nil /\ processed[lh][ManagedClusters] > 0 =>
            LET listed == resources[lh][processed[lh][ManagedClusters]]
            IN  table[lh] = RowsOf(DOMAIN listed, listed)

\* The table never has two rows for a cluster, as INSERT trusts the rows read
\* before: a retry after a batch that failed half way reads them again.
OneRowPerManagedCluster ==
    \A lh \in LeafHubs : \A r, s \in table[lh] : Agree(r, s, RowKey) => r = s

\* While a bundle is handled, no cluster that it lists disappears from the table,
\* also when the batch fails half way ("leaf hub sends only living resources").
LivingClustersStay ==
    [][\A lh \in LeafHubs : \A a \in active[lh] :
           (ClustersIn(table[lh]) \cap DOMAIN resources[lh][a.bundle.generation])
               \subseteq ClustersIn(table'[lh])]_mcVars
=============================================================================

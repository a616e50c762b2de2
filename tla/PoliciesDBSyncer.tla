-------------------------- MODULE PoliciesDBSyncer --------------------------
(***************************************************************************)
(* The policies db syncer and the compliance table it maintains: the       *)
(* handlers of clusters per policy bundles, which insert and delete rows,  *)
(* and of compliance status bundles, which update them.  They are called   *)
(* as SerialDelivery says.  A handler SELECTs the rows of its leaf hub,    *)
(* compares them with the bundle, builds a batch of statements and sends   *)
(* it; newer bundles arrive between these steps and each step may fail.    *)
(*                                                                         *)
(* The database is outside the repository: a row is inserted without a     *)
(* uniqueness check (a unique index would make the batch fail, which       *)
(* SendBatchFails covers) and a batch that failed may have executed any    *)
(* number of its first statements.                                         *)
(***************************************************************************)
EXTENDS SerialDelivery, BatchStatements, FiniteSets

CONSTANTS
    ClustersPerPolicy, ComplianceStatus,  \* the two types of bundles
    Policies, Clusters,
    Compliant, NonCompliant, Unknown,     \* the compliance states
    Placements,      \* the objects a clusters per policy bundle may have
    Reports,         \* the objects a compliance bundle may have
    InitialTables,   \* what an earlier run of the bridge may have left
    QueriesMayFail   \* whether a SELECT may end with an error

\* A clusters per policy bundle lists clusters for some of the policies.
ListsOf(S) == UNION {[listed -> S] : listed \in SUBSET Policies}
ClusterLists == ListsOf(SUBSET Clusters)

\* A compliance bundle lists, for some of the policies, the clusters that are
\* not compliant; a leaf hub reports a cluster in one state.
NonCompliance ==
    {r \in [nonCompliant : SUBSET Clusters, unknown : SUBSET Clusters] :
        r.nonCompliant \cap r.unknown = {}}

\* The columns of the compliance table, and those that name a row.
Row == [policy : Policies, cluster : Clusters,
        compliance : {Compliant, NonCompliant, Unknown}]
RowKey == {"policy", "cluster"}

ASSUME SyncerAssumption ==
    /\ Priorities = {ClustersPerPolicy, ComplianceStatus}
    /\ dependency[ClustersPerPolicy] = Nil
    /\ dependency[ComplianceStatus] = ClustersPerPolicy
    /\ Compliant # NonCompliant /\ Compliant # Unknown /\ NonCompliant # Unknown
    /\ IsFiniteSet(Policies)
    /\ Placements \subseteq ClusterLists
    /\ Reports \subseteq ListsOf(NonCompliance)
    /\ \A rows \in InitialTables :
           rows \subseteq Row /\ \A r, s \in rows : Agree(r, s, RowKey) => r = s
    /\ QueriesMayFail \in BOOLEAN

VARIABLES
    placement,   \* placement[lh][g]: objects of the clusters per policy bundle g
    report,      \* report[lh][g]: objects of the compliance bundle g
    table,       \* table[lh]: the leaf hub's rows of the compliance table
    handler,     \* handler[lh]: where the handler called for lh is
    rowsFromDB   \* rowsFromDB[lh]: what the handler's SELECT returned

contents == <<placement, report>>
psVars == <<sdVars, contents, table, handler, rowsFromDB>>

Generations(p) == {b.generation : b \in bundles[p]}

HandlerStates == {"idle", "select", "send", "succeeded", "failed"}

PSTypeOK ==
    /\ placement \in [LeafHubs -> [Generations(ClustersPerPolicy) -> Placements]]
    /\ report \in [LeafHubs -> [Generations(ComplianceStatus) -> Reports]]
    /\ table \in [LeafHubs -> SUBSET Row]
    /\ handler \in [LeafHubs -> HandlerStates]
    /\ rowsFromDB \in [LeafHubs -> SUBSET Row]
    /\ active \in [LeafHubs -> SUBSET Activity]
    /\ \A lh \in LeafHubs : handler[lh] = "idle" <=> active[lh] = {}

\* What a leaf hub will send is chosen once.  The bridge may have run before: it
\* has forgotten what it processed, the table has not.
PSInit ==
    /\ SDInit
    /\ placement \in [LeafHubs -> [Generations(ClustersPerPolicy) -> Placements]]
    /\ report \in [LeafHubs -> [Generations(ComplianceStatus) -> Reports]]
    /\ table \in [LeafHubs -> InitialTables]
    /\ handler = [lh \in LeafHubs |-> "idle"]
    /\ rowsFromDB = [lh \in LeafHubs |-> {}]

-----------------------------------------------------------------------------
(***************************************************************************)
(* The batches the two handlers build from the rows they read.             *)
(***************************************************************************)

RowsOf(policy, clusters, compliance) ==
    {[policy |-> policy, cluster |-> c, compliance |-> compliance] : c \in clusters}

ClustersIn(rows, policy) == {r.cluster : r \in {s \in rows : s.policy = policy}}

PoliciesIn(rows) == {r.policy : r \in rows}

\* Insert, with the status a new row gets.
InsertUnknown(rows, lists) ==
    InsertRows(UNION {RowsOf(p, lists[p] \ ClustersIn(rows, p), Unknown) : p \in DOMAIN lists})

\* DeletePolicy of every policy that has rows and was not sent.
DeleteUnsentPolicies(rows, lists) ==
    DeleteRows({"policy"}, {[policy |-> p] : p \in PoliciesIn(rows) \ DOMAIN lists})

\* DeleteClusterStatus of the clusters of policy p that were not sent.
DeleteUnsentClusters(rows, lists, p) ==
    DeleteRows(RowKey, {[policy |-> p, cluster |-> c] : c \in ClustersIn(rows, p) \ lists[p]})

\* Mutants of ClustersPerPolicyBatches: the clusters that were not sent stay in
\* the table, or clusters are inserted again.
KeepUnsentClusters(rows, lists) ==
    {<<InsertUnknown(rows, lists), DeleteUnsentPolicies(rows, lists)>>}

InsertAllClusters(rows, lists) ==
    {<<InsertUnknown({}, lists), DeleteUnsentPolicies(rows, lists)>>}

\* The clusters of a listed policy: those without a row are inserted as Unknown
\* (handleClusterPerPolicy); rows of clusters that were not sent are deleted,
\* and so are all rows of policies that were not sent.  The statements that
\* delete clusters, one per policy, come in the order of a Go map: any.
ClustersPerPolicyBatches(rows, lists) ==
    LET orders == {o \in [1 .. Cardinality(DOMAIN lists) -> DOMAIN lists] :
                      \A p \in DOMAIN lists : \E i \in DOMAIN o : o[i] = p}
    IN  {<<InsertUnknown(rows, lists), DeleteUnsentPolicies(rows, lists)>>
             \o [i \in DOMAIN o |-> DeleteUnsentClusters(rows, lists, o[i])] : o \in orders}

\* UpdatePolicyCompliance of every policy with rows that was not sent.
UpdateUnsentPolicies(rows, reported) ==
    UpdateRows("compliance", {"policy"},
               {[policy |-> p, compliance |-> Compliant] : p \in PoliciesIn(rows) \ DOMAIN reported})

\* handlePolicyComplianceStatus: the clusters of policy p whose row differs from
\* what was reported, and the remaining rows, which become Compliant.
UpdatedClusters(rows, reported, p) ==
    LET n == reported[p].nonCompliant
        u == reported[p].unknown
    IN  (RowsOf(p, n, NonCompliant) \ rows)
            \cup (RowsOf(p, u, Unknown) \ rows)
            \cup RowsOf(p, ClustersIn(rows, p) \ (n \cup u), Compliant)

UpdateClusters(rows, reported) ==
    UpdateRows("compliance", RowKey, UNION {UpdatedClusters(rows, reported, p) : p \in DOMAIN reported})

\* Mutants of ComplianceBatch: policies that were not sent keep their status, or
\* reported clusters without a row get one.
KeepUnsentPolicies(rows, reported) == <<UpdateClusters(rows, reported)>>

InsertReported(rows, reported) ==
    <<InsertRows(UNION {UpdatedClusters(rows, reported, p) : p \in DOMAIN reported})>>

\* Policies that were not sent first, then clusters of policies that were.
ComplianceBatch(rows, reported) ==
    <<UpdateUnsentPolicies(rows, reported), UpdateClusters(rows, reported)>>

\* The rows the handler of type p asks for: all rows of the leaf hub, or those
\* that are not compliant.
Selected(lh, p) ==
    IF p = ClustersPerPolicy THEN table[lh]
                             ELSE {r \in table[lh] : r.compliance # Compliant}

Batches(lh, a) ==
    IF a.priority = ClustersPerPolicy
    THEN ClustersPerPolicyBatches(rowsFromDB[lh], placement[lh][a.bundle.generation])
    ELSE {ComplianceBatch(rowsFromDB[lh], report[lh][a.bundle.generation])}

-----------------------------------------------------------------------------
(***************************************************************************)
(* Steps.                                                                  *)
(***************************************************************************)

ReceiveBundle(lh, p) ==
    /\ \E b \in bundles[p] : Receive(lh, p, b)
    /\ UNCHANGED <<contents, table, handler, rowsFromDB>>

CallHandler(lh, p) ==
    /\ Start(lh, p)
    /\ handler' = [handler EXCEPT ![lh] = "select"]
    /\ UNCHANGED <<contents, table, rowsFromDB>>

\* What a SELECT returns.  When it fails, conn.Query's error is dropped and
\* rows.Next ends the loop without rows.Err being asked: the handler goes on with
\* the rows that arrived.
Returned(rows) == IF QueriesMayFail THEN SUBSET rows ELSE {rows}

Select(lh) ==
    /\ handler[lh] = "select"
    /\ \E a \in active[lh] : \E rows \in Returned(Selected(lh, a.priority)) :
           rowsFromDB' = [rowsFromDB EXCEPT ![lh] = rows]
    /\ handler' = [handler EXCEPT ![lh] = "send"]
    /\ UNCHANGED <<sdVars, contents, table>>

\* Mutant of SelectFails: the handler ends without reporting its error.
SelectFailsSilently(lh) ==
    /\ handler[lh] = "select"
    /\ \E a \in active[lh] : Selected(lh, a.priority) # {}
    /\ handler' = [handler EXCEPT ![lh] = "idle"]
    /\ UNCHANGED <<sdVars, contents, table, rowsFromDB>>

\* A row that cannot be scanned makes the handler return an error.
SelectFails(lh) ==
    /\ handler[lh] = "select"
    /\ \E a \in active[lh] : Selected(lh, a.priority) # {}
    /\ handler' = [handler EXCEPT ![lh] = "failed"]
    /\ UNCHANGED <<sdVars, contents, table, rowsFromDB>>

\* All statements were executed, or there were none.
SendBatch(lh) ==
    /\ handler[lh] = "send"
    /\ \E a \in active[lh] : \E batch \in Batches(lh, a) :
           /\ table' = [table EXCEPT ![lh] = ExecuteFirst(Len(batch), batch, @)]
           /\ Store(lh, a)
    /\ handler' = [handler EXCEPT ![lh] = "succeeded"]
    /\ UNCHANGED <<contents, rowsFromDB>>

\* Some statement failed, or the answer was lost.
SendBatchFails(lh) ==
    /\ handler[lh] = "send"
    /\ \E a \in active[lh] : \E batch \in Batches(lh, a) :
           /\ HasStatements(batch)
           /\ \E n \in 0 .. Len(batch) :
                  table' = [table EXCEPT ![lh] = ExecuteFirst(n, batch, @)]
    /\ handler' = [handler EXCEPT ![lh] = "failed"]
    /\ UNCHANGED <<sdVars, contents, rowsFromDB>>

HandlerReturns(lh) ==
    /\ \/ handler[lh] = "succeeded" /\ \E a \in active[lh] : Succeed(lh, a)
       \/ handler[lh] = "failed" /\ Fail(lh)
    /\ handler' = [handler EXCEPT ![lh] = "idle"]
    /\ rowsFromDB' = [rowsFromDB EXCEPT ![lh] = {}]
    /\ UNCHANGED <<contents, table>>

HandlerStep(lh) ==
    \/ \E p \in Priorities : CallHandler(lh, p)
    \/ Select(lh)
    \/ SendBatch(lh)
    \/ HandlerReturns(lh)

HandlerFails(lh) == SelectFails(lh) \/ SendBatchFails(lh)

PSNext ==
    \E lh \in LeafHubs :
        \/ \E p \in Priorities : ReceiveBundle(lh, p)
        \/ HandlerStep(lh)
        \/ HandlerFails(lh)

PSSpec == PSInit /\ [][PSNext]_psVars

\* Handlers are called and keep going, and from some time on the database answers
\* without errors.  That a held bundle whose base was processed is handed to its
\* handler is what the pipeline guarantees for bundles whose base does not move, and
\* only for them: it may forget a unit when a newer bundle needs a newer base.
PSFairSpec ==
    /\ PSSpec
    /\ \A lh \in LeafHubs :
           WF_psVars(HandlerStep(lh)) /\ <>[][~HandlerFails(lh)]_psVars
-----------------------------------------------------------------------------
(***************************************************************************)
(* Properties.                                                             *)
(***************************************************************************)

\* When the newest clusters per policy bundle was handled, whatever failures and
\* retries came before, the table has rows for exactly the clusters it lists
\* ("whatever is in the db and cannot be found in the bundle has to be deleted
\* from the db").
RowsMatchPlacement ==
    \A lh \in LeafHubs :
        held[lh][ClustersPerPolicy] = Nil /\ processed[lh][ClustersPerPolicy] > 0 =>
            LET lists == placement[lh][processed[lh][ClustersPerPolicy]]
            IN  \A p \in Policies :
                    ClustersIn(table[lh], p) = IF p \in DOMAIN lists THEN lists[p] ELSE {}

\* The leaf hub's status of policy p in compliance bundle g.
ReportedCompliance(lh, g, p, c) ==
    LET reported == report[lh][g]
    IN  CASE p \in DOMAIN reported /\ c \in reported[p].nonCompliant -> NonCompliant
          [] p \in DOMAIN reported /\ c \in reported[p].unknown -> Unknown
          [] OTHER -> Compliant

\* When the newest bundles of both types were handled and the compliance bundle
\* was made for the clusters per policy bundle that was handled, every row says
\* what the leaf hub reported; what it did not list is Compliant.
TableIsLeafHubStatus ==
    \A lh \in LeafHubs : \A b \in bundles[ComplianceStatus] :
        /\ b.generation > 0
        /\ held[lh][ClustersPerPolicy] = Nil
        /\ held[lh][ComplianceStatus] = Nil
        /\ processed[lh][ComplianceStatus] = b.generation
        /\ processed[lh][ClustersPerPolicy] = b.dependencyGeneration
        => \A r \in table[lh] :
               r.compliance = ReportedCompliance(lh, b.generation, r.policy, r.cluster)

\* The table never has two rows for a cluster of a policy, as INSERT trusts the
\* rows read before.
OneRowPerCluster ==
    \A lh \in LeafHubs : \A r, s \in table[lh] : Agree(r, s, RowKey) => r = s

\* The clusters per policy handler "only inserts or deletes rows"; the compliance
\* handler handles "only the existing clusters rows".
HandlersKeepToTheirRows ==
    [][\A lh \in LeafHubs : \A a \in active[lh] :
           IF a.priority = ClustersPerPolicy
           THEN \A r \in table[lh] \ table'[lh] : ~\E s \in table'[lh] : Agree(r, s, RowKey)
           ELSE \A p \in Policies : ClustersIn(table'[lh], p) = ClustersIn(table[lh], p)]_psVars

\* The bridge has the newest bundle of type p, which leaf hubs number up to g.
Received(lh, p, g) ==
    processed[lh][p] = g \/ (held[lh][p] # Nil /\ held[lh][p].generation = g)

\* When bundles g of both types are received, in whatever order and after however
\* many failures, the table comes to say what the leaf hub reported, row by row,
\* unless newer bundles come.  No row keeps the status Unknown that it was
\* inserted with, or a status of an earlier run of the bridge.
TableCatchesUp ==
    \A lh \in LeafHubs : \A b \in bundles[ComplianceStatus] :
        LET g == b.generation
            base == b.dependencyGeneration
        IN  Received(lh, ClustersPerPolicy, base) /\ Received(lh, ComplianceStatus, g) ~>
                \/ ~Received(lh, ClustersPerPolicy, base)
                \/ ~Received(lh, ComplianceStatus, g)
                \/ table[lh] = UNION {{[policy |-> p, cluster |-> c,
                                        compliance |-> ReportedCompliance(lh, g, p, c)] :
                                           c \in placement[lh][base][p]} :
                                      p \in DOMAIN placement[lh][base]}
=============================================================================

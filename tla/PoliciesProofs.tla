--------------------------- MODULE PoliciesProofs ---------------------------
(***************************************************************************)
(* Proofs about the handlers of the policies db syncer, for any policies,  *)
(* clusters, leaf hubs and bundles, batches of any length, and any number  *)
(* of failed batches and retries.                                          *)
(***************************************************************************)
EXTENDS PoliciesDBSyncer, HandlerLemmas, SequenceTheorems, FiniteSetTheorems

SameKey(r, s) == r.policy = s.policy /\ r.cluster = s.cluster

OneRow(rows) == \A r, s \in rows : SameKey(r, s) => r = s

LEMMA AgreeOnKey == \A r, s : Agree(r, s, RowKey) <=> SameKey(r, s)
BY Zenon DEF Agree, RowKey, SameKey

LEMMA AgreeOnPolicy == \A r, s : Agree(r, s, {"policy"}) <=> r.policy = s.policy
BY Zenon DEF Agree

-----------------------------------------------------------------------------
(***************************************************************************)
(* The batch of the clusters per policy handler: rows are inserted, then   *)
(* those of policies that were not sent are deleted, then, policy by       *)
(* policy, those of clusters that were not sent.  Whether a row is deleted *)
(* depends on its policy and cluster only.                                 *)
(***************************************************************************)

NewRows(read, lists) ==
    UNION {RowsOf(p, lists[p] \ ClustersIn(read, p), Unknown) : p \in DOMAIN lists}

\* The rows left when the clusters of the first k policies were deleted.
Placed(rows, read, lists, o, k) ==
    {r \in rows \cup NewRows(read, lists) :
        /\ r.policy \notin PoliciesIn(read) \ DOMAIN lists
        /\ \A i \in 1 .. k :
               r.policy = o[i] => r.cluster \notin ClustersIn(read, o[i]) \ lists[o[i]]}

\* A clusters per policy bundle lists clusters of policies.
LEMMA ListsType ==
    ASSUME NEW lists \in ClusterLists
    PROVE  /\ DOMAIN lists \subseteq Policies
           /\ \A p \in DOMAIN lists : lists[p] \subseteq Clusters
           /\ \A read : NewRows(read, lists) \subseteq Row
<1>1. PICK D \in SUBSET Policies : lists \in [D -> SUBSET Clusters]
  BY DEF ClusterLists, ListsOf
<1>2. DOMAIN lists \subseteq Policies /\ \A p \in DOMAIN lists : lists[p] \subseteq Clusters
  BY <1>1
<1>3. ASSUME NEW read PROVE NewRows(read, lists) \subseteq Row
  BY <1>2 DEF NewRows, RowsOf, Row
<1> QED
  BY <1>2, <1>3

\* The statements of a batch: o is the order of the policies.
PlacementStatements(batch, read, lists, m, o) ==
    /\ \A p \in DOMAIN lists : \E i \in 1 .. m : o[i] = p
    /\ Len(batch) = m + 2
    /\ batch[1] = InsertRows(NewRows(read, lists))
    /\ batch[2] = DeleteUnsentPolicies(read, lists)
    /\ \A i \in 1 .. m : batch[i + 2] = DeleteUnsentClusters(read, lists, o[i])

LEMMA PlacementBatch ==
    ASSUME NEW read, NEW lists \in ClusterLists, NEW batch \in ClustersPerPolicyBatches(read, lists)
    PROVE  \E m \in Nat : \E o \in [1 .. m -> DOMAIN lists] :
               PlacementStatements(batch, read, lists, m, o)
<1> DEFINE m == Cardinality(DOMAIN lists)
<1>1. m \in Nat
  BY ListsType, SyncerAssumption, FS_Subset, FS_CardinalityType
<1>2. PICK o \in [1 .. m -> DOMAIN lists] :
          /\ \A p \in DOMAIN lists : \E i \in DOMAIN o : o[i] = p
          /\ batch = <<InsertUnknown(read, lists), DeleteUnsentPolicies(read, lists)>>
                         \o [i \in DOMAIN o |-> DeleteUnsentClusters(read, lists, o[i])]
  BY DEF ClustersPerPolicyBatches
<1> HIDE DEF m
<1> DEFINE S == {InsertUnknown(read, lists), DeleteUnsentPolicies(read, lists)}
                    \cup {DeleteUnsentClusters(read, lists, p) : p \in DOMAIN lists}
           first == <<InsertUnknown(read, lists), DeleteUnsentPolicies(read, lists)>>
           rest == [i \in 1 .. m |-> DeleteUnsentClusters(read, lists, o[i])]
<1>3. first \in Seq(S) /\ Len(first) = 2 /\ first[1] = InsertUnknown(read, lists)
          /\ first[2] = DeleteUnsentPolicies(read, lists)
  OBVIOUS
<1>4. rest \in Seq(S) /\ Len(rest) = m /\ \A i \in 1 .. m : rest[i] = DeleteUnsentClusters(read, lists, o[i])
  BY <1>1, <1>2
<1>5. batch = first \o rest /\ DOMAIN o = 1 .. m
  BY <1>2
<1> HIDE DEF first, rest, S
<1>6. /\ Len(batch) = m + 2
      /\ \A i \in 1 .. Len(batch) :
             batch[i] = IF i <= 2 THEN first[i] ELSE rest[i - 2]
  <2>1. /\ Len(first \o rest) = Len(first) + Len(rest)
        /\ \A i \in 1 .. Len(first) + Len(rest) :
               (first \o rest)[i] = IF i <= Len(first) THEN first[i] ELSE rest[i - Len(first)]
    BY <1>3, <1>4, ConcatProperties
  <2>2. Len(first) = 2 /\ Len(rest) = m /\ 2 + m = m + 2
    BY <1>1, <1>3, <1>4
  <2> QED
    BY <1>5, <2>1, <2>2
<1>7. batch[1] = InsertRows(NewRows(read, lists)) /\ batch[2] = DeleteUnsentPolicies(read, lists)
  BY <1>1, <1>3, <1>6 DEF InsertUnknown, NewRows
<1>8. ASSUME NEW i \in 1 .. m PROVE batch[i + 2] = DeleteUnsentClusters(read, lists, o[i])
  <2>1. i + 2 \in 1 .. Len(batch) /\ ~(i + 2 <= 2) /\ (i + 2) - 2 = i
    BY <1>1, <1>6
  <2> QED
    BY <1>4, <1>6, <2>1
<1>9. PlacementStatements(batch, read, lists, m, o)
  BY <1>2, <1>5, <1>6, <1>7, <1>8 DEF PlacementStatements
<1> QED
  BY <1>1, <1>9, Zenon

\* What the two kinds of deletions leave.
LEMMA UnsentPoliciesDeleted ==
    ASSUME NEW rows, NEW read, NEW lists
    PROVE  Execute(rows, DeleteUnsentPolicies(read, lists)) =
               {r \in rows : r.policy \notin PoliciesIn(read) \ DOMAIN lists}
<1> DEFINE X == PoliciesIn(read) \ DOMAIN lists
           gone == {[policy |-> p] : p \in X}
<1>1. Execute(rows, DeleteUnsentPolicies(read, lists)) =
          {r \in rows : \A s \in gone : ~Agree(r, s, {"policy"})}
  BY ExecuteDelete DEF DeleteUnsentPolicies
<1>2. \A s \in gone : s.policy \in X
  OBVIOUS
<1>3. ASSUME NEW p \in X PROVE \E s \in gone : s.policy = p
  <2>1. [policy |-> p] \in gone /\ [policy |-> p].policy = p
    OBVIOUS
  <2> QED
    BY <2>1
<1> HIDE DEF X, gone
<1>4. Execute(rows, DeleteUnsentPolicies(read, lists)) = {r \in rows : r.policy \notin X}
  BY <1>1, <1>2, <1>3, AgreeOnPolicy
<1> QED
  BY <1>4 DEF X

LEMMA UnsentClustersDeleted ==
    ASSUME NEW rows, NEW read, NEW lists, NEW p
    PROVE  Execute(rows, DeleteUnsentClusters(read, lists, p)) =
               {r \in rows : r.policy = p => r.cluster \notin ClustersIn(read, p) \ lists[p]}
<1> DEFINE X == ClustersIn(read, p) \ lists[p]
           gone == {[policy |-> p, cluster |-> c] : c \in X}
<1>1. Execute(rows, DeleteUnsentClusters(read, lists, p)) =
          {r \in rows : \A s \in gone : ~Agree(r, s, RowKey)}
  BY ExecuteDelete DEF DeleteUnsentClusters
<1>2. \A s \in gone : s.policy = p /\ s.cluster \in X
  OBVIOUS
<1>3. ASSUME NEW c \in X PROVE \E s \in gone : s.policy = p /\ s.cluster = c
  <2>1. /\ [policy |-> p, cluster |-> c] \in gone
        /\ [policy |-> p, cluster |-> c].policy = p
        /\ [policy |-> p, cluster |-> c].cluster = c
    OBVIOUS
  <2> QED
    BY <2>1
<1> HIDE DEF X, gone
<1>4. Execute(rows, DeleteUnsentClusters(read, lists, p)) = {r \in rows : r.policy = p => r.cluster \notin X}
  BY <1>1, <1>2, <1>3, AgreeOnKey DEF SameKey
<1> QED
  BY <1>4 DEF X

\* The rows after each prefix of a batch.
PlacementLeaves(batch, rows, read, lists, m, o) ==
    /\ ExecuteFirst(0, batch, rows) = rows
    /\ ExecuteFirst(1, batch, rows) = rows \cup NewRows(read, lists)
    /\ \A k \in 0 .. m : ExecuteFirst(k + 2, batch, rows) = Placed(rows, read, lists, o, k)

\* By induction on the number of policies whose clusters were deleted.
LEMMA PlacementRows ==
    ASSUME NEW rows, NEW read, NEW lists \in ClusterLists, NEW batch, NEW m \in Nat,
           NEW o \in [1 .. m -> DOMAIN lists], PlacementStatements(batch, read, lists, m, o)
    PROVE  PlacementLeaves(batch, rows, read, lists, m, o)
<1>1. Len(batch) = m + 2 /\ Len(batch) \in Nat
  BY DEF PlacementStatements
<1>2. /\ ExecuteFirst(0, batch, rows) = rows
      /\ \A n \in 1 .. m + 2 : ExecuteFirst(n, batch, rows) =
                                   Execute(ExecuteFirst(n - 1, batch, rows), batch[n])
  BY <1>1, ExecuteFirstStep
<1>3. ExecuteFirst(1, batch, rows) = rows \cup NewRows(read, lists)
  <2>1. 1 \in 1 .. m + 2 /\ 1 - 1 = 0
    OBVIOUS
  <2>2. ExecuteFirst(1, batch, rows) = Execute(ExecuteFirst(1 - 1, batch, rows), batch[1])
    BY <1>2, <2>1, Zenon
  <2>3. ExecuteFirst(1, batch, rows) = Execute(rows, batch[1])
    BY <1>2, <2>1, <2>2, Zenon
  <2> QED
    BY <2>3, ExecuteInsert DEF PlacementStatements
<1> DEFINE S == {k \in Nat : k <= m => ExecuteFirst(k + 2, batch, rows) = Placed(rows, read, lists, o, k)}
<1>4. 0 \in S
  <2>1. 2 \in 1 .. m + 2 /\ 2 - 1 = 1 /\ 0 + 2 = 2
    OBVIOUS
  <2>2. ExecuteFirst(2, batch, rows) = Execute(ExecuteFirst(2 - 1, batch, rows), batch[2])
    BY <1>2, <2>1, Zenon
  <2>3. ExecuteFirst(2, batch, rows) = Execute(ExecuteFirst(1, batch, rows), batch[2])
    BY <2>1, <2>2, Zenon
  <2>4. ExecuteFirst(2, batch, rows) =
            {r \in rows \cup NewRows(read, lists) : r.policy \notin PoliciesIn(read) \ DOMAIN lists}
    BY <1>3, <2>3, UnsentPoliciesDeleted DEF PlacementStatements
  <2>5. ExecuteFirst(2, batch, rows) = Placed(rows, read, lists, o, 0)
    BY <2>4 DEF Placed
  <2> QED
    BY <2>1, <2>5
<1>5. ASSUME NEW k \in Nat, k \in S PROVE k + 1 \in S
  <2> SUFFICES ASSUME k + 1 <= m
               PROVE  ExecuteFirst((k + 1) + 2, batch, rows) = Placed(rows, read, lists, o, k + 1)
      OBVIOUS
  <2>1. /\ (k + 1) + 2 \in 1 .. m + 2 /\ ((k + 1) + 2) - 1 = k + 2
        /\ k + 1 \in 1 .. m /\ k <= m
    OBVIOUS
  <2>2. ExecuteFirst(k + 2, batch, rows) = Placed(rows, read, lists, o, k)
    BY <1>5, <2>1
  <2>3. ExecuteFirst((k + 1) + 2, batch, rows) =
            Execute(ExecuteFirst(((k + 1) + 2) - 1, batch, rows), batch[(k + 1) + 2])
    BY <1>2, <2>1, Zenon
  <2>4. ExecuteFirst((k + 1) + 2, batch, rows) =
            Execute(ExecuteFirst(k + 2, batch, rows), batch[(k + 1) + 2])
    BY <2>1, <2>3, Zenon
  <2>5. batch[(k + 1) + 2] = DeleteUnsentClusters(read, lists, o[k + 1])
    BY <2>1 DEF PlacementStatements
  <2>6. ExecuteFirst((k + 1) + 2, batch, rows) =
            {r \in Placed(rows, read, lists, o, k) :
                r.policy = o[k + 1] => r.cluster \notin ClustersIn(read, o[k + 1]) \ lists[o[k + 1]]}
    BY <2>2, <2>4, <2>5, UnsentClustersDeleted
  <2>7. \A i : i \in 1 .. k + 1 <=> i \in 1 .. k \/ i = k + 1
    OBVIOUS
  <2> QED
    BY <2>6, <2>7 DEF Placed
<1> HIDE DEF S
<1>6. Nat \subseteq S
  BY <1>4, <1>5, SetInduction
<1>7. ASSUME NEW k \in 0 .. m PROVE ExecuteFirst(k + 2, batch, rows) = Placed(rows, read, lists, o, k)
  BY <1>6 DEF S
<1> QED
  BY <1>2, <1>3, <1>7 DEF PlacementLeaves

\* What is left when the clusters of all listed policies were deleted.
AllPlaced(rows, read, lists) ==
    {r \in rows \cup NewRows(read, lists) :
        /\ r.policy \notin PoliciesIn(read) \ DOMAIN lists
        /\ r.policy \in DOMAIN lists =>
               r.cluster \notin ClustersIn(read, r.policy) \ lists[r.policy]}

\* after is rows, or rows with the new ones, or what some deletions left of these.
PlacementPrefix(after, rows, read, lists) ==
    \/ after = rows
    \/ after = rows \cup NewRows(read, lists)
    \/ \E o, k : after = Placed(rows, read, lists, o, k)

LEMMA PlacementPrefixes ==
    ASSUME NEW rows, NEW read, NEW lists \in ClusterLists,
           NEW batch \in ClustersPerPolicyBatches(read, lists)
    PROVE  /\ Len(batch) \in Nat
           /\ \A n \in 0 .. Len(batch) : PlacementPrefix(ExecuteFirst(n, batch, rows), rows, read, lists)
           /\ ExecuteFirst(Len(batch), batch, rows) = AllPlaced(rows, read, lists)
<1>1. PICK m \in Nat : \E o \in [1 .. m -> DOMAIN lists] :
          PlacementStatements(batch, read, lists, m, o)
  BY PlacementBatch
<1>2. PICK o \in [1 .. m -> DOMAIN lists] : PlacementStatements(batch, read, lists, m, o)
  BY <1>1
<1>0. PlacementLeaves(batch, rows, read, lists, m, o)
  BY <1>1, <1>2, PlacementRows
<1>3. /\ ExecuteFirst(0, batch, rows) = rows
      /\ ExecuteFirst(1, batch, rows) = rows \cup NewRows(read, lists)
      /\ \A k \in 0 .. m : ExecuteFirst(k + 2, batch, rows) = Placed(rows, read, lists, o, k)
  BY <1>0 DEF PlacementLeaves
<1>4. Len(batch) = m + 2 /\ \A p \in DOMAIN lists : \E i \in 1 .. m : o[i] = p
  BY <1>2 DEF PlacementStatements
<1>5. ASSUME NEW n \in 0 .. Len(batch)
      PROVE  PlacementPrefix(ExecuteFirst(n, batch, rows), rows, read, lists)
  <2>1. CASE n = 0
    BY <1>3, <2>1 DEF PlacementPrefix
  <2>2. CASE n = 1
    BY <1>3, <2>2 DEF PlacementPrefix
  <2>3. CASE n # 0 /\ n # 1
    <3>1. n - 2 \in 0 .. m /\ (n - 2) + 2 = n
      BY <1>4, <2>3
    <3>2. ExecuteFirst((n - 2) + 2, batch, rows) = Placed(rows, read, lists, o, n - 2)
      BY <1>3, <3>1, Zenon
    <3>3. ExecuteFirst(n, batch, rows) = Placed(rows, read, lists, o, n - 2)
      BY <3>1, <3>2, Zenon
    <3> QED
      BY <3>3, Zenon DEF PlacementPrefix
  <2> QED
    BY <2>1, <2>2, <2>3
<1>6. ExecuteFirst(Len(batch), batch, rows) = Placed(rows, read, lists, o, m)
  <2>1. m \in 0 .. m
    OBVIOUS
  <2>2. ExecuteFirst(m + 2, batch, rows) = Placed(rows, read, lists, o, m)
    BY <1>3, <2>1, Zenon
  <2> QED
    BY <1>4, <2>2, Zenon
<1>7. Placed(rows, read, lists, o, m) = AllPlaced(rows, read, lists)
  <2>1. \A i \in 1 .. m : o[i] \in DOMAIN lists
    BY <1>2
  <2>2. ASSUME NEW r
        PROVE  (\A i \in 1 .. m : r.policy = o[i] => r.cluster \notin ClustersIn(read, o[i]) \ lists[o[i]])
                 <=> (r.policy \in DOMAIN lists =>
                         r.cluster \notin ClustersIn(read, r.policy) \ lists[r.policy])
    BY <1>4, <2>1
  <2> QED
    BY <2>2 DEF Placed, AllPlaced
<1> QED
  BY <1>1, <1>4, <1>5, <1>6, <1>7

\* Whatever the handler read, each prefix of the batch leaves rows of the table, and
\* of a row that is gone nothing with the same policy and cluster.
LEMMA PlacementDeletes ==
    ASSUME NEW rows, rows \subseteq Row, NEW read, NEW lists \in ClusterLists, NEW after,
           PlacementPrefix(after, rows, read, lists)
    PROVE  after \subseteq Row /\ \A r \in rows \ after : ~\E s \in after : SameKey(r, s)
<1>1. NewRows(read, lists) \subseteq Row
  BY ListsType
<1>2. CASE \E o, k : after = Placed(rows, read, lists, o, k)
  <2>1. PICK o, k : after = Placed(rows, read, lists, o, k)
    BY <1>2
  <2> QED
    BY <1>1, <2>1 DEF Placed, SameKey
<1> QED
  BY <1>1, <1>2 DEF PlacementPrefix

\* If the handler read the rows of the table, no prefix of the batch leaves two rows
\* of a policy and cluster, and the batch leaves rows for what the bundle lists.
LEMMA PlacementOneRow ==
    ASSUME NEW rows, rows \subseteq Row, OneRow(rows), NEW lists \in ClusterLists, NEW after,
           PlacementPrefix(after, rows, rows, lists)
    PROVE  OneRow(after)
<1> DEFINE new == NewRows(rows, lists)
<1>1. \A r \in new : /\ r \in Row /\ r.compliance = Unknown
                     /\ \A t \in rows : ~SameKey(t, r)
  <2>1. \A r \in new : /\ r.cluster \notin ClustersIn(rows, r.policy) /\ r.compliance = Unknown
    BY DEF NewRows, RowsOf
  <2> QED
    BY <2>1, ListsType DEF ClustersIn, SameKey
<1>2. \A r \in Row : r = [policy |-> r.policy, cluster |-> r.cluster, compliance |-> r.compliance]
  BY DEF Row
<1> HIDE DEF new
<1>3. OneRow(rows \cup new)
  <2> SUFFICES ASSUME NEW r \in rows \cup new, NEW s \in rows \cup new, SameKey(r, s) PROVE r = s
      BY DEF OneRow
  <2>1. CASE r \in rows /\ s \in rows
    BY <2>1 DEF OneRow
  <2>2. CASE r \in new /\ s \in new
    BY <1>1, <1>2, <2>2 DEF SameKey
  <2>3. CASE r \in new /\ s \in rows
    BY <1>1, <2>3 DEF SameKey
  <2>4. CASE r \in rows /\ s \in new
    BY <1>1, <2>4
  <2> QED
    BY <2>1, <2>2, <2>3, <2>4
<1>4. after \subseteq rows \cup new
  BY DEF PlacementPrefix, Placed, new
<1> QED
  BY <1>3, <1>4 DEF OneRow

PlacementHolds(rows, lists) ==
    \A p \in Policies : ClustersIn(rows, p) = IF p \in DOMAIN lists THEN lists[p] ELSE {}

LEMMA PlacementWrites ==
    ASSUME NEW rows, rows \subseteq Row, NEW lists \in ClusterLists
    PROVE  PlacementHolds(AllPlaced(rows, rows, lists), lists)
<1> DEFINE new == NewRows(rows, lists)
           after == AllPlaced(rows, rows, lists)
<1>1. \A r \in new : r.policy \in DOMAIN lists /\ r.cluster \in lists[r.policy]
  BY DEF NewRows, RowsOf
<1>2. ASSUME NEW p \in DOMAIN lists, NEW c \in lists[p]
      PROVE  \E r \in rows \cup new : r.policy = p /\ r.cluster = c
  <2>1. CASE c \in ClustersIn(rows, p)
    BY <2>1 DEF ClustersIn
  <2>2. CASE c \notin ClustersIn(rows, p)
    <3> DEFINE r == [policy |-> p, cluster |-> c, compliance |-> Unknown]
    <3>1. r \in new /\ r.policy = p /\ r.cluster = c
      BY <2>2 DEF NewRows, RowsOf
    <3> QED
      BY <3>1
  <2> QED
    BY <2>1, <2>2
<1> HIDE DEF new
<1>3. \A r : r \in after <=>
          /\ r \in rows \cup new
          /\ r.policy \notin PoliciesIn(rows) \ DOMAIN lists
          /\ r.policy \in DOMAIN lists => r.cluster \notin ClustersIn(rows, r.policy) \ lists[r.policy]
  BY DEF AllPlaced, new
<1>4. \A r \in rows : r.policy \in PoliciesIn(rows) /\ r.cluster \in ClustersIn(rows, r.policy)
  BY DEF PoliciesIn, ClustersIn
<1> HIDE DEF after
<1>5. ASSUME NEW r \in after PROVE r.policy \in DOMAIN lists /\ r.cluster \in lists[r.policy]
  BY <1>1, <1>3, <1>4
<1>6. ASSUME NEW p \in DOMAIN lists, NEW c \in lists[p]
      PROVE  \E r \in after : r.policy = p /\ r.cluster = c
  BY <1>2, <1>3
<1>7. ASSUME NEW p \in Policies
      PROVE  ClustersIn(after, p) = IF p \in DOMAIN lists THEN lists[p] ELSE {}
  BY <1>5, <1>6 DEF ClustersIn
<1> QED
  BY <1>7 DEF PlacementHolds, after

-----------------------------------------------------------------------------
(***************************************************************************)
(* The batch of the compliance handler: the rows of policies that were not *)
(* sent become Compliant, then the rows of clusters whose status differs   *)
(* from what was reported are replaced.                                    *)
(***************************************************************************)

WithCompliance(r, v) == [policy |-> r.policy, cluster |-> r.cluster, compliance |-> v]

\* What a bundle reports of a cluster.
Status(reported, p, c) ==
    CASE p \in DOMAIN reported /\ c \in reported[p].nonCompliant -> NonCompliant
      [] p \in DOMAIN reported /\ c \in reported[p].unknown -> Unknown
      [] OTHER -> Compliant

Changed(read, reported) == UNION {UpdatedClusters(read, reported, p) : p \in DOMAIN reported}

\* A compliance bundle reports each cluster of a policy in one state.
LEMMA ReportedType ==
    ASSUME NEW reported \in ListsOf(NonCompliance)
    PROVE  /\ DOMAIN reported \subseteq Policies
           /\ \A p \in DOMAIN reported :
                  /\ reported[p].nonCompliant \subseteq Clusters
                  /\ reported[p].unknown \subseteq Clusters
                  /\ reported[p].nonCompliant \cap reported[p].unknown = {}
<1>1. PICK D \in SUBSET Policies : reported \in [D -> NonCompliance]
  BY DEF ListsOf
<1>2. ASSUME NEW r \in NonCompliance
      PROVE  r.nonCompliant \subseteq Clusters /\ r.unknown \subseteq Clusters
                 /\ r.nonCompliant \cap r.unknown = {}
  BY DEF NonCompliance
<1> QED
  BY <1>1, <1>2

\* The rows sent for the clusters of reported policies have the reported status.
LEMMA ChangedRows ==
    ASSUME NEW read, read \subseteq Row, NEW reported \in ListsOf(NonCompliance)
    PROVE  \A s \in Changed(read, reported) :
               /\ s \in Row
               /\ s.policy \in DOMAIN reported
               /\ s.compliance = Status(reported, s.policy, s.cluster)
<1> SUFFICES ASSUME NEW p \in DOMAIN reported, NEW s \in UpdatedClusters(read, reported, p)
             PROVE  /\ s \in Row
                    /\ s.policy \in DOMAIN reported
                    /\ s.compliance = Status(reported, s.policy, s.cluster)
    BY DEF Changed
<1> DEFINE n == reported[p].nonCompliant
           u == reported[p].unknown
<1>1. p \in Policies /\ n \subseteq Clusters /\ u \subseteq Clusters /\ n \cap u = {}
  BY ReportedType
<1>2. \/ s \in RowsOf(p, n, NonCompliant)
      \/ s \in RowsOf(p, u, Unknown)
      \/ s \in RowsOf(p, ClustersIn(read, p) \ (n \cup u), Compliant)
  BY DEF UpdatedClusters
<1>3. ClustersIn(read, p) \subseteq Clusters
  BY DEF ClustersIn, Row
<1>4. CASE s \in RowsOf(p, n, NonCompliant)
  <2>1. PICK c \in n : s = [policy |-> p, cluster |-> c, compliance |-> NonCompliant]
    BY <1>4 DEF RowsOf
  <2>2. Status(reported, p, c) = NonCompliant
    BY <1>1, <2>1 DEF Status
  <2> QED
    BY <1>1, <2>1, <2>2 DEF Row
<1>5. CASE s \in RowsOf(p, u, Unknown)
  <2>1. PICK c \in u : s = [policy |-> p, cluster |-> c, compliance |-> Unknown]
    BY <1>5 DEF RowsOf
  <2>2. Status(reported, p, c) = Unknown
    BY <1>1, <2>1 DEF Status
  <2> QED
    BY <1>1, <2>1, <2>2 DEF Row
<1>6. CASE s \in RowsOf(p, ClustersIn(read, p) \ (n \cup u), Compliant)
  <2>1. PICK c \in ClustersIn(read, p) \ (n \cup u) :
            s = [policy |-> p, cluster |-> c, compliance |-> Compliant]
    BY <1>6 DEF RowsOf
  <2>2. Status(reported, p, c) = Compliant
    BY <1>1, <2>1 DEF Status
  <2> QED
    BY <1>1, <1>3, <2>1, <2>2 DEF Row
<1> QED
  BY <1>2, <1>4, <1>5, <1>6

\* Every row read of a reported policy either has the reported status or is among
\* those sent, and so is every cluster reported as not compliant.
LEMMA ChangedAll ==
    ASSUME NEW read, read \subseteq Row, NEW reported \in ListsOf(NonCompliance),
           NEW p \in DOMAIN reported, NEW c,
           \/ Status(reported, p, c) # Compliant
           \/ \E r \in read : r.policy = p /\ r.cluster = c
    PROVE  [policy |-> p, cluster |-> c, compliance |-> Status(reported, p, c)]
               \in Changed(read, reported) \cup read
<1> DEFINE n == reported[p].nonCompliant
           u == reported[p].unknown
           r == [policy |-> p, cluster |-> c, compliance |-> Status(reported, p, c)]
<1>1. n \cap u = {}
  BY ReportedType
<1>5. /\ RowsOf(p, n, NonCompliant) \subseteq Changed(read, reported) \cup read
      /\ RowsOf(p, u, Unknown) \subseteq Changed(read, reported) \cup read
      /\ RowsOf(p, ClustersIn(read, p) \ (n \cup u), Compliant) \subseteq Changed(read, reported)
  <2>1. UpdatedClusters(read, reported, p) \subseteq Changed(read, reported)
    BY DEF Changed
  <2>2. UpdatedClusters(read, reported, p) =
            (RowsOf(p, n, NonCompliant) \ read) \cup (RowsOf(p, u, Unknown) \ read)
                \cup RowsOf(p, ClustersIn(read, p) \ (n \cup u), Compliant)
    BY DEF UpdatedClusters
  <2> QED
    BY <2>1, <2>2
<1>2. CASE c \in n
  <2>1. Status(reported, p, c) = NonCompliant
    BY <1>1, <1>2 DEF Status
  <2>2. r \in RowsOf(p, n, NonCompliant)
    BY <1>2, <2>1 DEF RowsOf
  <2> QED
    BY <1>5, <2>2
<1>3. CASE c \in u
  <2>1. Status(reported, p, c) = Unknown
    BY <1>1, <1>3 DEF Status
  <2>2. r \in RowsOf(p, u, Unknown)
    BY <1>3, <2>1 DEF RowsOf
  <2> QED
    BY <1>5, <2>2
<1>4. CASE c \notin n /\ c \notin u
  <2>1. Status(reported, p, c) = Compliant
    BY <1>4 DEF Status
  <2>2. c \in ClustersIn(read, p)
    BY <2>1 DEF ClustersIn
  <2>3. r \in RowsOf(p, ClustersIn(read, p) \ (n \cup u), Compliant)
    BY <1>4, <2>1, <2>2 DEF RowsOf
  <2> QED
    BY <1>5, <2>3
<1> QED
  BY <1>2, <1>3, <1>4

\* The rows after the first statement and after the second.
Cleared(rows, read, reported) ==
    LET unsent == PoliciesIn(read) \ DOMAIN reported
    IN  {r \in rows : r.policy \notin unsent}
            \cup {WithCompliance(r, Compliant) : r \in {s \in rows : s.policy \in unsent}}

Reported(rows, read, reported) ==
    {r \in Cleared(rows, read, reported) : \A s \in Changed(read, reported) : ~SameKey(r, s)}
        \cup {s \in Changed(read, reported) :
                 \E r \in Cleared(rows, read, reported) : SameKey(r, s)}

\* UPDATE writes one column.
LEMMA SetCompliance ==
    ASSUME NEW r \in Row, NEW v
    PROVE  [r EXCEPT !["compliance"] = v] = WithCompliance(r, v)
<1>1. [r EXCEPT !["compliance"] = v] = [r EXCEPT !.compliance = v]
  BY DEF Row
<1>2. [r EXCEPT !.compliance = v] = [policy |-> r.policy, cluster |-> r.cluster, compliance |-> v]
  BY DEF Row
<1> QED
  BY <1>1, <1>2 DEF WithCompliance

LEMMA ClearedRows ==
    ASSUME NEW rows, rows \subseteq Row, NEW read, NEW reported
    PROVE  Execute(rows, UpdateUnsentPolicies(read, reported)) = Cleared(rows, read, reported)
<1> DEFINE X == PoliciesIn(read) \ DOMAIN reported
           new == {[policy |-> p, compliance |-> Compliant] : p \in X}
<1>1. \A s \in new : s.policy \in X /\ s["compliance"] = Compliant
  OBVIOUS
<1>2. ASSUME NEW p \in X PROVE \E s \in new : s.policy = p
  <2>1. [policy |-> p, compliance |-> Compliant] \in new
            /\ [policy |-> p, compliance |-> Compliant].policy = p
    OBVIOUS
  <2> QED
    BY <2>1
<1>3. UpdateUnsentPolicies(read, reported) = UpdateRows("compliance", {"policy"}, new)
  BY DEF UpdateUnsentPolicies
<1> HIDE DEF new, X
<1>4. ASSUME NEW x
      PROVE  x \in Execute(rows, UpdateRows("compliance", {"policy"}, new)) <=>
                 \/ x \in rows /\ x.policy \notin X
                 \/ \E r \in rows : r.policy \in X /\ x = WithCompliance(r, Compliant)
  <2>1. x \in Execute(rows, UpdateRows("compliance", {"policy"}, new)) <=>
            \/ x \in rows /\ \A s \in new : ~Agree(x, s, {"policy"})
            \/ \E r \in rows : \E s \in new :
                   Agree(r, s, {"policy"}) /\ x = [r EXCEPT !["compliance"] = s["compliance"]]
    BY ExecuteUpdate
  <2>2. (\A s \in new : ~Agree(x, s, {"policy"})) <=> x.policy \notin X
    BY <1>1, <1>2, AgreeOnPolicy
  <2>3. ASSUME NEW r \in rows
        PROVE  (\E s \in new : Agree(r, s, {"policy"})
                                 /\ x = [r EXCEPT !["compliance"] = s["compliance"]])
                 <=> r.policy \in X /\ x = WithCompliance(r, Compliant)
    <3>1. \A s \in new : [r EXCEPT !["compliance"] = s["compliance"]] = WithCompliance(r, Compliant)
      BY <1>1, SetCompliance
    <3> QED
      BY <1>1, <1>2, <3>1, AgreeOnPolicy
  <2> QED
    BY <2>1, <2>2, <2>3
<1>5. \A x : x \in Cleared(rows, read, reported) <=>
                 \/ x \in rows /\ x.policy \notin X
                 \/ \E r \in rows : r.policy \in X /\ x = WithCompliance(r, Compliant)
  BY DEF Cleared, X
<1> QED
  BY <1>3, <1>4, <1>5

LEMMA ReportedRows ==
    ASSUME NEW rows, rows \subseteq Row, NEW new, new \subseteq Row
    PROVE  Execute(rows, UpdateRows("compliance", RowKey, new)) =
               {r \in rows : \A s \in new : ~SameKey(r, s)}
                   \cup {s \in new : \E r \in rows : SameKey(r, s)}
<1>1. ASSUME NEW r \in Row, NEW s \in Row, SameKey(r, s)
      PROVE  [r EXCEPT !["compliance"] = s["compliance"]] = s
  <2>1. [r EXCEPT !["compliance"] = s["compliance"]] = WithCompliance(r, s["compliance"])
    BY SetCompliance
  <2>2. WithCompliance(r, s["compliance"]) =
            [policy |-> s.policy, cluster |-> s.cluster, compliance |-> s.compliance]
    BY <1>1 DEF WithCompliance, SameKey
  <2>3. s = [policy |-> s.policy, cluster |-> s.cluster, compliance |-> s.compliance]
    BY DEF Row
  <2> QED
    BY <2>1, <2>2, <2>3
<1>2. ASSUME NEW x
      PROVE  x \in Execute(rows, UpdateRows("compliance", RowKey, new)) <=>
                 \/ x \in rows /\ \A s \in new : ~SameKey(x, s)
                 \/ x \in new /\ \E r \in rows : SameKey(r, x)
  <2>1. x \in Execute(rows, UpdateRows("compliance", RowKey, new)) <=>
            \/ x \in rows /\ \A s \in new : ~Agree(x, s, RowKey)
            \/ \E r \in rows : \E s \in new :
                   Agree(r, s, RowKey) /\ x = [r EXCEPT !["compliance"] = s["compliance"]]
    BY ExecuteUpdate
  <2>2. (\E r \in rows : \E s \in new :
            Agree(r, s, RowKey) /\ x = [r EXCEPT !["compliance"] = s["compliance"]])
          <=> x \in new /\ \E r \in rows : SameKey(r, x)
    BY <1>1, AgreeOnKey
  <2> QED
    BY <2>1, <2>2, AgreeOnKey
<1> QED
  BY <1>2

\* The rows after each of the two statements.
ComplianceLeaves(batch, rows, read, reported) ==
    /\ Len(batch) = 2
    /\ ExecuteFirst(0, batch, rows) = rows
    /\ ExecuteFirst(1, batch, rows) = Cleared(rows, read, reported)
    /\ ExecuteFirst(2, batch, rows) = Reported(rows, read, reported)
    /\ Cleared(rows, read, reported) \subseteq Row
    /\ Reported(rows, read, reported) \subseteq Row

LEMMA ComplianceRows ==
    ASSUME NEW rows, rows \subseteq Row, NEW read, read \subseteq Row,
           NEW reported \in ListsOf(NonCompliance), NEW batch, batch = ComplianceBatch(read, reported)
    PROVE  ComplianceLeaves(batch, rows, read, reported)
<1>1. /\ Len(batch) = 2
      /\ batch[1] = UpdateUnsentPolicies(read, reported)
      /\ batch[2] = UpdateRows("compliance", RowKey, Changed(read, reported))
  BY DEF ComplianceBatch, UpdateClusters, Changed
<1>2. Changed(read, reported) \subseteq Row
  BY ChangedRows
<1>3. Cleared(rows, read, reported) \subseteq Row
  BY DEF Cleared, WithCompliance, Row
<1>4. Reported(rows, read, reported) \subseteq Row
  BY <1>2, <1>3 DEF Reported
<1>5. /\ ExecuteFirst(0, batch, rows) = rows
      /\ \A n \in 1 .. 2 : ExecuteFirst(n, batch, rows) =
                               Execute(ExecuteFirst(n - 1, batch, rows), batch[n])
  <2>1. Len(batch) = 2 /\ Len(batch) \in Nat
    BY <1>1
  <2> QED
    BY <2>1, ExecuteFirstStep
<1>6. 1 \in 1 .. 2 /\ 2 \in 1 .. 2 /\ 1 - 1 = 0 /\ 2 - 1 = 1
  OBVIOUS
<1>7. ExecuteFirst(1, batch, rows) = Cleared(rows, read, reported)
  <2>1. ExecuteFirst(1, batch, rows) = Execute(ExecuteFirst(1 - 1, batch, rows), batch[1])
    BY <1>5, <1>6, Zenon
  <2>2. ExecuteFirst(1, batch, rows) = Execute(rows, batch[1])
    BY <1>5, <1>6, <2>1, Zenon
  <2> QED
    BY <1>1, <2>2, ClearedRows
<1>8. ExecuteFirst(2, batch, rows) = Reported(rows, read, reported)
  <2>1. ExecuteFirst(2, batch, rows) = Execute(ExecuteFirst(2 - 1, batch, rows), batch[2])
    BY <1>5, <1>6, Zenon
  <2>2. ExecuteFirst(2, batch, rows) = Execute(Cleared(rows, read, reported), batch[2])
    BY <1>6, <1>7, <2>1, Zenon
  <2> QED
    BY <1>1, <1>2, <1>3, <2>2, ReportedRows DEF Reported
<1> QED
  BY <1>1, <1>3, <1>4, <1>5, <1>7, <1>8 DEF ComplianceLeaves

\* after has rows for the policies and clusters that rows has.
KeepsClusters(rows, after) ==
    after \subseteq Row /\ \A p : ClustersIn(after, p) = ClustersIn(rows, p)

LEMMA SameClusters ==
    ASSUME NEW A, NEW B, \A r \in A : \E s \in B : SameKey(r, s),
           \A s \in B : \E r \in A : SameKey(r, s), NEW p
    PROVE  ClustersIn(B, p) = ClustersIn(A, p)
<1>1. \A c \in ClustersIn(A, p) : \E r \in A : r.policy = p /\ r.cluster = c
  BY DEF ClustersIn
<1>2. \A c \in ClustersIn(B, p) : \E r \in B : r.policy = p /\ r.cluster = c
  BY DEF ClustersIn
<1>3. /\ \A r \in A : r.policy = p => r.cluster \in ClustersIn(A, p)
      /\ \A r \in B : r.policy = p => r.cluster \in ClustersIn(B, p)
  BY DEF ClustersIn
<1>4. ASSUME NEW c \in ClustersIn(A, p) PROVE c \in ClustersIn(B, p)
  <2>1. PICK r \in A : r.policy = p /\ r.cluster = c
    BY <1>1
  <2>2. PICK s \in B : SameKey(r, s)
    OBVIOUS
  <2> QED
    BY <1>3, <2>1, <2>2 DEF SameKey
<1>5. ASSUME NEW c \in ClustersIn(B, p) PROVE c \in ClustersIn(A, p)
  <2>1. PICK s \in B : s.policy = p /\ s.cluster = c
    BY <1>2
  <2>2. PICK r \in A : SameKey(r, s)
    OBVIOUS
  <2> QED
    BY <1>3, <2>1, <2>2 DEF SameKey
<1> QED
  BY <1>4, <1>5

\* Whatever the handler read, no prefix of the batch changes which clusters have rows.
LEMMA ComplianceKeepsClusters ==
    ASSUME NEW rows, rows \subseteq Row, NEW read, read \subseteq Row,
           NEW reported \in ListsOf(NonCompliance), NEW batch, batch = ComplianceBatch(read, reported),
           NEW n \in 0 .. Len(batch)
    PROVE  KeepsClusters(rows, ExecuteFirst(n, batch, rows))
<1> DEFINE rows1 == Cleared(rows, read, reported)
           rows2 == Reported(rows, read, reported)
<1>1. ComplianceLeaves(batch, rows, read, reported)
  BY ComplianceRows
<1>2. n \in {0, 1, 2}
  BY <1>1 DEF ComplianceLeaves
<1>3. /\ \A r \in rows : \E s \in rows1 : SameKey(r, s)
      /\ \A s \in rows1 : \E r \in rows : SameKey(r, s)
  <2> DEFINE X == PoliciesIn(read) \ DOMAIN reported
  <2>1. \A x : x \in rows1 <=>
                 \/ x \in rows /\ x.policy \notin X
                 \/ \E r \in rows : r.policy \in X /\ x = WithCompliance(r, Compliant)
    BY DEF Cleared
  <2>2. \A r \in rows : SameKey(r, WithCompliance(r, Compliant))
    BY DEF SameKey, WithCompliance
  <2>3. \A r : SameKey(r, r)
    BY DEF SameKey
  <2> HIDE DEF rows1, X
  <2>4. ASSUME NEW r \in rows PROVE \E s \in rows1 : SameKey(r, s)
    BY <2>1, <2>2, <2>3
  <2>5. ASSUME NEW s \in rows1 PROVE \E r \in rows : SameKey(r, s)
    BY <2>1, <2>2, <2>3
  <2> QED
    BY <2>4, <2>5
<1>4. /\ \A r \in rows1 : \E s \in rows2 : SameKey(r, s)
      /\ \A s \in rows2 : \E r \in rows1 : SameKey(r, s)
  <2> HIDE DEF rows1
  <2> QED
    BY DEF Reported, SameKey, rows1
<1> HIDE DEF rows1, rows2
<1>5. ASSUME NEW p
      PROVE  ClustersIn(rows1, p) = ClustersIn(rows, p) /\ ClustersIn(rows2, p) = ClustersIn(rows1, p)
  BY <1>3, <1>4, SameClusters
<1> QED
  BY <1>1, <1>2, <1>5 DEF ComplianceLeaves, KeepsClusters, rows1, rows2

\* If the handler read the rows that are not compliant, no prefix of the batch leaves
\* two rows of a policy and cluster, and the batch leaves the reported status.
LEMMA ComplianceWrites ==
    ASSUME NEW rows, rows \subseteq Row, OneRow(rows), NEW reported \in ListsOf(NonCompliance),
           NEW read, read = {r \in rows : r.compliance # Compliant},
           NEW batch, batch = ComplianceBatch(read, reported)
    PROVE  /\ Len(batch) = 2
           /\ \A n \in 0 .. Len(batch) : OneRow(ExecuteFirst(n, batch, rows))
           /\ \A r \in ExecuteFirst(Len(batch), batch, rows) :
                  r.compliance = Status(reported, r.policy, r.cluster)
<1> DEFINE rows1 == Cleared(rows, read, reported)
           rows2 == Reported(rows, read, reported)
           new == Changed(read, reported)
           unsent == PoliciesIn(read) \ DOMAIN reported
<1>1. ComplianceLeaves(batch, rows, read, reported)
  BY ComplianceRows
<1>2. \A s \in new : /\ s \in Row
                     /\ s.policy \in DOMAIN reported
                     /\ s.compliance = Status(reported, s.policy, s.cluster)
  BY ChangedRows
<1>3. \A r \in Row : r = [policy |-> r.policy, cluster |-> r.cluster, compliance |-> r.compliance]
  BY DEF Row
<1>4. \A x : x \in rows1 <=>
                 \/ x \in rows /\ x.policy \notin unsent
                 \/ \E r \in rows : r.policy \in unsent /\ x = WithCompliance(r, Compliant)
  BY DEF Cleared
<1>5. \A x : x \in rows2 <=>
                 \/ x \in rows1 /\ \A s \in new : ~SameKey(x, s)
                 \/ x \in new /\ \E r \in rows1 : SameKey(r, x)
  BY DEF Reported
<1>6. \A r \in rows : r.compliance # Compliant => r.policy \in PoliciesIn(read)
  BY DEF PoliciesIn
<1> HIDE DEF rows1, rows2, new, unsent
<1>7. ASSUME NEW r \in rows
      PROVE  /\ WithCompliance(r, Compliant).policy = r.policy
             /\ WithCompliance(r, Compliant).cluster = r.cluster
             /\ WithCompliance(r, Compliant).compliance = Compliant
  BY DEF WithCompliance
<1>8. OneRow(rows1)
  <2> SUFFICES ASSUME NEW r \in rows1, NEW s \in rows1, SameKey(r, s) PROVE r = s
      BY DEF OneRow
  <2>1. CASE r.policy \in unsent
    <3>1. PICK t \in rows : r = WithCompliance(t, Compliant)
      BY <1>4, <2>1
    <3>2. PICK v \in rows : s = WithCompliance(v, Compliant)
      BY <1>4, <2>1 DEF SameKey
    <3>3. SameKey(t, v)
      BY <1>7, <3>1, <3>2 DEF SameKey
    <3> QED
      BY <3>1, <3>2, <3>3 DEF OneRow
  <2>2. CASE r.policy \notin unsent
    <3>1. r \in rows
      BY <1>4, <1>7, <2>2
    <3>2. s \in rows
      BY <1>4, <1>7, <2>2 DEF SameKey
    <3> QED
      BY <3>1, <3>2 DEF OneRow
  <2> QED
    BY <2>1, <2>2
<1>9. OneRow(rows2)
  <2> SUFFICES ASSUME NEW r \in rows2, NEW s \in rows2, SameKey(r, s) PROVE r = s
      BY DEF OneRow
  <2>1. CASE r \in new /\ s \in new
    BY <1>2, <1>3, <2>1 DEF SameKey
  <2>2. CASE r \notin new /\ s \notin new
    BY <1>5, <1>8, <2>2 DEF OneRow
  <2>3. CASE r \in new /\ s \notin new
    BY <1>5, <2>3 DEF SameKey
  <2>4. CASE r \notin new /\ s \in new
    BY <1>5, <2>4
  <2> QED
    BY <2>1, <2>2, <2>3, <2>4
<1>10. ASSUME NEW r \in rows2 PROVE r.compliance = Status(reported, r.policy, r.cluster)
  <2>1. CASE r \in new
    BY <1>2, <2>1
  <2>2. CASE r \in rows1 /\ r.policy \notin DOMAIN reported
    <3>1. Status(reported, r.policy, r.cluster) = Compliant
      BY <2>2 DEF Status
    <3>2. r.compliance = Compliant
      BY <1>4, <1>6, <1>7, <2>2 DEF unsent
    <3> QED
      BY <3>1, <3>2
  <2>3. CASE r \in rows1 /\ r.policy \in DOMAIN reported /\ r \notin new
    <3> DEFINE t == [policy |-> r.policy, cluster |-> r.cluster,
                     compliance |-> Status(reported, r.policy, r.cluster)]
    <3>1. r \in rows
      BY <1>4, <1>7, <2>3 DEF unsent
    <3>2. \A s \in new : ~SameKey(r, s)
      BY <1>5, <2>3
    <3>3. SameKey(r, t)
      BY DEF SameKey
    <3>4. CASE Status(reported, r.policy, r.cluster) # Compliant \/ r \in read
      <4>1. t \in new \cup read
        BY <2>3, <3>4, ChangedAll DEF new
      <4>2. t \in rows
        BY <3>2, <3>3, <4>1
      <4>3. r = t
        BY <3>1, <3>3, <4>2 DEF OneRow
      <4> HIDE DEF t
      <4> QED
        BY <4>3 DEF t
    <3>5. CASE Status(reported, r.policy, r.cluster) = Compliant /\ r \notin read
      BY <3>1, <3>5
    <3> QED
      BY <3>4, <3>5
  <2> QED
    BY <1>5, <2>1, <2>2, <2>3
<1>11. /\ Len(batch) = 2
       /\ ExecuteFirst(0, batch, rows) = rows
       /\ ExecuteFirst(1, batch, rows) = rows1
       /\ ExecuteFirst(2, batch, rows) = rows2
  BY <1>1 DEF ComplianceLeaves, rows1, rows2
<1>12. \A n \in 0 .. Len(batch) : OneRow(ExecuteFirst(n, batch, rows))
  <2> TAKE n \in 0 .. Len(batch)
  <2>0. Len(batch) = 2
    BY <1>11
  <2>1. n \in {0, 1, 2}
    BY <2>0
  <2> QED
    BY <1>8, <1>9, <1>11, <2>1
<1> QED
  BY <1>10, <1>11, <1>12

-----------------------------------------------------------------------------
(***************************************************************************)
(* The inductive invariant, leaf hub by leaf hub.  Whatever a SELECT       *)
(* returns, a compliance bundle is handled after the clusters per policy   *)
(* bundle it was made for.  If a SELECT returns all rows it asks for, they *)
(* are still those of the table when the handler sends its batch: nobody   *)
(* else writes rows of the leaf hub.                                       *)
(***************************************************************************)

Lists(lh, a) == placement[lh][a.bundle.generation]

ReportOf(lh, a) == report[lh][a.bundle.generation]

StatusHolds(rows, reported) ==
    \A r \in rows : r.compliance = Status(reported, r.policy, r.cluster)

\* The handler of a has executed its whole batch.
Written(lh, a) ==
    /\ a.priority = ClustersPerPolicy => PlacementHolds(table[lh], Lists(lh, a))
    /\ a.priority = ComplianceStatus => StatusHolds(table[lh], ReportOf(lh, a))

DependencyMet(lh) ==
    /\ \A a \in active[lh] :
           a.priority = ComplianceStatus =>
               a.bundle.dependencyGeneration <= processed[lh][ClustersPerPolicy]
    /\ processed[lh][ComplianceStatus] > 0 =>
           \E b \in bundles[ComplianceStatus] :
               /\ b.generation = processed[lh][ComplianceStatus]
               /\ b.dependencyGeneration <= processed[lh][ClustersPerPolicy]

\* A leaf hub makes a compliance bundle for one clusters per policy bundle.
OneBasePerBundle ==
    \A b, c \in bundles[ComplianceStatus] : b.generation = c.generation => b = c

PlacementHandled(lh) ==
    held[lh][ClustersPerPolicy] = Nil /\ processed[lh][ClustersPerPolicy] > 0 =>
        PlacementHolds(table[lh], placement[lh][processed[lh][ClustersPerPolicy]])

StatusHandled(lh) ==
    \A b \in bundles[ComplianceStatus] :
        /\ b.generation > 0
        /\ held[lh][ClustersPerPolicy] = Nil
        /\ held[lh][ComplianceStatus] = Nil
        /\ processed[lh][ComplianceStatus] = b.generation
        /\ processed[lh][ClustersPerPolicy] = b.dependencyGeneration
        => StatusHolds(table[lh], report[lh][b.generation])

HubInv(lh) ==
    /\ handler[lh] = "idle" <=> active[lh] = {}
    /\ DependencyMet(lh)
    /\ ~QueriesMayFail =>
           /\ OneRow(table[lh])
           /\ handler[lh] = "send" => \A a \in active[lh] : rowsFromDB[lh] = Selected(lh, a.priority)
           /\ handler[lh] = "succeeded" => \A a \in active[lh] : Written(lh, a)
           /\ PlacementHandled(lh)
           /\ OneBasePerBundle => StatusHandled(lh)

PSTypes ==
    /\ placement \in [LeafHubs -> [Generations(ClustersPerPolicy) -> Placements]]
    /\ report \in [LeafHubs -> [Generations(ComplianceStatus) -> Reports]]
    /\ table \in [LeafHubs -> SUBSET Row]
    /\ handler \in [LeafHubs -> HandlerStates]
    /\ rowsFromDB \in [LeafHubs -> SUBSET Row]

PSInv == SDInv /\ PSTypes /\ \A lh \in LeafHubs : HubInv(lh)

-----------------------------------------------------------------------------
(***************************************************************************)
(* Every step keeps the invariant.                                         *)
(***************************************************************************)

LEMMA TwoTypes ==
    /\ ClustersPerPolicy \in Priorities /\ ComplianceStatus \in Priorities
    /\ ClustersPerPolicy # ComplianceStatus
    /\ \A p \in Priorities : p = ClustersPerPolicy \/ p = ComplianceStatus
BY SyncerAssumption, UnitAssumption

\* The bundle a handler works on, and what it may send for it.
LEMMA SentType ==
    ASSUME PSTypes, SDInv, NEW lh \in LeafHubs, NEW a \in active[lh]
    PROVE  /\ a.priority \in Priorities
           /\ active[lh] = {a}
           /\ held[lh][a.priority] # Nil
           /\ a.priority = ClustersPerPolicy =>
                  /\ Lists(lh, a) \in ClusterLists
                  /\ Batches(lh, a) = ClustersPerPolicyBatches(rowsFromDB[lh], Lists(lh, a))
           /\ a.priority = ComplianceStatus =>
                  /\ ReportOf(lh, a) \in ListsOf(NonCompliance)
                  /\ Batches(lh, a) = {ComplianceBatch(rowsFromDB[lh], ReportOf(lh, a))}
           /\ rowsFromDB[lh] \subseteq Row
           /\ table[lh] \subseteq Row
<1>1. /\ a.priority \in Priorities /\ a.bundle \in bundles[a.priority] /\ active[lh] = {a}
      /\ held[lh][a.priority] # Nil
  BY ActiveFacts
<1>2. a.bundle.generation \in Generations(a.priority)
  BY <1>1 DEF Generations
<1>3. ASSUME a.priority = ClustersPerPolicy
      PROVE  /\ Lists(lh, a) \in ClusterLists
             /\ Batches(lh, a) = ClustersPerPolicyBatches(rowsFromDB[lh], Lists(lh, a))
  <2>1. Lists(lh, a) \in Placements
    BY <1>2, <1>3 DEF PSTypes, Lists
  <2> QED
    BY <1>3, <2>1, SyncerAssumption DEF Batches, Lists
<1>4. ASSUME a.priority = ComplianceStatus
      PROVE  /\ ReportOf(lh, a) \in ListsOf(NonCompliance)
             /\ Batches(lh, a) = {ComplianceBatch(rowsFromDB[lh], ReportOf(lh, a))}
  <2>1. ReportOf(lh, a) \in Reports
    BY <1>2, <1>4 DEF PSTypes, ReportOf
  <2>2. a.priority # ClustersPerPolicy
    BY <1>4, TwoTypes
  <2> QED
    BY <2>1, <2>2, SyncerAssumption DEF Batches, ReportOf
<1> QED
  BY <1>1, <1>3, <1>4 DEF PSTypes

\* What the first n statements of its batch do, whatever the handler read.
SentKeeps(lh, a, after) ==
    /\ after \subseteq Row
    /\ a.priority = ClustersPerPolicy =>
           \A r \in table[lh] \ after : ~\E s \in after : SameKey(r, s)
    /\ a.priority = ComplianceStatus =>
           \A p : ClustersIn(after, p) = ClustersIn(table[lh], p)

LEMMA SentRows ==
    ASSUME PSTypes, SDInv, NEW lh \in LeafHubs, NEW a \in active[lh], NEW batch \in Batches(lh, a)
    PROVE  /\ Len(batch) \in Nat
           /\ \A n \in 0 .. Len(batch) : SentKeeps(lh, a, ExecuteFirst(n, batch, table[lh]))
<1>1. rowsFromDB[lh] \subseteq Row /\ table[lh] \subseteq Row /\ a.priority \in Priorities
  BY SentType
<1>2. CASE a.priority = ClustersPerPolicy
  <2>1. Lists(lh, a) \in ClusterLists /\ batch \in ClustersPerPolicyBatches(rowsFromDB[lh], Lists(lh, a))
    BY <1>2, SentType
  <2>2. /\ Len(batch) \in Nat
        /\ \A n \in 0 .. Len(batch) :
               PlacementPrefix(ExecuteFirst(n, batch, table[lh]), table[lh], rowsFromDB[lh], Lists(lh, a))
    BY <2>1, PlacementPrefixes
  <2>3. ASSUME NEW n \in 0 .. Len(batch)
        PROVE  SentKeeps(lh, a, ExecuteFirst(n, batch, table[lh]))
    <3> DEFINE after == ExecuteFirst(n, batch, table[lh])
    <3>1. PlacementPrefix(after, table[lh], rowsFromDB[lh], Lists(lh, a))
      BY <2>2
    <3> HIDE DEF after
    <3>2. after \subseteq Row /\ \A r \in table[lh] \ after : ~\E s \in after : SameKey(r, s)
      BY <1>1, <2>1, <3>1, PlacementDeletes
    <3>3. SentKeeps(lh, a, after)
      BY <1>2, <3>2, TwoTypes DEF SentKeeps
    <3> QED
      BY <3>3 DEF after
  <2> QED
    BY <2>2, <2>3
<1>3. CASE a.priority = ComplianceStatus
  <2>1. ReportOf(lh, a) \in ListsOf(NonCompliance) /\ batch = ComplianceBatch(rowsFromDB[lh], ReportOf(lh, a))
    BY <1>3, SentType
  <2>2. Len(batch) = 2
    BY <2>1 DEF ComplianceBatch
  <2>3. ASSUME NEW n \in 0 .. Len(batch)
        PROVE  SentKeeps(lh, a, ExecuteFirst(n, batch, table[lh]))
    <3>0. KeepsClusters(table[lh], ExecuteFirst(n, batch, table[lh]))
      BY <1>1, <2>1, ComplianceKeepsClusters
    <3>1. /\ ExecuteFirst(n, batch, table[lh]) \subseteq Row
          /\ \A p : ClustersIn(ExecuteFirst(n, batch, table[lh]), p) = ClustersIn(table[lh], p)
      BY <3>0 DEF KeepsClusters
    <3> QED
      BY <1>3, <3>1, TwoTypes DEF SentKeeps
  <2> QED
    BY <2>2, <2>3
<1> QED
  BY <1>1, <1>2, <1>3, TwoTypes

\* What they do if the handler read the rows it asked for.
SentWrites(lh, a, after) ==
    /\ a.priority = ClustersPerPolicy => PlacementHolds(after, Lists(lh, a))
    /\ a.priority = ComplianceStatus => StatusHolds(after, ReportOf(lh, a))

LEMMA SentWritten ==
    ASSUME PSTypes, SDInv, NEW lh \in LeafHubs, NEW a \in active[lh], NEW batch \in Batches(lh, a),
           OneRow(table[lh]), rowsFromDB[lh] = Selected(lh, a.priority)
    PROVE  /\ \A n \in 0 .. Len(batch) : OneRow(ExecuteFirst(n, batch, table[lh]))
           /\ SentWrites(lh, a, ExecuteFirst(Len(batch), batch, table[lh]))
<1>1. table[lh] \subseteq Row /\ a.priority \in Priorities
  BY SentType
<1>2. CASE a.priority = ClustersPerPolicy
  <2>1. /\ Lists(lh, a) \in ClusterLists
        /\ batch \in ClustersPerPolicyBatches(table[lh], Lists(lh, a))
    BY <1>2, SentType DEF Selected
  <2>2. /\ \A n \in 0 .. Len(batch) :
               PlacementPrefix(ExecuteFirst(n, batch, table[lh]), table[lh], table[lh], Lists(lh, a))
        /\ ExecuteFirst(Len(batch), batch, table[lh]) = AllPlaced(table[lh], table[lh], Lists(lh, a))
    BY <2>1, PlacementPrefixes
  <2>3. \A n \in 0 .. Len(batch) : OneRow(ExecuteFirst(n, batch, table[lh]))
    BY <1>1, <2>1, <2>2, PlacementOneRow
  <2>4. PlacementHolds(AllPlaced(table[lh], table[lh], Lists(lh, a)), Lists(lh, a))
    BY <1>1, <2>1, PlacementWrites
  <2> QED
    BY <1>2, <2>2, <2>3, <2>4, TwoTypes DEF SentWrites
<1>3. CASE a.priority = ComplianceStatus
  <2> DEFINE read == {r \in table[lh] : r.compliance # Compliant}
  <2>1. /\ ReportOf(lh, a) \in ListsOf(NonCompliance)
        /\ batch = ComplianceBatch(read, ReportOf(lh, a))
    BY <1>3, SentType, TwoTypes DEF Selected
  <2>2. /\ \A n \in 0 .. Len(batch) : OneRow(ExecuteFirst(n, batch, table[lh]))
        /\ \A r \in ExecuteFirst(Len(batch), batch, table[lh]) :
               r.compliance = Status(ReportOf(lh, a), r.policy, r.cluster)
    BY <1>1, <2>1, ComplianceWrites
  <2> QED
    BY <1>3, <2>2, TwoTypes DEF SentWrites, StatusHolds
<1> QED
  BY <1>1, <1>2, <1>3, TwoTypes

\* The first run, or a restart: the table has one row per policy and cluster.
LEMMA PSInitInv == PSInit => PSInv
<1> SUFFICES ASSUME PSInit PROVE PSInv
    OBVIOUS
<1> USE SyncerAssumption DEF PSInit
<1>1. SDInv
  BY SDInitInv
<1>2. PSTypes
  BY DEF PSTypes, HandlerStates
<1>3. ASSUME NEW lh \in LeafHubs PROVE HubInv(lh)
  <2>1. /\ active[lh] = {} /\ handler[lh] = "idle"
        /\ processed[lh][ClustersPerPolicy] = 0 /\ processed[lh][ComplianceStatus] = 0
    BY TwoTypes DEF SDInit
  <2>2. OneRow(table[lh])
    BY AgreeOnKey DEF OneRow
  <2>3. DependencyMet(lh) /\ PlacementHandled(lh)
    BY <2>1 DEF DependencyMet, PlacementHandled
  <2>4. StatusHandled(lh)
    BY <2>1 DEF StatusHandled
  <2> QED
    BY <2>1, <2>2, <2>3, <2>4 DEF HubInv
<1> QED
  BY <1>1, <1>2, <1>3 DEF PSInv

Step(lh) ==
    \/ \E p \in Priorities : ReceiveBundle(lh, p)
    \/ \E p \in Priorities : CallHandler(lh, p)
    \/ Select(lh)
    \/ SelectFails(lh)
    \/ SendBatch(lh)
    \/ SendBatchFails(lh)
    \/ HandlerReturns(lh)

LEMMA NextIsStep == PSNext => \E lh \in LeafHubs : Step(lh)
BY DEF PSNext, HandlerStep, HandlerFails, Step

\* The steps of this module call the handlers as SerialDelivery says.
LEMMA PSStepIsSDStep == PSNext => [SDNext]_sdVars
<1> SUFFICES ASSUME NEW lh \in LeafHubs, Step(lh) PROVE [SDNext]_sdVars
    BY NextIsStep
<1>1. CASE \E p \in Priorities : ReceiveBundle(lh, p)
  BY <1>1 DEF ReceiveBundle, SDNext
<1>2. CASE \E p \in Priorities : CallHandler(lh, p)
  BY <1>2 DEF CallHandler, SDNext
<1>3. CASE SendBatch(lh)
  <2>1. \E a \in active[lh] : Store(lh, a)
    BY <1>3 DEF SendBatch
  <2> QED
    BY <2>1 DEF SDNext
<1>4. CASE HandlerReturns(lh)
  BY <1>4 DEF HandlerReturns, SDNext
<1>5. CASE UNCHANGED sdVars
  BY <1>5
<1> QED
  BY <1>1, <1>2, <1>3, <1>4, <1>5 DEF Step, Select, SelectFails, SendBatchFails

\* What sending a batch may make of the rows.
Sends(lh, a, batch, n) ==
    /\ table' = [table EXCEPT ![lh] = ExecuteFirst(n, batch, table[lh])]
    /\ handler'[lh] = "succeeded" => n = Len(batch)

LEMMA SendRows ==
    ASSUME PSTypes, SDInv, NEW lh \in LeafHubs, SendBatch(lh) \/ SendBatchFails(lh)
    PROVE  \E a \in active[lh] : \E batch \in Batches(lh, a) : \E n \in 0 .. Len(batch) :
               Sends(lh, a, batch, n)
<1>1. CASE SendBatch(lh)
  <2>1. PICK a \in active[lh] : \E batch \in Batches(lh, a) :
            table' = [table EXCEPT ![lh] = ExecuteFirst(Len(batch), batch, table[lh])]
    BY <1>1 DEF SendBatch
  <2>2. PICK batch \in Batches(lh, a) :
            table' = [table EXCEPT ![lh] = ExecuteFirst(Len(batch), batch, table[lh])]
    BY <2>1
  <2>3. Len(batch) \in Nat
    BY <2>1, <2>2, SentRows
  <2>4. Len(batch) \in 0 .. Len(batch)
    BY <2>3
  <2>5. Sends(lh, a, batch, Len(batch))
    BY <2>2 DEF Sends
  <2> QED
    BY <2>1, <2>2, <2>4, <2>5
<1>2. CASE SendBatchFails(lh)
  <2>1. handler'[lh] = "failed"
    BY <1>2 DEF SendBatchFails, PSTypes
  <2> QED
    BY <1>2, <2>1 DEF SendBatchFails, Sends
<1> QED
  BY <1>1, <1>2

LEMMA StepRows ==
    ASSUME PSTypes, SDInv, NEW lh \in LeafHubs, Step(lh)
    PROVE  \/ UNCHANGED table
           \/ \E a \in active[lh] : \E batch \in Batches(lh, a) : \E n \in 0 .. Len(batch) :
                  table' = [table EXCEPT ![lh] = ExecuteFirst(n, batch, table[lh])]
<1>1. CASE SendBatch(lh) \/ SendBatchFails(lh)
  BY <1>1, SendRows DEF Sends
<1> QED
  BY <1>1 DEF Step, ReceiveBundle, CallHandler, Select, SelectFails, HandlerReturns

LEMMA PSTypesStep == PSInv /\ PSNext => PSTypes'
<1> SUFFICES ASSUME PSInv, NEW lh \in LeafHubs, Step(lh) PROVE PSTypes'
    BY NextIsStep
<1>0. PSTypes /\ SDInv
  BY DEF PSInv
<1>1. table' \in [LeafHubs -> SUBSET Row]
  <2>1. ASSUME NEW a \in active[lh], NEW batch \in Batches(lh, a), NEW n \in 0 .. Len(batch)
        PROVE  ExecuteFirst(n, batch, table[lh]) \subseteq Row
    BY <1>0, SentRows DEF SentKeeps
  <2>2. CASE UNCHANGED table
    BY <1>0, <2>2 DEF PSTypes
  <2>3. ASSUME NEW after, after \subseteq Row, table' = [table EXCEPT ![lh] = after]
        PROVE  table' \in [LeafHubs -> SUBSET Row]
    BY <1>0, <2>3 DEF PSTypes
  <2> QED
    BY <1>0, <2>1, <2>2, <2>3, StepRows
<1>2. rowsFromDB' \in [LeafHubs -> SUBSET Row]
  <2>1. CASE Select(lh)
    <3>1. \A p : Selected(lh, p) \subseteq Row
      BY <1>0 DEF Selected, PSTypes
    <3>2. \A p : \A rows \in Returned(Selected(lh, p)) : rows \subseteq Row
      BY <3>1 DEF Returned
    <3> QED
      BY <1>0, <2>1, <3>2 DEF Select, PSTypes
  <2> QED
    BY <1>0, <2>1 DEF PSTypes, Step, ReceiveBundle, CallHandler, SelectFails, SendBatch,
        SendBatchFails, HandlerReturns
<1>3. handler' \in [LeafHubs -> HandlerStates] /\ UNCHANGED contents
  BY <1>0 DEF PSTypes, HandlerStates, Step, ReceiveBundle, CallHandler, Select, SelectFails,
      SendBatch, SendBatchFails, HandlerReturns
<1> QED
  BY <1>0, <1>1, <1>2, <1>3 DEF PSTypes, contents

\* A step for one leaf hub leaves what the invariant says of another.
LEMMA HubFrame ==
    ASSUME NEW k \in LeafHubs, HubInv(k), UNCHANGED contents,
           held'[k] = held[k], processed'[k] = processed[k], active'[k] = active[k],
           table'[k] = table[k], handler'[k] = handler[k], rowsFromDB'[k] = rowsFromDB[k]
    PROVE  HubInv(k)'
<1>1. DependencyMet(k)' <=> DependencyMet(k)
  BY DEF DependencyMet
<1>2. PlacementHandled(k)' <=> PlacementHandled(k)
  BY DEF PlacementHandled, contents
<1>3. StatusHandled(k)' <=> StatusHandled(k)
  BY DEF StatusHandled, contents
<1>4. \A a : (Written(k, a)' <=> Written(k, a)) /\ Selected(k, a.priority)' = Selected(k, a.priority)
  BY DEF Written, Lists, ReportOf, Selected, contents
<1> QED
  BY <1>1, <1>2, <1>3, <1>4 DEF HubInv

LEMMA OtherHubs ==
    ASSUME PSInv, NEW lh \in LeafHubs, Step(lh), NEW k \in LeafHubs \ {lh}
    PROVE  HubInv(k)'
<1>0. PSTypes /\ SDInv /\ SDTypeOK /\ HubInv(k)
  BY DEF PSInv, SDInv
<1>1. held'[k] = held[k] /\ processed'[k] = processed[k] /\ active'[k] = active[k]
  <2>1. CASE UNCHANGED sdVars
    BY <2>1 DEF sdVars
  <2>2. CASE \E p \in Priorities : ReceiveBundle(lh, p) \/ CallHandler(lh, p)
    BY <1>0, <2>2 DEF SDTypeOK, ReceiveBundle, CallHandler, Receive, Start
  <2>3. CASE SendBatch(lh)
    BY <2>3 DEF SendBatch, Store
  <2>4. CASE HandlerReturns(lh)
    BY <1>0, <2>4 DEF SDTypeOK, HandlerReturns, Succeed, Fail
  <2> QED
    BY <2>1, <2>2, <2>3, <2>4 DEF Step, Select, SelectFails, SendBatchFails
<1>2. table'[k] = table[k]
  BY <1>0, StepRows DEF PSTypes
<1>3. handler'[k] = handler[k] /\ rowsFromDB'[k] = rowsFromDB[k] /\ UNCHANGED contents
  BY <1>0 DEF PSTypes, Step, ReceiveBundle, CallHandler, Select, SelectFails, SendBatch,
      SendBatchFails, HandlerReturns
<1> QED
  BY <1>0, <1>1, <1>2, <1>3, HubFrame

\* While a handler works, the unit holds a bundle of its type: the invariant says
\* nothing of the status of the rows.
LEMMA PSWorking ==
    ASSUME SDInv', NEW lh \in LeafHubs, active'[lh] # {}, handler'[lh] # "idle",
           DependencyMet(lh)',
           ~QueriesMayFail =>
               /\ OneRow(table'[lh])
               /\ handler'[lh] = "send" =>
                      \A a \in active'[lh] : rowsFromDB'[lh] = Selected(lh, a.priority)'
               /\ handler'[lh] = "succeeded" => \A a \in active'[lh] : Written(lh, a)'
               /\ PlacementHandled(lh)'
    PROVE  HubInv(lh)'
<1>1. held'[lh][ClustersPerPolicy] # Nil \/ held'[lh][ComplianceStatus] # Nil
  <2>1. PICK a : a \in active'[lh]
    OBVIOUS
  <2>2. a.priority \in Priorities /\ held'[lh][a.priority] # Nil
    BY <2>1 DEF SDInv, SDTypeOK, Activity, ActiveIsHeld
  <2> QED
    BY <2>2, TwoTypes
<1>2. StatusHandled(lh)'
  BY <1>1 DEF StatusHandled
<1> QED
  BY <1>2 DEF HubInv

LEMMA HubReceives ==
    ASSUME PSInv, NEW lh \in LeafHubs, NEW p \in Priorities, ReceiveBundle(lh, p)
    PROVE  HubInv(lh)'
<1>0. SDTypeOK /\ HubInv(lh)
  BY DEF PSInv, SDInv
<1>1. PICK b \in bundles[p] : Receive(lh, p, b)
  BY DEF ReceiveBundle
<1>2. b # Nil
  BY DeliveryAssumption, UnitAssumption
<1>3. /\ held'[lh][p] = b
      /\ \A q \in Priorities : q # p => held'[lh][q] = held[lh][q]
      /\ UNCHANGED <<processed, active, contents, table, handler, rowsFromDB>>
  BY <1>0, <1>1 DEF ReceiveBundle, Receive, SDTypeOK
<1>4. \A q \in Priorities : held'[lh][q] = Nil => held[lh][q] = Nil
  BY <1>2, <1>3
<1>5. /\ held'[lh][ClustersPerPolicy] = Nil => held[lh][ClustersPerPolicy] = Nil
      /\ held'[lh][ComplianceStatus] = Nil => held[lh][ComplianceStatus] = Nil
  BY <1>4, TwoTypes
<1>6. DependencyMet(lh)' <=> DependencyMet(lh)
  BY <1>3 DEF DependencyMet
<1>7. PlacementHandled(lh) => PlacementHandled(lh)'
  BY <1>3, <1>5 DEF PlacementHandled, contents
<1>8. StatusHandled(lh) => StatusHandled(lh)'
  BY <1>3, <1>5 DEF StatusHandled, contents
<1>9. \A a : (Written(lh, a)' <=> Written(lh, a)) /\ Selected(lh, a.priority)' = Selected(lh, a.priority)
  BY <1>3 DEF Written, Lists, ReportOf, Selected, contents
<1> QED
  BY <1>0, <1>3, <1>6, <1>7, <1>8, <1>9 DEF HubInv

LEMMA HubCalls ==
    ASSUME PSInv, SDInv', NEW lh \in LeafHubs, NEW p \in Priorities, CallHandler(lh, p)
    PROVE  HubInv(lh)'
<1>0. SDTypeOK /\ PSTypes /\ HubInv(lh)
  BY DEF PSInv, SDInv
<1> DEFINE a == [priority |-> p, bundle |-> held[lh][p]]
<1>1. /\ active'[lh] = {a} /\ handler'[lh] = "select"
      /\ UNCHANGED <<held, processed, contents, table, rowsFromDB>>
      /\ dependency[p] # Nil => held[lh][p].dependencyGeneration <= processed[lh][dependency[p]]
  BY <1>0 DEF CallHandler, Start, PSTypes, SDTypeOK
<1>2. p = ComplianceStatus => held[lh][p].dependencyGeneration <= processed[lh][ClustersPerPolicy]
  BY <1>1, SyncerAssumption, UnitAssumption
<1>3. DependencyMet(lh)'
  BY <1>0, <1>1, <1>2 DEF DependencyMet, HubInv
<1>4. PlacementHandled(lh) => PlacementHandled(lh)'
  BY <1>1 DEF PlacementHandled, contents
<1>5. active'[lh] # {}
  BY <1>1
<1> QED
  BY <1>0, <1>1, <1>3, <1>4, <1>5, PSWorking DEF HubInv

LEMMA HubSelects ==
    ASSUME PSInv, SDInv', NEW lh \in LeafHubs, Select(lh) \/ SelectFails(lh)
    PROVE  HubInv(lh)'
<1>0. SDTypeOK /\ SDInv /\ PSTypes /\ HubInv(lh)
  BY DEF PSInv, SDInv
<1>1. /\ UNCHANGED <<held, processed, active, contents, table>>
      /\ handler'[lh] = "send" \/ (handler'[lh] = "failed" /\ active[lh] # {})
  BY <1>0 DEF Select, SelectFails, sdVars, PSTypes
<1>2. active[lh] # {}
  BY <1>0, <1>1 DEF Select, SelectFails, HubInv
<1>3. handler'[lh] = "send" /\ ~QueriesMayFail =>
          \A a \in active[lh] : rowsFromDB'[lh] = Selected(lh, a.priority)
  <2> SUFFICES ASSUME handler'[lh] = "send", ~QueriesMayFail, NEW a \in active[lh]
               PROVE  rowsFromDB'[lh] = Selected(lh, a.priority)
      OBVIOUS
  <2>1. Select(lh)
    BY <1>0 DEF SelectFails, PSTypes
  <2>2. PICK b \in active[lh] : rowsFromDB' = [rowsFromDB EXCEPT ![lh] = Selected(lh, b.priority)]
    BY <2>1 DEF Select, Returned
  <2>3. a = b
    BY <1>0 DEF SDInv, OneHandler
  <2> QED
    BY <1>0, <2>2, <2>3 DEF PSTypes
<1>4. DependencyMet(lh)' <=> DependencyMet(lh)
  BY <1>1 DEF DependencyMet
<1>5. PlacementHandled(lh)' <=> PlacementHandled(lh)
  BY <1>1 DEF PlacementHandled, contents
<1>6. \A a : Selected(lh, a.priority)' = Selected(lh, a.priority)
  BY <1>1 DEF Selected
<1>7. active'[lh] # {} /\ handler'[lh] # "idle" /\ handler'[lh] # "succeeded"
  BY <1>1, <1>2
<1> QED
  BY <1>0, <1>1, <1>3, <1>4, <1>5, <1>6, <1>7, PSWorking DEF HubInv

LEMMA HubSends ==
    ASSUME PSInv, SDInv', NEW lh \in LeafHubs, SendBatch(lh) \/ SendBatchFails(lh)
    PROVE  HubInv(lh)'
<1>0. SDTypeOK /\ SDInv /\ PSTypes /\ HubInv(lh)
  BY DEF PSInv, SDInv
<1>1. PICK a \in active[lh] : \E batch \in Batches(lh, a) : \E n \in 0 .. Len(batch) :
          Sends(lh, a, batch, n)
  BY <1>0, SendRows
<1>2. PICK batch \in Batches(lh, a) : \E n \in 0 .. Len(batch) : Sends(lh, a, batch, n)
  BY <1>1
<1>3. PICK n \in 0 .. Len(batch) : Sends(lh, a, batch, n)
  BY <1>2
<1> DEFINE after == ExecuteFirst(n, batch, table[lh])
<1>4. table'[lh] = after /\ (handler'[lh] = "succeeded" => n = Len(batch))
  BY <1>0, <1>3 DEF PSTypes, Sends
<1>5. /\ UNCHANGED <<held, processed, active, contents>> /\ handler[lh] = "send"
      /\ handler'[lh] \in {"succeeded", "failed"}
  BY <1>0 DEF SendBatch, SendBatchFails, Store, PSTypes, sdVars
<1>6. SentKeeps(lh, a, after)
  BY <1>0, <1>1, <1>2, <1>3, SentRows
<1>7. active[lh] = {a} /\ a.priority \in Priorities /\ held[lh][a.priority] # Nil
  BY <1>0, <1>1, SentType
<1>8. DependencyMet(lh)' <=> DependencyMet(lh)
  BY <1>5 DEF DependencyMet
<1>9. PlacementHandled(lh) => PlacementHandled(lh)'
  <2>1. CASE a.priority = ClustersPerPolicy
    BY <1>5, <1>7, <2>1 DEF PlacementHandled
  <2>2. CASE a.priority = ComplianceStatus
    <3>1. \A p : ClustersIn(table'[lh], p) = ClustersIn(table[lh], p)
      BY <1>4, <1>6, <2>2 DEF SentKeeps
    <3>2. \A lists : PlacementHolds(table'[lh], lists) <=> PlacementHolds(table[lh], lists)
      BY <3>1 DEF PlacementHolds
    <3> QED
      BY <1>5, <3>2 DEF PlacementHandled, contents
  <2> QED
    BY <1>7, <2>1, <2>2, TwoTypes
<1>10. ASSUME ~QueriesMayFail
       PROVE  /\ OneRow(table'[lh])
              /\ handler'[lh] = "succeeded" => SentWrites(lh, a, table'[lh])
  <2>1. OneRow(table[lh]) /\ rowsFromDB[lh] = Selected(lh, a.priority)
    BY <1>0, <1>1, <1>5, <1>10 DEF HubInv
  <2>2. /\ \A i \in 0 .. Len(batch) : OneRow(ExecuteFirst(i, batch, table[lh]))
        /\ SentWrites(lh, a, ExecuteFirst(Len(batch), batch, table[lh]))
    BY <1>0, <1>1, <1>2, <2>1, SentWritten
  <2> QED
    BY <1>3, <1>4, <2>2
<1>11. SentWrites(lh, a, table'[lh]) => Written(lh, a)'
  BY <1>5 DEF SentWrites, Written, Lists, ReportOf, contents
<1>12. active'[lh] = {a} /\ active'[lh] # {} /\ handler'[lh] # "idle" /\ handler'[lh] # "send"
  BY <1>5, <1>7
<1> HIDE DEF after
<1> QED
  BY <1>0, <1>8, <1>9, <1>10, <1>11, <1>12, PSWorking DEF HubInv

\* The handler returns nil.  A clusters per policy bundle that was handled is newer
\* than the one a compliance bundle handled before was made for.
LEMMA HubSucceeds ==
    ASSUME PSInv, SDInv', NEW lh \in LeafHubs, HandlerReturns(lh), handler[lh] = "succeeded",
           NEW a \in active[lh], Succeed(lh, a)
    PROVE  HubInv(lh)'
<1>0. SDTypeOK /\ SDInv /\ PSTypes /\ HubInv(lh)
  BY DEF PSInv, SDInv
<1> DEFINE g == a.bundle.generation
<1>1. /\ a.priority \in Priorities /\ a.bundle \in bundles[a.priority] /\ g \in Nat
      /\ processed[lh][a.priority] \in Nat /\ g > processed[lh][a.priority]
  BY <1>0, ActiveFacts
<1>2. /\ UNCHANGED <<contents, table>> /\ handler'[lh] = "idle" /\ active'[lh] = {}
      /\ processed'[lh][a.priority] = g
      /\ \A q \in Priorities : q # a.priority =>
             processed'[lh][q] = processed[lh][q] /\ held'[lh][q] = held[lh][q]
  BY <1>0, <1>1 DEF HandlerReturns, Succeed, PSTypes, SDTypeOK
<1>3. \A b \in bundles[ComplianceStatus] : b.generation \in Nat /\ b.dependencyGeneration \in Nat
  BY DeliveryAssumption, TwoTypes DEF Bundle
<1>4. DependencyMet(lh) /\ processed[lh][ClustersPerPolicy] \in Nat
  BY <1>0, TwoTypes DEF HubInv, SDTypeOK
<1>5. ~QueriesMayFail => Written(lh, a) /\ OneRow(table[lh]) /\ PlacementHandled(lh)
  BY <1>0 DEF HubInv
<1>6. CASE a.priority = ClustersPerPolicy
  <2>1. /\ processed'[lh][ClustersPerPolicy] = g
        /\ processed'[lh][ComplianceStatus] = processed[lh][ComplianceStatus]
        /\ processed[lh][ClustersPerPolicy] < g
    BY <1>1, <1>2, <1>6, TwoTypes
  <2>2. processed[lh][ComplianceStatus] > 0 =>
            \E b \in bundles[ComplianceStatus] :
                b.generation = processed[lh][ComplianceStatus] /\ b.dependencyGeneration < g
    BY <1>1, <1>3, <1>4, <2>1 DEF DependencyMet
  <2>3. DependencyMet(lh)'
    BY <1>1, <1>2, <1>3, <2>1, <2>2 DEF DependencyMet
  <2>4. ~QueriesMayFail => PlacementHandled(lh)'
    BY <1>2, <1>5, <1>6, <2>1 DEF PlacementHandled, Written, Lists, contents
  <2>5. OneBasePerBundle => StatusHandled(lh)'
    <3> SUFFICES ASSUME OneBasePerBundle, NEW b \in bundles[ComplianceStatus], b.generation > 0,
                        processed'[lh][ComplianceStatus] = b.generation,
                        processed'[lh][ClustersPerPolicy] = b.dependencyGeneration
                 PROVE  FALSE
        BY DEF StatusHandled
    <3>1. PICK c \in bundles[ComplianceStatus] :
              c.generation = processed[lh][ComplianceStatus] /\ c.dependencyGeneration < g
      BY <2>1, <2>2
    <3>2. b = c
      BY <2>1, <3>1 DEF OneBasePerBundle
    <3>3. b.dependencyGeneration < g /\ b.dependencyGeneration = g
      BY <2>1, <3>1, <3>2
    <3> HIDE DEF g
    <3> QED
      BY <1>1, <3>3
  <2> QED
    BY <1>2, <1>5, <2>3, <2>4, <2>5 DEF HubInv
<1>7. CASE a.priority = ComplianceStatus
  <2>1. /\ processed'[lh][ComplianceStatus] = g
        /\ processed'[lh][ClustersPerPolicy] = processed[lh][ClustersPerPolicy]
        /\ held'[lh][ClustersPerPolicy] = held[lh][ClustersPerPolicy]
    BY <1>2, <1>7, TwoTypes
  <2>2. a.bundle.dependencyGeneration <= processed[lh][ClustersPerPolicy]
    BY <1>4, <1>7 DEF DependencyMet
  <2>3. DependencyMet(lh)'
    BY <1>1, <1>2, <1>7, <2>1, <2>2 DEF DependencyMet
  <2>4. PlacementHandled(lh) => PlacementHandled(lh)'
    BY <1>2, <2>1 DEF PlacementHandled, contents
  <2>5. ~QueriesMayFail => StatusHandled(lh)'
    BY <1>2, <1>5, <1>7, <2>1 DEF StatusHandled, Written, ReportOf, contents
  <2> QED
    BY <1>2, <1>5, <2>3, <2>4, <2>5 DEF HubInv
<1> QED
  BY <1>1, <1>6, <1>7, TwoTypes

LEMMA HubReturns ==
    ASSUME PSInv, SDInv', NEW lh \in LeafHubs, HandlerReturns(lh)
    PROVE  HubInv(lh)'
<1>0. SDTypeOK /\ SDInv /\ PSTypes /\ HubInv(lh)
  BY DEF PSInv, SDInv
<1>1. CASE handler[lh] = "succeeded" /\ \E a \in active[lh] : Succeed(lh, a)
  BY <1>1, HubSucceeds
<1>2. CASE Fail(lh)
  <2>1. /\ UNCHANGED <<held, processed, contents, table>> /\ handler'[lh] = "idle" /\ active'[lh] = {}
    BY <1>0, <1>2 DEF HandlerReturns, Fail, PSTypes, SDTypeOK
  <2>2. DependencyMet(lh) => DependencyMet(lh)'
    BY <2>1 DEF DependencyMet
  <2>3. PlacementHandled(lh) => PlacementHandled(lh)'
    BY <2>1 DEF PlacementHandled, contents
  <2>4. StatusHandled(lh) => StatusHandled(lh)'
    BY <2>1 DEF StatusHandled, contents
  <2> QED
    BY <1>0, <2>1, <2>2, <2>3, <2>4 DEF HubInv
<1> QED
  BY <1>1, <1>2 DEF HandlerReturns

\* PSInv is inductive.
LEMMA PSStepInv == PSInv /\ [PSNext]_psVars => PSInv'
<1> SUFFICES ASSUME PSInv, [PSNext]_psVars PROVE PSInv'
    OBVIOUS
<1>1. CASE PSNext
  <2>1. SDInv'
    BY <1>1, PSStepIsSDStep, SDStepInv DEF PSInv
  <2>2. PSTypes'
    BY <1>1, PSTypesStep
  <2>3. PICK lh \in LeafHubs : Step(lh)
    BY <1>1, NextIsStep
  <2>4. HubInv(lh)'
    BY <2>1, <2>3, HubReceives, HubCalls, HubSelects, HubSends, HubReturns DEF Step
  <2>5. \A k \in LeafHubs : HubInv(k)'
    BY <2>3, <2>4, OtherHubs
  <2> QED
    BY <2>1, <2>2, <2>5 DEF PSInv
<1>2. CASE UNCHANGED psVars
  <2>1. SDInv'
    BY <1>2, SDStepInv DEF PSInv, psVars
  <2>2. PSTypes'
    BY <1>2 DEF PSInv, PSTypes, psVars, contents
  <2>3. ASSUME NEW k \in LeafHubs PROVE HubInv(k)'
    BY <1>2, HubFrame DEF PSInv, psVars, sdVars
  <2> QED
    BY <2>1, <2>2, <2>3 DEF PSInv
<1> QED
  BY <1>1, <1>2

LEMMA PSInvariance == PSSpec => []PSInv
BY PSInitInv, PSStepInv, PTL DEF PSSpec

-----------------------------------------------------------------------------
(***************************************************************************)
(* The theorems.                                                           *)
(***************************************************************************)

\* The handlers' variables have their types, whatever the statements of a batch
\* leave, and a handler works exactly while it has a bundle.
THEOREM PSTypeCorrect == PSSpec => []PSTypeOK
<1>1. PSInv => PSTypeOK
  BY DEF PSInv, PSTypes, HubInv, PSTypeOK, SDInv, SDTypeOK
<1> QED
  BY <1>1, PSInvariance, PTL

\* If a SELECT that ends without an error has returned all rows, the table has rows
\* for exactly the clusters of the newest clusters per policy bundle once it was
\* handled, after any number of batches that failed half way.
THEOREM HandledPlacementIsTable ==
    ASSUME ~QueriesMayFail
    PROVE  PSSpec => []RowsMatchPlacement
<1>1. PSInv => RowsMatchPlacement
  BY DEF PSInv, HubInv, PlacementHandled, PlacementHolds, RowsMatchPlacement
<1> QED
  BY <1>1, PSInvariance, PTL

\* Under the same condition no cluster of a policy ever has two rows, not even between
\* two statements of a batch.
THEOREM ClusterHasOneRow ==
    ASSUME ~QueriesMayFail
    PROVE  PSSpec => []OneRowPerCluster
<1>1. PSInv => OneRowPerCluster
  BY AgreeOnKey DEF PSInv, HubInv, OneRow, OneRowPerCluster
<1> QED
  BY <1>1, PSInvariance, PTL

\* Under the same condition, and if a leaf hub makes a compliance bundle for one
\* clusters per policy bundle, every row has the status that the leaf hub reported
\* once both bundles were handled, whatever arrived between the handlers' steps.
THEOREM HandledReportIsTable ==
    ASSUME ~QueriesMayFail, OneBasePerBundle
    PROVE  PSSpec => []TableIsLeafHubStatus
<1>1. \A lh, g, p, c : ReportedCompliance(lh, g, p, c) = Status(report[lh][g], p, c)
  BY DEF ReportedCompliance, Status
<1>2. PSInv => TableIsLeafHubStatus
  BY <1>1 DEF PSInv, HubInv, StatusHandled, StatusHolds, TableIsLeafHubStatus
<1> QED
  BY <1>2, PSInvariance, PTL

\* The clusters per policy handler changes no row's status and the compliance handler
\* adds and removes none, whatever the SELECT returned and wherever the batch fails.
THEOREM HandlersKeepApart == PSSpec => HandlersKeepToTheirRows
<1> DEFINE Keep == \A lh \in LeafHubs : \A a \in active[lh] :
               IF a.priority = ClustersPerPolicy
               THEN \A r \in table[lh] \ table'[lh] : ~\E s \in table'[lh] : Agree(r, s, RowKey)
               ELSE \A p \in Policies : ClustersIn(table'[lh], p) = ClustersIn(table[lh], p)
<1>1. PSInv /\ [PSNext]_psVars => [Keep]_psVars
  <2> SUFFICES ASSUME PSInv, PSNext, NEW lh \in LeafHubs, NEW a \in active[lh]
               PROVE  IF a.priority = ClustersPerPolicy
                      THEN \A r \in table[lh] \ table'[lh] : ~\E s \in table'[lh] : Agree(r, s, RowKey)
                      ELSE \A p \in Policies : ClustersIn(table'[lh], p) = ClustersIn(table[lh], p)
      OBVIOUS
  <2>1. PICK k \in LeafHubs : Step(k)
    BY NextIsStep
  <2>2. PSTypes /\ SDInv
    BY DEF PSInv
  <2>3. \/ table'[lh] = table[lh]
        \/ \E b \in active[lh] : \E batch \in Batches(lh, b) : \E n \in 0 .. Len(batch) :
               table'[lh] = ExecuteFirst(n, batch, table[lh])
    BY <2>1, <2>2, StepRows DEF PSTypes
  <2>4. active[lh] = {a} /\ a.priority \in Priorities
    BY <2>2, SentType
  <2>5. table'[lh] = table[lh] \/ SentKeeps(lh, a, table'[lh])
    BY <2>2, <2>3, <2>4, SentRows
  <2> QED
    BY <2>4, <2>5, AgreeOnKey, TwoTypes DEF SentKeeps
<1> QED
  BY <1>1, PSInvariance, PTL DEF PSSpec, HandlersKeepToTheirRows
=============================================================================

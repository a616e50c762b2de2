----------------------- MODULE ManagedClustersProofs -----------------------
(***************************************************************************)
(* Proofs about the managed clusters handler, for any clusters, resource   *)
(* versions, leaf hubs and bundles, and any number of failed batches and   *)
(* retries.                                                                *)
(***************************************************************************)
EXTENDS ManagedClustersDBSyncer, HandlerLemmas

\* The resources of the bundle that activity a of lh works on.
Sent(lh, a) == resources[lh][a.bundle.generation]

RowsFor(listed) == RowsOf(DOMAIN listed, listed)

OneRow(rows) == \A r, s \in rows : r.cluster = s.cluster => r = s

(***************************************************************************)
(* The inductive invariant, leaf hub by leaf hub.  It says nothing of the  *)
(* rows unless a SELECT returns all of them.  If it does, the rows that    *)
(* the handler read are still those of the table when it sends its batch,  *)
(* since nobody else writes rows of the leaf hub.                          *)
(***************************************************************************)
HubInv(lh) ==
    /\ handler[lh] = "idle" <=> active[lh] = {}
    /\ ~QueriesMayFail =>
           /\ OneRow(table[lh])
           /\ handler[lh] = "send" => rowsFromDB[lh] = table[lh]
           /\ handler[lh] = "succeeded" =>
                  \A a \in active[lh] : table[lh] = RowsFor(Sent(lh, a))
           /\ held[lh][ManagedClusters] = Nil /\ processed[lh][ManagedClusters] > 0 =>
                  table[lh] = RowsFor(resources[lh][processed[lh][ManagedClusters]])

MCTypes ==
    /\ resources \in [LeafHubs -> [Generations -> Resources]]
    /\ table \in [LeafHubs -> SUBSET Row]
    /\ handler \in [LeafHubs -> HandlerStates]
    /\ rowsFromDB \in [LeafHubs -> SUBSET Row]

MCInv == SDInv /\ MCTypes /\ \A lh \in LeafHubs : HubInv(lh)

-----------------------------------------------------------------------------
(***************************************************************************)
(* The rows that a handler's batch leaves, after each of its statements.   *)
(***************************************************************************)

\* A bundle lists clusters, each with a version of its resource.
LEMMA ListedType ==
    ASSUME NEW listed \in ManagedClusterLists
    PROVE  /\ DOMAIN listed \subseteq Clusters
           /\ \A c \in DOMAIN listed : listed[c] \in ResourceVersions
           /\ \A S \in SUBSET DOMAIN listed : RowsOf(S, listed) \subseteq Row
<1>1. PICK D \in SUBSET Clusters : listed \in [D -> ResourceVersions]
  BY DEF ManagedClusterLists
<1> QED
  BY <1>1 DEF RowsOf, Row

\* An UPDATE with whole rows puts them in the place of those with the same name.
LEMMA UpdateReplaces ==
    ASSUME NEW rows \in SUBSET Row, NEW new \in SUBSET Row
    PROVE  Execute(rows, UpdateRows("payload", RowKey, new)) =
               {r \in rows : \A s \in new : r.cluster # s.cluster}
                   \cup {s \in new : \E r \in rows : r.cluster = s.cluster}
<1>1. ASSUME NEW r, NEW s PROVE Agree(r, s, RowKey) <=> r.cluster = s.cluster
  BY Zenon DEF Agree, RowKey
<1>2. ASSUME NEW r \in Row, NEW s \in Row, r.cluster = s.cluster
      PROVE  [r EXCEPT !["payload"] = s["payload"]] = s
  <2>1. [r EXCEPT !["payload"] = s["payload"]] = [r EXCEPT !.payload = s.payload]
    BY DEF Row
  <2>2. [r EXCEPT !.payload = s.payload] = [cluster |-> r.cluster, payload |-> s.payload]
    BY DEF Row
  <2>3. s = [cluster |-> s.cluster, payload |-> s.payload]
    BY DEF Row
  <2> QED
    BY <1>2, <2>1, <2>2, <2>3
<1>3. ASSUME NEW x
      PROVE  x \in Execute(rows, UpdateRows("payload", RowKey, new)) <=>
                 \/ x \in rows /\ \A s \in new : x.cluster # s.cluster
                 \/ x \in new /\ \E r \in rows : r.cluster = x.cluster
  <2>1. x \in Execute(rows, UpdateRows("payload", RowKey, new)) <=>
            \/ x \in rows /\ \A s \in new : ~Agree(x, s, RowKey)
            \/ \E r \in rows : \E s \in new :
                   Agree(r, s, RowKey) /\ x = [r EXCEPT !["payload"] = s["payload"]]
    BY ExecuteUpdate
  <2>2. (\E r \in rows : \E s \in new :
            Agree(r, s, RowKey) /\ x = [r EXCEPT !["payload"] = s["payload"]])
          <=> x \in new /\ \E r \in rows : r.cluster = x.cluster
    BY <1>1, <1>2
  <2> QED
    BY <1>1, <2>1, <2>2
<1> QED
  BY <1>3

\* The rows after the three statements, if the handler read the rows read.
New(read, listed) == RowsOf(DOMAIN listed \ ClustersIn(read), listed)

Changed(read, listed) == RowsOf(DOMAIN listed \cap ClustersIn(read), listed) \ read

Inserted(rows, read, listed) == rows \cup New(read, listed)

Updated(rows, read, listed) ==
    {r \in Inserted(rows, read, listed) : \A s \in Changed(read, listed) : r.cluster # s.cluster}
        \cup {s \in Changed(read, listed) :
                 \E r \in Inserted(rows, read, listed) : r.cluster = s.cluster}

Deleted(rows, read, listed) ==
    {r \in Updated(rows, read, listed) : r.cluster \notin ClustersIn(read) \ DOMAIN listed}

Leaves(batch, rows, read, listed) ==
    /\ Len(batch) = 3
    /\ ExecuteFirst(0, batch, rows) = rows
    /\ ExecuteFirst(1, batch, rows) = Inserted(rows, read, listed)
    /\ ExecuteFirst(2, batch, rows) = Updated(rows, read, listed)
    /\ ExecuteFirst(3, batch, rows) = Deleted(rows, read, listed)
    /\ New(read, listed) \subseteq Row
    /\ Changed(read, listed) \subseteq Row

LEMMA BatchRows ==
    ASSUME NEW rows, rows \subseteq Row, NEW read, read \subseteq Row, NEW listed \in ManagedClusterLists,
           NEW batch, batch = ManagedClustersBatch(read, listed)
    PROVE  Leaves(batch, rows, read, listed)
<1> DEFINE gone == {[cluster |-> c] : c \in ClustersIn(read) \ DOMAIN listed}
<1>1. /\ Len(batch) = 3
      /\ batch[1] = InsertRows(New(read, listed))
      /\ batch[2] = UpdateRows("payload", RowKey, Changed(read, listed))
      /\ batch[3] = DeleteRows(RowKey, gone)
  BY DEF ManagedClustersBatch, InsertNewClusters, UpdateChangedClusters, DeleteUnsentClusters, New,
         Changed
<1>2. New(read, listed) \subseteq Row /\ Changed(read, listed) \subseteq Row
  BY ListedType DEF New, Changed
<1> HIDE DEF gone
<1>3. /\ ExecuteFirst(0, batch, rows) = rows
      /\ \A n \in 1 .. 3 : ExecuteFirst(n, batch, rows) =
                               Execute(ExecuteFirst(n - 1, batch, rows), batch[n])
  BY <1>1, ExecuteFirstStep
<1>4. 1 \in 1 .. 3 /\ 2 \in 1 .. 3 /\ 3 \in 1 .. 3 /\ 1 - 1 = 0 /\ 2 - 1 = 1 /\ 3 - 1 = 2
  OBVIOUS
<1>5. ExecuteFirst(1, batch, rows) = Execute(ExecuteFirst(0, batch, rows), batch[1])
  BY <1>3, <1>4
<1>6. ExecuteFirst(2, batch, rows) = Execute(ExecuteFirst(1, batch, rows), batch[2])
  <2>1. ExecuteFirst(2, batch, rows) = Execute(ExecuteFirst(2 - 1, batch, rows), batch[2])
    BY <1>3, <1>4, Zenon
  <2> QED
    BY <2>1, <1>4, Zenon
<1>7. ExecuteFirst(3, batch, rows) = Execute(ExecuteFirst(2, batch, rows), batch[3])
  <2>1. ExecuteFirst(3, batch, rows) = Execute(ExecuteFirst(3 - 1, batch, rows), batch[3])
    BY <1>3, <1>4, Zenon
  <2> QED
    BY <2>1, <1>4, Zenon
<1>8. ExecuteFirst(1, batch, rows) = Inserted(rows, read, listed)
  BY <1>1, <1>3, <1>5, ExecuteInsert DEF Inserted
<1>9. ExecuteFirst(2, batch, rows) = Updated(rows, read, listed)
  <2>1. Inserted(rows, read, listed) \in SUBSET Row
    BY <1>2 DEF Inserted
  <2> QED
    BY <1>1, <1>2, <1>6, <1>8, <2>1, UpdateReplaces DEF Updated
<1>10. ExecuteFirst(3, batch, rows) = Deleted(rows, read, listed)
  <2>1. ASSUME NEW r, NEW s PROVE Agree(r, s, RowKey) <=> r.cluster = s.cluster
    BY Zenon DEF Agree, RowKey
  <2>2. ExecuteFirst(3, batch, rows) =
            {r \in Updated(rows, read, listed) : \A s \in gone : ~Agree(r, s, RowKey)}
    BY <1>1, <1>7, <1>9, ExecuteDelete
  <2>3. ASSUME NEW r PROVE (\A s \in gone : ~Agree(r, s, RowKey)) <=>
                               r.cluster \notin ClustersIn(read) \ DOMAIN listed
    <3> DEFINE X == ClustersIn(read) \ DOMAIN listed
    <3>1. \A s \in gone : s.cluster \in X
      BY DEF gone
    <3>2. ASSUME NEW c \in X PROVE \E s \in gone : s.cluster = c
      <4>1. [cluster |-> c] \in gone /\ [cluster |-> c].cluster = c
        BY DEF gone
      <4> QED
        BY <4>1
    <3> HIDE DEF X
    <3>3. (\A s \in gone : ~Agree(r, s, RowKey)) <=> r.cluster \notin X
      BY <2>1, <3>1, <3>2
    <3> QED
      BY <3>3 DEF X
  <2> QED
    BY <2>2, <2>3 DEF Deleted
<1> QED
  BY <1>1, <1>2, <1>3, <1>8, <1>9, <1>10 DEF Leaves

\* Whatever the handler read, each prefix of the batch leaves rows of the table,
\* and keeps the listed clusters that had one.
LEMMA BatchKeepsListed ==
    ASSUME NEW rows, rows \subseteq Row, NEW read, read \subseteq Row, NEW listed \in ManagedClusterLists,
           NEW batch, batch = ManagedClustersBatch(read, listed), NEW n \in 0 .. Len(batch)
    PROVE  /\ ExecuteFirst(n, batch, rows) \subseteq Row
           /\ ClustersIn(rows) \cap DOMAIN listed \subseteq ClustersIn(ExecuteFirst(n, batch, rows))
<1> DEFINE new == New(read, listed)
           changed == Changed(read, listed)
           rows1 == Inserted(rows, read, listed)
           rows2 == Updated(rows, read, listed)
           rows3 == Deleted(rows, read, listed)
<1>0. Leaves(batch, rows, read, listed)
  BY BatchRows
<1>1. /\ Len(batch) = 3
      /\ ExecuteFirst(0, batch, rows) = rows
      /\ ExecuteFirst(1, batch, rows) = rows1
      /\ ExecuteFirst(2, batch, rows) = rows2
      /\ ExecuteFirst(3, batch, rows) = rows3
      /\ new \subseteq Row /\ changed \subseteq Row
  BY <1>0 DEF Leaves
<1>2. n \in {0, 1, 2, 3}
  BY <1>1
<1> USE DEF Inserted, Updated, Deleted
<1>3. rows1 \subseteq Row /\ rows2 \subseteq Row /\ rows3 \subseteq Row
  BY <1>1
<1>4. ASSUME NEW r \in rows, r.cluster \in DOMAIN listed
      PROVE  /\ \E t \in rows1 : t.cluster = r.cluster
             /\ \E t \in rows2 : t.cluster = r.cluster
             /\ \E t \in rows3 : t.cluster = r.cluster
  <2>1. r \in rows1
    OBVIOUS
  <2>2. PICK t \in rows2 : t.cluster = r.cluster
    <3>1. CASE \E s \in changed : r.cluster = s.cluster
      BY <2>1, <3>1
    <3>2. CASE \A s \in changed : r.cluster # s.cluster
      BY <2>1, <3>2
    <3> QED
      BY <3>1, <3>2
  <2>3. t \in rows3
    BY <1>4, <2>2
  <2> QED
    BY <2>1, <2>2, <2>3
<1> QED
  BY <1>1, <1>2, <1>3, <1>4 DEF ClustersIn

\* If the handler read the rows of the table, one for each cluster, each prefix of
\* the batch leaves one row for each cluster, and the batch leaves the bundle's.
LEMMA BatchWritesBundle ==
    ASSUME NEW rows, rows \subseteq Row, NEW listed \in ManagedClusterLists, OneRow(rows),
           NEW batch, batch = ManagedClustersBatch(rows, listed)
    PROVE  /\ \A n \in 0 .. Len(batch) : OneRow(ExecuteFirst(n, batch, rows))
           /\ ExecuteFirst(Len(batch), batch, rows) = RowsFor(listed)
<1> DEFINE new == New(rows, listed)
           changed == Changed(rows, listed)
           rows1 == Inserted(rows, rows, listed)
           rows2 == Updated(rows, rows, listed)
           rows3 == Deleted(rows, rows, listed)
<1>0. Leaves(batch, rows, rows, listed)
  BY BatchRows
<1>1. /\ Len(batch) = 3
      /\ ExecuteFirst(0, batch, rows) = rows
      /\ ExecuteFirst(1, batch, rows) = rows1
      /\ ExecuteFirst(2, batch, rows) = rows2
      /\ ExecuteFirst(3, batch, rows) = rows3
      /\ new \subseteq Row /\ changed \subseteq Row
  BY <1>0 DEF Leaves
<1>2. \A r \in new : /\ r.cluster \in DOMAIN listed /\ r.payload = listed[r.cluster]
                     /\ \A t \in rows : t.cluster # r.cluster
  BY DEF RowsOf, ClustersIn, New, Changed
<1>3. \A r \in changed : r.cluster \in DOMAIN listed /\ r.payload = listed[r.cluster]
  BY DEF RowsOf, Changed
<1>4. ASSUME NEW c \in DOMAIN listed
      PROVE  [cluster |-> c, payload |-> listed[c]] \in new \cup changed \cup rows
  <2>1. CASE c \in ClustersIn(rows)
    BY <2>1 DEF RowsOf, Changed
  <2>2. CASE c \notin ClustersIn(rows)
    BY <2>2 DEF RowsOf, New
  <2> QED
    BY <2>1, <2>2
<1>5. \A r \in changed : \E t \in rows : t.cluster = r.cluster
  BY DEF RowsOf, ClustersIn, New, Changed
<1>6. \A r \in Row : r = [cluster |-> r.cluster, payload |-> r.payload]
  BY DEF Row
<1> USE DEF Inserted, Updated, Deleted
<1>7. OneRow(rows1)
  <2> SUFFICES ASSUME NEW r \in rows1, NEW s \in rows1, r.cluster = s.cluster PROVE r = s
      BY DEF OneRow
  <2>1. CASE r \in rows /\ s \in rows
    BY <2>1 DEF OneRow
  <2>2. CASE r \in new /\ s \in new
    BY <1>1, <1>2, <1>6, <2>2
  <2> QED
    BY <1>2, <2>1, <2>2
<1>8. OneRow(rows2)
  <2> SUFFICES ASSUME NEW r \in rows2, NEW s \in rows2, r.cluster = s.cluster PROVE r = s
      BY DEF OneRow
  <2>1. CASE r \in changed /\ s \in changed
    BY <1>1, <1>3, <1>6, <2>1
  <2>2. CASE r \notin changed /\ s \notin changed
    BY <1>7, <2>2 DEF OneRow
  <2> QED
    BY <2>1, <2>2
<1>9. OneRow(rows3)
  BY <1>8 DEF OneRow
<1>10. RowsFor(listed) \subseteq rows3
  <2> SUFFICES ASSUME NEW c \in DOMAIN listed PROVE [cluster |-> c, payload |-> listed[c]] \in rows3
      BY DEF RowsFor, RowsOf
  <2> DEFINE r == [cluster |-> c, payload |-> listed[c]]
  <2>1. r \in new \cup changed \cup rows /\ r.cluster = c
    BY <1>4
  <2>2. r \in rows2
    <3>1. CASE r \in changed
      BY <1>5, <3>1
    <3>2. CASE r \notin changed
      <4>1. \A s \in changed : s.cluster = r.cluster => s = r
        BY <1>1, <1>3, <1>6
      <4> QED
        BY <2>1, <3>2, <4>1
    <3> QED
      BY <3>1, <3>2
  <2> QED
    BY <2>1, <2>2
<1>11. rows3 \subseteq RowsFor(listed)
  <2> SUFFICES ASSUME NEW r \in rows3 PROVE r \in RowsFor(listed)
      OBVIOUS
  <2>1. r \in Row /\ r.cluster \in DOMAIN listed
    BY <1>1, <1>2, <1>3 DEF ClustersIn
  <2>2. [cluster |-> r.cluster, payload |-> listed[r.cluster]] \in rows3
    BY <1>10, <2>1 DEF RowsFor, RowsOf
  <2>3. r = [cluster |-> r.cluster, payload |-> listed[r.cluster]]
    BY <1>9, <2>2 DEF OneRow
  <2> QED
    BY <2>1, <2>3 DEF RowsFor, RowsOf
<1>12. \A n \in 0 .. Len(batch) : OneRow(ExecuteFirst(n, batch, rows))
  <2> TAKE n \in 0 .. Len(batch)
  <2>1. n \in {0, 1, 2, 3}
    BY <1>1
  <2> QED
    BY <1>1, <1>7, <1>8, <1>9, <2>1
<1> QED
  BY <1>1, <1>10, <1>11, <1>12

-----------------------------------------------------------------------------
(***************************************************************************)
(* Every step keeps the invariant.                                         *)
(***************************************************************************)

\* The bundle a handler works on, and the batch it sends for it.
LEMMA SentType ==
    ASSUME MCTypes, SDInv, NEW lh \in LeafHubs, NEW a \in active[lh]
    PROVE  /\ a.priority = ManagedClusters
           /\ active[lh] = {a}
           /\ held[lh][ManagedClusters] # Nil
           /\ Sent(lh, a) \in ManagedClusterLists
           /\ Batch(lh, a) = ManagedClustersBatch(rowsFromDB[lh], Sent(lh, a))
           /\ rowsFromDB[lh] \subseteq Row
           /\ table[lh] \subseteq Row
<1> USE ManagedClustersAssumption
<1>1. /\ a.priority = ManagedClusters /\ a.bundle \in bundles[ManagedClusters] /\ active[lh] = {a}
      /\ held[lh][ManagedClusters] # Nil
  BY ActiveFacts
<1>2. a.bundle.generation \in Generations
  BY <1>1 DEF Generations
<1>3. Sent(lh, a) \in Resources
  BY <1>2 DEF MCTypes, Sent
<1> QED
  BY <1>1, <1>3 DEF MCTypes, Batch, Sent

\* The first run, or a restart: the table has one row per cluster.
LEMMA MCInitInv == MCInit => MCInv
<1> SUFFICES ASSUME MCInit PROVE MCInv
    OBVIOUS
<1> USE ManagedClustersAssumption DEF MCInit
<1>1. SDInv
  BY SDInitInv
<1>2. MCTypes
  BY DEF MCTypes, HandlerStates
<1>3. ASSUME NEW lh \in LeafHubs PROVE HubInv(lh)
  <2>1. active[lh] = {} /\ processed[lh][ManagedClusters] = 0 /\ handler[lh] = "idle"
    BY DEF SDInit
  <2>2. \A r, s : Agree(r, s, RowKey) <=> r.cluster = s.cluster
    BY Zenon DEF Agree, RowKey
  <2>3. OneRow(table[lh])
    BY <2>2 DEF OneRow
  <2> QED
    BY <2>1, <2>3 DEF HubInv
<1> QED
  BY <1>1, <1>2, <1>3 DEF MCInv

Step(lh) ==
    \/ ReceiveBundle(lh)
    \/ CallHandler(lh)
    \/ Select(lh)
    \/ SelectFails(lh)
    \/ SendBatch(lh)
    \/ SendBatchFails(lh)
    \/ HandlerReturns(lh)

\* The steps of this module call the handler as SerialDelivery says.
LEMMA MCStepIsSDStep == MCNext => [SDNext]_sdVars
<1> SUFFICES ASSUME NEW lh \in LeafHubs, Step(lh) PROVE [SDNext]_sdVars
    BY DEF MCNext, Step
<1> USE ManagedClustersAssumption
<1>1. CASE ReceiveBundle(lh)
  BY <1>1 DEF ReceiveBundle, SDNext
<1>2. CASE CallHandler(lh)
  BY <1>2 DEF CallHandler, SDNext
<1>3. CASE SendBatch(lh)
  <2>1. \E a \in active[lh] : Store(lh, a)
    BY <1>3 DEF SendBatch
  <2> QED
    BY <2>1 DEF SDNext
<1>4. CASE HandlerReturns(lh)
  BY <1>4 DEF HandlerReturns, SDNext
<1>5. CASE UNCHANGED sdVars
  BY <1>5
<1> QED
  BY <1>1, <1>2, <1>3, <1>4, <1>5 DEF Step, Select, SelectFails, SendBatchFails

\* What a step may make of the rows: those after some statements of the batch.
LEMMA StepRows ==
    ASSUME MCInv, NEW lh \in LeafHubs, Step(lh)
    PROVE  \/ UNCHANGED table
           \/ \E a \in active[lh] : \E n \in 0 .. Len(Batch(lh, a)) :
                  table' = [table EXCEPT ![lh] = ExecuteFirst(n, Batch(lh, a), table[lh])]
<1>1. CASE SendBatch(lh)
  <2>1. PICK a \in active[lh] :
            table' = [table EXCEPT ![lh] = ExecuteFirst(Len(Batch(lh, a)), Batch(lh, a), table[lh])]
    BY <1>1 DEF SendBatch
  <2>2. Len(Batch(lh, a)) \in 0 .. Len(Batch(lh, a))
    <3>1. Len(Batch(lh, a)) = 3
      BY DEF Batch, ManagedClustersBatch
    <3> QED
      BY <3>1
  <2> QED
    BY <2>1, <2>2
<1>2. CASE SendBatchFails(lh)
  BY <1>2 DEF SendBatchFails
<1> QED
  BY <1>1, <1>2 DEF Step, ReceiveBundle, CallHandler, Select, SelectFails, HandlerReturns

LEMMA MCTypesStep == MCInv /\ MCNext => MCTypes'
<1> SUFFICES ASSUME MCInv, NEW lh \in LeafHubs, Step(lh) PROVE MCTypes'
    BY DEF MCNext, Step
<1>0. MCTypes /\ SDInv
  BY DEF MCInv
<1>1. table' \in [LeafHubs -> SUBSET Row]
  <2>1. ASSUME NEW a \in active[lh], NEW n \in 0 .. Len(Batch(lh, a))
        PROVE  ExecuteFirst(n, Batch(lh, a), table[lh]) \subseteq Row
    BY <1>0, SentType, BatchKeepsListed
  <2> QED
    BY <1>0, <2>1, StepRows DEF MCTypes
<1>2. rowsFromDB' \in [LeafHubs -> SUBSET Row]
  BY <1>0 DEF MCTypes, Step, ReceiveBundle, CallHandler, Select, Returned, SelectFails, SendBatch,
      SendBatchFails, HandlerReturns
<1>3. handler' \in [LeafHubs -> HandlerStates] /\ UNCHANGED resources
  BY <1>0 DEF MCTypes, HandlerStates, Step, ReceiveBundle, CallHandler, Select, SelectFails,
      SendBatch, SendBatchFails, HandlerReturns
<1> QED
  BY <1>0, <1>1, <1>2, <1>3 DEF MCTypes

\* A step for one leaf hub leaves what the invariant says of another.
LEMMA HubFrame ==
    ASSUME NEW k \in LeafHubs, HubInv(k), UNCHANGED resources,
           held'[k] = held[k], processed'[k] = processed[k], active'[k] = active[k],
           table'[k] = table[k], handler'[k] = handler[k], rowsFromDB'[k] = rowsFromDB[k]
    PROVE  HubInv(k)'
BY DEF HubInv, Sent

LEMMA OtherHubs ==
    ASSUME MCInv, NEW lh \in LeafHubs, Step(lh), NEW k \in LeafHubs \ {lh}
    PROVE  HubInv(k)'
<1>0. MCTypes /\ SDInv /\ SDTypeOK /\ HubInv(k)
  BY DEF MCInv, SDInv
<1>1. held'[k] = held[k] /\ processed'[k] = processed[k] /\ active'[k] = active[k]
  <2>1. CASE UNCHANGED sdVars
    BY <2>1 DEF sdVars
  <2>2. CASE ReceiveBundle(lh) \/ CallHandler(lh)
    BY <1>0, <2>2 DEF SDTypeOK, ReceiveBundle, CallHandler, Receive, Start
  <2>3. CASE SendBatch(lh)
    BY <2>3 DEF SendBatch, Store
  <2>4. CASE HandlerReturns(lh)
    BY <1>0, <2>4 DEF SDTypeOK, HandlerReturns, Succeed, Fail
  <2> QED
    BY <2>1, <2>2, <2>3, <2>4 DEF Step, Select, SelectFails, SendBatchFails
<1>2. table'[k] = table[k]
  BY <1>0, StepRows DEF MCTypes
<1>3. handler'[k] = handler[k] /\ rowsFromDB'[k] = rowsFromDB[k] /\ UNCHANGED resources
  BY <1>0 DEF MCTypes, Step, ReceiveBundle, CallHandler, Select, SelectFails, SendBatch,
      SendBatchFails, HandlerReturns
<1> QED
  BY <1>0, <1>1, <1>2, <1>3, HubFrame

\* What is held and processed does not matter while a handler works.
LEMMA MCWorking ==
    ASSUME SDInv', MCTypes', NEW lh \in LeafHubs, active'[lh] # {}, handler'[lh] # "idle",
           ~QueriesMayFail =>
               /\ OneRow(table'[lh])
               /\ handler'[lh] = "send" => rowsFromDB'[lh] = table'[lh]
               /\ handler'[lh] = "succeeded" =>
                      \A a \in active'[lh] : table'[lh] = RowsFor(Sent(lh, a)')
    PROVE  HubInv(lh)'
<1>1. held'[lh][ManagedClusters] # Nil
  <2>1. PICK a : a \in active'[lh]
    OBVIOUS
  <2>2. a.priority \in Priorities /\ held'[lh][a.priority] # Nil
    BY <2>1 DEF SDInv, SDTypeOK, Activity, ActiveIsHeld
  <2> QED
    BY <2>2, ManagedClustersAssumption
<1> QED
  BY <1>1 DEF HubInv

LEMMA OwnHub ==
    ASSUME MCInv, SDInv', MCTypes', NEW lh \in LeafHubs, Step(lh)
    PROVE  HubInv(lh)'
<1> USE ManagedClustersAssumption
<1>0. MCTypes /\ SDInv /\ SDTypeOK /\ HubInv(lh) /\ ManagedClusters \in Priorities
  BY DEF MCInv, SDInv
<1>1. CASE ReceiveBundle(lh)
  <2>1. /\ held'[lh][ManagedClusters] # Nil
        /\ UNCHANGED <<active, processed, resources, table, handler, rowsFromDB>>
    <3>1. PICK b \in bundles[ManagedClusters] : Receive(lh, ManagedClusters, b)
      BY <1>1 DEF ReceiveBundle
    <3>2. b # Nil
      BY <1>0, DeliveryAssumption, UnitAssumption
    <3> QED
      BY <1>0, <1>1, <3>1, <3>2 DEF ReceiveBundle, Receive, SDTypeOK
  <2> QED
    BY <1>0, <2>1 DEF HubInv, Sent
<1>2. CASE CallHandler(lh)
  <2>1. active'[lh] # {} /\ handler'[lh] = "select" /\ UNCHANGED table
    BY <1>0, <1>2 DEF CallHandler, Start, MCTypes, SDTypeOK
  <2> QED
    BY <1>0, <2>1, MCWorking DEF HubInv
<1>3. CASE Select(lh)
  <2>1. /\ UNCHANGED <<active, resources, table>> /\ handler'[lh] = "send" /\ active[lh] # {}
        /\ ~QueriesMayFail => rowsFromDB'[lh] = table[lh]
    BY <1>0, <1>3 DEF Select, Returned, MCTypes, sdVars, HubInv
  <2> QED
    BY <1>0, <2>1, MCWorking DEF HubInv
<1>4. CASE SelectFails(lh)
  <2>1. /\ UNCHANGED <<active, resources, table>> /\ handler'[lh] = "failed" /\ active[lh] # {}
    BY <1>0, <1>4 DEF SelectFails, MCTypes, sdVars, HubInv
  <2> QED
    BY <1>0, <2>1, MCWorking DEF HubInv
<1>5. CASE SendBatch(lh) \/ SendBatchFails(lh)
  <2>1. /\ UNCHANGED <<active, resources>> /\ active[lh] # {} /\ handler[lh] = "send"
        /\ handler'[lh] \in {"succeeded", "failed"}
    BY <1>0, <1>5 DEF SendBatch, SendBatchFails, Store, MCTypes, sdVars, HubInv
  <2>0. PICK a \in active[lh] : \E n \in 0 .. Len(Batch(lh, a)) :
            /\ table' = [table EXCEPT ![lh] = ExecuteFirst(n, Batch(lh, a), table[lh])]
            /\ handler'[lh] = "succeeded" => n = Len(Batch(lh, a))
    <3>1. CASE SendBatch(lh)
      <4>1. PICK a \in active[lh] :
              table' = [table EXCEPT ![lh] = ExecuteFirst(Len(Batch(lh, a)), Batch(lh, a), table[lh])]
        BY <3>1 DEF SendBatch
      <4>2. Len(Batch(lh, a)) = 3
        BY DEF Batch, ManagedClustersBatch
      <4>3. Len(Batch(lh, a)) \in 0 .. Len(Batch(lh, a))
        BY <4>2
      <4> QED
        BY <4>1, <4>3
    <3>2. CASE SendBatchFails(lh)
      <4>1. handler'[lh] = "failed"
        BY <1>0, <3>2 DEF SendBatchFails, MCTypes
      <4> QED
        BY <3>2, <4>1 DEF SendBatchFails
    <3> QED
      BY <1>5, <3>1, <3>2
  <2>2. PICK n \in 0 .. Len(Batch(lh, a)) :
            /\ table' = [table EXCEPT ![lh] = ExecuteFirst(n, Batch(lh, a), table[lh])]
            /\ handler'[lh] = "succeeded" => n = Len(Batch(lh, a))
    BY <2>0
  <2>3. table'[lh] = ExecuteFirst(n, Batch(lh, a), table[lh])
    BY <1>0, <2>2 DEF MCTypes
  <2>4. active[lh] = {a} /\ Sent(lh, a) \in ManagedClusterLists /\ table[lh] \subseteq Row
        /\ Batch(lh, a) = ManagedClustersBatch(rowsFromDB[lh], Sent(lh, a))
    BY <1>0, SentType
  <2>5. ~QueriesMayFail => /\ OneRow(table'[lh])
                           /\ handler'[lh] = "succeeded" => table'[lh] = RowsFor(Sent(lh, a))
    <3> SUFFICES ASSUME ~QueriesMayFail
                 PROVE  /\ OneRow(table'[lh])
                        /\ handler'[lh] = "succeeded" => table'[lh] = RowsFor(Sent(lh, a))
        OBVIOUS
    <3>1. OneRow(table[lh]) /\ rowsFromDB[lh] = table[lh]
      BY <1>0, <2>1 DEF HubInv
    <3>2. /\ \A i \in 0 .. Len(Batch(lh, a)) : OneRow(ExecuteFirst(i, Batch(lh, a), table[lh]))
          /\ ExecuteFirst(Len(Batch(lh, a)), Batch(lh, a), table[lh]) = RowsFor(Sent(lh, a))
      BY <2>4, <3>1, BatchWritesBundle
    <3> QED
      BY <2>2, <2>3, <3>2
  <2>6. Sent(lh, a)' = Sent(lh, a)
    BY <2>1 DEF Sent
  <2> QED
    BY <2>1, <2>4, <2>5, <2>6, MCWorking
<1>6. CASE HandlerReturns(lh)
  <2>1. /\ UNCHANGED <<resources, table>> /\ handler'[lh] = "idle" /\ active'[lh] = {}
    BY <1>0, <1>6 DEF HandlerReturns, Succeed, Fail, MCTypes, SDTypeOK
  <2>2. ASSUME held'[lh][ManagedClusters] = Nil, processed'[lh][ManagedClusters] > 0, ~QueriesMayFail
        PROVE  table'[lh] = RowsFor(resources'[lh][processed'[lh][ManagedClusters]])
    <3>1. CASE handler[lh] = "succeeded" /\ \E a \in active[lh] : Succeed(lh, a)
      <4>1. PICK a \in active[lh] : Succeed(lh, a)
        BY <3>1
      <4>2. a.priority = ManagedClusters /\ processed'[lh][ManagedClusters] = a.bundle.generation
        BY <1>0, <4>1, SentType DEF Succeed, SDTypeOK
      <4> QED
        BY <1>0, <2>1, <2>2, <3>1, <4>2 DEF HubInv, Sent
    <3>2. CASE Fail(lh)
      <4>1. PICK a : a \in active[lh]
        BY <3>2 DEF Fail
      <4>2. held[lh][ManagedClusters] # Nil
        BY <1>0, <4>1, SentType
      <4> QED
        BY <2>2, <3>2, <4>2 DEF Fail
    <3> QED
      BY <1>6, <3>1, <3>2 DEF HandlerReturns
  <2> QED
    BY <1>0, <2>1, <2>2 DEF HubInv
<1> QED
  BY <1>1, <1>2, <1>3, <1>4, <1>5, <1>6 DEF Step

\* MCInv is inductive.
LEMMA MCStepInv == MCInv /\ [MCNext]_mcVars => MCInv'
<1> SUFFICES ASSUME MCInv, [MCNext]_mcVars PROVE MCInv'
    OBVIOUS
<1>1. CASE MCNext
  <2>1. SDInv'
    BY <1>1, MCStepIsSDStep, SDStepInv DEF MCInv
  <2>2. MCTypes'
    BY <1>1, MCTypesStep
  <2>3. \A k \in LeafHubs : HubInv(k)'
    BY <1>1, <2>1, <2>2, OwnHub, OtherHubs DEF MCNext, Step
  <2> QED
    BY <2>1, <2>2, <2>3 DEF MCInv
<1>2. CASE UNCHANGED mcVars
  <2>1. SDInv'
    BY <1>2, SDStepInv DEF MCInv, mcVars
  <2>2. MCTypes'
    BY <1>2 DEF MCInv, MCTypes, mcVars
  <2>3. ASSUME NEW k \in LeafHubs PROVE HubInv(k)'
    BY <1>2, HubFrame DEF MCInv, mcVars, sdVars
  <2> QED
    BY <2>1, <2>2, <2>3 DEF MCInv
<1> QED
  BY <1>1, <1>2

LEMMA MCInvariance == MCSpec => []MCInv
BY MCInitInv, MCStepInv, PTL DEF MCSpec

-----------------------------------------------------------------------------
(***************************************************************************)
(* The theorems.                                                           *)
(***************************************************************************)

\* The handler's variables have their types, whatever the statements of a batch
\* leave, and a handler works exactly while it has a bundle.
THEOREM MCTypeCorrect == MCSpec => []MCTypeOK
<1>1. MCInv => MCTypeOK
  BY DEF MCInv, MCTypes, HubInv, MCTypeOK, SDInv, SDTypeOK
<1> QED
  BY <1>1, MCInvariance, PTL

\* If a SELECT that ends without an error has returned all rows, the table has
\* exactly the resources of the newest bundle once it was handled, after any number
\* of batches that failed half way.
THEOREM HandledBundleIsTable ==
    ASSUME ~QueriesMayFail
    PROVE  MCSpec => []TableMatchesBundle
<1>1. MCInv => TableMatchesBundle
  BY DEF MCInv, HubInv, RowsFor, TableMatchesBundle
<1> QED
  BY <1>1, MCInvariance, PTL

\* Under the same condition no cluster ever has two rows.
THEOREM ClusterHasOneRow ==
    ASSUME ~QueriesMayFail
    PROVE  MCSpec => []OneRowPerManagedCluster
<1>1. \A r, s : Agree(r, s, RowKey) <=> r.cluster = s.cluster
  BY Zenon DEF Agree, RowKey
<1>2. MCInv => OneRowPerManagedCluster
  BY <1>1 DEF MCInv, HubInv, OneRow, OneRowPerManagedCluster
<1> QED
  BY <1>2, MCInvariance, PTL

\* No step takes from the table a cluster that the bundle being handled lists,
\* whatever the SELECT returned and wherever the batch fails.
THEOREM ListedClustersAreKept == MCSpec => LivingClustersStay
<1> DEFINE Keep == \A lh \in LeafHubs : \A a \in active[lh] :
                       (ClustersIn(table[lh]) \cap DOMAIN resources[lh][a.bundle.generation])
                           \subseteq ClustersIn(table'[lh])
<1>1. MCInv /\ [MCNext]_mcVars => [Keep]_mcVars
  <2> SUFFICES ASSUME MCInv, MCNext, NEW lh \in LeafHubs, NEW a \in active[lh]
               PROVE  (ClustersIn(table[lh]) \cap DOMAIN Sent(lh, a)) \subseteq ClustersIn(table'[lh])
      BY DEF Sent
  <2>1. PICK k \in LeafHubs : Step(k)
    BY DEF MCNext, Step
  <2>2. MCTypes /\ SDInv
    BY DEF MCInv
  <2>3. \/ table'[lh] = table[lh]
        \/ \E b \in active[lh] : \E n \in 0 .. Len(Batch(lh, b)) :
               table'[lh] = ExecuteFirst(n, Batch(lh, b), table[lh])
    BY <2>1, <2>2, StepRows DEF MCTypes
  <2>4. ASSUME NEW b \in active[lh], NEW n \in 0 .. Len(Batch(lh, b)),
               table'[lh] = ExecuteFirst(n, Batch(lh, b), table[lh])
        PROVE  (ClustersIn(table[lh]) \cap DOMAIN Sent(lh, a)) \subseteq ClustersIn(table'[lh])
    <3>1. /\ active[lh] = {a} /\ Sent(lh, a) \in ManagedClusterLists
          /\ Batch(lh, a) = ManagedClustersBatch(rowsFromDB[lh], Sent(lh, a))
          /\ rowsFromDB[lh] \subseteq Row /\ table[lh] \subseteq Row
      BY <2>2, SentType
    <3> QED
      BY <2>4, <3>1, BatchKeepsListed
  <2> QED
    BY <2>3, <2>4
<1> QED
  BY <1>1, MCInvariance, PTL DEF MCSpec, LivingClustersStay
=============================================================================

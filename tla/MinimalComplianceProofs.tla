---------------------- MODULE MinimalComplianceProofs ----------------------
(***************************************************************************)
(* Proofs about the minimal compliance handler, for any policies, counts,  *)
(* leaf hubs and bundles, and any number of failed statements and retries. *)
(***************************************************************************)
EXTENDS MinimalComplianceDBSyncer, HandlerLemmas

Status == MinimalComplianceStatus

\* The objects of the bundle that activity a of lh works on.
Sent(lh, a) == objects[lh][a.bundle.generation]

(***************************************************************************)
(* The inductive invariant, leaf hub by leaf hub.  While its handler works *)
(*   - a policy of the bundle is deleted by nobody: it is on the list of   *)
(*     rows to delete only while it is still to be written;                *)
(*   - the policies that are done have the counts of the bundle;           *)
(*   - a row that the listing finds by its policy_id is of a policy of the *)
(*     bundle or, if the list was read completely, on it.                  *)
(* So a handler that has nothing left to do has written the bundle.  What  *)
(* it found out about the row of a policy is still true when it acts on    *)
(* it, and a policy has one row, in the columns that the table has.        *)
(***************************************************************************)
OneRow(rows) == \A r, s \in rows : r.policy = s.policy => r = s

HasCounts(rows, p, counts) == \E r \in rows : r.policy = p /\ r.counts = counts

\* What the table says once a bundle with these objects was written.
Tells(rows, sent) ==
    /\ \A p \in DOMAIN sent : HasCounts(rows, p, sent[p])
    /\ ~QueriesMayFail => NamedBy("policy_id", rows) \subseteq DOMAIN sent

Progress(lh, a) ==
    handler[lh] \in {"write", "exec"} =>
        /\ todo[lh] \subseteq DOMAIN Sent(lh, a)
        /\ policyIDsFromDB[lh] \cap DOMAIN Sent(lh, a) \subseteq todo[lh]
        /\ \A p \in DOMAIN Sent(lh, a) \ todo[lh] : HasCounts(table[lh], p, Sent(lh, a)[p])
        /\ ~QueriesMayFail =>
               NamedBy("policy_id", table[lh]) \subseteq policyIDsFromDB[lh] \cup DOMAIN Sent(lh, a)

\* The policy being written, and what the handler knows of its row.
FoundRow(lh) ==
    handler[lh] = "exec" =>
        /\ "id" \in policyColumns
        /\ policy[lh] \in todo[lh]
        /\ exists[lh] <=> policy[lh] \in PoliciesIn(table[lh])

HubInv(lh) ==
    /\ handler[lh] = "idle" <=> active[lh] = {}
    /\ FoundRow(lh)
    /\ OneRow(table[lh])
    /\ FitColumns(table[lh], policyColumns)
    /\ \A a \in active[lh] :
           Progress(lh, a) /\ (handler[lh] = "succeeded" => Tells(table[lh], Sent(lh, a)))
    /\ held[lh][Status] = Nil /\ processed[lh][Status] > 0 =>
           Tells(table[lh], objects[lh][processed[lh][Status]])

MNTypes ==
    /\ policyColumns \in SUBSET Columns
    /\ objects \in [LeafHubs -> [Generations -> PolicyCounts]]
    /\ table \in [LeafHubs -> SUBSET Row]
    /\ handler \in [LeafHubs -> HandlerStates]
    /\ policyIDsFromDB \in [LeafHubs -> SUBSET Policies]
    /\ todo \in [LeafHubs -> SUBSET Policies]
    /\ policy \in [LeafHubs -> Policies \cup {Nil}]
    /\ exists \in [LeafHubs -> BOOLEAN]

MNInv == SDInv /\ MNTypes /\ \A lh \in LeafHubs : HubInv(lh)

-----------------------------------------------------------------------------
(***************************************************************************)
(* The rows a statement leaves.                                            *)
(***************************************************************************)

\* In a table with the column id a policy is found by it.
LEMMA NamedByID ==
    ASSUME NEW rows, NEW columns, FitColumns(rows, columns), "id" \in columns
    PROVE  NamedBy("id", rows) = PoliciesIn(rows)
BY DEF FitColumns, NamedBy, PoliciesIn

\* UPDATE if the row was found and INSERT if not come to the same, if what was
\* found is true: one row for the policy, with the counts, found by its id.
LEMMA WrittenRows ==
    ASSUME NEW rows \in SUBSET Row, NEW columns \in SUBSET Columns, NEW p \in Policies,
           NEW n \in Counts, NEW found \in BOOLEAN,
           FitColumns(rows, columns), "id" \in columns, OneRow(rows),
           found <=> p \in PoliciesIn(rows)
    PROVE  \E row \in Row :
               /\ row.policy = p /\ row.counts = n
               /\ row.named \subseteq columns /\ "id" \in row.named
               /\ Written(rows, p, n, found) = {r \in rows : r.policy # p} \cup {row}
<1>1. CASE found
  <2>1. PICK s \in rows : s.policy = p
    BY <1>1 DEF PoliciesIn
  <2> DEFINE row == [s EXCEPT !.counts = n]
  <2>2. s \in Row /\ "id" \in s.named /\ s.named \subseteq columns
    BY DEF FitColumns
  <2>3. row \in Row /\ row.policy = p /\ row.counts = n /\ row.named = s.named
    BY <2>1, <2>2 DEF Row
  <2>4. {r \in rows : r.policy = p /\ "id" \in r.named} = {s}
    BY <2>1, <2>2 DEF OneRow
  <2>5. rows \ {s} = {r \in rows : r.policy # p}
    BY <2>1 DEF OneRow
  <2>6. {[r EXCEPT !.counts = n] : r \in {s}} = {row}
    OBVIOUS
  <2>7. Written(rows, p, n, found) = {r \in rows : r.policy # p} \cup {row}
    BY <1>1, <2>4, <2>5, <2>6 DEF Written, Updated
  <2> QED
    BY <2>2, <2>3, <2>7
<1>2. CASE ~found
  <2> DEFINE row == [policy |-> p, counts |-> n, named |-> {"id"}]
  <2>1. {r \in rows : r.policy # p} = rows
    BY <1>2 DEF PoliciesIn
  <2>2. row \in Row
    BY DEF Row, Columns
  <2>3. Written(rows, p, n, found) = {r \in rows : r.policy # p} \cup {row}
    BY <1>2, <2>1 DEF Written, Inserted
  <2> QED
    BY <2>2, <2>3
<1> QED
  BY <1>1, <1>2

\* A DELETE takes rows, of one policy, and all that have its policy_id.
LEMMA RowsWithoutPolicy ==
    ASSUME NEW rows, NEW p
    PROVE  /\ WithoutPolicy(rows, p) \subseteq rows
           /\ \A r \in rows : r.policy # p => r \in WithoutPolicy(rows, p)
           /\ NamedBy("policy_id", WithoutPolicy(rows, p)) = NamedBy("policy_id", rows) \ {p}
BY DEF WithoutPolicy, NamedBy, PoliciesIn

\* A bundle lists policies, each with counts.
LEMMA SentType ==
    ASSUME MNTypes, SDInv, NEW lh \in LeafHubs, NEW a \in active[lh]
    PROVE  /\ a.priority = Status
           /\ active[lh] = {a}
           /\ Sent(lh, a) \in PolicyCounts
           /\ DOMAIN Sent(lh, a) \subseteq Policies
           /\ \A p \in DOMAIN Sent(lh, a) : Sent(lh, a)[p] \in Counts
<1> USE MinimalComplianceAssumption
<1>1. a.priority = Status /\ a.bundle \in bundles[Status] /\ active[lh] = {a}
  BY ActiveFacts DEF Status
<1>2. a.bundle.generation \in Generations
  BY <1>1 DEF Generations, Status
<1>3. Sent(lh, a) \in PolicyCounts
  BY <1>2 DEF MNTypes, Sent
<1>4. PICK listed \in SUBSET Policies : Sent(lh, a) \in [listed -> Counts]
  BY <1>3 DEF PolicyCountLists
<1> QED
  BY <1>1, <1>3, <1>4

\* The row written for the policy at hand: it replaces the rows of this policy.
UpsertedWith(lh, a, row) ==
    /\ row.policy = policy[lh]
    /\ row.counts = Sent(lh, a)[policy[lh]]
    /\ row.named \subseteq policyColumns /\ "id" \in row.named
    /\ Upserted(lh) = {r \in table[lh] : r.policy # policy[lh]} \cup {row}

LEMMA UpsertedRows ==
    ASSUME MNInv, NEW lh \in LeafHubs, handler[lh] = "exec"
    PROVE  \E a \in active[lh] : \E row \in Row :
               /\ policy[lh] \in todo[lh] /\ policy[lh] \in DOMAIN Sent(lh, a)
               /\ UpsertedWith(lh, a, row)
<1>1. HubInv(lh) /\ SDInv /\ MNTypes
  BY DEF MNInv
<1>2. PICK a : a \in active[lh]
  BY <1>1 DEF HubInv
<1>3. active[lh] = {a} /\ DOMAIN Sent(lh, a) \subseteq Policies
          /\ \A p \in DOMAIN Sent(lh, a) : Sent(lh, a)[p] \in Counts
  BY <1>1, <1>2, SentType
<1>4. (CHOOSE x \in active[lh] : TRUE) = a
  BY <1>3
<1>5. policy[lh] \in todo[lh] /\ policy[lh] \in DOMAIN Sent(lh, a)
  BY <1>1, <1>2 DEF HubInv, FoundRow, Progress
<1> DEFINE n == Sent(lh, a)[policy[lh]]
<1>6. policy[lh] \in Policies /\ n \in Counts
  BY <1>3, <1>5
<1>7. Upserted(lh) = Written(table[lh], policy[lh], n, exists[lh])
  BY <1>4 DEF Upserted, Sent
<1>8. /\ table[lh] \in SUBSET Row /\ exists[lh] \in BOOLEAN /\ policyColumns \in SUBSET Columns
      /\ FitColumns(table[lh], policyColumns) /\ "id" \in policyColumns /\ OneRow(table[lh])
      /\ exists[lh] <=> policy[lh] \in PoliciesIn(table[lh])
  BY <1>1 DEF MNTypes, HubInv, FoundRow
<1> HIDE DEF n
<1>9. PICK row \in Row :
          /\ row.policy = policy[lh] /\ row.counts = n
          /\ row.named \subseteq policyColumns /\ "id" \in row.named
          /\ Written(table[lh], policy[lh], n, exists[lh])
                 = {r \in table[lh] : r.policy # policy[lh]} \cup {row}
  BY <1>6, <1>8, WrittenRows
<1>10. UpsertedWith(lh, a, row)
  BY <1>7, <1>9 DEF UpsertedWith, n
<1> QED
  BY <1>2, <1>5, <1>10

\* It leaves the table with one row per policy, in the columns it has.
LEMMA UpsertedTable ==
    ASSUME MNInv, NEW lh \in LeafHubs, handler[lh] = "exec"
    PROVE  /\ Upserted(lh) \in SUBSET Row
           /\ OneRow(Upserted(lh))
           /\ FitColumns(Upserted(lh), policyColumns)
<1>1. table[lh] \subseteq Row /\ OneRow(table[lh]) /\ FitColumns(table[lh], policyColumns)
  BY DEF MNInv, MNTypes, HubInv
<1>2. PICK a \in active[lh], row \in Row : UpsertedWith(lh, a, row)
  BY UpsertedRows
<1>3. Upserted(lh) \in SUBSET Row
  BY <1>1, <1>2 DEF UpsertedWith
<1>4. OneRow(Upserted(lh))
  BY <1>1, <1>2 DEF UpsertedWith, OneRow
<1>5. FitColumns(Upserted(lh), policyColumns)
  BY <1>1, <1>2 DEF UpsertedWith, FitColumns
<1> QED
  BY <1>3, <1>4, <1>5

-----------------------------------------------------------------------------
(***************************************************************************)
(* Every step keeps the invariant.                                         *)
(***************************************************************************)

\* The first run, or a restart: the table has one row per policy.
LEMMA MNInitInv == MNInit => MNInv
<1> SUFFICES ASSUME MNInit PROVE MNInv
    OBVIOUS
<1> USE MinimalComplianceAssumption DEF MNInit, LocalInit
<1>1. SDInv
  BY SDInitInv
<1>2. MNTypes
  BY DEF MNTypes, HandlerStates
<1>3. ASSUME NEW lh \in LeafHubs PROVE HubInv(lh)
  <2>1. active[lh] = {} /\ processed[lh][Status] = 0 /\ handler[lh] = "idle"
    BY DEF SDInit, Status
  <2>2. OneRow(table[lh])
    BY DEF OneRow
  <2>3. FitColumns(table[lh], policyColumns)
    OBVIOUS
  <2> QED
    BY <2>1, <2>2, <2>3 DEF HubInv, FoundRow
<1> QED
  BY <1>1, <1>2, <1>3 DEF MNInv

\* The steps of this module call the handler as SerialDelivery says.
LEMMA MNStepIsSDStep == MNNext => [SDNext]_sdVars
<1> SUFFICES ASSUME NEW lh \in LeafHubs,
                    ReceiveBundle(lh) \/ HandlerStep(lh) \/ StatementFails(lh)
             PROVE  [SDNext]_sdVars
    BY DEF MNNext
<1> USE MinimalComplianceAssumption
<1>1. CASE ReceiveBundle(lh)
  BY <1>1 DEF ReceiveBundle, SDNext
<1>2. CASE CallHandler(lh)
  BY <1>2 DEF CallHandler, SDNext
<1>3. CASE Finish(lh)
  BY <1>3 DEF Finish, SDNext
<1>4. CASE HandlerReturns(lh)
  BY <1>4 DEF HandlerReturns, SDNext
<1>5. CASE UNCHANGED sdVars
  BY <1>5
<1> QED
  BY <1>1, <1>2, <1>3, <1>4, <1>5 DEF HandlerStep, SelectPolicyIDs, SelectExists, InsertOrUpdate,
      DeleteAllComplianceRows, StatementFails

\* The types of the handler's variables.
LEMMA MNTypesStep == MNInv /\ MNNext => MNTypes'
<1> SUFFICES ASSUME MNInv, NEW lh \in LeafHubs,
                    ReceiveBundle(lh) \/ HandlerStep(lh) \/ StatementFails(lh)
             PROVE  MNTypes'
    BY DEF MNNext
<1> USE MinimalComplianceAssumption
<1>0. MNTypes /\ SDInv
  BY DEF MNInv
<1>1. CASE ReceiveBundle(lh)
  BY <1>0, <1>1 DEF ReceiveBundle, MNTypes, given, local
<1>2. CASE CallHandler(lh)
  BY <1>0, <1>2 DEF CallHandler, MNTypes, given, local, Goto, HandlerStates
<1>3. CASE SelectPolicyIDs(lh)
  <2>1. \A ids \in ReturnedPolicyIDs(table[lh]) : ids \subseteq Policies
    <3>1. NamedBy("policy_id", table[lh]) \subseteq Policies
      BY <1>0 DEF NamedBy, PoliciesIn, MNTypes, Row
    <3> QED
      BY <3>1 DEF ReturnedPolicyIDs
  <2>2. \A a \in active[lh] : DOMAIN objects[lh][a.bundle.generation] \subseteq Policies
    BY <1>0, SentType DEF Sent
  <2> QED
    BY <1>0, <1>3, <2>1, <2>2 DEF SelectPolicyIDs, MNTypes, given, Goto, HandlerStates
<1>4. CASE SelectExists(lh)
  <2>1. PICK p \in todo[lh] : /\ policy' = [policy EXCEPT ![lh] = p]
                              /\ exists' = [exists EXCEPT ![lh] = p \in NamedBy("id", table[lh])]
    BY <1>4 DEF SelectExists
  <2>2. exists' \in [LeafHubs -> BOOLEAN]
    <3>1. (p \in NamedBy("id", table[lh])) \in BOOLEAN
      OBVIOUS
    <3> QED
      BY <1>0, <2>1, <3>1, Zenon DEF MNTypes
  <2>3. policy' \in [LeafHubs -> Policies \cup {Nil}]
    BY <1>0, <2>1 DEF MNTypes
  <2> QED
    BY <1>0, <1>4, <2>2, <2>3 DEF SelectExists, MNTypes, given, Goto, HandlerStates
<1>5. CASE InsertOrUpdate(lh)
  <2>1. Upserted(lh) \in SUBSET Row
    BY <1>5, UpsertedTable DEF InsertOrUpdate
  <2> QED
    BY <1>0, <1>5, <2>1 DEF InsertOrUpdate, MNTypes, given, Goto, HandlerStates
<1>6. ASSUME NEW p \in Policies, DeleteAllComplianceRows(lh, p) PROVE MNTypes'
  BY <1>0, <1>6 DEF DeleteAllComplianceRows, MNTypes, given, WithoutPolicy
<1>7. CASE Finish(lh)
  BY <1>0, <1>7 DEF Finish, MNTypes, given, local, Goto, HandlerStates
<1>8. CASE HandlerReturns(lh)
  <2>1. exists' \in [LeafHubs -> BOOLEAN]
    BY <1>0, <1>8, Zenon DEF HandlerReturns, MNTypes
  <2> QED
    BY <1>0, <1>8, <2>1 DEF HandlerReturns, MNTypes, given, Goto, HandlerStates
<1>9. CASE StatementFails(lh)
  <2>1. handler[lh] = "exec" => Upserted(lh) \in SUBSET Row
    BY UpsertedTable
  <2>2. table' \in [LeafHubs -> SUBSET Row]
    BY <1>0, <1>9, <2>1 DEF StatementFails, MNTypes, WithoutPolicy
  <2> QED
    BY <1>0, <1>9, <2>2 DEF StatementFails, MNTypes, given, local, Goto, HandlerStates
<1> QED
  BY <1>1, <1>2, <1>3, <1>4, <1>5, <1>6, <1>7, <1>8, <1>9 DEF HandlerStep

\* A step for one leaf hub leaves what the invariant says of another.
LEMMA HubFrame ==
    ASSUME NEW k \in LeafHubs, HubInv(k), UNCHANGED given,
           held'[k] = held[k], processed'[k] = processed[k], active'[k] = active[k],
           table'[k] = table[k], handler'[k] = handler[k], todo'[k] = todo[k],
           policyIDsFromDB'[k] = policyIDsFromDB[k], policy'[k] = policy[k], exists'[k] = exists[k]
    PROVE  HubInv(k)'
BY DEF HubInv, FoundRow, Progress, Sent, given

\* Every step is one for some leaf hub.
LEMMA OtherHubs ==
    ASSUME MNInv, NEW lh \in LeafHubs,
           ReceiveBundle(lh) \/ HandlerStep(lh) \/ StatementFails(lh),
           NEW k \in LeafHubs \ {lh}
    PROVE  HubInv(k)'
<1>0. MNTypes /\ SDInv /\ SDTypeOK /\ HubInv(k)
  BY DEF MNInv, SDInv
<1>1. held'[k] = held[k] /\ processed'[k] = processed[k] /\ active'[k] = active[k]
  <2>1. CASE UNCHANGED sdVars
    BY <2>1 DEF sdVars
  <2>2. CASE ReceiveBundle(lh) \/ CallHandler(lh)
    BY <1>0, <2>2 DEF SDTypeOK, ReceiveBundle, CallHandler, Receive, Start
  <2>3. CASE Finish(lh)
    BY <2>3 DEF Finish, Store
  <2>4. CASE HandlerReturns(lh)
    BY <1>0, <2>4 DEF SDTypeOK, HandlerReturns, Succeed, Fail
  <2> QED
    BY <2>1, <2>2, <2>3, <2>4 DEF HandlerStep, SelectPolicyIDs, SelectExists, InsertOrUpdate,
        DeleteAllComplianceRows, StatementFails
<1>2. table'[k] = table[k] /\ handler'[k] = handler[k] /\ UNCHANGED given
  BY <1>0 DEF MNTypes, ReceiveBundle, HandlerStep, CallHandler, SelectPolicyIDs, SelectExists,
      InsertOrUpdate, DeleteAllComplianceRows, Finish, HandlerReturns, StatementFails, Goto
<1>3. /\ policyIDsFromDB'[k] = policyIDsFromDB[k] /\ todo'[k] = todo[k]
      /\ policy'[k] = policy[k] /\ exists'[k] = exists[k]
  BY <1>0 DEF MNTypes, ReceiveBundle, HandlerStep, CallHandler, SelectPolicyIDs, SelectExists,
      InsertOrUpdate, DeleteAllComplianceRows, Finish, HandlerReturns, StatementFails, local
<1> QED
  BY <1>0, <1>1, <1>2, <1>3, HubFrame

\* A handler with nothing left to write or delete has written the bundle.
LEMMA NothingLeft ==
    ASSUME MNInv, NEW lh \in LeafHubs, NEW a \in active[lh], handler[lh] = "write", todo[lh] = {},
           policyIDsFromDB[lh] = {}
    PROVE  Tells(table[lh], Sent(lh, a))
BY DEF MNInv, HubInv, Progress, Tells

\* What is held and processed does not matter while a handler works.
LEMMA MNWorking ==
    ASSUME SDInv', NEW lh \in LeafHubs, active'[lh] # {},
           handler'[lh] # "idle", OneRow(table'[lh]), FitColumns(table'[lh], policyColumns'),
           FoundRow(lh)',
           \A a \in active'[lh] :
               Progress(lh, a)' /\ (handler'[lh] = "succeeded" => Tells(table[lh], Sent(lh, a))')
    PROVE  HubInv(lh)'
<1>1. held'[lh][Status] # Nil
  <2>1. PICK a : a \in active'[lh]
    OBVIOUS
  <2>2. a.priority \in Priorities /\ held'[lh][a.priority] # Nil
    BY <2>1 DEF SDInv, SDTypeOK, Activity, ActiveIsHeld
  <2> QED
    BY <2>2, MinimalComplianceAssumption DEF Status
<1> QED
  BY <1>1 DEF HubInv

\* The rows stay as they are.
LEMMA SameRows ==
    ASSUME NEW lh \in LeafHubs, HubInv(lh), table'[lh] = table[lh], UNCHANGED policyColumns
    PROVE  OneRow(table'[lh]) /\ FitColumns(table'[lh], policyColumns')
BY DEF HubInv

\* The leaf hub for which the step is.
LEMMA OwnHub ==
    ASSUME MNInv, SDInv', MNTypes', NEW lh \in LeafHubs,
           ReceiveBundle(lh) \/ HandlerStep(lh) \/ StatementFails(lh)
    PROVE  HubInv(lh)'
<1> USE MinimalComplianceAssumption
<1>0. MNTypes /\ SDInv /\ SDTypeOK /\ HubInv(lh) /\ Status \in Priorities
  BY DEF MNInv, SDInv, Status
<1>g. UNCHANGED <<policyColumns, objects>>
  BY DEF given, ReceiveBundle, HandlerStep, CallHandler, SelectPolicyIDs, SelectExists,
      InsertOrUpdate, DeleteAllComplianceRows, Finish, HandlerReturns, StatementFails
<1>1. CASE ReceiveBundle(lh)
  <2>1. /\ held'[lh][Status] # Nil
        /\ UNCHANGED <<active, processed, table, handler, local>>
    <3>1. PICK b \in bundles[Status] : Receive(lh, Status, b)
      BY <1>1 DEF ReceiveBundle, Status
    <3>2. b # Nil
      BY <1>0, DeliveryAssumption, UnitAssumption
    <3> QED
      BY <1>0, <1>1, <3>1, <3>2 DEF ReceiveBundle, Receive, SDTypeOK
  <2> QED
    BY <1>0, <1>g, <2>1 DEF HubInv, FoundRow, Progress, Sent, local
<1>2. CASE CallHandler(lh)
  <2>1. /\ active'[lh] # {} /\ handler'[lh] = "select" /\ UNCHANGED table
    BY <1>0, <1>2 DEF CallHandler, Start, Goto, MNTypes, SDTypeOK
  <2> QED
    BY <1>0, <1>g, <2>1, SameRows, MNWorking DEF Progress, FoundRow
<1>3. CASE SelectPolicyIDs(lh)
  <2>1. /\ UNCHANGED <<active, table>> /\ handler'[lh] = "write" /\ active[lh] # {}
        /\ policyIDsFromDB'[lh] \in ReturnedPolicyIDs(table[lh])
    BY <1>0, <1>3 DEF SelectPolicyIDs, Goto, MNTypes, sdVars
  <2>2. ASSUME NEW a \in active[lh] PROVE todo'[lh] = DOMAIN Sent(lh, a)
    <3>1. active[lh] = {a}
      BY <1>0, SentType
    <3> QED
      BY <1>0, <1>3, <3>1 DEF SelectPolicyIDs, MNTypes, Sent
  <2>3. ~QueriesMayFail => NamedBy("policy_id", table[lh]) = policyIDsFromDB'[lh]
    <3>1. CASE "policy_id" \in policyColumns
      BY <2>1, <3>1 DEF ReturnedPolicyIDs
    <3>2. CASE "policy_id" \notin policyColumns
      <4>1. NamedBy("policy_id", table[lh]) = {}
        BY <1>0, <3>2 DEF HubInv, FitColumns, NamedBy, PoliciesIn
      <4> QED
        BY <2>1, <3>2, <4>1 DEF ReturnedPolicyIDs
    <3> QED
      BY <3>1, <3>2
  <2>4. \A a \in active'[lh] : Progress(lh, a)'
    BY <1>g, <2>1, <2>2, <2>3 DEF Progress, Sent
  <2> QED
    BY <1>0, <1>g, <2>1, <2>4, SameRows, MNWorking DEF FoundRow
<1>4. CASE SelectExists(lh)
  <2>1. /\ UNCHANGED <<active, table, policyIDsFromDB, todo>> /\ "id" \in policyColumns
        /\ handler'[lh] = "exec" /\ handler[lh] = "write" /\ active[lh] # {}
    BY <1>0, <1>4 DEF SelectExists, Goto, MNTypes, sdVars, HubInv
  <2>2. /\ policy'[lh] \in todo'[lh]
        /\ exists'[lh] <=> policy'[lh] \in PoliciesIn(table'[lh])
    <3>1. PICK p \in todo[lh] : /\ policy' = [policy EXCEPT ![lh] = p]
                                /\ exists' = [exists EXCEPT ![lh] = p \in NamedBy("id", table[lh])]
      BY <1>4 DEF SelectExists
    <3>2. policy'[lh] = p
      BY <1>0, <3>1 DEF MNTypes
    <3>3. exists'[lh] = (p \in NamedBy("id", table[lh]))
      BY <1>0, <3>1, Zenon DEF MNTypes
    <3>4. NamedBy("id", table[lh]) = PoliciesIn(table[lh])
      BY <1>0, <2>1, NamedByID DEF HubInv
    <3> QED
      BY <2>1, <3>2, <3>3, <3>4
  <2>3. FoundRow(lh)'
    BY <1>g, <2>1, <2>2 DEF FoundRow
  <2>4. \A a \in active'[lh] : Progress(lh, a)'
    BY <1>0, <1>g, <2>1 DEF HubInv, Progress, Sent
  <2> QED
    BY <1>0, <1>g, <2>1, <2>3, <2>4, SameRows, MNWorking
<1>5. CASE InsertOrUpdate(lh)
  <2>1. /\ UNCHANGED active /\ handler'[lh] = "write" /\ handler[lh] = "exec"
        /\ active[lh] # {}
        /\ todo'[lh] = todo[lh] \ {policy[lh]}
        /\ policyIDsFromDB'[lh] = policyIDsFromDB[lh] \ {policy[lh]}
        /\ table'[lh] = Upserted(lh)
    BY <1>0, <1>5 DEF InsertOrUpdate, Goto, MNTypes, sdVars, HubInv
  <2>2. PICK a \in active[lh], row \in Row :
            /\ policy[lh] \in todo[lh] /\ policy[lh] \in DOMAIN Sent(lh, a)
            /\ UpsertedWith(lh, a, row)
    BY <2>1, UpsertedRows
  <2>3. active[lh] = {a} /\ Sent(lh, a)' = Sent(lh, a)
    BY <1>0, <1>g, <2>1, SentType DEF Sent
  <2>4. /\ table'[lh] = {r \in table[lh] : r.policy # policy[lh]} \cup {row}
        /\ row.policy = policy[lh] /\ row.counts = Sent(lh, a)[policy[lh]]
    BY <2>1, <2>2 DEF UpsertedWith
  <2>5. OneRow(table'[lh]) /\ FitColumns(table'[lh], policyColumns')
    BY <1>g, <2>1, UpsertedTable
  <2>6. Progress(lh, a)
    BY <1>0 DEF HubInv
  <2>7. /\ todo'[lh] \subseteq DOMAIN Sent(lh, a)
        /\ policyIDsFromDB'[lh] \cap DOMAIN Sent(lh, a) \subseteq todo'[lh]
    BY <2>1, <2>6 DEF Progress
  <2>8. \A p \in DOMAIN Sent(lh, a) \ todo'[lh] : HasCounts(table'[lh], p, Sent(lh, a)[p])
    <3> TAKE p \in DOMAIN Sent(lh, a) \ todo'[lh]
    <3>1. CASE p = policy[lh]
      BY <2>4, <3>1 DEF HasCounts
    <3>2. CASE p # policy[lh]
      <4>1. HasCounts(table[lh], p, Sent(lh, a)[p])
        BY <2>1, <2>6, <3>2 DEF Progress
      <4> QED
        BY <2>4, <3>2, <4>1 DEF HasCounts
    <3> QED
      BY <3>1, <3>2
  <2>9. ~QueriesMayFail =>
            NamedBy("policy_id", table'[lh]) \subseteq policyIDsFromDB'[lh] \cup DOMAIN Sent(lh, a)
    <3>1. NamedBy("policy_id", table'[lh]) \subseteq NamedBy("policy_id", table[lh]) \cup {policy[lh]}
      BY <2>4 DEF NamedBy, PoliciesIn
    <3> QED
      BY <2>1, <2>2, <2>6, <3>1 DEF Progress
  <2>10. Progress(lh, a)'
    BY <2>3, <2>7, <2>8, <2>9 DEF Progress
  <2> QED
    BY <2>1, <2>3, <2>5, <2>10, MNWorking DEF FoundRow
<1>6. ASSUME NEW p \in Policies, DeleteAllComplianceRows(lh, p) PROVE HubInv(lh)'
  <2>1. /\ UNCHANGED <<active, handler, todo>> /\ handler[lh] = "write" /\ active[lh] # {}
        /\ todo[lh] = {}
        /\ p \in policyIDsFromDB[lh]
        /\ policyIDsFromDB'[lh] = policyIDsFromDB[lh] \ {p}
        /\ table'[lh] = WithoutPolicy(table[lh], p)
    BY <1>0, <1>6 DEF DeleteAllComplianceRows, MNTypes, sdVars, HubInv
  <2>2. /\ table'[lh] \subseteq table[lh]
        /\ \A r \in table[lh] : r.policy # p => r \in table'[lh]
        /\ NamedBy("policy_id", table'[lh]) = NamedBy("policy_id", table[lh]) \ {p}
    <3>1. \A rows : /\ WithoutPolicy(rows, p) \subseteq rows
                    /\ \A r \in rows : r.policy # p => r \in WithoutPolicy(rows, p)
                    /\ NamedBy("policy_id", WithoutPolicy(rows, p)) = NamedBy("policy_id", rows) \ {p}
      BY RowsWithoutPolicy
    <3> QED
      BY <2>1, <3>1
  <2>3. OneRow(table'[lh]) /\ FitColumns(table'[lh], policyColumns')
    BY <1>0, <1>g, <2>2 DEF HubInv, OneRow, FitColumns
  <2>4. ASSUME NEW a \in active[lh] PROVE Progress(lh, a)'
    <3>1. Progress(lh, a) /\ Sent(lh, a)' = Sent(lh, a)
      BY <1>0, <1>g, <2>1 DEF HubInv, Sent
    <3>2. p \notin DOMAIN Sent(lh, a)
      BY <2>1, <3>1 DEF Progress
    <3>3. \A q \in DOMAIN Sent(lh, a) : HasCounts(table'[lh], q, Sent(lh, a)[q])
      BY <2>1, <2>2, <3>1, <3>2 DEF Progress, HasCounts
    <3> QED
      BY <2>1, <2>2, <3>1, <3>3 DEF Progress
  <2> QED
    BY <2>1, <2>3, <2>4, MNWorking DEF FoundRow
<1>7. CASE Finish(lh)
  <2>1. /\ UNCHANGED <<active, table>> /\ handler[lh] = "write" /\ active[lh] # {}
        /\ handler'[lh] = "succeeded"
        /\ todo[lh] = {} /\ policyIDsFromDB[lh] = {}
    BY <1>0, <1>7 DEF Finish, Store, Goto, MNTypes, HubInv
  <2>2. \A a \in active[lh] : Tells(table[lh], Sent(lh, a))
    BY <2>1, NothingLeft
  <2>3. \A a \in active'[lh] : Tells(table[lh], Sent(lh, a))'
    BY <1>g, <2>1, <2>2 DEF Sent
  <2> QED
    BY <1>0, <1>g, <2>1, <2>3, SameRows, MNWorking DEF Progress, FoundRow
<1>8. CASE HandlerReturns(lh)
  <2>1. /\ UNCHANGED table /\ handler'[lh] = "idle" /\ active'[lh] = {}
    BY <1>0, <1>8 DEF HandlerReturns, Succeed, Fail, Goto, MNTypes, SDTypeOK
  <2>2. ASSUME held'[lh][Status] = Nil, processed'[lh][Status] > 0
        PROVE  Tells(table'[lh], objects'[lh][processed'[lh][Status]])
    <3>1. CASE handler[lh] = "succeeded" /\ \E a \in active[lh] : Succeed(lh, a)
      <4>1. PICK a \in active[lh] : Succeed(lh, a)
        BY <3>1
      <4>2. a.priority = Status /\ processed'[lh][Status] = a.bundle.generation
        BY <1>0, <4>1, SentType DEF Succeed, SDTypeOK
      <4> QED
        BY <1>0, <1>g, <2>1, <3>1, <4>2 DEF HubInv, Sent
    <3>2. CASE Fail(lh)
      <4>1. PICK a : a \in active[lh]
        BY <3>2 DEF Fail
      <4>2. held[lh][Status] # Nil
        BY <1>0, <4>1, ActiveFacts, SentType
      <4> QED
        BY <2>2, <3>2, <4>2 DEF Fail
    <3> QED
      BY <1>8, <3>1, <3>2 DEF HandlerReturns
  <2> QED
    BY <1>0, <1>g, <2>1, <2>2, SameRows DEF HubInv, FoundRow
<1>9. CASE StatementFails(lh)
  <2>1. /\ UNCHANGED active /\ handler'[lh] = "failed" /\ active[lh] # {}
    BY <1>0, <1>9 DEF StatementFails, sdVars, Goto, MNTypes, HubInv
  <2>2. \/ table'[lh] = table[lh]
        \/ handler[lh] = "exec" /\ table'[lh] = Upserted(lh)
        \/ table'[lh] \subseteq table[lh]
    BY <1>0, <1>9 DEF StatementFails, MNTypes, WithoutPolicy
  <2>3. OneRow(table'[lh]) /\ FitColumns(table'[lh], policyColumns')
    BY <1>0, <1>g, <2>2, UpsertedTable DEF HubInv, OneRow, FitColumns
  <2> QED
    BY <2>1, <2>3, MNWorking DEF Progress, FoundRow
<1> QED
  BY <1>1, <1>2, <1>3, <1>4, <1>5, <1>6, <1>7, <1>8, <1>9 DEF HandlerStep

\* MNInv is inductive.
LEMMA MNStepInv == MNInv /\ [MNNext]_mnVars => MNInv'
<1> SUFFICES ASSUME MNInv, [MNNext]_mnVars PROVE MNInv'
    OBVIOUS
<1>1. CASE MNNext
  <2>1. SDInv'
    BY <1>1, MNStepIsSDStep, SDStepInv DEF MNInv
  <2>2. MNTypes'
    BY <1>1, MNTypesStep
  <2>3. \A k \in LeafHubs : HubInv(k)'
    BY <1>1, <2>1, <2>2, OwnHub, OtherHubs DEF MNNext
  <2> QED
    BY <2>1, <2>2, <2>3 DEF MNInv
<1>2. CASE UNCHANGED mnVars
  <2>1. SDInv'
    BY <1>2, SDStepInv DEF MNInv, mnVars
  <2>2. MNTypes'
    BY <1>2 DEF MNInv, MNTypes, mnVars, given, local
  <2>3. ASSUME NEW k \in LeafHubs PROVE HubInv(k)'
    BY <1>2, HubFrame DEF MNInv, mnVars, local, sdVars
  <2> QED
    BY <2>1, <2>2, <2>3 DEF MNInv
<1> QED
  BY <1>1, <1>2

LEMMA MNInvariance == MNSpec => []MNInv
BY MNInitInv, MNStepInv, PTL DEF MNSpec

-----------------------------------------------------------------------------
(***************************************************************************)
(* The theorems.                                                           *)
(***************************************************************************)

\* The handler's variables have their types; a handler that works has a bundle,
\* and the policy being written is one that is still to be written.
THEOREM MNTypeCorrect == MNSpec => []MNTypeOK
<1>1. MNInv => MNTypeOK
  BY DEF MNInv, MNTypes, HubInv, FoundRow, MNTypeOK
<1> QED
  BY <1>1, MNInvariance, PTL

\* The table never has two rows for a policy, whatever queries and statements
\* fail: between the SELECT for the row and the INSERT or UPDATE nobody else
\* writes rows of the leaf hub.
THEOREM PolicyHasOneRow == MNSpec => []OneRowPerPolicy
<1>1. MNInv => OneRowPerPolicy
  BY DEF MNInv, HubInv, OneRow, OneRowPerPolicy
<1> QED
  BY <1>1, MNInvariance, PTL

\* If the queries report their errors, then once the newest bundle was handled, after
\* any number of handlers that failed half way and whichever columns the table has,
\* every policy of the bundle has its counts and no row is left with a policy_id of
\* another.  Of rows without a policy_id nothing is said: the handler can not see them.
THEOREM SentCountsAreWritten ==
    ASSUME ~QueriesMayFail
    PROVE  MNSpec => []SentCountsAreInTable
<1>1. MNInv => SentCountsAreInTable
  BY DEF MNInv, HubInv, Status, Tells, HasCounts, Says, SentCountsAreInTable
<1> QED
  BY <1>1, MNInvariance, PTL

\* No step removes the rows of a policy that is in the bundle being handled, also
\* if queries end early: the handler deletes what is left on its list after all
\* policies of the bundle were struck off.
THEOREM SentPoliciesAreKept == MNSpec => SentPoliciesStay
<1> DEFINE Keep == \A lh \in LeafHubs : \A a \in active[lh] :
                       (PoliciesIn(table[lh]) \cap DOMAIN objects[lh][a.bundle.generation])
                           \subseteq PoliciesIn(table'[lh])
<1>1. MNInv /\ [MNNext]_mnVars => [Keep]_mnVars
  <2> SUFFICES ASSUME MNInv, MNNext, NEW lh \in LeafHubs, NEW a \in active[lh]
               PROVE  (PoliciesIn(table[lh]) \cap DOMAIN Sent(lh, a)) \subseteq PoliciesIn(table'[lh])
      BY DEF Sent
  <2>1. PICK k \in LeafHubs : ReceiveBundle(k) \/ HandlerStep(k) \/ StatementFails(k)
    BY DEF MNNext
  <2>2. MNTypes /\ HubInv(lh) /\ Progress(lh, a)
    BY DEF MNInv, HubInv
  <2>3. \/ table'[lh] = table[lh]
        \/ handler[lh] = "exec" /\ table'[lh] = Upserted(lh)
        \/ \E p \in policyIDsFromDB[lh] :
               handler[lh] = "write" /\ todo[lh] = {} /\ table'[lh] = WithoutPolicy(table[lh], p)
    <3>1. CASE k # lh
      BY <2>1, <2>2, <3>1 DEF MNTypes, ReceiveBundle, HandlerStep, CallHandler, SelectPolicyIDs,
          SelectExists, InsertOrUpdate, DeleteAllComplianceRows, Finish, HandlerReturns, StatementFails
    <3>2. CASE k = lh
      BY <2>1, <2>2, <3>2 DEF MNTypes, ReceiveBundle, HandlerStep, CallHandler, SelectPolicyIDs,
          SelectExists, InsertOrUpdate, DeleteAllComplianceRows, Finish, HandlerReturns, StatementFails
    <3> QED
      BY <3>1, <3>2
  <2>4. CASE handler[lh] = "exec" /\ table'[lh] = Upserted(lh)
    <3>1. PICK b \in active[lh], row \in Row : UpsertedWith(lh, b, row)
      BY <2>4, UpsertedRows
    <3>2. ASSUME NEW r \in table[lh] PROVE \E t \in table'[lh] : t.policy = r.policy
      <4>1. CASE r.policy = policy[lh]
        BY <2>4, <3>1, <4>1 DEF UpsertedWith
      <4>2. CASE r.policy # policy[lh]
        BY <2>4, <3>1, <4>2 DEF UpsertedWith
      <4> QED
        BY <4>1, <4>2
    <3> QED
      BY <3>2 DEF PoliciesIn
  <2>5. CASE \E p \in policyIDsFromDB[lh] :
                 handler[lh] = "write" /\ todo[lh] = {} /\ table'[lh] = WithoutPolicy(table[lh], p)
    BY <2>2, <2>5 DEF Progress, WithoutPolicy, PoliciesIn
  <2> QED
    BY <2>3, <2>4, <2>5
<1> QED
  BY <1>1, MNInvariance, PTL DEF MNSpec, SentPoliciesStay
=============================================================================

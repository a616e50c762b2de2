---------------------- MODULE MinimalComplianceDBSyncer ----------------------
(***************************************************************************)
(* The minimal compliance handler of the policies db syncer and the        *)
(* aggregated_compliance table.  Unlike the other handlers it sends no     *)
(* batch: it asks for the policies of its leaf hub, then inserts or        *)
(* updates the row of each policy of the bundle, two statements for each,  *)
(* then deletes the rows of the policies that were not sent, one by one.   *)
(* The first statement that fails ends the handler with an error, and the  *)
(* bundle is handled again from the beginning.                             *)
(*                                                                         *)
(* The repository does not define the table.  Rows are written and looked  *)
(* up by a column "id" and listed and deleted by a column "policy_id",     *)
(* which no statement fills: policyColumns are the columns that the table  *)
(* has, one of them or both.  A statement that names another one fails.    *)
(***************************************************************************)
EXTENDS SerialDelivery

CONSTANTS
    MinimalComplianceStatus,  \* the type of the bundles
    Policies,
    Counts,          \* pairs of applied and non compliant clusters
    PolicyCounts,    \* the objects a minimal compliance bundle may have
    InitialTables,   \* what an earlier run of the bridge may have left
    ColumnChoices,   \* the columns for the policy that the table may have
    QueriesMayFail   \* whether a query may end early without being noticed

\* A bundle has the counts of some of the policies.
PolicyCountLists == UNION {[listed -> Counts] : listed \in SUBSET Policies}

Columns == {"id", "policy_id"}

\* named: the columns that hold the policy's name; the others are NULL.
Row == [policy : Policies, counts : Counts, named : SUBSET Columns]

\* A table with a column id has the policy there.  policy_id may be filled too, by
\* whoever added one of the columns, or be NULL, as the INSERT leaves it.
FitColumns(rows, columns) ==
    \A r \in rows : r.named \subseteq columns /\ ("id" \in columns => "id" \in r.named)

ASSUME MinimalComplianceAssumption ==
    /\ Priorities = {MinimalComplianceStatus}
    /\ dependency[MinimalComplianceStatus] = Nil
    /\ PolicyCounts \subseteq PolicyCountLists
    /\ \A rows \in InitialTables :
           rows \subseteq Row /\ \A r, s \in rows : r.policy = s.policy => r = s
    /\ ColumnChoices \subseteq SUBSET Columns
    /\ QueriesMayFail \in BOOLEAN
    /\ Nil \notin Policies

VARIABLES
    policyColumns,    \* the columns for the policy that the table has
    objects,          \* objects[lh][g]: the objects of the bundle with generation g
    table,            \* table[lh]: the leaf hub's rows of the table
    handler,          \* handler[lh]: where the handler called for lh is
    policyIDsFromDB,  \* policyIDsFromDB[lh]: policies with rows, not met in the bundle
    todo,             \* todo[lh]: the policies of the bundle still to be written
    policy,           \* policy[lh]: the policy being written, or Nil
    exists            \* exists[lh]: whether it was found to have a row

local == <<policyIDsFromDB, todo, policy, exists>>
given == <<policyColumns, objects>>
mnVars == <<sdVars, given, table, handler, local>>

Generations == {b.generation : b \in bundles[MinimalComplianceStatus]}

HandlerStates == {"idle", "select", "write", "exec", "succeeded", "failed"}

MNTypeOK ==
    /\ policyColumns \in SUBSET Columns
    /\ objects \in [LeafHubs -> [Generations -> PolicyCounts]]
    /\ table \in [LeafHubs -> SUBSET Row]
    /\ handler \in [LeafHubs -> HandlerStates]
    /\ policyIDsFromDB \in [LeafHubs -> SUBSET Policies]
    /\ todo \in [LeafHubs -> SUBSET Policies]
    /\ policy \in [LeafHubs -> Policies \cup {Nil}]
    /\ exists \in [LeafHubs -> BOOLEAN]
    /\ \A lh \in LeafHubs :
           /\ handler[lh] = "idle" <=> active[lh] = {}
           /\ handler[lh] = "exec" => policy[lh] \in todo[lh]
           /\ FitColumns(table[lh], policyColumns)

LocalInit ==
    /\ policyIDsFromDB = [lh \in LeafHubs |-> {}]
    /\ todo = [lh \in LeafHubs |-> {}]
    /\ policy = [lh \in LeafHubs |-> Nil]
    /\ exists = [lh \in LeafHubs |-> FALSE]

MNInit ==
    /\ SDInit
    /\ policyColumns \in ColumnChoices
    /\ objects \in [LeafHubs -> [Generations -> PolicyCounts]]
    /\ table \in [LeafHubs -> {rows \in InitialTables : FitColumns(rows, policyColumns)}]
    /\ handler = [lh \in LeafHubs |-> "idle"]
    /\ LocalInit

-----------------------------------------------------------------------------
PoliciesIn(rows) == {r.policy : r \in rows}

\* The policies that a statement finds by their name in the column.
NamedBy(column, rows) == PoliciesIn({r \in rows : column \in r.named})

Goto(lh, state) == handler' = [handler EXCEPT ![lh] = state]

ReceiveBundle(lh) ==
    /\ \E b \in bundles[MinimalComplianceStatus] : Receive(lh, MinimalComplianceStatus, b)
    /\ UNCHANGED <<given, table, handler, local>>

CallHandler(lh) ==
    /\ Start(lh, MinimalComplianceStatus)
    /\ Goto(lh, "select")
    /\ UNCHANGED <<given, table, local>>

\* What GetPolicyIDsByLeafHub may return.  It asks for policy_id, drops the error of
\* its query and does not ask rows.Err: without such a column, or when the query
\* fails, it returns no policies or some of them.  A NULL cannot be scanned: when
\* one arrives nothing is returned but an error (StatementFails).
ReturnedPolicyIDs(rows) ==
    IF "policy_id" \notin policyColumns THEN {{}}
    ELSE IF QueriesMayFail THEN SUBSET NamedBy("policy_id", rows)
    ELSE {ids \in {NamedBy("policy_id", rows)} : \A r \in rows : "policy_id" \in r.named}

\* Then the handler turns to the objects of the bundle, in the order in which they
\* were sent: any.
SelectPolicyIDs(lh) ==
    /\ handler[lh] = "select"
    /\ \E ids \in ReturnedPolicyIDs(table[lh]) :
           policyIDsFromDB' = [policyIDsFromDB EXCEPT ![lh] = ids]
    /\ \E a \in active[lh] :
           todo' = [todo EXCEPT ![lh] = DOMAIN objects[lh][a.bundle.generation]]
    /\ Goto(lh, "write")
    /\ UNCHANGED <<sdVars, given, table, policy, exists>>

\* InsertOrUpdateAggregatedPolicyCompliance for the next object: whether the
\* policy has a row.
SelectExists(lh) ==
    /\ handler[lh] = "write"
    /\ "id" \in policyColumns
    /\ \E p \in todo[lh] :
           /\ policy' = [policy EXCEPT ![lh] = p]
           /\ exists' = [exists EXCEPT ![lh] = p \in NamedBy("id", table[lh])]
    /\ Goto(lh, "exec")
    /\ UNCHANGED <<sdVars, given, table, policyIDsFromDB, todo>>

Inserted(rows, p, counts) ==
    rows \cup {[policy |-> p, counts |-> counts, named |-> {"id"}]}

Updated(rows, p, counts) ==
    LET found == {r \in rows : r.policy = p /\ "id" \in r.named}
    IN  (rows \ found) \cup {[r EXCEPT !.counts = counts] : r \in found}

\* Mutant of Written: the row is inserted whether there is one or not.
AlwaysInserted(rows, p, counts, found) == Inserted(rows, p, counts)

\* The rows after the UPDATE of the policy's row, or after its INSERT.
Written(rows, p, counts, found) ==
    IF found THEN Updated(rows, p, counts) ELSE Inserted(rows, p, counts)

Upserted(lh) ==
    LET a == CHOOSE x \in active[lh] : TRUE
    IN  Written(table[lh], policy[lh], objects[lh][a.bundle.generation][policy[lh]], exists[lh])

\* Mutant of InsertOrUpdate: a policy that was sent stays among those to delete.
InsertOrUpdateOnly(lh) ==
    /\ handler[lh] = "exec"
    /\ table' = [table EXCEPT ![lh] = Upserted(lh)]
    /\ todo' = [todo EXCEPT ![lh] = @ \ {policy[lh]}]
    /\ policy' = [policy EXCEPT ![lh] = Nil]
    /\ Goto(lh, "write")
    /\ UNCHANGED <<sdVars, given, policyIDsFromDB, exists>>

\* The UPDATE or INSERT was executed: the policy is done and will not be deleted.
InsertOrUpdate(lh) ==
    /\ handler[lh] = "exec"
    /\ table' = [table EXCEPT ![lh] = Upserted(lh)]
    /\ todo' = [todo EXCEPT ![lh] = @ \ {policy[lh]}]
    /\ policyIDsFromDB' = [policyIDsFromDB EXCEPT ![lh] = @ \ {policy[lh]}]
    /\ policy' = [policy EXCEPT ![lh] = Nil]
    /\ Goto(lh, "write")
    /\ UNCHANGED <<sdVars, given, exists>>

WithoutPolicy(rows, p) == {r \in rows : ~(r.policy = p /\ "policy_id" \in r.named)}

\* After the objects, DeleteAllComplianceRows for each policy that was not sent.
DeleteAllComplianceRows(lh, p) ==
    /\ handler[lh] = "write"
    /\ todo[lh] = {}
    /\ p \in policyIDsFromDB[lh]
    /\ "policy_id" \in policyColumns
    /\ table' = [table EXCEPT ![lh] = WithoutPolicy(@, p)]
    /\ policyIDsFromDB' = [policyIDsFromDB EXCEPT ![lh] = @ \ {p}]
    /\ UNCHANGED <<sdVars, given, handler, todo, policy, exists>>

\* Mutant of Finish: the handler ends when the objects of the bundle are written.
FinishWithoutDeleting(lh) ==
    /\ handler[lh] = "write"
    /\ todo[lh] = {}
    /\ \E a \in active[lh] : Store(lh, a)
    /\ Goto(lh, "succeeded")
    /\ UNCHANGED <<given, table, local>>

\* Everything was written and deleted.
Finish(lh) ==
    /\ handler[lh] = "write"
    /\ todo[lh] = {}
    /\ policyIDsFromDB[lh] = {}
    /\ \E a \in active[lh] : Store(lh, a)
    /\ Goto(lh, "succeeded")
    /\ UNCHANGED <<given, table, local>>

\* Mutant of StatementFails: the handler is forgotten without a report to the unit.
StatementFailsUnreported(lh) ==
    /\ handler[lh] \in {"write", "exec"}
    /\ todo[lh] # {}
    /\ Goto(lh, "idle")
    /\ UNCHANGED <<sdVars, given, table, local>>

\* A row cannot be scanned or a statement fails, which it may do although the
\* database executed it: the handler returns the error at once.
StatementFails(lh) ==
    /\ \/ handler[lh] = "select" /\ "policy_id" \in policyColumns /\ table[lh] # {} /\ UNCHANGED table
       \/ handler[lh] = "write" /\ todo[lh] # {} /\ UNCHANGED table
       \/ handler[lh] = "exec" /\ table' \in {table, [table EXCEPT ![lh] = Upserted(lh)]}
       \/ /\ handler[lh] = "write" /\ todo[lh] = {}
          /\ \E p \in policyIDsFromDB[lh] :
                 table' \in {table, [table EXCEPT ![lh] = WithoutPolicy(@, p)]}
    /\ Goto(lh, "failed")
    /\ UNCHANGED <<sdVars, given, local>>

\* Mutant of HandlerReturns: the error is dropped and the bundle with it.
HandlerReturnsNil(lh) ==
    /\ handler[lh] \in {"succeeded", "failed"}
    /\ \E a \in active[lh] :
           /\ processed' = [processed EXCEPT ![lh][a.priority] = a.bundle.generation]
           /\ held' = [held EXCEPT ![lh][a.priority] = IF @ = a.bundle THEN Nil ELSE @]
    /\ active' = [active EXCEPT ![lh] = {}]
    /\ Goto(lh, "idle")
    /\ policyIDsFromDB' = [policyIDsFromDB EXCEPT ![lh] = {}]
    /\ todo' = [todo EXCEPT ![lh] = {}]
    /\ policy' = [policy EXCEPT ![lh] = Nil]
    /\ exists' = [exists EXCEPT ![lh] = FALSE]
    /\ UNCHANGED <<stored, given, table>>

\* The handler returns to the worker, which reports the result to the unit.
HandlerReturns(lh) ==
    /\ \/ handler[lh] = "succeeded" /\ \E a \in active[lh] : Succeed(lh, a)
       \/ handler[lh] = "failed" /\ Fail(lh)
    /\ Goto(lh, "idle")
    /\ policyIDsFromDB' = [policyIDsFromDB EXCEPT ![lh] = {}]
    /\ todo' = [todo EXCEPT ![lh] = {}]
    /\ policy' = [policy EXCEPT ![lh] = Nil]
    /\ exists' = [exists EXCEPT ![lh] = FALSE]
    /\ UNCHANGED <<given, table>>

HandlerStep(lh) ==
    \/ CallHandler(lh)
    \/ SelectPolicyIDs(lh)
    \/ SelectExists(lh)
    \/ InsertOrUpdate(lh)
    \/ \E p \in Policies : DeleteAllComplianceRows(lh, p)
    \/ Finish(lh)
    \/ HandlerReturns(lh)

MNNext == \E lh \in LeafHubs : ReceiveBundle(lh) \/ HandlerStep(lh) \/ StatementFails(lh)

MNSpec == MNInit /\ [][MNNext]_mnVars

\* Handlers are called and keep going; with one type of bundles, a unit that holds
\* one is ready.  The database answers without errors from some time on: as a
\* handler starts again after each error, it is not enough that every statement
\* succeeds now and then.  A table on which a statement can not succeed has no such
\* time.
MNFairSpec ==
    /\ MNSpec
    /\ \A lh \in LeafHubs :
           WF_mnVars(HandlerStep(lh)) /\ <>[][~StatementFails(lh)]_mnVars
-----------------------------------------------------------------------------
\* "remove policies that in the db but were not sent in the bundle (leaf hub sends
\* only living resources)": when the newest bundle was handled, the table has
\* exactly its policies and counts.
AggregatedTableMatchesBundle ==
    \A lh \in LeafHubs :
        held[lh][MinimalComplianceStatus] = Nil /\ processed[lh][MinimalComplianceStatus] > 0 =>
            LET sent == objects[lh][processed[lh][MinimalComplianceStatus]]
            IN  PoliciesIn(table[lh]) = DOMAIN sent /\ \A r \in table[lh] : r.counts = sent[r.policy]

\* The policies of a bundle have its counts, and no other policy has a name that
\* the listing and the deletions can find.
Says(rows, sent) ==
    /\ \A p \in DOMAIN sent : \E r \in rows : r.policy = p /\ r.counts = sent[p]
    /\ NamedBy("policy_id", rows) \subseteq DOMAIN sent

\* When the newest bundle was handled, whatever statements failed before and
\* whichever columns the table has, every policy that was sent has the counts that
\* were sent, and no row is left that has a policy_id of another policy.
SentCountsAreInTable ==
    \A lh \in LeafHubs :
        held[lh][MinimalComplianceStatus] = Nil /\ processed[lh][MinimalComplianceStatus] > 0 =>
            Says(table[lh], objects[lh][processed[lh][MinimalComplianceStatus]])

\* The table never has two rows for a policy, also when the answer to an INSERT
\* was lost and the policy is written again.
OneRowPerPolicy ==
    \A lh \in LeafHubs : \A r, s \in table[lh] : r.policy = s.policy => r = s

\* A handler that fails half way leaves old and new rows next to each other, but
\* at no time is a policy missing that was in the table and is in the bundle.
SentPoliciesStay ==
    [][\A lh \in LeafHubs : \A a \in active[lh] :
           (PoliciesIn(table[lh]) \cap DOMAIN objects[lh][a.bundle.generation])
               \subseteq PoliciesIn(table'[lh])]_mnVars

\* In a table with the column id alone, where every statement but the listing can
\* succeed, a bundle that was received is written in the end, or a newer one: the
\* policies that were sent come to have the counts of the newest bundle received.
SentCountsCatchUp ==
    \A lh \in LeafHubs :
        policyColumns = {"id"} /\ held[lh][MinimalComplianceStatus] # Nil
            ~> /\ held[lh][MinimalComplianceStatus] = Nil
               /\ \E g \in Generations :
                      /\ processed[lh][MinimalComplianceStatus] = g
                      /\ Says(table[lh], objects[lh][g])
=============================================================================

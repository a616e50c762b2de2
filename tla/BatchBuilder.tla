---------------------------- MODULE BatchBuilder ----------------------------
(***************************************************************************)
(* The batch builder of the policies (pkg/db/postgresql/batch): it         *)
(* collects the arguments of the rows that a handler wants inserted,       *)
(* updated and deleted, and cuts a statement as soon as it has more than   *)
(* maxArgsInStatement of them.  A statement refers to its arguments by     *)
(* position ($1, $2, ...), from a number of rows and a number of columns   *)
(* that are counted separately, so what it says is found here by reading   *)
(* the arguments through those positions.                                  *)
(***************************************************************************)
EXTENDS BatchStatements, SequencesExt

CONSTANTS
    LeafHub,         \* leafHubName
    OtherLeafHub,    \* a leaf hub whose rows are in the same table
    Policies,
    Clusters,
    Compliance,      \* the values of the compliance column
    ErrorNone,       \* the value of the error column
    Limits,          \* values of maxArgsInStatement to be tried
    InitialTables    \* rows the table may have

Row == [leafHub : {LeafHub, OtherLeafHub}, policy : Policies, cluster : Clusters,
        compliance : Compliance]

Operations == {"insert", "updatePolicy", "delete", "updateCluster", "deleteCluster"}

ASSUME BuilderAssumption ==
    /\ LeafHub # OtherLeafHub
    /\ IsFiniteSet(Policies)
    /\ Limits \subseteq Nat \ {0}
    /\ InitialTables \subseteq SUBSET Row

VARIABLES
    maxArgsInStatement,
    args,          \* args[k]: insertArgs, updateArgs, deleteArgs, updateClusterComplianceArgs
    rowsCount,     \* rowsCount[k]: insertRowsCount, ...
    deleteClusterComplianceArgs,  \* per policy, <<>> if the map has none
    batch,         \* the statements queued so far: the operation of each, the numbers
                   \* of rows and columns its text was generated from, its arguments
    built,         \* whether Build was called
    operations,    \* the operations that the handler uses
    touched,       \* the policies and clusters for which it used one
    table,         \* the rows before the batch is sent
    asked          \* the rows if every operation asked for had been executed at once

builderVars == <<args, rowsCount, deleteClusterComplianceArgs, batch>>
rigidVars == <<maxArgsInStatement, operations, table>>
bbVars == <<rigidVars, builderVars, built, touched, asked>>

\* The clusters per policy handler inserts and deletes, the compliance handler
\* updates.
HandlerOperations == {{"insert", "delete", "deleteCluster"}, {"updatePolicy", "updateCluster"}}

\* The operations whose arguments are collected over all policies.
Kinds == Operations \ {"deleteCluster"}

\* leafHubName is the first argument of a delete statement.
NoArgs(k) == IF k = "delete" THEN <<LeafHub>> ELSE <<>>

BBInit ==
    /\ maxArgsInStatement \in Limits
    /\ args = [k \in Kinds |-> NoArgs(k)]
    /\ rowsCount = [k \in Kinds |-> 0]
    /\ deleteClusterComplianceArgs = [p \in Policies |-> <<>>]
    /\ batch = <<>>
    /\ built = FALSE
    /\ operations \in HandlerOperations
    /\ touched = {}
    /\ table \in InitialTables
    /\ asked = table

-----------------------------------------------------------------------------
(***************************************************************************)
(* What the text of a statement makes of its arguments.                    *)
(***************************************************************************)

\* Mutant of ValuesRow: the rows overlap in one argument.
OverlappingRow(statement, i) ==
    [j \in 1 .. statement.columnsCount |-> statement.args[i * (statement.columnsCount - 1) + j]]

\* generateInsertOrUpdateArgs: row i, from 0, starts at $(i * columnsCount + 1).
ValuesRow(statement, i) ==
    [j \in 1 .. statement.columnsCount |-> statement.args[i * statement.columnsCount + j]]

ValuesRows(statement) == {ValuesRow(statement, i) : i \in 0 .. statement.rowsCount - 1}

\* The list in IN (...): rowsCount arguments from the given one.
ArgsList(statement, startingIndex) ==
    {statement.args[startingIndex + i] : i \in 0 .. statement.rowsCount - 1}

\* The columns in the order in which the statements name them.
Meaning(statement) ==
    CASE statement.operation = "insert" ->
             InsertRows({[policy |-> v[1], cluster |-> v[2], leafHub |-> v[3], compliance |-> v[5]] :
                            v \in ValuesRows(statement)})
      [] statement.operation = "updatePolicy" ->
             UpdateRows("compliance", {"leafHub", "policy"},
                        {[policy |-> v[1], leafHub |-> v[2], compliance |-> v[3]] :
                            v \in ValuesRows(statement)})
      [] statement.operation = "updateCluster" ->
             UpdateRows("compliance", {"leafHub", "policy", "cluster"},
                        {[policy |-> v[1], cluster |-> v[2], leafHub |-> v[3], compliance |-> v[4]] :
                            v \in ValuesRows(statement)})
      [] statement.operation = "delete" ->
             DeleteRows({"leafHub", "policy"},
                        {[leafHub |-> statement.args[1], policy |-> p] : p \in ArgsList(statement, 2)})
      [] statement.operation = "deleteCluster" ->
             DeleteRows({"leafHub", "policy", "cluster"},
                        {[leafHub |-> statement.args[1], policy |-> statement.args[2], cluster |-> c] :
                            c \in ArgsList(statement, 3)})

\* The statement generated from n rows with arguments a.
Generate(k, a, n) ==
    [operation |-> k, rowsCount |-> n, columnsCount |-> Len(a) \div n, args |-> a]

-----------------------------------------------------------------------------
(***************************************************************************)
(* The operations of the builder.                                          *)
(***************************************************************************)

\* Mutants of Add: the rows are not counted anew after a statement was cut, or no
\* statement is ever cut, or the row that exceeds the limit is lost.
AddKeepingCount(k, row) ==
    LET a == args[k] \o row
        n == rowsCount[k] + 1
        full == Len(a) > maxArgsInStatement
    IN  /\ batch' = IF full THEN Append(batch, Generate(k, a, n)) ELSE batch
        /\ args' = [args EXCEPT ![k] = IF full THEN NoArgs(k) ELSE a]
        /\ rowsCount' = [rowsCount EXCEPT ![k] = IF full THEN 1 ELSE n]
        /\ UNCHANGED deleteClusterComplianceArgs

AddUncut(k, row) ==
    /\ args' = [args EXCEPT ![k] = @ \o row]
    /\ rowsCount' = [rowsCount EXCEPT ![k] = @ + 1]
    /\ UNCHANGED <<batch, deleteClusterComplianceArgs>>

AddAfterCut(k, row) ==
    LET n == rowsCount[k] + 1
        full == Len(args[k] \o row) > maxArgsInStatement /\ rowsCount[k] > 0
    IN  /\ batch' = IF full THEN Append(batch, Generate(k, args[k], n - 1)) ELSE batch
        /\ args' = [args EXCEPT ![k] = IF full THEN NoArgs(k) ELSE @ \o row]
        /\ rowsCount' = [rowsCount EXCEPT ![k] = IF full THEN 0 ELSE n]
        /\ UNCHANGED deleteClusterComplianceArgs

\* insert, update, delete and the body of UpdateClusterCompliance: the row's
\* arguments are added; too many of them become a statement of their own.
Add(k, row) ==
    LET a == args[k] \o row
        n == rowsCount[k] + 1
        full == Len(a) > maxArgsInStatement
    IN  /\ batch' = IF full THEN Append(batch, Generate(k, a, n)) ELSE batch
        /\ args' = [args EXCEPT ![k] = IF full THEN NoArgs(k) ELSE a]
        /\ rowsCount' = [rowsCount EXCEPT ![k] = IF full THEN 0 ELSE n]
        /\ UNCHANGED deleteClusterComplianceArgs

\* The handler uses operation k for some clusters of a policy, for each of which
\* it has used none.  What it asks for is the statement with only this row.
Ask(k, clusters, statement) ==
    /\ ~built
    /\ k \in operations
    /\ clusters \cap touched = {}
    /\ touched' = touched \cup clusters
    /\ asked' = Execute(asked, statement)
    /\ UNCHANGED <<rigidVars, built>>

HasRow(clusters) ==
    \E r \in table : r.leafHub = LeafHub /\ <<r.policy, r.cluster>> \in clusters

ClustersOf(p) == {p} \X Clusters

\* Insert of a row that does not exist.
Insert(p, c, compliance) ==
    /\ ~HasRow({<<p, c>>})
    /\ Ask("insert", {<<p, c>>}, InsertRows({[leafHub |-> LeafHub, policy |-> p, cluster |-> c,
                                              compliance |-> compliance]}))
    /\ Add("insert", <<p, c, LeafHub, ErrorNone, compliance>>)

UpdatePolicyCompliance(p, compliance) ==
    /\ HasRow(ClustersOf(p))
    /\ Ask("updatePolicy", ClustersOf(p),
           UpdateRows("compliance", {"leafHub", "policy"},
                      {[leafHub |-> LeafHub, policy |-> p, compliance |-> compliance]}))
    /\ Add("updatePolicy", <<p, LeafHub, compliance>>)

UpdateClusterCompliance(p, c, compliance) ==
    /\ Ask("updateCluster", {<<p, c>>},
           UpdateRows("compliance", {"leafHub", "policy", "cluster"},
                      {[leafHub |-> LeafHub, policy |-> p, cluster |-> c, compliance |-> compliance]}))
    /\ Add("updateCluster", <<p, c, LeafHub, compliance>>)

DeletePolicy(p) ==
    /\ HasRow(ClustersOf(p))
    /\ Ask("delete", ClustersOf(p),
           DeleteRows({"leafHub", "policy"}, {[leafHub |-> LeafHub, policy |-> p]}))
    /\ Add("delete", <<p>>)

\* The clusters to delete are collected by policy, after the leaf hub and the
\* policy; their statements are not cut.
DeleteClusterStatus(p, c) ==
    /\ HasRow({<<p, c>>})
    /\ Ask("deleteCluster", {<<p, c>>},
           DeleteRows({"leafHub", "policy", "cluster"},
                      {[leafHub |-> LeafHub, policy |-> p, cluster |-> c]}))
    /\ deleteClusterComplianceArgs' = [deleteClusterComplianceArgs EXCEPT ![p] =
           IF @ = <<>> THEN <<LeafHub, p, c>> ELSE Append(@, c)]
    /\ UNCHANGED <<args, rowsCount, batch>>

\* The statement with the arguments left over for k, if there are any.
Remaining(k) ==
    IF rowsCount[k] > 0 THEN <<Generate(k, args[k], rowsCount[k])>> ELSE <<>>

\* The statements that delete clusters of single policies, in the given order of
\* the map; two arguments come before the clusters.
ClusterDeletions(order) ==
    [i \in DOMAIN order |->
        LET a == deleteClusterComplianceArgs[order[i]]
        IN  [operation |-> "deleteCluster", rowsCount |-> Len(a) - 2, columnsCount |-> 1, args |-> a]]

\* Mutant of BuildBatch: the updates of single clusters that are left over are
\* not queued.
BuildWithoutClusters ==
    /\ ~built
    /\ built' = TRUE
    /\ \E order \in SetToSeqs({p \in Policies : deleteClusterComplianceArgs[p] # <<>>}) :
           batch' = batch \o Remaining("insert") \o Remaining("updatePolicy") \o Remaining("delete")
                        \o ClusterDeletions(order)
    /\ UNCHANGED <<rigidVars, args, rowsCount, deleteClusterComplianceArgs, touched, asked>>

\* Build: build of the base builder, then what the policies builder adds.
BuildBatch ==
    /\ ~built
    /\ built' = TRUE
    /\ \E order \in SetToSeqs({p \in Policies : deleteClusterComplianceArgs[p] # <<>>}) :
           batch' = batch \o Remaining("insert") \o Remaining("updatePolicy") \o Remaining("delete")
                        \o Remaining("updateCluster") \o ClusterDeletions(order)
    /\ UNCHANGED <<rigidVars, args, rowsCount, deleteClusterComplianceArgs, touched, asked>>

BBNext ==
    \/ \E p \in Policies, c \in Clusters :
           \/ \E compliance \in Compliance :
                  Insert(p, c, compliance) \/ UpdateClusterCompliance(p, c, compliance)
           \/ DeleteClusterStatus(p, c)
    \/ \E p \in Policies :
           DeletePolicy(p) \/ \E compliance \in Compliance : UpdatePolicyCompliance(p, compliance)
    \/ BuildBatch

BBSpec == BBInit /\ [][BBNext]_bbVars
-----------------------------------------------------------------------------
\* The batch sent to the database.
Sent == [i \in DOMAIN batch |-> Meaning(batch[i])]

\* Wherever statements were cut and in whatever order they were queued, the batch
\* changes the table as if every operation the handler used had been executed by
\* itself: no row is lost, repeated or put together from arguments of two rows,
\* and no row of another leaf hub is touched.
BatchDoesWhatWasAsked == built => ExecuteFirst(Len(batch), Sent, table) = asked

\* Every statement can be answered: as many arguments are given as its text
\* refers to, all of them are used, and it has a row.
PlaceholdersMatchArgs ==
    \A i \in DOMAIN batch :
        LET s == batch[i]
        IN  /\ s.rowsCount > 0
            /\ CASE s.operation = "delete" -> Len(s.args) = s.rowsCount + 1
                 [] s.operation = "deleteCluster" -> Len(s.args) = s.rowsCount + 2
                 [] OTHER -> Len(s.args) = s.rowsCount * s.columnsCount

\* The arguments one row adds to a statement.
Width(k) ==
    CASE k = "insert" -> 5 [] k = "updateCluster" -> 4 [] k = "updatePolicy" -> 3 [] OTHER -> 1

FitsLimit(s) == Len(s.args) <= maxArgsInStatement + Width(s.operation)

\* A statement exceeds the limit on arguments by at most one row
\* (maxArgsInStatement): those that delete single clusters excepted.
StatementsAreCut ==
    \A i \in DOMAIN batch : batch[i].operation # "deleteCluster" => FitsLimit(batch[i])
=============================================================================

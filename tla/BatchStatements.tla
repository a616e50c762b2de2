-------------------------- MODULE BatchStatements --------------------------
(***************************************************************************)
(* The statements the batch builders of pkg/db/postgresql/batch generate,  *)
(* and what a batch of them does to the rows of a leaf hub.                *)
(*                                                                         *)
(* Every statement names the leaf hub, so the rows of a leaf hub are a     *)
(* table of their own here: a set of records whose fields are columns.  A  *)
(* statement that the builder splits because it has too many arguments is  *)
(* one statement here; BatchBuilder models the splitting.                  *)
(***************************************************************************)
EXTENDS Integers, Sequences

\* INSERT into ... values rows.
InsertRows(rows) == [operation |-> "INSERT", rows |-> rows]

\* UPDATE ... SET column=new.column FROM (values rows) AS new WHERE rows agree on
\* the columns of key.
UpdateRows(column, key, rows) ==
    [operation |-> "UPDATE", column |-> column, key |-> key, rows |-> rows]

\* DELETE from ... WHERE the columns of key are those of one of rows.
DeleteRows(key, rows) == [operation |-> "DELETE", key |-> key, rows |-> rows]

Agree(r, s, key) == \A column \in key : r[column] = s[column]

Matched(r, statement) == {s \in statement.rows : Agree(r, s, statement.key)}

Execute(rows, statement) ==
    CASE statement.operation = "INSERT" -> rows \cup statement.rows
      [] statement.operation = "DELETE" -> {r \in rows : Matched(r, statement) = {}}
      [] statement.operation = "UPDATE" ->
             {r \in rows : Matched(r, statement) = {}}
                 \cup UNION {{[r EXCEPT ![statement.column] = s[statement.column]] :
                                 s \in Matched(r, statement)} : r \in rows}

\* The rows after the first n statements of the batch.
ExecuteFirst(n, batch, rows) ==
    LET after[i \in 0 .. Len(batch)] ==
            IF i = 0 THEN rows ELSE Execute(after[i - 1], batch[i])
    IN  after[n]

\* build queues a statement only if it has rows.  One without rows would change
\* nothing, so it stays where it would be; this asks whether any was queued.
HasStatements(batch) == \E i \in DOMAIN batch : batch[i].rows # {}
=============================================================================

--------------------------- MODULE MCBatchBuilder ---------------------------
(***************************************************************************)
(* BatchBuilder with limits at which statements are cut after one, two and *)
(* three rows.                                                             *)
(***************************************************************************)
EXTENDS BatchBuilder

CONSTANT Compliant

\* A row of another leaf hub for every cluster, and some rows of the leaf hub.
MCInitialTables ==
    LET rows(lh) == {r \in Row : r.leafHub = lh /\ r.compliance = Compliant}
    IN  {own \cup rows(OtherLeafHub) : own \in SUBSET rows(LeafHub)}
=============================================================================

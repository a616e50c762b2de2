---------------------- MODULE MCManagedClustersDBSyncer ----------------------
(***************************************************************************)
(* ManagedClustersDBSyncer with two clusters in two versions: bundles that *)
(* between them insert, keep, update and delete rows.                      *)
(***************************************************************************)
EXTENDS ManagedClustersDBSyncer

MCDependency == [p \in Priorities |-> Nil]

MCBundles ==
    [p \in Priorities |-> {[generation |-> g, dependencyGeneration |-> 0] : g \in 1 .. 3}]

\* The first run, or a restart with the rows of some bundle.
MCInitialTables == {RowsOf(DOMAIN listed, listed) : listed \in ManagedClusterLists}
=============================================================================

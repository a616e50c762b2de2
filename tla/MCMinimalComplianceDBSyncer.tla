--------------------- MODULE MCMinimalComplianceDBSyncer ---------------------
(***************************************************************************)
(* MinimalComplianceDBSyncer with two policies and two values of their     *)
(* counts.                                                                 *)
(***************************************************************************)
EXTENDS MinimalComplianceDBSyncer

MCDependency == [p \in Priorities |-> Nil]

MCBundles ==
    [p \in Priorities |-> {[generation |-> g, dependencyGeneration |-> 0] : g \in 1 .. 2}]

AllColumnChoices == SUBSET Columns \ {{}}

OnlyID == {{"id"}}

\* The first run, or a restart with rows of some bundle, in whichever columns their
\* policies are named.
MCInitialTables ==
    UNION {{{[policy |-> p, counts |-> counts[p], named |-> named[p]] : p \in DOMAIN counts} :
                named \in [DOMAIN counts -> AllColumnChoices]} : counts \in PolicyCountLists}
=============================================================================

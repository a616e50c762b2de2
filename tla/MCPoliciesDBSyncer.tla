------------------------- MODULE MCPoliciesDBSyncer -------------------------
(***************************************************************************)
(* PoliciesDBSyncer with two policies, two clusters and a choice of bundle *)
(* contents that between them insert, keep, update and delete rows.        *)
(***************************************************************************)
EXTENDS PoliciesDBSyncer, TLC

CONSTANTS pol1, pol2, c1, c2

MCDependency ==
    [p \in Priorities |-> IF p = ComplianceStatus THEN ClustersPerPolicy ELSE Nil]

\* Two bundles of each type; both compliance bundles are for the second clusters per
\* policy bundle, as their base may not move (see PSFairSpec).
MCBundles ==
    [p \in Priorities |->
        {[generation |-> g, dependencyGeneration |-> IF p = ComplianceStatus THEN 2 ELSE 0] :
            g \in 1 .. 2}]

\* A policy appears, gets and loses a cluster, has none, and disappears.
MCPlacements ==
    {<<>>, pol1 :> {}, pol1 :> {c1}, pol1 :> {c1, c2}, pol1 :> {c2} @@ pol2 :> {c1}}

Clear == [nonCompliant |-> {}, unknown |-> {}]

\* A policy is not reported, or reported with clusters in every state.
MCReports ==
    {<<>>, pol1 :> Clear,
     pol1 :> [Clear EXCEPT !.nonCompliant = {c1}],
     pol1 :> [nonCompliant |-> {c2}, unknown |-> {c1}],
     pol1 :> [Clear EXCEPT !.unknown = {c2}] @@ pol2 :> [Clear EXCEPT !.nonCompliant = {c1}]}

\* The first run, or a restart with rows that differ from every bundle.
MCInitialTables ==
    {{}, {[policy |-> pol1, cluster |-> c2, compliance |-> Compliant],
          [policy |-> pol1, cluster |-> c1, compliance |-> NonCompliant],
          [policy |-> pol2, cluster |-> c2, compliance |-> Unknown]}}
=============================================================================

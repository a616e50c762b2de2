------------------------- MODULE MCDispatchPipeline -------------------------
(***************************************************************************)
(* DispatchPipeline with the registrations of the two db syncers and small *)
(* sets of bundles.                                                        *)
(***************************************************************************)
EXTENDS DispatchPipeline, TLC

\* The priorities of conflation_priority.go; compliance status bundles depend
\* on clusters per policy bundles, no other registration has a dependency.
ManagedClusters == 0
ClustersPerPolicy == 1
ComplianceStatus == 2
MinimalComplianceStatus == 3

MCDependency == [p \in Priorities |-> IF p = ComplianceStatus THEN ClustersPerPolicy ELSE Nil]
MCDependantTypes == {ComplianceStatus}

Of(generations, base(_)) ==
    {[generation |-> g, dependencyGeneration |-> base(g)] : g \in generations}

Independent(generations) == LET none(g) == 0 IN Of(generations, none)
OnFirstBase(generations) == LET first(g) == 1 IN Of(generations, first)

Sent(clusters, clustersPerPolicy, compliance, minimal) ==
    [p \in Priorities |->
        CASE p = ManagedClusters -> clusters
          [] p = ClustersPerPolicy -> clustersPerPolicy
          [] p = ComplianceStatus -> compliance
          [] p = MinimalComplianceStatus -> minimal]

\* The two types that depend on each other.  The second compliance bundle needs a
\* base, the first none; generation 0 is the one no unit accepts.
MovingBase == Sent({}, Independent(0 .. 1), Of(1 .. 2, LAMBDA g : g - 1), {})

\* The policies do not change: compliance bundles all need generation 1.
FixedBase == Sent({}, Independent({1}), OnFirstBase(1 .. 2), {})

Symmetry == Permutations(LeafHubs) \cup Permutations(Workers) \cup Permutations(MetadataRefs)
=============================================================================

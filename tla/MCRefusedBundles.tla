-------------------------- MODULE MCRefusedBundles --------------------------
(***************************************************************************)
(* DispatchPipeline when the database refuses the bundles of some type of  *)
(* some leaf hub forever, so that they are handled again and again, at     *)
(* once and before all bundles of lower priority.  All others succeed at   *)
(* some time if they are tried again and again.                            *)
(***************************************************************************)
EXTENDS MCDispatchPipeline

CONSTANTS hub1, hub2

Refused == {<<hub1, ComplianceStatus>>}

RefusingNext ==
    /\ Next
    /\ \A w \in Workers :
           worker[w] = "select" /\ worker'[w] = "succeeded" =>
               <<job[w].leafHub, job[w].priority>> \notin Refused

RefusingSpec == Init /\ [][RefusingNext]_vars /\ Fairness(Refused)

\* A bundle whose dependency is satisfied is processed, or a newer one is, in spite
\* of failures.  A bundle that the database refuses holds back only what its own
\* leaf hub sends with a lower priority: bundles of other leaf hubs, which wait for
\* the same workers, and bundles of a higher priority are processed.
RefusalStaysInItsUnit ==
    \A lh \in LeafHubs, p \in Priorities :
        (\A q \in Priorities : <<lh, q>> \in Refused => p < q) =>
            \A b \in bundles[p] :
                (priorityQueue[lh][p].bundle = b /\ CheckDependency(priorityQueue[lh], p))
                    ~> priorityQueue[lh][p].lastProcessedBundleGeneration >= b.generation
=============================================================================

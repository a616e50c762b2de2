------------------------------ MODULE MCBridge ------------------------------
(***************************************************************************)
(* Bridge with the registrations of the policies db syncer.                *)
(***************************************************************************)
EXTENDS Bridge

CONSTANTS ClustersPerPolicy, ComplianceStatus

MCDependency ==
    [p \in Priorities |-> IF p = ComplianceStatus THEN ClustersPerPolicy ELSE Nil]

\* Two bundles on which another depends, one of the others.
TwoBases == [p \in Priorities |-> IF p = ClustersPerPolicy THEN 2 ELSE 1]
=============================================================================

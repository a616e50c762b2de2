\* The unit GetNext failed for is never announced to the dispatcher again.
CONSTANTS
    Nil = Nil
    LeafHubs = {hub1}
    Workers = {w1}
    MetadataRefs = {m1, m2}
    Priorities = {1, 2}
    dependency <- MCDependency
    DependantTypes <- MCDependantTypes
    bundles <- MovingBase
SPECIFICATION Spec
INVARIANT DispatcherKnowsReadyUnits

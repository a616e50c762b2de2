\* Two leaf hubs wait for one worker.  The base never moves under a waiting dispatcher.
CONSTANTS
    Nil = Nil
    hub1 = hub1
    hub2 = hub2
    LeafHubs = {hub1, hub2}
    Workers = {w1}
    MetadataRefs = {m1, m2}
    Priorities = {1, 2}
    dependency <- MCDependency
    DependantTypes <- MCDependantTypes
    bundles <- FixedBase
SPECIFICATION RefusingSpec
INVARIANTS
    GetNextFindsBundle
    DispatcherKnowsReadyUnits
PROPERTIES
    AcquireReturns
    RefusalStaysInItsUnit

\* Two leaf hubs share two workers; bases move, so units may become unready.
CONSTANTS
    Nil = Nil
    LeafHubs = {hub1, hub2}
    Workers = {w1, w2}
    MetadataRefs = {m1, m2}
    Priorities = {1, 2}
    dependency <- MCDependency
    DependantTypes <- MCDependantTypes
    bundles <- MovingBase
SYMMETRY Symmetry
SPECIFICATION Spec
INVARIANTS
    Inv
    OneJobPerLeafHub
    HandledBundleIsNewer
    DependencyHandledFirst
    NewestBundleSurvives
    ProcessedIsStored
    JobMetadataMatchesBundle
    DispatcherSleepsOnlyIfIdle
PROPERTIES
    StoredNeverRegresses
    KeepsSerialDelivery

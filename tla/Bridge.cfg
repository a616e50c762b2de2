\* Crashes, restarts and a Config resource that appears, with bundles that depend on another.
CONSTANTS
    Nil = Nil
    Replicas = {r1}
    LeafHubs = {hub1}
    MetadataRefs = {}
    ClustersPerPolicy = 1
    ComplianceStatus = 2
    Priorities = {1, 2}
    DependantTypes = {2}
    dependency <- MCDependency
    FullTypes = {1, 2}
    MinimalTypes = {}
    Full = full
    Minimal = minimal
    InitialLevels = {Nil}
    MaxGeneration <- TwoBases
    MaxStops = 1
    MaxLevelChanges = 1
SPECIFICATION BRFairSpec
INVARIANTS
    BRTypeOK
    NothingIsForgotten
PROPERTIES
    DatabaseNeverRegresses
    EventuallyInSync

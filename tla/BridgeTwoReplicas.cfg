\* A second replica waits for the lease.
CONSTANTS
    Nil = Nil
    Replicas = {r1, r2}
    LeafHubs = {hub1}
    MetadataRefs = {}
    ClustersPerPolicy = 1
    ComplianceStatus = 2
    Priorities = {1}
    DependantTypes = {}
    dependency <- MCDependency
    FullTypes = {1}
    MinimalTypes = {}
    Full = full
    Minimal = minimal
    InitialLevels = {full}
    MaxGeneration <- TwoBases
    MaxStops = 1
    MaxLevelChanges = 0
SPECIFICATION BRSpec
PROPERTY DatabaseNeverRegresses

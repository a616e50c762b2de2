\* Every SELECT that does not return an error returned all rows.
CONSTANTS
    Nil = Nil
    LeafHubs = {hub1}
    MetadataRefs = {}
    ManagedClusters = 0
    Priorities = {0}
    DependantTypes = {}
    dependency <- MCDependency
    bundles <- MCBundles
    Clusters = {c1, c2}
    ResourceVersions = {v1, v2}
    Resources <- ManagedClusterLists
    InitialTables <- MCInitialTables
    QueriesMayFail = FALSE
SPECIFICATION MCSpec
CHECK_DEADLOCK FALSE
INVARIANTS
    MCTypeOK
    TableMatchesBundle
    OneRowPerManagedCluster
PROPERTY LivingClustersStay

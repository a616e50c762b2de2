\* From some time on nothing fails.  Every SELECT that does not return an error returned all rows.
CONSTANTS
    Nil = Nil
    LeafHubs = {hub1}
    MetadataRefs = {}
    ClustersPerPolicy = 1
    ComplianceStatus = 2
    Priorities = {1, 2}
    DependantTypes = {2}
    dependency <- MCDependency
    bundles <- MCBundles
    pol1 = pol1
    pol2 = pol2
    c1 = c1
    c2 = c2
    Policies = {pol1, pol2}
    Clusters = {c1, c2}
    Compliant = compliant
    NonCompliant = non_compliant
    Unknown = unknown
    Placements <- MCPlacements
    Reports <- MCReports
    InitialTables <- MCInitialTables
    QueriesMayFail = FALSE
SPECIFICATION PSFairSpec
INVARIANTS
    PSTypeOK
    RowsMatchPlacement
    TableIsLeafHubStatus
    OneRowPerCluster
PROPERTIES
    HandlersKeepToTheirRows
    TableCatchesUp
CHECK_DEADLOCK FALSE

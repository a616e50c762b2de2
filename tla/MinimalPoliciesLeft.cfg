\* The table has the column that rows are written by, and not the one they are listed by.
CONSTANTS
    Nil = Nil
    LeafHubs = {hub1}
    MetadataRefs = {}
    MinimalComplianceStatus = 3
    Priorities = {3}
    DependantTypes = {}
    dependency <- MCDependency
    bundles <- MCBundles
    Policies = {pol1, pol2}
    Counts = {n1, n2}
    PolicyCounts <- PolicyCountLists
    InitialTables <- MCInitialTables
    ColumnChoices <- OnlyID
    QueriesMayFail = FALSE
SPECIFICATION MNSpec
CHECK_DEADLOCK FALSE
INVARIANT AggregatedTableMatchesBundle

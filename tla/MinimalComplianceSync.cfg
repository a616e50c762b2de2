\* Tables with the column id, with policy_id, and with both; queries report their errors.
CONSTANTS
    Nil = Nil
    LeafHubs = {hub1}
    MetadataRefs = {}
    MinimalComplianceStatus = 3
    Priorities = {3}
    DependantTypes = {}
    dependency <- MCDependency
    bundles <- MCBundles
    Policies = {pol1, pol2}
    Counts = {n1, n2}
    PolicyCounts <- PolicyCountLists
    InitialTables <- MCInitialTables
    ColumnChoices <- AllColumnChoices
    QueriesMayFail = FALSE
SPECIFICATION MNFairSpec
CHECK_DEADLOCK FALSE
INVARIANTS
    MNTypeOK
    SentCountsAreInTable
    OneRowPerPolicy
PROPERTIES
    SentPoliciesStay
    SentCountsCatchUp

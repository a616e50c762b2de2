CONSTANTS
    LeafHub = hub1
    OtherLeafHub = hub2
    Policies = {pol1, pol2}
    Clusters = {c1, c2}
    Compliant = compliant
    Compliance = {compliant, unknown}
    ErrorNone = none
    Limits = {2, 5, 10}
    InitialTables <- MCInitialTables
SPECIFICATION BBSpec
CHECK_DEADLOCK FALSE
INVARIANTS
    BatchDoesWhatWasAsked
    PlaceholdersMatchArgs
    StatementsAreCut

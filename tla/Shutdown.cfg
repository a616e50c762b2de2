\* The process really stops: there is no next step then.
CONSTANTS
    LeafHubs = {hub1, hub2}
    Workers = {w1, w2}
    Nil = Nil
SPECIFICATION SHFairSpec
CHECK_DEADLOCK FALSE
INVARIANTS
    SHTypeOK
    OnlyPanicsCutQueries
PROPERTIES
    StopEnds

\* One worker: the one that panics is the one that had the job.
CONSTANTS
    LeafHubs = {hub1}
    Workers = {w1}
    Nil = Nil
SPECIFICATION SHSpec
CHECK_DEADLOCK FALSE
INVARIANT StopIsHeeded

\* Dispatch thread only, well-behaved dumpstate (one file per run), booted.
CONSTANTS
    k1 = k1
    k2 = k2
    k3 = k3
    w1 = w1
    NoKey = NoKey
    Main = Main
    Keys <- TwoKeys
    Workers = {}
    N <- RingSize
    DumpOutputs = {1}
    WatchMayFail = TRUE
    BootedAtStart = TRUE
    NotifyMayFail = FALSE
    DirMayFail = FALSE
SPECIFICATION Spec
INVARIANT AnnounceMatchesCompletedDump
PROPERTY QueueRefinement
PROPERTY EveryRegisteredAnnounced
CHECK_DEADLOCK FALSE

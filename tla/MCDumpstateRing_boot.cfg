\* Dispatch thread only, one file per dump, two keys, boot not yet complete.
CONSTANTS
    k1 = k1
    k2 = k2
    k3 = k3
    w1 = w1
    NoKey = NoKey
    Main = Main
    N <- RingSize
    WatchMayFail = FALSE
    Keys <- TwoKeys
    Workers = {}
    DumpOutputs = {1}
    BootedAtStart = FALSE
    NotifyMayFail = FALSE
    DirMayFail = FALSE
SPECIFICATION Spec
INVARIANT AnnounceMatchesCompletedDump
CHECK_DEADLOCK FALSE

\* Dispatch thread and one dump_bt_all worker, one file per dump, two keys, booted.
CONSTANTS
    k1 = k1
    k2 = k2
    k3 = k3
    w1 = w1
    NoKey = NoKey
    Main = Main
    N <- RingSize
    WatchMayFail = FALSE
    Keys <- TwoKeys
    Workers <- OneWorker
    DumpOutputs = {1}
    BootedAtStart = TRUE
    NotifyMayFail = FALSE
    DirMayFail = FALSE
SPECIFICATION Spec
INVARIANT AnnounceMatchesCompletedDump
CHECK_DEADLOCK FALSE

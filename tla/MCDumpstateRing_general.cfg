\* Dispatch thread and one dump_bt_all worker, three keys, a dumpstate that may close 0, 1 or 2 files, boot not yet complete.
CONSTANTS
    k1 = k1
    k2 = k2
    k3 = k3
    w1 = w1
    NoKey = NoKey
    Main = Main
    Keys <- ThreeKeys
    Workers <- OneWorker
    N <- RingSize
    DumpOutputs = {0, 1, 2}
    WatchMayFail = TRUE
    BootedAtStart = FALSE
    NotifyMayFail = TRUE
    DirMayFail = TRUE
SPECIFICATION Spec
INVARIANT TypeOK
INVARIANT NoDoubleAnnounce
CHECK_DEADLOCK FALSE

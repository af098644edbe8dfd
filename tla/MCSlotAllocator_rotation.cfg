\* Crash, crash_nosd and kdump modes, sdcard switching, three slots, six keys,
\* quota/I/O/mkdir failures and restarts; removals of old slots succeed.
CONSTANTS
    Modes <- SharedCounterModes
    IndexOnlyModes <- KdumpIndexOnly
    MaxFiles <- ThreeSlots
    MaxReservations <- SixKeys
    SdCard = TRUE
    RmfrMayFail = TRUE
SPECIFICATION Spec
INVARIANT TypeOK
PROPERTY RetentionWindow
\* The daemon waits for events once the bound on keys is reached.
CHECK_DEADLOCK FALSE

\* ECC reporting across deaths of the daemon and failing reads and writes.
CONSTANTS
    ce = ce
    ue = ue
    Counts <- TwoCounts
    MaxErrors = 2
    MaxCrashes = 2
    IoMayFail = TRUE
    StartPaths = {"restore", "fatal"}
SPECIFICATION Spec
INVARIANT NoHiddenError
PROPERTY EveryErrorReported
\* Once every counter is at MaxErrors and the deaths are spent, the daemon
\* only polls and finds nothing new: stuttering, not a stop.
CHECK_DEADLOCK FALSE

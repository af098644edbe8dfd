\* statfs or the nftw size walk may fail; the quota property is 50.
CONSTANTS
    FullSizes <- Fulls
    FreeSizes <- Frees
    UsedSizes <- Useds
    Reqs <- ReqPercents
    PropValues <- HalfQuota
    IoMayFail = TRUE
SPECIFICATION Spec
INVARIANT AgreesWithSpec
\* One call: the model stops once it has returned.
CHECK_DEADLOCK FALSE

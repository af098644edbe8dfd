\* One call with start_index 0 or 1 (BPLOG_TYPE_OLD) over every combination
\* of present, missing and empty files, copies that fail or stop short on a
\* present file, while the log rotator rotates the files up to twice.
CONSTANTS
    Depth <- ThreeBackups
    Sizes <- SmallSizes
    Budget <- FiveBytes
    StartIndexes = {0, 1}
    MaxRotations = 2
    IoMayFail = TRUE
SPECIFICATION Spec
INVARIANT BudgetRespected
INVARIANT CopiesUpToFirstGap
\* One call: the model stops once it has returned.
CHECK_DEADLOCK FALSE

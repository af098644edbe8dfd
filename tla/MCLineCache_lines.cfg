\* Both cache modes over every small file, maxrecords and offset, and every
\* search over every small file and keyword list.
CONSTANTS
    MaxLine <- FourBytes
    Files <- SmallFiles
    MaxRecords = {0, 1, 2, 3}
    Offsets = {0, 1, 2}
    Keywords <- SmallKeywords
    KeywordLists <- KeywordLists0to2
SPECIFICATION Spec
INVARIANT TailIsLastLines
INVARIANT StartIsFirstLines
INVARIANT SearchesFindLines
\* One call: the model stops once it has returned.
CHECK_DEADLOCK FALSE

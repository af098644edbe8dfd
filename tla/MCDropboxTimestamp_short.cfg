\* Names whose millisecond timestamp is shorter than TIMESTAMP_MAX_SIZE + 3
\* digits (scaled to 2 + 3), with or without a tag, .txt or .txt.gz.
CONSTANTS
    MaxSize <- TwoDigits
    Tags <- SomeTags
    Bodies <- ShortBodies
    Exts <- TxtExts
SPECIFICATION Spec
INVARIANT AgreesWithSpec
CHECK_DEADLOCK FALSE

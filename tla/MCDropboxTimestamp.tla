------------------------- MODULE MCDropboxTimestamp -------------------------
EXTENDS DropboxTimestamp

\* TIMESTAMP_MAX_SIZE scaled from 10 to 2 digits.
TwoDigits == 2

\* A DropBoxManager tag, or none.
SomeTags == {<<>>, <<Other>>}

\* Shorter millisecond timestamps: a clock reset to near the epoch.
ShortBodies == [1 .. 4 -> Digits]

\* ".txt" and ".txt.gz".
TxtExts == {<<Dot, Other>>, <<Dot, Other, Dot, Other>>}
=============================================================================

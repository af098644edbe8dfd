\* Renames, moves in and out and new files over four names and four
\* cookies; the MOVED_TO half of a rename may reach the queue after other
\* events (two renames in flight at once).
CONSTANTS
    n1 = n1
    n2 = n2
    n3 = n3
    n4 = n4
    NoName = NoName
    Names <- FourNames
    MaxCookie <- FourCookies
    PairsMayInterleave = TRUE
SPECIFICATION Spec
INVARIANT TypeOK
INVARIANT NoFalseCrash
INVARIANT NothingLostWhenDrained
INVARIANT InfoOnlyForRenames
\* The daemon waits for events once names and cookies are used up.
CHECK_DEADLOCK FALSE

--------------------------- MODULE DropboxTimestamp ---------------------------
(***************************************************************************)
(* extract_dropbox_timestamp(filename) of src/crashlog/dropbox.c, as an    *)
(* operator over file names, checked against the rule of spec 4.4 and 8:   *)
(* the digits between '@' and the next '.', without their last three       *)
(* (the milliseconds); -1 when there is no such all-digit body.            *)
(*                                                                         *)
(* A name is a sequence of symbols: the digits 0 and 1, one other          *)
(* character, '.' and '@'. TIMESTAMP_MAX_SIZE is the constant MaxSize,     *)
(* scaled down from the 10 digits of a 'long' time; the millisecond tail   *)
(* keeps its 3 characters. The LONG_MAX test is left out: no name of       *)
(* MaxSize digits exceeds it on the 64-bit builds.                         *)
(***************************************************************************)
EXTENDS Integers, Sequences, SequencesExt

CONSTANTS
    MaxSize,   \* TIMESTAMP_MAX_SIZE
    Tags,      \* what comes before the '@' (the DropBoxManager tag)
    Bodies,    \* what comes between the '@' and the suffix
    Exts   \* the suffix, from its '.' on

Other == 10
Dot == 11
At == 12
Digits == {0, 1}
MsDigits == 3

VARIABLES
    name,     \* the file name handed to the call
    called,   \* whether the call has returned
    result    \* its return value

vars == <<name, called, result>>

\* Index of the first occurrence of c in s at or after position i, 0 if none
\* (strchr).
FindFrom(s, i, c) ==
    LET hits == {j \in i .. Len(s) : s[j] = c}
    IN IF hits = {} THEN 0 ELSE CHOOSE j \in hits : \A k \in hits : j <= k

\* The length of the run of digits s starts with.
DigitRun(s) ==
    CHOOSE k \in 0 .. Len(s) :
        /\ \A j \in 1 .. k : s[j] \in Digits
        /\ (k = Len(s) \/ s[k + 1] \notin Digits)

\* The value of a sequence of digits.
Decimal(ds) == FoldLeft(LAMBDA acc, d : acc * 10 + d, 0, ds)

\* atol: the value of the leading digits of s (0 when there are none).
Atol(s) == Decimal(SubSeq(s, 1, DigitRun(s)))

\* The code: size is the length between '@' and '.' minus 3; when
\* 0 < size <= TIMESTAMP_MAX_SIZE, TIMESTAMP_MAX_SIZE characters from the
\* '@' on are copied, their first size characters must be digits, and atol
\* of the copy is returned.
Extract(s) ==
    LET start == FindFrom(s, 1, At)
        stop  == IF start = 0 THEN 0 ELSE FindFrom(s, start + 1, Dot)
        size  == stop - start - 1 - MsDigits
        buf   == SubSeq(s, start + 1, Min({start + MaxSize, Len(s)}))
    IN IF start = 0 \/ stop = 0 \/ ~(size <= MaxSize /\ size > 0) THEN -1
       ELSE IF \E j \in 1 .. size : buf[j] \notin Digits THEN -1
       ELSE Atol(buf)

Init ==
    /\ name \in {t \o <<At>> \o b \o x : t \in Tags, b \in Bodies, x \in Exts}
    /\ called = FALSE
    /\ result = 0

Call ==
    /\ ~called
    /\ called' = TRUE
    /\ result' = Extract(name)
    /\ UNCHANGED name

Spec == Init /\ [][Call]_vars

-----------------------------------------------------------------------------
(* The rule of spec 4.4 and 8                                              *)

\* The characters between the first '@' and the next '.', when both exist.
HasBody(s) == FindFrom(s, 1, At) /= 0 /\ FindFrom(s, FindFrom(s, 1, At) + 1, Dot) /= 0

Body(s) == SubSeq(s, FindFrom(s, 1, At) + 1, FindFrom(s, FindFrom(s, 1, At) + 1, Dot) - 1)

\* The body's digits without the 3 millisecond digits; -1 when the body is
\* missing, holds anything but digits, or is no longer than the tail.
SpecTimestamp(s) ==
    IF HasBody(s) /\ Len(Body(s)) > MsDigits /\ \A j \in DOMAIN Body(s) : Body(s)[j] \in Digits
      THEN Decimal(SubSeq(Body(s), 1, Len(Body(s)) - MsDigits))
      ELSE -1

\* extract_dropbox_timestamp returns the seconds of the name's millisecond
\* timestamp, and -1 (not a garbage value) when the name has no numeric
\* timestamp.
AgreesWithSpec == called => result = SpecTimestamp(name)
=============================================================================

------------------------------ MODULE QuotaGuard ------------------------------
(***************************************************************************)
(* check_free_space_available(path, req) of src/crashlog/fsutils.c, with   *)
(* get_path_size, as an operator over the values it reads: the statfs      *)
(* result, the PROP_DATA_QUOTA property (already through strtol), the      *)
(* outcome of the nftw walk and the size it sums. One call is a step, so   *)
(* TLC checks the operator against the decision of spec 4.1 for every      *)
(* combination of the inputs.                                              *)
(***************************************************************************)
EXTENDS Integers

CONSTANTS
    FullSizes,   \* st.f_blocks * st.f_bsize
    FreeSizes,   \* st.f_bavail * st.f_bsize
    UsedSizes,   \* what nftw sums under path when the walk succeeds
    Reqs,        \* req: LOGSDIR_/SDCARD_MINIMUM_FREESPACE_PERCENT
    PropValues,  \* strtol(PROP_DATA_QUOTA)
    IoMayFail    \* whether statfs and nftw may fail

ASSUME Reqs \subseteq 0 .. 100

Input == [full : FullSizes, free : FreeSizes, used : UsedSizes, req : Reqs,
          prop : PropValues, statfsOk : BOOLEAN, walkOk : BOOLEAN]

\* The states a call can start from: statfs and nftw succeed unless IoMayFail.
Inputs == {i \in Input : i.free <= i.full /\ (~IoMayFail => i.statfsOk /\ i.walkOk)}

VARIABLES
    in,       \* the values the call reads
    called,   \* whether the call has returned
    verdict   \* its return value

vars == <<in, called, verdict>>

\* available_portion: strtol's value, with anything above 100 or below 0
\* replaced by 100.
AvailablePortion(p) == IF p > 100 \/ p < 0 THEN 100 ELSE p

\* get_path_size: 0 when nftw fails, the summed size otherwise.
GetPathSize(i) == IF i.walkOk THEN i.used ELSE 0

\* Seeded variant: the quota limit compared with ">".
CheckFreeSpaceStrict(i) ==
    LET portion  == AvailablePortion(i.prop)
        minFree  == (i.full * i.req) \div 100
        stop     == (i.full * portion * (100 - i.req)) \div 10000
    IN CASE ~i.statfsOk -> 0
         [] portion = 0 -> -1
         [] GetPathSize(i) > stop \/ i.free < minFree -> -1
         [] OTHER -> 0

\* The return value: 0 when statfs fails, -1 when no space is reserved,
\* -1 when the quota or the free-space floor is reached, 0 otherwise.
CheckFreeSpace(i) ==
    LET portion  == AvailablePortion(i.prop)
        minFree  == (i.full * i.req) \div 100
        stop     == (i.full * portion * (100 - i.req)) \div 10000
    IN CASE ~i.statfsOk -> 0
         [] portion = 0 -> -1
         [] GetPathSize(i) >= stop \/ i.free < minFree -> -1
         [] OTHER -> 0

Init ==
    /\ in \in Inputs
    /\ called = FALSE
    /\ verdict = 0

Check ==
    /\ ~called
    /\ called' = TRUE
    /\ verdict' = CheckFreeSpace(in)
    /\ UNCHANGED in

Spec == Init /\ [][Check]_vars

-----------------------------------------------------------------------------
(* The decision of spec 4.1                                                *)

\* reserved_percent clamped to [0, 100].
Clamp(p) == IF p < 0 THEN 0 ELSE IF p > 100 THEN 100 ELSE p

\* has_space: denied when a stat fails, when reserved_percent is 0, or when
\* used >= total * reserved * (100 - required) / 10000 or
\* free < total * required / 100; granted otherwise.
HasSpace(i) ==
    /\ i.statfsOk /\ i.walkOk
    /\ Clamp(i.prop) /= 0
    /\ i.used < (i.full * Clamp(i.prop) * (100 - i.req)) \div 10000
    /\ i.free >= (i.full * i.req) \div 100

\* check_free_space_available grants the reservation (returns 0) exactly
\* when spec 4.1 says there is space, including when statfs or the size walk
\* fails (fail closed) and when the quota property is out of range.
AgreesWithSpec == called => ((verdict = 0) <=> HasSpace(in))
=============================================================================

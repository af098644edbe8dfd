------------------------------ MODULE EccMonitor ------------------------------
(***************************************************************************)
(* The ECC error monitor of src/crashlog/intel_specific/intel_ecc_handler.c *)
(*                                                                         *)
(* Each dimm_ce_count / dimm_ue_count file found by get_ecc_path is a      *)
(* counter the memory controller increments. The daemon keeps the last     *)
(* count it acted on (data.count), raises an ECC event when a poll reads a *)
(* larger count (ecc_count_handle) and saves the counts into               *)
(* ecc_count_backup (set_backup_count). When the daemon starts again,      *)
(* init_ecc_handler rereads the counters and restore_count raises an event *)
(* for every counter larger than its saved count, so that errors counted   *)
(* while the daemon was down are reported.                                 *)
(*                                                                         *)
(* The daemon may die at any step; reading a counter and opening the      *)
(* backup file may fail when IoMayFail holds. Paths and the parse of the   *)
(* backup file are abstracted to one saved count per counter file; the     *)
(* event's directory, dmesg and copies are left out. The counters only     *)
(* grow: a reboot, which resets them, is not modelled.                     *)
(***************************************************************************)
EXTENDS Integers, FiniteSets

CONSTANTS
    Counts,      \* the counter files of the list, model values
    MaxErrors,   \* bound on each counter
    MaxCrashes,  \* bound on the daemon's deaths
    IoMayFail,   \* whether reading a counter or opening the backup may fail
    StartPaths   \* the start-up checks the daemon may run: "restore"
                 \* (restore_count) and "fatal" (fatal_ecc_err_check)

ASSUME MaxErrors \in Nat /\ MaxCrashes \in Nat /\ IoMayFail \in BOOLEAN
ASSUME StartPaths \subseteq {"restore", "fatal"} /\ StartPaths /= {}

NoLine == -1   \* no usable "path:count" line for a counter

VARIABLES
    sysfs,     \* the value of each counter file
    up,        \* whether the daemon runs
    pc,        \* "down", "idle" or "write" (set_backup_count pending)
    mem,       \* data.count of each list entry
    exists,    \* whether ecc_count_backup exists
    backup,    \* the count ecc_count_backup holds for each counter
    stream,    \* the lines the pending set_backup_count will write
    reported,  \* ghost: the count each counter had at its last ECC event
    crashes    \* ghost: deaths so far

vars == <<sysfs, up, pc, mem, exists, backup, stream, reported, crashes>>

Counter == 0 .. MaxErrors

Init ==
    /\ sysfs \in [Counts -> Counter]
    /\ up = FALSE
    /\ pc = "down"
    /\ mem = [c \in Counts |-> NoLine]
    /\ exists = FALSE
    /\ backup = [c \in Counts |-> NoLine]
    /\ stream = [c \in Counts |-> NoLine]
    /\ reported = [c \in Counts |-> 0]
    /\ crashes = 0

\* check_ecc_error: the counter's value, or -1 when the file cannot be read.
Reads == [Counts -> Counter \cup {-1}]
ReadOk(read) == \A c \in Counts : read[c] = sysfs[c] \/ (IoMayFail /\ read[c] = -1)

\* ecc_event_handle raises the event and copies the counter file into it.
Raise(S) == reported' = [c \in Counts |-> IF c \in S THEN sysfs[c] ELSE reported[c]]

\* get_backup_count: -1 when the file cannot be opened, 0 when it has no
\* usable line for the counter, the saved count otherwise.
BackupCount(ex, bk, c) == IF ~ex THEN -1 ELSE IF bk[c] = NoLine THEN 0 ELSE bk[c]

-----------------------------------------------------------------------------
(* Start: init_ecc_handler, then restore_count or fatal_ecc_err_check      *)
(* (which calls init_ecc_handler itself). Which one runs is decided by the *)
(* daemon's start-up, outside this file; any of StartPaths may.            *)

\* init_ecc_handler creates an empty ecc_count_backup when there is none
\* (fopen may fail); get_ecc_path builds the list of counter files and
\* reads each one into data.count with check_ecc_error.
InitEccHandler(read, made) ==
    /\ ReadOk(read)
    /\ exists \/ made \/ IoMayFail
    /\ mem' = read
    /\ exists' = (exists \/ made)
    /\ backup' = IF exists THEN backup ELSE [c \in Counts |-> NoLine]

\* restore_count: an event for each counter whose saved count is below
\* data.count; the file is rewritten with the data.count of every counter
\* that has errors or a saved count.
RestoreCount ==
    LET saved == [c \in Counts |-> BackupCount(exists', backup', c)]
        keep  == {c \in Counts : mem'[c] > 0 \/ saved[c] > 0}
    IN /\ Raise({c \in keep : saved[c] < mem'[c]})
       /\ stream' = [c \in Counts |-> IF c \in keep THEN mem'[c] ELSE NoLine]
       /\ pc' = IF keep = {} THEN "idle" ELSE "write"

\* fatal_ecc_err_check: an event for each counter with errors above its
\* saved count, then run_command of "/vendor/bin/rm" with the backup path
\* appended without a space: no such program, so the file stays.
FatalCheck ==
    LET saved == [c \in Counts |-> BackupCount(exists', backup', c)]
    IN /\ Raise({c \in Counts : mem'[c] > 0 /\ saved[c] < mem'[c]})
       /\ UNCHANGED stream
       /\ pc' = "idle"

\* Seeded variant: init_ecc_handler without restore_count.
StartNoRestore ==
    /\ pc = "down"
    /\ \E read \in Reads, made \in BOOLEAN : InitEccHandler(read, made)
    /\ up' = TRUE
    /\ pc' = "idle"
    /\ UNCHANGED <<sysfs, stream, reported, crashes>>

Start ==
    /\ pc = "down"
    /\ \E read \in Reads, made \in BOOLEAN :
         /\ InitEccHandler(read, made)
         /\ \/ "restore" \in StartPaths /\ RestoreCount
            \/ "fatal" \in StartPaths /\ FatalCheck
    /\ up' = TRUE
    /\ UNCHANGED <<sysfs, crashes>>

-----------------------------------------------------------------------------
(* ecc_count_handle and set_backup_count                                   *)

\* One pass over the list: every counter read above its data.count raises
\* an event and becomes the new data.count; if any did (update), the counts
\* read above 0 are to be saved. A pass that raises nothing changes no
\* state: it is a stuttering step.
Poll(read) ==
    /\ pc = "idle"
    /\ ReadOk(read)
    /\ LET raised == {c \in Counts : read[c] > 0 /\ read[c] > mem[c]}
       IN /\ raised /= {}
          /\ mem' = [c \in Counts |-> IF c \in raised THEN read[c] ELSE mem[c]]
          /\ Raise(raised)
          /\ stream' = [c \in Counts |-> IF read[c] > 0 THEN read[c] ELSE NoLine]
          /\ pc' = "write"
    /\ UNCHANGED <<sysfs, up, exists, backup, crashes>>

\* set_backup_count: fopen("w") and fwrite of all the lines, or nothing
\* when the file cannot be opened.
WriteBackup ==
    /\ pc = "write"
    /\ \/ /\ exists' = TRUE
          /\ backup' = stream
       \/ /\ IoMayFail
          /\ UNCHANGED <<exists, backup>>
    /\ stream' = [c \in Counts |-> NoLine]
    /\ pc' = "idle"
    /\ UNCHANGED <<sysfs, up, mem, reported, crashes>>

-----------------------------------------------------------------------------
(* Environment: the memory controller and the daemon's death.              *)

HwError(c) ==
    /\ sysfs[c] < MaxErrors
    /\ sysfs' = [sysfs EXCEPT ![c] = @ + 1]
    /\ UNCHANGED <<up, pc, mem, exists, backup, stream, reported, crashes>>

\* The daemon dies; if set_backup_count had truncated the file, it is left
\* empty.
Crash ==
    /\ up
    /\ crashes < MaxCrashes
    /\ up' = FALSE
    /\ pc' = "down"
    /\ mem' = [c \in Counts |-> NoLine]
    /\ stream' = [c \in Counts |-> NoLine]
    /\ backup' \in {backup} \cup (IF pc = "write" THEN {[c \in Counts |-> NoLine]} ELSE {})
    /\ crashes' = crashes + 1
    /\ UNCHANGED <<sysfs, exists, reported>>

Next ==
    \/ Start
    \/ \E read \in Reads : Poll(read)
    \/ WriteBackup
    \/ \E c \in Counts : HwError(c)
    \/ Crash

\* The main loop keeps calling ecc_count_handle, and a poll whose reads
\* succeed eventually happens; init restarts the daemon after a death.
Fairness ==
    /\ WF_vars(Start)
    /\ WF_vars(Poll(sysfs))
    /\ WF_vars(WriteBackup)

Spec == Init /\ [][Next]_vars /\ Fairness

-----------------------------------------------------------------------------
(* Properties                                                              *)

\* While the daemon runs, data.count never exceeds the count of the last
\* ECC event of its counter: errors counted while the daemon was down, or
\* while an event had been raised and its backup not yet written, are
\* never taken as already reported, whatever the deaths and I/O failures.
NoHiddenError == up => \A c \in Counts : mem[c] <= reported[c]

\* Every error the memory controller counts is eventually reported by an
\* ECC event carrying a count at least as large.
EveryErrorReported ==
    \A c \in Counts : \A n \in 1 .. MaxErrors :
        sysfs[c] >= n ~> reported[c] >= n
=============================================================================

------------------------------ MODULE UserCrash ------------------------------
(***************************************************************************)
(* The user-crash handlers of src/crashlog/usercrash.c:                    *)
(* process_usercrash_event and process_hprof_event (both end in            *)
(* priv_process_usercrash_event) and process_apcore_event with             *)
(* backup_apcoredump.                                                      *)
(*                                                                         *)
(* One behaviour is one call of a handler for one file of a watched        *)
(* directory. Its inputs are chosen in Init: the watch's event type, the   *)
(* file's name, PROP_COREDUMP, the result of manage_duplicate_dropbox_     *)
(* events (Dedup models it), whether priv_filter_crashevent finds the fake *)
(* tombstone keyword and tail (find_str_in_file, modelled in LineCache's   *)
(* reader), whether the file exists and whether it is larger than          *)
(* MAXFILESIZE. generate_crashlog_dir (SlotAllocator), the copies and the  *)
(* fopen of the data file succeed or fail in the step.                     *)
(*                                                                         *)
(* A file name is a sequence of tokens: "_", ".", a letter "x", the        *)
(* extension word "core" or "pb", and a run of decimal digits (one token,  *)
(* its value given by Numerals). Keys, paths, the aplog copy              *)
(* (CircularCopier) and dumpstate (DumpstateRing) are left out; the model *)
(* records that they were called.                                          *)
(***************************************************************************)
EXTENDS Integers, Sequences, SequencesExt

CONSTANTS
    Kinds,        \* the watch entries' event types handled here
    ApcoreNames,  \* file names of the apcore watch
    OtherNames,   \* file names of the other watches
    FullReport,   \* FULL_REPORT build: javacrash and tombstones start dumpstate
    Numerals      \* the runs of digits in names, with their decimal values

JavaKinds == {"javacrash", "javacrash2", "javatombstone"}
LogKinds == {"tombstone"} \cup JavaKinds           \* do_log_copy after the copy
DumpKinds == {"tombstone", "javacrash", "javacrash2"}
AllKinds == LogKinds \cup {"hprof", "apcore"}

ASSUME Kinds \subseteq AllKinds /\ FullReport \in BOOLEAN /\ Numerals \in [DOMAIN Numerals -> Nat]

\* do_copy_tail's outcomes: all bytes asked for were sent, sendfile sent
\* fewer (a full partition), or stat, open or sendfile failed (rc < 0).
CopyResults == {"ok", "short", "fail"}
NoData == [none |-> TRUE]
NSIG == 65
\* bionic/linker/debugger.cpp's signals that produce a tombstone:
\* SIGILL, SIGTRAP, SIGABRT, SIGBUS, SIGFPE, SIGSEGV, SIGPIPE, SIGSTKFLT.
TombstoneSignals == {4, 5, 6, 7, 8, 11, 13, 16}

VARIABLES
    kind,       \* entry->eventtype
    name,       \* event->name
    coredump,   \* PROP_COREDUMP starts with '1'
    dup,        \* manage_duplicate_dropbox_events returned non-zero
    fake,       \* priv_filter_crashevent returns FAKE_EVENT_SUFFIX
    big,        \* the file is larger than MAXFILESIZE
    src,        \* the file: "present", "absent" or "removed" (by the call)
    dest,       \* its copy in the crash directory: "none", "tail", "full", "short"
    logcopy,    \* do_log_copy(APLOG_TYPE) was called
    dumpstate,  \* start_dumpstate_srv was called
    signal,     \* apcore: the unsigned char signal
    datafile,   \* apcore: the DATA fields written to apcore_<suffix>, or NoData
    events,     \* the events raised: [level, fake, dir] in order (history)
    pc,         \* "start" or "done"
    ret         \* the handler's return value once pc = "done"

vars == <<kind, name, coredump, dup, fake, big, src, dest, logcopy, dumpstate,
          signal, datafile, events, pc, ret>>

Init ==
    /\ kind \in Kinds
    /\ name \in IF kind = "apcore" THEN ApcoreNames ELSE OtherNames
    /\ coredump \in BOOLEAN
    /\ dup \in IF kind \in JavaKinds THEN BOOLEAN ELSE {FALSE}
    /\ fake \in IF kind = "tombstone" THEN BOOLEAN ELSE {FALSE}
    /\ big \in BOOLEAN
    /\ src \in {"present", "absent"}
    /\ dest = "none" /\ logcopy = FALSE /\ dumpstate = FALSE
    /\ signal = 0 /\ datafile = NoData
    /\ events = <<>> /\ pc = "start" /\ ret = 0

-----------------------------------------------------------------------------
(* String helpers                                                          *)

\* strchr / strrchr: the position of the first / last c, 0 when none.
StrChr(s, c) == SelectInSeq(s, LAMBDA x : x = c)
StrRChr(s, c) == SelectLastInSeq(s, LAMBDA x : x = c)
\* The characters after position i.
After(s, i) == SubSeq(s, i + 1, Len(s))
\* atoi: the leading run of digits, 0 when there is none.
Atoi(s) == IF s /= <<>> /\ s[1] \in DOMAIN Numerals THEN Numerals[s[1]] ELSE 0
\* strstr(name, ".pb")
IsPb(s) == \E i \in 1 .. Len(s) - 1 : s[i] = "." /\ s[i + 1] = "pb"

-----------------------------------------------------------------------------
(* process_apcore_event's parse of tttttttt_pppp_ss_eeeee.core             *)

NoStr == <<"null">>   \* a NULL char pointer

\* Seeded variant: the extension is cut at the first '.' (strchr).
CommandOfFirstDot(rest) ==
    IF StrChr(rest, ".") = 0 THEN NoStr ELSE SubSeq(rest, 1, StrChr(rest, ".") - 1)

\* command_str: what follows the third '_', cut at its last '.'; NULL
\* ("Bad file name") when it has no '.'.
CommandOf(rest) ==
    IF StrRChr(rest, ".") = 0 THEN NoStr ELSE SubSeq(rest, 1, StrRChr(rest, ".") - 1)

\* pid_str, signal_str and command_str. Each '_' found ends the previous
\* field; a field whose end is not found runs to the end of the name.
Parse(n) ==
    LET p == StrChr(n, "_")
        pidRest == After(n, p)
        s == StrChr(pidRest, "_")
        sigRest == After(pidRest, s)
        c == StrChr(sigRest, "_")
    IN CASE p = 0 -> [pid |-> NoStr, sig |-> NoStr, command |-> NoStr]
         [] s = 0 -> [pid |-> pidRest, sig |-> NoStr, command |-> NoStr]
         [] c = 0 -> [pid |-> SubSeq(pidRest, 1, s - 1), sig |-> sigRest, command |-> NoStr]
         [] OTHER -> [pid |-> SubSeq(pidRest, 1, s - 1), sig |-> SubSeq(sigRest, 1, c - 1),
                      command |-> CommandOf(After(sigRest, c))]

\* Seeded variant: signal kept as an int.
SignalOfInt(f) == IF f.sig = NoStr THEN 0 ELSE Atoi(f.sig)

\* signal = atoi(signal_str), stored in an unsigned char.
SignalOf(f) == IF f.sig = NoStr THEN 0 ELSE Atoi(f.sig) % 256

\* The switch on signal: ERROREVENT for the tombstone signals.
LevelOf(sig) == IF sig \in TombstoneSignals THEN "ERROR" ELSE "CRASH"

\* The fields fprintf'ed to apcore_<suffix>: DATA0, DATA1 (the signal's
\* name when 0 < signal < NSIG, else signal_str) and DATA3.
DataOf(f, sig) ==
    [data0 |-> f.command,
     data1 |-> IF f.sig /= NoStr /\ 0 < sig /\ sig < NSIG
               THEN [named |-> TRUE, num |-> sig, str |-> <<>>]
               ELSE [named |-> FALSE, num |-> 0, str |-> f.sig],
     data3 |-> f.pid]

HasField(f) == f.pid /= NoStr \/ f.sig /= NoStr \/ f.command /= NoStr

-----------------------------------------------------------------------------
(* Copies                                                                  *)

\* do_copy_tail(path, destion, MAXFILESIZE): the last MAXFILESIZE bytes.
TailCopy(r) == CASE r = "ok" -> IF big THEN "tail" ELSE "full"
                 [] r = "short" -> "short"
                 [] r = "fail" -> dest

\* backup_apcoredump: do_copy_tail(path, des, 0) copies the whole core over
\* the tail copy and removes the core unless the copy returned < 0.
BackupApcore(r, d) ==
    /\ dest' = CASE r = "ok" -> "full" [] r = "short" -> "short" [] r = "fail" -> d
    /\ src' = IF r /= "fail" THEN "removed" ELSE src

Raise(level, f, d) == events' = Append(events, [level |-> level, fake |-> f, dir |-> d])

Return(r) == pc' = "done" /\ ret' = r

-----------------------------------------------------------------------------
(* priv_process_usercrash_event, via process_usercrash_event or            *)
(* process_hprof_event                                                     *)

\* process_hprof_event and process_apcore_event: PROP_COREDUMP not '1'.
CoredumpDisabled ==
    /\ pc = "start" /\ kind \in {"hprof", "apcore"} /\ ~coredump
    /\ Return(-1)
    /\ UNCHANGED <<kind, name, coredump, dup, fake, big, src, dest, logcopy,
                   dumpstate, signal, datafile, events>>

\* A java crash the correlator suppressed, or a tombstone's .pb twin.
Ignored ==
    /\ pc = "start"
    /\ \/ kind \in JavaKinds /\ dup
       \/ kind = "tombstone" /\ IsPb(name)
    /\ Return(1)
    /\ UNCHANGED <<kind, name, coredump, dup, fake, big, src, dest, logcopy,
                   dumpstate, signal, datafile, events>>

UsercrashGoes ==
    /\ pc = "start" /\ kind \in LogKinds \cup {"hprof"}
    /\ kind = "hprof" => coredump
    /\ ~(kind \in JavaKinds /\ dup)
    /\ ~(kind = "tombstone" /\ IsPb(name))

\* No crash directory, or the file is gone: an event without directory,
\* named by entry->eventname alone.
UsercrashNoDir ==
    /\ UsercrashGoes
    /\ \E dirOk \in BOOLEAN : ~dirOk \/ src = "absent"
    /\ Raise("CRASH", FALSE, FALSE)
    /\ Return(-1)
    /\ UNCHANGED <<kind, name, coredump, dup, fake, big, src, dest, logcopy,
                   dumpstate, signal, datafile>>

\* The tail copy (result unchecked), the aplog copy or the removal of the
\* hprof file, the event, and dumpstate for tombstones and java crashes of
\* a FULL_REPORT build.
UsercrashEvent ==
    /\ UsercrashGoes /\ src = "present"
    /\ \E r \in CopyResults : dest' = TailCopy(r)
    /\ logcopy' = (kind \in LogKinds)
    /\ src' = IF kind = "hprof" THEN "removed" ELSE src
    /\ Raise("CRASH", fake, TRUE)
    /\ dumpstate' = (FullReport /\ kind \in DumpKinds)
    /\ Return(1)
    /\ UNCHANGED <<kind, name, coredump, dup, fake, big, signal, datafile>>

-----------------------------------------------------------------------------
(* process_apcore_event                                                    *)

\* No crash directory, or the core is gone: an event of the signal's level
\* without directory; result -1.
ApcoreNoDir ==
    /\ pc = "start" /\ kind = "apcore" /\ coredump
    /\ \E dirOk \in BOOLEAN : ~dirOk \/ src = "absent"
    /\ signal' = SignalOf(Parse(name))
    /\ Raise(LevelOf(signal'), FALSE, FALSE)
    /\ Return(-1)
    /\ UNCHANGED <<kind, name, coredump, dup, fake, big, src, dest, logcopy,
                   dumpstate, datafile>>

\* The tail copy, backup_apcoredump, the aplog copy, the data file when a
\* field was parsed and its fopen succeeds, and the event; result 0.
ApcoreEvent ==
    /\ pc = "start" /\ kind = "apcore" /\ coredump /\ src = "present"
    /\ LET f == Parse(name) IN
         /\ signal' = SignalOf(f)
         /\ \E r1, r2 \in CopyResults : BackupApcore(r2, TailCopy(r1))
         /\ \E opened \in BOOLEAN :
              datafile' = IF HasField(f) /\ opened THEN DataOf(f, signal') ELSE NoData
         /\ Raise(LevelOf(signal'), FALSE, TRUE)
    /\ logcopy' = TRUE
    /\ Return(0)
    /\ UNCHANGED <<kind, name, coredump, dup, fake, big, dumpstate>>

Next ==
    \/ CoredumpDisabled \/ Ignored \/ UsercrashNoDir \/ UsercrashEvent
    \/ ApcoreNoDir \/ ApcoreEvent

Spec == Init /\ [][Next]_vars

-----------------------------------------------------------------------------
(* Properties                                                              *)

Str == Seq({"_", ".", "x", "core", "pb", "null"} \cup DOMAIN Numerals)

\* The signal is an unsigned char.
TypeOK ==
    /\ kind \in AllKinds /\ src \in {"present", "absent", "removed"}
    /\ dest \in {"none", "tail", "full", "short"}
    /\ signal \in 0 .. 255
    /\ datafile \in {NoData} \cup [data0 : Str, data1 : [named : BOOLEAN, num : 0 .. NSIG - 1, str : Str], data3 : Str]
    /\ events \in Seq([level : {"CRASH", "ERROR"}, fake : BOOLEAN, dir : BOOLEAN])
    /\ pc \in {"start", "done"} /\ ret \in {-1, 0, 1}

\* The name format the comment of process_apcore_event gives: a timestamp,
\* a pid and a signal number (1 .. NSIG-1), each a run of digits, then the
\* executable and ".core"; the executable may hold '_' and '.'.
WellFormed(n) ==
    /\ Len(n) >= 9
    /\ {n[1], n[3], n[5]} \subseteq DOMAIN Numerals /\ Numerals[n[5]] \in 1 .. NSIG - 1
    /\ n[2] = "_" /\ n[4] = "_" /\ n[6] = "_"
    /\ SubSeq(n, Len(n) - 1, Len(n)) = <<".", "core">>

\* Executable, signal and pid of a well-formed name, read off the format.
Executable(n) == SubSeq(n, 7, Len(n) - 2)

\* For an apcore name of the documented format, process_apcore_event writes
\* DATA0 = the executable, DATA1 = the signal's name and DATA3 = the pid,
\* and raises an ERROR event exactly for the tombstone signals (with or
\* without a crash directory); strchr/strrchr and the unsigned char signal
\* must get every executable name right, those holding '_' or '.' included.
ApcoreFieldsFromName ==
    (kind = "apcore" /\ pc = "done" /\ WellFormed(name)) =>
        /\ events /= <<>> => Last(events).level = LevelOf(Numerals[name[5]])
        /\ datafile /= NoData =>
               datafile = [data0 |-> Executable(name), data1 |-> [named |-> TRUE, num |-> Numerals[name[5]], str |-> <<>>],
                           data3 |-> <<name[3]>>]
=============================================================================

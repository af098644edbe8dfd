----------------------------- MODULE MCHandlers -----------------------------
(***************************************************************************)
(* Model-checking instance of the dispatch thread's file-event handlers:   *)
(* LogTrigger (trigger.c) and UserCrash (usercrash.c), of the command     *)
(* runner they call (RunCommand, utils.c) and of the configuration loading *)
(* at start (ConfigLoader, config_handler.c), and of the factory and     *)
(* mount checks (Partitions, check_partition.c). A behaviour is one       *)
(* handler call, one call of run_command, one start or one daemon life   *)
(* of the checks, while the other modules' variables keep a fixed state.  *)
(***************************************************************************)
EXTENDS LogTrigger, TLC

\* APLOG_FILE_0 and four rotated aplogs: two packets of depth two, with
\* gaps anywhere.
FiveAplogs == 4
\* Depth and packet properties: negative (clamped to 0), 0, 1 and 2.
SmallProps == {-1, 0, 1, 2}
\* APLOG= values: negative (ignored), 0 (enhancement: no aplog) and 2.
SmallTriggerValues == {-1, 0, 2}

\* Apcore names: a prefix of timestamp 1, pid 2 and a signal (SIGHUP 1,
\* SIGSEGV 11, or 267 = 11 + 256) with fewer or more fields, then every
\* tail of up to four characters, and two executables holding '.' or '_'.
Heads == {<<>>, <<"1", "_">>, <<"1", "_", "2", "_">>, <<"1", "_", "2", "_", "1", "_">>,
          <<"1", "_", "2", "_", "11", "_">>, <<"1", "_", "2", "_", "267", "_">>}
SmallNumerals == ("1" :> 1) @@ ("2" :> 2) @@ ("11" :> 11) @@ ("267" :> 267)
Tails == UNION {[1 .. k -> {"x", "_", ".", "core"}] : k \in 0 .. 4}
         \cup {<<"x", ".", "x", ".", "core">>, <<"x", "_", "x", ".", "core">>}
SmallApcoreNames == {h \o t : h \in Heads, t \in Tails}
\* A tombstone and its protobuf twin.
SmallOtherNames == {<<"x">>, <<"x", ".", "pb">>}
AllEventKinds == {"tombstone", "javacrash", "javacrash2", "javatombstone", "hprof", "apcore"}

\* Command lines of up to four characters over a program name "a",
\* another word "b" and a blank, split into at most two arguments; "a" is
\* the only program execvp finds.
SmallCommands == UNION {[1 .. k -> {"a", "b", " "}] : k \in 0 .. 4}
SmallPrograms == {<<"a">>}

VARIABLES rcmd, rtimeout, rargv, rchild, rstatus, rexited, rleft, rpc, rret

rcVars == <<rcmd, rtimeout, rargv, rchild, rstatus, rexited, rleft, rpc, rret>>

RC == INSTANCE RunCommand WITH
        Commands <- SmallCommands, Timeouts <- {0, 1}, MaxArgs <- 2,
        Programs <- SmallPrograms, ExitCodes <- {0, 1},
        cmd <- rcmd, timeout <- rtimeout, argv <- rargv, child <- rchild,
        status <- rstatus, exited <- rexited, left <- rleft, pc <- rpc, ret <- rret

\* Notify sections: a full modem section with pattern "a"; a modem
\* section with the more specific pattern "ab", no path_trigger and no
\* path_linked; one without eventname; one of another module; one
\* without matching_pattern (the loop stops there). Files of up to three.
Section(m, e, pat, t, path, l, c) ==
    [module |-> m, eventname |-> e, pattern |-> pat, type |-> t, path |-> path,
     linked |-> l, class |-> c]
CL_Absent == <<"null">>
SectionKinds ==
    {Section(<<"modem">>, <<"e">>, <<"a">>, <<"dir">>, <<"p">>, <<"l">>, <<"ERROR">>),
     Section(<<"modem">>, <<"f">>, <<"a", "b">>, <<"file">>, CL_Absent, CL_Absent, <<"INFO">>),
     Section(<<"modem">>, CL_Absent, <<"b">>, <<"file">>, <<"p">>, CL_Absent, <<"CRASH">>),
     Section(<<"UNDEFINED">>, <<"e">>, <<"a">>, <<"file">>, <<"p">>, CL_Absent, <<"CRASH">>),
     Section(<<"modem">>, <<"e">>, CL_Absent, <<"file">>, <<"p">>, CL_Absent, <<"bogus">>)}
SmallFiles == UNION {[1 .. k -> SectionKinds] : k \in 0 .. 3}
SmallEventNames == {<<"a", "b">>, <<"b">>, <<"c">>}

VARIABLES cpresent, creadable, cnotify, cuptime, csdLimit, ccheckModem,
          ccollMode, cvmmRoot, ccursor, clist, ccurrent, coom, cw, crouted, cpc

clVars == <<cpresent, creadable, cnotify, cuptime, csdLimit, ccheckModem,
            ccollMode, cvmmRoot, ccursor, clist, ccurrent, coom, cw, crouted, cpc>>

CL == INSTANCE ConfigLoader WITH
        Files <- SmallFiles, GeneralValues <- {-1, 2}, RootLengths <- {2, 5},
        PathMax <- 4, BplogCount <- 3, DefaultUptime <- 1, SdLimitMax <- 9,
        EventNames <- SmallEventNames,
        present <- cpresent, readable <- creadable, notify <- cnotify,
        uptime <- cuptime, sdLimit <- csdLimit, checkModem <- ccheckModem,
        collMode <- ccollMode, vmmRoot <- cvmmRoot, cursor <- ccursor,
        list <- clist, current <- ccurrent, oom <- coom, w <- cw,
        routed <- crouted, pc <- cpc

\* Mount entries: the five mount points by name; /system_x; two dirs of
\* 253 and 254 characters that fill list_partition; /cache/logs; /logs
\* mounted read-only; /data on a device not by name. A table is a choice
\* of extras followed by any subset of the five mount points.
Mount(d, b, e, ro) == [dev |-> d, base |-> b, ext |-> e, ro |-> ro]
MountOrder == <<"/system", "/cache", "/config", "/logs", "/factory">>
Extras == {<<>>, <<Mount("by-name", "/system", "_x", FALSE)>>,
           <<Mount("by-name", "/cache", "long", FALSE), Mount("by-name", "/config", "long", FALSE)>>,
           <<Mount("by-name", "/cache", "/logs", FALSE)>>,
           <<Mount("by-name", "/logs", "", TRUE)>>, <<Mount("sda", "/data", "", FALSE)>>}
SmallTables == {x \o [n \in 1 .. Cardinality(S) |->
                          Mount("by-name", MountOrder[SetToSortSeq(S, <)[n]], "", FALSE)] :
                 x \in Extras, S \in SUBSET (1 .. 5)}

VARIABLES ffsum, ffcur, ffraised, pmounts, pnotified, pcalls, pi, pnb, plist,
          poutput, praised, ppc

ptVars == <<ffsum, ffcur, ffraised, pmounts, pnotified, pcalls, pi, pnb, plist,
            poutput, praised, ppc>>

PT == INSTANCE Partitions WITH
        Tables <- SmallTables, MaxCalls <- 2, Checksums <- {"c0", "c1"},
        fsum <- ffsum, fcur <- ffcur, fraised <- ffraised, mounts <- pmounts,
        notified <- pnotified, calls <- pcalls, i <- pi, nb <- pnb, list <- plist,
        output <- poutput, raised <- praised, pc <- ppc

VARIABLES which, ukind, uname, ucoredump, udup, ufake, ubig, usrc, udest,
          ulogcopy, udumpstate, usignal, udatafile, uevents, upc, uret

ucVars == <<ukind, uname, ucoredump, udup, ufake, ubig, usrc, udest, ulogcopy,
            udumpstate, usignal, udatafile, uevents, upc, uret>>

UC == INSTANCE UserCrash WITH
        Kinds <- AllEventKinds, ApcoreNames <- SmallApcoreNames,
        OtherNames <- SmallOtherNames, FullReport <- TRUE, Numerals <- SmallNumerals,
        kind <- ukind, name <- uname, coredump <- ucoredump, dup <- udup,
        fake <- ufake, big <- ubig, src <- usrc, dest <- udest,
        logcopy <- ulogcopy, dumpstate <- udumpstate, signal <- usignal,
        datafile <- udatafile, events <- uevents, pc <- upc, ret <- uret

\* One initial state of each module for the behaviours of the other.
\* (The fixed values come first, so that TLC does not enumerate the
\* other module's initial states.)
TriggerIdle ==
    /\ handler = "stat" /\ named = FALSE
    /\ content = [aplog |-> [found |-> FALSE, val |-> 0], bplog |-> [found |-> FALSE, val |-> 0]]
    /\ props = [depth |-> 0, packets |-> 0]
    /\ Init
UserCrashIdle ==
    /\ ukind = "tombstone" /\ uname = <<"x">> /\ ucoredump = FALSE
    /\ ufake = FALSE /\ ubig = FALSE /\ usrc = "present"
    /\ UC!Init

\* run_command after a failed fork: a state where it has returned.
RunIdle ==
    /\ rcmd = <<"a">> /\ rtimeout = 0 /\ rargv = <<>> /\ rchild = "none"
    /\ rstatus = 0 /\ rexited = RC!NoCode /\ rleft = 0 /\ rpc = "done" /\ rret = -1

\* load_config without a configuration file.
ConfigIdle ==
    /\ cpresent = FALSE /\ creadable = FALSE /\ cnotify = <<>> /\ cuptime = 1
    /\ csdLimit = 9 /\ ccheckModem = 0 /\ ccollMode = 0 /\ cvmmRoot = 0
    /\ ccursor = 0 /\ clist = <<>> /\ ccurrent = 0 /\ coom = {} /\ cw = 0
    /\ crouted = 0 /\ cpc = "done"

\* The daemon before its factory check.
PartitionsIdle == ffsum = "none" /\ ffcur = "c0" /\ PT!Init

HandlersInit ==
    \/ which = "trigger" /\ RunIdle /\ ConfigIdle /\ PartitionsIdle /\ Init /\ UserCrashIdle
    \/ which = "usercrash" /\ RunIdle /\ ConfigIdle /\ PartitionsIdle /\ TriggerIdle /\ UC!Init
    \/ which = "run" /\ ConfigIdle /\ PartitionsIdle /\ RC!Init /\ TriggerIdle /\ UserCrashIdle
    \/ which = "config" /\ RunIdle /\ PartitionsIdle /\ CL!Init /\ TriggerIdle /\ UserCrashIdle
    \/ which = "partition" /\ RunIdle /\ ConfigIdle /\ PT!Init /\ TriggerIdle /\ UserCrashIdle

HandlersNext ==
    \/ which = "trigger" /\ Next /\ UNCHANGED <<which, ucVars, rcVars, clVars, ptVars>>
    \/ which = "usercrash" /\ UC!Next /\ UNCHANGED <<which, vars, rcVars, clVars, ptVars>>
    \/ which = "run" /\ RC!Next /\ UNCHANGED <<which, vars, ucVars, clVars, ptVars>>
    \/ which = "config" /\ CL!Next /\ UNCHANGED <<which, vars, ucVars, rcVars, ptVars>>
    \/ which = "partition" /\ PT!Next /\ UNCHANGED <<which, vars, ucVars, rcVars, clVars>>

\* Only run_command is fair: its calling thread is scheduled and a killed
\* child dies (the handlers' properties are invariants).
HandlersSpec == HandlersInit /\ [][HandlersNext]_<<which, vars, ucVars, rcVars, clVars, ptVars>> /\ RC!Fairness

UserCrashTypeOK == UC!TypeOK
ApcoreFieldsFromName == UC!ApcoreFieldsFromName
RunTypeOK == RC!TypeOK
ArgvAsSplit == RC!ArgvAsSplit
NoChildLeft == RC!NoChildLeft
StatusOfOwnExit == RC!StatusOfOwnExit
RunReturns == RC!RunReturns
ConfigTypeOK == CL!TypeOK
LoadedExactlyAccepted == CL!LoadedExactlyAccepted
PartitionsTypeOK == PT!TypeOK
NoFalsePartitionAlarm == PT!NoFalsePartitionAlarm
ErrorsInOneCall == PT!ErrorsInOneCall
=============================================================================

------------------------------ MODULE LogTrigger ------------------------------
(***************************************************************************)
(* The trigger handlers of src/crashlog/trigger.c: process_aplog_event     *)
(* with process_log_event (aplog_trigger and bz_trigger files), and        *)
(* process_stat_event (the stats triggers).                                *)
(*                                                                         *)
(* One behaviour is one call of a handler for one trigger file. Its inputs *)
(* are chosen in Init: the trigger file's APLOG= and BPLOG= lines, the     *)
(* depth and packet properties, which aplog files exist (index 0 is       *)
(* APLOG_FILE_0, index i > 0 is APLOG_FILE_0.<i>), and for a stats trigger *)
(* whether its name holds "trigger" and a matching data file exists.       *)
(* generate_crashlog_dir succeeds or fails (SlotAllocator models how), so  *)
(* do flush_aplog (logcat -d) and do_copy. One iteration of the copy loop  *)
(* is one step. A directory is the number of directories created before   *)
(* it; keys, paths, the user_comment, screenshot and bplog copies,         *)
(* compression and the event's type string are left out.                  *)
(***************************************************************************)
EXTENDS Integers, Sequences, SequencesExt, FiniteSets

CONSTANTS
    MaxIndex,      \* aplog files that may exist: indexes 0 .. MaxIndex
    PropValues,    \* atoi of PROP_APLOG_DEPTH and PROP_APLOG_NB_PACKET
    TriggerValues  \* atoi of the value of an APLOG= line of a trigger file

ASSUME MaxIndex \in Nat /\ PropValues \subseteq Int /\ TriggerValues \subseteq Int

\* A line KEY=value of the trigger file, by the atoi of its value; found is
\* FALSE when get_value_in_file returns -1: no such line.
Line(V) == {[found |-> FALSE, val |-> 0]} \cup [found : {TRUE}, val : V]
NoDir == 0          \* dir == NULL
Indexes == 0 .. MaxIndex

VARIABLES
    handler,    \* "log" (process_aplog_event) or "stat" (process_stat_event)
    mode,       \* "bz" or "aplogs": the trigger name starts with "bz" or not
    content,    \* the trigger file's APLOG= and BPLOG= lines
    props,      \* the depth and packet properties
    trig,       \* the trigger file: "present", "absent" or "removed" (by the call)
    logs,       \* the aplog files that exist
    named,      \* stats: the trigger name holds "trigger"
    data,       \* stats: whether the matching data file exists
    pc,         \* "start", "loop", "done" or "failed"
    res,        \* res: the result of the last get_value_in_file
    aplogDepth, nbPacket, packetidx, logidx,
    dir,        \* dir: NoDir, or the directory in use
    files,      \* the aplog indexes copied into dir so far
    made,       \* directories created so far
    events,     \* the events raised: [mode, dir, files] in order (history)
    snap,       \* ghost: the aplog files the copy loop sees
    ret         \* the handler's return value, once pc is "done" or "failed"

vars == <<handler, mode, content, props, trig, logs, named, data, pc, res,
          aplogDepth, nbPacket, packetidx, logidx, dir, files, made, events,
          snap, ret>>

loopVars == <<aplogDepth, nbPacket, packetidx, logidx>>

Init ==
    /\ handler \in {"log", "stat"}
    /\ mode \in IF handler = "log" THEN {"bz", "aplogs"} ELSE {"stats"}
    /\ content \in [aplog : Line(TriggerValues), bplog : Line({0, 1})]
    /\ props \in [depth : PropValues, packets : PropValues]
    /\ trig \in IF handler = "log" THEN {"present", "absent"} ELSE {"present"}
    /\ logs \in IF handler = "log" THEN SUBSET Indexes ELSE {{}}
    /\ named \in IF handler = "stat" THEN BOOLEAN ELSE {FALSE}
    /\ data \in IF named THEN BOOLEAN ELSE {FALSE}
    /\ pc = "start"
    /\ res = 0
    /\ aplogDepth = 0 /\ nbPacket = 0 /\ packetidx = 0 /\ logidx = 0
    /\ dir = NoDir
    /\ files = {}
    /\ made = 0
    /\ events = <<>>
    /\ snap = {}
    /\ ret = 0

newdirperpacket == mode = "aplogs"

\* get_value_in_file's result: 0 when the line is found, -1 otherwise.
ValueRes(line) == IF line.found THEN 0 ELSE -1

\* Seeded variant: a negative property value is kept.
NonNegKeep(n) == n

\* The clamp of a negative depth or packet count to 0.
NonNeg(n) == IF n < 0 THEN 0 ELSE n

\* generate_crashlog_dir succeeded: the next directory is dir.
NewDir == /\ made' = made + 1
          /\ dir' = made + 1

Raise(d, fs) == events' = Append(events, [mode |-> mode, dir |-> d, files |-> fs])

-----------------------------------------------------------------------------
(* process_log_event                                                       *)

\* The trigger file's values override the properties when APLOG= holds a
\* value >= 0 (nbPacket is then 1); BPLOG= is read for its result only;
\* flush_aplog replaces APLOG_FILE_0 by a fresh logcat dump, which may fail,
\* unless aplogDepth is 0.
LogStart ==
    /\ handler = "log" /\ pc = "start"
    /\ LET fromFile == trig = "present" /\ content.aplog.found /\ content.aplog.val >= 0
           depth    == IF fromFile THEN content.aplog.val ELSE NonNeg(props.depth)
       IN /\ aplogDepth' = depth
          /\ nbPacket' = IF fromFile THEN 1 ELSE NonNeg(props.packets)
          /\ \E dumped \in BOOLEAN :
               logs' = IF depth /= 0 THEN (logs \ {0}) \cup (IF dumped THEN {0} ELSE {})
                                     ELSE logs
    /\ res' = IF trig = "present" THEN ValueRes(content.bplog) ELSE 0
    /\ snap' = logs'
    /\ pc' = "loop"
    /\ UNCHANGED <<handler, mode, content, props, trig, named, data, packetidx,
                   logidx, dir, files, made, events, ret>>

LogIdx == packetidx * aplogDepth + logidx

\* A new directory is needed: one per packet in APLOG mode, one for the
\* whole call in BZ mode.
NeedsDir == IF newdirperpacket THEN logidx = 0 ELSE packetidx = 0 /\ logidx = 0

\* Seeded variant: a failing directory does not end the call.
CopyLogFailContinues ==
    /\ handler = "log" /\ pc = "loop"
    /\ packetidx < nbPacket /\ logidx < aplogDepth
    /\ \/ /\ LogIdx \notin logs
          /\ logidx' = aplogDepth
          /\ UNCHANGED <<dir, files, made>>
       \/ /\ LogIdx \in logs /\ NeedsDir
          /\ logidx' = logidx + 1
          /\ UNCHANGED <<dir, files, made>>
       \/ /\ LogIdx \in logs /\ NeedsDir
          /\ NewDir
          /\ files' = {LogIdx}
          /\ logidx' = logidx + 1
       \/ /\ LogIdx \in logs /\ ~NeedsDir
          /\ files' = IF dir /= NoDir THEN files \cup {LogIdx} ELSE files
          /\ logidx' = logidx + 1
          /\ UNCHANGED <<dir, made>>
    /\ UNCHANGED <<handler, mode, content, props, trig, logs, named, data, res, pc, ret,
                   aplogDepth, nbPacket, packetidx, events, snap>>

\* One iteration of the inner loop: a missing aplog breaks out of it; the
\* first aplog of a packet (APLOG) or of the call (BZ) asks for a
\* directory, whose failure makes the call return -1, leaving the trigger
\* file and APLOG_FILE_0 in place; the aplog is copied when dir is set.
CopyLog ==
    /\ handler = "log" /\ pc = "loop"
    /\ packetidx < nbPacket /\ logidx < aplogDepth
    /\ \/ /\ LogIdx \notin logs
          /\ logidx' = aplogDepth
          /\ UNCHANGED <<pc, dir, files, made, ret>>
       \/ /\ LogIdx \in logs /\ NeedsDir
          /\ pc' = "failed"
          /\ ret' = -1
          /\ UNCHANGED <<logidx, dir, files, made>>
       \/ /\ LogIdx \in logs /\ NeedsDir
          /\ NewDir
          /\ files' = {LogIdx}
          /\ logidx' = logidx + 1
          /\ UNCHANGED <<pc, ret>>
       \/ /\ LogIdx \in logs /\ ~NeedsDir
          /\ files' = IF dir /= NoDir THEN files \cup {LogIdx} ELSE files
          /\ logidx' = logidx + 1
          /\ UNCHANGED <<pc, dir, made, ret>>
    /\ UNCHANGED <<handler, mode, content, props, trig, logs, named, data, res,
                   aplogDepth, nbPacket, packetidx, events, snap>>

\* Seeded variant: dir is not reset to NULL after the packet's event.
PacketEndNoReset ==
    /\ handler = "log" /\ pc = "loop"
    /\ packetidx < nbPacket /\ logidx >= aplogDepth
    /\ IF newdirperpacket /\ dir /= NoDir
         THEN Raise(dir, files) /\ UNCHANGED <<dir, files>>
         ELSE UNCHANGED <<events, dir, files>>
    /\ packetidx' = packetidx + 1
    /\ logidx' = 0
    /\ UNCHANGED <<handler, mode, content, props, trig, logs, named, data, pc,
                   res, aplogDepth, nbPacket, made, snap, ret>>

\* The end of a packet: in APLOG mode its directory, if any, gets its
\* event and dir is reset to NULL.
PacketEnd ==
    /\ handler = "log" /\ pc = "loop"
    /\ packetidx < nbPacket /\ logidx >= aplogDepth
    /\ IF newdirperpacket /\ dir /= NoDir
         THEN Raise(dir, files) /\ dir' = NoDir /\ files' = {}
         ELSE UNCHANGED <<events, dir, files>>
    /\ packetidx' = packetidx + 1
    /\ logidx' = 0
    /\ UNCHANGED <<handler, mode, content, props, trig, logs, named, data, pc,
                   res, aplogDepth, nbPacket, made, snap, ret>>

\* The tail of the call: removes APLOG_FILE_0 and the trigger file and
\* returns res.
Cleanup ==
    /\ logs' = logs \ {0}
    /\ trig' = IF trig = "present" THEN "removed" ELSE trig
    /\ ret' = res
    /\ pc' = "done"

\* After the loops, in BZ mode: a directory is made if none was (failure:
\* return -1), and the single event is raised.
LogFinish ==
    /\ handler = "log" /\ pc = "loop"
    /\ packetidx >= nbPacket
    /\ \/ /\ newdirperpacket
          /\ Cleanup
          /\ UNCHANGED <<dir, files, made, events>>
       \/ /\ ~newdirperpacket /\ dir = NoDir
          /\ pc' = "failed"
          /\ ret' = -1
          /\ UNCHANGED <<logs, trig, dir, files, made, events>>
       \/ /\ ~newdirperpacket /\ dir = NoDir
          /\ NewDir
          /\ Raise(made + 1, files)
          /\ Cleanup
          /\ UNCHANGED files
       \/ /\ ~newdirperpacket /\ dir /= NoDir
          /\ Raise(dir, files)
          /\ Cleanup
          /\ UNCHANGED <<dir, files, made>>
    /\ UNCHANGED <<handler, mode, content, props, named, data, res, loopVars, snap>>

-----------------------------------------------------------------------------
(* process_stat_event                                                      *)

\* No directory: an event without one is raised and -1 returned; the
\* trigger and data files stay.
StatNoDir ==
    /\ handler = "stat" /\ pc = "start"
    /\ Raise(NoDir, {})
    /\ ret' = -1
    /\ pc' = "failed"
    /\ UNCHANGED <<handler, mode, content, props, trig, logs, named, data, res,
                   loopVars, dir, files, made, snap>>

\* With a directory: when the name holds "trigger", the data file that
\* find_matching_file names is copied (do_copy may fail) and removed
\* whatever the copy did; the trigger file is copied and removed; the
\* event is raised.
StatEvent ==
    /\ handler = "stat" /\ pc = "start"
    /\ NewDir
    /\ Raise(made + 1, {})
    /\ data' = (data /\ ~named)
    /\ trig' = "removed"
    /\ ret' = 0
    /\ pc' = "done"
    /\ UNCHANGED <<handler, mode, content, props, logs, named, res, loopVars,
                   files, snap>>

Next ==
    \/ LogStart
    \/ CopyLog
    \/ PacketEnd
    \/ LogFinish
    \/ StatNoDir
    \/ StatEvent

Spec == Init /\ [][Next]_vars

-----------------------------------------------------------------------------
(* Properties                                                              *)

TypeOK ==
    /\ pc \in {"start", "loop", "done", "failed"}
    /\ trig \in {"present", "absent", "removed"}
    /\ aplogDepth \in Nat /\ nbPacket \in Nat /\ packetidx \in Nat /\ logidx \in Nat
    /\ logs \subseteq Indexes /\ snap \subseteq Indexes
    /\ dir \in 0 .. made /\ files \subseteq Indexes
    /\ events \in Seq([mode : {"bz", "aplogs", "stats"}, dir : 0 .. made,
                       files : SUBSET Indexes])
    /\ ret \in {-1, 0}

\* The aplog indexes of a packet that are copied: those before the first
\* missing one.
Prefix(q) ==
    {q * aplogDepth + l : l \in {j \in 0 .. aplogDepth - 1 :
                                    \A i \in 0 .. j : q * aplogDepth + i \in snap}}

\* The header comment of process_log_event: in APLOG mode one event per
\* packet, holding that packet's aplogs; in BZ mode one event holding every
\* packet's aplogs.
Promised ==
    IF newdirperpacket
      THEN SelectSeq([q \in 1 .. nbPacket |-> Prefix(q - 1)], LAMBDA s : s /= {})
      ELSE << UNION {Prefix(q) : q \in 0 .. nbPacket - 1} >>

EventFiles == [i \in DOMAIN events |-> events[i].files]

\* Whatever the packets, depths, missing aplogs and failing directories,
\* the events process_log_event raises follow its header comment: in
\* order, one per packet with its leading aplogs (APLOG), or one with all
\* of them (BZ, when the logcat dump APLOG_FILE_0 exists), each in a
\* directory of its own; a failing call raises a prefix of them.
EventsFollowPackets ==
    (handler = "log" /\ pc /= "start" /\ (newdirperpacket \/ 0 \in snap \/ Promised = <<{}>>)) =>
        /\ IsPrefix(EventFiles, Promised)
        /\ pc = "done" => EventFiles = Promised
        /\ IsInjective([i \in DOMAIN events |-> events[i].dir])
        /\ \A i \in DOMAIN events : events[i].dir /= NoDir

\* A trigger file is deleted only once the handler has raised every event
\* it asks for (each packet's, or the BZ or stats event with a
\* directory): a failure part-way through a trigger leaves the file, never
\* a consumed trigger with events missing.
TriggerKeptUntilHandled ==
    trig = "removed" =>
        IF handler = "log"
          THEN Len(events) = Len(Promised)
          ELSE events /= <<>> /\ Last(events).dir /= NoDir
=============================================================================

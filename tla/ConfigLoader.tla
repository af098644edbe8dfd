---------------------------- MODULE ConfigLoader ----------------------------
(***************************************************************************)
(* load_config, load_config_by_pattern and store_config, then            *)
(* generic_add_watch and get_generic_config (config_handler.c). One       *)
(* behaviour is one start of the daemon: the configuration file is read  *)
(* once, its general keys set the globals, each notify section that has  *)
(* a matching_pattern key is stored as a modem config at the tail of the  *)
(* list g_first_modem_config / g_current_modem_config, a watch is added  *)
(* for each config with a path, and an event name is looked up.          *)
(*                                                                         *)
(* The configuration parser (init_config_file, get_first_section_name,    *)
(* get_next_section_name, sk_exists, get_value, get_value_def) is not in  *)
(* the repository: here the notify sections are a sequence of records in  *)
(* file order, a key the section lacks is Absent (get_value's NULL), and  *)
(* get_value_def gives its default. Strings are short sequences.          *)
(***************************************************************************)
EXTENDS Integers, Sequences, SequencesExt

CONSTANTS
    Files,          \* the notify section sequences a configuration may hold
    GeneralValues,  \* the values of the numeric general keys
    RootLengths,    \* the lengths of a vmmtrap root_path value
    PathMax,        \* PATHMAX
    BplogCount,     \* COLLECT_BPLOG_COUNT
    DefaultUptime,  \* gcurrent_uptime_hour_frequency before loading
    SdLimitMax,     \* LONG_MAX, current_sd_size_limit before loading
    EventNames      \* the event names looked up

VARIABLES
    present, readable,  \* stat and init_config_file of CRASHLOG_CONF_PATH
    notify,             \* the notify sections, in file order
    uptime, sdLimit, checkModem, collMode, vmmRoot,  \* the globals
    cursor,             \* the section the loop is at
    list, current,      \* the config list and the index of its tail
    oom,                \* history: sections whose store failed on malloc
    w,                  \* the config generic_add_watch is at
    routed,             \* get_generic_config's result (0 for NULL)
    pc

vars == <<present, readable, notify, uptime, sdLimit, checkModem, collMode,
          vmmRoot, cursor, list, current, oom, w, routed, pc>>

Absent == <<"null">>
Modem == <<"modem">>
Dir == <<"dir">>
\* The uninitialized bytes of a malloc'd path.
Garbage == <<"garbage">>
NoWatch == "none"
\* A key with its value, or none: <<>> or <<v>>.
Maybe(S) == {<<>>} \cup {<<v>> : v \in S}

\* The event_class strings and their codes (store_config).
ClassOf(c) == CASE c = <<"ERROR">> -> 1 [] c = <<"INFO">> -> 2 [] OTHER -> 0

\* strstr(event_name, pattern) /= NULL.
Occurs(p, s) == \E i \in 0 .. Len(s) - Len(p) : SubSeq(s, i + 1, i + Len(p)) = p

\* The config store_config builds for section s (index i); a missing
\* path_trigger leaves the path uninitialized.
NewConf(s, i, p) ==
    [from |-> i, event |-> s.eventname, pattern |-> s.pattern,
     type |-> IF s.type = Dir THEN 1 ELSE 0, path |-> p,
     linked |-> IF s.linked = Absent THEN <<>> ELSE s.linked,
     class |-> ClassOf(s.class), wd |-> NoWatch]
PathsOf(s) == IF s.path = Absent THEN {<<>>, Garbage} ELSE {s.path}

Init ==
    /\ present \in BOOLEAN
    /\ readable \in BOOLEAN
    /\ notify \in Files
    /\ uptime = DefaultUptime /\ sdLimit = SdLimitMax
    /\ checkModem = 0 /\ collMode = 0 /\ vmmRoot = 0
    /\ cursor = 0 /\ list = <<>> /\ current = 0 /\ oom = {}
    /\ w = 0 /\ routed = 0
    /\ pc = "start"

\* No configuration file, or init_config_file fails: nothing is loaded.
NoConfig ==
    /\ pc = "start"
    /\ ~present \/ ~readable
    /\ pc' = "done"
    /\ UNCHANGED <<present, readable, notify, uptime, sdLimit, checkModem,
                   collMode, vmmRoot, cursor, list, current, oom, w, routed>>

\* Seeded variant: collection_mode_modem taken without its range check.
LoadGeneralAnyMode ==
    /\ pc = "start"
    /\ present /\ readable
    /\ \E u, sd, ck, co \in Maybe(GeneralValues), root \in Maybe(RootLengths) :
         /\ uptime' = IF u /= <<>> /\ u[1] > 0 THEN u[1] ELSE uptime
         /\ sdLimit' = IF sd /= <<>> /\ sd[1] > 0 THEN sd[1] ELSE sdLimit
         /\ checkModem' = IF ck = <<>> THEN checkModem ELSE IF ck[1] > 0 THEN 1 ELSE 0
         /\ collMode' = IF co /= <<>> THEN co[1] ELSE collMode
         /\ vmmRoot' = IF root = <<>> THEN vmmRoot ELSE Min({root[1], PathMax - 1})
    /\ cursor' = 1
    /\ pc' = "sections"
    /\ UNCHANGED <<present, readable, notify, list, current, oom, w, routed>>

\* The general keys: a positive uptime_frequency and sd_size_limit are
\* taken, check_modem_version is 1 when positive and 0 otherwise,
\* collection_mode_modem is taken when in 0..COLLECT_BPLOG_COUNT-1, and
\* root_path is copied truncated to PATHMAX-1 characters.
LoadGeneral ==
    /\ pc = "start"
    /\ present /\ readable
    /\ \E u, sd, ck, co \in Maybe(GeneralValues), root \in Maybe(RootLengths) :
         /\ uptime' = IF u /= <<>> /\ u[1] > 0 THEN u[1] ELSE uptime
         /\ sdLimit' = IF sd /= <<>> /\ sd[1] > 0 THEN sd[1] ELSE sdLimit
         /\ checkModem' = IF ck = <<>> THEN checkModem ELSE IF ck[1] > 0 THEN 1 ELSE 0
         /\ collMode' = IF co /= <<>> /\ co[1] \in 0 .. BplogCount - 1 THEN co[1] ELSE collMode
         /\ vmmRoot' = IF root = <<>> THEN vmmRoot ELSE Min({root[1], PathMax - 1})
    /\ cursor' = 1
    /\ pc' = "sections"
    /\ UNCHANGED <<present, readable, notify, list, current, oom, w, routed>>

\* The loop of load_config_by_pattern goes on while the section has a
\* matching_pattern key.
InLoop == cursor <= Len(notify) /\ notify[cursor].pattern /= Absent

\* Seeded variant: g_current_modem_config is not moved to the new config.
StoreKeepsCurrent(c) ==
    /\ list' = IF list = <<>> THEN <<c>> ELSE Append(SubSeq(list, 1, current), c)
    /\ current' = IF list = <<>> THEN 1 ELSE current

\* The config is linked after g_current_modem_config (or becomes
\* g_first_modem_config), and g_current_modem_config points at it.
Stored(c) ==
    /\ list' = IF list = <<>> THEN <<c>> ELSE Append(SubSeq(list, 1, current), c)
    /\ current' = Len(list')

\* store_config(section): not a modem section, or no eventname: nothing
\* is stored; one of the three mallocs fails: nothing is stored; else the
\* config is stored.
StoreConfig(s, i) ==
    \/ /\ s.module /= Modem \/ s.eventname = Absent
       /\ UNCHANGED <<list, current, oom>>
    \/ /\ s.module = Modem /\ s.eventname /= Absent
       /\ oom' = oom \cup {i}
       /\ UNCHANGED <<list, current>>
    \/ /\ s.module = Modem /\ s.eventname /= Absent
       /\ \E p \in PathsOf(s) : Stored(NewConf(s, i, p))
       /\ UNCHANGED oom

LoadSection ==
    /\ pc = "sections"
    /\ InLoop
    /\ StoreConfig(notify[cursor], cursor)
    /\ cursor' = cursor + 1
    /\ UNCHANGED <<present, readable, notify, uptime, sdLimit, checkModem,
                   collMode, vmmRoot, w, routed, pc>>

\* The loop stops; free_config_file.
LoadDone ==
    /\ pc = "sections"
    /\ ~InLoop
    /\ w' = 1
    /\ pc' = "watch"
    /\ UNCHANGED <<present, readable, notify, uptime, sdLimit, checkModem,
                   collMode, vmmRoot, cursor, list, current, oom, routed>>

\* generic_add_watch: a config whose path is not empty gets a watch,
\* which inotify_add_watch may refuse (a garbage path is refused).
AddWatch ==
    /\ pc = "watch"
    /\ w <= Len(list)
    /\ IF Len(list[w].path) > 0
       THEN \E ok \in IF list[w].path = Garbage THEN {FALSE} ELSE BOOLEAN :
              list' = [list EXCEPT ![w].wd = IF ok THEN "watched" ELSE "failed"]
       ELSE UNCHANGED list
    /\ w' = w + 1
    /\ UNCHANGED <<present, readable, notify, uptime, sdLimit, checkModem,
                   collMode, vmmRoot, cursor, current, oom, routed, pc>>

\* get_generic_config: the first config whose pattern occurs in the name.
GetGenericConfig ==
    /\ pc = "watch"
    /\ w > Len(list)
    /\ \E ev \in EventNames :
         LET hits == {n \in 1 .. Len(list) : Occurs(list[n].pattern, ev)}
         IN  routed' = IF hits = {} THEN 0 ELSE Min(hits)
    /\ pc' = "done"
    /\ UNCHANGED <<present, readable, notify, uptime, sdLimit, checkModem,
                   collMode, vmmRoot, cursor, list, current, oom, w>>

Next == NoConfig \/ LoadGeneral \/ LoadSection \/ LoadDone \/ AddWatch \/ GetGenericConfig

Spec == Init /\ [][Next]_vars

-----------------------------------------------------------------------------
TypeOK ==
    /\ uptime \in {DefaultUptime} \cup {v \in GeneralValues : v > 0}
    /\ sdLimit \in {SdLimitMax} \cup {v \in GeneralValues : v > 0}
    /\ checkModem \in {0, 1}
    /\ collMode \in 0 .. BplogCount - 1
    /\ vmmRoot \in 0 .. PathMax - 1
    /\ current \in 0 .. Len(list)
    /\ oom \subseteq 1 .. Len(notify)
    /\ routed \in 0 .. Len(list)
    /\ pc \in {"start", "sections", "watch", "done"}

\* Accepted(s): a modem section with an eventname and a matching_pattern.
Accepted(s) == s.module = Modem /\ s.eventname /= Absent /\ s.pattern /= Absent

\* Once the loop has stopped, the config list holds exactly the sections
\* the loop read and store_config accepted without a malloc failure, once
\* each, in file order, with their eventname, pattern and path: no config
\* is lost or overwritten by the tail linking of store_config
\* (config_handler.c:203-208).
LoadedExactlyAccepted ==
    pc \in {"watch", "done"} =>
        /\ [n \in 1 .. Len(list) |-> list[n].from]
             = SetToSortSeq({i \in 1 .. cursor - 1 : Accepted(notify[i]) /\ i \notin oom}, <)
        /\ \A n \in 1 .. Len(list) :
             LET s == notify[list[n].from] IN
             /\ list[n].event = s.eventname
             /\ list[n].pattern = s.pattern
             /\ s.path /= Absent => list[n].path = s.path
====

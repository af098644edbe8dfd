---------------------------- MODULE SlotAllocator ----------------------------
(***************************************************************************)
(* The rotating slot allocator of src/crashlog/fsutils.c.                  *)
(*                                                                         *)
(* Each counter file (CRASH_CURRENT_LOG, APLOGS_CURRENT_LOG, ...) holds    *)
(* the next slot index; reserve_crash_folder reads it and writes back      *)
(* (current + 1) % gmaxfiles. generate_crashlog_dir then removes what      *)
(* occupies the slot (rmfr_match on "<dir><index>_") and creates           *)
(* "<dir><index>_<key>"; find_new_crashlog_dir does the same with the bare *)
(* name "<dir><index>" and rmfr.                                           *)
(*                                                                         *)
(* Modes CRASH, CRASH_NOSD and KDUMP share CRASH_CURRENT_LOG, but KDUMP    *)
(* writes into KDUMP_CRASH_DIR. get_sdcard_paths switches the crash,       *)
(* aplogs, bz and stats directories to the sdcard (FULL_REPORT builds)     *)
(* while the counter file stays the same.                                  *)
(*                                                                         *)
(* The reservation is split where the daemon can die: after the counter    *)
(* file has been rewritten and before the directory exists.                *)
(*                                                                         *)
(* The file system is abstracted to the slot directories of each base      *)
(* directory; a directory is a record [idx, uid] (uid = NoUid for the      *)
(* find_new_crashlog_dir naming) with a ghost field gen: the number of     *)
(* advances of its counter when it was reserved. Quota, I/O and mkdir      *)
(* outcomes are inputs.                                                    *)
(***************************************************************************)
EXTENDS Integers, FiniteSets, TLC

CONSTANTS
    Modes,           \* the e_dir_mode_t values in use
    IndexOnlyModes,  \* modes whose callers use find_new_crashlog_dir
    MaxFiles,        \* gmaxfiles
    MaxReservations, \* bound on the number of event keys generated
    SdCard,          \* FULL_REPORT build with an sdcard get_sdcard_paths may pick
    RmfrMayFail      \* whether removing the old slot may fail

AllModes == {"crash", "crash_nosd", "kdump", "aplogs", "bz", "stats"}

ASSUME Modes \subseteq AllModes /\ IndexOnlyModes \subseteq Modes
ASSUME MaxFiles \in Nat \ {0} /\ MaxReservations \in Nat
ASSUME SdCard \in BOOLEAN /\ RmfrMayFail \in BOOLEAN

NoUid == 0
Absent == -1
Indexes == 0 .. MaxFiles - 1
\* A counter file written under a larger gmaxfiles: read_file's "%4u"
\* takes any value up to 9999, and the first reservation uses it as is.
Stale == MaxFiles

\* reserve_crash_folder's switch: the counter file of each mode.
CounterOf(m) ==
    CASE m \in {"crash", "crash_nosd", "kdump"} -> "crash"
      [] m = "aplogs" -> "aplogs"
      [] m = "bz"     -> "bz"
      [] m = "stats"  -> "stats"

Counters == {CounterOf(m) : m \in Modes}

\* reserve_crash_folder's switch: the directory of each mode, after
\* get_sdcard_paths has chosen between the EMMC and the sdcard paths.
BaseOf(m, sd) ==
    CASE m = "kdump" -> [fam |-> "kdump", sd |-> FALSE]
      [] m \in {"crash", "crash_nosd"} -> [fam |-> "crash", sd |-> sd]
      [] OTHER -> [fam |-> m, sd |-> sd]

Bases == {BaseOf(m, sd) : m \in Modes, sd \in BOOLEAN}

CounterOfBase(b) == IF b.fam = "kdump" THEN "crash" ELSE CounterOf(b.fam)

\* get_sdcard_paths: the sdcard is possible unless the build is not
\* FULL_REPORT or the mode is CRASH_NOSD; low memory mode, missing space on
\* the card or a failing mkdir/opendir keep the EMMC paths.
SdChoices(m) == IF SdCard /\ m /= "crash_nosd" THEN BOOLEAN ELSE {FALSE}

VARIABLES
    counter,   \* content of each counter file, Absent when it does not exist
    dirs,      \* slot directories present in each base directory
    pending,   \* the reservation between reserve_crash_folder and mkdir
    serial,    \* event keys generated so far (the unique suffixes)
    advances   \* ghost: successful updates of each counter file

vars == <<counter, dirs, pending, serial, advances>>

None == [kind |-> "none"]

Entry == [idx : Indexes \cup {Stale}, uid : 0 .. MaxReservations, gen : Nat]

Init ==
    /\ counter \in [Counters -> Indexes \cup {Absent, Stale}]
    /\ dirs = [b \in Bases |-> {}]
    /\ pending = None
    /\ serial = 0
    /\ advances = [c \in Counters |-> 0]

-----------------------------------------------------------------------------
(* reserve_crash_folder(mode, &current), with read_file and update_file.   *)

\* read_file: a missing file is recreated by reset_file and read as 0.
ReadCurrent(c) == IF counter[c] = Absent THEN 0 ELSE counter[c]

\* Seeded variant: the increment without the wrap.
NextIndexNoWrap(cur) == cur + 1

\* update_file writes (current + 1) % gmaxfiles.
NextIndex(cur) == (cur + 1) % MaxFiles

\* A new event key is generated and the caller asks for a directory.
NewKey == serial' = serial + 1

\* reserve_crash_folder returns NULL: the quota check on LOGS_DIR fails (the
\* counter file is untouched), read_file fails with an error other than
\* ENOENT, or update_file cannot reopen or rewrite the file. A missing file
\* has by then been recreated with 0 by reset_file, unless that failed too.
ReserveFails(m) ==
    /\ pending = None
    /\ serial < MaxReservations
    /\ NewKey
    /\ LET c == CounterOf(m) IN
         counter' \in {[counter EXCEPT ![c] = v] :
                          v \in {counter[c]} \cup (IF counter[c] = Absent THEN {0} ELSE {})}
    /\ UNCHANGED <<dirs, pending, advances>>

\* Seeded variant: the counter file is not rewritten.
ReserveFolderNoUpdate(m) ==
    /\ pending = None
    /\ serial < MaxReservations
    /\ NewKey
    /\ \E sd \in SdChoices(m) :
         LET c   == CounterOf(m)
             cur == ReadCurrent(c)
         IN /\ advances' = [advances EXCEPT ![c] = @ + 1]
            /\ pending' = [kind |-> IF m \in IndexOnlyModes THEN "index" ELSE "dir",
                           mode |-> m, base |-> BaseOf(m, sd), idx |-> cur,
                           uid |-> serial + 1, gen |-> advances[c] + 1]
    /\ UNCHANGED <<counter, dirs>>

\* Quota passed (or not checked), current read, (current+1) % gmaxfiles written.
ReserveFolder(m) ==
    /\ pending = None
    /\ serial < MaxReservations
    /\ NewKey
    /\ \E sd \in SdChoices(m) :
         LET c   == CounterOf(m)
             cur == ReadCurrent(c)
         IN /\ counter' = [counter EXCEPT ![c] = NextIndex(cur)]
            /\ advances' = [advances EXCEPT ![c] = @ + 1]
            /\ pending' = [kind |-> IF m \in IndexOnlyModes THEN "index" ELSE "dir",
                           mode |-> m, base |-> BaseOf(m, sd), idx |-> cur,
                           uid |-> serial + 1, gen |-> advances[c] + 1]
    /\ UNCHANGED dirs

-----------------------------------------------------------------------------
(* The rest of generate_crashlog_dir / find_new_crashlog_dir.              *)

\* rmfr_match("<dir><idx>_") removes every entry of the base directory whose
\* name contains "<dir><idx>_": the slot directories of that index.
SlotMatches(b, i) == {e \in dirs[b] : e.uid /= NoUid /\ e.idx = i}

\* rmfr("<dir><idx>") removes exactly that directory.
BareMatches(b, i) == {e \in dirs[b] : e.uid = NoUid /\ e.idx = i}

\* What a removal may leave behind: nothing, or, when rmfr may fail, any part.
Leftovers(S) == IF RmfrMayFail THEN SUBSET S ELSE {{}}

\* rmfr_match, the history check (the new path holds a fresh key, so it never
\* exists), then create_crash_folder: mkdir succeeds or fails.
CreateSlotDir ==
    /\ pending.kind = "dir"
    /\ LET b   == pending.base
           old == SlotMatches(b, pending.idx)
           new == [idx |-> pending.idx, uid |-> pending.uid, gen |-> pending.gen]
       IN \E left \in Leftovers(old), made \in BOOLEAN :
            dirs' = [dirs EXCEPT ![b] = ((@ \ old) \cup left)
                                          \cup (IF made THEN {new} ELSE {})]
    /\ pending' = None
    /\ UNCHANGED <<counter, serial, advances>>

\* find_new_crashlog_dir: rmfr of the bare path, then create_crash_folder.
CreateIndexDir ==
    /\ pending.kind = "index"
    /\ LET b   == pending.base
           old == BareMatches(b, pending.idx)
           new == [idx |-> pending.idx, uid |-> NoUid, gen |-> pending.gen]
       IN \E left \in Leftovers(old), made \in BOOLEAN :
            dirs' = [dirs EXCEPT ![b] = ((@ \ old) \cup left)
                                          \cup (IF made THEN {new} ELSE {})]
    /\ pending' = None
    /\ UNCHANGED <<counter, serial, advances>>

\* The daemon dies and restarts between reserving the index and mkdir:
\* only the files survive.
Restart ==
    /\ pending /= None
    /\ pending' = None
    /\ UNCHANGED <<counter, dirs, serial, advances>>

Next ==
    \/ \E m \in Modes : ReserveFails(m) \/ ReserveFolder(m)
    \/ CreateSlotDir
    \/ CreateIndexDir
    \/ Restart

Spec == Init /\ [][Next]_vars

-----------------------------------------------------------------------------
(* Properties                                                              *)

TypeOK ==
    /\ counter \in [Counters -> Indexes \cup {Absent, Stale}]
    /\ dirs \in [Bases -> SUBSET Entry]
    /\ pending = None \/ pending.idx \in Indexes \cup {Stale}
    /\ serial \in 0 .. MaxReservations
    /\ advances \in [Counters -> Nat]

\* Retention window: a reservation never removes a directory that one of the
\* last gmaxfiles advances of its counter reserved, whatever the mix of modes
\* sharing the counter, sdcard switches, failures and restarts.
RetentionWindow ==
    [][\A b \in Bases : \A e \in dirs[b] \ dirs'[b] :
          advances[CounterOfBase(b)] - e.gen >= MaxFiles]_vars
=============================================================================

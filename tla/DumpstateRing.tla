---------------------------- MODULE DumpstateRing ----------------------------
(***************************************************************************)
(* The dumpstate coordinator of src/crashlog/dropbox.c.                    *)
(*                                                                         *)
(* gcurrent_key is a ring of N slots; start_dumpstate_srv advances         *)
(* index_prod and stores the crash key there, finalize_dropbox_pending_    *)
(* event takes the key at index_cons when a close-write event arrives on   *)
(* gfile_monitor_fd, announces it (CRASH_LOGS_COPY_FINISHED), clears the   *)
(* slot and advances index_cons.                                           *)
(*                                                                         *)
(* start_dumpstate_srv is called by the dispatch thread (Main) and by the  *)
(* dump_bt_all worker threads (Workers) of anruiwdt.c, without a lock, so  *)
(* it is split at the points where another thread can interleave: the     *)
(* "running" check, the launch with its inotify watch, the load and the    *)
(* store of index_prod, and the write of the key. finalize runs only on    *)
(* Main. The dumpstate service and the boot status are the environment.    *)
(*                                                                         *)
(* A crash directory is identified with the key it was created for         *)
(* (generate_crashlog_dir appends the key to the directory name), so a     *)
(* close-write event carries the key of its directory.                     *)
(***************************************************************************)
EXTENDS Naturals, Sequences, FiniteSets, SequencesExt

CONSTANTS
    Keys,           \* crash keys (one per crash directory), model values
    NoKey,          \* an empty slot: gcurrent_key[i][0] == 0
    Main,           \* the dispatch thread
    Workers,        \* dump_bt_all threads that call start_dumpstate_srv
    N,              \* DIM(gcurrent_key)
    DumpOutputs,    \* numbers of files one dumpstate run may close in its directory
    WatchMayFail,   \* whether inotify_add_watch may fail
    BootedAtStart,  \* whether sys.boot_completed is already "1"
    NotifyMayFail,  \* whether is_crashreport_available may return 0 after
                    \* boot (pm failing; the result is then not cached) and
                    \* the notifier thread may not be created
    DirMayFail      \* whether generate_crashlog_dir may fail in a handler

ASSUME NoKey \notin Keys
ASSUME N \in Nat \ {0}
ASSUME DumpOutputs \subseteq Nat /\ DumpOutputs /= {}
ASSUME WatchMayFail \in BOOLEAN /\ BootedAtStart \in BOOLEAN /\ NotifyMayFail \in BOOLEAN
ASSUME DirMayFail \in BOOLEAN

Threads == {Main} \cup Workers
Slots == 0 .. N - 1

VARIABLES
    gkey,         \* gcurrent_key
    indexProd,    \* static index_prod of start_dumpstate_srv
    indexCons,    \* static index_cons of finalize_dropbox_pending_event
    pc,           \* where each thread is inside start_dumpstate_srv
    arg,          \* the key a thread is starting a dump for
    tmp,          \* the value of index_prod a thread has loaded
    service,      \* the dumpstate service as seen by PROP_LOGSYSTEMSTATE
    storagePath,  \* the directory the running dump writes into
    toWrite,      \* how many files the running dump closes
    written,      \* how many it has closed so far
    watched,      \* directories with an IN_CLOSE_WRITE watch on gfile_monitor_fd
    queue,        \* close-write events not yet read by the dispatch thread
    booted,       \* PROP_BOOT_STATUS = "1"
    busy,         \* dumpstate_busy markers: <<directory, key it names>>
    used,         \* keys already handed to start_dumpstate_srv (history)
    registered,   \* keys stored into the ring (history)
    dumped,       \* keys whose dump has closed all its files (history)
    notified,     \* announcements: [key, dir of the event] (history)
    direct        \* keys dump_bt_all broadcast itself (history)

vars == <<gkey, indexProd, indexCons, pc, arg, tmp, service, storagePath,
          toWrite, written, watched, queue, booted, busy, used, registered,
          dumped, notified, direct>>
envVars == <<service, storagePath, toWrite, written, queue, booted, dumped>>

Init ==
    /\ gkey = [s \in Slots |-> NoKey]
    /\ indexProd = N - 1
    /\ indexCons = 0
    /\ pc = [t \in Threads |-> "idle"]
    /\ arg = [t \in Threads |-> NoKey]
    /\ tmp = [t \in Threads |-> 0]
    /\ service = "stopped"
    /\ storagePath = NoKey
    /\ toWrite = 0
    /\ written = 0
    /\ watched = {}
    /\ queue = <<>>
    /\ booted = BootedAtStart
    /\ busy = {}
    /\ used = {}
    /\ registered = {}
    /\ dumped = {}
    /\ notified = <<>>
    /\ direct = <<>>

-----------------------------------------------------------------------------
(* The handlers of anruiwdt.c and usercrash.c on the dispatch thread, and  *)
(* dump_bt_all on a worker thread.                                         *)

\* The dispatch thread handles a new crash key: process_anruiwdt_event
\* with no backtrace thread, or priv_process_usercrash_event for a
\* tombstone or a Java crash, raise the event and call start_dumpstate_srv,
\* ignoring what it returns.
MainHandles(k) == pc[Main] = "idle" /\ k \notin used

\* generate_crashlog_dir fails: the event is raised without a directory and
\* the handler returns -1 before start_dumpstate_srv.
HandleNoDir(k) ==
    /\ DirMayFail
    /\ MainHandles(k)
    /\ used' = used \cup {k}
    /\ UNCHANGED <<gkey, indexProd, indexCons, pc, arg, tmp, watched, busy,
                   registered, notified, direct>>
    /\ UNCHANGED envVars

\* process_anruiwdt_event with the backtrace dump enabled: a dump_bt_all
\* thread is created for the key and the handler returns. (When
\* pthread_create fails, the dispatch thread goes on as in MainHandles.)
HandOff(k, w) ==
    /\ MainHandles(k)
    /\ pc[w] = "idle"
    /\ used' = used \cup {k}
    /\ pc' = [pc EXCEPT ![w] = "bt"]
    /\ arg' = [arg EXCEPT ![w] = k]
    /\ UNCHANGED <<gkey, indexProd, indexCons, tmp, watched, busy, registered,
                   notified, direct>>
    /\ UNCHANGED envVars

\* The results is_crashreport_available may give: 0 before boot; after
\* boot the package check, whose failure (pm not ready, crashreport not
\* installed) gives 0 too.
CrashreportMay(avail) == IF avail THEN booted ELSE ~booted \/ NotifyMayFail

\* dump_bt_all: the backtraces are dumped (bt_fork_run, or the note that
\* another dump runs) and the event raised; then no notification when
\* crashreport is unavailable, the broadcast for a UIWDT, and
\* start_dumpstate_srv for an ANR.
BtRun(w) ==
    /\ pc[w] = "bt"
    /\ \/ /\ CrashreportMay(FALSE)
          /\ pc' = [pc EXCEPT ![w] = "idle"]
          /\ arg' = [arg EXCEPT ![w] = NoKey]
          /\ UNCHANGED direct
       \/ /\ CrashreportMay(TRUE)
          /\ direct' = Append(direct, arg[w])
          /\ pc' = [pc EXCEPT ![w] = "idle"]
          /\ arg' = [arg EXCEPT ![w] = NoKey]
       \/ /\ CrashreportMay(TRUE)
          /\ pc' = [pc EXCEPT ![w] = "call"]
          /\ UNCHANGED <<arg, direct>>
    /\ UNCHANGED <<gkey, indexProd, indexCons, tmp, watched, busy, used,
                   registered, notified>>
    /\ UNCHANGED envVars

\* Seeded variant: dump_bt_all broadcasts whatever start returned.
StartReturnsAlwaysNotify(t, k, r) ==
    /\ pc' = [pc EXCEPT ![t] = "idle"]
    /\ arg' = [arg EXCEPT ![t] = NoKey]
    /\ direct' = IF t \in Workers THEN Append(direct, k) ELSE direct

\* start_dumpstate_srv returns r to its caller: dump_bt_all broadcasts the
\* key itself when r <= 0; the dispatch thread ignores r.
StartReturns(t, k, r) ==
    /\ pc' = [pc EXCEPT ![t] = "idle"]
    /\ arg' = [arg EXCEPT ![t] = NoKey]
    /\ direct' = IF t \in Workers /\ r <= 0 THEN Append(direct, k) ELSE direct

\* Who calls start_dumpstate_srv(dir, k): the dispatch thread for a new
\* key, or a worker for the key it was created for.
CanStart(t, k) ==
    \/ t = Main /\ MainHandles(k)
    \/ t \in Workers /\ pc[t] = "call" /\ k = arg[t]

-----------------------------------------------------------------------------
(* start_dumpstate_srv(crash_dir, key)                                     *)

\* A dump is already running: write dumpstate_busy into the new directory,
\* naming gcurrent_key[index_prod], and return 0.
StartBusy(t, k) ==
    /\ CanStart(t, k)
    /\ service = "running"
    /\ used' = used \cup {k}
    /\ busy' = busy \cup {<<k, gkey[indexProd]>>}
    /\ StartReturns(t, k, 0)
    /\ UNCHANGED <<gkey, indexProd, indexCons, tmp, watched, registered, notified>>
    /\ UNCHANGED envVars

\* No dump running: go on to launch one. (logsystemstate_available is
\* taken to be set: without it start_dumpstate_srv returns 0 at once,
\* storing nothing, as StartBusy does without the busy file.)
StartCheck(t, k) ==
    /\ CanStart(t, k)
    /\ service = "stopped"
    /\ used' = used \cup {k}
    /\ pc' = [pc EXCEPT ![t] = "launch"]
    /\ arg' = [arg EXCEPT ![t] = k]
    /\ UNCHANGED <<gkey, indexProd, indexCons, tmp, watched, busy,
                   registered, notified, direct>>
    /\ UNCHANGED envVars

\* property_set(storage.path); start_daemon (a no-op when the service is
\* already running); inotify_add_watch, returning -1 when it fails. The
\* property is set on every launch; storagePath is the directory of the
\* running dump, which a dump already started keeps (dumpstate is not in
\* the repository and is taken to read the path when it starts).
StartLaunch(t) ==
    /\ pc[t] = "launch"
    /\ IF service = "stopped"
         THEN /\ service' = "running"
              /\ storagePath' = arg[t]
              /\ written' = 0
              /\ toWrite' \in DumpOutputs
         ELSE UNCHANGED <<service, storagePath, written, toWrite>>
    /\ \/ /\ watched' = watched \cup {arg[t]}
          /\ pc' = [pc EXCEPT ![t] = "load"]
          /\ UNCHANGED <<arg, direct>>
       \/ /\ WatchMayFail
          /\ UNCHANGED watched
          /\ StartReturns(t, arg[t], -1)
    /\ UNCHANGED <<gkey, indexProd, indexCons, tmp, queue, booted, dumped,
                   busy, used, registered, notified>>

\* index_prod = (index_prod + 1) % DIM(gcurrent_key): the load ...
StartLoad(t) ==
    /\ pc[t] = "load"
    /\ tmp' = [tmp EXCEPT ![t] = indexProd]
    /\ pc' = [pc EXCEPT ![t] = "store"]
    /\ UNCHANGED <<gkey, indexProd, indexCons, arg, watched, busy, used,
                   registered, notified, direct>>
    /\ UNCHANGED envVars

\* Seeded variant: the store without the modulo.
StartStoreNoMod(t) ==
    /\ pc[t] = "store"
    /\ indexProd' = tmp[t] + 1
    /\ pc' = [pc EXCEPT ![t] = "write"]
    /\ UNCHANGED <<gkey, indexCons, arg, tmp, watched, busy, used,
                   registered, notified, direct>>
    /\ UNCHANGED envVars

\* ... and the store.
StartStore(t) ==
    /\ pc[t] = "store"
    /\ indexProd' = (tmp[t] + 1) % N
    /\ pc' = [pc EXCEPT ![t] = "write"]
    /\ UNCHANGED <<gkey, indexCons, arg, tmp, watched, busy, used,
                   registered, notified, direct>>
    /\ UNCHANGED envVars

\* Seeded variant: the key is written at the slot index_prod had before the
\* increment.
StartWriteOldIndex(t) ==
    /\ pc[t] = "write"
    /\ gkey' = [gkey EXCEPT ![tmp[t]] = arg[t]]
    /\ registered' = registered \cup {arg[t]}
    /\ StartReturns(t, arg[t], 1)
    /\ UNCHANGED <<indexProd, indexCons, tmp, watched, busy, used, notified>>
    /\ UNCHANGED envVars

\* strncpy(gcurrent_key[index_prod], key, ...), reading index_prod again.
StartWrite(t) ==
    /\ pc[t] = "write"
    /\ gkey' = [gkey EXCEPT ![indexProd] = arg[t]]
    /\ registered' = registered \cup {arg[t]}
    /\ StartReturns(t, arg[t], 1)
    /\ UNCHANGED <<indexProd, indexCons, tmp, watched, busy, used, notified>>
    /\ UNCHANGED envVars

-----------------------------------------------------------------------------
(* finalize_dropbox_pending_event, on the dispatch thread, for the oldest  *)
(* close-write event of gfile_monitor_fd.                                  *)

\* No key pending at index_cons: drop the event.
FinalizeDrop ==
    /\ pc[Main] = "idle"
    /\ queue /= <<>>
    /\ gkey[indexCons] = NoKey
    /\ queue' = Tail(queue)
    /\ UNCHANGED <<gkey, indexProd, indexCons, pc, arg, tmp, service,
                   storagePath, toWrite, written, watched, booted, busy,
                   used, registered, dumped, notified, direct>>

\* Boot not completed: return -1, leaving the key and index_cons as they are.
FinalizeBeforeBoot ==
    /\ pc[Main] = "idle"
    /\ queue /= <<>>
    /\ gkey[indexCons] /= NoKey
    /\ ~booted
    /\ queue' = Tail(queue)
    /\ UNCHANGED <<gkey, indexProd, indexCons, pc, arg, tmp, service,
                   storagePath, toWrite, written, watched, booted, busy,
                   used, registered, dumped, notified, direct>>

\* Seeded variants of FinalizeAnnounce: the key at index_prod is announced;
\* index_cons is not advanced; the slot is not cleared.
FinalizeAnnounceProdSlot ==
    /\ pc[Main] = "idle"
    /\ queue /= <<>>
    /\ gkey[indexCons] /= NoKey
    /\ booted
    /\ notified' = Append(notified, [key |-> gkey[indexProd], dir |-> Head(queue)])
    /\ gkey' = [gkey EXCEPT ![indexCons] = NoKey]
    /\ indexCons' = (indexCons + 1) % N
    /\ queue' = Tail(queue)
    /\ UNCHANGED <<indexProd, pc, arg, tmp, service, storagePath, toWrite,
                   written, watched, booted, busy, used, registered, dumped, direct>>

FinalizeAnnounceNoAdvance ==
    /\ pc[Main] = "idle"
    /\ queue /= <<>>
    /\ gkey[indexCons] /= NoKey
    /\ booted
    /\ notified' = Append(notified, [key |-> gkey[indexCons], dir |-> Head(queue)])
    /\ gkey' = [gkey EXCEPT ![indexCons] = NoKey]
    /\ queue' = Tail(queue)
    /\ UNCHANGED <<indexProd, indexCons, pc, arg, tmp, service, storagePath,
                   toWrite, written, watched, booted, busy, used, registered,
                   dumped, direct>>

FinalizeAnnounceNoClear ==
    /\ pc[Main] = "idle"
    /\ queue /= <<>>
    /\ gkey[indexCons] /= NoKey
    /\ booted
    /\ notified' = Append(notified, [key |-> gkey[indexCons], dir |-> Head(queue)])
    /\ indexCons' = (indexCons + 1) % N
    /\ queue' = Tail(queue)
    /\ UNCHANGED <<gkey, indexProd, pc, arg, tmp, service, storagePath, toWrite,
                   written, watched, booted, busy, used, registered, dumped, direct>>

\* Announce gcurrent_key[index_cons], clear it, advance index_cons.
FinalizeAnnounce ==
    /\ pc[Main] = "idle"
    /\ queue /= <<>>
    /\ gkey[indexCons] /= NoKey
    /\ booted
    /\ notified' = Append(notified, [key |-> gkey[indexCons], dir |-> Head(queue)])
    /\ gkey' = [gkey EXCEPT ![indexCons] = NoKey]
    /\ indexCons' = (indexCons + 1) % N
    /\ queue' = Tail(queue)
    /\ UNCHANGED <<indexProd, pc, arg, tmp, service, storagePath, toWrite,
                   written, watched, booted, busy, used, registered, dumped, direct>>

\* Crashreport is not installed, or the notifier thread is not created
\* (pthread_create returns a positive error, which the "ret < 0" test
\* misses): nothing is announced, yet the slot is cleared and index_cons
\* advances.
FinalizeUnannounced ==
    /\ pc[Main] = "idle"
    /\ queue /= <<>>
    /\ gkey[indexCons] /= NoKey
    /\ booted
    /\ NotifyMayFail
    /\ gkey' = [gkey EXCEPT ![indexCons] = NoKey]
    /\ indexCons' = (indexCons + 1) % N
    /\ queue' = Tail(queue)
    /\ UNCHANGED <<indexProd, pc, arg, tmp, service, storagePath, toWrite,
                   written, watched, booted, busy, used, registered, dumped,
                   notified, direct>>

Finalize ==
    FinalizeDrop \/ FinalizeBeforeBoot \/ FinalizeAnnounce \/ FinalizeUnannounced

-----------------------------------------------------------------------------
(* Environment: the dumpstate service and init.                            *)

\* The running dump closes one file in its directory; the event is queued
\* when the directory is watched.
DumpWrite ==
    /\ service = "running"
    /\ written < toWrite
    /\ written' = written + 1
    /\ queue' = IF storagePath \in watched THEN Append(queue, storagePath) ELSE queue
    /\ dumped' = IF written + 1 = toWrite THEN dumped \cup {storagePath} ELSE dumped
    /\ UNCHANGED <<gkey, indexProd, indexCons, pc, arg, tmp, service,
                   storagePath, toWrite, watched, booted, busy, used,
                   registered, notified, direct>>

\* The service exits; init sets the property back to "stopped".
DumpExit ==
    /\ service = "running"
    /\ written = toWrite
    /\ service' = "stopped"
    /\ storagePath' = NoKey
    /\ UNCHANGED <<gkey, indexProd, indexCons, pc, arg, tmp, toWrite, written,
                   watched, queue, booted, busy, used, registered, dumped,
                   notified, direct>>

Boot ==
    /\ ~booted
    /\ booted' = TRUE
    /\ UNCHANGED <<gkey, indexProd, indexCons, pc, arg, tmp, service,
                   storagePath, toWrite, written, watched, queue, busy, used,
                   registered, dumped, notified, direct>>

-----------------------------------------------------------------------------
StartStep(t) == StartLaunch(t) \/ StartLoad(t) \/ StartStore(t) \/ StartWrite(t)

Next ==
    \/ \E k \in Keys : HandleNoDir(k) \/ \E w \in Workers : HandOff(k, w)
    \/ \E w \in Workers : BtRun(w)
    \/ \E t \in Threads, k \in Keys : StartBusy(t, k) \/ StartCheck(t, k)
    \/ \E t \in Threads : StartStep(t)
    \/ Finalize
    \/ DumpWrite
    \/ DumpExit
    \/ Boot

\* A thread inside dump_bt_all or start_dumpstate_srv runs on; the dumpstate
\* service runs to its end; the dispatch thread keeps reading
\* gfile_monitor_fd; boot completes. New crashes are not forced to happen.
Fairness ==
    /\ \A t \in Threads : WF_vars(StartStep(t))
    /\ \A w \in Workers : WF_vars(BtRun(w))
    /\ \A w \in Workers : WF_vars(StartBusy(w, arg[w]) \/ StartCheck(w, arg[w]))
    /\ WF_vars(Finalize)
    /\ WF_vars(DumpWrite)
    /\ WF_vars(DumpExit)
    /\ WF_vars(Boot)

Spec == Init /\ [][Next]_vars /\ Fairness

-----------------------------------------------------------------------------
(* Properties                                                              *)

AnnouncedKeys == [i \in DOMAIN notified |-> notified[i].key]

TypeOK ==
    /\ gkey \in [Slots -> Keys \cup {NoKey}]
    /\ indexProd \in Slots /\ indexCons \in Slots
    /\ pc \in [Threads -> {"idle", "bt", "call", "launch", "load", "store", "write"}]
    /\ arg \in [Threads -> Keys \cup {NoKey}]
    /\ tmp \in [Threads -> Slots]
    /\ service \in {"stopped", "running"}
    /\ storagePath \in Keys \cup {NoKey}
    /\ written \in Nat /\ toWrite \in DumpOutputs \cup {0}
    /\ watched \subseteq Keys
    /\ queue \in Seq(Keys)
    /\ booted \in BOOLEAN
    /\ busy \subseteq Keys \X (Keys \cup {NoKey})
    /\ registered \subseteq used /\ used \subseteq Keys /\ dumped \subseteq Keys
    /\ notified \in Seq([key : Keys, dir : Keys])
    /\ direct \in Seq(Keys)

\* CRASH_LOGS_COPY_FINISHED is broadcast for a key only when the close-write
\* that triggered finalize_dropbox_pending_event came from that key's own
\* directory and that key's dump has closed all its files (spec 9 doubts
\* this, as the ring matches by order and not by directory).
AnnounceMatchesCompletedDump ==
    \A i \in DOMAIN notified :
        /\ notified[i].key = notified[i].dir
        /\ notified[i].key \in dumped

\* CRASH_LOGS_COPY_FINISHED is broadcast at most once per key, counting both
\* senders: finalize clears the slot it announces before index_cons comes
\* back to it, and dump_bt_all broadcasts a key itself only when its
\* start_dumpstate_srv did not store the key in the ring.
NoDoubleAnnounce == IsInjective(AnnouncedKeys \o direct)

\* The keys still in the ring, read from index_cons onwards.
RingWaiting ==
    SelectSeq([j \in 1 .. N |-> gkey[(indexCons + j - 1) % N]],
              LAMBDA x : x /= NoKey)

Q == INSTANCE DumpstateQueue WITH waiting <- RingWaiting, announced <- AnnouncedKeys

\* The ring implements the FIFO queue of spec 4.5/8: start appends, each
\* completion announces the oldest started key.
QueueRefinement == Q!QSpec

\* Every key stored in the ring by start_dumpstate_srv is eventually announced.
EveryRegisteredAnnounced ==
    \A k \in Keys : k \in registered ~> k \in Range(AnnouncedKeys)
=============================================================================

# TLA+ models of the crashlog storage and correlation engine

This directory holds TLA+ models of the storage and event-correlation core of the
`crashlogd` daemon in `src/crashlog/`, and the TLC configurations that check them.
Every definition is translated from the C source. `PROJECT.json` maps each
definition to the lines it models, lists the runs, the mutants that show each
property can fail, the findings and the hazards.

## 1. Inventory

### 1.1 Components

| Component | Source | State it keeps | Operations |
|---|---|---|---|
| QuotaGuard | `fsutils.c` `check_free_space_available`, `get_path_size` | none (a running total `total_size` guarded by a mutex during the walk) | `check_free_space_available(path, req)` |
| SlotAllocator | `fsutils.c` `read_file`, `update_file`, `reset_file`, `get_sdcard_paths`, `reserve_crash_folder`, `rmfr_match`, `rmfr_specific`, `create_crash_folder`, `generate_crashlog_dir`, `find_new_crashlog_dir` | one persisted counter file per counter (`CRASH_CURRENT_LOG` shared by modes CRASH, CRASH_NOSD and KDUMP; one each for APLOGS, BZ, STATS); the slot directories on disk; the static `partlogfull_errorset` | reserve a slot (`generate_crashlog_dir`), reserve an index only (`find_new_crashlog_dir`) |
| CircularCopier | `fsutils.c` `do_copy_circular`, `do_copy_tail` (callers `copy_aplogs`, `copy_bplogs`, `do_logs_copy`) | the copy loop's index and remaining budget; the source rotation files (owned by the log rotator) | `do_copy_circular` |
| DedupCorrelator | `dropbox.c` `manage_duplicate_dropbox_events`, `extract_dropbox_timestamp` | static `previous_event_cookie`, `previous_filename` | one call per inotify event of a dropbox-type watch (from `process_lost_event`, `process_anruiwdt_event`, `priv_process_usercrash_event`) |
| DumpstateCoordinator | `dropbox.c` `start_dumpstate_srv`, `finalize_dropbox_pending_event`, `finalize_dropbox_system_thread`; callers `anruiwdt.c` `dump_bt_all`, `process_anruiwdt_event`, `usercrash.c` `priv_process_usercrash_event` | ring `gcurrent_key[2]`, static cursors `index_prod` (starts at 1) and `index_cons` (starts at 0); external: property `PROP_LOGSYSTEMSTATE`, the inotify watches on crash directories, `PROP_BOOT_STATUS` | `start_dumpstate_srv` (dispatch thread or a `dump_bt_all` worker thread), `finalize_dropbox_pending_event` (dispatch thread) |
| Backtrace worker | `anruiwdt.c` `dump_bt_all`, `bt_fork_run` | static mutex `run_once`; a forked child polled 1200 x 100 ms | trylock/collect/kill on timeout; then raise the event and start dumpstate |
| Command runner | `utils.c` `run_command`, `run_command_array` | a forked child polled `timeout*10` x 100 ms | run with timeout, kill and reap |
| ECC handler | `intel_specific/intel_ecc_handler.c` | list of watched counters with their last count; persisted backup file `ecc_count_backup` | `ecc_count_handle`, `restore_count`, `fatal_ecc_err_check`, `ecc_event_handle` |
| Event handlers | `anruiwdt.c`, `usercrash.c`, `trigger.c`, `dropbox.c` `process_lost_event` | none of their own | call the core: dedup, reserve, copy, start dumpstate, raise event |
| Line readers | `fsutils.c` `readline`, `cache_file`, `quicksort`, `count_lines_in_file`, `find_*_in_file`, `get_value_in_file` | none (a file read line by line) | one call |
| Triggers | `trigger.c` `process_log_event` | none beyond the trigger file | aplog / bz packet copy |
| Config loader | `config_handler.c` | linked list of generic configs | load/store/free |
| Partition checks, FW crashlog, last VMM log | `intel_specific/check_partition.c`, `intelfwcrash.c`, `last_vmm_log.c` | the static `partition_notified` latch; the persisted `FACTORY_SUM_FILE` | mount check (repeated), factory checksum, read-only checks and copies |
| Log readers | `log-watch/*.cpp, *.h` | a socket or logd list | `get()` reads one item |

### 1.2 How they interact

A single dispatch thread (its `select` loop is outside `src/`) drains inotify
events and calls the event handlers synchronously. A handler first runs the event
through DedupCorrelator (dropbox-type watches), then asks SlotAllocator for a
fresh directory (`generate_crashlog_dir`), copies the triggering file
(`do_copy_tail`) and the rotated logs (`do_log_copy` -> CircularCopier), raises
the event and, in FULL_REPORT builds, calls `start_dumpstate_srv`. For ANR and
UI watchdog events with CONFIG_BTDUMP the rest of the handler runs on a
`dump_bt_all` worker thread, which calls `start_dumpstate_srv` concurrently with
the dispatch thread. The dumpstate service writes its output into the crash
directory; the close-write event arrives on `gfile_monitor_fd` and the dispatch
thread calls `finalize_dropbox_pending_event`, which takes the key at the
consumption cursor (not the key of the directory) and broadcasts
`CRASH_LOGS_COPY_FINISHED` for it on a new thread.

Shared state: the counter files (SlotAllocator, across restarts), the ring and
its cursors (DumpstateCoordinator, across threads), the pending rename
(DedupCorrelator, across events), the system properties
`vendor.logsystemstate` and `sys.boot_completed` (written by init).

### 1.3 What is hard

* Interleavings of the dispatch thread and `dump_bt_all` workers inside
  `start_dumpstate_srv`: a check-then-act on the "running" property, and an
  unsynchronised read-modify-write of `index_prod` and `gcurrent_key`.
* Ordering: the ring matches completions to keys by arrival order only; a
  completion dropped before boot, a dump that never writes, or a dump that
  writes two files shifts every later match; a third start before two
  completions overwrites a pending slot.
* Crash and restart: counter files persist, everything else (ring, pending
  rename) is lost; a restart between reserving an index and creating the
  directory.
* Partial failure: `rmfr_match` results are ignored; `mkdir` failing after the
  old slot was already removed; `statfs` failing in the quota check.
* Unreliable delivery: an inotify queue overflow drops one half of a rename pair.
* Numeric edges: cookie 0 is the "nothing pending" sentinel; the millisecond
  strip in `extract_dropbox_timestamp` depends on the timestamp length.

### 1.4 What makes each component correct

* SlotAllocator: a reservation never removes a directory reserved by one of the
  last `gmaxfiles` advances of its counter (retention window); no two live
  directories of one base directory share an index; restarts never break either.
* DumpstateCoordinator: a key is announced as finished only after its dump
  completed; keys are announced in the order their dumps started (FIFO, spec
  4.5/8); no key is announced twice.
* DedupCorrelator: a move pair yields exactly one informational record and no
  crash event; a lone moved-to is processed as a crash.
* CircularCopier: never more than the budget in total; stops at the first
  missing backup; copies every contiguous backup until the budget is spent.
* Command runner: the child execs the reference split of the command line; every call
  returns within its timeout plus the death of the killed child, leaves no
  zombie, and returns a status only for the command's own exit.
* Config loader: the list holds every modem section the loop read and
  stored, once, in file order.
* QuotaGuard: agrees with the formula of spec 4.1, failing closed on a `statfs`
  error.
* Partition checks: a complete set of mounts is never reported missing, and
  the `partition_notified` latch makes one call report.

## 2. Plan and status

| Part | Module(s) | Status |
|---|---|---|
| DumpstateCoordinator with the ANR/UIWDT and user-crash handlers' calls and `dump_bt_all` | `DumpstateRing`, abstract `DumpstateQueue`, `MCDumpstateRing` | modelled |
| SlotAllocator | `SlotAllocator`, `MCSlotAllocator` | modelled |
| DedupCorrelator | `Dedup`, `MCDedup` | modelled |
| Dropbox timestamp | `DropboxTimestamp`, `MCDropboxTimestamp` | modelled |
| QuotaGuard | `QuotaGuard`, `MCQuotaGuard` | modelled |
| CircularCopier | `CircularCopier`, `MCCircularCopier` | modelled (`do_logs_copy` and its wrappers are not) |
| ECC monitor | `EccMonitor`, `MCEccMonitor` | modelled |
| Line readers | `LineCache`, `MCLineCache` | partly (the `fgets` readers are not) |
| Triggers (`process_aplog_event`, `process_log_event`, `process_stat_event`) | `LogTrigger`, `MCHandlers` | modelled |
| User-crash handlers (`process_usercrash_event`, `process_hprof_event`, `process_apcore_event`) | `UserCrash`, `MCHandlers` | partly (the copies of `process_anruiwdt_event`, `bt_fork_run`, `do_copy_pvr` are not) |
| Command runner (`run_command`, `run_command_array`) | `RunCommand`, `MCHandlers` | partly (`dump_system_information`, `get_logger_path` are not) |
| Config loader (`load_config`, `store_config`, `generic_add_watch`, `get_generic_config`) | `ConfigLoader`, `MCHandlers` | modelled |
| Partition checks (`check_mounted_partitions`, `check_factory_partition_checksum`) | `Partitions`, `MCHandlers` | partly (the FW crashlog and VMM log checks are not) |
| FW crashlog and VMM log checks, log-watch | - | not modelled (section 5) |

Every module keeps the control of the functions it models (each guard, early
return and error path) and abstracts data: crash keys, names and counters are
model values or small integers; a file is a sequence of a few byte values; a
path is the base directory and index it encodes.

## 3. Modules

### DumpstateRing (dropbox.c, anruiwdt.c, usercrash.c, utils.c)

State: `gkey` is `gcurrent_key` (a function over `0..N-1`, `NoKey` for an empty
slot), `indexProd`/`indexCons` the two static cursors, `pc`/`arg`/`tmp` the
position, key and loaded `index_prod` of each thread (`Main`, the dispatch
thread, and `Workers`, the `dump_bt_all` threads). The environment is the
dumpstate service (`service`, `storagePath`, `toWrite`, `written`), the watches
on `gfile_monitor_fd` (`watched`) and the close-write events they queue
(`queue`), and `booted` (`sys.boot_completed`). History variables record the
keys used, stored, dumped, announced by finalize (`notified`, with the directory
of the triggering event) and broadcast by `dump_bt_all` itself (`direct`).

Actions:
* `HandleNoDir`, `HandOff`: `process_anruiwdt_event` when
  `generate_crashlog_dir` fails, and when it hands the key to a new
  `dump_bt_all` thread. `MainHandles` is the dispatch thread starting a dump for
  a new key itself (`priv_process_usercrash_event`, or the ANR handler without a
  backtrace thread), ignoring the result.
* `BtRun`: `dump_bt_all` after the backtrace dump: no notification when
  `is_crashreport_available` says no (`CrashreportMay`: before boot, or a failing
  package check), the broadcast for a UIWDT, and the call of
  `start_dumpstate_srv` for an ANR. `StartReturns` is its tail: broadcast when
  start returned `<= 0`.
* `StartBusy`, `StartCheck`, `StartLaunch`, `StartLoad`, `StartStore`,
  `StartWrite`: `start_dumpstate_srv`, split at every point another thread can
  interleave (the property check, the launch with its watch, the load and store
  of `index_prod`, the `strncpy` into the slot).
* `FinalizeDrop`, `FinalizeBeforeBoot`, `FinalizeAnnounce`,
  `FinalizeUnannounced`: the four outcomes of `finalize_dropbox_pending_event`
  for the oldest close-write event.
* `DumpWrite`, `DumpExit`, `Boot`: the environment.

`DumpstateQueue` is the abstract promise of spec 4.5/8: a FIFO of started keys,
each completion announcing the oldest. `QueueRefinement` checks the ring against
it through `INSTANCE DumpstateQueue WITH waiting <- RingWaiting, announced <-
AnnouncedKeys`.

Fairness: weak fairness on every step of a thread inside `dump_bt_all` or
`start_dumpstate_srv` (threads are scheduled), on finalize (the dispatch thread
keeps reading `gfile_monitor_fd`), on the dumpstate service running to its end,
and on boot. New crashes are not forced.

### SlotAllocator (fsutils.c)

`counter` is the content of each counter file (absent until first written),
`dirs` the slot directories of each base directory, `pending` a reservation
whose counter was advanced but whose directory is not yet made (the point where
the daemon can die), `serial` the keys handed out and `advances` a ghost count
of each counter's advances. `ReserveFolder`/`ReserveFails` are
`reserve_crash_folder` (quota check, `read_file`, `update_file`);
`CreateSlotDir` is the rest of `generate_crashlog_dir` (`rmfr_match` of the
slot, which may leave part of it, then `mkdir`, which may fail);
`CreateIndexDir` is `find_new_crashlog_dir`; `Restart` loses the pending
reservation. `SdChoices` is `get_sdcard_paths`. A counter file may start at
`Stale` (`gmaxfiles`), a value written under a larger `gmaxfiles` that
`read_file`'s `"%4u"` takes as is.

### Dedup (dropbox.c)

`manage_duplicate_dropbox_events` over an inotify queue. `prevCookie`/`prevName`
are its statics; `RecordMovedFrom`, `MatchMovedTo` and `PassThrough` are its
three outcomes, taken by `Dispatch` for the oldest event. The environment
renames files (a MOVED_FROM/MOVED_TO pair with a fresh cookie, whose second half
may arrive late when `PairsMayInterleave`), creates files and moves them out.

### DropboxTimestamp, QuotaGuard (dropbox.c, fsutils.c)

Pure functions as operators: `Extract` is `extract_dropbox_timestamp` (with
`FindFrom` for `strchr` and `Atol`), `CheckFreeSpace` is
`check_free_space_available` with `GetPathSize` and `AvailablePortion`. One
`Call`/`Check` step evaluates them on an input chosen in `Init`, and the
property compares the result with the rule of the spec (`SpecTimestamp`,
`HasSpace`).

### CircularCopier (fsutils.c)

`do_copy_circular` one loop iteration per step (`CopyFirst` for index 0,
`CopyNext`, `LoopExit`), `CopyTail` and `TailBytes` being `do_copy_tail`:
a missing file, or, on a present one, a failing `open` or `sendfile` (-1,
`Fails`, which ends the call), or `sendfile` sending all of the tail or,
on a full destination, fewer bytes (`Results`, `Copied`, after which the
loop goes on). `failed` records the present file whose copy failed. The
log rotator (`Rotate`) renames the files between two steps, as `logcat -r`
does while a copy runs.

### EccMonitor (intel_specific/intel_ecc_handler.c)

`sysfs` holds the hardware counters, `mem` the daemon's `data.count`, `exists`
and `backup` the file `ecc_count_backup`, `stream` the lines a pending
`set_backup_count` will write, `reported` (ghost) the count of each counter's
last ECC event. `Start` is `init_ecc_handler` followed by `restore_count` or
`fatal_ecc_err_check`; `Poll` is one `ecc_count_handle` pass; `WriteBackup` is
`set_backup_count` (truncate, then write; the open may fail); `HwError` is the
memory controller; `Crash` kills the daemon at any step, leaving a truncated
backup if it dies inside `set_backup_count`. Weak fairness on `Start` (init
restarts the daemon), on a `Poll` whose reads succeed and on `WriteBackup`: the
main loop keeps polling.

### LogTrigger (trigger.c)

One behaviour is one call of a handler, its inputs chosen in `Init`: the
trigger file (present or not, its `APLOG=` and `BPLOG=` lines as the atoi of
their values), the two properties, and which aplog files exist (index 0 is
`APLOG_FILE_0`, index `i` the rotated `APLOG_FILE_0.<i>`). `LogStart` is the
head of `process_log_event`: the values of the trigger file or the
properties (`NonNeg` is the clamp of negative values), and `flush_aplog`,
which may fail to produce a new `APLOG_FILE_0`. `CopyLog` is one iteration of
the inner loop (break on a missing aplog, a directory per packet in APLOG
mode or per call in BZ mode, the `return -1` when `generate_crashlog_dir`
fails, the copy), `PacketEnd` the end of a packet (the event and the reset of
`dir` in APLOG mode), `LogFinish` the BZ tail and `Cleanup` the removal of
`APLOG_FILE_0` and of the trigger file. `StatNoDir` and `StatEvent` are the two
outcomes of `process_stat_event`. `snap` (ghost) is the set of aplogs the loop
sees, `events` the events raised. The reference `Promised` is written from the
header comment of `process_log_event`: one event per packet holding the
packet's aplogs up to the first missing one, or one event with all of them.

### UserCrash (usercrash.c)

One behaviour is one call of a handler, its inputs chosen in `Init`: the event
kind (tombstone, javacrash, javacrash2, javatombstone, hprof, apcore), the file
name as a sequence of tokens (digit runs, `"_"`, `"."`, other text), whether
the event is a duplicate or fake, whether the source is larger than the tail
limit, and the result of each copy (`ok`, `short`, `fail`). `CoredumpDisabled`
is `process_hprof_event` with coredumps off. `Ignored` is the two early
returns of `priv_process_usercrash_event` (a duplicate java crash, a tombstone
`.pb`); `UsercrashGoes`, `UsercrashNoDir` and `UsercrashEvent` are the rest of
it: the directory, the tail copy (`TailCopy`), the removal of an hprof source,
the dumpstate start for a tombstone or java crash, and the event.
`ApcoreNoDir`/`ApcoreEvent` are `process_apcore_event`: `Parse` is the
`strchr`/`strrchr` split of the name `<timestamp>_<pid>_<sig>_<executable>.core`
(`StrChr`, `StrRChr`, `CommandOf`), `SignalOf` the `atoi` stored in an
`unsigned char` (so `"267"` is signal 11), `LevelOf` the `switch` that picks
the severity, `DataOf` the `data0`/`data1`/`data3` fields, and `BackupApcore`
is `backup_apcoredump`, which removes the core unless the copy failed.

`MCHandlers` composes `LogTrigger`, `UserCrash`, `RunCommand`,
`ConfigLoader` and `Partitions` in one run: `which` chooses the module of the
behaviour, and the other modules' variables stay at a fixed state (a state
each can be in: the handlers before a call, `run_command` after a failed fork,
`load_config` without a file, the checks before they start). They share no state in the code; the handlers' calls of
`run_command` are abstracted in their own modules to a result.

### RunCommand (utils.c)

`Tokenize` is the in-place tokenizer of `run_command`, loop for loop
(`SplitFrom` with `SkipWs`, `SkipWord`): it records each argument's start and
the positions overwritten with `'\0'`, and an argument runs to the first
`'\0'`. `NoChild` is a failed `strdup` or `fork`; `Fork` forks with
`timeout * 10` polls to go; the child `Exec`s or `ExecFails` (`_exit(-1)`,
wait status 255 << 8), then `ChildExit`s at any time or never; `KilledDies`
is the kernel ending a SIGKILLed child. `Poll` is one `waitpid(WNOHANG)` and
100 ms sleep, `TimeOut` the `kill`, `ReapUntilGone` the
`while (waitpid(...) >= 0)` loop. The `p == -1` branch of the poll loop cannot
be taken on the caller's own unreaped child and is left out.
`ExpectedArgv` is an independent reference split (words by their start
positions, an empty argument after trailing whitespace, the rest of the line
as the last argument past `max_args`).

### ConfigLoader (config_handler.c)

The configuration parser is not in the repository: a configuration is a
sequence of notify sections, each a record of its keys, `Absent` for a key it
lacks, and `get_value_def`'s default written in. `NoConfig` is the missing or
unreadable file; `LoadGeneral` the general keys (`uptime_frequency`,
`sd_size_limit`, `check_modem_version`, `collection_mode_modem`, the VMM
`root_path` truncated to `PATHMAX - 1`); `LoadSection` one iteration of
`load_config_by_pattern`'s loop (`InLoop`: the section has a
`matching_pattern`) calling `store_config` (`StoreConfig`: rejected, a malloc
failure, or `Stored` after `g_current_modem_config`, the config built by
`NewConf`, its path uninitialized when `path_trigger` is missing);
`LoadDone` the end of the loop; `AddWatch` one iteration of
`generic_add_watch`; `GetGenericConfig` a lookup of an event name (`Occurs`
is `strstr`). `oom` records the sections lost to malloc failures.

### Partitions (intel_specific/check_partition.c)

One behaviour is one life of the daemon. `FactoryCheck` is
`check_factory_partition_checksum`: no factory directory or a failed checksum
does nothing; an existing `FACTORY_SUM_FILE` is read (`ReadSum`: the stored
checksum, or, when `fopen` fails or the file is empty and `fread` returns 0,
whatever the uninitialized `old_checksum` held, `Garbage`), compared, and on a
difference FACTORY_SUM is raised and the file rewritten (`WriteSum`: `fopen`
fails, or the file is truncated and the unchecked `fwrite` writes all or
nothing); a missing file is created. Then `Call` is a call of
`check_mounted_partitions` on the current `/proc/mounts` (one of `Tables`):
it returns at once when `partition_notified` is cleared, `fopen` may fail,
else `ScanEntry` is one line of the `fscanf` loop (a by-name mount whose dir
starts with a mount point, `CountsAsPartition`, is counted and `strncat`'d
within the 255 characters left, `Used`; a `/logs` mount with `"ro,"` raises
LOGS_RO) and `EndOfMounts` the EOF pass and the decision (fewer than five
counted: LOGS_MISSING when `strstr` finds no `"/logs"` in the list,
`LogsListed`, else PARTITIONS_MISSING; an error clears
`partition_notified`). A mount's dir is its first path component (`base`)
and the rest (`ext`), which is all that the prefix `strncmp`, the `strstr`
and the lengths depend on. `notify_partition_error` is not in the repository;
it is taken to return 0, as the comment at check_partition.c:65 says.

### LineCache (fsutils.c)

`ReadFrom`/`ReadLine` is `readline` (the byte read when the buffer is full is
lost, as in the code); `QuickSort` with `QsIndexes`, `QsPartition`, `QsSwap` is
`quicksort`; `StartLoop`, `TailLoop` and `CacheFile` are `cache_file`;
`CountLoop`, `OneOfLoop`, `KeywordLoop` and `StandardLoop` are
`count_lines_in_file` and the three readline-based searches, `Strip` the
removal of the trailing `'\n'` and `StrStr` the `strstr` test. One `Call` step
evaluates the chosen function; the references (`Lines`, `After`, `Promised`)
split the file into lines independently of `readline`.

## 4. Runs

| Run | Checks | Bounds | Result |
|---|---|---|---|
| `ring_fifo` | `AnnounceMatchesCompletedDump`, `QueueRefinement`, `EveryRegisteredAnnounced` | dispatch thread only, ring of 2, 2 keys, booted, one file per dump, watch may fail | pass, 156 states |
| `ring_general` | `TypeOK`, `NoDoubleAnnounce` | dispatch thread and one worker, 3 keys, dumps of 0-2 files, boot pending, directory/watch/notification failures | pass, 778,665 states |
| `ring_boot` | `AnnounceMatchesCompletedDump` | dispatch thread, boot pending | violation (finding) |
| `ring_race` | `AnnounceMatchesCompletedDump` | dispatch thread and one worker, booted | violation (finding) |
| `slot_rotation` | `TypeOK`, `RetentionWindow` | CRASH, CRASH_NOSD, KDUMP on the shared counter, 3 slots, 6 keys, sdcard, a counter file out of range, removals that fail | pass, 90,585 states |
| `dedup` | `TypeOK`, `NoFalseCrash`, `NothingLostWhenDrained`, `InfoOnlyForRenames` | 4 names, 4 cookies, split pairs allowed | pass, 795,668 states |
| `quota_io_errors` | `AgreesWithSpec` | statfs and nftw may fail | violation (finding) |
| `copy` | `BudgetRespected`, `CopiesUpToFirstGap` | 3 backups, sizes 0/2/3, budget 5, 2 rotations, start index 0 and 1, copies of a present file failing or short | pass, 320,658 states |
| `cache_lines` | `TailIsLastLines`, `StartIsFirstLines`, `SearchesFindLines` | files of up to 4 lines (empty, 1-3 bytes, one line over the 4-byte buffer), last line with or without `'\n'`, maxrecords 0-3, offsets 0-2, up to 2 keywords of 1-2 bytes | pass, 702,900 states |
| `triggers` | `TypeOK`, `EventsFollowPackets`, `TriggerKeptUntilHandled`, `UserCrashTypeOK`, `ApcoreFieldsFromName`, `RunTypeOK`, `ArgvAsSplit`, `NoChildLeft`, `StatusOfOwnExit`, `RunReturns`, `ConfigTypeOK`, `LoadedExactlyAccepted`, `PartitionsTypeOK`, `NoFalsePartitionAlarm`, `ErrorsInOneCall` | aplogs 0-4 present or missing, depth and packets -1..2 from the properties, `APLOG=` -1/0/2 or absent, `BPLOG=` 0/1 or absent, failing directories and dumps, stats triggers; every user-crash kind, apcore names of up to 11 tokens (prefixes of `1_2_<sig>_` times tails over `x`, `_`, `.`, `core`), signals 1, 2, 11, 267, copies ok/short/fail; every command line of up to 4 characters over `a`, `b` and a blank, max_args 2, timeouts 0 and 1 s; configurations of up to 3 notify sections of 5 kinds with the general keys absent, -1 or 2 ; two calls of `check_mounted_partitions` over 192 mount tables (every subset of the five mount points after one of six extras) and every factory sum state | pass, 895,978 states |
| `ts_short` | `AgreesWithSpec` | timestamps of 1-4 digits | violation (finding) |
| `ecc` | `NoHiddenError`, `EveryErrorReported` | 2 counters up to 2 errors, 2 deaths, reads and writes may fail | pass, 2,822 states |

What they show:
* The ring is the FIFO of the spec only with a single caller, the boot
  completed and every dump closing exactly one file (`ring_fifo`); before boot
  (`ring_boot`) the first close-write is consumed without consuming the key and
  every later announcement names the previous dump; with `dump_bt_all` racing
  the dispatch thread (`ring_race`) both pass the "running" check and the later
  write overwrites the slot, so a key whose dump never ran is announced.
  Whatever the races and failures, no key is announced twice, counting
  `dump_bt_all`'s own broadcasts (`ring_general`).
* The slot allocator never evicts one of the last `gmaxfiles` reservations
  of its counter, across restarts between the counter update and `mkdir`,
  `mkdir` and `rmfr_match` failures, a counter file left out of range by a
  larger `gmaxfiles`, and sdcard switches (`slot_rotation`).
* The dedup correlator turns only new files and split renames into crashes, and
  loses nothing once the queue drains (`dedup`).
* The quota decision fails open when `statfs` or the size walk fails
  (`quota_io_errors`). Its agreement with spec 4.1 when the I/O succeeds
  (`CheckFreeSpaceStrict`, a `<` for `<=`, is the bug it would catch) is not
  a run of its own.
* The circular copy stays within its budget under rotation, and copies the
  backups in order without it, going on after an empty or short copy and
  stopping only at the first missing backup or failed copy (`copy`).
* The trigger handlers raise the events the header comment of
  `process_log_event` promises, in order and each in a directory of its own,
  and a failing directory leaves the trigger file in place with a prefix of
  the events raised; a trigger file is never deleted with an event missing
  (`triggers`).
* `process_apcore_event` reads the pid, signal and executable of a well-formed
  core name `<timestamp>_<pid>_<sig>_<executable>.core` right even when the
  executable holds `_` or `.` (it ends at the last `.`), and raises the event at
  the severity of the signal; the signal field is never out of `0..255`
  (`triggers`).
* `run_command` passes the child exactly the reference split of the command
  line, returns on every path even when the command never exits (weak
  fairness on the calling thread and on the death of a killed child; none on
  the command), never returns with its child running or a zombie, and returns
  a wait status only for the command's own exit, never for the kill
  (`triggers`).
* `load_config` lists, once each and in file order, every modem section its
  loop read and stored without a malloc failure, with its eventname, pattern
  and path, and keeps the globals in range (`triggers`).
* `check_mounted_partitions` never reports a missing partition for a
  `/proc/mounts` in which all five mount points have a by-name mount, and
  partition errors come from one call only, whatever the mounts do later
  (`triggers`).
* `cache_file` and the searches agree with a line-by-line reference on files
  whose lines fit the buffer (`cache_lines`).
* ECC errors are never taken as reported before an event was raised for them,
  and every error is eventually reported, across deaths and I/O failures
  (`ecc`).

Why the bounds are enough: the ring has the code's size (2), and 3 keys is the
least that overflows it; one worker is enough for every interleaving of two
callers of `start_dumpstate_srv`. Three slots and six keys make the shared
counter wrap twice. Two packets of depth two over aplogs 0-4 give a packet
whose first aplog is missing after one that had its event, a gap inside a
packet, and an aplog past the last packet. Four names and cookies allow two renames in flight. The apcore names cover a
missing separator, a command holding `_` and `.`, a missing `.core`, and a
signal above 255. Command lines of four characters with `max_args` 2 reach a
trailing blank, a blank-only line, leading blanks and a line with more words
than `max_args`; timeout 0 kills before any poll. Three sections give a
valid section after a rejected one and after a stop, and two configs whose
patterns both match an event. The mount tables hold every subset of the
mount points, so every count below five and the complete set; the extras
give a prefix match (`/system_x`), a `"/logs"` inside another dir, a read-only
`/logs`, a mount not by name, and two dirs of 253 and 254 characters that fill
`list_partition` before `/logs`; two calls let an error latch stop a later
call. The
copy bounds reach both loop exits, an empty file, and a failed and a short
copy before the last backup. The line files include an
empty line, a line that fills the buffer and one that overflows it, and a
maxrecords below, at and above the number of lines. Every action and every
disjunct of every next-state relation fires in a passing run.

Every property of a passing run has a mutant in `PROJECT.json` (a dropped
modulo, a missing slot clear, a ring not reordered, a skipped buffer swap, ...)
that TLC finds violating it under the run's configuration.

## 5. Not modelled, and divergences recorded but not run

* The firmware crashlog and VMM log checks and the log-watch readers: see the
  component notes in `PROJECT.json`.
* `check_mounted_partitions` counts mounts whose dir starts with a mount
  point (check_partition.c:47), not mount points: a `/system_x`, a
  `/cache/logs` or a second mount of one partition makes up for a missing
  `/logs` or `/factory`, and no error is raised. `list_partition` is cut at
  255 characters, so long by-name dirs before `/logs` turn a mounted `/logs`
  into LOGS_MISSING; TLC reaches both on `SmallTables`. `"ro,"` also matches
  `errors=remount-ro,` and misses `ro` as the last option. Only the sound
  direction (`NoFalsePartitionAlarm`) is run.
* `check_factory_partition_checksum` after a failed read or an empty sum file
  (left by an unchecked `fwrite`, fsutils.c:1993) compares the checksum with
  uninitialized bytes (check_partition.c:146-151): the event may be raised
  for nothing or a change missed. The model makes that compare a choice.
* `run_command` splits on blanks only and execs with no shell: the trailing
  blank of `"/system/bin/dmesg "` (intel_ecc_handler.c:424) adds an empty
  argument, and `"gzip <dir>/[ab]plog*"` (trigger.c:45) is not globbed.
  A command that exits between the last poll and the kill has its status
  thrown away and -1 returned.
* `load_config_by_pattern` stops at the first notify section without
  `matching_pattern` (config_handler.c:217), so later sections are never
  loaded; `store_config` leaves `path` uninitialized when `path_trigger` is
  missing (config_handler.c:173), and `generic_add_watch` reads it. The model
  lets that path read as empty or as garbage whose watch fails.
* `rmfr_match`'s result is ignored (fsutils.c:699): when it fails, the old
  directory of a slot stays next to the new one of the same index, against
  spec 8's one directory per slot. The rotation run lets removals fail and
  checks only the retention window; the coexistence follows from the ignored
  result and is not run.
* `do_copy_circular` stops at the first failing `do_copy_tail` on a present
  backup (fsutils.c:1286-1287), as spec 4.3 allows; a short `sendfile` on a
  full destination is not an error and the loop goes on to the next backup.
* `cache_file` with an offset in CACHE_START returns `maxrecords` for a long
  file although only `maxrecords - offset` records were filled (fsutils.c:1472;
  TLC finds `ret = 2` with one record for offset 1, maxrecords 2). The run
  checks the records only.
* `readline` loses the byte read when the buffer is full (fsutils.c:241), so a
  long line is split and shortened; the properties are stated for lines that
  fit.
* `fatal_ecc_err_check` builds `"/vendor/bin/rm" + path` without a space
  (intel_ecc_handler.c:394), so the backup is never removed.
* `get_value_in_file` copies the value from offset `strlen(keyword)` wherever
  the keyword was found, and accepts a value of exactly `sizemax` bytes without
  a terminator (fsutils.c:493-500); `find_str_in_file` misses a tail on a last
  line without `'\n'` (fsutils.c:456).
* `rmfr_match` failures, the shared crash counter skipping indices of one mode,
  a negative quota property treated as 100, the first file and return value of
  `do_copy_circular`, and a third dumpstate start overflowing the ring are
  listed as hazards with the reason no run states them.
* In BZ mode the directory is made only when `APLOG_FILE_0` exists
  (trigger.c:180-191): when the logcat dump fails, no rotated aplog is copied
  although they exist. `EventsFollowPackets` states the BZ promise only when
  `APLOG_FILE_0` exists.
* `process_log_event` returns the result of reading `BPLOG=`, so a trigger
  without that line returns -1 after being handled completely
  (trigger.c:277); no caller under src reads the value.
* `process_stat_event` removes the data file whatever `do_copy` did, and uses
  `tmp_data_name` uninitialized when no data file matches (trigger.c:315-321).
* `backup_apcoredump` removes the core after a short copy (usercrash.c:47),
  and `priv_process_usercrash_event` removes the hprof source after a tail copy
  whose result it does not check (usercrash.c:119): the only copy of the data
  can be lost. A signal field above 255 wraps in the `unsigned char`
  (usercrash.c:225), so `"267"` is reported as SIGSEGV.
* The dispatch thread ignores `start_dumpstate_srv`'s result, so a crash handled
  while a dump runs is never announced; `dump_bt_all` broadcasts in that case.

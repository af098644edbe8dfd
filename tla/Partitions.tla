----------------------------- MODULE Partitions -----------------------------
(***************************************************************************)
(* check_factory_partition_checksum and check_mounted_partitions          *)
(* (intel_specific/check_partition.c). One behaviour is one life of the    *)
(* daemon: the factory checksum is checked once, then the mount check is  *)
(* called up to MaxCalls times, /proc/mounts changing between calls.      *)
(*                                                                         *)
(* A mount entry is [dev, base, ext, ro]: its device is a by-name one or  *)
(* not, its directory is the text base followed by ext (base is the first *)
(* path component, ext the rest), and ro says whether its options contain *)
(* "ro,". /proc/mounts is kernel-generated, so every fscanf matches six   *)
(* fields until EOF. notify_partition_error is not in the repository; the *)
(* comment at check_partition.c:65 says it yields 0, which is taken here. *)
(* calculate_checksum_directory is a choice of ok or failure.             *)
(***************************************************************************)
EXTENDS Integers, Sequences, FiniteSets, SequencesExt

CONSTANTS
    Tables,     \* the contents /proc/mounts may have
    MaxCalls,   \* bound on the calls of check_mounted_partitions
    Checksums   \* the checksums the factory partition may have

VARIABLES
    fsum,      \* FACTORY_SUM_FILE: "none", "empty", or a checksum
    fcur,      \* the checksum of the factory partition at this boot
    fraised,   \* whether FACTORY_SUM was raised
    mounts,    \* /proc/mounts as the current call reads it
    notified,  \* partition_notified (static, initially 1)
    calls,     \* the calls made so far
    i,         \* the entry the fscanf loop is at
    nb,        \* nb_partition
    list,      \* list_partition: the appended dirs and how many chars of each
    output,
    raised,    \* history: the errors raised, with the call and its table
    pc

vars == <<fsum, fcur, fraised, mounts, notified, calls, i, nb, list, output, raised, pc>>

ByName == "by-name"
\* mountpoints[], and the length of the directory texts.
Mountpoints == {"/system", "/cache", "/config", "/logs", "/factory"}
BaseLen == [b \in Mountpoints \cup {"/data"} |->
              CASE b = "/factory" -> 8 [] b \in {"/system", "/config"} -> 7
                [] b = "/cache" -> 6 [] OTHER -> 5]
\* A long tail makes a directory of 255 characters at most (%255s).
ExtLen == [e \in {"", "_x", "/logs", "long"} |->
             CASE e = "" -> 0 [] e = "_x" -> 2 [] e = "/logs" -> 5 [] OTHER -> 247]
DirLen(m) == BaseLen[m.base] + ExtLen[m.ext]

\* The bytes of the uninitialized old_checksum buffer.
Garbage == Checksums \cup {"junk"}

Init ==
    /\ fsum \in {"none", "empty"} \cup Checksums
    /\ fcur \in Checksums
    /\ fraised = FALSE
    /\ mounts = <<>>
    /\ notified = TRUE
    /\ calls = 0 /\ i = 1 /\ nb = 0 /\ list = <<>> /\ output = 1
    /\ raised = <<>>
    /\ pc = "factory"

\* write_binary_file: fopen("wb") fails (file untouched), or truncates the
\* file and fwrite, whose result is ignored, writes all or nothing.
WriteSum == fsum' \in {fsum, fcur, "empty"}

\* read_binary_file: the checksum, or, when fopen fails or the file is
\* empty (fread returns 0, not an error), what the buffer held.
ReadSum == IF fsum \in Checksums THEN {fsum} \cup Garbage ELSE Garbage

\* check_factory_partition_checksum: no factory directory or the checksum
\* fails: nothing; a sum file exists: compare, raise FACTORY_SUM and
\* rewrite on a difference; none: create it.
FactoryCheck ==
    /\ pc = "factory"
    /\ \/ UNCHANGED <<fsum, fraised>>
       \/ /\ fsum /= "none"
          /\ \E old \in ReadSum :
               IF old /= fcur THEN fraised' = TRUE /\ WriteSum
                              ELSE UNCHANGED <<fsum, fraised>>
       \/ fsum = "none" /\ WriteSum /\ UNCHANGED fraised
    /\ pc' = "idle"
    /\ UNCHANGED <<fcur, mounts, notified, calls, i, nb, list, output, raised>>

\* A call: partition_notified cleared returns 1 at once; fopen of
\* /proc/mounts may fail; else the scan starts on the current table.
Call ==
    /\ pc = "idle"
    /\ calls < MaxCalls
    /\ calls' = calls + 1
    /\ mounts' \in Tables
    /\ \/ ~notified /\ UNCHANGED <<i, nb, list, output, pc>>
       \/ notified /\ UNCHANGED <<i, nb, list, output, pc>>
       \/ notified /\ i' = 1 /\ nb' = 0 /\ list' = <<>> /\ output' = 1 /\ pc' = "scan"
    /\ UNCHANGED <<fsum, fcur, fraised, notified, raised>>

Raise(e) == raised' = Append(raised, [call |-> calls, err |-> e, table |-> mounts])

\* check_mounted_partition: the dir starts with a mount point (strncmp on
\* the mount point's length).
CountsAsPartition(m) == m.dev = ByName /\ m.base \in Mountpoints

Used(l) == FoldLeft(LAMBDA a, x : a + x.kept, 0, l)

\* Seeded variant: strcat of the whole dir, with no room check.
ScanAppendWhole ==
    /\ pc = "scan"
    /\ i <= Len(mounts)
    /\ LET m == mounts[i]
       IN  IF CountsAsPartition(m)
           THEN /\ nb' = nb + 1
                /\ list' = Append(list, [dir |-> m, kept |-> DirLen(m)])
                /\ IF m.base = "/logs" /\ m.ro
                   THEN Raise("LOGS_RO") /\ output' = 0
                   ELSE UNCHANGED <<raised, output>>
           ELSE UNCHANGED <<nb, list, raised, output>>
    /\ i' = i + 1
    /\ UNCHANGED <<fsum, fcur, fraised, mounts, notified, calls, pc>>

\* One fscanf line: a by-name partition is counted, strncat'd to the list
\* within its 255 characters, and a /logs mounted "ro," raises LOGS_RO.
ScanEntry ==
    /\ pc = "scan"
    /\ i <= Len(mounts)
    /\ LET m == mounts[i]
           room == 255 - Used(list)
       IN  IF CountsAsPartition(m)
           THEN /\ nb' = nb + 1
                /\ list' = IF room > 0
                           THEN Append(list, [dir |-> m, kept |-> Min({DirLen(m), room})])
                           ELSE list
                /\ IF m.base = "/logs" /\ m.ro
                   THEN Raise("LOGS_RO") /\ output' = 0
                   ELSE UNCHANGED <<raised, output>>
           ELSE UNCHANGED <<nb, list, raised, output>>
    /\ i' = i + 1
    /\ UNCHANGED <<fsum, fcur, fraised, mounts, notified, calls, pc>>

\* strstr(list_partition, "/logs"): the text lies within one dir.
LogsListed ==
    \E k \in 1 .. Len(list) :
        \/ list[k].dir.base = "/logs" /\ list[k].kept >= 5
        \/ list[k].dir.ext = "/logs" /\ list[k].kept >= BaseLen[list[k].dir.base] + 5

\* Seeded variant: nb_partition <= DIM(mountpoints).
EndOfMountsAtMost ==
    /\ pc = "scan"
    /\ i > Len(mounts)
    /\ IF nb <= Cardinality(Mountpoints)
       THEN Raise(IF LogsListed THEN "PARTITIONS_MISSING" ELSE "LOGS_MISSING") /\ output' = 0
       ELSE UNCHANGED <<raised, output>>
    /\ notified' = (notified /\ output' /= 0)
    /\ pc' = "idle"
    /\ UNCHANGED <<fsum, fcur, fraised, mounts, calls, i, nb, list>>

\* Seeded variant: partition_notified is not cleared after an error.
EndOfMountsNoLatch ==
    /\ pc = "scan"
    /\ i > Len(mounts)
    /\ IF nb < Cardinality(Mountpoints)
       THEN Raise(IF LogsListed THEN "PARTITIONS_MISSING" ELSE "LOGS_MISSING") /\ output' = 0
       ELSE UNCHANGED <<raised, output>>
    /\ pc' = "idle"
    /\ UNCHANGED <<fsum, fcur, fraised, mounts, notified, calls, i, nb, list>>

\* EOF (the last pass reads nothing into the cleared mount_dev): fewer
\* partitions than mount points raises LOGS_MISSING when "/logs" is not
\* in the list, else PARTITIONS_MISSING; an error clears
\* partition_notified.
EndOfMounts ==
    /\ pc = "scan"
    /\ i > Len(mounts)
    /\ IF nb < Cardinality(Mountpoints)
       THEN Raise(IF LogsListed THEN "PARTITIONS_MISSING" ELSE "LOGS_MISSING") /\ output' = 0
       ELSE UNCHANGED <<raised, output>>
    /\ notified' = (notified /\ output' /= 0)
    /\ pc' = "idle"
    /\ UNCHANGED <<fsum, fcur, fraised, mounts, calls, i, nb, list>>

Next == FactoryCheck \/ Call \/ ScanEntry \/ EndOfMounts

Spec == Init /\ [][Next]_vars

-----------------------------------------------------------------------------
TypeOK ==
    /\ fsum \in {"none", "empty"} \cup Checksums
    /\ notified \in BOOLEAN
    /\ calls \in 0 .. MaxCalls
    /\ nb \in 0 .. i - 1
    /\ Used(list) <= 255
    /\ pc \in {"factory", "idle", "scan"}

\* Mounted(t, p): table t has a by-name mount exactly at p.
Mounted(t, p) == \E k \in 1 .. Len(t) : t[k].dev = ByName /\ t[k].base = p /\ t[k].ext = ""

\* A missing-partition error (LOGS_MISSING or PARTITIONS_MISSING) is only
\* raised for a /proc/mounts in which some mount point has no by-name
\* mount: the prefix count of check_mounted_partitions
\* (check_partition.c:82-92) never reports a complete set as missing.
NoFalsePartitionAlarm ==
    \A n \in 1 .. Len(raised) :
        raised[n].err \in {"LOGS_MISSING", "PARTITIONS_MISSING"} =>
            \E p \in Mountpoints : ~Mounted(raised[n].table, p)

\* Partition errors are reported by one call only: once a call has raised
\* one, partition_notified (check_partition.c:100-101) stops every later
\* call, whatever /proc/mounts then holds.
ErrorsInOneCall ==
    \A n1, n2 \in 1 .. Len(raised) : raised[n1].call = raised[n2].call
====

---------------------------- MODULE CircularCopier ----------------------------
(***************************************************************************)
(* do_copy_circular(source, destination, extension, extra, limit,          *)
(* start_index, cnt_len) of src/crashlog/fsutils.c, with do_copy_tail.     *)
(*                                                                         *)
(* The source side is a base file, present under its bare name and/or     *)
(* with the extension, and the numbered backups 1..Depth; a file is its    *)
(* size. One loop iteration (build the two paths, do_copy_tail, update     *)
(* limit and index) is one step; the log rotator (logcat -r) may rotate    *)
(* the files between two steps.                                            *)
(* Paths, the destination names and ownership are left out.                *)
(***************************************************************************)
EXTENDS Integers, Sequences, SequencesExt

CONSTANTS
    Depth,        \* backups the rotator keeps: source.1 .. source.Depth
    Sizes,        \* file sizes
    Budget,       \* limit (MAXFILESIZE)
    StartIndexes, \* start_index: 0 (aplog, bplog) or 1 (BPLOG_TYPE_OLD)
    MaxRotations, \* rotations the log rotator may do during one copy
    IoMayFail     \* whether open and sendfile may fail on a present file

ASSUME Depth \in Nat /\ Sizes \subseteq Nat /\ Budget \in Nat
ASSUME StartIndexes \subseteq {0, 1} /\ MaxRotations \in Nat /\ IoMayFail \in BOOLEAN

Absent == -1
Bare == 0      \* source
Ext == -1      \* source + extension
Names == {Ext, Bare} \cup (1 .. Depth)

VARIABLES
    files,      \* the source files: name -> size, or Absent
    start,      \* start_index of this call
    rotations,  \* rotations done so far
    pc,         \* "first", "loop" or "done"
    index,      \* index
    limit,      \* limit (bytes still allowed)
    rc,         \* rc, the value returned once pc = "done"
    copied,     \* the copies made: [src, bytes] in order (history)
    failed      \* the present file whose copy failed, or None (history)

vars == <<files, start, rotations, pc, index, limit, rc, copied, failed>>

\* No failed copy (not a name).
None == -2

\* Initially every name is absent or holds a file of some size.
Init ==
    /\ files \in [Names -> {Absent} \cup Sizes]
    /\ start \in StartIndexes
    /\ rotations = 0
    /\ pc = IF Budget = 0 THEN "done" ELSE IF start = 0 THEN "first" ELSE "loop"
    /\ index = start
    /\ limit = Budget
    /\ rc = 0
    /\ copied = <<>>
    /\ failed = None

Exists(n) == n \in Names /\ files[n] /= Absent

-----------------------------------------------------------------------------
(* do_copy_tail(src, dest, limit): -ENOENT when src is missing; -errno    *)
(* when an open fails, -1 when sendfile fails; otherwise sendfile sends    *)
(* the last min(size, limit) bytes, or fewer when the destination fills.  *)

\* Seeded variant: the whole file is sent whatever the limit.
TailBytesNoCap(n, lim) == files[n]

\* The bytes do_copy_tail sends: the whole file if it is smaller than the
\* limit, else its last limit bytes.
TailBytes(n, lim) == IF files[n] < lim THEN files[n] ELSE lim

\* The results of do_copy_tail on a present file: the bytes sendfile sent
\* (all of them, or fewer on a full destination), or -1 for an error.
Results(n) == IF IoMayFail THEN (0 .. TailBytes(n, limit)) \cup {-1}
                           ELSE {TailBytes(n, limit)}

\* rc >= 0: limit -= rc, index++ and the loop goes on; rc < 0:
\* do_copy_circular returns rc.
Copied(n, b) ==
    /\ rc' = b
    /\ limit' = limit - b
    /\ index' = index + 1
    /\ pc' = "loop"
    /\ copied' = Append(copied, [src |-> n, bytes |-> b])
    /\ UNCHANGED failed
Fails(n) ==
    /\ rc' = -1
    /\ pc' = "done"
    /\ failed' = IF Exists(n) THEN n ELSE None
    /\ UNCHANGED <<limit, index, copied>>

\* Seeded variant: if (rc <= 0) return rc; an empty copy ends the call.
CopyTailStopOnEmpty(n) ==
    IF Exists(n)
      THEN \E b \in Results(n) :
             CASE b > 0 -> Copied(n, b)
               [] b = 0 -> rc' = 0 /\ pc' = "done" /\ UNCHANGED <<limit, index, copied, failed>>
               [] OTHER -> Fails(n)
      ELSE Fails(n)

\* One do_copy_tail of n and what do_copy_circular does with its rc.
CopyTail(n) ==
    IF Exists(n)
      THEN \E b \in Results(n) : IF b >= 0 THEN Copied(n, b) ELSE Fails(n)
      ELSE Fails(n)

\* index == 0: the bare source if it exists, else source + extension.
CopyFirst ==
    /\ pc = "first"
    /\ CopyTail(IF Exists(Bare) THEN Bare ELSE Ext)
    /\ UNCHANGED <<files, start, rotations>>

\* while (limit): copy source.<index><extension>.
CopyNext ==
    /\ pc = "loop"
    /\ limit /= 0
    /\ CopyTail(index)
    /\ UNCHANGED <<files, start, rotations>>

\* The budget is spent: return the rc of the last copy.
LoopExit ==
    /\ pc = "loop"
    /\ limit = 0
    /\ pc' = "done"
    /\ UNCHANGED <<files, start, rotations, index, limit, rc, copied, failed>>

\* The log rotator: source.k becomes source.k+1 (the last is dropped), the
\* base becomes source.1, and a new base file is started.
Rotate ==
    /\ pc /= "done"
    /\ rotations < MaxRotations
    /\ Exists(Bare)
    /\ \E s \in Sizes :
         files' = [n \in Names |->
                     CASE n = Bare -> s
                       [] n = 1      -> files[Bare]
                       [] n \in 2 .. Depth -> files[n - 1]
                       [] OTHER      -> files[n]]
    /\ rotations' = rotations + 1
    /\ UNCHANGED <<start, pc, index, limit, rc, copied, failed>>

Next == CopyFirst \/ CopyNext \/ LoopExit \/ Rotate

Spec == Init /\ [][Next]_vars

-----------------------------------------------------------------------------
(* Properties                                                              *)

CopiedBytes == FoldLeft(LAMBDA acc, c : acc + c.bytes, 0, copied)

\* Spec 8: do_copy_circular never copies more than limit bytes in total,
\* whatever the sizes of the files and however the rotator moves them.
BudgetRespected == CopiedBytes <= Budget

\* The first backup index that is missing (Depth + 1 when all exist).
FirstGap == CHOOSE g \in 1 .. Depth + 1 : ~Exists(g) /\ \A j \in 1 .. g - 1 : Exists(j)

\* Spec 4.3: with the files left alone and a base file to start from, the
\* copy takes the base (index 0), then the backups 1, 2, ... in order
\* without skipping one, an empty or short copy included, and stops only
\* at the first missing backup, at a backup whose copy failed
\* (fsutils.c:1286-1287), or when the budget is spent.
CopiesUpToFirstGap ==
    (pc = "done" /\ rotations = 0 /\ (start = 1 \/ Exists(Bare) \/ Exists(Ext))) =>
        LET backups == SelectSeq([i \in DOMAIN copied |-> copied[i].src],
                                 LAMBDA n : n >= 1)
        IN /\ backups = [i \in 1 .. Len(backups) |-> i]
           /\ limit > 0 /\ failed = None => Len(backups) = FirstGap - 1
           /\ failed /= None => failed = Len(backups) + 1 \/ (failed \in {Bare, Ext} /\ backups = <<>>)
=============================================================================

------------------------------ MODULE LineCache ------------------------------
(***************************************************************************)
(* The line readers of src/crashlog/fsutils.c as operators over small     *)
(* files: cache_file(filename, records, maxrecords, cachemode, offset),    *)
(* with readline and the index quicksort that reorders the CACHE_TAIL      *)
(* ring, and the searches built on readline: count_lines_in_file,          *)
(* find_oneofstrings_in_file, find_oneofstrings_in_file_with_keyword and   *)
(* find_str_in_standard_file. One call of one of them is a step; TLC      *)
(* checks its result against the lines of the file as a reference          *)
(* definition splits them.                                                 *)
(*                                                                         *)
(* A file is a sequence of bytes: NL ('\n') and two other characters.      *)
(* MAXLINESIZE is the constant MaxLine. A record is the line readline      *)
(* returns, NoRecord the NULL pointer; a keyword or tail is a non-empty    *)
(* sequence of bytes other than NL, NoTail the NULL tail. open, read and    *)
(* strdup are taken to succeed.                                            *)
(***************************************************************************)
EXTENDS Integers, Sequences, SequencesExt

CONSTANTS
    MaxLine,      \* MAXLINESIZE
    Files,        \* file contents
    MaxRecords,   \* maxrecords
    Offsets,      \* offset
    Keywords,     \* keywords and tails
    KeywordLists  \* keywords[0 .. nbkeywords-1] of the find_oneofstrings_*

ASSUME MaxLine \in Nat /\ MaxLine >= 2

NL == 0
CacheStart == 0
CacheTail == 1
EINVAL == -22
NoRecord == <<>>
NoTail == <<>>

Calls == {"cache_file", "count_lines_in_file", "find_oneofstrings_in_file",
         "find_oneofstrings_in_file_with_keyword", "find_str_in_standard_file"}

VARIABLES
    fn,       \* the function called
    file,     \* the file's content
    kws,      \* keywords (one, the keyword, for find_str_in_standard_file)
    common,   \* common_keyword
    tail,     \* tail
    m,        \* maxrecords
    offset,   \* offset
    mode,     \* cachemode
    called,   \* whether the call has returned
    ret,      \* its return value
    records   \* records[0 .. maxrecords-1] after the call

vars == <<fn, file, kws, common, tail, m, offset, mode, called, ret, records>>

-----------------------------------------------------------------------------
(* readline(fd, buffer): bytes up to and including '\n', at most           *)
(* MAXLINESIZE-1 of them. The byte read when the buffer is full is lost.   *)
(* The result: [size, line, next] with next the position of the next byte. *)

\* Seeded variant: a '\n' is not counted in the size, so that an empty
\* line reads as the end of the file.
ReadFromNoNewlineCount(f, p, size) ==
    LET RECURSIVE R(_)
        R(z) == IF p + z > Len(f)
                  THEN [size |-> z, line |-> SubSeq(f, p, p + z - 1), next |-> p + z]
                ELSE IF z >= MaxLine - 1
                  THEN [size |-> z, line |-> SubSeq(f, p, p + z - 1), next |-> p + z + 1]
                ELSE IF f[p + z] = NL
                  THEN [size |-> z, line |-> SubSeq(f, p, p + z), next |-> p + z + 1]
                ELSE R(z + 1)
    IN R(size)

RECURSIVE ReadFrom(_, _, _)
ReadFrom(f, p, size) ==
    IF p + size > Len(f)
      THEN [size |-> size, line |-> SubSeq(f, p, p + size - 1), next |-> p + size]
    ELSE IF size >= MaxLine - 1
      THEN [size |-> size, line |-> SubSeq(f, p, p + size - 1), next |-> p + size + 1]
    ELSE IF f[p + size] = NL
      THEN [size |-> size + 1, line |-> SubSeq(f, p, p + size), next |-> p + size + 1]
    ELSE ReadFrom(f, p, size + 1)

ReadLine(f, p) == ReadFrom(f, p, 0)

-----------------------------------------------------------------------------
(* quicksort(array, dim, pivot): the lines are sorted by an index array    *)
(* that gives the items before pivot the ranks dim-pivot.. and the others  *)
(* the ranks 0..; __quicksort is a Lomuto quicksort swapping both arrays.  *)
(* s is [arr, idx], both functions over 0..dim-1.                          *)

\* Seeded variant: the item at pivot is ranked with the items before it.
QsIndexesOffByOne(dim, pivot) == [i \in 0 .. dim - 1 |-> IF i <= pivot THEN dim - pivot + i ELSE i - pivot]

QsIndexes(dim, pivot) == [i \in 0 .. dim - 1 |-> IF i < pivot THEN dim - pivot + i ELSE i - pivot]

QsSwap(s, a, b) ==
    [arr |-> [s.arr EXCEPT ![a] = s.arr[b], ![b] = s.arr[a]],
     idx |-> [s.idx EXCEPT ![a] = s.idx[b], ![b] = s.idx[a]]]

\* The loop of qs_partition: i runs from start to end-1, j is the next slot
\* for an item ranked no higher than the one at end.
RECURSIVE PartitionLoop(_, _, _, _)
PartitionLoop(s, i, j, end) ==
    IF i >= end THEN [s |-> QsSwap(s, end, j), j |-> j]
    ELSE IF s.idx[i] <= s.idx[end]
      THEN PartitionLoop(QsSwap(s, i, j), i + 1, j + 1, end)
      ELSE PartitionLoop(s, i + 1, j, end)

QsPartition(s, start, end, pivot) == PartitionLoop(QsSwap(s, pivot, end), start, start, end)

RECURSIVE QuickSortRange(_, _, _)
QuickSortRange(s, start, end) ==
    IF start < end
      THEN LET p == QsPartition(s, start, end, start)
           IN QuickSortRange(QuickSortRange(p.s, start, p.j - 1), p.j + 1, end)
      ELSE s

QuickSort(arr, dim, pivot) ==
    QuickSortRange([arr |-> arr, idx |-> QsIndexes(dim, pivot)], 0, dim - 1).arr

-----------------------------------------------------------------------------
(* cache_file                                                              *)

Empty(n) == [i \in 0 .. n - 1 |-> NoRecord]

\* Seeded variant: the line is stored at index instead of index - offset.
StartKeepNoShift(recs, index, o, line) == [recs EXCEPT ![index] = line]

\* records[index - offset] = strdup(curline).
StartKeep(recs, index, o, line) == [recs EXCEPT ![index - o] = line]

\* CACHE_START: index counts the lines read (line_idx follows it); lines
\* from the offset on are kept; EOF returns index - offset, a full loop
\* returns index.
RECURSIVE StartLoop(_, _, _, _, _, _)
StartLoop(f, p, index, recs, n, o) ==
    IF index = n THEN [ret |-> index, recs |-> recs]
    ELSE LET r == ReadLine(f, p) IN
         IF index >= o /\ r.size = 0 THEN [ret |-> index - o, recs |-> recs]
         ELSE StartLoop(f, r.next, index + 1,
                        IF index >= o THEN StartKeep(recs, index, o, r.line) ELSE recs, n, o)

\* Seeded variant: the ring is returned without being reordered.
TailFinishNoSort(recs, count, cur, n) == recs

\* At EOF: a full ring whose oldest line is not at 0 is reordered with
\* quicksort(records, count, curindex).
TailFinish(recs, count, cur, n) ==
    IF count = n /\ cur /= 0 THEN QuickSort(recs, count, cur) ELSE recs

\* CACHE_TAIL: every line from the offset on overwrites records[curindex]
\* and curindex advances modulo maxrecords; count saturates at maxrecords.
RECURSIVE TailLoop(_, _, _, _, _, _, _, _)
TailLoop(f, p, lineIdx, cur, count, recs, n, o) ==
    LET r == ReadLine(f, p) IN
    IF r.size = 0 THEN [ret |-> count, recs |-> TailFinish(recs, count, cur, n)]
    ELSE IF lineIdx >= o
      THEN TailLoop(f, r.next, lineIdx + 1, (cur + 1) % n,
                    IF count < n THEN count + 1 ELSE count,
                    [recs EXCEPT ![cur] = r.line], n, o)
      ELSE TailLoop(f, r.next, lineIdx + 1, cur, count, recs, n, o)

\* The argument checks, then one of the two modes.
CacheFile(f, n, md, o) ==
    CASE o < 0 \/ (o >= n /\ md = CacheStart) -> [ret |-> EINVAL, recs |-> Empty(n)]
      [] n = 0 -> [ret |-> 0, recs |-> Empty(n)]
      [] md = CacheStart -> StartLoop(f, 1, 0, Empty(n), n, o)
      [] OTHER -> TailLoop(f, 1, 0, 0, 0, Empty(n), n, o)

-----------------------------------------------------------------------------
(* The searches: readline until it returns 0, the trailing '\n' of each    *)
(* line removed before it is searched; strstr(buffer, k) is k being a      *)
(* contiguous piece of the line.                                           *)

Strip(r) == IF r.line /= <<>> /\ Last(r.line) = NL THEN Front(r.line) ELSE r.line

StrStr(buf, k) == k \in SubSeqs(buf)

\* count_lines_in_file: line_idx counts the readline calls returning > 0.
RECURSIVE CountLoop(_, _, _)
CountLoop(f, p, n) ==
    LET r == ReadLine(f, p) IN
    IF r.size > 0 THEN CountLoop(f, r.next, n + 1) ELSE n

\* Seeded variant: the loop over keywords stops one short.
OneOfLoopSkipLast(f, p, ks) ==
    LET RECURSIVE L(_)
        L(q) == LET r == ReadLine(f, q) IN
                IF r.size <= 0 THEN 0
                ELSE IF \E i \in 1 .. Len(ks) - 1 : StrStr(Strip(r), ks[i]) THEN 1
                ELSE L(r.next)
    IN L(p)

\* find_oneofstrings_in_file: 1 at the first line holding one of the
\* keywords, 0 at the end of the file.
RECURSIVE OneOfLoop(_, _, _)
OneOfLoop(f, p, ks) ==
    LET r == ReadLine(f, p) IN
    IF r.size <= 0 THEN 0
    ELSE IF \E i \in 1 .. Len(ks) : StrStr(Strip(r), ks[i]) THEN 1
    ELSE OneOfLoop(f, r.next, ks)

\* Seeded variant: the previous line is never kept (no buffer swap).
KeywordLoopNoSwap(f, p, ks, c, old) ==
    LET RECURSIVE L(_)
        L(q) == LET r == ReadLine(f, q) IN
                IF r.size <= 0 THEN 0
                ELSE IF \E i \in 1 .. Len(ks) :
                          StrStr(Strip(r), ks[i]) /\ (StrStr(Strip(r), c) \/ StrStr(old, c))
                  THEN 1
                ELSE L(r.next)
    IN L(p)

\* find_oneofstrings_in_file_with_keyword: a keyword in the line and the
\* common keyword in that line or in the one before it (old_buffer, first
\* empty; the two buffers are swapped after each line).
RECURSIVE KeywordLoop(_, _, _, _, _)
KeywordLoop(f, p, ks, c, old) ==
    LET r == ReadLine(f, p)
        b == Strip(r)
    IN IF r.size <= 0 THEN 0
       ELSE IF \E i \in 1 .. Len(ks) : StrStr(b, ks[i]) /\ (StrStr(b, c) \/ StrStr(old, c))
         THEN 1
       ELSE KeywordLoop(f, r.next, ks, c, b)

\* Seeded variant: a line exactly as long as the tail is skipped.
StandardLoopShortTail(f, p, k, t) ==
    LET RECURSIVE L(_)
        L(q) == LET r == ReadLine(f, q)
                    b == Strip(r)
                IN IF r.size <= 0 THEN 0
                   ELSE IF ~StrStr(b, k) THEN L(r.next)
                   ELSE IF t = NoTail THEN (IF Len(b) > 0 THEN 1 ELSE 0)
                   ELSE IF Len(t) >= Len(b) THEN L(r.next)
                   ELSE IF IsSuffix(t, b) THEN (IF Len(b) > 0 THEN 1 ELSE 0)
                   ELSE L(r.next)
    IN L(p)

\* find_str_in_standard_file: the loop breaks at a line holding the keyword
\* (and ending with the tail, when there is one, skipping lines shorter
\* than it); the result is linesize > 0, the stripped size of the line the
\* loop stopped at (0 at the end of the file).
RECURSIVE StandardLoop(_, _, _, _)
StandardLoop(f, p, k, t) ==
    LET r == ReadLine(f, p)
        b == Strip(r)
    IN IF r.size <= 0 THEN 0
       ELSE IF ~StrStr(b, k) THEN StandardLoop(f, r.next, k, t)
       ELSE IF t = NoTail THEN (IF Len(b) > 0 THEN 1 ELSE 0)
       ELSE IF Len(t) > Len(b) THEN StandardLoop(f, r.next, k, t)
       ELSE IF IsSuffix(t, b) THEN (IF Len(b) > 0 THEN 1 ELSE 0)
       ELSE StandardLoop(f, r.next, k, t)

\* The result of a search: -EINVAL for an empty keyword list.
Search(f, g, ks, c, t) ==
    CASE g = "count_lines_in_file" -> CountLoop(f, 1, 0)
      [] ks = <<>> -> EINVAL
      [] g = "find_oneofstrings_in_file" -> OneOfLoop(f, 1, ks)
      [] g = "find_oneofstrings_in_file_with_keyword" -> KeywordLoop(f, 1, ks, c, <<>>)
      [] OTHER -> StandardLoop(f, 1, ks[1], t)

-----------------------------------------------------------------------------
\* The arguments each function takes; those it does not take keep a
\* fixed value.
Init ==
    /\ fn \in Calls
    /\ file \in Files
    /\ IF fn = "cache_file"
         THEN /\ m \in MaxRecords /\ offset \in Offsets
              /\ mode \in {CacheStart, CacheTail}
         ELSE m = 0 /\ offset = 0 /\ mode = CacheStart
    /\ kws \in CASE fn \in {"find_oneofstrings_in_file",
                            "find_oneofstrings_in_file_with_keyword"} -> KeywordLists
                 [] fn = "find_str_in_standard_file" -> {<<k>> : k \in Keywords}
                 [] OTHER -> {<<>>}
    /\ common \in IF fn = "find_oneofstrings_in_file_with_keyword" THEN Keywords ELSE {<<>>}
    /\ tail \in IF fn = "find_str_in_standard_file" THEN {NoTail} \cup Keywords ELSE {NoTail}
    /\ called = FALSE
    /\ ret = 0
    /\ records = Empty(m)

Call ==
    /\ ~called
    /\ IF fn = "cache_file"
         THEN LET res == CacheFile(file, m, mode, offset)
              IN /\ ret' = res.ret
                 /\ records' = res.recs
         ELSE /\ ret' = Search(file, fn, kws, common, tail)
              /\ UNCHANGED records
    /\ called' = TRUE
    /\ UNCHANGED <<fn, file, kws, common, tail, m, offset, mode>>

Spec == Init /\ [][Call]_vars

-----------------------------------------------------------------------------
(* Reference                                                               *)

\* The lines of a file: each ends with its '\n'; a last line without one
\* counts when it is not empty.
RECURSIVE Lines(_)
Lines(f) ==
    IF f = <<>> THEN <<>>
    ELSE LET ends == {i \in 1 .. Len(f) : f[i] = NL}
             e    == IF ends = {} THEN Len(f) ELSE Min(ends)
         IN <<SubSeq(f, 1, e)>> \o Lines(SubSeq(f, e + 1, Len(f)))

\* Every line fits in the readline buffer.
Fits(f) == \A i \in DOMAIN Lines(f) : Len(Lines(f)[i]) <= MaxLine - 1

\* The lines after the first offset ones.
After(f, o) == IF o >= Len(Lines(f)) THEN <<>> ELSE SubSeq(Lines(f), o + 1, Len(Lines(f)))

\* The records as a sequence, the first k.
Kept(k) == [i \in 1 .. k |-> records[i - 1]]

Filled == {i \in DOMAIN records : records[i] /= NoRecord}

\* Line i of the file without its '\n'.
Text(i) == LET l == Lines(file)[i] IN IF Last(l) = NL THEN Front(l) ELSE l

\* What each search promises (the comments of fsutils.c), on the lines.
Promised ==
    LET I == DOMAIN Lines(file)
        J == 1 .. Len(kws)
    IN CASE fn = "count_lines_in_file" -> Len(Lines(file))
         [] fn = "find_oneofstrings_in_file" ->
              IF \E i \in I, j \in J : StrStr(Text(i), kws[j]) THEN 1 ELSE 0
         [] fn = "find_oneofstrings_in_file_with_keyword" ->
              IF \E i \in I, j \in J :
                   /\ StrStr(Text(i), kws[j])
                   /\ StrStr(Text(i), common) \/ (i > 1 /\ StrStr(Text(i - 1), common))
                THEN 1 ELSE 0
         [] OTHER ->
              IF \E i \in I : StrStr(Text(i), kws[1]) /\ IsSuffix(tail, Text(i)) THEN 1 ELSE 0

-----------------------------------------------------------------------------
(* Properties                                                              *)

\* CACHE_TAIL keeps the last maxrecords lines after the offset, oldest
\* first, and returns how many it kept: the ring of curindex, its wrap and
\* the quicksort that undoes it leave the lines in file order.
TailIsLastLines ==
    (called /\ mode = CacheTail /\ m > 0 /\ offset >= 0 /\ Fits(file)) =>
        LET ls == After(file, offset)
            k  == IF Len(ls) < m THEN Len(ls) ELSE m
        IN /\ ret = k
           /\ Kept(k) = SubSeq(ls, Len(ls) - k + 1, Len(ls))
           /\ Filled = 0 .. k - 1

\* CACHE_START keeps, from records[0] on, the lines that follow the first
\* offset lines, as many as fit in maxrecords - offset records.
StartIsFirstLines ==
    (called /\ mode = CacheStart /\ 0 <= offset /\ offset < m /\ Fits(file)) =>
        LET ls == After(file, offset)
            k  == IF Len(ls) < m - offset THEN Len(ls) ELSE m - offset
        IN /\ Kept(k) = SubSeq(ls, 1, k)
           /\ Filled = 0 .. k - 1

\* count_lines_in_file counts the lines, and each find_* returns 1 exactly
\* when a line holds a keyword (with the common keyword on it or on the
\* line before, or ending with the tail): the readline loop, the removal
\* of the '\n', the keyword loop and the buffer swap of the previous line
\* lose no line and invent none.
SearchesFindLines ==
    (called /\ fn /= "cache_file" /\ (fn = "count_lines_in_file" \/ kws /= <<>>) /\ Fits(file))
        => ret = Promised

=============================================================================

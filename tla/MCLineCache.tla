------------------------------ MODULE MCLineCache ------------------------------
(* Files of up to four lines built from short lines, one line that fills   *)
(* the buffer and one that overflows it, with or without a last line       *)
(* lacking its '\n'; MAXLINESIZE 4, maxrecords 0..3, offsets 0..2;       *)
(* keywords of one and two bytes, lists of none, one or two of them.       *)
EXTENDS LineCache

FourBytes == 4

\* Whole lines: empty, one byte, two bytes, three bytes (fills the buffer)
\* and four bytes (overflows it).
LineShapes == {<<NL>>, <<1, NL>>, <<2, NL>>, <<2, 1, NL>>, <<1, 2, 1, NL>>}
LastLines == {<<>>, <<1>>, <<2, 1>>}

RECURSIVE Concat(_)
Concat(s) == IF s = <<>> THEN <<>> ELSE Head(s) \o Concat(Tail(s))

SmallFiles == {Concat(ls) \o t : ls \in UNION {[1 .. k -> LineShapes] : k \in 0 .. 4},
                                  t \in LastLines}

\* Keywords and tails: each byte, and the two-byte pieces that can straddle
\* two positions of a line.
SmallKeywords == {<<1>>, <<2>>, <<1, 2>>, <<2, 1>>}
KeywordLists0to2 == {<<>>} \cup {<<k>> : k \in SmallKeywords}
                    \cup {<<k, l>> : k, l \in SmallKeywords}
=============================================================================

------------------------------- MODULE MCDedup -------------------------------
(***************************************************************************)
(* Model-checking instance of Dedup.                                       *)
(***************************************************************************)
EXTENDS Dedup

CONSTANTS n1, n2, n3, n4

\* Four names: two files created, each renamed or moved out once.
FourNames == {n1, n2, n3, n4}
\* Four cookies: every move in the run gets its own.
FourCookies == 4
=============================================================================

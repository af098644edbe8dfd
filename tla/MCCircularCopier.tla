--------------------------- MODULE MCCircularCopier ---------------------------
(***************************************************************************)
(* Model-checking instance of CircularCopier.                              *)
(***************************************************************************)
EXTENDS CircularCopier

\* Three backups; sizes 0 (an empty backup), 2 and 3; a budget of 5 that the
\* files may exceed, so both ends of the loop are reached.
ThreeBackups == 3
SmallSizes == {0, 2, 3}
FiveBytes == 5
=============================================================================

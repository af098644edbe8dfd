--------------------------- MODULE MCDumpstateRing ---------------------------
(***************************************************************************)
(* Model-checking instance of DumpstateRing. The ring size is the code's   *)
(* DIM(gcurrent_key) = 2; keys are model values.                           *)
(***************************************************************************)
EXTENDS DumpstateRing

CONSTANTS k1, k2, k3, w1

\* Two crash keys: both slots of the ring are used and both cursors wrap.
TwoKeys == {k1, k2}
\* Three crash keys: one more than the ring holds.
ThreeKeys == {k1, k2, k3}
\* One dump_bt_all worker besides the dispatch thread.
OneWorker == {w1}
RingSize == 2
=============================================================================

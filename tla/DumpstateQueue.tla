--------------------------- MODULE DumpstateQueue ---------------------------
(***************************************************************************)
(* What the dumpstate coordinator promises (spec 4.5 and 8): the keys of   *)
(* started dumps wait in a FIFO queue; each completion signal takes the    *)
(* oldest waiting key and announces it; a completion with nothing waiting  *)
(* announces nothing. This is the abstract specification that the ring of  *)
(* DumpstateRing is checked against.                                       *)
(***************************************************************************)
EXTENDS Sequences

CONSTANT Keys

VARIABLES
    waiting,    \* keys of started, not yet announced dumps, oldest first
    announced   \* keys announced as finished, in announcement order

qvars == <<waiting, announced>>

QInit ==
    /\ waiting = <<>>
    /\ announced = <<>>

\* A dump is started for a fresh key.
QStart(k) ==
    /\ waiting' = Append(waiting, k)
    /\ UNCHANGED announced

\* A completion signal announces the oldest waiting key.
QComplete ==
    /\ waiting /= <<>>
    /\ announced' = Append(announced, Head(waiting))
    /\ waiting' = Tail(waiting)

QNext ==
    \/ \E k \in Keys : QStart(k)
    \/ QComplete

QSpec == QInit /\ [][QNext]_qvars
=============================================================================

--------------------------- MODULE MCSlotAllocator ---------------------------
(***************************************************************************)
(* Model-checking instance of SlotAllocator.                               *)
(***************************************************************************)
EXTENDS SlotAllocator

\* CRASH, CRASH_NOSD and KDUMP share CRASH_CURRENT_LOG; the crash directories
\* may switch to the sdcard, the kdump directory never does.
SharedCounterModes == {"crash", "crash_nosd", "kdump"}
\* find_new_crashlog_dir has no caller under src/; letting the kdump mode use
\* it exercises both naming schemes on the shared counter.
KdumpIndexOnly == {"kdump"}
\* Three slots: a rotation wraps after three advances.
ThreeSlots == 3
\* Six keys: two full rotations of the shared counter.
SixKeys == 6
=============================================================================

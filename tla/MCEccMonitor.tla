----------------------------- MODULE MCEccMonitor -----------------------------
(* Two counter files (the dimm_ce_count and dimm_ue_count of one DIMM),    *)
(* counts up to 2, two deaths of the daemon and failing I/O.               *)
EXTENDS EccMonitor

CONSTANTS ce, ue

TwoCounts == {ce, ue}
=============================================================================

----------------------------- MODULE MCQuotaGuard -----------------------------
(***************************************************************************)
(* Model-checking instance of QuotaGuard. Sizes are in units where the     *)
(* integer divisions of the code round: 150 * 5 / 100 = 7, and the quota   *)
(* limit 100 * 50 * 90 / 10000 = 45 is hit exactly by a used size of 45.   *)
(***************************************************************************)
EXTENDS QuotaGuard

Fulls == {100, 150}
Frees == {0, 7, 10, 60}
Useds == {0, 44, 45, 90}
ReqPercents == {5, 10}
\* strtol of the property: unset ("100"), a half quota, "0" or a word, above 100.
WellFormedProps == {0, 50, 100, 150}
HalfQuota == {50}
=============================================================================

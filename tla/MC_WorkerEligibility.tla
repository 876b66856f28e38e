----------------------- MODULE MC_WorkerEligibility -----------------------
(* Three voters; the thresholds are one tick each, so that a peer passes   *)
(* through "timer running" and "timer expired" in every order.             *)
EXTENDS WorkerEligibility

===========================================================================

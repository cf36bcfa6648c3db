----------------------------- MODULE MCMonitoring -----------------------------
(* Monitoring for TLC: two PMM servers to move between.                       *)
EXTENDS Monitoring
===============================================================================

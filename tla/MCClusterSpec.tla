---------------------------- MODULE MCClusterSpec ----------------------------
(* ClusterSpec for TLC: two storages, so that both may ask for PITR, and two  *)
(* engine versions.                                                           *)
EXTENDS ClusterSpec
==============================================================================

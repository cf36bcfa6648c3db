------------------------------ MODULE MCBackups ------------------------------
(* Backups for TLC. Two Backups meet only in the cluster and its storages,    *)
(* so one name, used by several Backups in turn, reaches every interleaving   *)
(* of the handlers.                                                           *)
EXTENDS Backups
=============================================================================

--------------------------- MODULE MCInstanceSync ---------------------------
(* InstanceSync for TLC: one Instance and one Restore, which seeds it when it *)
(* has a data source and is its user's otherwise. Several Restores at a time  *)
(* are left to the theorems of InstanceSyncProofs.                            *)
EXTENDS InstanceSync
=============================================================================

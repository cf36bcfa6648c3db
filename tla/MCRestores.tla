----------------------------- MODULE MCRestores -----------------------------
(* Restores for TLC. Restores meet only in the cluster, which InstanceSync    *)
(* adds: one name, used by several Restores in turn, reaches every            *)
(* interleaving of the handlers with operator, collector and users.           *)
EXTENDS Restores
=============================================================================

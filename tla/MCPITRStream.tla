---------------------------- MODULE MCPITRStream ----------------------------
(* PITRStream with three backups of one Instance over two storages, only one  *)
(* of which has PITR enabled.                                                 *)
EXTENDS PITRStream, TLC

NameSymmetry == Permutations(Names)
=============================================================================

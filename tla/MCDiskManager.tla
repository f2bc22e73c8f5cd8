---------------------------- MODULE MCDiskManager ----------------------------
(* Instances of DiskManager for TLC. *)
EXTENDS DiskManager, TLC

Symmetric == Permutations(Clients)
=============================================================================

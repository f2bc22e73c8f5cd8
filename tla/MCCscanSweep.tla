---------------------------- MODULE MCCscanSweep -----------------------------
(* An instance of DiskArm, with its sweeps and the code's loops, for TLC. *)
EXTENDS CscanSweep, DiskPolicyLoops
=============================================================================

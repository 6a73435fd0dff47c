----------------------------- MODULE MCFailover -----------------------------
(* Finite instances of Failover for TLC.                                     *)
EXTENDS Failover
CONSTANTS r0, r1, r2, none
=============================================================================

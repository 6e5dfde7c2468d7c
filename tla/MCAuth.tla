-------------------------------- MODULE MCAuth --------------------------------
(* An instance of Auth for TLC: one session under contention.               *)
EXTENDS Auth, TLC

CONSTANTS r1, r2, t1, k1, k2, u1, u2

ExpiresAtMC == t1 :> 4
KidOfMC == t1 :> k1
===============================================================================

---------------------------- MODULE MCSessionCache ----------------------------
(* An instance of SessionCache for TLC.                                     *)
EXTENDS SessionCache, TLC

CONSTANTS t1, t2, t3

\* One token expires long before its session would.
ExpiresAtMC == (t1 :> 1) @@ (t2 :> 9) @@ (t3 :> 9)
===============================================================================

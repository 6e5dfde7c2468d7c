--------------------------- MODULE MCCircuitBreaker ---------------------------
(* An instance of CircuitBreaker for TLC.                                   *)
EXTENDS CircuitBreaker, TLC

CONSTANTS c1, c2, c3
===============================================================================

-------------------------------- MODULE Clock ---------------------------------
(* The clock that the expiry, the TTLs and the HTTP timeout are read        *)
(* against: time.Now() in whole ticks.                                      *)
EXTENDS Naturals

CONSTANT MaxTime \* bound: the last instant

ASSUME ClockAssumption == MaxTime \in Nat

VARIABLE now

Advance ==
    /\ now < MaxTime
    /\ now' = now + 1
===============================================================================

------------------------------- MODULE Heartbeat -------------------------------
(***************************************************************************)
(* internal/tools/progress.go: WithProgress runs an operation while a       *)
(* goroutine of its own tells the client every ten seconds that it is       *)
(* still under way.  The ticker may fire at any time here.                  *)
(***************************************************************************)
CONSTANT Calls \* the tool calls that may be in flight

VARIABLE beat \* the heartbeat goroutine of each call, "none" where there is none

HeartbeatInit == beat = [c \in Calls |-> "none"]

HeartbeatTypeOK == beat \in [Calls -> {"none", "waiting", "notifying"}]

\* Without a progress token there is no goroutine.
BeatStarts(c, token) ==
    beat' = IF token THEN [beat EXCEPT ![c] = "waiting"] ELSE beat

\* select takes any case that is ready, so <-ticker.C also when done is closed.
BeatTicks(c) ==
    /\ beat[c] = "waiting"
    /\ beat' = [beat EXCEPT ![c] = "notifying"]

\* NotifyProgress returns; its error is dropped.
BeatNotified(c) ==
    /\ beat[c] = "notifying"
    /\ beat' = [beat EXCEPT ![c] = "waiting"]

\* A mutant: the deferred function closes done and does not wait.
BeatJoinedAtOnce(c) == TRUE

\* wg.Wait in the deferred function.
BeatJoined(c) == beat[c] = "none"

\* case <-done or case <-ctx.Done().
BeatEnds(c, stop) ==
    /\ beat[c] = "waiting"
    /\ stop
    /\ beat' = [beat EXCEPT ![c] = "none"]
===============================================================================

----------------------------- MODULE CallContract -----------------------------
(***************************************************************************)
(* What a caller of HelmClient.call_tool may rely on, with no mention of    *)
(* connections, breakers or retries: a bounded number of calls is active at *)
(* a time, an active call is put on the wire a bounded number of times, a   *)
(* call that changes state at most once, and a finished call is never put   *)
(* on the wire again and never changes its result.                         *)
(***************************************************************************)
EXTENDS Naturals, FiniteSets

CONSTANTS
    Calls,
    Results,     \* what a call may return or raise
    MaxActive,   \* how many calls may be active at a time
    MaxReadSends \* how often a read-only call may be put on the wire

VARIABLES
    status, \* idle, waiting, active or done
    kind,   \* read or mutate, fixed when the call is made
    sent,   \* how often the call was put on the wire
    result  \* what a finished call returned or raised

vars == <<status, kind, sent, result>>

Limit(c) == IF kind[c] = "mutate" THEN 1 ELSE MaxReadSends

Active == {c \in Calls : status[c] = "active"}

Init ==
    /\ status = [c \in Calls |-> "idle"]
    /\ kind \in [Calls -> {"read", "mutate"}]
    /\ sent = [c \in Calls |-> 0]
    /\ result = [c \in Calls |-> "none"]

Submit(c) ==
    /\ status[c] = "idle"
    /\ status' = [status EXCEPT ![c] = "waiting"]
    /\ UNCHANGED <<kind, sent, result>>

Admit(c) ==
    /\ status[c] = "waiting"
    /\ Cardinality(Active) < MaxActive
    /\ status' = [status EXCEPT ![c] = "active"]
    /\ UNCHANGED <<kind, sent, result>>

Send(c) ==
    /\ status[c] = "active"
    /\ sent[c] < Limit(c)
    /\ sent' = [sent EXCEPT ![c] = @ + 1]
    /\ UNCHANGED <<status, kind, result>>

\* With a result, an error or a cancellation.
Complete(c) ==
    /\ status[c] \in {"waiting", "active"}
    /\ status' = [status EXCEPT ![c] = "done"]
    /\ \E r \in Results : result' = [result EXCEPT ![c] = r]
    /\ UNCHANGED <<kind, sent>>

Next == \E c \in Calls : Submit(c) \/ Admit(c) \/ Send(c) \/ Complete(c)

Spec == Init /\ [][Next]_vars
===============================================================================

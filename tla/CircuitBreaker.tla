---------------------------- MODULE CircuitBreaker ----------------------------
(***************************************************************************)
(* internal/resilience/circuitbreaker.go: goroutines that ask Allow(), do   *)
(* their work, and report RecordSuccess() or RecordFailure().  Each method  *)
(* holds the mutex throughout, so each is one action; the work in between   *)
(* is not, and a report may come in long after the state has moved on.      *)
(***************************************************************************)
EXTENDS Integers, FiniteSets

CONSTANTS
    Callers,          \* the goroutines that share the breaker
    FailureThreshold, \* cfg.FailureThreshold
    RecoveryTimeout   \* cfg.RecoveryTimeout, in ticks of the clock

ASSUME BreakerAssumption ==
    /\ IsFiniteSet(Callers)
    /\ FailureThreshold \in Nat \ {0}
    /\ RecoveryTimeout \in Nat \ {0}

VARIABLES
    state,    \* cb.state
    failures, \* cb.failures, which nothing tells apart from the threshold on
    elapsed,  \* now - cb.lastFailure, which nothing tells apart from the timeout on
    pc        \* each caller: idle, working, or probing if it was let in to probe

vars == <<state, failures, elapsed, pc>>

TypeOK ==
    /\ state \in {"closed", "open", "half_open"}
    /\ failures \in 0 .. FailureThreshold
    /\ elapsed \in 0 .. RecoveryTimeout
    /\ pc \in [Callers -> {"idle", "working", "probing"}]

\* lastFailure is the zero time, long ago.
Init ==
    /\ state = "closed"
    /\ failures = 0
    /\ elapsed = RecoveryTimeout
    /\ pc = [c \in Callers |-> "idle"]

UpTo(n, bound) == IF n > bound THEN bound ELSE n

\* A mutant: a caller that is turned away counts as a failure.
AllowCountingRefusals(c) ==
    /\ pc[c] = "idle"
    /\ \/ /\ state = "open" /\ elapsed < RecoveryTimeout
          /\ elapsed' = 0
          /\ UNCHANGED <<state, pc>>
       \/ /\ state = "open" => elapsed >= RecoveryTimeout
          /\ pc' = [pc EXCEPT ![c] = IF state = "closed" THEN "working" ELSE "probing"]
          /\ state' = IF state = "open" THEN "half_open" ELSE state
          /\ UNCHANGED elapsed
    /\ UNCHANGED failures

\* Allow returns true.  The caller that finds the timeout over moves the breaker
\* to half-open; in half-open everyone passes.
Allow(c) ==
    /\ pc[c] = "idle"
    /\ \/ /\ state = "closed"
          /\ pc' = [pc EXCEPT ![c] = "working"]
          /\ UNCHANGED state
       \/ /\ state = "open" /\ elapsed >= RecoveryTimeout
          /\ pc' = [pc EXCEPT ![c] = "probing"]
          /\ state' = "half_open"
       \/ /\ state = "half_open"
          /\ pc' = [pc EXCEPT ![c] = "probing"]
          /\ UNCHANGED state
    /\ UNCHANGED <<failures, elapsed>>

\* A mutant: the success of a probe leaves the count as it was.
RecordSuccessKeepingCount(c) ==
    /\ pc[c] # "idle"
    /\ pc' = [pc EXCEPT ![c] = "idle"]
    /\ state' = "closed"
    /\ UNCHANGED <<failures, elapsed>>

RecordSuccess(c) ==
    /\ pc[c] # "idle"
    /\ pc' = [pc EXCEPT ![c] = "idle"]
    /\ failures' = 0
    /\ state' = "closed"
    /\ UNCHANGED elapsed

\* A mutant: the failure of a probe is only counted.
RecordFailureCounting(c) ==
    /\ pc[c] # "idle"
    /\ pc' = [pc EXCEPT ![c] = "idle"]
    /\ failures' = UpTo(failures + 1, FailureThreshold)
    /\ elapsed' = 0
    /\ state' = IF state = "closed" /\ failures + 1 >= FailureThreshold THEN "open" ELSE state

RecordFailure(c) ==
    /\ pc[c] # "idle"
    /\ pc' = [pc EXCEPT ![c] = "idle"]
    /\ failures' = UpTo(failures + 1, FailureThreshold)
    /\ elapsed' = 0
    /\ state' = IF state = "half_open" \/ failures + 1 >= FailureThreshold
                THEN "open" ELSE state

Tick ==
    /\ elapsed' = UpTo(elapsed + 1, RecoveryTimeout)
    /\ UNCHANGED <<state, failures, pc>>

Report(c) == RecordSuccess(c) \/ RecordFailure(c)

Next ==
    \/ \E c \in Callers : Allow(c) \/ Report(c)
    \/ Tick

Spec == Init /\ [][Next]_vars

\* Time passes, work ends, and someone keeps asking.
FairSpec ==
    /\ Spec
    /\ WF_vars(Tick)
    /\ \A c \in Callers : WF_vars(Report(c)) /\ WF_vars(Allow(c))

-------------------------------------------------------------------------------
\* The breaker is closed exactly while the failures in a row are below the
\* threshold: no order of late reports leaves it closed over the threshold, or
\* open below it (circuitbreaker.go:92-112).
ClosedBelowThreshold == state = "closed" <=> failures < FailureThreshold

\* A breaker that opened lets someone try again, however many calls that were
\* under way fail after it opened and put the recovery off
\* (circuitbreaker.go:78-83).
Recovers == state = "open" ~> state # "open"

\* Once the threshold is reached nobody is let in before a whole recovery
\* timeout has passed without a failure; that includes the failures of calls
\* that were let in earlier and of probes (circuitbreaker.go:71-90, 102-112).
RestsAfterFailure ==
    [][\A c \in Callers :
          pc[c] = "idle" /\ pc'[c] # "idle" =>
              failures < FailureThreshold \/ elapsed >= RecoveryTimeout]_vars
===============================================================================

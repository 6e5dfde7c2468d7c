------------------------------ MODULE HelmClient ------------------------------
(***************************************************************************)
(* python/src/helm_mcp/tools.py, class HelmClient: many coroutines share    *)
(* one object that owns the connection to the Go subprocess.  The event     *)
(* loop interleaves them only at an await, so each action below is the code *)
(* between two awaits.  The layers of call_tool are kept in their order:    *)
(* bulkhead, reconnection loop, circuit breaker, tenacity, deadline.        *)
(*                                                                         *)
(* fastmcp, circuitbreaker and tenacity are external; they are modelled by  *)
(* how this class uses them.                                               *)
(***************************************************************************)
EXTENDS Naturals, Sequences, FiniteSets, Functions

CONSTANTS
    Calls,            \* the call_tool coroutines; each runs once
    Cancellable,      \* those whose task the application may cancel
    MaxConcurrent,    \* bulkhead.max_concurrent
    MaxReconnects,    \* max_reconnects
    MaxAttempts,      \* tenacity.max_attempts
    FailureThreshold, \* circuit_breaker.failure_threshold
    MaxFaults         \* bound: crashes and failed starts of the subprocess

ASSUME ClientAssumption ==
    /\ IsFiniteSet(Calls)
    /\ Cancellable \subseteq Calls
    /\ MaxConcurrent \in Nat \ {0}
    /\ MaxReconnects \in Nat
    /\ MaxAttempts \in Nat \ {0}
    /\ FailureThreshold \in Nat \ {0}
    /\ MaxFaults \in Nat

VARIABLES
    pc,         \* where each call is suspended
    kind,       \* whether its tool is retry safe ("read") or not ("mutate")
    outcome,    \* what it returned or raised
    attempts,   \* `attempts` of its reconnection loop
    tries,      \* the tenacity attempt it is in
    on,         \* the client object its current await belongs to
    sent,       \* history: how often it invoked the tool
    reconnects, \* history: how often it tried to reconnect
    permits,    \* the value of the bulkhead semaphore
    client,     \* self._client, an index into clients, or NoClient
    connected,  \* self._connected
    clients,    \* every client object made so far, with its state
    breaker,    \* the state of the circuit breaker
    failures,   \* its failure count, up to the threshold
    faults,     \* history: crashes and failed starts so far
    shut        \* whether the application closed the HelmClient

sharedVars  == <<client, connected, clients>>
breakerVars == <<breaker, failures>>
historyVars == <<sent, reconnects>>
callVars    == <<pc, kind, outcome, attempts, tries, on>>
vars == <<callVars, historyVars, permits, sharedVars, breakerVars, faults, shut>>

NoClient == 0

Kinds == {"read", "mutate"}

Outcomes == {"none", "ok", "tool_error", "timeout", "connection_error",
             "circuit_open", "unexpected", "cancelled"}

\* The awaits at which a call holds a permit of the bulkhead.
Holding == {"admitted", "backoff", "closing", "connecting", "calling", "retrying"}

PCs == {"idle", "queued", "done"} \cup Holding

\* created: made, not entered; live: its subprocess runs; dead: the subprocess
\* went away; leaving: __aexit__ was called on it, and its subprocess may still
\* run; closed: it was left and its subprocess has ended.
ClientStates == {"created", "live", "dead", "leaving", "closed"}

\* What __aexit__ makes of an object at once.
Left(state) == IF state \in {"dead", "closed"} THEN "closed" ELSE "leaving"

TypeOK ==
    /\ pc \in [Calls -> PCs]
    /\ kind \in [Calls -> Kinds]
    /\ outcome \in [Calls -> Outcomes]
    /\ attempts \in [Calls -> 0 .. MaxReconnects + 1]
    /\ tries \in [Calls -> 0 .. MaxAttempts]
    /\ on \in [Calls -> Nat]
    /\ sent \in [Calls -> Nat]
    /\ reconnects \in [Calls -> Nat]
    /\ permits \in 0 .. MaxConcurrent
    /\ clients \in Seq(ClientStates)
    /\ client \in 0 .. Len(clients)
    /\ connected \in BOOLEAN
    /\ breaker \in {"closed", "open", "half_open"}
    /\ failures \in 0 .. FailureThreshold
    /\ faults \in 0 .. MaxFaults
    /\ shut \in BOOLEAN

\* `async with HelmClient() as helm` has connected; no call is running.
Init ==
    /\ pc = [c \in Calls |-> "idle"]
    /\ kind \in [Calls -> Kinds]
    /\ outcome = [c \in Calls |-> "none"]
    /\ attempts = [c \in Calls |-> 0]
    /\ tries = [c \in Calls |-> 0]
    /\ on = [c \in Calls |-> NoClient]
    /\ sent = [c \in Calls |-> 0]
    /\ reconnects = [c \in Calls |-> 0]
    /\ permits = MaxConcurrent
    /\ clients = <<"live">>
    /\ client = 1
    /\ connected = TRUE
    /\ breaker = "closed"
    /\ failures = 0
    /\ faults = 0
    /\ shut = FALSE

-------------------------------------------------------------------------------
(* The circuit breaker.  `with breaker:` counts an exception for which      *)
(* _is_failure holds; every other way out, an exception included, closes it *)
(* and clears the count.                                                    *)

BreakerSucceeded ==
    /\ breaker' = "closed"
    /\ failures' = 0

BreakerFailed ==
    IF failures + 1 >= FailureThreshold
    THEN breaker' = "open" /\ failures' = FailureThreshold
    ELSE failures' = failures + 1 /\ UNCHANGED breaker

\* `opened` reads the clock: after recovery_timeout an open breaker admits
\* every caller until one of them fails.
BreakerRecovers ==
    /\ breaker = "open"
    /\ breaker' = "half_open"
    /\ UNCHANGED <<callVars, historyVars, permits, sharedVars, failures, faults, shut>>

-------------------------------------------------------------------------------
(* Ways a step of a call ends                                               *)

At(c, place) == pc' = [pc EXCEPT ![c] = place]

\* A mutant: a call that raises keeps its permit.
FinishKeepsPermit(c, result) ==
    /\ At(c, "done")
    /\ outcome' = [outcome EXCEPT ![c] = result]
    /\ permits' = IF result = "ok" THEN permits + 1 ELSE permits

\* The call returns or raises, and leaves `async with self._semaphore`.
Finish(c, result) ==
    /\ At(c, "done")
    /\ outcome' = [outcome EXCEPT ![c] = result]
    /\ permits' = permits + 1

StillRunning == UNCHANGED <<outcome, permits>>

\* A mutant: one turn more than the loop takes.
NextTurnOnceMore(c) ==
    /\ attempts' = [attempts EXCEPT ![c] = @ + 1]
    /\ IF attempts[c] + 1 > MaxReconnects + 1
       THEN Finish(c, "connection_error")
       ELSE At(c, "backoff") /\ StillRunning

\* attempts += 1; continue.  self._connected is False here, so the next turn
\* of the loop begins with a reconnection, if there is a next turn.
NextTurn(c) ==
    /\ attempts' = [attempts EXCEPT ![c] = @ + 1]
    /\ IF attempts[c] + 1 > MaxReconnects
       THEN Finish(c, "connection_error")
       ELSE At(c, "backoff") /\ StillRunning

\* _raw_call up to its await.
RawCall(c) ==
    \/ /\ client # NoClient
       /\ At(c, "calling")
       /\ on' = [on EXCEPT ![c] = client]
       /\ sent' = [sent EXCEPT ![c] = @ + 1]
       /\ StillRunning
       /\ UNCHANGED breakerVars
    \/ /\ client = NoClient
       /\ Finish(c, "connection_error")
       /\ BreakerSucceeded
       /\ UNCHANGED <<on, sent>>

\* The try block of the loop up to its await: breaker, tenacity, _raw_call.
Attempt(c) ==
    \/ /\ breaker = "open"
       /\ Finish(c, "circuit_open")
       /\ UNCHANGED <<tries, on, sent, breakerVars>>
    \/ /\ breaker # "open"
       /\ tries' = [tries EXCEPT ![c] = 1]
       /\ RawCall(c)

\* A mutant: tenacity for every tool.
ReplaysAnything(c) == tries[c] < MaxAttempts

\* An OSError leaves _raw_call: does tenacity replay the call?
Replays(c) == kind[c] = "read" /\ tries[c] < MaxAttempts

-------------------------------------------------------------------------------
(* call_tool                                                                *)

Start(c) ==
    /\ pc[c] = "idle"
    /\ ~shut
    /\ At(c, "queued")
    /\ UNCHANGED <<kind, outcome, attempts, tries, on, historyVars, permits,
                   sharedVars, breakerVars, faults, shut>>

\* A mutant: no bulkhead.
AcquireUnbounded(c) ==
    /\ pc[c] = "queued"
    /\ permits' = IF permits > 0 THEN permits - 1 ELSE 0
    /\ At(c, "admitted")
    /\ UNCHANGED <<kind, outcome, attempts, tries, on, historyVars,
                   sharedVars, breakerVars, faults, shut>>

\* The semaphore hands its permit over before the woken task runs.
Acquire(c) ==
    /\ pc[c] = "queued"
    /\ permits > 0
    /\ permits' = permits - 1
    /\ At(c, "admitted")
    /\ UNCHANGED <<kind, outcome, attempts, tries, on, historyVars,
                   sharedVars, breakerVars, faults, shut>>

\* The first turn of the loop in _call_tool_inner.
FirstTurn(c) ==
    /\ pc[c] = "admitted"
    /\ \/ /\ connected /\ client # NoClient
          /\ Attempt(c)
       \/ /\ ~connected \/ client = NoClient
          /\ At(c, "backoff")
          /\ StillRunning
          /\ UNCHANGED <<tries, on, sent, breakerVars>>
    /\ UNCHANGED <<kind, attempts, reconnects, sharedVars, faults, shut>>

-------------------------------------------------------------------------------
(* _reconnect: sleep, close, connect.  Nothing is looked at again after the *)
(* sleep, and no lock is held across the awaits.                            *)

\* The sleep ends and close() awaits self._client.__aexit__().
ReconnectClose(c) ==
    /\ pc[c] = "backoff"
    /\ client # NoClient
    /\ At(c, "closing")
    /\ on' = [on EXCEPT ![c] = client]
    /\ clients' = [clients EXCEPT ![client] = Left(@)]
    /\ reconnects' = [reconnects EXCEPT ![c] = @ + 1]
    /\ StillRunning
    /\ UNCHANGED <<kind, attempts, tries, sent, client, connected, breakerVars, faults, shut>>

\* close() has returned, or had nothing to close.  Its finally clause clears
\* self._client and self._connected, whatever they are by now and whether or
\* not __aexit__ has ended the subprocess: an exception of it is swallowed.
Closed(c) ==
    \/ /\ pc[c] = "closing"
       /\ connected' = FALSE
       /\ UNCHANGED reconnects
    \/ /\ pc[c] = "backoff"
       /\ client = NoClient
       /\ UNCHANGED connected
       /\ reconnects' = [reconnects EXCEPT ![c] = @ + 1]

\* A mutant: connect() enters the object that close() has left.
ReconnectCreateReuses(c) ==
    /\ pc[c] = "closing"
    /\ Closed(c)
    /\ client' = on[c]
    /\ At(c, "connecting")
    /\ StillRunning
    /\ UNCHANGED <<kind, attempts, tries, on, sent, clients, breakerVars, faults, shut>>

\* connect() makes a new client object and awaits its __aenter__().
ReconnectCreate(c) ==
    /\ Closed(c)
    /\ clients' = Append(clients, "created")
    /\ client' = Len(clients) + 1
    /\ on' = [on EXCEPT ![c] = Len(clients) + 1]
    /\ At(c, "connecting")
    /\ StillRunning
    /\ UNCHANGED <<kind, attempts, tries, sent, breakerVars, faults, shut>>

\* create_client raises (no binary).
ReconnectCreateFails(c) ==
    /\ pc[c] = "closing" \/ (pc[c] = "backoff" /\ client = NoClient)
    /\ faults < MaxFaults
    /\ faults' = faults + 1
    /\ reconnects' = IF pc[c] = "backoff" THEN [reconnects EXCEPT ![c] = @ + 1] ELSE reconnects
    /\ client' = NoClient
    /\ connected' = FALSE
    /\ NextTurn(c)
    /\ UNCHANGED <<kind, tries, on, sent, clients, breakerVars, shut>>

\* __aenter__ returns; _reconnect returns and the loop goes on to the call
\* without an await.  Another call may have left the object meanwhile.
ReconnectEntered(c) ==
    /\ pc[c] = "connecting"
    /\ clients' = [clients EXCEPT ![on[c]] = IF @ \in {"leaving", "closed"} THEN @ ELSE "live"]
    /\ connected' = TRUE
    /\ Attempt(c)
    /\ UNCHANGED <<kind, attempts, reconnects, client, faults, shut>>

\* __aenter__ raises: the subprocess did not start, or the object was left
\* while it was being entered.
ReconnectEnterFails(c) ==
    /\ pc[c] = "connecting"
    /\ \/ clients[on[c]] \in {"leaving", "closed"} /\ UNCHANGED <<clients, faults>>
       \/ /\ clients[on[c]] \notin {"leaving", "closed"}
          /\ faults < MaxFaults
          /\ faults' = faults + 1
          /\ clients' = [clients EXCEPT ![on[c]] = "dead"]
    /\ connected' = FALSE
    /\ NextTurn(c)
    /\ UNCHANGED <<kind, tries, on, historyVars, client, breakerVars, shut>>

-------------------------------------------------------------------------------
(* The tool invocation and what follows it                                  *)

\* The result arrives; an isError result is raised as HelmToolError.
Reply(c) ==
    /\ pc[c] = "calling"
    /\ clients[on[c]] \in {"live", "leaving"}
    /\ \E result \in {"ok", "tool_error"} : Finish(c, result)
    /\ BreakerSucceeded
    /\ UNCHANGED <<kind, attempts, tries, on, historyVars, sharedVars, faults, shut>>

\* tenacity sleeps before it invokes the tool again.
WaitToReplay(c) ==
    /\ Replays(c)
    /\ At(c, "retrying")
    /\ StillRunning
    /\ UNCHANGED <<attempts, connected, breakerVars>>

\* asyncio.timeout fires.  TimeoutError is an OSError, so tenacity replays it
\* and the breaker counts it.
Expire(c) ==
    /\ pc[c] = "calling"
    /\ \/ WaitToReplay(c)
       \/ /\ ~Replays(c)
          /\ BreakerFailed
          /\ Finish(c, "timeout")
          /\ UNCHANGED <<attempts, connected>>
    /\ UNCHANGED <<kind, tries, on, historyVars, client, clients, faults, shut>>

\* A mutant: a mutating call goes round the loop like a read-only one.
DisconnectRetriesAll(c) ==
    /\ pc[c] = "calling"
    /\ clients[on[c]] \in {"dead", "leaving", "closed"}
    /\ \/ WaitToReplay(c)
       \/ /\ ~Replays(c)
          /\ BreakerFailed
          /\ connected' = FALSE
          /\ NextTurn(c)
    /\ UNCHANGED <<kind, tries, on, historyVars, client, clients, faults, shut>>

\* The connection under the call is gone: OSError.
Disconnect(c) ==
    /\ pc[c] = "calling"
    /\ clients[on[c]] \in {"dead", "leaving", "closed"}
    /\ \/ WaitToReplay(c)
       \/ /\ ~Replays(c)
          /\ BreakerFailed
          /\ connected' = FALSE
          /\ \/ /\ kind[c] = "mutate"
                /\ Finish(c, "connection_error")
                /\ UNCHANGED attempts
             \/ /\ kind[c] = "read"
                /\ NextTurn(c)
    /\ UNCHANGED <<kind, tries, on, historyVars, client, clients, faults, shut>>

\* The object was never entered, or was left: fastmcp raises an error that
\* is not an OSError and that no handler of the loop catches.
Unexpected(c) ==
    /\ pc[c] = "calling"
    /\ clients[on[c]] \in {"created", "leaving", "closed"}
    /\ BreakerSucceeded
    /\ Finish(c, "unexpected")
    /\ UNCHANGED <<kind, attempts, tries, on, historyVars, sharedVars, faults, shut>>

\* tenacity's sleep ends.  self._client is read afresh.
Replay(c) ==
    /\ pc[c] = "retrying"
    /\ tries' = [tries EXCEPT ![c] = @ + 1]
    /\ RawCall(c)
    /\ UNCHANGED <<kind, attempts, reconnects, sharedVars, faults, shut>>

\* The application cancels the task at an await.  Inside __aexit__ the finally
\* clause of close() still runs, and the subprocess may run on.
Cancel(c) ==
    /\ c \in Cancellable
    /\ \/ /\ pc[c] = "queued"
          /\ At(c, "done")
          /\ outcome' = [outcome EXCEPT ![c] = "cancelled"]
          /\ UNCHANGED <<permits, sharedVars, breakerVars>>
       \/ /\ pc[c] \in {"admitted", "backoff", "connecting"}
          /\ Finish(c, "cancelled")
          /\ UNCHANGED <<sharedVars, breakerVars>>
       \/ /\ pc[c] = "closing"
          /\ Finish(c, "cancelled")
          /\ client' = NoClient
          /\ connected' = FALSE
          /\ UNCHANGED <<clients, breakerVars>>
       \/ /\ pc[c] \in {"calling", "retrying"}
          /\ Finish(c, "cancelled")
          /\ BreakerSucceeded
          /\ UNCHANGED sharedVars
    /\ UNCHANGED <<kind, attempts, tries, on, historyVars, faults, shut>>

-------------------------------------------------------------------------------
(* The environment                                                          *)

\* The Go subprocess goes away.
Crash ==
    /\ faults < MaxFaults
    /\ \E k \in 1 .. Len(clients) :
          /\ clients[k] = "live"
          /\ clients' = [clients EXCEPT ![k] = "dead"]
    /\ faults' = faults + 1
    /\ UNCHANGED <<callVars, historyVars, permits, client, connected, breakerVars, shut>>

\* The subprocess of an object that was left ends, if __aexit__ has not failed
\* to end it: at any time, also after the reference to it was dropped.
SubprocessEnds ==
    /\ \E k \in 1 .. Len(clients) :
          /\ clients[k] = "leaving"
          /\ clients' = [clients EXCEPT ![k] = "closed"]
    /\ UNCHANGED <<callVars, historyVars, permits, client, connected, breakerVars, faults, shut>>

\* __aexit__ of the HelmClient, once the calls of its block have returned: like
\* close() anywhere, it drops the reference however the await inside it ended.
Shutdown ==
    /\ ~shut
    /\ \A c \in Calls : pc[c] \in {"idle", "done"}
    /\ shut' = TRUE
    /\ IF client = NoClient
       THEN UNCHANGED sharedVars
       ELSE /\ clients' = [clients EXCEPT ![client] = Left(@)]
            /\ client' = NoClient
            /\ connected' = FALSE
    /\ UNCHANGED <<callVars, historyVars, permits, breakerVars, faults>>

\* Nothing is left to do.
Terminated ==
    /\ shut
    /\ UNCHANGED vars

\* The steps a call takes on its own once it was made.
Handshake(c) == ReconnectEntered(c) \/ ReconnectEnterFails(c)

Progress(c) ==
    \/ Acquire(c) \/ FirstTurn(c)
    \/ ReconnectClose(c) \/ ReconnectCreate(c) \/ ReconnectCreateFails(c)
    \/ Reply(c) \/ Expire(c) \/ Disconnect(c) \/ Unexpected(c)
    \/ Replay(c)

Next ==
    \/ \E c \in Calls : Start(c) \/ Progress(c) \/ Handshake(c) \/ Cancel(c)
    \/ BreakerRecovers
    \/ Crash
    \/ SubprocessEnds
    \/ Shutdown
    \/ Terminated

Spec == Init /\ [][Next]_vars

\* The event loop runs every ready task; sleeps end; asyncio.timeout ends an
\* invocation; __aexit__ returns.
TimersAndLoop == \A c \in Calls : WF_vars(Progress(c))

\* __aenter__ has no deadline of its own in this class: that it returns or
\* raises is an assumption about the subprocess.
SubprocessAnswers == \A c \in Calls : WF_vars(Handshake(c))

FairSpec == Spec /\ TimersAndLoop /\ SubprocessAnswers

-------------------------------------------------------------------------------
(* What the class promises                                                  *)

\* A call to a tool that changes state is put on the wire at most once, however
\* the crash, the tenacity layer, the reconnection loop and the other calls
\* interleave (tools.py 363-365, 434-440).
MutationSentOnce ==
    \A c \in Calls : kind[c] = "mutate" => sent[c] <= 1

\* The two retry layers multiply and nothing else does: a read-only call is
\* never put on the wire more than (MaxReconnects + 1) * MaxAttempts times.
SendsBounded ==
    \A c \in Calls : sent[c] <= (MaxReconnects + 1) * MaxAttempts

\* Every way out of a call, cancellation at any await included, gives its
\* bulkhead permit back exactly once (tools.py 489-491).
PermitsAccounted ==
    permits + Cardinality({c \in Calls : pc[c] \in Holding}) = MaxConcurrent

\* A caller who is told that the breaker is open may repeat a call that changes
\* state: it never reached the wire, in this turn of the loop or in an earlier
\* one (tools.py 408-421, 434-440).
RefusedWasNotSent ==
    \A c \in Calls :
        outcome[c] = "circuit_open" /\ kind[c] = "mutate" => sent[c] = 0

\* Each call, seen from outside, as a call of CallContract.
Status(c) ==
    CASE pc[c] = "idle"   -> "idle"
      [] pc[c] = "queued" -> "waiting"
      [] pc[c] = "done"   -> "done"
      [] OTHER            -> "active"

Contract == INSTANCE CallContract
    WITH status <- [c \in Calls |-> Status(c)],
         result <- outcome,
         Results <- Outcomes,
         MaxActive <- MaxConcurrent,
         MaxReadSends <- (MaxReconnects + 1) * MaxAttempts

\* HelmClient implements CallContract: the bulkhead bound is never exceeded, and
\* no step of a retry layer sends for a call that has already finished or for a
\* mutating call that was sent before (tools.py 363-378, 434-440, 489-491).
ImplementsContract == Contract!Spec

\* Every call that was made returns or raises.
CallEnds == \A c \in Calls : pc[c] = "queued" ~> pc[c] = "done"

\* A turn of the loop is lost only to a crash or a failed start, or to another call
\* that reconnects and leaves the client under this one: a call never spends its
\* max_reconnects on what it has done itself (tools.py 304-320, 391-393).
TurnsLostToOthers ==
    \A c \in Calls :
        attempts[c] <= faults + SumFunctionOnSet(reconnects, Calls \ {c})

\* A call tries to reconnect at most once for every turn of its loop: one more
\* time than max_reconnects when it finds the client disconnected at the start
\* (tools.py 390-393).
ReconnectsBounded ==
    \A c \in Calls : reconnects[c] <= MaxReconnects + 1
===============================================================================

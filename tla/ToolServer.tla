------------------------------ MODULE ToolServer -------------------------------
(***************************************************************************)
(* cmd/helm-mcp/main.go in http mode: net/http runs every tool call in a    *)
(* goroutine of its own, clients go away, and a signal ends the process     *)
(* while calls are under way.  The calls are those of ReleaseTools.         *)
(***************************************************************************)
EXTENDS ReleaseTools, Naturals

CONSTANTS
    PropagateCancel, \* --propagate-cancellation
    DrainLimit       \* the five seconds of gracefulShutdown, in ticks

ASSUME ServerAssumption ==
    /\ PropagateCancel \in BOOLEAN
    /\ DrainLimit \in Nat

VARIABLES
    proc,   \* "serving", "signalled", "draining" or "exited"
    drained \* how long Shutdown has been waiting

procVars == <<proc, drained>>
vars == <<procVars, storeVars, call, beat>>

Init ==
    /\ ReleaseInit
    /\ HeartbeatInit
    /\ proc = "serving"
    /\ drained = 0

Running == proc # "exited"

\* The context of the request is done.
Cancelled(c) == PropagateCancel /\ c \in InFlight /\ call[c].dropped

-------------------------------------------------------------------------------
(* Tool calls                                                               *)

\* The listener is open until Shutdown closes it.
Receive(c, r) ==
    /\ proc \in {"serving", "signalled"}
    /\ call[c] = Idle
    /\ call' = [call EXCEPT ![c] = Received(r)]
    /\ UNCHANGED <<procVars, storeVars, beat>>

ClientLeaves(c) ==
    /\ c \in InFlight
    /\ call' = [call EXCEPT ![c].dropped = TRUE]
    /\ UNCHANGED <<procVars, storeVars, beat>>

\* recoverHandler: the deferred functions of the handler run, and the client
\* gets an error.  A revision that the SDK was at work on stays as it is.
Panics(c) ==
    /\ call[c].pc \in {"decide", "ready", "working"}
    /\ Goto(c, "returned")
    /\ owner' = IF owner = c THEN NoCall ELSE owner
    /\ UNCHANGED <<latest, beat>>

\* WithProgress returns, and the handler with it.
Answers(c) ==
    /\ At(c, "returned")
    /\ BeatJoined(c)
    /\ call' = [call EXCEPT ![c] = Idle]
    /\ UNCHANGED <<storeVars, beat>>

BeatStops(c) ==
    /\ BeatEnds(c, At(c, "returned") \/ Cancelled(c))
    /\ UNCHANGED <<storeVars, call>>

BeatSends(c) == BeatTicks(c) /\ UNCHANGED <<storeVars, call>>
BeatSent(c) == BeatNotified(c) /\ UNCHANGED <<storeVars, call>>

\* The steps that a call takes on its own, without waiting for anyone.
Proceeds(c) ==
    \/ HandlerRefuses(c)
    \/ HandleInstall(c) \/ HandleUpgrade(c) \/ HandleUninstall(c)
    \/ HandleRollback(c) \/ HandleTest(c)
    \/ Cancelled(c) /\ SdkCancelled(c)
    \/ Answers(c)

\* The steps that end a call of the SDK: the history query, the search for the
\* chart and its dependencies, none of which has a context, and the action.
SdkReturns(c) ==
    \/ UpgradeDecides(c)
    \/ Install(c) \/ Upgrade(c) \/ Uninstall(c) \/ Rollback(c) \/ Test(c)
    \/ EngineFails(c)
    \/ SdkFinishes(c)

CallStep(c) ==
    \/ Proceeds(c) \/ SdkReturns(c) \/ Panics(c)
    \/ BeatSends(c) \/ BeatSent(c) \/ BeatStops(c)

Works(A) == A /\ UNCHANGED procVars

-------------------------------------------------------------------------------
(* The process                                                              *)

\* The goroutine that waits for SIGINT and SIGTERM calls cancel().
Signal ==
    /\ proc = "serving"
    /\ proc' = "signalled"
    /\ UNCHANGED <<drained, storeVars, call, beat>>

\* gracefulShutdown calls srv.Shutdown, which closes the listener ...
ShutdownBegins ==
    /\ proc = "signalled"
    /\ proc' = "draining"
    /\ UNCHANGED <<drained, storeVars, call, beat>>

\* ... and waits for the calls in flight, for as long as its context lasts.
ShutdownWaits ==
    /\ proc = "draining"
    /\ InFlight # {}
    /\ drained < DrainLimit
    /\ drained' = drained + 1
    /\ UNCHANGED <<proc, storeVars, call, beat>>

\* ListenAndServe returns as soon as Shutdown has closed the listener; main
\* returns after it, and the goroutines end wherever they are.
MainReturns ==
    /\ proc = "draining"
    /\ proc' = "exited"
    /\ call' = [c \in Calls |-> Idle]
    /\ beat' = [c \in Calls |-> "none"]
    /\ owner' = NoCall
    /\ drained' = 0
    /\ UNCHANGED latest

\* Whoever runs the server starts it again.
Restarts ==
    /\ proc = "exited"
    /\ proc' = "serving"
    /\ UNCHANGED <<drained, storeVars, call, beat>>

Next ==
    \/ \E c \in Calls :
           \/ \E r \in Requests : Receive(c, r)
           \/ ClientLeaves(c)
           \/ Works(CallStep(c))
    \/ Signal \/ ShutdownBegins \/ ShutdownWaits \/ MainReturns \/ Restarts

Spec == Init /\ [][Next]_vars

\* Goroutines are scheduled, a notification is written or its connection fails,
\* and select takes each case that stays ready some time.  RunWithContext gives
\* up on a context that is done; any other call of the SDK may take for ever, and
\* nothing is assumed of clients and signals.
FairSpec ==
    /\ Spec
    /\ \A c \in Calls :
           /\ WF_vars(Works(Proceeds(c)))
           /\ WF_vars(Works(BeatSent(c)))
           /\ SF_vars(Works(BeatStops(c)))

-------------------------------------------------------------------------------
Locals ==
    [pc : {"received", "decide", "ready", "working", "returned"},
     request : Requests, options : Options, seen : Statuses, dropped : BOOLEAN]

ServerTypeOK ==
    /\ latest \in Statuses
    /\ owner \in Calls \cup {NoCall}
    /\ call \in [Calls -> {Idle} \cup Locals]
    /\ HeartbeatTypeOK
    /\ proc \in {"serving", "signalled", "draining", "exited"}
    /\ drained \in 0 .. DrainLimit

\* A dry run leaves the release as it is, also where upgrade turns into install
\* and copies its options (helmengine/upgrade.go:11-45, release.go:285-291).
DryRunLeavesRelease ==
    [][latest' # latest =>
           \E c \in InFlight : call'[c] # call[c] /\ ~Asked(c).dryRun
      ]_vars

\* When upgrade with install set runs its action, the SDK takes it unless the
\* release has changed since upgradeShouldInstall looked, or some operation has
\* left it unfinished (v4/release.go:378-406, README.md:569-571).
UpgradeInstallFits ==
    \A c \in InFlight :
        At(c, "ready") /\ Asked(c).orInstall /\ call[c].seen = latest
            => latest \in Unfinished \/ Accepts(call[c].options)

\* Once a call has been answered its client hears no more of it: the heartbeat
\* does not outlive the operation (progress.go:52-55).
NoLateProgress == \A c \in Calls : beat[c] # "none" => c \in InFlight

\* Nothing but the SDK can hold up a call: the history query and the search for
\* the chart ("decide" and "ready", v4/release.go:381-384, 352-360) as long as they
\* like, the action itself only until its request is dropped if it is an install or
\* an upgrade (progress.go:52-57, main.go:148-151, README.md:204).
CallEnds ==
    \A c \in Calls :
        []<>(\/ call[c] = Idle
             \/ At(c, "decide") \/ At(c, "ready")
             \/ At(c, "working") /\ ~(Cancelled(c) /\ Asked(c).op \in {"install", "upgrade"}))

\* "Graceful shutdown with 5-second timeout" (README.md:921): the process ends
\* when no call is in flight or the time is up.
GracefulShutdown ==
    [][Running /\ ~Running' => InFlight = {} \/ drained = DrainLimit]_vars
===============================================================================

----------------------------- MODULE ReleaseTools ------------------------------
(***************************************************************************)
(* internal/tools/release and the release operations of the engines         *)
(* (internal/helmengine/v4/release.go; v3/release.go goes through the same  *)
(* steps, and fails more often), for calls on one release.  The             *)
(* Helm SDK keeps the release's revisions in the cluster; of them the model *)
(* keeps the status of the latest one.  Every other client of the cluster   *)
(* counts as a call too.                                                    *)
(*                                                                         *)
(* Of the options of a request it keeps those that decide whether, and how, *)
(* the release changes.                                                     *)
(***************************************************************************)
EXTENDS Heartbeat

CONSTANTS
    Requests, \* those of AllRequests that the clients send
    NoCall

AllRequests ==
    LET With(ops, orInstall, replace, keep, dry) ==
            [op : ops, orInstall : orInstall, replace : replace,
             keepHistory : keep, dryRun : dry, progress : BOOLEAN]
    IN  With({"install"}, {FALSE}, BOOLEAN, {FALSE}, BOOLEAN)
        \cup With({"upgrade"}, BOOLEAN, {FALSE}, {FALSE}, BOOLEAN)
        \cup With({"uninstall"}, {FALSE}, {FALSE}, BOOLEAN, BOOLEAN)
        \cup With({"rollback"}, {FALSE}, {FALSE}, {FALSE}, BOOLEAN)
        \cup With({"test"}, {FALSE}, {FALSE}, {FALSE}, {FALSE})

ASSUME ReleaseAssumption ==
    /\ Requests \subseteq AllRequests
    /\ NoCall \notin Calls

VARIABLES
    latest, \* the status of the latest revision, "none" without one
    owner,  \* the call that is working on that revision
    call    \* the locals of each call

storeVars == <<latest, owner>>

\* The statuses of a revision that an operation has not finished with.
Unfinished == {"pending", "uninstalling"}
Statuses == Unfinished \cup {"none", "deployed", "failed", "uninstalled"}

\* What a handler passes to the engine, and the engine to the SDK.
Options ==
    [action : {"install", "upgrade", "uninstall", "rollback", "test"},
     replace : BOOLEAN, keepHistory : BOOLEAN, dryRun : BOOLEAN]

Idle == [pc |-> "idle"]
At(c, pc) == call[c].pc = pc
InFlight == {c \in Calls : call[c] # Idle}

Asked(c) == call[c].request
Action(c) == call[c].options.action

ReleaseInit ==
    /\ latest = "none"
    /\ owner = NoCall
    /\ call = [c \in Calls |-> Idle]

\* A call before its handler has looked at it.
Received(r) ==
    [pc |-> "received", request |-> r, seen |-> "none", dropped |-> FALSE,
     options |-> [action |-> r.op, replace |-> FALSE, keepHistory |-> FALSE, dryRun |-> FALSE]]

Goto(c, pc) == call' = [call EXCEPT ![c].pc = pc]

-------------------------------------------------------------------------------
(* The Helm SDK                                                             *)

\* Whether an action goes ahead on the latest revision.
Accepts(o) ==
    \/ o.action = "install" /\ (o.dryRun \/ latest = "none")
    \/ o.action = "install" /\ o.replace /\ latest \in {"failed", "uninstalled"}
    \/ o.action = "upgrade" /\ latest \in {"deployed", "failed"}
    \/ o.action = "uninstall" /\ latest # "none" /\ (o.keepHistory => latest # "uninstalled")
    \/ o.action \in {"rollback", "test"} /\ latest # "none"

\* An action that goes ahead first records that it is under way.
SdkBegins(c, o) ==
    IF ~Accepts(o)
    THEN Goto(c, "returned") /\ UNCHANGED storeVars
    ELSE /\ Goto(c, "working")
         /\ IF o.dryRun \/ o.action = "test"
            THEN UNCHANGED storeVars
            ELSE /\ latest' = IF o.action = "uninstall" THEN "uninstalling" ELSE "pending"
                 /\ owner' = c

\* What it records at its end; a failed uninstall leaves its mark behind.
Recorded(o, ok) ==
    IF o.action = "uninstall"
    THEN IF ~ok THEN "uninstalling" ELSE IF o.keepHistory THEN "uninstalled" ELSE "none"
    ELSE IF ok THEN "deployed" ELSE "failed"

\* A revision that is no longer the latest one does not count any more.
SdkEnds(c, ok) ==
    /\ IF owner = c
       THEN latest' = Recorded(call[c].options, ok) /\ owner' = NoCall
       ELSE UNCHANGED storeVars
    /\ Goto(c, "returned")

-------------------------------------------------------------------------------
(* The handlers: the request is valid, and its options are on their way     *)

Handle(c, action, place) ==
    /\ At(c, "received")
    /\ Asked(c).op = action
    /\ call' = [call EXCEPT
           ![c].pc = place,
           ![c].options = [action |-> action, replace |-> Asked(c).replace,
                           keepHistory |-> Asked(c).keepHistory, dryRun |-> Asked(c).dryRun]]
    /\ BeatStarts(c, Asked(c).progress)
    /\ UNCHANGED storeVars

HandleInstall(c) == Handle(c, "install", "ready")
HandleUpgrade(c) == Handle(c, "upgrade", IF Asked(c).orInstall THEN "decide" ELSE "ready")
HandleUninstall(c) == Handle(c, "uninstall", "ready")
HandleRollback(c) == Handle(c, "rollback", "ready")
HandleTest(c) == Handle(c, "test", "ready")

\* A handler finds a fault in the request and answers at once.
HandlerRefuses(c) ==
    /\ At(c, "received")
    /\ call' = [call EXCEPT ![c] = Idle]
    /\ UNCHANGED <<storeVars, beat>>

-------------------------------------------------------------------------------
(* The engine                                                               *)

\* A mutant: the copy of the options forgets one.
InstallOptionsForReal(o, replace) ==
    [action |-> "install", replace |-> replace, keepHistory |-> FALSE, dryRun |-> FALSE]

InstallOptionsForUpgrade(o, replace) ==
    [action |-> "install", replace |-> replace, keepHistory |-> FALSE, dryRun |-> o.dryRun]

\* A mutant: a release that was uninstalled has a history.
InstallIfNoHistory(status) == status = "none"

\* upgradeShouldInstall: no history, or a last revision that was uninstalled.
ShouldInstall(status) == status \in {"none", "uninstalled"}

\* upgrade --install looks at the history first, and then works on the chart.
UpgradeDecides(c) ==
    /\ At(c, "decide")
    /\ call' = [call EXCEPT
           ![c].pc = "ready",
           ![c].seen = latest,
           ![c].options = IF ShouldInstall(latest)
                          THEN InstallOptionsForUpgrade(@, latest = "uninstalled")
                          ELSE @]
    /\ UNCHANGED <<storeVars, beat>>

\* The chart is found and loaded and the values are merged, and the SDK starts.
Runs(c, action) ==
    /\ At(c, "ready")
    /\ Action(c) = action
    /\ SdkBegins(c, call[c].options)
    /\ UNCHANGED beat

Install(c) == Runs(c, "install")
Upgrade(c) == Runs(c, "upgrade")
Uninstall(c) == Runs(c, "uninstall")
Rollback(c) == Runs(c, "rollback")
Test(c) == Runs(c, "test")

\* The history cannot be read, or one of the steps before the SDK fails.
EngineFails(c) ==
    /\ call[c].pc \in {"decide", "ready"}
    /\ Goto(c, "returned")
    /\ UNCHANGED <<storeVars, beat>>

SdkFinishes(c) ==
    /\ At(c, "working")
    /\ \E ok \in BOOLEAN : SdkEnds(c, ok)
    /\ UNCHANGED beat

\* A mutant: RunWithContext gets a context of its own.
TakesNoContext == {}

\* The operations that pass the context of the request to the SDK; the others
\* leave it unnamed.
TakesContext == {"install", "upgrade"}

\* The SDK gives up on a context that is done.
SdkCancelled(c) ==
    /\ At(c, "working")
    /\ Action(c) \in TakesContext
    /\ SdkEnds(c, FALSE)
    /\ UNCHANGED beat
===============================================================================

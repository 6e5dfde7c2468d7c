---------------------------- MODULE ToolServerProofs ----------------------------
(* What holds of the tool calls for any number of them, any requests and any *)
(* way the process is stopped.                                               *)
EXTENDS ToolServer, TLAPS

USE ReleaseAssumption, ServerAssumption

\* A call with a place of its own is in flight, and its locals are typed.
LEMMA AtIsLocal ==
    ASSUME ServerTypeOK, NEW c \in Calls, call[c].pc # "idle"
    PROVE  call[c] \in Locals /\ c \in InFlight
BY DEF ServerTypeOK, Idle, InFlight

\* Where a call without locals is.
LEMMA IdlePc ==
    ASSUME ServerTypeOK, NEW c \in Calls
    PROVE  c \in InFlight <=> call[c].pc # "idle"
BY DEF ServerTypeOK, Idle, InFlight, Locals

\* The requests, field by field.
LEMMA RequestType ==
    ASSUME NEW r \in Requests
    PROVE  /\ r.op \in {"install", "upgrade", "uninstall", "rollback", "test"}
           /\ r.orInstall \in BOOLEAN /\ r.replace \in BOOLEAN /\ r.keepHistory \in BOOLEAN
           /\ r.dryRun \in BOOLEAN /\ r.progress \in BOOLEAN
           /\ r.orInstall => r.op = "upgrade"
BY DEF AllRequests

-------------------------------------------------------------------------------
\* The options of a call that its handler has looked at say what was asked.
Honest(c) ==
    c \in InFlight =>
        /\ ~At(c, "received") => call[c].options.dryRun = Asked(c).dryRun
        /\ At(c, "decide") => Action(c) = "upgrade" /\ Asked(c).orInstall
        /\ At(c, "ready") /\ Asked(c).orInstall =>
               \/ /\ ShouldInstall(call[c].seen)
                  /\ Action(c) = "install"
                  /\ call[c].options.replace = (call[c].seen = "uninstalled")
               \/ ~ShouldInstall(call[c].seen) /\ Action(c) = "upgrade"

\* The heartbeat starts after the request has been looked at.
Quiet(c) == call[c].pc \in {"idle", "received"} => beat[c] = "none"

\* The revision that an operation has not finished belongs to a call that is at
\* work and was asked for more than a dry run.
OwnerWorks ==
    owner # NoCall =>
        /\ owner \in Calls
        /\ At(owner, "working")
        /\ ~call[owner].options.dryRun

IInv ==
    /\ ServerTypeOK
    /\ OwnerWorks
    /\ \A c \in Calls : Honest(c) /\ Quiet(c)

LEMMA Initially == Init => IInv
BY DEF Init, ReleaseInit, HeartbeatInit, IInv, ServerTypeOK, HeartbeatTypeOK, Statuses,
       OwnerWorks, Honest, Quiet, InFlight, Idle

\* What a step of one call owes the invariant.
LEMMA Owed ==
    ASSUME IInv, NEW c \in Calls, NEW l \in {Idle} \cup Locals,
           call' = [call EXCEPT ![c] = l],
           UNCHANGED procVars,
           latest' \in Statuses, owner' \in Calls \cup {NoCall},
           HeartbeatTypeOK', \A d \in Calls \ {c} : beat'[d] = beat[d],
           OwnerWorks', Honest(c)', Quiet(c)'
    PROVE  IInv'
<1>1. call'[c] = l /\ \A d \in Calls \ {c} : call'[d] = call[d]
  BY DEF IInv, ServerTypeOK
<1>2. ServerTypeOK'
  BY DEF IInv, ServerTypeOK, procVars
<1>3. ASSUME NEW d \in Calls PROVE (Honest(d) /\ Quiet(d))'
  <2>1. CASE d = c
    BY <2>1
  <2>2. CASE d # c
    BY <1>1, <2>2 DEF IInv, Honest, Quiet, InFlight, At, Asked, Action
  <2>. QED
    BY <2>1, <2>2
<1>. QED
  BY <1>2, <1>3 DEF IInv

\* The locals after a step that only moves a call on.
LEMMA Moved ==
    ASSUME IInv, NEW c \in Calls, call[c] \in Locals,
           NEW pc \in {"received", "decide", "ready", "working", "returned"}, Goto(c, pc)
    PROVE  \E l \in Locals :
               /\ call' = [call EXCEPT ![c] = l]
               /\ call'[c] = l
               /\ l.pc = pc
               /\ l.request = call[c].request /\ l.options = call[c].options
               /\ l.seen = call[c].seen /\ l.dropped = call[c].dropped
<1>. DEFINE l == [call[c] EXCEPT !.pc = pc]
<1>1. l \in Locals /\ l.pc = pc /\ l.request = call[c].request /\ l.options = call[c].options
      /\ l.seen = call[c].seen /\ l.dropped = call[c].dropped
  BY DEF Locals
<1>2. call' = [call EXCEPT ![c] = l]
  BY DEF Goto
<1>3. call'[c] = l
  BY <1>2 DEF IInv, ServerTypeOK
<1>. QED
  BY <1>1, <1>2, <1>3

\* A call that has returned, or is at work on something, owes little.
LEMMA MovedOn ==
    ASSUME IInv, NEW c \in Calls, call[c] \in Locals, ~At(c, "received"),
           NEW pc \in {"working", "returned"}, Goto(c, pc)
    PROVE  Honest(c)' /\ Quiet(c)'
<1>1. PICK l \in Locals :
          /\ call' = [call EXCEPT ![c] = l] /\ call'[c] = l /\ l.pc = pc
          /\ l.request = call[c].request /\ l.options = call[c].options
  BY Moved
<1>2. call[c].options.dryRun = Asked(c).dryRun
  BY AtIsLocal DEF IInv, Honest, InFlight, Idle, Locals, At
<1>. QED
  BY <1>1, <1>2 DEF Honest, Quiet, At, Asked, Action

\* The owner of the revision stays at work while other calls take their steps.
LEMMA OwnerStays ==
    ASSUME IInv, NEW c \in Calls, owner # c, owner' = owner,
           \A d \in Calls \ {c} : call'[d] = call[d]
    PROVE  OwnerWorks'
BY DEF IInv, OwnerWorks, At
-------------------------------------------------------------------------------
(* One lemma for each kind of step                                          *)

LEMMA ReceiveStep ==
    ASSUME IInv, NEW c \in Calls, NEW r \in Requests, Receive(c, r)
    PROVE  IInv'
<1>1. Received(r) \in Locals
  BY RequestType DEF Received, Locals, Options, Statuses
<1>2. call'[c] = Received(r) /\ \A d \in Calls \ {c} : call'[d] = call[d]
  BY DEF Receive, IInv, ServerTypeOK
<1>3. owner # c
  BY DEF Receive, IInv, OwnerWorks, At, Idle
<1>4. OwnerWorks'
  BY <1>2, <1>3, OwnerStays DEF Receive, storeVars
<1>5. beat[c] = "none"
  BY DEF Receive, IInv, Quiet, Idle
<1>6. call'[c].pc = "received" /\ beat' = beat
  BY <1>2 DEF Receive, Received
<1>7. Honest(c)' /\ Quiet(c)'
  BY <1>5, <1>6 DEF Honest, Quiet, At
<1>. QED
  BY <1>1, <1>4, <1>6, <1>7, Owed DEF Receive, IInv, ServerTypeOK, storeVars, HeartbeatTypeOK

LEMMA LeaveStep ==
    ASSUME IInv, NEW c \in Calls, ClientLeaves(c)
    PROVE  IInv'
<1>. DEFINE l == [call[c] EXCEPT !.dropped = TRUE]
<1>1. call[c] \in Locals
  BY DEF ClientLeaves, IInv, ServerTypeOK, InFlight
<1>2. l \in Locals /\ l.pc = call[c].pc /\ l.request = call[c].request
      /\ l.options = call[c].options /\ l.seen = call[c].seen
  BY <1>1 DEF Locals
<1>3. call' = [call EXCEPT ![c] = l]
  BY DEF ClientLeaves
<1>4. call'[c] = l /\ \A d \in Calls \ {c} : call'[d] = call[d]
  BY <1>3 DEF IInv, ServerTypeOK
<1>5. OwnerWorks'
  BY <1>2, <1>4 DEF ClientLeaves, IInv, OwnerWorks, At, storeVars
<1>6. Honest(c)' /\ Quiet(c)'
  BY <1>2, <1>4 DEF ClientLeaves, IInv, Honest, Quiet, At, InFlight, Asked, Action, storeVars
<1>. QED
  BY <1>2, <1>3, <1>5, <1>6, Owed DEF ClientLeaves, IInv, ServerTypeOK, storeVars, HeartbeatTypeOK

LEMMA HandleStep ==
    ASSUME IInv, NEW c \in Calls, NEW action \in {"install", "upgrade", "uninstall", "rollback", "test"},
           NEW place \in {"decide", "ready"},
           place = "decide" <=> (action = "upgrade" /\ Asked(c).orInstall),
           Handle(c, action, place), UNCHANGED procVars
    PROVE  IInv'
<1>. DEFINE o == [action |-> action, replace |-> Asked(c).replace,
                  keepHistory |-> Asked(c).keepHistory, dryRun |-> Asked(c).dryRun]
            l == [call[c] EXCEPT !.pc = place, !.options = o]
<1>1. call[c] \in Locals
  BY AtIsLocal DEF Handle, At, IInv
<1>2. call[c].request \in Requests
  BY <1>1 DEF Locals
<1>3. o \in Options
  BY <1>2, RequestType DEF Options, Asked
<1>4. l \in Locals /\ l.pc = place /\ l.request = call[c].request /\ l.options = o
  BY <1>1, <1>3 DEF Locals
<1>5. call' = [call EXCEPT ![c] = l]
  BY DEF Handle
<1>6. call'[c] = l /\ \A d \in Calls \ {c} : call'[d] = call[d]
  BY <1>5 DEF IInv, ServerTypeOK
<1>7. OwnerWorks'
  <2>1. owner # c
    BY DEF Handle, At, IInv, OwnerWorks
  <2>. QED
    BY <1>6, <2>1, OwnerStays DEF Handle, storeVars
<1>8. Asked(c).op = action /\ (Asked(c).orInstall => action = "upgrade")
  BY <1>2, RequestType DEF Handle, Asked
<1>9. Honest(c)'
  BY <1>4, <1>6, <1>8 DEF Honest, At, Asked, Action
<1>10. Quiet(c)'
  BY <1>4, <1>6 DEF Quiet
<1>11. HeartbeatTypeOK' /\ \A d \in Calls \ {c} : beat'[d] = beat[d]
  BY DEF Handle, BeatStarts, IInv, ServerTypeOK, HeartbeatTypeOK
<1>. QED
  BY <1>4, <1>5, <1>7, <1>9, <1>10, <1>11, Owed DEF Handle, IInv, ServerTypeOK, storeVars

\* A handler's answer: the call is over and its heartbeat with it.
LEMMA AnswerStep ==
    ASSUME IInv, NEW c \in Calls, HandlerRefuses(c) \/ Answers(c), UNCHANGED procVars
    PROVE  IInv'
<1>1. call' = [call EXCEPT ![c] = Idle] /\ UNCHANGED <<storeVars, beat>>
  BY DEF HandlerRefuses, Answers
<1>2. call'[c] = Idle /\ \A d \in Calls \ {c} : call'[d] = call[d]
  BY <1>1 DEF IInv, ServerTypeOK
<1>3. owner # c
  BY DEF HandlerRefuses, Answers, IInv, OwnerWorks, At
<1>4. OwnerWorks'
  BY <1>1, <1>2, <1>3, OwnerStays DEF storeVars
<1>5. beat[c] = "none"
  BY DEF HandlerRefuses, Answers, BeatJoined, IInv, Quiet, At
<1>6. Honest(c)' /\ Quiet(c)'
  BY <1>1, <1>2, <1>5 DEF Honest, Quiet, InFlight
<1>. QED
  BY <1>1, <1>4, <1>6, Owed DEF IInv, ServerTypeOK, storeVars, HeartbeatTypeOK

LEMMA DecideStep ==
    ASSUME IInv, NEW c \in Calls, UpgradeDecides(c), UNCHANGED procVars
    PROVE  IInv'
<1>. DEFINE o == IF ShouldInstall(latest)
                 THEN InstallOptionsForUpgrade(call[c].options, latest = "uninstalled")
                 ELSE call[c].options
            l == [call[c] EXCEPT !.pc = "ready", !.seen = latest, !.options = o]
<1>1. call[c] \in Locals /\ c \in InFlight /\ latest \in Statuses
  BY AtIsLocal DEF UpgradeDecides, At, IInv, ServerTypeOK
<1>2. /\ call[c].options.dryRun = Asked(c).dryRun
      /\ call[c].options.action = "upgrade"
      /\ call[c].options \in Options
  BY <1>1 DEF UpgradeDecides, IInv, Honest, Action, At, Locals
<1>3. o \in Options /\ o.dryRun = Asked(c).dryRun
  BY <1>2 DEF InstallOptionsForUpgrade, Options
<1>4. l \in Locals /\ l.pc = "ready" /\ l.request = call[c].request
      /\ l.options = o /\ l.seen = latest
  BY <1>1, <1>3 DEF Locals
<1>5. call' = [call EXCEPT ![c] = l]
  <2>1. call' = [call EXCEPT ![c] = [call[c] EXCEPT !.pc = "ready", !.seen = latest, !.options =
                    IF ShouldInstall(latest)
                    THEN InstallOptionsForUpgrade(@, latest = "uninstalled")
                    ELSE @]]
    BY DEF UpgradeDecides
  <2>. QED
    BY <1>1, <2>1 DEF Locals
<1>6. call'[c] = l /\ \A d \in Calls \ {c} : call'[d] = call[d]
  BY <1>5 DEF IInv, ServerTypeOK
<1>7. OwnerWorks'
  <2>1. owner # c
    BY DEF UpgradeDecides, At, IInv, OwnerWorks
  <2>. QED
    BY <1>6, <2>1, OwnerStays DEF UpgradeDecides, storeVars
<1>8. Honest(c)'
  <2>1. l.options.dryRun = l.request.dryRun
    BY <1>3, <1>4 DEF Asked
  <2>2. \/ ShouldInstall(l.seen) /\ o.action = "install" /\ o.replace = (l.seen = "uninstalled")
        \/ ~ShouldInstall(l.seen) /\ o.action = "upgrade"
    BY <1>2, <1>4 DEF InstallOptionsForUpgrade
  <2>. QED
    BY <1>4, <1>6, <2>1, <2>2 DEF Honest, At, Asked, Action
<1>9. Quiet(c)'
  BY <1>4, <1>6 DEF Quiet
<1>. QED
  BY <1>4, <1>5, <1>7, <1>8, <1>9, Owed DEF UpgradeDecides, IInv, ServerTypeOK, storeVars, HeartbeatTypeOK

\* A step that fails before the SDK is called.
LEMMA FailStep ==
    ASSUME IInv, NEW c \in Calls, EngineFails(c), UNCHANGED procVars
    PROVE  IInv'
<1>1. /\ call[c].pc \in {"decide", "ready"}
      /\ Goto(c, "returned")
      /\ UNCHANGED <<storeVars, beat>>
  BY DEF EngineFails
<1>2. call[c] \in Locals /\ ~At(c, "received")
  BY <1>1, AtIsLocal DEF IInv, At
<1>3. PICK l \in Locals : call' = [call EXCEPT ![c] = l]
  BY <1>1, <1>2, Moved
<1>4. Honest(c)' /\ Quiet(c)'
  BY <1>1, <1>2, MovedOn
<1>5. OwnerWorks'
  <2>1. owner # c
    BY <1>1 DEF IInv, OwnerWorks, At
  <2>. QED
    BY <1>1, <1>3, <2>1, OwnerStays DEF IInv, ServerTypeOK, storeVars
<1>. QED
  BY <1>1, <1>3, <1>4, <1>5, Owed DEF IInv, ServerTypeOK, storeVars, HeartbeatTypeOK

LEMMA RunStep ==
    ASSUME IInv, NEW c \in Calls, NEW action, Runs(c, action), UNCHANGED procVars
    PROVE  IInv'
<1>1. call[c] \in Locals /\ ~At(c, "received") /\ beat' = beat
  BY AtIsLocal DEF Runs, At, IInv
<1>2. CASE Goto(c, "returned") /\ UNCHANGED storeVars
  <2>1. PICK l \in Locals : call' = [call EXCEPT ![c] = l]
    BY <1>1, <1>2, Moved
  <2>2. Honest(c)' /\ Quiet(c)'
    BY <1>1, <1>2, MovedOn
  <2>3. owner # c
    BY DEF Runs, IInv, OwnerWorks, At
  <2>4. OwnerWorks'
    BY <1>2, <2>1, <2>3, OwnerStays DEF IInv, ServerTypeOK, storeVars
  <2>. QED
    BY <1>1, <1>2, <2>1, <2>2, <2>4, Owed DEF IInv, ServerTypeOK, storeVars, HeartbeatTypeOK
<1>3. CASE /\ Goto(c, "working")
           /\ IF call[c].options.dryRun \/ call[c].options.action = "test"
              THEN UNCHANGED storeVars
              ELSE latest' \in Unfinished /\ owner' = c
  <2>1. PICK l \in Locals :
            /\ call' = [call EXCEPT ![c] = l] /\ call'[c] = l /\ l.pc = "working"
            /\ l.options = call[c].options
    BY <1>1, <1>3, Moved
  <2>2. Honest(c)' /\ Quiet(c)'
    BY <1>1, <1>3, MovedOn
  <2>3. OwnerWorks'
    <3>1. CASE owner' = c
      <4>1. owner # c
        BY DEF Runs, IInv, OwnerWorks, At
      <4>2. ~call[c].options.dryRun
        BY <1>3, <3>1, <4>1 DEF storeVars
      <4>. QED
        BY <2>1, <3>1, <4>2 DEF OwnerWorks, At
    <3>2. CASE owner' # c
      BY <1>3, <2>1, <3>2, OwnerStays DEF IInv, ServerTypeOK, storeVars
    <3>. QED
      BY <3>1, <3>2
  <2>4. latest' \in Statuses /\ owner' \in Calls \cup {NoCall}
    BY <1>3 DEF IInv, ServerTypeOK, Statuses, storeVars
  <2>. QED
    BY <1>1, <2>1, <2>2, <2>3, <2>4, Owed DEF IInv, ServerTypeOK, HeartbeatTypeOK
<1>. QED
  BY <1>2, <1>3 DEF Runs, SdkBegins, Unfinished

LEMMA EndStep ==
    ASSUME IInv, NEW c \in Calls, NEW ok \in BOOLEAN, At(c, "working"),
           SdkEnds(c, ok), beat' = beat, UNCHANGED procVars
    PROVE  IInv'
<1>1. call[c] \in Locals /\ ~At(c, "received") /\ Goto(c, "returned")
  BY AtIsLocal DEF IInv, At, SdkEnds
<1>2. PICK l \in Locals : call' = [call EXCEPT ![c] = l]
  BY <1>1, Moved
<1>3. Honest(c)' /\ Quiet(c)'
  BY <1>1, MovedOn
<1>4. owner' # c /\ owner' \in {owner, NoCall} /\ latest' \in Statuses
  BY DEF SdkEnds, Recorded, storeVars, Statuses, Unfinished, IInv, ServerTypeOK
<1>5. OwnerWorks'
  <2>1. CASE owner' = NoCall
    BY <2>1 DEF OwnerWorks
  <2>2. CASE owner' # NoCall
    BY <1>2, <1>4, <2>2, OwnerStays DEF IInv, ServerTypeOK
  <2>. QED
    BY <2>1, <2>2
<1>. QED
  BY <1>2, <1>3, <1>4, <1>5, Owed DEF IInv, ServerTypeOK, HeartbeatTypeOK

\* recoverHandler lets go of a revision without recording anything.
LEMMA PanicStep ==
    ASSUME IInv, NEW c \in Calls, Panics(c), UNCHANGED procVars
    PROVE  IInv'
<1>1. call[c] \in Locals /\ ~At(c, "received") /\ Goto(c, "returned")
  BY AtIsLocal DEF IInv, At, Panics
<1>2. PICK l \in Locals : call' = [call EXCEPT ![c] = l]
  BY <1>1, Moved
<1>3. Honest(c)' /\ Quiet(c)'
  BY <1>1, MovedOn
<1>4. owner' \in {owner, NoCall} /\ (owner = c => owner' = NoCall) /\ UNCHANGED <<latest, beat>>
  BY DEF Panics
<1>5. OwnerWorks'
  <2>1. CASE owner' = NoCall
    BY <2>1 DEF OwnerWorks
  <2>2. CASE owner' # NoCall
    BY <1>2, <1>4, <2>2, OwnerStays DEF IInv, ServerTypeOK
  <2>. QED
    BY <2>1, <2>2
<1>. QED
  BY <1>2, <1>3, <1>4, <1>5, Owed DEF IInv, ServerTypeOK, HeartbeatTypeOK

LEMMA BeatStep ==
    ASSUME IInv, NEW c \in Calls, BeatSends(c) \/ BeatSent(c) \/ BeatStops(c), UNCHANGED procVars
    PROVE  IInv'
<1>1. beat[c] # "none" /\ UNCHANGED <<storeVars, call, procVars>>
  BY DEF BeatSends, BeatSent, BeatStops, BeatTicks, BeatNotified, BeatEnds
<1>2. HeartbeatTypeOK' /\ \A d \in Calls \ {c} : beat'[d] = beat[d]
  BY DEF BeatSends, BeatSent, BeatStops, BeatTicks, BeatNotified, BeatEnds, IInv, ServerTypeOK,
         HeartbeatTypeOK
<1>3. call[c].pc \notin {"idle", "received"}
  BY <1>1 DEF IInv, Quiet
<1>4. ServerTypeOK' /\ OwnerWorks'
  BY <1>1, <1>2 DEF IInv, ServerTypeOK, OwnerWorks, At, storeVars, procVars
<1>5. ASSUME NEW d \in Calls PROVE (Honest(d) /\ Quiet(d))'
  BY <1>1, <1>2, <1>3 DEF IInv, Honest, Quiet, InFlight, At, Asked, Action, storeVars
<1>. QED
  BY <1>4, <1>5 DEF IInv

\* The end of the process leaves no call; the rest of its life leaves the calls
\* alone.
LEMMA ProcessStep ==
    ASSUME IInv, Signal \/ ShutdownBegins \/ ShutdownWaits \/ MainReturns \/ Restarts
    PROVE  IInv'
<1>1. CASE Signal \/ ShutdownBegins \/ ShutdownWaits \/ Restarts
  <2>1. UNCHANGED <<storeVars, call, beat>>
    BY <1>1 DEF Signal, ShutdownBegins, ShutdownWaits, Restarts
  <2>2. proc' \in {"serving", "signalled", "draining", "exited"} /\ drained' \in 0 .. DrainLimit
    BY <1>1 DEF Signal, ShutdownBegins, ShutdownWaits, Restarts, IInv, ServerTypeOK
  <2>3. ServerTypeOK'
    BY <2>1, <2>2 DEF IInv, ServerTypeOK, HeartbeatTypeOK, storeVars
  <2>4. OwnerWorks' /\ \A d \in Calls : Honest(d)' /\ Quiet(d)'
    BY <2>1 DEF IInv, OwnerWorks, Honest, Quiet, InFlight, At, Asked, Action, storeVars
  <2>. QED
    BY <2>3, <2>4 DEF IInv
<1>2. CASE MainReturns
  <2>1. ServerTypeOK'
    BY <1>2 DEF MainReturns, IInv, ServerTypeOK, HeartbeatTypeOK
  <2>2. OwnerWorks'
    BY <1>2 DEF MainReturns, OwnerWorks
  <2>3. \A d \in Calls : Honest(d)' /\ Quiet(d)'
    BY <1>2 DEF MainReturns, Honest, Quiet, InFlight
  <2>. QED
    BY <2>1, <2>2, <2>3 DEF IInv
<1>. QED
  BY <1>1, <1>2

LEMMA CallStepKeeps ==
    ASSUME IInv, NEW c \in Calls, CallStep(c), UNCHANGED procVars
    PROVE  IInv'
<1>1. CASE HandlerRefuses(c) \/ Answers(c)
  BY <1>1, AnswerStep
<1>2. CASE HandleInstall(c)
  BY <1>2, HandleStep DEF HandleInstall
<1>3. CASE HandleUpgrade(c)
  <2>1. Asked(c).orInstall \in BOOLEAN
    BY <1>3, AtIsLocal, RequestType DEF HandleUpgrade, Handle, At, IInv, Asked, Locals
  <2>2. CASE Asked(c).orInstall
    BY <1>3, <2>2, HandleStep DEF HandleUpgrade
  <2>3. CASE ~Asked(c).orInstall
    BY <1>3, <2>3, HandleStep DEF HandleUpgrade
  <2>. QED
    BY <2>1, <2>2, <2>3
<1>4. CASE HandleUninstall(c)
  BY <1>4, HandleStep DEF HandleUninstall
<1>5. CASE HandleRollback(c)
  BY <1>5, HandleStep DEF HandleRollback
<1>6. CASE HandleTest(c)
  BY <1>6, HandleStep DEF HandleTest
<1>7. CASE UpgradeDecides(c)
  BY <1>7, DecideStep
<1>8. CASE Install(c) \/ Upgrade(c) \/ Uninstall(c) \/ Rollback(c) \/ Test(c)
  BY <1>8, RunStep DEF Install, Upgrade, Uninstall, Rollback, Test
<1>9. CASE EngineFails(c)
  BY <1>9, FailStep
<1>10. CASE SdkCancelled(c)
  BY <1>10, EndStep DEF SdkCancelled
<1>11. CASE SdkFinishes(c)
  BY <1>11, EndStep DEF SdkFinishes
<1>12. CASE BeatSends(c) \/ BeatSent(c) \/ BeatStops(c)
  BY <1>12, BeatStep
<1>13. CASE Panics(c)
  BY <1>13, PanicStep
<1>. QED
  BY <1>1, <1>2, <1>3, <1>4, <1>5, <1>6, <1>7, <1>8, <1>9, <1>10, <1>11, <1>12, <1>13
     DEF CallStep, Proceeds, SdkReturns

LEMMA NextKeeps == IInv /\ [Next]_vars => IInv'
<1>. SUFFICES ASSUME IInv, [Next]_vars PROVE IInv'
  OBVIOUS
<1>1. ASSUME NEW c \in Calls, NEW r \in Requests, Receive(c, r) PROVE IInv'
  BY <1>1, ReceiveStep
<1>2. ASSUME NEW c \in Calls, ClientLeaves(c) PROVE IInv'
  BY <1>2, LeaveStep
<1>3. ASSUME NEW c \in Calls, Works(CallStep(c)) PROVE IInv'
  BY <1>3, CallStepKeeps DEF Works
<1>4. CASE Signal \/ ShutdownBegins \/ ShutdownWaits \/ MainReturns \/ Restarts
  BY <1>4, ProcessStep
<1>5. CASE UNCHANGED vars
  BY <1>5 DEF vars, IInv, ServerTypeOK, HeartbeatTypeOK, OwnerWorks, Honest, Quiet, InFlight, At,
              Asked, Action, storeVars, procVars
<1>. QED
  BY <1>1, <1>2, <1>3, <1>4, <1>5 DEF Next

\* The strengthened invariant holds of every behaviour.
THEOREM Invariance == Spec => []IInv
BY Initially, NextKeeps, PTL DEF Spec

-------------------------------------------------------------------------------
\* The variables keep their types (release.go, progress.go, main.go).
THEOREM TypesHold == Spec => []ServerTypeOK
BY Invariance, PTL DEF IInv

\* No heartbeat outlives its call (progress.go:52-55).
THEOREM HeartbeatEndsInTime == Spec => []NoLateProgress
<1>1. IInv => NoLateProgress
  BY IdlePc DEF IInv, Quiet, NoLateProgress
<1>. QED
  BY <1>1, Invariance, PTL

\* What upgrade --install has decided on, the SDK takes, as long as the release
\* is as it was (v4/release.go:378-406).
THEOREM UpgradeInstallDecides == Spec => []UpgradeInstallFits
<1>1. IInv => UpgradeInstallFits
  <2>1. SUFFICES ASSUME IInv, NEW c \in InFlight, At(c, "ready"), Asked(c).orInstall,
                        call[c].seen = latest, latest \notin Unfinished
                 PROVE  Accepts(call[c].options)
    BY DEF UpgradeInstallFits
  <2>2. c \in Calls /\ latest \in {"none", "deployed", "failed", "uninstalled"}
    BY <2>1 DEF InFlight, IInv, ServerTypeOK, Statuses
  <2>3. CASE /\ ShouldInstall(latest)
             /\ Action(c) = "install"
             /\ call[c].options.replace = (latest = "uninstalled")
    BY <2>2, <2>3 DEF ShouldInstall, Accepts, Action
  <2>4. CASE ~ShouldInstall(latest) /\ Action(c) = "upgrade"
    BY <2>2, <2>4 DEF ShouldInstall, Accepts, Action
  <2>. QED
    BY <2>1, <2>2, <2>3, <2>4 DEF IInv, Honest
<1>. QED
  BY <1>1, Invariance, PTL

\* A step that changes the status of the release is a step of a call that is
\* not a dry run (helmengine/upgrade.go:11-45).
LEMMA ChangeIsAsked ==
    ASSUME IInv, [Next]_vars, latest' # latest
    PROVE  \E c \in InFlight : call'[c] # call[c] /\ ~Asked(c).dryRun
<1>1. PICK c \in Calls : (\E action : Runs(c, action)) \/ SdkFinishes(c) \/ SdkCancelled(c)
  BY DEF Next, vars, Works, CallStep, Proceeds, SdkReturns, Receive, ClientLeaves, Signal, ShutdownBegins,
         ShutdownWaits, MainReturns, Restarts, HandlerRefuses, HandleInstall, HandleUpgrade,
         HandleUninstall, HandleRollback, HandleTest, Handle, UpgradeDecides, Install, Upgrade,
         Uninstall, Rollback, Test, EngineFails, Panics, Answers, BeatSends, BeatSent, BeatStops,
         storeVars
<1>2. call[c] \in Locals /\ c \in InFlight /\ call[c].pc \in {"ready", "working"}
  BY <1>1, AtIsLocal DEF Runs, SdkFinishes, SdkCancelled, At, IInv
<1>3. call[c].options.dryRun = Asked(c).dryRun
  BY <1>2 DEF IInv, Honest, At
<1>4. CASE \E action : Runs(c, action)
  <2>1. Goto(c, "working") /\ ~call[c].options.dryRun /\ call[c].pc = "ready"
    BY <1>4 DEF Runs, SdkBegins, storeVars, At
  <2>2. call'[c].pc = "working"
    BY <1>2, <2>1, Moved
  <2>. QED
    BY <1>2, <1>3, <2>1, <2>2
<1>5. CASE SdkFinishes(c) \/ SdkCancelled(c)
  <2>1. Goto(c, "returned") /\ owner = c /\ call[c].pc = "working"
    BY <1>5 DEF SdkFinishes, SdkCancelled, SdkEnds, storeVars, At
  <2>2. call'[c].pc = "returned"
    BY <1>2, <2>1, Moved
  <2>3. ~call[c].options.dryRun
    BY <2>1 DEF IInv, OwnerWorks
  <2>. QED
    BY <1>2, <1>3, <2>1, <2>2, <2>3
<1>. QED
  BY <1>1, <1>4, <1>5

\* Dry runs leave the release alone, along either way through an upgrade.
THEOREM DryRunIsDry == Spec => DryRunLeavesRelease
<1>1. IInv /\ [Next]_vars =>
          [latest' # latest => \E c \in InFlight : call'[c] # call[c] /\ ~Asked(c).dryRun]_vars
  BY ChangeIsAsked
<1>. QED
  BY <1>1, Invariance, PTL DEF Spec, DryRunLeavesRelease
===============================================================================

---------------------------- MODULE LocalToolsProofs ----------------------------
(* What holds of the chart and plugin tools for any number of calls and any   *)
(* requests, dependencies and plugins.                                       *)
EXTENDS LocalTools, TLAPS

USE CallsAssumption, ChartAssumption

Places == {"received", "engine", "helm", "updating", "reloading", "loading",
           "rendering", "rendered"}
Locals == [pc : Places, request : AllRequests, loaded : Charts, disturbed : BOOLEAN]
HelmStates == {"none", "running", "wrote", "succeeded", "failed", "killed"}

Complete(ch) == ch.declared \subseteq ch.vendored

\* What the place of a call says: l are its locals, h its helm process, ch the chart.
\* A chart that changes after an update has begun disturbs the call, so that an
\* undisturbed one fetches what the chart still declares, and reloads what it
\* fetched.
Sound(l, h, ch) ==
    /\ h # "none" => l.pc = "helm"
    /\ l.pc = "updating" /\ l.request.op = "template" => l.loaded.declared # {}
    /\ l.pc = "updating" /\ ~l.disturbed => l.loaded = ch
    /\ l.pc = "reloading" /\ ~l.disturbed => Complete(ch)
    /\ l.pc = "rendering" /\ ~l.disturbed => Complete(l.loaded)

IInv ==
    /\ call \in [Calls -> {Idle} \cup Locals]
    /\ TypeOK
    /\ \A c \in Calls : Sound(call[c], helm[c], chart)

LEMMA Initially == Init => IInv
<1> SUFFICES ASSUME Init PROVE IInv
  OBVIOUS
<1>1. TypeOK /\ call \in [Calls -> {Idle} \cup Locals]
  BY DEF Init, PluginInit, ChartInit, TypeOK, PluginTypeOK, ChartTypeOK, Charts
<1>2. ASSUME NEW c \in Calls PROVE Sound(call[c], helm[c], chart)
  BY DEF Init, PluginInit, Idle, Sound
<1> QED
  BY <1>1, <1>2 DEF IInv

\* A step of one call that leaves the chart alone.
LEMMA Owed ==
    ASSUME IInv, NEW c \in Calls, NEW l \in {Idle} \cup Locals,
           call' = [call EXCEPT ![c] = l],
           NEW h \in HelmStates, helm' = [helm EXCEPT ![c] = h],
           UNCHANGED chart,
           plugins' \subseteq Plugins, child' \in [Calls -> BOOLEAN],
           archive' \in BOOLEAN, edits' \in Nat,
           Sound(l, h, chart)
    PROVE  IInv'
<1>1. TypeOK' /\ call' \in [Calls -> {Idle} \cup Locals]
  BY DEF IInv, TypeOK, PluginTypeOK, ChartTypeOK, HelmStates
<1>2. ASSUME NEW d \in Calls PROVE Sound(call[d], helm[d], chart)'
  <2>1. helm'[d] = (IF d = c THEN h ELSE helm[d]) /\ call'[d] = (IF d = c THEN l ELSE call[d])
    BY DEF IInv, TypeOK, PluginTypeOK
  <2>2. Sound(call[d], helm[d], chart)
    BY DEF IInv
  <2> QED
    BY <2>1, <2>2 DEF Sound
<1> QED
  BY <1>1, <1>2 DEF IInv

\* A step that changes the chart and disturbs the calls that are updating it.
LEMMA ChangeOwed ==
    ASSUME IInv, NEW l, NEW c \in Calls, l \in {Idle} \cup Locals,
           call' = [d \in Calls |->
               IF d = c THEN l
               ELSE IF Updating(d) THEN [call[d] EXCEPT !.disturbed = TRUE] ELSE call[d]],
           chart' \in Charts, edits' \in Nat,
           UNCHANGED <<pluginVars, archive>>,
           Sound(l, helm[c], chart')
    PROVE  IInv'
<1>1. ASSUME NEW d \in Calls, Updating(d)
      PROVE  [call[d] EXCEPT !.disturbed = TRUE] \in Locals
  <2>1. call[d] \in Locals
    BY <1>1 DEF Updating, IInv, Idle
  <2> QED
    BY <2>1 DEF Locals
<1>2. call' \in [Calls -> {Idle} \cup Locals]
  BY <1>1 DEF IInv
<1>3. TypeOK'
  BY DEF IInv, TypeOK, PluginTypeOK, ChartTypeOK, pluginVars
<1>4. ASSUME NEW d \in Calls PROVE Sound(call[d], helm[d], chart)'
  <2>1. Sound(call[d], helm[d], chart) /\ helm' = helm
    BY DEF IInv, pluginVars
  <2>2. CASE d = c
    BY <2>1, <2>2 DEF Sound
  <2>3. CASE d # c /\ Updating(d)
    <3>1. call[d] \in Locals
      BY <2>3 DEF Updating, IInv, Idle
    <3>2. call'[d] = [call[d] EXCEPT !.disturbed = TRUE]
      BY <2>3
    <3>3. /\ call'[d].pc = call[d].pc /\ call'[d].request = call[d].request
          /\ call'[d].loaded = call[d].loaded /\ call'[d].disturbed = TRUE
          /\ call[d].pc \in {"updating", "reloading"}
      BY <2>3, <3>1, <3>2 DEF Locals, Updating
    <3> QED
      BY <2>1, <3>3 DEF Sound
  <2>4. CASE d # c /\ ~Updating(d)
    <3>1. call'[d] = call[d]
      BY <2>4
    <3> QED
      BY <2>1, <2>4, <3>1 DEF Sound, Updating
  <2> QED
    BY <2>2, <2>3, <2>4
<1> QED
  BY <1>2, <1>3, <1>4 DEF IInv

LEMMA InFlight ==
    ASSUME IInv, NEW c \in Calls, call[c].pc # "idle"
    PROVE  call[c] \in Locals /\ Sound(call[c], helm[c], chart)
BY DEF IInv, Idle

LEMMA HelmAt ==
    ASSUME IInv, NEW c \in Calls
    PROVE  /\ helm[c] \in HelmStates
           /\ helm = [helm EXCEPT ![c] = helm[c]]
           /\ call[c].pc # "helm" => helm[c] = "none"
BY DEF IInv, TypeOK, PluginTypeOK, HelmStates, Sound

LEMMA Typed ==
    ASSUME IInv
    PROVE  /\ plugins \subseteq Plugins /\ child \in [Calls -> BOOLEAN]
           /\ archive \in BOOLEAN /\ edits \in Nat /\ chart \in Charts
BY DEF IInv, TypeOK, PluginTypeOK, ChartTypeOK

\* A call that is not inside helm goes to a place about which nothing is to be known.
LEMMA GotoKeeps ==
    ASSUME IInv, NEW c \in Calls, call[c].pc \notin {"idle", "helm"},
           NEW place \in {"engine", "loading", "rendered"}, Goto(c, place),
           UNCHANGED <<pluginVars, chartVars>>
    PROVE  IInv'
<1> DEFINE l == [call[c] EXCEPT !.pc = place]
<1>1. l \in Locals /\ l.pc = place /\ l.request = call[c].request
  BY InFlight DEF Locals, Places
<1>2. call' = [call EXCEPT ![c] = l] /\ helm' = [helm EXCEPT ![c] = helm[c]]
  BY HelmAt DEF Goto, pluginVars
<1>3. Sound(l, helm[c], chart)
  BY <1>1, HelmAt DEF Sound, Asked
<1> HIDE DEF l
<1> QED
  BY <1>1, <1>2, <1>3, HelmAt, Typed, Owed DEF pluginVars, chartVars

\* An answer ends the call, and its helm process has ended before.
LEMMA AnswerKeeps ==
    ASSUME IInv, NEW c \in Calls, Answer(c), UNCHANGED <<chart, edits>>,
           \/ call[c].pc # "helm" /\ UNCHANGED pluginVars
           \/ Reaped(c),
           archive' \in BOOLEAN
    PROVE  IInv'
<1>1. call' = [call EXCEPT ![c] = Idle]
  BY DEF Answer
<1>2. helm' = [helm EXCEPT ![c] = "none"]
  BY HelmAt DEF Reaped, pluginVars
<1>3. plugins' \subseteq Plugins /\ child' \in [Calls -> BOOLEAN] /\ edits' \in Nat
  BY Typed DEF Reaped, pluginVars
<1>4. Sound(Idle, "none", chart)
  BY DEF Sound, Idle
<1>5. "none" \in HelmStates
  BY DEF HelmStates
<1> QED
  BY <1>1, <1>2, <1>3, <1>4, <1>5, Owed

LEMMA EndsKeeps ==
    ASSUME IInv, NEW c \in Calls, call[c].pc # "helm", Ends(c), UNCHANGED pluginVars
    PROVE  IInv'
BY AnswerKeeps, Typed DEF Ends, chartVars

-------------------------------------------------------------------------------
(* Handlers and plugins                                                     *)

LEMMA ArriveKeeps ==
    ASSUME IInv, NEW c \in Calls, Arrive(c), UNCHANGED <<pluginVars, chartVars>>
    PROVE  IInv'
<1>1. PICK r \in Requests[c] : call' = [call EXCEPT ![c] = Received(r)]
  BY DEF Arrive
<1>2. r \in AllRequests
  OBVIOUS
<1>3. NoChart \in Charts
  BY DEF NoChart, Charts
<1>4. Received(r) \in Locals /\ Received(r).pc = "received"
  BY <1>2, <1>3 DEF Received, Locals, Places
<1>5. helm[c] = "none"
  BY HelmAt DEF Arrive, Idle
<1>6. Sound(Received(r), helm[c], chart)
  BY <1>4, <1>5 DEF Sound
<1>7. helm' = [helm EXCEPT ![c] = helm[c]]
  BY HelmAt DEF pluginVars
<1> QED
  BY <1>1, <1>4, <1>6, <1>7, HelmAt, Typed, Owed DEF pluginVars, chartVars

LEMMA HandleKeeps ==
    ASSUME IInv, NEW c \in Calls, NEW op, Handle(c, op), UNCHANGED <<pluginVars, chartVars>>
    PROVE  IInv'
BY GotoKeeps DEF Handle, At

LEMMA RunHelmKeeps ==
    ASSUME IInv, NEW c \in Calls, call[c].pc = "engine", RunHelm(c), UNCHANGED chartVars
    PROVE  IInv'
<1>1. CASE Answer(c) /\ UNCHANGED pluginVars
  BY <1>1, AnswerKeeps, Typed DEF chartVars
<1>2. CASE /\ Goto(c, "helm") /\ helm' = [helm EXCEPT ![c] = "running"]
           /\ UNCHANGED <<plugins, child>>
  <2> DEFINE l == [call[c] EXCEPT !.pc = "helm"]
  <2>1. l \in Locals /\ l.pc = "helm"
    BY InFlight DEF Locals, Places
  <2>2. call' = [call EXCEPT ![c] = l] /\ "running" \in HelmStates
    BY <1>2 DEF Goto, HelmStates
  <2>3. Sound(l, "running", chart)
    BY <2>1 DEF Sound
  <2> HIDE DEF l
  <2> QED
    BY <1>2, <2>1, <2>2, <2>3, Typed, Owed DEF chartVars
<1> QED
  BY <1>1, <1>2 DEF RunHelm

\* A step of the helm process of a call that stays where it is.
LEMMA HelmOwed ==
    ASSUME IInv, NEW c \in Calls, call[c].pc = "helm",
           NEW h \in HelmStates, helm' = [helm EXCEPT ![c] = h],
           UNCHANGED <<call, chartVars>>,
           plugins' \subseteq Plugins, child' \in [Calls -> BOOLEAN]
    PROVE  IInv'
<1>1. call[c] \in Locals
  BY InFlight
<1>2. call' = [call EXCEPT ![c] = call[c]]
  BY DEF IInv
<1>3. Sound(call[c], h, chart)
  BY DEF Sound
<1> QED
  BY <1>1, <1>2, <1>3, Typed, Owed DEF chartVars

LEMMA HelmKeeps ==
    ASSUME IInv, NEW c \in Calls, HelmStep(c), UNCHANGED chartVars
    PROVE  IInv'
<1>1. CASE HelmWrites(c)
  <2>1. plugins' \subseteq Plugins
    BY <1>1, Typed DEF HelmWrites
  <2>2. helm' = [helm EXCEPT ![c] = "wrote"] /\ "wrote" \in HelmStates
    BY <1>1 DEF HelmWrites, HelmStates
  <2> QED
    BY <1>1, <2>1, <2>2, HelmOwed, Typed DEF HelmWrites, At
<1>2. CASE HookForks(c)
  <2>1. child' \in [Calls -> BOOLEAN]
    BY <1>2, Typed DEF HookForks
  <2> QED
    BY <1>2, <2>1, HelmAt, HelmOwed, Typed DEF HookForks, At
<1>3. CASE HelmExits(c)
  <2>1. PICK h \in HelmStates : helm' = [helm EXCEPT ![c] = h]
    BY <1>3 DEF HelmExits, HelmStates
  <2>2. call[c].pc = "helm"
    BY <1>3, HelmAt DEF HelmExits, HelmRuns
  <2> QED
    BY <1>3, <2>1, <2>2, HelmOwed, Typed DEF HelmExits
<1>4. CASE ChildExits(c)
  BY <1>4 DEF ChildExits, chartVars, IInv, TypeOK, PluginTypeOK, ChartTypeOK
<1> QED
  BY <1>1, <1>2, <1>3, <1>4 DEF HelmStep

LEMMA PluginKeeps ==
    ASSUME IInv, NEW c \in Calls, PluginStep(c), UNCHANGED chartVars
    PROVE  IInv'
<1>1. CASE \/ HandlePluginInstall(c) \/ HandlePluginList(c) \/ HandlePluginUninstall(c)
           \/ HandlePluginUpdate(c) \/ HandlePluginPackage(c) \/ HandlePluginVerify(c)
  BY <1>1, HandleKeeps DEF HandlePluginInstall, HandlePluginList, HandlePluginUninstall,
     HandlePluginUpdate, HandlePluginPackage, HandlePluginVerify
<1>2. CASE \/ PluginInstall(c) \/ PluginList(c) \/ PluginUninstall(c)
           \/ PluginUpdate(c) \/ PluginPackage(c) \/ PluginVerify(c)
  <2>1. call[c].pc = "engine" /\ RunHelm(c)
    BY <1>2 DEF PluginInstall, PluginList, PluginUninstall, PluginUpdate, PluginPackage,
       PluginVerify, ByEngine, By, At
  <2> QED
    BY <2>1, RunHelmKeeps
<1>3. CASE PluginInstallV3(c) \/ PluginListV3(c) \/ PluginPackageV3(c) \/ PluginVerifyV3(c)
  <2>1. call[c].pc = "engine" /\ (RunHelm(c) \/ (Answer(c) /\ UNCHANGED pluginVars))
    BY <1>3 DEF PluginInstallV3, PluginListV3, PluginPackageV3, PluginVerifyV3, ByEngine, At
  <2> QED
    BY <2>1, RunHelmKeeps, AnswerKeeps, Typed DEF chartVars
<1>4. CASE ContextDone(c)
  <2>1. "killed" \in HelmStates
    BY DEF HelmStates
  <2> QED
    BY <1>4, <2>1, HelmOwed, Typed DEF ContextDone, At
<1>5. CASE RunReturns(c) \/ WaitDelayEnds(c)
  BY <1>5, AnswerKeeps, Typed DEF RunReturns, WaitDelayEnds, chartVars
<1> QED
  BY <1>1, <1>2, <1>3, <1>4, <1>5 DEF PluginStep

-------------------------------------------------------------------------------
(* Charts                                                                   *)

\* A call that is not inside helm, with new locals, while the chart stays.
LEMMA LocalOwed ==
    ASSUME IInv, NEW c \in Calls, call[c].pc \notin {"idle", "helm"},
           NEW l \in Locals, call' = [call EXCEPT ![c] = l],
           Sound(l, "none", chart), UNCHANGED <<pluginVars, chartVars>>
    PROVE  IInv'
<1>1. helm[c] = "none" /\ helm' = [helm EXCEPT ![c] = "none"] /\ "none" \in HelmStates
  BY HelmAt DEF pluginVars, HelmStates
<1> QED
  BY <1>1, Typed, Owed DEF pluginVars, chartVars

LEMMA FetchKeeps ==
    ASSUME IInv, NEW c \in Calls, call[c].pc \in {"engine", "loading"}, Fetch(c),
           Asked(c).op = "template" =>
               call[c].pc = "loading" /\ ~Complete(chart),
           UNCHANGED pluginVars
    PROVE  IInv'
<1> DEFINE l == [call[c] EXCEPT !.pc = "updating", !.loaded = chart]
<1>1. l \in Locals /\ l.pc = "updating" /\ l.loaded = chart /\ l.request = call[c].request
  BY InFlight, Typed DEF Locals, Places
<1>2. call' = [call EXCEPT ![c] = l]
  BY DEF Fetch, IInv
<1>3. Sound(l, "none", chart)
  <2>1. Asked(c).op = "template" => chart.declared # {}
    BY Typed DEF Complete
  <2>2. Sound(call[c], helm[c], chart)
    BY InFlight
  <2> QED
    BY <1>1, <2>1, <2>2 DEF Sound, Asked
<1> HIDE DEF l
<1> QED
  BY <1>1, <1>2, <1>3, LocalOwed DEF Fetch

\* What is loaded is complete, unless the call is disturbed.
LEMMA LoadedKeeps ==
    ASSUME IInv, NEW c \in Calls, call[c].pc \in {"loading", "reloading"},
           LoadedThen(c, "rendering"),
           Complete(chart) \/ call[c].disturbed,
           UNCHANGED pluginVars
    PROVE  IInv'
<1> DEFINE l == [call[c] EXCEPT !.pc = "rendering", !.loaded = chart]
<1>1. /\ l \in Locals /\ l.pc = "rendering" /\ l.loaded = chart
      /\ l.request = call[c].request /\ l.disturbed = call[c].disturbed
  BY InFlight, Typed DEF Locals, Places
<1>2. call' = [call EXCEPT ![c] = l]
  BY DEF LoadedThen, IInv
<1>3. Sound(call[c], helm[c], chart)
  BY InFlight
<1>4. Sound(l, "none", chart)
  BY <1>1, <1>3 DEF Sound
<1> HIDE DEF l
<1> QED
  BY <1>1, <1>2, <1>4, LocalOwed DEF LoadedThen

\* An update that ends has fetched what the chart declares, or is disturbed.
LEMMA FetchedKeeps ==
    ASSUME IInv, NEW c \in Calls, SdkFetches(c), UNCHANGED pluginVars
    PROVE  IInv'
<1> DEFINE fetched == call[c].loaded.declared
           l == IF Asked(c).op = "template" THEN [call[c] EXCEPT !.pc = "reloading"] ELSE Idle
<1>1. call[c].pc = "updating" /\ call[c] \in Locals /\ Sound(call[c], helm[c], chart)
  BY InFlight DEF SdkFetches, At
<1>2. chart' = IF fetched = {} THEN chart ELSE [chart EXCEPT !.vendored = fetched]
  BY DEF SdkFetches
<1>3. call[c].loaded \in Charts
  BY <1>1 DEF Locals
<1>4. chart' \in Charts
  BY <1>2, <1>3, Typed DEF Charts
<1>5. l \in {Idle} \cup Locals
  BY <1>1 DEF Locals, Places
<1>6. call' = [d \in Calls |->
          IF d = c THEN l
          ELSE IF Updating(d) THEN [call[d] EXCEPT !.disturbed = TRUE] ELSE call[d]]
  BY DEF SdkFetches, Disturbed
<1>7. helm[c] = "none"
  BY <1>1, HelmAt
<1>8. Sound(l, helm[c], chart')
  <2>1. CASE Asked(c).op # "template"
    BY <1>7, <2>1 DEF Sound, Idle
  <2>2. CASE Asked(c).op = "template"
    <3>1. /\ l.pc = "reloading" /\ l.disturbed = call[c].disturbed
          /\ l.request = call[c].request
      BY <1>1, <2>2 DEF Locals
    <3>2. ~call[c].disturbed => Complete(chart')
      <4>1. fetched # {}
        BY <1>1, <2>2 DEF Sound, Asked
      <4>2. chart' = [chart EXCEPT !.vendored = fetched]
        BY <1>2, <4>1
      <4>3. ~call[c].disturbed => fetched = chart.declared
        BY <1>1 DEF Sound
      <4> QED
        BY <4>2, <4>3, Typed DEF Complete, Charts
    <3> QED
      BY <1>1, <1>7, <2>2, <3>1, <3>2 DEF Sound, Asked
  <2> QED
    BY <2>1, <2>2
<1> HIDE DEF l
<1> QED
  BY <1>4, <1>5, <1>6, <1>8, Typed, ChangeOwed DEF SdkFetches

LEMMA CreateKeeps ==
    ASSUME IInv, NEW c \in Calls, Create(c), UNCHANGED pluginVars
    PROVE  IInv'
<1>1. call[c].pc = "engine"
  BY DEF Create, By, ByEngine, At
<1>2. CASE chart' = [chart EXCEPT !.declared = {}] /\ Disturbed(c, Idle)
           /\ UNCHANGED <<archive, edits>>
  <2>1. chart' \in Charts
    BY <1>2, Typed DEF Charts
  <2>2. Sound(Idle, helm[c], chart')
    BY <1>1, HelmAt DEF Sound, Idle
  <2> QED
    BY <1>2, <2>1, <2>2, Typed, ChangeOwed DEF Disturbed
<1>3. CASE Ends(c)
  BY <1>1, <1>3, EndsKeeps
<1> QED
  BY <1>2, <1>3 DEF Create

\* The engine methods that only read, or write a file of their own.
LEMMA ShortKeeps ==
    ASSUME IInv, NEW c \in Calls, UNCHANGED pluginVars,
           \/ Lint(c) \/ Show(c) \/ Verify(c) \/ Push(c) \/ DependencyList(c)
           \/ Package(c) \/ Pull(c)
    PROVE  IInv'
<1>1. call[c].pc = "engine"
  BY DEF Lint, Show, Verify, Push, DependencyList, Package, Pull, By, ByEngine, At
<1>2. CASE Ends(c)
  BY <1>1, <1>2, EndsKeeps
<1>3. CASE archive' = TRUE /\ Answer(c) /\ UNCHANGED <<chart, edits>>
  BY <1>1, <1>3, AnswerKeeps
<1> QED
  BY <1>2, <1>3 DEF Lint, Show, Verify, Push, DependencyList, Package, Pull

LEMMA DependenciesKeep ==
    ASSUME IInv, NEW c \in Calls, UNCHANGED pluginVars,
           DependencyUpdate(c) \/ DependencyBuild(c) \/ SdkFetchFails(c)
    PROVE  IInv'
<1>1. CASE SdkFetchFails(c)
  BY <1>1, EndsKeeps DEF SdkFetchFails, At
<1>2. CASE DependencyUpdate(c) \/ DependencyBuild(c)
  <2>1. call[c].pc = "engine" /\ Asked(c).op # "template" /\ (Fetch(c) \/ Ends(c))
    BY <1>2 DEF DependencyUpdate, DependencyBuild, By, ByEngine, At
  <2> QED
    BY <2>1, FetchKeeps, EndsKeeps
<1> QED
  BY <1>1, <1>2

LEMMA TemplateKeeps ==
    ASSUME IInv, NEW c \in Calls, Template(c) \/ TemplateV3(c), UNCHANGED pluginVars
    PROVE  IInv'
<1>1. call[c].pc = "engine"
  BY DEF Template, TemplateV3, ByEngine, At
<1>2. CASE Ends(c)
  BY <1>1, <1>2, EndsKeeps
<1>3. CASE ~Ends(c)
  <2>1. Goto(c, "loading") /\ UNCHANGED chartVars
    BY <1>3 DEF Template, TemplateV3, ByEngine
  <2> QED
    BY <1>1, <2>1, GotoKeeps
<1> QED
  BY <1>2, <1>3

LEMMA LoadKeeps ==
    ASSUME IInv, NEW c \in Calls, Load(c) \/ Reload(c), UNCHANGED pluginVars
    PROVE  IInv'
<1>1. call[c].pc \in {"loading", "reloading"} /\ Sound(call[c], helm[c], chart)
  BY InFlight DEF Load, Reload, At
<1>2. CASE Ends(c)
  BY <1>1, <1>2, EndsKeeps
<1>3. CASE Load(c) /\ ~Ends(c)
  BY <1>1, <1>3, LoadedKeeps, FetchKeeps DEF Load, At, Complete
<1>4. CASE Reload(c) /\ ~Ends(c)
  BY <1>1, <1>4, LoadedKeeps DEF Reload, At, Sound
<1> QED
  BY <1>2, <1>3, <1>4

LEMMA RenderKeeps ==
    ASSUME IInv, NEW c \in Calls, Render(c) \/ RenderTemplateOutput(c), UNCHANGED pluginVars
    PROVE  IInv'
<1>1. call[c].pc \in {"rendering", "rendered"} /\ call[c] \in Locals
      /\ Sound(call[c], helm[c], chart)
  BY InFlight DEF Render, RenderTemplateOutput, At
<1>2. CASE Ends(c)
  BY <1>1, <1>2, EndsKeeps
<1>3. CASE Render(c) /\ ~Ends(c)
  BY <1>1, <1>3, GotoKeeps DEF Render
<1> QED
  BY <1>2, <1>3 DEF RenderTemplateOutput

LEMMA EditKeeps ==
    ASSUME IInv, Edit
    PROVE  IInv'
<1>1. chart' \in Charts /\ edits' \in Nat
  BY Typed DEF Edit, Charts
<1>2. CASE Calls = {}
  BY <1>1, <1>2 DEF Edit, IInv, TypeOK, PluginTypeOK, ChartTypeOK, pluginVars
<1>3. CASE Calls # {}
  <2>1. PICK c \in Calls : TRUE
    BY <1>3
  <2> DEFINE l == IF Updating(c) THEN [call[c] EXCEPT !.disturbed = TRUE] ELSE call[c]
  <2>2. call' = [d \in Calls |->
            IF d = c THEN l
            ELSE IF Updating(d) THEN [call[d] EXCEPT !.disturbed = TRUE] ELSE call[d]]
    BY DEF Edit
  <2>3. Sound(call[c], helm[c], chart) /\ call[c] \in {Idle} \cup Locals
    BY DEF IInv
  <2>4. l \in {Idle} \cup Locals /\ Sound(l, helm[c], chart')
    <3>1. CASE Updating(c)
      <4>1. call[c] \in Locals
        BY <2>3, <3>1 DEF Updating, Idle
      <4>2. /\ l \in Locals /\ l.pc = call[c].pc /\ l.request = call[c].request
            /\ l.loaded = call[c].loaded /\ l.disturbed = TRUE
            /\ call[c].pc \in {"updating", "reloading"}
        BY <3>1, <4>1 DEF Locals, Updating
      <4> QED
        BY <2>3, <4>2 DEF Sound
    <3>2. CASE ~Updating(c)
      BY <2>3, <3>2 DEF Sound, Updating
    <3> QED
      BY <3>1, <3>2
  <2> HIDE DEF l
  <2> QED
    BY <1>1, <2>2, <2>4, ChangeOwed DEF Edit
<1> QED
  BY <1>2, <1>3

LEMMA ChartKeeps ==
    ASSUME IInv, NEW c \in Calls, ChartStep(c), UNCHANGED pluginVars
    PROVE  IInv'
<1>1. CASE \/ HandleCreate(c) \/ HandleLint(c) \/ HandleTemplate(c) \/ HandlePackage(c)
           \/ HandlePull(c) \/ HandlePush(c) \/ HandleVerify(c) \/ HandleShow(c)
           \/ HandleDependencyBuild(c) \/ HandleDependencyList(c) \/ HandleDependencyUpdate(c)
  BY <1>1, HandleKeeps DEF HandleCreate, HandleLint, HandleTemplate, HandlePackage, HandlePull,
     HandlePush, HandleVerify, HandleShow, HandleDependencyBuild, HandleDependencyList,
     HandleDependencyUpdate
<1>2. CASE ~(\/ HandleCreate(c) \/ HandleLint(c) \/ HandleTemplate(c) \/ HandlePackage(c)
             \/ HandlePull(c) \/ HandlePush(c) \/ HandleVerify(c) \/ HandleShow(c)
             \/ HandleDependencyBuild(c) \/ HandleDependencyList(c)
             \/ HandleDependencyUpdate(c))
  BY <1>2, CreateKeeps, ShortKeeps, DependenciesKeep, FetchedKeeps, TemplateKeeps, LoadKeeps,
     RenderKeeps DEF ChartStep
<1> QED
  BY <1>1, <1>2

LEMMA Preserved == IInv /\ [Next]_vars => IInv'
<1> SUFFICES ASSUME IInv, [Next]_vars PROVE IInv'
  OBVIOUS
<1>1. ASSUME NEW c \in Calls, HandlerRefuses(c), UNCHANGED <<pluginVars, chartVars>> PROVE IInv'
  BY <1>1, EndsKeeps DEF HandlerRefuses, Ends, At
<1>2. ASSUME NEW c \in Calls, Step(c) PROVE IInv'
  BY <1>1, <1>2, PluginKeeps, ChartKeeps DEF Step
<1>3. CASE UNCHANGED vars
  BY <1>3 DEF vars, pluginVars, chartVars, IInv, TypeOK, PluginTypeOK, ChartTypeOK
<1> QED
  BY <1>2, <1>3, ArriveKeeps, HelmKeeps, EditKeeps DEF Next

LEMMA Inductive == Spec => []IInv
BY Initially, Preserved, PTL DEF Spec

-------------------------------------------------------------------------------
\* The plugin directory, the helm processes and the chart keep their types.
THEOREM ToolsTypeCorrect == Spec => []TypeOK
<1>1. IInv => TypeOK
  BY DEF IInv
<1> QED
  BY <1>1, Inductive, PTL

\* An undisturbed helm_template renders every dependency that its Chart.yaml
\* declares, for any calls and charts (v4/deps.go:38-73).
THEOREM AllIsRendered == Spec => []RendersComplete
<1>1. IInv => RendersComplete
  BY DEF IInv, RendersComplete, Sound, Complete, At
<1> QED
  BY <1>1, Inductive, PTL

\* The helm process of a call has ended when the call has (exec.go:9-29).
THEOREM HelmHasEndedByThen == Spec => []HelmEndsWithItsCall
<1>1. IInv => HelmEndsWithItsCall
  BY DEF IInv, HelmEndsWithItsCall, Sound, At
<1> QED
  BY <1>1, Inductive, PTL
===============================================================================

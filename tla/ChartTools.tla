------------------------------- MODULE ChartTools ------------------------------
(***************************************************************************)
(* internal/tools/chart and the chart operations of the engines             *)
(* (helmengine/v4/chart.go, deps.go; where v3 does something else it has an *)
(* action of its own), on one chart directory, one archive and one registry. *)
(* The user may edit Chart.yaml meanwhile.                                  *)
(***************************************************************************)
EXTENDS PluginTools

CONSTANT MaxEdits \* bound: dependencies that the user adds to Chart.yaml

ASSUME ChartAssumption == MaxEdits \in Nat

VARIABLES
    chart,    \* Chart.yaml and charts/
    archive,  \* whether there is a packaged chart
    edits     \* history

chartVars == <<chart, archive, edits>>
vars == <<call, pluginVars, chartVars>>

ChartTypeOK == chart \in Charts /\ archive \in BOOLEAN /\ edits \in Nat

\* The chart may have a dependency that nobody has fetched yet.
ChartInit ==
    /\ chart \in [declared : SUBSET Deps, vendored : {{}}]
    /\ archive = FALSE
    /\ edits = 0

\* The calls that have read the chart and will read it again.
Updating(c) == call[c].pc \in {"updating", "reloading"}

\* The chart directory changes: other calls that are updating it are disturbed.
Disturbed(c, own) ==
    call' = [d \in Calls |->
        IF d = c THEN own
        ELSE IF Updating(d) THEN [call[d] EXCEPT !.disturbed = TRUE] ELSE call[d]]

\* The call ends and has changed nothing, whether it failed or only read.
Ends(c) == Answer(c) /\ UNCHANGED chartVars

-------------------------------------------------------------------------------
(* Handlers                                                                 *)

HandleCreate(c) == Handle(c, "create") /\ UNCHANGED chartVars
HandleLint(c) == Handle(c, "lint") /\ UNCHANGED chartVars
HandleTemplate(c) == Handle(c, "template") /\ UNCHANGED chartVars
HandlePackage(c) == Handle(c, "package") /\ UNCHANGED chartVars
HandlePull(c) == Handle(c, "pull") /\ UNCHANGED chartVars
HandlePush(c) == Handle(c, "push") /\ UNCHANGED chartVars
HandleVerify(c) == Handle(c, "verify") /\ UNCHANGED chartVars
HandleShow(c) == Handle(c, "show") /\ UNCHANGED chartVars
HandleDependencyBuild(c) == Handle(c, "dependency_build") /\ UNCHANGED chartVars
HandleDependencyList(c) == Handle(c, "dependency_list") /\ UNCHANGED chartVars
HandleDependencyUpdate(c) == Handle(c, "dependency_update") /\ UNCHANGED chartVars

-------------------------------------------------------------------------------
(* Engine methods that take one step                                        *)

\* Over an existing chart: the new Chart.yaml declares nothing, charts/ stays.
Create(c) ==
    /\ By(c, "create")
    /\ \/ /\ chart' = [chart EXCEPT !.declared = {}]
          /\ Disturbed(c, Idle)
          /\ UNCHANGED <<archive, edits>>
       \/ Ends(c)

Lint(c) == By(c, "lint") /\ Ends(c)
Show(c) == By(c, "show") /\ Ends(c)
Verify(c) == By(c, "verify") /\ Ends(c)
Push(c) == By(c, "push") /\ Ends(c)
DependencyList(c) == By(c, "dependency_list") /\ Ends(c)

\* The SDK refuses a chart that lacks a dependency; it does not look at the
\* DependencyUpdate that the engine sets.
Package(c) ==
    /\ By(c, "package")
    /\ \/ /\ chart.declared \subseteq chart.vendored
          /\ archive' = TRUE
          /\ Answer(c)
          /\ UNCHANGED <<chart, edits>>
       \/ Ends(c)

\* With untar the chart goes to a directory of its own: the SDK does not
\* overwrite one that is there.
Pull(c) ==
    /\ By(c, "pull")
    /\ \/ /\ ~Asked(c).untar
          /\ archive' = TRUE
          /\ Answer(c)
          /\ UNCHANGED <<chart, edits>>
       \/ Ends(c)

-------------------------------------------------------------------------------
(* Dependencies                                                             *)

\* The SDK's manager has read Chart.yaml, and Chart.lock where that agrees.
Fetch(c) ==
    /\ call' = [call EXCEPT ![c].pc = "updating", ![c].loaded = chart]
    /\ UNCHANGED chartVars

DependencyUpdate(c) == By(c, "dependency_update") /\ Fetch(c)

\* A lock that does not fit Chart.yaml is an error; without one it is an update.
DependencyBuild(c) == By(c, "dependency_build") /\ (Fetch(c) \/ Ends(c))

\* The downloads end: charts/ holds what Chart.yaml declared when they began, and
\* nothing else; if that was nothing they leave charts/ alone.
SdkFetches(c) ==
    /\ At(c, "updating")
    /\ LET fetched == call[c].loaded.declared
       IN  chart' = IF fetched = {} THEN chart ELSE [chart EXCEPT !.vendored = fetched]
    /\ Disturbed(c, IF Asked(c).op = "template" THEN [call[c] EXCEPT !.pc = "reloading"]
                    ELSE Idle)
    /\ UNCHANGED <<archive, edits>>

SdkFetchFails(c) == At(c, "updating") /\ Ends(c)

-------------------------------------------------------------------------------
(* helm_template                                                            *)

\* The post-renderer is a plugin, found by its name.
PostRendererFound(c) == Asked(c).postRender => plugins # {}

\* Options, chart source and post-renderer are put together, and the chart found.
Template(c) ==
    /\ ByEngine(c, "template", "v4")
    /\ \/ PostRendererFound(c) /\ Goto(c, "loading") /\ UNCHANGED chartVars
       \/ Ends(c)

\* v3 has no such plugins and refuses the request.
TemplateV3(c) ==
    /\ ByEngine(c, "template", "v3")
    /\ \/ ~Asked(c).postRender /\ Goto(c, "loading") /\ UNCHANGED chartVars
       \/ Ends(c)

LoadedThen(c, place) ==
    /\ call' = [call EXCEPT ![c].pc = place, ![c].loaded = chart]
    /\ UNCHANGED chartVars

\* A mutant: the action is trusted to look at its DependencyUpdate.
LoadUnchecked(c) == At(c, "loading") /\ LoadedThen(c, "rendering")

\* loadChartWithDependencies: a declared dependency that is not vendored is
\* fetched or is an error.
Load(c) ==
    /\ At(c, "loading")
    /\ \/ chart.declared \subseteq chart.vendored /\ LoadedThen(c, "rendering")
       \/ /\ ~ chart.declared \subseteq chart.vendored
          /\ IF Asked(c).update THEN Fetch(c) ELSE Ends(c)
       \/ Ends(c)

\* The chart is loaded again, and this time not checked.
Reload(c) == At(c, "reloading") /\ (LoadedThen(c, "rendering") \/ Ends(c))

\* The SDK renders what was loaded, and runs the post-renderer that Template
\* found; if it is gone by now, that is one more error.
Render(c) ==
    /\ At(c, "rendering")
    /\ \/ Goto(c, "rendered") /\ UNCHANGED chartVars
       \/ Ends(c)

\* Hooks are added, show_only filters, and what is left is cleaned up.
RenderTemplateOutput(c) == At(c, "rendered") /\ Ends(c)

-------------------------------------------------------------------------------

\* The user declares one more dependency.
Edit ==
    /\ edits < MaxEdits
    /\ edits' = edits + 1
    /\ \E d \in Deps : chart' = [chart EXCEPT !.declared = @ \cup {d}]
    /\ call' = [c \in Calls |->
           IF Updating(c) THEN [call[c] EXCEPT !.disturbed = TRUE] ELSE call[c]]
    /\ UNCHANGED <<pluginVars, archive>>

ChartStep(c) ==
    \/ HandleCreate(c) \/ HandleLint(c) \/ HandleTemplate(c) \/ HandlePackage(c)
    \/ HandlePull(c) \/ HandlePush(c) \/ HandleVerify(c) \/ HandleShow(c)
    \/ HandleDependencyBuild(c) \/ HandleDependencyList(c) \/ HandleDependencyUpdate(c)
    \/ Create(c) \/ Lint(c) \/ Show(c) \/ DependencyList(c)
    \/ Package(c) \/ Verify(c) \/ Push(c) \/ Pull(c)
    \/ DependencyUpdate(c) \/ DependencyBuild(c) \/ SdkFetches(c) \/ SdkFetchFails(c)
    \/ Template(c) \/ TemplateV3(c) \/ Load(c) \/ Reload(c) \/ Render(c)
    \/ RenderTemplateOutput(c)
===============================================================================

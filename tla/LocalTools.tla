------------------------------ MODULE LocalTools -------------------------------
(* The chart and plugin tools together: they share the plugin directory.    *)
EXTENDS ChartTools

TypeOK == PluginTypeOK /\ ChartTypeOK

Init == call = [c \in Calls |-> Idle] /\ PluginInit /\ ChartInit

\* What the server does on its own for a call; the SDK and the plugins it runs
\* in this process are part of it.
Step(c) ==
    \/ HandlerRefuses(c) /\ UNCHANGED <<pluginVars, chartVars>>
    \/ PluginStep(c) /\ UNCHANGED chartVars
    \/ ChartStep(c) /\ UNCHANGED pluginVars

Next ==
    \/ \E c \in Calls :
           \/ Arrive(c) /\ UNCHANGED <<pluginVars, chartVars>>
           \/ Step(c)
           \/ HelmStep(c) /\ UNCHANGED chartVars
    \/ Edit

Spec == Init /\ [][Next]_vars

\* The server keeps running and its timers fire; helm and the children of its
\* hooks may take for ever.
FairSpec == Spec /\ \A c \in Calls : WF_vars(Step(c))

-------------------------------------------------------------------------------
(* Properties                                                               *)

\* "without this check a chart with missing subcharts would render without
\* them" (deps.go:41): what helm_template renders has every dependency that its
\* Chart.yaml declares, whatever the other calls do to the chart, unless one of
\* them, or the user, changed it between the update that this call started and
\* the end of its reload.
RendersComplete ==
    \A c \in Calls :
        At(c, "rendering") /\ ~call[c].disturbed =>
            call[c].loaded.declared \subseteq call[c].loaded.vendored

\* When a call of a plugin tool has been answered its helm process has ended: a
\* client that tries again does not meet its own earlier command (exec.go:9).
HelmEndsWithItsCall ==
    \A c \in Calls : helm[c] # "none" => At(c, "helm")

\* "Without it, exec.Cmd.Wait blocks until every process holding the pipes
\* exits" (exec.go:10): every call ends, also when neither helm nor a hook's
\* child ever does.
CallEnds == \A c \in Calls : call[c] # Idle ~> call[c] = Idle
===============================================================================

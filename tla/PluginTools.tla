------------------------------ MODULE PluginTools ------------------------------
(***************************************************************************)
(* internal/tools/plugin and the plugin operations of the engines           *)
(* (helmengine/v3/plugin.go, v4/plugin.go, exec.go).  They run the helm CLI, *)
(* whose process may start a hook; a hook's child may hold the pipes that   *)
(* exec.Cmd reads for as long as it likes.                                  *)
(***************************************************************************)
EXTENDS LocalCalls

VARIABLES
    plugins, \* the plugin directory
    helm,    \* the helm process of each call
    child    \* whether a hook's child has the pipes of that process

pluginVars == <<plugins, helm, child>>

PluginTypeOK ==
    /\ plugins \subseteq Plugins
    /\ helm \in [Calls -> {"none", "running", "wrote", "succeeded", "failed", "killed"}]
    /\ child \in [Calls -> BOOLEAN]

HelmRuns(c) == helm[c] \in {"running", "wrote"}
HelmHasEnded(c) == helm[c] \in {"succeeded", "failed", "killed"}

PluginInit ==
    /\ plugins = {}
    /\ helm = [c \in Calls |-> "none"]
    /\ child = [c \in Calls |-> FALSE]

-------------------------------------------------------------------------------
(* Handlers and engine methods                                              *)

HandlePluginInstall(c) == Handle(c, "plugin_install") /\ UNCHANGED pluginVars
HandlePluginList(c) == Handle(c, "plugin_list") /\ UNCHANGED pluginVars
HandlePluginUninstall(c) == Handle(c, "plugin_uninstall") /\ UNCHANGED pluginVars
HandlePluginUpdate(c) == Handle(c, "plugin_update") /\ UNCHANGED pluginVars
HandlePluginPackage(c) == Handle(c, "plugin_package") /\ UNCHANGED pluginVars
HandlePluginVerify(c) == Handle(c, "plugin_verify") /\ UNCHANGED pluginVars

\* cmd.Run starts helm; if it cannot, the call fails.
RunHelm(c) ==
    \/ /\ Goto(c, "helm")
       /\ helm' = [helm EXCEPT ![c] = "running"]
       /\ UNCHANGED <<plugins, child>>
    \/ Answer(c) /\ UNCHANGED pluginVars

PluginInstall(c) == ByEngine(c, "plugin_install", "v4") /\ RunHelm(c)
PluginList(c) == ByEngine(c, "plugin_list", "v4") /\ RunHelm(c)
PluginUninstall(c) == By(c, "plugin_uninstall") /\ RunHelm(c)
PluginUpdate(c) == By(c, "plugin_update") /\ RunHelm(c)
PluginPackage(c) == ByEngine(c, "plugin_package", "v4") /\ RunHelm(c)
PluginVerify(c) == ByEngine(c, "plugin_verify", "v4") /\ RunHelm(c)

\* v3 knows no signatures, and says so instead of leaving the check out.
PluginInstallV3(c) ==
    /\ ByEngine(c, "plugin_install", "v3")
    /\ IF Asked(c).signed THEN Answer(c) /\ UNCHANGED pluginVars ELSE RunHelm(c)

\* v3 reads the plugin directory itself.
PluginListV3(c) ==
    /\ ByEngine(c, "plugin_list", "v3")
    /\ Answer(c)
    /\ UNCHANGED pluginVars

PluginPackageV3(c) ==
    ByEngine(c, "plugin_package", "v3") /\ Answer(c) /\ UNCHANGED pluginVars

PluginVerifyV3(c) ==
    ByEngine(c, "plugin_verify", "v3") /\ Answer(c) /\ UNCHANGED pluginVars

-------------------------------------------------------------------------------
(* The helm process and its hook                                            *)

\* helm changes the plugin directory before it runs the plugin's hook.
HelmWrites(c) ==
    /\ At(c, "helm")
    /\ helm[c] = "running"
    /\ helm' = [helm EXCEPT ![c] = "wrote"]
    /\ \E p \in Plugins :
           plugins' = CASE Asked(c).op = "plugin_install" -> plugins \cup {p}
                        [] Asked(c).op = "plugin_uninstall" -> plugins \ {p}
                        [] OTHER -> plugins
    /\ UNCHANGED <<call, child>>

HookForks(c) ==
    /\ At(c, "helm")
    /\ helm[c] = "wrote"
    /\ Asked(c).op \in {"plugin_install", "plugin_update"}
    /\ child' = [child EXCEPT ![c] = TRUE]
    /\ UNCHANGED <<call, plugins, helm>>

HelmExits(c) ==
    /\ HelmRuns(c)
    /\ \E result \in {"succeeded", "failed"} :
           /\ result = "succeeded" => helm[c] = "wrote"
           /\ helm' = [helm EXCEPT ![c] = result]
    /\ UNCHANGED <<call, plugins, child>>

\* Nothing says when.
ChildExits(c) ==
    /\ child[c]
    /\ child' = [child EXCEPT ![c] = FALSE]
    /\ UNCHANGED <<call, plugins, helm>>

-------------------------------------------------------------------------------
(* exec.Cmd                                                                 *)

\* A mutant: the call gives up, and helm goes on.
ContextDoneForCall(c) ==
    /\ At(c, "helm")
    /\ HelmRuns(c)
    /\ Answer(c)
    /\ UNCHANGED pluginVars

\* pluginExecTimeout, or the end of the request: CommandContext kills helm.
ContextDone(c) ==
    /\ At(c, "helm")
    /\ HelmRuns(c)
    /\ helm' = [helm EXCEPT ![c] = "killed"]
    /\ UNCHANGED <<call, plugins, child>>

Reaped(c) ==
    /\ helm' = [helm EXCEPT ![c] = "none"]
    /\ child' = [child EXCEPT ![c] = FALSE]
    /\ UNCHANGED plugins

\* cmd.Run returns when helm has ended and its pipes are closed, with an error
\* unless helm has succeeded.
RunReturns(c) ==
    /\ At(c, "helm")
    /\ HelmHasEnded(c)
    /\ ~child[c]
    /\ Answer(c)
    /\ Reaped(c)

\* A mutant: WaitDelay is not set.
NeverWaitsLess(c) == FALSE /\ UNCHANGED <<call, pluginVars>>

\* CommandWaitDelay after the end of helm the pipes are closed by force, which
\* is an error even if helm has succeeded.
WaitDelayEnds(c) ==
    /\ At(c, "helm")
    /\ HelmHasEnded(c)
    /\ child[c]
    /\ Answer(c)
    /\ Reaped(c)

PluginStep(c) ==
    \/ HandlePluginInstall(c) \/ HandlePluginList(c) \/ HandlePluginUninstall(c)
    \/ HandlePluginUpdate(c) \/ HandlePluginPackage(c) \/ HandlePluginVerify(c)
    \/ PluginInstall(c) \/ PluginInstallV3(c) \/ PluginList(c) \/ PluginListV3(c)
    \/ PluginUninstall(c) \/ PluginUpdate(c)
    \/ PluginPackage(c) \/ PluginPackageV3(c) \/ PluginVerify(c) \/ PluginVerifyV3(c)
    \/ ContextDone(c) \/ RunReturns(c) \/ WaitDelayEnds(c)

HelmStep(c) == HelmWrites(c) \/ HookForks(c) \/ HelmExits(c) \/ ChildExits(c)
===============================================================================

------------------------------ MODULE LocalCalls -------------------------------
(***************************************************************************)
(* Calls of the tools that work on the server's own files: internal/tools/  *)
(* chart and internal/tools/plugin.  Each has a handler that validates the  *)
(* request, an engine method (internal/helmengine/v3 or v4, as helm_version *)
(* says) that does the work, and an answer.                                 *)
(***************************************************************************)
EXTENDS Naturals, FiniteSets

CONSTANTS
    Calls,
    Deps,    \* charts that Chart.yaml may declare as dependencies
    Plugins,
    Requests \* those of AllRequests that each call may be

ChartOps == {"create", "lint", "template", "package", "pull", "push", "verify", "show",
             "dependency_build", "dependency_list", "dependency_update"}
PluginOps == {"plugin_install", "plugin_list", "plugin_uninstall", "plugin_update",
              "plugin_package", "plugin_verify"}

\* update is dependency_update, postRender post_renderer, untar the option of
\* helm_pull, signed any of the options that ask for a signature check.
AllRequests ==
    LET With(ops, update, postRender, untar, signed) ==
            [op : ops, engine : {"v3", "v4"}, update : update, postRender : postRender,
             untar : untar, signed : signed]
        no == {FALSE}
    IN  With({"template"}, BOOLEAN, BOOLEAN, no, BOOLEAN)
        \cup With({"package"}, BOOLEAN, no, no, no)
        \cup With({"pull"}, no, no, BOOLEAN, BOOLEAN)
        \cup With({"plugin_install"}, no, no, no, BOOLEAN)
        \cup With((ChartOps \cup PluginOps) \ {"template", "package", "pull", "plugin_install"},
                  no, no, no, no)

ASSUME CallsAssumption == Requests \in [Calls -> SUBSET AllRequests]

VARIABLE call

\* What is on disk when a chart directory is read.
Charts == [declared : SUBSET Deps, vendored : SUBSET Deps]
NoChart == [declared |-> {}, vendored |-> {}]

Idle == [pc |-> "idle"]
At(c, place) == call[c].pc = place
Asked(c) == call[c].request
ByEngine(c, op, engine) == At(c, "engine") /\ Asked(c).op = op /\ Asked(c).engine = engine
By(c, op) == \E engine \in {"v3", "v4"} : ByEngine(c, op, engine)

\* Besides its place a call has the request and the chart as its engine has
\* loaded it; the rest is history: somebody else changed the chart while this call
\* was updating it.
Received(r) ==
    [pc |-> "received", request |-> r, loaded |-> NoChart, disturbed |-> FALSE]

Goto(c, place) == call' = [call EXCEPT ![c].pc = place]

\* TextResult or ErrorResult.
Answer(c) == call' = [call EXCEPT ![c] = Idle]

\* A handler has found nothing wrong with the request and calls its engine.
Handle(c, op) ==
    /\ At(c, "received")
    /\ Asked(c).op = op
    /\ Goto(c, "engine")

\* A field is missing, or is not a name, path or URL that the tool accepts.
HandlerRefuses(c) == At(c, "received") /\ Answer(c)

Arrive(c) ==
    /\ call[c] = Idle
    /\ \E r \in Requests[c] : call' = [call EXCEPT ![c] = Received(r)]
===============================================================================

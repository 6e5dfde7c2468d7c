------------------------------ MODULE MCLocalTools -----------------------------
(* An instance of LocalTools for TLC: two calls, two dependencies, a plugin. *)
EXTENDS LocalTools, TLC

Plain == [op |-> "lint", engine |-> "v4", update |-> FALSE, postRender |-> FALSE,
          untar |-> FALSE, signed |-> FALSE]

\* Every tool once, and the options that decide about dependencies,
\* post-renderers and signatures.
Everything ==
    {[Plain EXCEPT !.op = o] : o \in (ChartOps \cup PluginOps) \ {"template"}}
    \cup {[Plain EXCEPT !.op = "template", !.engine = e, !.update = u, !.postRender = ~u] :
              e \in {"v3", "v4"}, u \in BOOLEAN}
    \cup {[Plain EXCEPT !.op = o, !.engine = "v3"] :
              o \in {"plugin_install", "plugin_list", "plugin_package", "plugin_verify"}}
    \cup {[Plain EXCEPT !.op = "plugin_install", !.engine = "v3", !.signed = TRUE]}

\* What can get in the way of another call.
Changes ==
    {[Plain EXCEPT !.op = o] : o \in {"dependency_update", "plugin_uninstall"}}

CONSTANTS c1, c2
RequestsMC == (c1 :> Everything) @@ (c2 :> Changes)
===============================================================================

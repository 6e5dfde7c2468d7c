----------------------------- MODULE MCToolServer ------------------------------
(* An instance of ToolServer for TLC: two calls on one release.             *)
EXTENDS ToolServer

CONSTANTS c1, c2

Plain == [op |-> "install", orInstall |-> FALSE, replace |-> FALSE,
          keepHistory |-> FALSE, dryRun |-> FALSE, progress |-> FALSE]

\* Every tool, with the options that matter to the release; one has a heartbeat.
RequestsMC ==
    {[Plain EXCEPT !.progress = TRUE],
     [Plain EXCEPT !.op = "upgrade", !.orInstall = TRUE],
     [Plain EXCEPT !.op = "upgrade", !.orInstall = TRUE, !.dryRun = TRUE],
     [Plain EXCEPT !.op = "uninstall", !.keepHistory = TRUE],
     [Plain EXCEPT !.op = "uninstall"],
     [Plain EXCEPT !.op = "rollback"],
     [Plain EXCEPT !.op = "test"]}
===============================================================================

-------------------------------- MODULE Download --------------------------------
(***************************************************************************)
(* python/src/helm_mcp: discovery.py, download.py and the entry points that *)
(* use them.  Several processes, of several versions of the package, look   *)
(* for the Go binary at the same time; those that find none download it to  *)
(* one directory.  A process may be killed at any step.                     *)
(*                                                                         *)
(* The content of a file is the version whose release it is, "partial", or  *)
(* "other" for anything else: a checksum tells these apart.                 *)
(***************************************************************************)
EXTENDS Naturals, FiniteSets

CONSTANTS
    Processes,
    Versions,   \* of the package; each has its checksums built in
    MaxChunks,  \* MAX_BINARY_BYTES, in chunks of the stream
    MaxKills,   \* bound: processes that are killed
    MaxDamages  \* bound: modifications of a binary by somebody else

\* What a process may find where it looks for the binary.
\* HELM_MCP_BINARY may be unset, or name a file that cannot be executed, a native
\* executable, or a script that runs helm-mcp.  On PATH a console script of this
\* package may start with #! and the name of a Python interpreter ("script"), or
\* not ("wrapper"): pip writes #!/bin/sh before a long path, and an .exe on Windows.
Environments ==
    [setting : {"unset", "missing", "native", "script"}, bundled : BOOLEAN,
     onPath : {"none", "script", "wrapper", "native"}]

ASSUME DownloadAssumption ==
    /\ {"none", "empty", "partial", "other"} \cap Versions = {}
    /\ MaxChunks \in Nat /\ MaxKills \in Nat /\ MaxDamages \in Nat

VARIABLES
    target,   \* the file each version of the package installs
    temp,     \* the temporary file of each process
    size,     \* how many chunks it holds
    proc,     \* the locals of each process
    left,     \* history: temporary files that no process will remove
    kills,    \* history
    damages   \* history

vars == <<target, temp, size, proc, left, kills, damages>>
historyVars == <<left, kills, damages>>

Contents == {"none", "empty", "partial", "other"} \cup Versions
Entries == {"exec", "serve", "setup"}

\* Places inside the try block of ensure_binary.
Downloading == {"fetching", "verifying", "installing"}
Ended == {"idle", "failed", "killed", "ready", "running"}
Places == Ended \cup Downloading \cup {"locating", "checking", "creating", "installed"}

At(p, place) == proc[p].pc = place
Goto(p, place) == proc' = [proc EXCEPT ![p].pc = place]

TypeOK ==
    /\ target \in [Versions -> Contents]
    /\ temp \in [Processes -> Contents]
    /\ size \in [Processes -> 0 .. MaxChunks]
    /\ proc \in [Processes -> [pc : Places, version : Versions, entry : Entries,
                               runs : Contents \cup {"native"}, excused : BOOLEAN]]
    /\ left \in Nat /\ kills \in Nat /\ damages \in Nat

\* Each version may have been installed before.
Init ==
    /\ \E installed \in SUBSET Versions :
           target = [v \in Versions |-> IF v \in installed THEN v ELSE "none"]
    /\ temp = [p \in Processes |-> "none"]
    /\ size = [p \in Processes |-> 0]
    /\ proc \in [Processes -> {[pc |-> "idle", version |-> v, entry |-> "exec",
                                runs |-> "none", excused |-> FALSE] : v \in Versions}]
    /\ left = 0 /\ kills = 0 /\ damages = 0

-------------------------------------------------------------------------------
(* Finding the binary                                                       *)

\* helm-mcp and helm-mcp-python look for it; helm-mcp-python --setup goes
\* straight to ensure_binary.  A process that has ended may be run again.
Start(p) ==
    /\ proc[p].pc \in Ended
    /\ \E e \in Entries :
           proc' = [proc EXCEPT ![p].entry = e, ![p].runs = "none", ![p].excused = FALSE,
                                ![p].pc = IF e = "setup" THEN "checking" ELSE "locating"]
    /\ UNCHANGED <<target, temp, size, historyVars>>

\* find_binary up to the download.  HELM_MCP_BINARY decides when it is set; a
\* bundled binary counts if it is or can be made executable; on PATH a file is
\* passed over if is_python_script knows it for a script.
FindBinary(e) ==
    CASE e.setting # "unset" -> e.setting
      [] e.setting = "unset" /\ e.bundled -> "native"
      [] e.setting = "unset" /\ ~e.bundled ->
             IF e.onPath \in {"wrapper", "native"} THEN e.onPath ELSE "download"

\* A console script is helm-mcp once more, which looks for the binary again, if need
\* be for ever.
Runs(p, what) ==
    IF what \in {"script", "wrapper"}
    THEN proc' = [proc EXCEPT ![p].pc = "locating", ![p].entry = "exec"]
    ELSE proc' = [proc EXCEPT ![p].pc = "running", ![p].runs = what]

Locate(p) ==
    /\ At(p, "locating")
    /\ \E e \in Environments :
           LET found == FindBinary(e)
           IN  IF found = "missing" THEN Goto(p, "failed")
               ELSE IF found = "download" THEN Goto(p, "checking")
               ELSE Runs(p, found)
    /\ UNCHANGED <<target, temp, size, historyVars>>

-------------------------------------------------------------------------------
(* ensure_binary                                                            *)

\* The name of the file carries the version of the package.
TargetName(p) == proc[p].version

\* _verify_checksum against the value built into the package.
Verified(p, file) == file = proc[p].version

\* No checksum for this platform: ensure_binary returns None.
NoChecksum(p) ==
    /\ At(p, "checking")
    /\ Goto(p, "failed")
    /\ UNCHANGED <<target, temp, size, historyVars>>

\* A mutant: it was verified when it was downloaded.
CheckTargetExists(p) ==
    /\ At(p, "checking")
    /\ Goto(p, IF target[TargetName(p)] # "none" THEN "installed" ELSE "creating")
    /\ UNCHANGED <<target, temp, size, historyVars>>

\* A file that is there already is verified again.
CheckTarget(p) ==
    /\ At(p, "checking")
    /\ Goto(p, IF Verified(p, target[TargetName(p)]) THEN "installed" ELSE "creating")
    /\ UNCHANGED <<target, temp, size, historyVars>>

\* mkstemp, which may fail.
CreateTemp(p) ==
    /\ At(p, "creating")
    /\ \/ /\ Goto(p, "fetching")
          /\ temp' = [temp EXCEPT ![p] = "empty"]
          /\ size' = [size EXCEPT ![p] = 0]
       \/ Goto(p, "failed") /\ UNCHANGED <<temp, size>>
    /\ UNCHANGED <<target, historyVars>>

\* A mutant: only the checksum error cleans up.
RaisesUnlessFetching(p) ==
    /\ Goto(p, "failed")
    /\ temp' = IF At(p, "fetching") THEN temp ELSE [temp EXCEPT ![p] = "none"]
    /\ size' = [size EXCEPT ![p] = 0]
    /\ UNCHANGED <<target, historyVars>>

\* Every exception in the try block removes the temporary file; find_binary
\* turns it into FileNotFoundError, --setup into exit code 1.
Raises(p) ==
    /\ Goto(p, "failed")
    /\ temp' = [temp EXCEPT ![p] = "none"]
    /\ size' = [size EXCEPT ![p] = 0]
    /\ UNCHANGED <<target, historyVars>>

\* _download reads one more chunk, if the cap allows it.
ReadChunk(p) ==
    /\ At(p, "fetching")
    /\ IF size[p] = MaxChunks
       THEN Raises(p)
       ELSE /\ size' = [size EXCEPT ![p] = @ + 1]
            /\ temp' = [temp EXCEPT ![p] = "partial"]
            /\ UNCHANGED <<target, proc, historyVars>>

\* The stream ends: with the release, with something else, or too early.
DownloadEnds(p) ==
    /\ At(p, "fetching")
    /\ Goto(p, "verifying")
    /\ \/ UNCHANGED temp
       \/ /\ size[p] > 0
          /\ \E content \in {"other"} \cup Versions : temp' = [temp EXCEPT ![p] = content]
    /\ UNCHANGED <<target, size, historyVars>>

\* The server answers with an error, or with nothing until the timeout.
DownloadFails(p) == At(p, "fetching") /\ Raises(p)

\* A mutant: the size has been checked already.
VerifySkipped(p) ==
    /\ At(p, "verifying")
    /\ Goto(p, "installing")
    /\ UNCHANGED <<target, temp, size, historyVars>>

Verify(p) ==
    /\ At(p, "verifying")
    /\ IF Verified(p, temp[p])
       THEN Goto(p, "installing") /\ UNCHANGED <<target, temp, size, historyVars>>
       ELSE Raises(p)

\* chmod and replace; either may fail.
Install(p) ==
    \/ /\ At(p, "installing")
       /\ target' = [target EXCEPT ![TargetName(p)] = temp[p]]
       /\ temp' = [temp EXCEPT ![p] = "none"]
       /\ size' = [size EXCEPT ![p] = 0]
       /\ Goto(p, "installed")
       /\ UNCHANGED historyVars
    \/ At(p, "installing") /\ Raises(p)

-------------------------------------------------------------------------------
(* Running it                                                               *)

\* helm_mcp_main replaces the process by the file at the path it was given.
Exec(p) ==
    /\ At(p, "installed")
    /\ proc[p].entry = "exec"
    /\ Runs(p, target[TargetName(p)])
    /\ UNCHANGED <<target, temp, size, historyVars>>

\* create_server starts it as a subprocess of the proxy.
Serve(p) ==
    /\ At(p, "installed")
    /\ proc[p].entry = "serve"
    /\ Runs(p, target[TargetName(p)])
    /\ UNCHANGED <<target, temp, size, historyVars>>

\* --setup prints the path and ends.
SetupReady(p) ==
    /\ At(p, "installed")
    /\ proc[p].entry = "setup"
    /\ Goto(p, "ready")
    /\ UNCHANGED <<target, temp, size, historyVars>>

-------------------------------------------------------------------------------
(* The environment                                                          *)

\* A signal, a power cut, or an interrupt, which is not an Exception.
Kill(p) ==
    /\ proc[p].pc \notin Ended
    /\ kills < MaxKills
    /\ kills' = kills + 1
    /\ left' = IF temp[p] = "none" THEN left ELSE left + 1
    /\ temp' = [temp EXCEPT ![p] = "none"]
    /\ size' = [size EXCEPT ![p] = 0]
    /\ Goto(p, "killed")
    /\ UNCHANGED <<target, damages>>

\* Somebody else writes to an installed binary.  A process that has verified it
\* and not yet started it cannot know.
Damage(v) ==
    /\ target[v] # "none"
    /\ damages < MaxDamages
    /\ damages' = damages + 1
    /\ target' = [target EXCEPT ![v] = "other"]
    /\ proc' = [p \in Processes |->
           IF At(p, "installed") /\ TargetName(p) = v
           THEN [proc[p] EXCEPT !.excused = TRUE] ELSE proc[p]]
    /\ UNCHANGED <<temp, size, left, kills>>

\* What a process does on its own once it has been started.
Step(p) ==
    \/ Locate(p)
    \/ NoChecksum(p) \/ CheckTarget(p) \/ CreateTemp(p)
    \/ DownloadEnds(p) \/ DownloadFails(p)
    \/ Verify(p) \/ Install(p)
    \/ Exec(p) \/ Serve(p) \/ SetupReady(p)

Next ==
    \/ \E p \in Processes : Start(p) \/ Step(p) \/ ReadChunk(p) \/ Kill(p)
    \/ \E v \in Versions : Damage(v)

Spec == Init /\ [][Next]_vars

-------------------------------------------------------------------------------
(* Properties                                                               *)

\* "Binary is written to a temp file and only renamed after checksum passes"
\* (download.py:11): whoever races, fails or is killed, a file that nobody
\* else has touched is the release of the version in its name.
TargetVerified ==
    damages = 0 => \A v \in Versions : target[v] \in {"none", v}

\* "Re-verify so a modified binary is never trusted" (download.py:176): a
\* process runs the release of its own version, unless the file was modified
\* between its check and its exec.
RunsItsVersion ==
    \A p \in Processes :
        At(p, "running") =>
            proc[p].runs = "native" \/ Verified(p, proc[p].runs) \/ proc[p].excused

\* The directory is on PATH: temporary files are there only while a download
\* is under way, and stay only if a process was killed (download.py:210).
OnlyKillsLeaveFiles ==
    /\ left <= kills
    /\ \A p \in Processes : temp[p] # "none" => proc[p].pc \in Downloading
================================================================================

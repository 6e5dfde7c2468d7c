----------------------------- MODULE DownloadProofs -----------------------------
(* What holds of the installed binaries for any number of processes and      *)
(* versions, whatever fails, is killed or is modified.                       *)
EXTENDS Download, TLAPS

USE DownloadAssumption

Locals == [pc : Places, version : Versions, entry : Entries,
           runs : Contents \cup {"native"}, excused : BOOLEAN]

\* What the place of a process says of its files: f is its temporary file, t the
\* file of its version.
Consistent(l, f, t) ==
    /\ f # "none" => l.pc \in Downloading
    /\ l.pc = "installing" => f = l.version
    /\ l.pc = "installed" => t = l.version \/ l.excused
    /\ l.pc = "running" => l.runs = "native" \/ l.runs = l.version \/ l.excused

IInv ==
    /\ TypeOK
    /\ TargetVerified
    /\ left <= kills
    /\ \A p \in Processes : Consistent(proc[p], temp[p], target[proc[p].version])

LEMMA Initially == Init => IInv
<1> SUFFICES ASSUME Init PROVE IInv
  OBVIOUS
<1>1. TypeOK
  <2>1. proc \in [Processes -> [pc : Places, version : Versions, entry : Entries,
                               runs : Contents \cup {"native"}, excused : BOOLEAN]]
    <3>1. "idle" \in Places /\ "exec" \in Entries /\ "none" \in Contents
      BY DEF Contents, Places, Ended, Entries
    <3>2. ASSUME NEW p \in Processes
          PROVE  proc[p] \in [pc : Places, version : Versions, entry : Entries,
                             runs : Contents \cup {"native"}, excused : BOOLEAN]
      <4>1. PICK v \in Versions : proc[p] = [pc |-> "idle", version |-> v, entry |-> "exec",
                                           runs |-> "none", excused |-> FALSE]
        BY DEF Init
      <4> QED
        BY <3>1, <4>1
    <3> QED
      BY <3>2 DEF Init
  <2>2. target \in [Versions -> Contents] /\ temp \in [Processes -> Contents]
    BY DEF Init, Contents
  <2> QED
    BY <2>1, <2>2 DEF Init, TypeOK
<1>2. TargetVerified
  BY DEF Init, TargetVerified
<1>3. left <= kills
  BY DEF Init
<1>4. ASSUME NEW p \in Processes
      PROVE  Consistent(proc[p], temp[p], target[proc[p].version])
  BY DEF Init, Consistent
<1> QED
  BY <1>1, <1>2, <1>3, <1>4 DEF IInv

\* What a step of one process that leaves the installed files alone owes the
\* invariant: its new locals, temporary file and size.
LEMMA Owed ==
    ASSUME IInv, NEW p \in Processes,
           NEW l \in Locals, NEW f \in Contents, NEW s \in 0 .. MaxChunks,
           proc' = [proc EXCEPT ![p] = l],
           temp' = [temp EXCEPT ![p] = f],
           size' = [size EXCEPT ![p] = s],
           UNCHANGED <<target, damages>>,
           left' \in Nat, kills' \in Nat, left' <= kills',
           Consistent(l, f, target[l.version])
    PROVE  IInv'
<1>1. TypeOK'
  BY DEF IInv, TypeOK, Locals
<1>2. TargetVerified'
  BY DEF IInv, TargetVerified
<1>3. ASSUME NEW q \in Processes
      PROVE  Consistent(proc[q], temp[q], target[proc[q].version])'
  <2>1. CASE q = p
    BY <2>1 DEF IInv, TypeOK, Consistent
  <2>2. CASE q # p
    <3>1. proc'[q] = proc[q] /\ temp'[q] = temp[q]
      BY <2>2 DEF IInv, TypeOK
    <3> QED
      BY <3>1 DEF IInv, Consistent
  <2> QED
    BY <2>1, <2>2
<1> QED
  BY <1>1, <1>2, <1>3 DEF IInv

\* A process that goes to another place has changed nothing else of its locals.
LEMMA Moved ==
    ASSUME IInv, NEW p \in Processes, NEW place \in Places, Goto(p, place)
    PROVE  \E l \in Locals :
               /\ proc' = [proc EXCEPT ![p] = l]
               /\ l.pc = place
               /\ l.version = proc[p].version /\ l.runs = proc[p].runs
               /\ l.excused = proc[p].excused
<1> DEFINE l == [proc[p] EXCEPT !.pc = place]
<1>1. l \in Locals /\ l.pc = place /\ l.version = proc[p].version
      /\ l.runs = proc[p].runs /\ l.excused = proc[p].excused
  BY DEF IInv, TypeOK, Locals
<1>2. proc' = [proc EXCEPT ![p] = l]
  BY DEF Goto, IInv, TypeOK
<1> QED
  BY <1>1, <1>2

\* A step that only moves a process, to a place about which nothing has to be
\* known, or about which it is.
LEMMA MoveKeeps ==
    ASSUME IInv, NEW p \in Processes, NEW place \in Places, Goto(p, place),
           UNCHANGED <<target, temp, size, historyVars>>,
           temp[p] # "none" => place \in Downloading,
           place = "installing" => temp[p] = proc[p].version,
           place = "installed" => target[proc[p].version] = proc[p].version,
           place # "running"
    PROVE  IInv'
<1>1. PICK l \in Locals : /\ proc' = [proc EXCEPT ![p] = l]
                          /\ l.pc = place /\ l.version = proc[p].version
  BY Moved
<1>2. Consistent(l, temp[p], target[l.version])
  BY <1>1 DEF Consistent
<1>3. /\ temp[p] \in Contents /\ size[p] \in 0 .. MaxChunks
      /\ temp' = [temp EXCEPT ![p] = temp[p]] /\ size' = [size EXCEPT ![p] = size[p]]
  BY DEF IInv, TypeOK
<1>4. left' \in Nat /\ kills' \in Nat /\ left' <= kills' /\ UNCHANGED <<target, damages>>
  BY DEF IInv, TypeOK, historyVars
<1> QED
  BY <1>1, <1>2, <1>3, <1>4, Owed

\* Every way of failing removes the temporary file.
LEMMA RaisesKeeps ==
    ASSUME IInv, NEW p \in Processes, Raises(p)
    PROVE  IInv'
<1>1. "failed" \in Places /\ Goto(p, "failed")
  BY DEF Raises, Places, Ended
<1>2. PICK l \in Locals : proc' = [proc EXCEPT ![p] = l] /\ l.pc = "failed"
  BY <1>1, Moved
<1>3. Consistent(l, "none", target[l.version])
  BY <1>2 DEF Consistent
<1>4. "none" \in Contents /\ 0 \in 0 .. MaxChunks
  BY DEF Contents
<1>5. left' \in Nat /\ kills' \in Nat /\ left' <= kills' /\ UNCHANGED <<target, damages>>
  BY DEF IInv, TypeOK, Raises, historyVars
<1> QED
  BY <1>2, <1>3, <1>4, <1>5, Owed DEF Raises

\* A process that starts a program starts the one whose name it was given, or
\* begins the search again as helm-mcp.
LEMMA RunsKeeps ==
    ASSUME IInv, NEW p \in Processes, NEW what, Runs(p, what),
           what \notin {"script", "wrapper"} => what \in Contents \cup {"native"},
           what \notin {"script", "wrapper"} =>
               what = "native" \/ what = proc[p].version \/ proc[p].excused,
           proc[p].pc \notin Downloading,
           UNCHANGED <<target, temp, size, historyVars>>
    PROVE  IInv'
<1>1. /\ temp[p] = "none" /\ temp[p] \in Contents /\ size[p] \in 0 .. MaxChunks
      /\ temp' = [temp EXCEPT ![p] = temp[p]] /\ size' = [size EXCEPT ![p] = size[p]]
  BY DEF IInv, TypeOK, Consistent
<1>2. left' \in Nat /\ kills' \in Nat /\ left' <= kills' /\ UNCHANGED <<target, damages>>
  BY DEF IInv, TypeOK, historyVars
<1>3. CASE what \in {"script", "wrapper"}
  <2>1. proc' = [proc EXCEPT ![p].pc = "locating", ![p].entry = "exec"]
    BY <1>3 DEF Runs
  <2> DEFINE l == [proc[p] EXCEPT !.pc = "locating", !.entry = "exec"]
  <2>2. l \in Locals /\ l.pc = "locating"
    BY DEF IInv, TypeOK, Locals, Places, Entries
  <2>3. proc' = [proc EXCEPT ![p] = l]
    BY <2>1 DEF IInv, TypeOK
  <2>4. Consistent(l, temp[p], target[l.version])
    BY <1>1, <2>2 DEF Consistent
  <2> QED
    BY <1>1, <1>2, <2>2, <2>3, <2>4, Owed
<1>4. CASE what \notin {"script", "wrapper"}
  <2> DEFINE l == [proc[p] EXCEPT !.pc = "running", !.runs = what]
  <2>1. /\ l \in Locals /\ l.pc = "running" /\ l.runs = what
        /\ l.version = proc[p].version /\ l.excused = proc[p].excused
    BY <1>4 DEF IInv, TypeOK, Locals, Places, Ended
  <2>2. proc' = [proc EXCEPT ![p] = l]
    BY <1>4 DEF Runs, IInv, TypeOK
  <2>3. Consistent(l, temp[p], target[l.version])
    BY <1>1, <1>4, <2>1 DEF Consistent
  <2> QED
    BY <1>1, <1>2, <2>1, <2>2, <2>3, Owed
<1> QED
  BY <1>3, <1>4

LEMMA StartKeeps ==
    ASSUME IInv, NEW p \in Processes, Start(p)
    PROVE  IInv'
<1>1. PICK e \in Entries :
          proc' = [proc EXCEPT ![p].entry = e, ![p].runs = "none", ![p].excused = FALSE,
                               ![p].pc = IF e = "setup" THEN "checking" ELSE "locating"]
  BY DEF Start
<1> DEFINE place == IF e = "setup" THEN "checking" ELSE "locating"
           l == [proc[p] EXCEPT !.entry = e, !.runs = "none", !.excused = FALSE, !.pc = place]
<1>2. place \in Places /\ place \notin Downloading
      /\ place \notin {"installing", "installed", "running"}
  BY DEF Places, Downloading
<1>3. l \in Locals /\ l.pc = place
  BY <1>2 DEF IInv, TypeOK, Locals, Contents
<1>4. proc' = [proc EXCEPT ![p] = l]
  BY <1>1 DEF IInv, TypeOK
<1>5. /\ temp[p] = "none" /\ temp[p] \in Contents /\ size[p] \in 0 .. MaxChunks
      /\ temp' = [temp EXCEPT ![p] = temp[p]] /\ size' = [size EXCEPT ![p] = size[p]]
  BY DEF Start, IInv, TypeOK, Consistent, Ended, Downloading
<1>6. Consistent(l, temp[p], target[l.version])
  BY <1>2, <1>3, <1>5 DEF Consistent
<1>7. left' \in Nat /\ kills' \in Nat /\ left' <= kills' /\ UNCHANGED <<target, damages>>
  BY DEF Start, IInv, TypeOK, historyVars
<1> QED
  BY <1>3, <1>4, <1>5, <1>6, <1>7, Owed

LEMMA LocateKeeps ==
    ASSUME IInv, NEW p \in Processes, Locate(p)
    PROVE  IInv'
<1>1. temp[p] = "none" /\ proc[p].pc \notin Downloading
  BY DEF Locate, IInv, TypeOK, Consistent, Downloading, At
<1>2. PICK e \in Environments :
          LET found == FindBinary(e)
          IN  IF found = "missing" THEN Goto(p, "failed")
              ELSE IF found = "download" THEN Goto(p, "checking")
              ELSE Runs(p, found)
  BY DEF Locate
<1>3. UNCHANGED <<target, temp, size, historyVars>>
  BY DEF Locate
<1>4. FindBinary(e) \in {"missing", "native", "script", "wrapper", "download"}
  BY DEF FindBinary, Environments
<1>5. CASE FindBinary(e) = "missing"
  BY <1>1, <1>2, <1>3, <1>5, MoveKeeps DEF Places, Ended
<1>6. CASE FindBinary(e) = "download"
  BY <1>1, <1>2, <1>3, <1>6, MoveKeeps DEF Places
<1>7. CASE FindBinary(e) \in {"native", "script", "wrapper"}
  BY <1>1, <1>2, <1>3, <1>7, RunsKeeps
<1> QED
  BY <1>4, <1>5, <1>6, <1>7

LEMMA CheckKeeps ==
    ASSUME IInv, NEW p \in Processes, NoChecksum(p) \/ CheckTarget(p)
    PROVE  IInv'
<1>1. temp[p] = "none" /\ UNCHANGED <<target, temp, size, historyVars>>
  BY DEF NoChecksum, CheckTarget, At, IInv, Consistent, Downloading
<1>2. CASE NoChecksum(p)
  BY <1>1, <1>2, MoveKeeps DEF NoChecksum, Places, Ended
<1>3. CASE CheckTarget(p) /\ Verified(p, target[TargetName(p)])
  BY <1>1, <1>3, MoveKeeps DEF CheckTarget, Verified, TargetName, Places
<1>4. CASE CheckTarget(p) /\ ~Verified(p, target[TargetName(p)])
  BY <1>1, <1>4, MoveKeeps DEF CheckTarget, Places
<1> QED
  BY <1>2, <1>3, <1>4

\* The temporary file is there from here on, and only until the download is over.
LEMMA FetchKeeps ==
    ASSUME IInv, NEW p \in Processes, CreateTemp(p) \/ ReadChunk(p) \/ DownloadEnds(p)
    PROVE  IInv'
<1> USE DEF Downloading
<1>1. ASSUME NEW place \in {"fetching", "verifying"}, Goto(p, place),
             NEW f \in Contents, temp' = [temp EXCEPT ![p] = f],
             NEW s \in 0 .. MaxChunks, size' = [size EXCEPT ![p] = s],
             UNCHANGED <<target, historyVars>>
      PROVE  IInv'
  <2>1. PICK l \in Locals : proc' = [proc EXCEPT ![p] = l] /\ l.pc = place
    BY <1>1, Moved DEF Places
  <2>2. Consistent(l, f, target[l.version])
    BY <2>1 DEF Consistent
  <2>3. left' \in Nat /\ kills' \in Nat /\ left' <= kills' /\ UNCHANGED <<target, damages>>
    BY <1>1 DEF IInv, TypeOK, historyVars
  <2> QED
    BY <1>1, <2>1, <2>2, <2>3, Owed
<1>2. CASE CreateTemp(p)
  <2>1. CASE Goto(p, "failed") /\ UNCHANGED <<temp, size>>
    <3>1. temp[p] = "none"
      BY <1>2 DEF CreateTemp, At, IInv, Consistent
    <3> QED
      BY <1>2, <2>1, <3>1, MoveKeeps DEF CreateTemp, Places, Ended
  <2>2. CASE Goto(p, "fetching") /\ temp' = [temp EXCEPT ![p] = "empty"]
             /\ size' = [size EXCEPT ![p] = 0]
    <3>1. "empty" \in Contents /\ 0 \in 0 .. MaxChunks
      BY DEF Contents
    <3> QED
      BY <1>1, <1>2, <2>2, <3>1 DEF CreateTemp
  <2> QED
    BY <1>2, <2>1, <2>2 DEF CreateTemp
<1>3. CASE ReadChunk(p)
  <2>1. CASE size[p] = MaxChunks
    BY <1>3, <2>1, RaisesKeeps DEF ReadChunk
  <2>2. CASE size[p] # MaxChunks
    <3>1. /\ size' = [size EXCEPT ![p] = size[p] + 1]
          /\ temp' = [temp EXCEPT ![p] = "partial"]
          /\ UNCHANGED <<target, proc, historyVars>>
      BY <1>3, <2>2 DEF ReadChunk
    <3>2. size[p] + 1 \in 0 .. MaxChunks /\ "partial" \in Contents
      BY <2>2 DEF IInv, TypeOK, Contents
    <3>3. Goto(p, "fetching")
      BY <1>3, <3>1 DEF ReadChunk, At, Goto, IInv, TypeOK
    <3> QED
      BY <1>1, <3>1, <3>2, <3>3
  <2> QED
    BY <2>1, <2>2
<1>4. CASE DownloadEnds(p)
  <2>1. PICK f \in Contents : temp' = [temp EXCEPT ![p] = f]
    <3>1. CASE UNCHANGED temp
      BY <3>1 DEF IInv, TypeOK
    <3>2. CASE \E f \in {"other"} \cup Versions : temp' = [temp EXCEPT ![p] = f]
      BY <3>2 DEF Contents
    <3> QED
      BY <1>4, <3>1, <3>2 DEF DownloadEnds
  <2>2. size[p] \in 0 .. MaxChunks /\ size' = [size EXCEPT ![p] = size[p]]
    BY <1>4 DEF DownloadEnds, IInv, TypeOK
  <2> QED
    BY <1>1, <1>4, <2>1, <2>2 DEF DownloadEnds
<1> QED
  BY <1>2, <1>3, <1>4

LEMMA VerifyKeeps ==
    ASSUME IInv, NEW p \in Processes, Verify(p)
    PROVE  IInv'
<1>1. CASE Verified(p, temp[p])
  BY <1>1, MoveKeeps DEF Verify, Verified, Places, Downloading
<1>2. CASE ~Verified(p, temp[p])
  BY <1>2, RaisesKeeps DEF Verify
<1> QED
  BY <1>1, <1>2

\* What is moved to the target was verified before, so whoever has found the file
\* of this version verified finds it verified still.
LEMMA InstallKeeps ==
    ASSUME IInv, NEW p \in Processes, Install(p)
    PROVE  IInv'
<1>1. CASE Raises(p)
  BY <1>1, RaisesKeeps
<1>2. CASE ~Raises(p)
  <2> DEFINE v == proc[p].version
  <2>1. v \in Versions /\ temp[p] = v /\ proc[p] \in Locals
    BY <1>2 DEF Install, At, IInv, TypeOK, Consistent, Locals
  <2>2. /\ target' = [target EXCEPT ![v] = v]
        /\ temp' = [temp EXCEPT ![p] = "none"]
        /\ size' = [size EXCEPT ![p] = 0]
        /\ Goto(p, "installed")
        /\ UNCHANGED historyVars
    BY <1>2, <2>1 DEF Install, TargetName
  <2>3. PICK l \in Locals : /\ proc' = [proc EXCEPT ![p] = l]
                            /\ l.pc = "installed" /\ l.version = v
    BY <2>2, Moved DEF Places
  <2>4. TypeOK'
    BY <2>1, <2>2, <2>3 DEF IInv, TypeOK, Locals, Contents, historyVars
  <2>5. TargetVerified' /\ left' <= kills'
    BY <2>2 DEF IInv, TypeOK, TargetVerified, historyVars
  <2>6. ASSUME NEW q \in Processes
        PROVE  Consistent(proc[q], temp[q], target[proc[q].version])'
    <3>1. CASE q = p
      BY <2>1, <2>2, <2>3, <3>1 DEF IInv, TypeOK, Consistent
    <3>2. CASE q # p
      <4>1. proc'[q] = proc[q] /\ temp'[q] = temp[q] /\ proc[q].version \in Versions
        BY <2>2, <2>3, <3>2 DEF IInv, TypeOK
      <4>2. \/ target'[proc[q].version] = target[proc[q].version]
            \/ target'[proc[q].version] = proc[q].version
        BY <2>2, <4>1 DEF IInv, TypeOK
      <4> QED
        BY <4>1, <4>2 DEF IInv, Consistent
    <3> QED
      BY <3>1, <3>2
  <2> QED
    BY <2>4, <2>5, <2>6 DEF IInv
<1> QED
  BY <1>1, <1>2

LEMMA RunKeeps ==
    ASSUME IInv, NEW p \in Processes, Exec(p) \/ Serve(p) \/ SetupReady(p)
    PROVE  IInv'
<1>1. /\ At(p, "installed") /\ temp[p] = "none"
      /\ proc[p].version \in Versions /\ target[proc[p].version] \in Contents
      /\ target[proc[p].version] = proc[p].version \/ proc[p].excused
      /\ UNCHANGED <<target, temp, size, historyVars>>
  BY DEF Exec, Serve, SetupReady, At, IInv, TypeOK, Consistent, Downloading
<1>2. CASE SetupReady(p)
  BY <1>1, <1>2, MoveKeeps DEF SetupReady, Places, Ended
<1>3. CASE Exec(p) \/ Serve(p)
  BY <1>1, <1>3, RunsKeeps DEF Exec, Serve, TargetName, At, Downloading
<1> QED
  BY <1>2, <1>3

LEMMA KillKeeps ==
    ASSUME IInv, NEW p \in Processes, Kill(p)
    PROVE  IInv'
<1>1. PICK l \in Locals : proc' = [proc EXCEPT ![p] = l] /\ l.pc = "killed"
  BY Moved DEF Kill, Places, Ended
<1>2. Consistent(l, "none", target[l.version])
  BY <1>1 DEF Consistent
<1>3. left' \in Nat /\ kills' \in Nat /\ left' <= kills'
  BY DEF Kill, IInv, TypeOK
<1>4. "none" \in Contents /\ 0 \in 0 .. MaxChunks
  BY DEF Contents
<1> QED
  BY <1>1, <1>2, <1>3, <1>4, Owed DEF Kill

\* Those who have checked the file that is modified are excused.
LEMMA DamageKeeps ==
    ASSUME IInv, NEW v \in Versions, Damage(v)
    PROVE  IInv'
<1>1. ASSUME NEW p \in Processes
      PROVE  /\ proc'[p] \in Locals
             /\ proc'[p].pc = proc[p].pc /\ proc'[p].version = proc[p].version
             /\ proc'[p].runs = proc[p].runs
             /\ proc[p].excused => proc'[p].excused
             /\ At(p, "installed") /\ proc[p].version = v => proc'[p].excused
  <2>1. proc[p] \in Locals
    BY DEF IInv, TypeOK, Locals
  <2>2. proc'[p] = IF At(p, "installed") /\ proc[p].version = v
                   THEN [proc[p] EXCEPT !.excused = TRUE] ELSE proc[p]
    BY DEF Damage, TargetName
  <2> QED
    BY <2>1, <2>2 DEF Locals
<1>2. TypeOK'
  <2>1. target' \in [Versions -> Contents]
    BY DEF Damage, IInv, TypeOK, Contents
  <2>2. proc' \in [Processes -> Locals]
    BY <1>1 DEF Damage
  <2> QED
    BY <2>1, <2>2 DEF Damage, IInv, TypeOK, Locals
<1>3. TargetVerified' /\ left' <= kills'
  BY DEF Damage, IInv, TypeOK, TargetVerified
<1>4. ASSUME NEW p \in Processes
      PROVE  Consistent(proc[p], temp[p], target[proc[p].version])'
  <2>1. Consistent(proc[p], temp[p], target[proc[p].version]) /\ temp' = temp
    BY DEF IInv, Damage
  <2>2. proc[p].version # v => target'[proc[p].version] = target[proc[p].version]
    BY DEF Damage, IInv, TypeOK
  <2> QED
    BY <1>1, <2>1, <2>2 DEF Consistent, At
<1> QED
  BY <1>2, <1>3, <1>4 DEF IInv

LEMMA StutterKeeps == IInv /\ UNCHANGED vars => IInv'
BY DEF vars, historyVars, IInv, TypeOK, TargetVerified, Consistent

LEMMA Preserved == IInv /\ [Next]_vars => IInv'
<1> SUFFICES ASSUME IInv, [Next]_vars PROVE IInv'
  OBVIOUS
<1>1. ASSUME NEW p \in Processes, Step(p) PROVE IInv'
  BY <1>1, LocateKeeps, CheckKeeps, FetchKeeps, RaisesKeeps, VerifyKeeps, InstallKeeps,
     RunKeeps DEF Step, DownloadFails
<1>2. ASSUME NEW p \in Processes, Start(p) \/ ReadChunk(p) \/ Kill(p) PROVE IInv'
  BY <1>2, StartKeeps, FetchKeeps, KillKeeps
<1> QED
  BY <1>1, <1>2, DamageKeeps, StutterKeeps DEF Next

LEMMA Inductive == Spec => []IInv
BY Initially, Preserved, PTL DEF Spec

-------------------------------------------------------------------------------
\* The files and the locals of any number of processes keep their types.
THEOREM FilesTypeCorrect == Spec => []TypeOK
<1>1. IInv => TypeOK
  BY DEF IInv
<1> QED
  BY <1>1, Inductive, PTL

\* A file that nobody else touches is the release of the version in its name,
\* for any number of racing, failing and killed processes (download.py:11).
THEOREM TargetIsVerified == Spec => []TargetVerified
<1>1. IInv => TargetVerified
  BY DEF IInv
<1> QED
  BY <1>1, Inductive, PTL

\* A process runs the release of its own version unless the file is modified
\* after its check (download.py:176).
THEOREM RunsOwnVersion == Spec => []RunsItsVersion
<1>1. IInv => RunsItsVersion
  BY DEF IInv, RunsItsVersion, Consistent, At, Verified
<1> QED
  BY <1>1, Inductive, PTL

\* Temporary files outlive their download only when a process is killed
\* (download.py:210).
THEOREM LeftByKills == Spec => []OnlyKillsLeaveFiles
<1>1. IInv => OnlyKillsLeaveFiles
  BY DEF IInv, OnlyKillsLeaveFiles, Consistent
<1> QED
  BY <1>1, Inductive, PTL
===============================================================================

------------------------------- MODULE RepoFile --------------------------------
(***************************************************************************)
(* internal/helmengine/v4/repo.go: the tools that change repositories.yaml  *)
(* and the cached index files.  Every call loads the whole file, changes    *)
(* its copy and writes the copy back; no lock is held in between, and the   *)
(* server handles the calls of its clients in parallel.  v3/repo.go is the  *)
(* same code on the same two files, so a caller may use either engine.      *)
(* An input that the handlers refuse never reaches the file, so Names and   *)
(* URLs are the valid ones.  The SDK's WriteFile truncates the file and then *)
(* writes it; that a shorter text may be followed by the end of a longer one *)
(* which was written at the same time is left out.                          *)
(***************************************************************************)
EXTENDS Naturals

CONSTANTS
    Callers,     \* the requests that may be in flight
    Names, URLs, \* of repositories
    NoUrl,       \* no such repository
    Absent,      \* no repositories.yaml yet
    MaxCalls     \* bound: calls in a behaviour

ASSUME RepoAssumption ==
    /\ NoUrl \notin URLs
    /\ Absent \notin [Names -> URLs \cup {NoUrl}]
    /\ MaxCalls \in Nat

VARIABLES
    file,    \* repositories.yaml: the URL of each repository it lists
    index,   \* <name>-index.yaml: the URL it was downloaded from
    call,    \* the locals of each caller
    asked    \* bound: calls so far

vars == <<file, index, call, asked>>

Entries == [Names -> URLs \cup {NoUrl}]
NoEntries == [n \in Names |-> NoUrl]
Registered(entries) == {n \in Names : entries[n] # NoUrl}

\* The content of the file, which an add takes as empty while there is none.
Content == IF file = Absent THEN NoEntries ELSE file

Requests ==
    [op : {"add"}, names : {{n} : n \in Names}, url : URLs, force : BOOLEAN]
    \cup [op : {"remove"}, names : SUBSET Names, url : {NoUrl}, force : {FALSE}]
    \cup [op : {"update"}, names : SUBSET Names, url : {NoUrl}, force : {FALSE}]

Idle == [pc |-> "idle"]
At(c, pc) == call[c].pc = pc
Op(c) == call[c].request.op
Target(c) == call[c].request.names

Init ==
    /\ file = Absent
    /\ index = NoEntries
    /\ call = [c \in Callers |-> Idle]
    /\ asked = 0

-------------------------------------------------------------------------------
Ask(c, r) ==
    /\ call[c] = Idle
    /\ asked < MaxCalls
    /\ asked' = asked + 1
    /\ call' = [call EXCEPT ![c] =
           [pc |-> "load", request |-> r, loaded |-> NoEntries, todo |-> {}]]
    /\ UNCHANGED <<file, index>>

Return(c) == call' = [call EXCEPT ![c] = Idle]

\* Goes on with the entries it has loaded, and the names it has work for.
Proceed(c, pc, todo) ==
    call' = [call EXCEPT ![c].pc = pc, ![c].loaded = Content, ![c].todo = todo]

\* f.Has(opts.Name) && !opts.ForceUpdate is an error.
Addable(c) == call[c].request.force \/ Target(c) \cap Registered(Content) = {}

\* A mutant: the entry is written before its index is there.
AddLoadsToWrite(c) ==
    /\ At(c, "load") /\ Op(c) = "add"
    /\ IF Addable(c) THEN Proceed(c, "write", Target(c)) ELSE Return(c)
    /\ UNCHANGED <<file, index, asked>>

AddLoads(c) ==
    /\ At(c, "load") /\ Op(c) = "add"
    /\ IF Addable(c) THEN Proceed(c, "download", Target(c)) ELSE Return(c)
    /\ UNCHANGED <<file, index, asked>>

\* f.Remove of a name that is not there ends the call before anything is
\* written.
Removable(c) == file # Absent /\ Target(c) \subseteq Registered(Content)

RemoveLoads(c) ==
    /\ At(c, "load") /\ Op(c) = "remove"
    /\ IF Removable(c) THEN Proceed(c, "write", {}) ELSE Return(c)
    /\ UNCHANGED <<file, index, asked>>

\* No names are all names, and unknown ones are passed over.
Outdated(c) ==
    IF Target(c) = {} THEN Registered(Content) ELSE Target(c) \cap Registered(Content)

UpdateLoads(c) ==
    /\ At(c, "load") /\ Op(c) = "update"
    /\ IF file # Absent /\ Outdated(c) # {} THEN Proceed(c, "download", Outdated(c)) ELSE Return(c)
    /\ UNCHANGED <<file, index, asked>>

\* DownloadIndexFile for one repository; an update goes on to its next one.
AddDownloads(c) ==
    /\ At(c, "download") /\ Op(c) = "add"
    /\ \E n \in Target(c) : index' = [index EXCEPT ![n] = call[c].request.url]
    /\ call' = [call EXCEPT ![c].pc = "write"]
    /\ UNCHANGED <<file, asked>>

UpdateDownloads(c, n) ==
    /\ At(c, "download") /\ Op(c) = "update"
    /\ n \in call[c].todo
    /\ index' = [index EXCEPT ![n] = call[c].loaded[n]]
    /\ IF call[c].todo = {n} THEN Return(c) ELSE call' = [call EXCEPT ![c].todo = @ \ {n}]
    /\ UNCHANGED <<file, asked>>

\* The copy that f.Update or f.Remove has changed.
Changed(c) ==
    [n \in Names |-> IF n \in Target(c) THEN call[c].request.url ELSE call[c].loaded[n]]

Kept(entries, names) == [n \in Names |-> IF n \in names THEN entries[n] ELSE NoUrl]

\* WriteFile opens the file, which empties it, ...
WriteFileOpens(c) ==
    /\ At(c, "write")
    /\ file' = NoEntries
    /\ call' = [call EXCEPT ![c].pc = "writing"]
    /\ UNCHANGED <<index, asked>>

\* ... and writes the copy.
WriteFile(c) ==
    /\ At(c, "writing")
    /\ file' = Changed(c)
    /\ Return(c)
    /\ UNCHANGED <<index, asked>>

\* Loading, downloading or opening the file returns an error.  An index that is
\* already downloaded stays.
Fail(c) ==
    /\ call[c] # Idle /\ ~At(c, "writing")
    /\ Return(c)
    /\ UNCHANGED <<file, index, asked>>

\* The disk is full: some of the entries are in the file, or none.
WriteFails(c) ==
    /\ At(c, "writing")
    /\ \E names \in SUBSET Names : file' = Kept(Changed(c), names)
    /\ Return(c)
    /\ UNCHANGED <<index, asked>>

Next ==
    \E c \in Callers :
        \/ \E r \in Requests : Ask(c, r)
        \/ AddLoads(c) \/ RemoveLoads(c) \/ UpdateLoads(c)
        \/ AddDownloads(c)
        \/ \E n \in Names : UpdateDownloads(c, n)
        \/ WriteFileOpens(c) \/ WriteFile(c)
        \/ Fail(c) \/ WriteFails(c)

Spec == Init /\ [][Next]_vars

-------------------------------------------------------------------------------
Locals ==
    [pc : {"load", "download", "write", "writing"}, request : Requests,
     loaded : Entries, todo : SUBSET Names]

RepoTypeOK ==
    /\ file \in Entries \cup {Absent}
    /\ index \in Entries
    /\ call \in [Callers -> {Idle} \cup Locals]
    /\ asked \in Nat

\* A repository that the file lists has an index in the cache, which the search
\* and the chart lookup read (v4/repo.go:59-67): the other order would leave a
\* repository that helm_search_repo passes over in silence.
RegisteredIsIndexed == \A n \in Registered(Content) : index[n] # NoUrl
===============================================================================

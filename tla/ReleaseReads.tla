------------------------------ MODULE ReleaseReads -----------------------------
(***************************************************************************)
(* The tools that read a release (internal/tools/release: get.go, status.go, *)
(* history.go, list.go; helmengine/v4/release.go, which v3 follows), while  *)
(* other clients upgrade and uninstall it.  What is read goes through       *)
(* Manifests on its way out.                                                *)
(*                                                                         *)
(* Of a revision the model keeps the text that is sanitized, its manifest   *)
(* or its hooks; values, notes and metadata are texts of any size.          *)
(***************************************************************************)
EXTENDS Manifests

CONSTANTS
    Requests,         \* those of AllRequests that the client sends
    MaxResponseBytes, \* of tools/common.go; 0 is without limit
    FirstManifests,   \* what the release may hold at first
    LaterManifests,   \* what an upgrade may put in its place
    OtherTexts,       \* what an answer without a manifest may be
    MaxUpgrades       \* bound: upgrades of the release

Tools == {"get_all", "get_values", "get_metadata", "get_manifest", "get_hooks", "get_notes",
          "status", "history", "list"}
AllRequests == [tool : Tools, revision : Nat, max : Nat]

ASSUME ReadsAssumption ==
    /\ Requests \subseteq AllRequests
    /\ FirstManifests \subseteq Seq(Lines) /\ LaterManifests \subseteq Seq(Lines)
    /\ OtherTexts \subseteq Seq(Lines)
    /\ MaxResponseBytes \in Nat /\ MaxUpgrades \in Nat

VARIABLES
    revisions, \* the revisions in the cluster, the latest one last
    upgrades,  \* how many upgrades there have been
    call       \* the locals of one call

readVars == <<revisions, upgrades, call>>

Idle == [pc |-> "idle"]
At(place) == call.pc = place
Goto(place) == call' = [call EXCEPT !.pc = place]

ReadsInit ==
    /\ \E m \in FirstManifests : revisions = <<m>>
    /\ upgrades = 0
    /\ call = Idle

-------------------------------------------------------------------------------
(* Handlers                                                                 *)

\* source is what the engine returns; the answer is the first shown bytes of
\* text, a notice, and so many bytes of structured content.
Arrive ==
    /\ call = Idle
    /\ \E r \in Requests :
           call' = [pc |-> "received", request |-> r, source |-> <<>>, text |-> <<>>,
                    shown |-> 0, notice |-> 0, structured |-> 0]
    /\ UNCHANGED <<revisions, upgrades>>

Handle(tool) ==
    /\ At("received")
    /\ call.request.tool = tool
    /\ Goto("engine")
    /\ UNCHANGED <<revisions, upgrades>>

HandleGetAll == Handle("get_all")
HandleGetValues == Handle("get_values")
HandleGetMetadata == Handle("get_metadata")
HandleGetManifest == Handle("get_manifest")
HandleGetHooks == Handle("get_hooks")
HandleGetNotes == Handle("get_notes")
HandleStatus == Handle("status")
HandleHistory == Handle("history")
HandleList == Handle("list")

\* ErrorResult: the request is not valid, or the engine fails.
Refuse ==
    /\ call.pc \in {"received", "engine", "resources"}
    /\ call' = Idle
    /\ UNCHANGED <<revisions, upgrades>>

-------------------------------------------------------------------------------
(* Engine                                                                   *)

\* The SDK reads the revision that is asked for, the latest one if that is 0.
Found ==
    LET asked == call.request.revision
    IN  IF asked = 0 THEN {i \in DOMAIN revisions : i = Len(revisions)}
        ELSE {i \in DOMAIN revisions : i = asked}

\* The engine method of a tool returns one of these.
Returns(tool, sources) ==
    /\ At("engine")
    /\ call.request.tool = tool
    /\ \E source \in sources : call' = [call EXCEPT !.pc = "read", !.source = source]
    /\ UNCHANGED <<revisions, upgrades>>

\* Texts that say nothing of the manifest, if there is such a revision.
OfRevision == {source \in OtherTexts : Found # {}}

GetAll == Returns("get_all", {revisions[i] : i \in Found})
GetManifest == Returns("get_manifest", {revisions[i] : i \in Found})
GetHooks == Returns("get_hooks", {revisions[i] : i \in Found})
GetValues == Returns("get_values", OfRevision)
GetMetadata == Returns("get_metadata", OfRevision)
GetNotes == Returns("get_notes", OfRevision)
List == Returns("list", OtherTexts)

\* The SDK reads the release, and then looks its resources up in the cluster.
Status ==
    /\ At("engine")
    /\ call.request.tool = "status"
    /\ Found # {}
    /\ Goto("resources")
    /\ UNCHANGED <<revisions, upgrades>>

\* What was found in the cluster goes into the answer if that is asked for.
Resources ==
    /\ At("resources")
    /\ \E source \in OtherTexts : call' = [call EXCEPT !.pc = "read", !.source = source]
    /\ UNCHANGED <<revisions, upgrades>>

\* Every revision that the SDK lists has its entry, up to a limit if one is asked
\* for.
Entry == [indent |-> 0, kind |-> "text"]
Listed(max) ==
    LET all == Len(revisions)
    IN  [i \in 1 .. (IF max > 0 /\ max < all THEN max ELSE all) |-> Entry]

History == Returns("history", {Listed(call.request.max) : i \in DOMAIN revisions})

-------------------------------------------------------------------------------
(* The answer                                                               *)

\* The tools whose answer is a manifest as it is; helm_get_all cleans up the
\* manifests in its answer as well.
AsText == {"get_manifest", "get_hooks"}

\* The tools with an output type, whose result goes out a second time as
\* structured content, which nothing cuts.
Typed == {"get_values", "get_metadata", "status", "history", "list"}

\* JSON has a manifest on one line.
OneLine(lines) == <<[indent |-> Length(lines), kind |-> "text"]>>

Answered(tool, source) ==
    IF tool \in AsText THEN SanitizeManifest(source)
    ELSE IF tool = "get_all" THEN OneLine(SanitizeManifest(source))
    ELSE source

TextResult ==
    /\ At("read")
    /\ LET tool == call.request.tool
           text == Answered(tool, call.source)
           cut == TruncateResponse(text, MaxResponseBytes)
       IN  call' = [call EXCEPT !.pc = "answered", !.text = text,
                                !.shown = cut.shown, !.notice = cut.notice,
                                !.structured = IF tool \in Typed THEN Length(text) ELSE 0]
    /\ UNCHANGED <<revisions, upgrades>>

Return ==
    /\ At("answered")
    /\ call' = Idle
    /\ UNCHANGED <<revisions, upgrades>>

-------------------------------------------------------------------------------
(* Other clients                                                            *)

Upgrade ==
    /\ upgrades < MaxUpgrades
    /\ upgrades' = upgrades + 1
    /\ \E m \in LaterManifests : revisions' = Append(revisions, m)
    /\ UNCHANGED call

Uninstall ==
    /\ revisions # <<>>
    /\ revisions' = <<>>
    /\ UNCHANGED <<upgrades, call>>

ReadsNext ==
    \/ Arrive \/ Refuse \/ TextResult \/ Return
    \/ HandleGetAll \/ HandleGetValues \/ HandleGetMetadata \/ HandleGetManifest
    \/ HandleGetHooks \/ HandleGetNotes \/ HandleStatus \/ HandleHistory \/ HandleList
    \/ GetAll \/ GetValues \/ GetMetadata \/ GetManifest \/ GetHooks \/ GetNotes
    \/ Status \/ Resources \/ History \/ List
    \/ Upgrade \/ Uninstall

ReadsSpec == ReadsInit /\ [][ReadsNext]_readVars

-------------------------------------------------------------------------------
(* Properties                                                               *)

Sanitized == At("answered") /\ call.request.tool \in AsText /\ AsHelmWrites(call.source)

\* "It removes metadata.managedFields and bulky annotations" (sanitize.go:18),
\* and no more: the text of an answer, which goes out whole or cut at its end, has
\* every line of the manifest outside those keys and their values, unchanged and
\* in order, and no line of theirs, however keys, blank lines and documents follow
\* each other; if no line within a document is three dashes, lists are indented
\* and long values announced.
SanitizedExactly ==
    (Sanitized /\ Undashed(call.source) /\ Announced(call.source) /\ Indented(call.source)) =>
        NonBlank(call.text) = WithoutNoise(call.source)

\* "Responses exceeding MaxResponseBytes are automatically truncated"
\* (common.go:264): a text goes out whole exactly if it is within the limit, and
\* with its notice a text that is cut is within the limit too, if the limit has
\* room for a notice at all.
BudgetKept ==
    At("answered") /\ MaxResponseBytes > 0 =>
        LET whole == [shown |-> Length(call.text), notice |-> 0]
            sent == [shown |-> call.shown, notice |-> call.notice]
        IN  /\ Length(call.text) <= MaxResponseBytes <=> sent = whole
            /\ sent # whole =>
                   /\ call.notice = Notice /\ call.shown < Length(call.text)
                   /\ call.shown + call.notice <= Max({MaxResponseBytes, Notice})
===============================================================================

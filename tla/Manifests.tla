------------------------------- MODULE Manifests -------------------------------
(***************************************************************************)
(* internal/resilience: sanitize.go and budget.go, which every manifest     *)
(* goes through on its way to the client.                                   *)
(*                                                                         *)
(* A manifest is a sequence of lines, the last of them blank if the text    *)
(* ends with a newline.  Of a line the model keeps its indent and what      *)
(* sanitize.go and YAML tell apart: the key managedFields; a noisy          *)
(* annotation that ends with | or > ("noisyBlock") or in another way        *)
(* ("noisy"); three dashes; a list item; a blank line; anything else        *)
(* ("text").                                                                *)
(***************************************************************************)
EXTENDS Integers, SequencesExt

CONSTANTS
    Reserve, \* bytes kept for the notice, 150
    Notice,  \* bytes of the notice, about 135
    Window   \* how far back a newline is looked for, 200

ASSUME BudgetAssumption ==
    Reserve \in Nat /\ Notice \in 1 .. Reserve /\ Window \in Nat

Kinds == {"managed", "noisy", "noisyBlock", "separator", "item", "blank", "text"}
Lines == [indent : Nat, kind : Kinds]

Separator == [indent |-> 0, kind |-> "separator"]
BlankLine == [indent |-> 0, kind |-> "blank"]

-------------------------------------------------------------------------------
(* sanitize.go                                                              *)

\* One turn of splitYAMLDocuments' loop.  Three dashes end a document wherever
\* they stand on their line.
SplitLine(acc, line) ==
    IF line.kind = "separator" THEN [docs |-> Append(acc.docs, acc.doc), doc |-> <<>>]
    ELSE [acc EXCEPT !.doc = Append(@, line)]

\* A last document of no lines at all is not one.
SplitYAMLDocuments(manifest) ==
    LET split == FoldLeft(SplitLine, [docs |-> <<>>, doc |-> <<>>], manifest)
    IN  IF split.doc = <<>> THEN split.docs ELSE Append(split.docs, split.doc)

Blank(line) == line.kind = "blank"
Opens(line) == line.kind \in {"managed", "noisyBlock"}
Noisy(line) == Opens(line) \/ line.kind = "noisy"

\* strings.TrimSpace on a document that is not blank: without the blank lines at
\* its ends, and without the indent of its first line.
TrimSpace(doc) ==
    LET first == SelectInSeq(doc, LAMBDA line : ~Blank(line))
        last == SelectLastInSeq(doc, LAMBDA line : ~Blank(line))
    IN  [SubSeq(doc, first, last) EXCEPT ![1].indent = 0]

\* strings.TrimRight(doc, "\n"): a blank line with spaces on it stays.
Empty(line) == Blank(line) /\ line.indent = 0
TrimRight(doc) == SubSeq(doc, 1, SelectLastInSeq(doc, LAMBDA line : ~Empty(line)))

\* A mutant: the line that ends a block is not looked at itself.
SanitizeLineThatEnds(acc, line) ==
    IF Blank(line) THEN (IF acc.skip >= 0 THEN acc ELSE [acc EXCEPT !.out = Append(@, line)])
    ELSE IF acc.skip >= 0 /\ line.indent > acc.skip THEN acc
    ELSE IF acc.skip >= 0 THEN [skip |-> -1, out |-> Append(acc.out, line)]
    ELSE IF Opens(line) THEN [acc EXCEPT !.skip = line.indent]
    ELSE IF Noisy(line) THEN acc
    ELSE [acc EXCEPT !.out = Append(@, line)]

\* One turn of sanitizeDocument's loop; skip is skipIndent while a block is
\* skipped, and -1 otherwise.
SanitizeLine(acc, line) ==
    IF Blank(line) THEN (IF acc.skip >= 0 THEN acc ELSE [acc EXCEPT !.out = Append(@, line)])
    ELSE IF acc.skip >= 0 /\ line.indent > acc.skip THEN acc
    ELSE IF Opens(line) THEN [acc EXCEPT !.skip = line.indent]
    ELSE IF Noisy(line) THEN [acc EXCEPT !.skip = -1]
    ELSE [skip |-> -1, out |-> Append(acc.out, line)]

\* What is left ends with one newline, also if nothing is left.
SanitizeDocument(doc) ==
    LET out == TrimRight(FoldLeft(SanitizeLine, [skip |-> -1, out |-> <<>>], doc).out)
    IN  IF out = <<>> THEN <<BlankLine>> ELSE out

\* Texts one after the other, with a separator between them.
Join(texts) ==
    FoldLeft(LAMBDA out, i : out \o (IF i = 1 THEN <<>> ELSE <<Separator>>) \o texts[i],
             <<>>, [i \in DOMAIN texts |-> i])

\* Blank documents are written as they are.
AllBlank(doc) == \A i \in DOMAIN doc : Blank(doc[i])
Written(doc) == IF AllBlank(doc) THEN doc ELSE SanitizeDocument(TrimSpace(doc))

SanitizeManifest(manifest) ==
    LET docs == SplitYAMLDocuments(manifest)
    IN  Join([i \in DOMAIN docs |-> Written(docs[i])])

-------------------------------------------------------------------------------
(* budget.go                                                                *)

\* A line has its indent, one more character if it is not blank, and a newline.
Size(line) == line.indent + (IF Blank(line) THEN 1 ELSE 2)

\* Where each line of a text ends; Offsets(text)[0] is where the text begins.
Offsets(text) ==
    LET offset[n \in 0 .. Len(text)] == IF n = 0 THEN 0 ELSE offset[n - 1] + Size(text[n])
    IN  offset

LineEnds(text) == {Offsets(text)[n] : n \in DOMAIN text}
Length(text) == Offsets(text)[Len(text)]

\* A mutant: a text of exactly the limit is cut.
TruncateAtLimit(text, max) ==
    LET cutoff == Max({max - Reserve, 0})
        ends == {e \in LineEnds(text) : e <= cutoff /\ e > cutoff - Window + 1}
    IN  IF max <= 0 \/ Length(text) < max THEN [shown |-> Length(text), notice |-> 0]
        ELSE [shown |-> IF ends = {} THEN cutoff ELSE Max(ends), notice |-> Notice]

\* TruncateResponse: how many bytes of the text are shown, and the notice that
\* follows them.  The cut moves back to a newline, if one is near enough.
TruncateResponse(text, max) ==
    LET cutoff == Max({max - Reserve, 0})
        ends == {e \in LineEnds(text) : e <= cutoff /\ e > cutoff - Window + 1}
    IN  IF max <= 0 \/ Length(text) <= max THEN [shown |-> Length(text), notice |-> 0]
        ELSE [shown |-> IF ends = {} THEN cutoff ELSE Max(ends), notice |-> Notice]

-------------------------------------------------------------------------------
(* What sanitizing should do, on the manifest as it came                     *)

\* What YAML takes for the value of a key: the lines below that are deeper, and
\* the items of a list at the key's own indent.
Under(line, key) ==
    \/ Blank(line)
    \/ line.indent > key.indent
    \/ key.kind = "managed" /\ line.kind = "item" /\ line.indent = key.indent

\* A line of the value of a noisy key.
Belongs(manifest, i) ==
    \E j \in 1 .. i - 1 :
        /\ Noisy(manifest[j])
        /\ \A k \in j + 1 .. i : Under(manifest[k], manifest[j])

\* The lines with these indices, in order.
Picked(lines, chosen) ==
    FoldLeft(LAMBDA out, i : IF i \in chosen THEN Append(out, lines[i]) ELSE out,
             <<>>, [i \in DOMAIN lines |-> i])

NonBlank(lines) == Picked(lines, {i \in DOMAIN lines : ~Blank(lines[i])})

\* Noisy keys and their values go; every other line with something on it stays
\* as it is, where it is.
WithoutNoise(manifest) ==
    Picked(manifest, {i \in DOMAIN manifest :
                          ~Blank(manifest[i]) /\ ~Noisy(manifest[i]) /\ ~Belongs(manifest, i)})

\* As Helm writes a manifest: each document begins with three dashes and a
\* comment line without an indent, and no document is empty at the end.
First(manifest, i) ==
    /\ ~Blank(manifest[i])
    /\ \E k \in 0 .. i - 1 :
           /\ k = 0 \/ manifest[k] = Separator
           /\ \A l \in k + 1 .. i - 1 : Blank(manifest[l])

AsHelmWrites(manifest) ==
    /\ \A i \in DOMAIN manifest : First(manifest, i) => manifest[i].indent = 0
    /\ manifest # <<>> => Last(manifest).kind # "separator"

\* No text within a document has a line of three dashes.
Undashed(manifest) ==
    \A i \in DOMAIN manifest : manifest[i].kind = "separator" => manifest[i].indent = 0

\* What a line-by-line search for noise can see: the list of managedFields is
\* deeper than the key, and a noisy value of several lines is announced by | or >.
FirstBelow(manifest, j, i) ==
    j < i /\ ~Blank(manifest[i]) /\ \A k \in j + 1 .. i - 1 : Blank(manifest[k])

Announced(manifest) ==
    \A i \in DOMAIN manifest : \A j \in 1 .. i - 1 :
        manifest[j].kind = "noisy" /\ FirstBelow(manifest, j, i) =>
            manifest[i].indent <= manifest[j].indent

Indented(manifest) ==
    \A i \in DOMAIN manifest : \A j \in 1 .. i - 1 :
        /\ manifest[j].kind = "managed"
        /\ \A k \in j + 1 .. i - 1 : Blank(manifest[k]) \/ manifest[k].indent > manifest[j].indent
        => ~(manifest[i].kind = "item" /\ manifest[i].indent = manifest[j].indent)
===============================================================================

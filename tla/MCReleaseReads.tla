---------------------------- MODULE MCReleaseReads -----------------------------
(* An instance of ReleaseReads for TLC: every manifest of up to four lines.  *)
EXTENDS ReleaseReads

Line(indent, kind) == [indent |-> indent, kind |-> kind]

LinesMC ==
    {Line(i, "text") : i \in 0 .. 2}
    \cup {Line(1, "managed"), Line(1, "noisyBlock"), Line(0, "noisy"), Line(1, "item"),
          Separator, Line(1, "separator"), BlankLine, Line(1, "blank")}

ManifestsMC == UNION {[1 .. n -> LinesMC] : n \in 0 .. 4}
LaterMC == {<<Line(0, "text"), Line(1, "managed"), Line(2, "text")>>}

\* From nothing over exactly the limit and one byte more to several lines.
TextsMC == {<<>>, <<Line(6, "text")>>, <<Line(7, "text")>>, [i \in 1 .. 6 |-> Line(0, "text")]}

Request(tool, revision, max) == [tool |-> tool, revision |-> revision, max |-> max]

RequestsMC ==
    {Request(tool, 0, 0) : tool \in Tools} \cup {Request("get_all", 1, 0), Request("history", 0, 1)}
===============================================================================

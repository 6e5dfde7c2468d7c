---------------------------- MODULE RepoFileProofs -----------------------------
(* What holds of the repository file for any number of callers, repositories *)
(* and calls that overlap.                                                   *)
EXTENDS RepoFile, TLAPS

USE RepoAssumption

\* A caller that is past its first step is not idle, and its locals are typed.
LEMMA AtIsBusy ==
    ASSUME RepoTypeOK, NEW c \in Callers,
           At(c, "load") \/ At(c, "download") \/ At(c, "write") \/ At(c, "writing")
    PROVE  call[c] \in Locals /\ call[c] # Idle
BY DEF RepoTypeOK, At, Idle, Locals

\* The content of the file is a map of names in every state.
LEMMA ContentType ==
    ASSUME RepoTypeOK
    PROVE  Content \in Entries
BY DEF RepoTypeOK, Content, NoEntries, Entries

\* The requests, field by field.
LEMMA RequestType ==
    ASSUME NEW r \in Requests
    PROVE  /\ r.op \in {"add", "remove", "update"}
           /\ r.names \in SUBSET Names
           /\ r.op = "add" => r.url \in URLs /\ \E n \in Names : r.names = {n}
           /\ r.op # "add" => r.url = NoUrl /\ ~r.force
           /\ r.url \in URLs \cup {NoUrl}
BY DEF Requests

\* What a call writes is typed.
LEMMA ChangedType ==
    ASSUME NEW c \in Callers, call[c] \in Locals
    PROVE  Changed(c) \in Entries
<1>1. call[c].request.url \in URLs \cup {NoUrl}
    BY RequestType DEF Locals
<1>2. \A n \in Names : call[c].loaded[n] \in URLs \cup {NoUrl}
    BY DEF Locals, Entries
<1>. QED
    BY <1>1, <1>2 DEF Changed, Entries

\* So is what a failing write leaves of it.
LEMMA KeptType ==
    ASSUME NEW entries \in Entries, NEW names
    PROVE  Kept(entries, names) \in Entries
BY DEF Kept, Entries

\* The locals after Proceed.
LEMMA ProceedType ==
    ASSUME RepoTypeOK, NEW c \in Callers, At(c, "load"),
           NEW pc \in {"download", "write"}, NEW todo \in SUBSET Names, Proceed(c, pc, todo)
    PROVE  /\ call' \in [Callers -> {Idle} \cup Locals]
           /\ call'[c] \in Locals
           /\ call'[c] = [pc |-> pc, request |-> call[c].request, loaded |-> Content, todo |-> todo]
           /\ \A d \in Callers \ {c} : call'[d] = call[d]
<1>1. call[c] \in Locals
    BY AtIsBusy
<1>2. Content \in Entries
    BY ContentType
<1>3. call'[c] = [pc |-> pc, request |-> call[c].request, loaded |-> Content, todo |-> todo]
    BY <1>1 DEF Proceed, RepoTypeOK, Locals
<1>4. call'[c] \in Locals
    BY <1>1, <1>2, <1>3 DEF Locals
<1>5. \A d \in Callers \ {c} : call'[d] = call[d]
    BY DEF Proceed, RepoTypeOK
<1>6. call' \in [Callers -> {Idle} \cup Locals]
    BY <1>4 DEF Proceed, RepoTypeOK
<1>. QED
    BY <1>3, <1>4, <1>5, <1>6

-------------------------------------------------------------------------------
\* RegisteredIsIndexed is not inductive: it needs that a call's copy, which may
\* become the file, lists indexed repositories only, and that an add writes
\* after its download.
Known(c) ==
    call[c] # Idle =>
        /\ \A n \in Registered(call[c].loaded) : index[n] # NoUrl
        /\ Op(c) = "update" => call[c].todo \subseteq Registered(call[c].loaded)

Ready(c) ==
    At(c, "write") \/ At(c, "writing") =>
        /\ Op(c) \in {"add", "remove"}
        /\ Op(c) = "add" => \A n \in Target(c) : index[n] # NoUrl

RInv == RepoTypeOK /\ RegisteredIsIndexed /\ \A c \in Callers : Known(c) /\ Ready(c)

LEMMA RInitially == Init => RInv
BY DEF Init, RInv, RepoTypeOK, RegisteredIsIndexed, Known, Ready, Registered, Content,
       NoEntries, Entries, Idle, At

\* What every step owes RInv: typed variables, indexes that stay, and for each
\* caller locals that are either as before or in order.
LEMMA Owed ==
    ASSUME RInv, RepoTypeOK',
           \A n \in Names : index[n] # NoUrl => index'[n] # NoUrl,
           \A n \in Registered(Content') : index'[n] # NoUrl,
           NEW c \in Callers, Known(c)', Ready(c)',
           \A d \in Callers \ {c} : call'[d] = call[d]
    PROVE  RInv'
<1>1. ASSUME NEW d \in Callers PROVE (Known(d) /\ Ready(d))'
  <2>1. CASE d = c
    BY <2>1
  <2>2. CASE d # c
    <3>1. call'[d] = call[d] /\ Known(d) /\ Ready(d)
      BY <2>2 DEF RInv
    <3>2. Known(d)'
      BY <3>1 DEF Known, Op, Registered
    <3>3. Ready(d)'
      <4>1. ASSUME At(d, "write") \/ At(d, "writing") PROVE Target(d) \subseteq Names
        BY <4>1, AtIsBusy, RequestType DEF RInv, Locals, Target
      <4>. QED
        BY <3>1, <4>1 DEF Ready, Op, Target, At
    <3>. QED
      BY <3>2, <3>3
  <2>. QED
    BY <2>1, <2>2
<1>. QED
  BY <1>1 DEF RInv, RegisteredIsIndexed

\* A caller that returns owes nothing.
LEMMA Returned ==
    ASSUME RepoTypeOK, NEW c \in Callers, Return(c)
    PROVE  /\ call' \in [Callers -> {Idle} \cup Locals]
           /\ call'[c] = Idle
           /\ Known(c)' /\ Ready(c)'
           /\ \A d \in Callers \ {c} : call'[d] = call[d]
<1>1. call'[c] = Idle
    BY DEF Return, RepoTypeOK
<1>. QED
    BY <1>1 DEF Return, RepoTypeOK, Known, Ready, At, Idle

\* A caller that goes on from loading has copied a file whose repositories are
\* indexed.
LEMMA Proceeded ==
    ASSUME RInv, NEW c \in Callers, At(c, "load"), UNCHANGED <<file, index>>,
           NEW pc \in {"download", "write"}, NEW todo \in SUBSET Names, Proceed(c, pc, todo),
           pc = "write" => Op(c) = "remove",
           Op(c) = "update" => todo \subseteq Registered(Content)
    PROVE  Known(c)' /\ Ready(c)'
<1>1. call'[c] = [pc |-> pc, request |-> call[c].request, loaded |-> Content, todo |-> todo]
    BY ProceedType DEF RInv
<1>2. \A n \in Registered(Content) : index'[n] # NoUrl
    BY DEF RInv, RegisteredIsIndexed
<1>. QED
    BY <1>1, <1>2 DEF Known, Ready, At, Op, Target

\* What a call writes lists indexed repositories only.
LEMMA CopyIndexed ==
    ASSUME NEW c \in Callers, call[c] \in Locals, call[c] # Idle, At(c, "writing"),
           Known(c), Ready(c)
    PROVE  \A n \in Registered(Changed(c)) : index[n] # NoUrl
<1>1. ASSUME NEW n \in Target(c), Changed(c)[n] # NoUrl, n \in Names PROVE index[n] # NoUrl
  <2>1. Op(c) = "add"
    BY <1>1, RequestType DEF Changed, Op, Target, Locals
  <2>. QED
    BY <1>1, <2>1 DEF Ready
<1>2. ASSUME NEW n \in Names \ Target(c), Changed(c)[n] # NoUrl PROVE index[n] # NoUrl
  BY <1>2 DEF Changed, Known, Registered
<1>. QED
  BY <1>1, <1>2 DEF Registered

LEMMA RStep == RInv /\ [Next]_vars => RInv'
<1> SUFFICES ASSUME RInv, [Next]_vars PROVE RInv'
  OBVIOUS
<1>t. RepoTypeOK
  BY DEF RInv
<1>i. \A n \in Registered(Content) : index[n] # NoUrl
  BY DEF RInv, RegisteredIsIndexed
<1>0. Content \in Entries
  BY <1>t, ContentType
<1>1. ASSUME NEW c \in Callers, NEW r \in Requests, Ask(c, r) PROVE RInv'
  <2> DEFINE l == [pc |-> "load", request |-> r, loaded |-> NoEntries, todo |-> {}]
  <2>1. l \in Locals
    BY DEF Locals, Entries, NoEntries
  <2>2. call'[c] = l /\ \A d \in Callers \ {c} : call'[d] = call[d]
    BY <1>1, <1>t DEF Ask, RepoTypeOK
  <2>3. RepoTypeOK'
    BY <1>1, <1>t, <2>1 DEF Ask, RepoTypeOK
  <2>4. (Known(c) /\ Ready(c))'
    BY <2>2 DEF Known, Ready, At, Op, Registered, NoEntries
  <2>. QED
    BY <1>1, <1>i, <2>2, <2>3, <2>4, Owed DEF Ask, Content
<1>2. ASSUME NEW c \in Callers, AddLoads(c) \/ RemoveLoads(c) \/ UpdateLoads(c) PROVE RInv'
  <2>1. At(c, "load") /\ UNCHANGED <<file, index, asked>>
    BY <1>2 DEF AddLoads, RemoveLoads, UpdateLoads
  <2>2. CASE Return(c)
    BY <1>t, <1>i, <2>1, <2>2, Returned, Owed DEF RepoTypeOK, Content
  <2>3. ASSUME NEW pc \in {"download", "write"}, NEW todo \in SUBSET Names, Proceed(c, pc, todo),
               pc = "write" => Op(c) = "remove",
               Op(c) = "update" => todo \subseteq Registered(Content)
        PROVE  RInv'
    <3>1. Known(c)' /\ Ready(c)'
      BY <2>1, <2>3, Proceeded
    <3>2. RepoTypeOK' /\ \A d \in Callers \ {c} : call'[d] = call[d]
      BY <1>t, <2>1, <2>3, ProceedType DEF RepoTypeOK
    <3>. QED
      BY <1>i, <2>1, <3>1, <3>2, Owed DEF Content
  <2>4. Target(c) \in SUBSET Names
    BY <1>t, <2>1, AtIsBusy, RequestType DEF Locals, Target
  <2>5. CASE AddLoads(c) /\ ~Return(c)
    BY <2>3, <2>4, <2>5 DEF AddLoads
  <2>6. CASE RemoveLoads(c) /\ ~Return(c)
    BY <2>3, <2>6 DEF RemoveLoads
  <2>7. CASE UpdateLoads(c) /\ ~Return(c)
    BY <2>3, <2>7 DEF UpdateLoads, Outdated, Registered
  <2>. QED
    BY <1>2, <2>2, <2>5, <2>6, <2>7
<1>3. ASSUME NEW c \in Callers, AddDownloads(c) PROVE RInv'
  <2>1. call[c] \in Locals /\ At(c, "download") /\ Op(c) = "add"
    BY <1>3, <1>t, AtIsBusy DEF AddDownloads
  <2>2. PICK n \in Target(c) : index' = [index EXCEPT ![n] = call[c].request.url]
    BY <1>3 DEF AddDownloads
  <2>3. Target(c) = {n} /\ n \in Names /\ call[c].request.url \in URLs
    BY <2>1, <2>2, RequestType DEF Locals, Target, Op
  <2>4. index'[n] # NoUrl /\ index' \in Entries
        /\ \A k \in Names : index[k] # NoUrl => index'[k] # NoUrl
    BY <1>t, <2>2, <2>3 DEF RepoTypeOK, Entries
  <2>5. /\ call'[c] = [call[c] EXCEPT !.pc = "write"]
        /\ \A d \in Callers \ {c} : call'[d] = call[d]
    BY <1>3, <1>t DEF AddDownloads, RepoTypeOK
  <2>6. /\ call'[c] \in Locals
        /\ call'[c].pc = "write"
        /\ call'[c].request = call[c].request
        /\ call'[c].loaded = call[c].loaded
        /\ call'[c].todo = call[c].todo
    BY <2>1, <2>5 DEF Locals
  <2>7. RepoTypeOK'
    BY <1>3, <1>t, <2>4, <2>6 DEF AddDownloads, RepoTypeOK
  <2>8. Known(c) /\ call[c] # Idle
    BY <1>t, <2>1, AtIsBusy DEF RInv
  <2>9. Known(c)'
    BY <2>1, <2>4, <2>6, <2>8 DEF Known, Op, Registered
  <2>10. Ready(c)'
    BY <2>1, <2>3, <2>4, <2>6 DEF Ready, Op, Target, At
  <2>. QED
    BY <1>3, <1>i, <2>4, <2>5, <2>7, <2>9, <2>10, Owed DEF AddDownloads, Content, Registered
<1>4. ASSUME NEW c \in Callers, NEW n \in Names, UpdateDownloads(c, n) PROVE RInv'
  <2>1. call[c] \in Locals /\ At(c, "download") /\ Op(c) = "update" /\ call[c] # Idle
    BY <1>4, <1>t, AtIsBusy DEF UpdateDownloads
  <2>2. Known(c)
    BY DEF RInv
  <2>3. call[c].loaded[n] \in URLs /\ call[c].loaded[n] # NoUrl
    BY <1>4, <2>1, <2>2 DEF UpdateDownloads, Known, Registered, Locals, Entries
  <2>4. /\ index' = [index EXCEPT ![n] = call[c].loaded[n]]
        /\ index' \in Entries
        /\ \A k \in Names : index[k] # NoUrl => index'[k] # NoUrl
    BY <1>4, <1>t, <2>3 DEF UpdateDownloads, RepoTypeOK, Entries
  <2>5. UNCHANGED <<file, asked>>
    BY <1>4, <1>t DEF UpdateDownloads, RepoTypeOK
  <2>6. \A k \in Registered(Content') : index'[k] # NoUrl
    BY <1>i, <2>4, <2>5 DEF Content, Registered
  <2>7. CASE Return(c)
    BY <1>t, <2>4, <2>5, <2>6, <2>7, Returned, Owed DEF RepoTypeOK
  <2>8. CASE call' = [call EXCEPT ![c].todo = @ \ {n}]
    <3>1. /\ call'[c] = [call[c] EXCEPT !.todo = @ \ {n}]
          /\ \A d \in Callers \ {c} : call'[d] = call[d]
      BY <1>t, <2>8 DEF RepoTypeOK
    <3>2. /\ call'[c] \in Locals
          /\ call'[c].pc = "download"
          /\ call'[c].request = call[c].request
          /\ call'[c].loaded = call[c].loaded
          /\ call'[c].todo = call[c].todo \ {n}
      BY <2>1, <3>1 DEF Locals, At
    <3>3. RepoTypeOK'
      BY <1>t, <2>4, <2>5, <2>8, <3>2 DEF RepoTypeOK
    <3>4. Known(c)'
      BY <2>1, <2>2, <2>4, <3>2 DEF Known, Op, Registered
    <3>5. Ready(c)'
      BY <3>2 DEF Ready, At
    <3>. QED
      BY <2>4, <2>6, <3>1, <3>3, <3>4, <3>5, Owed
  <2>. QED
    BY <1>4, <2>7, <2>8 DEF UpdateDownloads
<1>5. ASSUME NEW c \in Callers, WriteFile(c) PROVE RInv'
  <2>1. call[c] \in Locals /\ At(c, "writing") /\ call[c] # Idle /\ Known(c) /\ Ready(c)
    BY <1>5, <1>t, AtIsBusy DEF WriteFile, RInv, At
  <2>2. Changed(c) \in Entries
    BY <2>1, ChangedType
  <2>3. file' = Changed(c) /\ Content' = Changed(c)
    BY <1>5, <2>2, RepoAssumption DEF WriteFile, Content, Entries
  <2>4. \A n \in Registered(Changed(c)) : index[n] # NoUrl
    BY <2>1, CopyIndexed
  <2>5. Return(c) /\ UNCHANGED <<index, asked>>
    BY <1>5 DEF WriteFile
  <2>. QED
    BY <1>t, <2>2, <2>3, <2>4, <2>5, Returned, Owed DEF RepoTypeOK
<1>6. ASSUME NEW c \in Callers, Fail(c) PROVE RInv'
  <2>1. UNCHANGED <<file, index, asked>> /\ Return(c)
    BY <1>6 DEF Fail
  <2>. QED
    BY <1>t, <1>i, <2>1, Returned, Owed DEF RepoTypeOK, Content
<1>7. ASSUME NEW c \in Callers, WriteFileOpens(c) PROVE RInv'
  <2>1. call[c] \in Locals /\ At(c, "write") /\ call[c] # Idle /\ Known(c) /\ Ready(c)
    BY <1>7, <1>t, AtIsBusy DEF WriteFileOpens, RInv, At
  <2>2. /\ call'[c] = [call[c] EXCEPT !.pc = "writing"]
        /\ \A d \in Callers \ {c} : call'[d] = call[d]
    BY <1>7, <1>t DEF WriteFileOpens, RepoTypeOK
  <2>3. /\ call'[c] \in Locals
        /\ call'[c].pc = "writing"
        /\ call'[c].request = call[c].request
        /\ call'[c].loaded = call[c].loaded
        /\ call'[c].todo = call[c].todo
    BY <2>1, <2>2 DEF Locals
  <2>4. NoEntries \in Entries /\ NoEntries # Absent /\ Registered(NoEntries) = {}
    BY DEF NoEntries, Entries, Registered
  <2>5. RepoTypeOK' /\ Registered(Content') = {}
    BY <1>7, <1>t, <2>3, <2>4 DEF WriteFileOpens, RepoTypeOK, Content
  <2>6. index' = index
    BY <1>7 DEF WriteFileOpens
  <2>7. Known(c)'
    BY <2>1, <2>3, <2>6 DEF Known, Op, Registered
  <2>8. Ready(c)'
    BY <2>1, <2>3, <2>6 DEF Ready, Op, Target, At
  <2>. QED
    BY <2>2, <2>5, <2>6, <2>7, <2>8, Owed
<1>8. ASSUME NEW c \in Callers, WriteFails(c) PROVE RInv'
  <2>1. call[c] \in Locals /\ At(c, "writing") /\ call[c] # Idle /\ Known(c) /\ Ready(c)
    BY <1>8, <1>t, AtIsBusy DEF WriteFails, RInv, At
  <2>2. PICK names \in SUBSET Names :
            file' = Kept(Changed(c), names)
    BY <1>8 DEF WriteFails
  <2>3. file' \in Entries /\ Content' = file'
    BY <1>t, <2>1, <2>2, ChangedType, KeptType, RepoAssumption DEF Content, Entries, RepoTypeOK
  <2>4. Registered(Content') \subseteq Registered(Changed(c))
    BY <2>2, <2>3 DEF Registered, Kept
  <2>5. \A n \in Registered(Content') : index[n] # NoUrl
    BY <2>1, <2>4, CopyIndexed
  <2>6. Return(c) /\ UNCHANGED <<index, asked>>
    BY <1>8 DEF WriteFails
  <2>. QED
    BY <1>t, <2>3, <2>5, <2>6, Returned, Owed DEF RepoTypeOK
<1>9. CASE UNCHANGED vars
  BY <1>9 DEF vars, RInv, RepoTypeOK, RegisteredIsIndexed, Known, Ready, At, Op, Target,
              Content, Registered
<1>. QED
  BY <1>1, <1>2, <1>3, <1>4, <1>5, <1>6, <1>7, <1>8, <1>9 DEF Next

\* The file, the cache and the locals of the calls keep their types.
THEOREM RepoTypeCorrect == Spec => []RepoTypeOK
<1>1. RInv => RepoTypeOK
  BY DEF RInv
<1>. QED
  BY <1>1, RInitially, RStep, PTL DEF Spec

\* However many calls overlap, whatever updates they lose and whichever writes fail
\* half-way, the file lists no repository without a cached index.
THEOREM RegisteredHaveIndexes == Spec => []RegisteredIsIndexed
<1>1. RInv => RegisteredIsIndexed
  BY DEF RInv
<1>. QED
  BY <1>1, RInitially, RStep, PTL DEF Spec

===============================================================================

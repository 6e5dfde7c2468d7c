--------------------------- MODULE HelmClientProofs ---------------------------
(***************************************************************************)
(* Invariance and refinement proofs for HelmClient, for every set of calls  *)
(* and every value of its limits.                                          *)
(***************************************************************************)
EXTENDS HelmClient, FiniteSetTheorems, SequenceTheorems, TLAPS

Holders == {c \in Calls : pc[c] \in Holding}

\* A call still to be sent has made no progress through the retry layers.
Untouched(c) ==
    pc[c] \in {"idle", "queued", "admitted"} => attempts[c] = 0 /\ sent[c] = 0

\* How far each retry layer may be at each await.
LayersBounded(c) ==
    /\ pc[c] \in Holding => attempts[c] <= MaxReconnects
    /\ pc[c] = "retrying" => kind[c] = "read" /\ tries[c] < MaxAttempts
    /\ pc[c] # "done" => outcome[c] = "none"

\* At most MaxAttempts sends for every turn of the loop.
SendsInTurn(c) ==
    /\ pc[c] \in {"backoff", "closing", "connecting"} =>
          sent[c] <= attempts[c] * MaxAttempts
    /\ pc[c] \in {"calling", "retrying"} =>
          sent[c] <= attempts[c] * MaxAttempts + tries[c]
    /\ sent[c] <= (MaxReconnects + 1) * MaxAttempts

\* A mutating call that was sent can only end.
MutationInFlight(c) ==
    kind[c] = "mutate" =>
        /\ pc[c] \in {"admitted", "backoff", "closing", "connecting"} => sent[c] = 0
        /\ sent[c] <= 1
        /\ outcome[c] = "circuit_open" => sent[c] = 0

CallInv(c) ==
    /\ Untouched(c)
    /\ LayersBounded(c)
    /\ SendsInTurn(c)
    /\ MutationInFlight(c)

\* The inductive invariant.
IInv ==
    /\ TypeOK
    /\ PermitsAccounted
    /\ \A c \in Calls : CallInv(c)

\* What a step may do to the bookkeeping of a call that holds a permit.
Moved(c) ==
    \/ \E p \in Holding : At(c, p) /\ StillRunning
    \/ \E r \in Outcomes : Finish(c, r)

-------------------------------------------------------------------------------
(* Sequences and sets                                                       *)

LEMMA SeqExcept ==
    ASSUME NEW S, NEW s \in Seq(S), NEW k, NEW e \in S
    PROVE  /\ [s EXCEPT ![k] = e] \in Seq(S)
           /\ Len([s EXCEPT ![k] = e]) = Len(s)
<1> DEFINE t == [s EXCEPT ![k] = e]
<1>1. DOMAIN t = 1 .. Len(s) /\ Len(s) \in Nat
  OBVIOUS
<1>2. t \in [1 .. Len(s) -> S]
  BY LenProperties
<1>3. t \in Seq(S)
  BY <1>1, <1>2, SeqDef
<1>4. Len(t) = Len(s)
  BY <1>1, <1>3, LenProperties
<1> QED
  BY <1>3, <1>4

\* Leaving an object makes a state of an object.
LEMMA LeftTyped == \A state : Left(state) \in ClientStates
BY DEF Left, ClientStates

\* Leaving an object keeps the objects in their places.
LEMMA ClientLeft ==
    ASSUME NEW s \in Seq(ClientStates), NEW k
    PROVE  LET t == [s EXCEPT ![k] = Left(@)]
           IN  t \in Seq(ClientStates) /\ Len(t) = Len(s)
<1> DEFINE e == Left(s[k])
<1>1. e \in ClientStates
  BY LeftTyped
<1>2. [s EXCEPT ![k] = Left(@)] = [s EXCEPT ![k] = e]
  OBVIOUS
<1> HIDE DEF e
<1> QED
  BY <1>1, <1>2, SeqExcept

LEMMA HoldersFinite ==
    IsFiniteSet(Holders) /\ Cardinality(Holders) \in Nat
BY ClientAssumption, FS_Subset, FS_CardinalityType DEF Holders

\* Moving within the bulkhead, leaving it and entering it.
LEMMA HoldersMove ==
    ASSUME TypeOK, NEW c \in Calls, pc[c] \in Holding, NEW p \in Holding, At(c, p)
    PROVE  Holders' = Holders
BY DEF TypeOK, At, Holders, PCs

LEMMA HoldersLeave ==
    ASSUME TypeOK, NEW c \in Calls, pc[c] \in Holding, At(c, "done")
    PROVE  Holders' = Holders \ {c} /\ c \in Holders
BY DEF TypeOK, At, Holders, Holding

LEMMA HoldersEnter ==
    ASSUME TypeOK, NEW c \in Calls, pc[c] \notin Holding, At(c, "admitted")
    PROVE  Holders' = Holders \cup {c} /\ c \notin Holders
BY DEF TypeOK, At, Holders, Holding

-------------------------------------------------------------------------------
(* The bookkeeping of a step                                                *)

\* A step of a call inside the bulkhead keeps the types of pc, outcome and
\* permits, and keeps the permits accounted for.
LEMMA MovedPreserves ==
    ASSUME IInv, NEW c \in Calls, pc[c] \in Holding, Moved(c)
    PROVE  /\ pc' \in [Calls -> PCs]
           /\ outcome' \in [Calls -> Outcomes]
           /\ permits' \in 0 .. MaxConcurrent
           /\ PermitsAccounted'
           /\ \A d \in Calls \ {c} : pc'[d] = pc[d] /\ outcome'[d] = outcome[d]
<1> USE DEF IInv
<1>1. CASE \E p \in Holding : At(c, p) /\ StillRunning
  <2>1. PICK p \in Holding : At(c, p) /\ StillRunning
    BY <1>1
  <2>2. Holders' = Holders
    BY <2>1, HoldersMove
  <2>3. PermitsAccounted'
    BY <2>1, <2>2 DEF PermitsAccounted, Holders, StillRunning
  <2> QED
    BY <2>1, <2>3 DEF TypeOK, At, StillRunning, PCs
<1>2. CASE \E r \in Outcomes : Finish(c, r)
  <2>1. PICK r \in Outcomes : Finish(c, r)
    BY <1>2
  <2>2. Holders' = Holders \ {c} /\ c \in Holders
    BY <2>1, HoldersLeave DEF Finish
  <2>3. Cardinality(Holders') = Cardinality(Holders) - 1 /\ Cardinality(Holders') \in Nat
    BY <2>2, HoldersFinite, FS_RemoveElement, FS_CardinalityType
  <2>4. permits + Cardinality(Holders) = MaxConcurrent
    BY DEF PermitsAccounted, Holders
  <2>5. permits' = permits + 1
    BY <2>1 DEF Finish
  <2>6. permits' + Cardinality(Holders') = MaxConcurrent /\ permits' \in 0 .. MaxConcurrent
    BY <2>3, <2>4, <2>5, HoldersFinite, ClientAssumption DEF TypeOK
  <2>7. PermitsAccounted'
    BY <2>6 DEF PermitsAccounted, Holders
  <2> QED
    BY <2>1, <2>6, <2>7 DEF TypeOK, At, Finish, PCs
<1> QED
  BY <1>1, <1>2 DEF Moved

\* A step of c leaves every other call as it is.
Frame(c) ==
    \A d \in Calls \ {c} :
        /\ pc'[d] = pc[d] /\ outcome'[d] = outcome[d] /\ kind'[d] = kind[d]
        /\ attempts'[d] = attempts[d] /\ tries'[d] = tries[d] /\ sent'[d] = sent[d]

LEMMA FramePreserves ==
    ASSUME IInv, NEW c \in Calls, Frame(c)
    PROVE  \A d \in Calls \ {c} : CallInv(d)'
BY DEF IInv, Frame, CallInv, Untouched, LayersBounded, SendsInTurn, MutationInFlight

\* The breaker only takes its own values.
LEMMA BreakerTyped ==
    ASSUME TypeOK, BreakerSucceeded \/ BreakerFailed \/ UNCHANGED breakerVars
    PROVE  /\ breaker' \in {"closed", "open", "half_open"}
           /\ failures' \in 0 .. FailureThreshold
BY ClientAssumption DEF TypeOK, BreakerSucceeded, BreakerFailed, breakerVars

\* Putting a request on the wire, or finding no client to put it on.
LEMMA RawCallStep ==
    ASSUME IInv, NEW c \in Calls, RawCall(c)
    PROVE  /\ Moved(c)
           /\ BreakerSucceeded \/ BreakerFailed \/ UNCHANGED breakerVars
           /\ on' \in [Calls -> Nat]
           /\ \/ /\ pc'[c] = "calling" /\ outcome'[c] = outcome[c]
                 /\ sent' = [sent EXCEPT ![c] = @ + 1]
              \/ /\ pc'[c] = "done" /\ outcome'[c] = "connection_error"
                 /\ sent' = sent
<1> USE DEF IInv, TypeOK
<1>1. CASE client # NoClient
  <2>1. /\ At(c, "calling") /\ StillRunning /\ UNCHANGED breakerVars
        /\ on' = [on EXCEPT ![c] = client]
        /\ sent' = [sent EXCEPT ![c] = @ + 1]
    BY <1>1 DEF RawCall
  <2>2. Moved(c)
    BY <2>1 DEF Moved, Holding
  <2>3. client \in Nat
    BY LenProperties
  <2>4. pc'[c] = "calling" /\ outcome'[c] = outcome[c]
    BY <2>1 DEF At, StillRunning
  <2> QED
    BY <2>1, <2>2, <2>3, <2>4
<1>2. CASE client = NoClient
  <2>1. /\ Finish(c, "connection_error") /\ BreakerSucceeded
        /\ UNCHANGED <<on, sent>>
    BY <1>2 DEF RawCall
  <2>2. Moved(c)
    BY <2>1 DEF Moved, Outcomes
  <2>3. pc'[c] = "done" /\ outcome'[c] = "connection_error"
    BY <2>1 DEF Finish, At
  <2>4. on' = on /\ sent' = sent
    BY <2>1
  <2> QED
    BY <2>1, <2>2, <2>3, <2>4
<1> QED
  BY <1>1, <1>2

\* One turn of the try block.
LEMMA AttemptStep ==
    ASSUME IInv, NEW c \in Calls, Attempt(c)
    PROVE  /\ Moved(c)
           /\ BreakerSucceeded \/ BreakerFailed \/ UNCHANGED breakerVars
           /\ on' \in [Calls -> Nat]
           /\ \/ /\ pc'[c] = "calling" /\ outcome'[c] = outcome[c]
                 /\ sent' = [sent EXCEPT ![c] = @ + 1]
                 /\ tries' = [tries EXCEPT ![c] = 1]
              \/ /\ pc'[c] = "done" /\ outcome'[c] = "connection_error"
                 /\ sent' = sent /\ tries' = [tries EXCEPT ![c] = 1]
              \/ /\ pc'[c] = "done" /\ outcome'[c] = "circuit_open"
                 /\ sent' = sent /\ tries' = tries
<1>1. CASE breaker = "open"
  <2>1. Finish(c, "circuit_open") /\ UNCHANGED <<tries, on, sent, breakerVars>>
    BY <1>1 DEF Attempt
  <2> QED
    BY <2>1 DEF IInv, TypeOK, Moved, Finish, At, Outcomes
<1>2. CASE breaker # "open"
  BY <1>2, RawCallStep DEF Attempt
<1> QED
  BY <1>1, <1>2

LEMMA AttemptTyped ==
    ASSUME IInv, NEW c \in Calls, Attempt(c)
    PROVE  /\ sent' \in [Calls -> Nat]
           /\ tries' \in [Calls -> 0 .. MaxAttempts]
<1>1. sent' = [sent EXCEPT ![c] = @ + 1] \/ sent' = sent
  BY AttemptStep
<1>2. tries' = [tries EXCEPT ![c] = 1] \/ tries' = tries
  BY AttemptStep
<1>3. sent \in [Calls -> Nat] /\ tries \in [Calls -> 0 .. MaxAttempts]
  BY DEF IInv, TypeOK
<1>4. sent' \in [Calls -> Nat]
  BY <1>1, <1>3
<1>5. tries' \in [Calls -> 0 .. MaxAttempts]
  BY <1>2, <1>3, ClientAssumption
<1> QED
  BY <1>4, <1>5

\* The end of a turn that failed.
LEMMA NextTurnStep ==
    ASSUME IInv, NEW c \in Calls, pc[c] \in Holding, NextTurn(c)
    PROVE  /\ Moved(c)
           /\ attempts' = [attempts EXCEPT ![c] = @ + 1]
           /\ attempts' \in [Calls -> 0 .. MaxReconnects + 1]
           /\ \/ /\ pc'[c] = "backoff" /\ outcome'[c] = outcome[c]
                 /\ attempts'[c] <= MaxReconnects
              \/ /\ pc'[c] = "done" /\ outcome'[c] = "connection_error"
<1> USE ClientAssumption DEF IInv, TypeOK
<1>1. attempts[c] \in 0 .. MaxReconnects
  BY DEF CallInv, LayersBounded
<1>2. attempts' = [attempts EXCEPT ![c] = @ + 1]
  BY DEF NextTurn
<1>3. CASE attempts[c] + 1 > MaxReconnects
  <2>1. Finish(c, "connection_error")
    BY <1>3 DEF NextTurn
  <2>2. Moved(c)
    BY <2>1 DEF Moved, Outcomes
  <2> QED
    BY <1>1, <1>2, <2>1, <2>2 DEF Finish, At
<1>4. CASE ~(attempts[c] + 1 > MaxReconnects)
  BY <1>1, <1>2, <1>4 DEF NextTurn, Moved, StillRunning, At, Holding
<1> QED
  BY <1>3, <1>4

-------------------------------------------------------------------------------
(* What a step does to the invariant of the call that takes it              *)

LEMMA TurnBound ==
    ASSUME NEW a \in 0 .. MaxReconnects, NEW t \in 0 .. MaxAttempts
    PROVE  /\ a * MaxAttempts \in Nat
           /\ (a + 1) * MaxAttempts = a * MaxAttempts + MaxAttempts
           /\ a * MaxAttempts + t <= (MaxReconnects + 1) * MaxAttempts
           /\ MaxAttempts <= (MaxReconnects + 1) * MaxAttempts
<1> USE ClientAssumption
<1>1. (a + 1) * MaxAttempts = a * MaxAttempts + MaxAttempts /\ a * MaxAttempts \in Nat
  OBVIOUS
<1>2. (a + 1) * MaxAttempts <= (MaxReconnects + 1) * MaxAttempts
  OBVIOUS
<1>3. 1 * MaxAttempts <= (MaxReconnects + 1) * MaxAttempts
  OBVIOUS
<1>4. (MaxReconnects + 1) * MaxAttempts \in Nat
  OBVIOUS
<1> QED
  BY <1>1, <1>2, <1>3, <1>4

\* The counters of a call inside the bulkhead.
LEMMA InLoop ==
    ASSUME IInv, NEW c \in Calls, pc[c] \in Holding
    PROVE  /\ CallInv(c)
           /\ attempts[c] \in 0 .. MaxReconnects
           /\ tries[c] \in 0 .. MaxAttempts
           /\ sent[c] \in Nat
           /\ kind[c] \in Kinds
<1>1. CallInv(c)
  BY DEF IInv
<1>2. attempts[c] \in 0 .. MaxReconnects + 1 /\ attempts[c] <= MaxReconnects
  BY <1>1 DEF IInv, TypeOK, CallInv, LayersBounded
<1>3. tries[c] \in 0 .. MaxAttempts /\ sent[c] \in Nat /\ kind[c] \in Kinds
  BY DEF IInv, TypeOK
<1> QED
  BY <1>1, <1>2, <1>3, ClientAssumption

\* The call ends.
LEMMA EndsInv ==
    ASSUME IInv, NEW c \in Calls, TypeOK',
           pc'[c] = "done", sent'[c] = sent[c], kind' = kind,
           outcome'[c] = "circuit_open" => pc[c] \in {"admitted", "connecting"}
    PROVE  CallInv(c)'
BY DEF IInv, CallInv, Untouched, LayersBounded, SendsInTurn, MutationInFlight, Holding

\* The call is put on the wire.
LEMMA SendsInv ==
    ASSUME IInv, NEW c \in Calls, TypeOK',
           pc'[c] = "calling", sent' = [sent EXCEPT ![c] = @ + 1],
           kind' = kind, attempts' = attempts, outcome'[c] = outcome[c],
           \/ pc[c] \in {"admitted", "connecting"} /\ tries' = [tries EXCEPT ![c] = 1]
           \/ pc[c] = "retrying" /\ tries' = [tries EXCEPT ![c] = @ + 1]
    PROVE  CallInv(c)'
<1> DEFINE a == attempts[c]
<1>0. pc[c] \in Holding
  BY DEF Holding
<1>1. /\ CallInv(c) /\ a \in 0 .. MaxReconnects /\ sent[c] \in Nat
      /\ tries[c] \in 0 .. MaxAttempts /\ kind[c] \in Kinds
      /\ tries'[c] \in 0 .. MaxAttempts /\ sent'[c] = sent[c] + 1
  <2>1. sent'[c] = sent[c] + 1 /\ tries'[c] \in 0 .. MaxAttempts
    BY DEF IInv, TypeOK
  <2> QED
    BY <1>0, <2>1, InLoop
<1>2. /\ Untouched(c)' /\ LayersBounded(c)' /\ MutationInFlight(c)'
  BY <1>0, <1>1 DEF CallInv, Untouched, LayersBounded, MutationInFlight, Holding, Kinds
<1>3. sent'[c] <= a * MaxAttempts + tries'[c]
  <2>1. CASE pc[c] \in {"admitted", "connecting"}
    <3>1. sent[c] <= a * MaxAttempts
      BY <1>1, <2>1, TurnBound DEF CallInv, SendsInTurn, Untouched
    <3>2. tries'[c] = 1
      BY <2>1 DEF IInv, TypeOK
    <3> QED
      BY <1>1, <3>1, <3>2, TurnBound
  <2>2. CASE pc[c] = "retrying"
    <3>1. sent[c] <= a * MaxAttempts + tries[c]
      BY <1>1, <2>2 DEF CallInv, SendsInTurn
    <3>2. tries'[c] = tries[c] + 1
      BY <2>2 DEF IInv, TypeOK
    <3> QED
      BY <1>1, <3>1, <3>2, TurnBound
  <2> QED
    BY <2>1, <2>2
<1>4. sent'[c] <= (MaxReconnects + 1) * MaxAttempts
  <2>1. /\ a * MaxAttempts + tries'[c] <= (MaxReconnects + 1) * MaxAttempts
        /\ a * MaxAttempts \in Nat
    BY <1>1, TurnBound
  <2> QED
    BY <1>1, <1>3, <2>1, ClientAssumption
<1>5. SendsInTurn(c)'
  BY <1>3, <1>4 DEF SendsInTurn
<1> QED
  BY <1>2, <1>5 DEF CallInv

\* The call goes on with its reconnection.
LEMMA ReconnectsInv ==
    ASSUME IInv, NEW c \in Calls, TypeOK',
           pc[c] \in {"admitted", "backoff", "closing"},
           pc'[c] \in {"backoff", "closing", "connecting"},
           sent' = sent, kind' = kind, attempts' = attempts, outcome'[c] = outcome[c]
    PROVE  CallInv(c)'
<1>1. CallInv(c) /\ attempts[c] \in 0 .. MaxReconnects /\ sent[c] \in Nat
  BY InLoop DEF Holding
<1>2. sent[c] <= attempts[c] * MaxAttempts
  <2>1. CASE pc[c] = "admitted"
    BY <1>1, <2>1, ClientAssumption DEF CallInv, Untouched
  <2>2. CASE pc[c] # "admitted"
    BY <1>1, <2>2 DEF CallInv, SendsInTurn
  <2> QED
    BY <2>1, <2>2
<1> QED
  BY <1>1, <1>2 DEF CallInv, Untouched, LayersBounded, SendsInTurn, MutationInFlight, Holding

\* The call starts another turn of the loop.
LEMMA TurnsInv ==
    ASSUME IInv, NEW c \in Calls, TypeOK',
           \/ pc[c] \in {"backoff", "closing", "connecting"}
           \/ pc[c] = "calling" /\ kind[c] = "read",
           pc'[c] = "backoff", sent' = sent, kind' = kind, outcome'[c] = outcome[c],
           attempts' = [attempts EXCEPT ![c] = @ + 1], attempts'[c] <= MaxReconnects
    PROVE  CallInv(c)'
<1> DEFINE m == attempts[c] * MaxAttempts
<1>1. /\ CallInv(c) /\ attempts[c] \in 0 .. MaxReconnects /\ sent[c] \in Nat
      /\ tries[c] \in 0 .. MaxAttempts
  BY InLoop DEF Holding
<1>0. attempts'[c] = attempts[c] + 1 /\ sent'[c] = sent[c]
  BY DEF IInv, TypeOK
<1>2. m \in Nat /\ attempts'[c] * MaxAttempts = m + MaxAttempts
  BY <1>0, <1>1, TurnBound
<1>3. SendsInTurn(c)'
  <2>1. sent[c] <= m \/ sent[c] <= m + tries[c]
    BY <1>1 DEF CallInv, SendsInTurn
  <2> HIDE DEF m
  <2>2. sent[c] <= m + MaxAttempts
    BY <1>1, <1>2, <2>1, ClientAssumption
  <2>3. sent'[c] <= attempts'[c] * MaxAttempts
    BY <1>0, <1>2, <2>2
  <2> QED
    BY <1>0, <1>1, <2>3 DEF CallInv, SendsInTurn
<1>4. Untouched(c)' /\ LayersBounded(c)' /\ MutationInFlight(c)'
  BY <1>0, <1>1 DEF CallInv, Untouched, LayersBounded, MutationInFlight, Holding
<1> QED
  BY <1>3, <1>4 DEF CallInv

\* tenacity waits to replay a read-only call.
LEMMA WaitsInv ==
    ASSUME IInv, NEW c \in Calls, TypeOK', pc[c] = "calling", Replays(c),
           pc'[c] = "retrying", sent' = sent, kind' = kind, tries' = tries,
           attempts' = attempts, outcome'[c] = outcome[c]
    PROVE  CallInv(c)'
BY DEF IInv, CallInv, Untouched, LayersBounded, SendsInTurn, MutationInFlight,
       Holding, Replays

-------------------------------------------------------------------------------
(* One lemma per action                                                     *)

\* The variables the retry layers do not touch.
Aside == <<kind, reconnects, faults, shut>>

\* What is left to show for a step of a call inside the bulkhead.
LEMMA CallStepKeeps ==
    ASSUME IInv, NEW c \in Calls, pc[c] \in Holding, Moved(c), Frame(c),
           TypeOK' => CallInv(c)',
           kind' = kind,
           attempts' \in [Calls -> 0 .. MaxReconnects + 1],
           tries' \in [Calls -> 0 .. MaxAttempts],
           on' \in [Calls -> Nat],
           sent' \in [Calls -> Nat],
           reconnects' \in [Calls -> Nat],
           clients' \in Seq(ClientStates),
           client' \in 0 .. Len(clients'),
           connected' \in BOOLEAN,
           breaker' \in {"closed", "open", "half_open"},
           failures' \in 0 .. FailureThreshold,
           faults' \in 0 .. MaxFaults,
           shut' = shut
    PROVE  IInv'
<1>1. TypeOK' /\ PermitsAccounted'
  BY MovedPreserves DEF TypeOK, IInv
<1>2. \A d \in Calls : CallInv(d)'
  BY <1>1, FramePreserves
<1> QED
  BY <1>1, <1>2 DEF IInv

\* The other calls keep what a step of c does not name.
LEMMA FrameOf ==
    ASSUME IInv, NEW c \in Calls, pc[c] \in Holding, Moved(c), kind' = kind,
           \A d \in Calls \ {c} : attempts'[d] = attempts[d] /\ tries'[d] = tries[d]
                                  /\ sent'[d] = sent[d]
    PROVE  Frame(c)
BY MovedPreserves DEF Frame

LEMMA StartKeeps ==
    ASSUME IInv, NEW c \in Calls, Start(c)
    PROVE  IInv'
<1>1. TypeOK'
  BY DEF Start, At, IInv, TypeOK, PCs, historyVars, sharedVars, breakerVars
<1>2. Holders' = Holders
  BY DEF Start, At, Holders, Holding, IInv, TypeOK
<1>3. PermitsAccounted'
  BY <1>2 DEF Start, PermitsAccounted, Holders, IInv
<1>4. Frame(c)
  BY DEF Start, At, Frame, IInv, TypeOK, historyVars
<1>5. CallInv(c)'
  BY DEF Start, At, IInv, TypeOK, CallInv, Untouched, LayersBounded, SendsInTurn,
         MutationInFlight, Holding, historyVars
<1> QED
  BY <1>1, <1>3, <1>4, <1>5, FramePreserves DEF IInv

LEMMA AcquireKeeps ==
    ASSUME IInv, NEW c \in Calls, Acquire(c)
    PROVE  IInv'
<1>1. TypeOK'
  BY ClientAssumption DEF Acquire, At, IInv, TypeOK, PCs, Holding, historyVars,
     sharedVars, breakerVars
<1>2. Holders' = Holders \cup {c} /\ c \notin Holders
  BY HoldersEnter DEF Acquire, Holding, IInv
<1>3. PermitsAccounted'
  <2>1. Cardinality(Holders') = Cardinality(Holders) + 1
    BY <1>2, HoldersFinite, FS_AddElement
  <2>2. permits + Cardinality(Holders) = MaxConcurrent
    BY DEF PermitsAccounted, Holders, IInv
  <2>3. permits' = permits - 1 /\ permits \in Nat
    BY DEF Acquire, IInv, TypeOK
  <2>4. permits' + Cardinality(Holders') = MaxConcurrent
    BY <2>1, <2>2, <2>3, HoldersFinite
  <2> QED
    BY <2>4 DEF PermitsAccounted, Holders
<1>4. Frame(c)
  BY DEF Acquire, At, Frame, IInv, TypeOK, historyVars
<1>5. CallInv(c)'
  <2>1. attempts[c] = 0 /\ sent[c] = 0 /\ outcome[c] = "none"
    BY DEF Acquire, IInv, CallInv, Untouched, LayersBounded
  <2>2. 0 <= (MaxReconnects + 1) * MaxAttempts
    BY TurnBound, ClientAssumption
  <2> QED
    BY <2>1, <2>2, ClientAssumption
    DEF Acquire, At, IInv, TypeOK, CallInv, Untouched, LayersBounded, SendsInTurn,
        MutationInFlight, Holding, historyVars
<1> QED
  BY <1>1, <1>3, <1>4, <1>5, FramePreserves DEF IInv

LEMMA FirstTurnKeeps ==
    ASSUME IInv, NEW c \in Calls, FirstTurn(c)
    PROVE  IInv'
<1>1. /\ pc[c] = "admitted" /\ pc[c] \in Holding
      /\ UNCHANGED <<kind, attempts, reconnects, sharedVars, faults, shut>>
  BY DEF FirstTurn, Holding
<1>2. CASE Attempt(c)
  <2>1. Moved(c)
    BY <1>2, AttemptStep
  <2>2. sent' \in [Calls -> Nat] /\ tries' \in [Calls -> 0 .. MaxAttempts]
    BY <1>2, AttemptTyped
  <2>3. Frame(c)
    BY <1>1, <1>2, <2>1, AttemptStep, FrameOf DEF IInv, TypeOK
  <2>4. TypeOK' => CallInv(c)'
    BY <1>1, <1>2, AttemptStep, EndsInv, SendsInv
  <2> QED
    BY <1>1, <1>2, <2>1, <2>2, <2>3, <2>4, AttemptStep, BreakerTyped, CallStepKeeps
    DEF IInv, TypeOK, sharedVars
<1>3. CASE /\ At(c, "backoff") /\ StillRunning
           /\ UNCHANGED <<tries, on, sent, breakerVars>>
  <2>1. Moved(c)
    BY <1>3 DEF Moved, Holding
  <2>2. Frame(c)
    BY <1>1, <1>3, <2>1, FrameOf
  <2>3. TypeOK' => CallInv(c)'
    <3>1. pc'[c] = "backoff" /\ outcome'[c] = outcome[c]
      BY <1>3 DEF At, StillRunning, IInv, TypeOK
    <3> QED
      BY <1>1, <1>3, <3>1, ReconnectsInv
  <2> QED
    BY <1>1, <1>3, <2>1, <2>2, <2>3, BreakerTyped, CallStepKeeps
    DEF IInv, TypeOK, sharedVars
<1> QED
  BY <1>2, <1>3 DEF FirstTurn

LEMMA ReconnectCloseKeeps ==
    ASSUME IInv, NEW c \in Calls, ReconnectClose(c)
    PROVE  IInv'
<1>1. /\ pc[c] = "backoff" /\ pc[c] \in Holding
      /\ At(c, "closing") /\ StillRunning
      /\ UNCHANGED <<kind, attempts, tries, sent, client, connected, breakerVars, faults, shut>>
  BY DEF ReconnectClose, Holding
<1>2. clients' \in Seq(ClientStates) /\ Len(clients') = Len(clients)
  BY ClientLeft DEF ReconnectClose, IInv, TypeOK
<1>3. on' \in [Calls -> Nat] /\ reconnects' \in [Calls -> Nat]
  <2>1. client \in Nat
    BY LenProperties DEF IInv, TypeOK
  <2> QED
    BY <2>1 DEF ReconnectClose, IInv, TypeOK
<1>4. Moved(c)
  BY <1>1 DEF Moved, Holding
<1>5. Frame(c)
  BY <1>1, <1>4, FrameOf
<1>6. TypeOK' => CallInv(c)'
  <2>1. pc'[c] = "closing" /\ outcome'[c] = outcome[c]
    BY <1>1 DEF At, StillRunning, IInv, TypeOK
  <2> QED
    BY <1>1, <2>1, ReconnectsInv
<1> QED
  BY <1>1, <1>2, <1>3, <1>4, <1>5, <1>6, BreakerTyped, CallStepKeeps DEF IInv, TypeOK

LEMMA ReconnectCreateKeeps ==
    ASSUME IInv, NEW c \in Calls, ReconnectCreate(c)
    PROVE  IInv'
<1>1. /\ pc[c] \in {"backoff", "closing"} /\ pc[c] \in Holding
      /\ At(c, "connecting") /\ StillRunning
      /\ UNCHANGED <<kind, attempts, tries, sent, breakerVars, faults, shut>>
  BY DEF ReconnectCreate, Closed, Holding
<1>2. /\ clients' \in Seq(ClientStates) /\ client' \in 0 .. Len(clients')
      /\ Len(clients) + 1 \in Nat
  <2>1. clients \in Seq(ClientStates) /\ "created" \in ClientStates
    BY DEF IInv, TypeOK, ClientStates
  <2>2. clients' = Append(clients, "created") /\ client' = Len(clients) + 1
    BY DEF ReconnectCreate
  <2> QED
    BY <2>1, <2>2
<1>3. on' \in [Calls -> Nat] /\ reconnects' \in [Calls -> Nat] /\ connected' \in BOOLEAN
  <2>1. on' \in [Calls -> Nat]
    BY <1>2 DEF ReconnectCreate, IInv, TypeOK
  <2>2. reconnects' \in [Calls -> Nat]
    BY DEF ReconnectCreate, Closed, IInv, TypeOK
  <2>3. connected' \in BOOLEAN
    BY DEF ReconnectCreate, Closed, IInv, TypeOK
  <2> QED
    BY <2>1, <2>2, <2>3
<1>4. Moved(c)
  BY <1>1 DEF Moved, Holding
<1>5. Frame(c)
  BY <1>1, <1>4, FrameOf
<1>6. TypeOK' => CallInv(c)'
  <2>1. pc'[c] = "connecting" /\ outcome'[c] = outcome[c]
    BY <1>1 DEF At, StillRunning, IInv, TypeOK
  <2> QED
    BY <1>1, <2>1, ReconnectsInv
<1> QED
  BY <1>1, <1>2, <1>3, <1>4, <1>5, <1>6, BreakerTyped, CallStepKeeps DEF IInv, TypeOK

\* A turn that failed leaves the invariant of its call.
LEMMA TurnedInv ==
    ASSUME IInv, NEW c \in Calls, NextTurn(c), TypeOK', sent' = sent, kind' = kind,
           \/ pc[c] \in {"backoff", "closing", "connecting"}
           \/ pc[c] = "calling" /\ kind[c] = "read"
    PROVE  CallInv(c)'
<1>1. pc[c] \in Holding
  BY DEF Holding
<1> QED
  BY <1>1, NextTurnStep, EndsInv, TurnsInv

LEMMA ReconnectCreateFailsKeeps ==
    ASSUME IInv, NEW c \in Calls, ReconnectCreateFails(c)
    PROVE  IInv'
<1>1. /\ pc[c] \in {"backoff", "closing"} /\ pc[c] \in Holding
      /\ NextTurn(c) /\ client' = 0 /\ connected' = FALSE
      /\ UNCHANGED <<kind, tries, on, sent, clients, breakerVars, shut>>
  BY DEF ReconnectCreateFails, Holding, NoClient
<1>2. reconnects' \in [Calls -> Nat] /\ faults' \in 0 .. MaxFaults
  BY ClientAssumption DEF ReconnectCreateFails, IInv, TypeOK
<1>3. client' \in 0 .. Len(clients')
  BY <1>1, LenProperties DEF IInv, TypeOK
<1>4. Frame(c)
  BY <1>1, NextTurnStep, FrameOf DEF IInv, TypeOK
<1>5. TypeOK' => CallInv(c)'
  BY <1>1, TurnedInv
<1> QED
  BY <1>1, <1>2, <1>3, <1>4, <1>5, NextTurnStep, BreakerTyped, CallStepKeeps
  DEF IInv, TypeOK

LEMMA ReconnectEnteredKeeps ==
    ASSUME IInv, NEW c \in Calls, ReconnectEntered(c)
    PROVE  IInv'
<1>1. /\ pc[c] = "connecting" /\ pc[c] \in Holding
      /\ Attempt(c) /\ connected' = TRUE
      /\ UNCHANGED <<kind, attempts, reconnects, client, faults, shut>>
  BY DEF ReconnectEntered, Holding
<1>2. clients' \in Seq(ClientStates) /\ Len(clients') = Len(clients)
  <2> DEFINE e == IF clients[on[c]] \in {"leaving", "closed"} THEN clients[on[c]] ELSE "live"
  <2>1. clients' = [clients EXCEPT ![on[c]] = e]
    BY DEF ReconnectEntered
  <2>2. e \in ClientStates
    BY DEF ClientStates
  <2> HIDE DEF e
  <2> QED
    BY <2>1, <2>2, SeqExcept DEF IInv, TypeOK
<1>3. Frame(c)
  BY <1>1, AttemptStep, FrameOf DEF IInv, TypeOK
<1>4. TypeOK' => CallInv(c)'
  BY <1>1, AttemptStep, EndsInv, SendsInv
<1> QED
  BY <1>1, <1>2, <1>3, <1>4, AttemptStep, AttemptTyped, BreakerTyped, CallStepKeeps
  DEF IInv, TypeOK

LEMMA ReconnectEnterFailsKeeps ==
    ASSUME IInv, NEW c \in Calls, ReconnectEnterFails(c)
    PROVE  IInv'
<1>1. /\ pc[c] = "connecting" /\ pc[c] \in Holding
      /\ NextTurn(c) /\ connected' = FALSE
      /\ UNCHANGED <<kind, tries, on, sent, reconnects, client, breakerVars, shut>>
  BY DEF ReconnectEnterFails, Holding, historyVars
<1>2. clients' \in Seq(ClientStates) /\ Len(clients') = Len(clients)
  <2>1. clients \in Seq(ClientStates) /\ "dead" \in ClientStates
    BY DEF IInv, TypeOK, ClientStates
  <2>2. clients' = clients \/ clients' = [clients EXCEPT ![on[c]] = "dead"]
    BY DEF ReconnectEnterFails
  <2> QED
    BY <2>1, <2>2, SeqExcept
<1>3. faults' \in 0 .. MaxFaults
  BY ClientAssumption DEF ReconnectEnterFails, IInv, TypeOK
<1>4. Frame(c)
  BY <1>1, NextTurnStep, FrameOf DEF IInv, TypeOK
<1>5. TypeOK' => CallInv(c)'
  BY <1>1, TurnedInv
<1> QED
  BY <1>1, <1>2, <1>3, <1>4, <1>5, NextTurnStep, BreakerTyped, CallStepKeeps
  DEF IInv, TypeOK

\* The call returns or raises with a given result.
LEMMA FinishKeeps ==
    ASSUME IInv, NEW c \in Calls, pc[c] \in Holding,
           NEW r \in Outcomes, Finish(c, r), r # "circuit_open",
           UNCHANGED <<kind, attempts, tries, on, historyVars, faults, shut>>,
           BreakerSucceeded \/ BreakerFailed \/ UNCHANGED breakerVars,
           clients' = clients, client' \in 0 .. Len(clients'), connected' \in BOOLEAN
    PROVE  IInv'
<1>1. Moved(c)
  BY DEF Moved
<1>2. Frame(c)
  BY <1>1, FrameOf DEF historyVars
<1>3. TypeOK' => CallInv(c)'
  <2>1. pc'[c] = "done" /\ outcome'[c] = r
    BY DEF Finish, At, IInv, TypeOK
  <2> QED
    BY <2>1, EndsInv DEF historyVars
<1> QED
  BY <1>1, <1>2, <1>3, BreakerTyped, CallStepKeeps DEF IInv, TypeOK, historyVars

LEMMA ReplyKeeps ==
    ASSUME IInv, NEW c \in Calls, Reply(c)
    PROVE  IInv'
<1>1. PICK r \in {"ok", "tool_error"} : Finish(c, r)
  BY DEF Reply
<1>2. r \in Outcomes /\ r # "circuit_open" /\ pc[c] \in Holding
  BY DEF Reply, Outcomes, Holding
<1> QED
  BY <1>1, <1>2, FinishKeeps DEF Reply, IInv, TypeOK, sharedVars

LEMMA UnexpectedKeeps ==
    ASSUME IInv, NEW c \in Calls, Unexpected(c)
    PROVE  IInv'
<1>1. "unexpected" \in Outcomes /\ pc[c] \in Holding
  BY DEF Unexpected, Outcomes, Holding
<1> QED
  BY <1>1, FinishKeeps DEF Unexpected, IInv, TypeOK, sharedVars

\* tenacity takes over after an OSError.
LEMMA WaitKeeps ==
    ASSUME IInv, NEW c \in Calls, pc[c] = "calling", WaitToReplay(c),
           UNCHANGED <<kind, tries, on, historyVars, client, clients, faults, shut>>
    PROVE  IInv'
<1>1. /\ pc[c] \in Holding /\ At(c, "retrying") /\ StillRunning /\ Replays(c)
      /\ UNCHANGED <<attempts, connected, breakerVars>>
  BY DEF WaitToReplay, Holding
<1>2. Moved(c)
  BY <1>1 DEF Moved, Holding
<1>3. Frame(c)
  BY <1>1, <1>2, FrameOf DEF historyVars
<1>4. TypeOK' => CallInv(c)'
  <2>1. pc'[c] = "retrying" /\ outcome'[c] = outcome[c]
    BY <1>1 DEF At, StillRunning, IInv, TypeOK
  <2> QED
    BY <1>1, <2>1, WaitsInv DEF historyVars
<1> QED
  BY <1>1, <1>2, <1>3, <1>4, BreakerTyped, CallStepKeeps DEF IInv, TypeOK, historyVars

LEMMA ExpireKeeps ==
    ASSUME IInv, NEW c \in Calls, Expire(c)
    PROVE  IInv'
<1>1. /\ pc[c] = "calling" /\ pc[c] \in Holding
      /\ UNCHANGED <<kind, tries, on, historyVars, client, clients, faults, shut>>
  BY DEF Expire, Holding
<1>2. CASE WaitToReplay(c)
  BY <1>1, <1>2, WaitKeeps
<1>3. CASE BreakerFailed /\ Finish(c, "timeout") /\ UNCHANGED <<attempts, connected>>
  <2>1. "timeout" \in Outcomes
    BY DEF Outcomes
  <2> QED
    BY <1>1, <1>3, <2>1, FinishKeeps DEF IInv, TypeOK
<1> QED
  BY <1>2, <1>3 DEF Expire

LEMMA DisconnectKeeps ==
    ASSUME IInv, NEW c \in Calls, Disconnect(c)
    PROVE  IInv'
<1>1. /\ pc[c] = "calling" /\ pc[c] \in Holding
      /\ UNCHANGED <<kind, tries, on, historyVars, client, clients, faults, shut>>
  BY DEF Disconnect, Holding
<1>2. CASE WaitToReplay(c)
  BY <1>1, <1>2, WaitKeeps
<1>3. CASE /\ BreakerFailed /\ connected' = FALSE
           /\ Finish(c, "connection_error") /\ UNCHANGED attempts
  <2>1. "connection_error" \in Outcomes
    BY DEF Outcomes
  <2> QED
    BY <1>1, <1>3, <2>1, FinishKeeps DEF IInv, TypeOK
<1>4. CASE BreakerFailed /\ connected' = FALSE /\ kind[c] = "read" /\ NextTurn(c)
  <2>1. Frame(c)
    BY <1>1, <1>4, NextTurnStep, FrameOf DEF IInv, TypeOK, historyVars
  <2>2. TypeOK' => CallInv(c)'
    BY <1>1, <1>4, TurnedInv DEF historyVars
  <2> QED
    BY <1>1, <1>4, <2>1, <2>2, NextTurnStep, BreakerTyped, CallStepKeeps
    DEF IInv, TypeOK, historyVars
<1> QED
  BY <1>2, <1>3, <1>4 DEF Disconnect

LEMMA ReplayKeeps ==
    ASSUME IInv, NEW c \in Calls, Replay(c)
    PROVE  IInv'
<1>1. /\ pc[c] = "retrying" /\ pc[c] \in Holding /\ RawCall(c)
      /\ tries' = [tries EXCEPT ![c] = @ + 1]
      /\ UNCHANGED <<kind, attempts, reconnects, sharedVars, faults, shut>>
  BY DEF Replay, Holding
<1>2. sent' \in [Calls -> Nat]
  <2>1. sent \in [Calls -> Nat] /\ (sent' = [sent EXCEPT ![c] = @ + 1] \/ sent' = sent)
    BY <1>1, RawCallStep DEF IInv, TypeOK
  <2> QED
    BY <2>1
<1>3. tries' \in [Calls -> 0 .. MaxAttempts]
  <2>1. tries[c] < MaxAttempts /\ tries \in [Calls -> 0 .. MaxAttempts]
    BY <1>1 DEF IInv, TypeOK, CallInv, LayersBounded
  <2> QED
    BY <1>1, <2>1, ClientAssumption
<1>4. Frame(c)
  BY <1>1, RawCallStep, FrameOf DEF IInv, TypeOK
<1>5. TypeOK' => CallInv(c)'
  BY <1>1, RawCallStep, EndsInv, SendsInv
<1> QED
  BY <1>1, <1>2, <1>3, <1>4, <1>5, RawCallStep, BreakerTyped, CallStepKeeps
  DEF IInv, TypeOK, sharedVars

LEMMA CancelKeeps ==
    ASSUME IInv, NEW c \in Calls, Cancel(c)
    PROVE  IInv'
<1>1. UNCHANGED <<kind, attempts, tries, on, historyVars, faults, shut>>
  BY DEF Cancel
<1>2. CASE /\ pc[c] = "queued" /\ At(c, "done")
           /\ outcome' = [outcome EXCEPT ![c] = "cancelled"]
           /\ UNCHANGED <<permits, sharedVars, breakerVars>>
  <2>1. TypeOK'
    BY <1>1, <1>2 DEF At, IInv, TypeOK, PCs, Outcomes, historyVars, sharedVars, breakerVars
  <2>2. Holders' = Holders
    BY <1>2 DEF At, Holders, Holding, IInv, TypeOK
  <2>3. PermitsAccounted'
    BY <1>2, <2>2 DEF PermitsAccounted, Holders, IInv
  <2>4. Frame(c)
    BY <1>1, <1>2 DEF At, Frame, IInv, TypeOK, historyVars
  <2>5. CallInv(c)'
    <3>1. pc'[c] = "done" /\ outcome'[c] = "cancelled"
      BY <1>2 DEF At, IInv, TypeOK
    <3> QED
      BY <1>1, <2>1, <3>1, EndsInv DEF historyVars
  <2> QED
    BY <2>1, <2>3, <2>4, <2>5, FramePreserves DEF IInv
<1>3. CASE /\ pc[c] \in Holding /\ Finish(c, "cancelled")
           /\ BreakerSucceeded \/ BreakerFailed \/ UNCHANGED breakerVars
           /\ clients' = clients
           /\ \/ UNCHANGED <<client, connected>>
              \/ client' = NoClient /\ connected' = FALSE
  <2>1. "cancelled" \in Outcomes
    BY DEF Outcomes
  <2>2. client' \in 0 .. Len(clients') /\ connected' \in BOOLEAN
    <3>1. clients \in Seq(ClientStates) /\ client \in 0 .. Len(clients) /\ connected \in BOOLEAN
      BY DEF IInv, TypeOK
    <3>2. Len(clients) \in Nat /\ 0 \in 0 .. Len(clients)
      BY <3>1, LenProperties
    <3> QED
      BY <1>3, <3>1, <3>2 DEF NoClient
  <2> QED
    BY <1>1, <1>3, <2>1, <2>2, FinishKeeps
<1> QED
  BY <1>2, <1>3 DEF Cancel, Holding, sharedVars

LEMMA EnvironmentKeeps ==
    ASSUME IInv, BreakerRecovers \/ Crash \/ SubprocessEnds \/ Shutdown \/ UNCHANGED vars
    PROVE  IInv'
<1>1. UNCHANGED <<callVars, historyVars, permits>>
  BY DEF BreakerRecovers, Crash, SubprocessEnds, Shutdown, vars
<1>2. /\ clients' \in Seq(ClientStates) /\ client' \in 0 .. Len(clients')
      /\ connected' \in BOOLEAN
  <2>1. CASE clients' = clients /\ UNCHANGED <<client, connected>>
    BY <2>1 DEF IInv, TypeOK
  <2>2. CASE Crash \/ SubprocessEnds
    <3>1. PICK k \in 1 .. Len(clients), s \in {"dead", "closed"} :
             clients' = [clients EXCEPT ![k] = s]
      BY <2>2 DEF Crash, SubprocessEnds
    <3>2. clients \in Seq(ClientStates) /\ s \in ClientStates
      BY DEF IInv, TypeOK, ClientStates
    <3>3. clients' \in Seq(ClientStates) /\ Len(clients') = Len(clients)
      BY <3>1, <3>2, SeqExcept
    <3> QED
      BY <2>2, <3>3 DEF Crash, SubprocessEnds, IInv, TypeOK
  <2>3. CASE /\ clients' = [clients EXCEPT ![client] = Left(@)]
             /\ client' = NoClient /\ connected' = FALSE
    <3>1. clients \in Seq(ClientStates)
      BY DEF IInv, TypeOK
    <3>2. clients' \in Seq(ClientStates) /\ Len(clients') = Len(clients)
      BY <2>3, <3>1, ClientLeft
    <3> QED
      <4>1. Len(clients) \in Nat /\ 0 \in 0 .. Len(clients)
        BY <3>1, LenProperties
      <4> QED
        BY <2>3, <3>2, <4>1 DEF NoClient
  <2> QED
    BY <2>1, <2>2, <2>3 DEF BreakerRecovers, Shutdown, vars, sharedVars
<1>3. breaker' \in {"closed", "open", "half_open"} /\ failures' \in 0 .. FailureThreshold
  BY DEF BreakerRecovers, Crash, SubprocessEnds, Shutdown, vars, breakerVars, IInv, TypeOK
<1>4. faults' \in 0 .. MaxFaults /\ shut' \in BOOLEAN
  <2>1. faults' = faults \/ (faults < MaxFaults /\ faults' = faults + 1)
    BY DEF BreakerRecovers, Crash, SubprocessEnds, Shutdown, vars
  <2>2. shut' = shut \/ shut' = TRUE
    BY DEF BreakerRecovers, Crash, SubprocessEnds, Shutdown, vars
  <2>3. faults \in 0 .. MaxFaults /\ shut \in BOOLEAN
    BY DEF IInv, TypeOK
  <2>4. faults' \in 0 .. MaxFaults
    BY <2>1, <2>3, ClientAssumption
  <2> QED
    BY <2>2, <2>3, <2>4
<1>5. TypeOK'
  BY <1>1, <1>2, <1>3, <1>4 DEF IInv, TypeOK, callVars, historyVars
<1>6. PermitsAccounted'
  BY <1>1 DEF IInv, PermitsAccounted, callVars
<1>7. \A c \in Calls : CallInv(c)'
  BY <1>1 DEF IInv, CallInv, Untouched, LayersBounded, SendsInTurn, MutationInFlight,
         callVars, historyVars
<1> QED
  BY <1>5, <1>6, <1>7 DEF IInv

-------------------------------------------------------------------------------
(* The inductive invariant                                                  *)

LEMMA InitInv == Init => IInv
<1> SUFFICES ASSUME Init PROVE IInv
  OBVIOUS
<1>1. TypeOK
  <2>1. <<"live">> \in Seq(ClientStates) /\ Len(<<"live">>) = 1
    BY DEF ClientStates
  <2>2. pc \in [Calls -> PCs] /\ outcome \in [Calls -> Outcomes]
    BY DEF Init, PCs, Outcomes
  <2>3. attempts \in [Calls -> 0 .. MaxReconnects + 1] /\ tries \in [Calls -> 0 .. MaxAttempts]
    BY ClientAssumption DEF Init
  <2>4. permits \in 0 .. MaxConcurrent /\ failures \in 0 .. FailureThreshold
        /\ faults \in 0 .. MaxFaults
    BY ClientAssumption DEF Init
  <2>5. /\ kind \in [Calls -> Kinds] /\ sent \in [Calls -> Nat]
        /\ reconnects \in [Calls -> Nat] /\ on \in [Calls -> Nat]
        /\ breaker \in {"closed", "open", "half_open"} /\ shut \in BOOLEAN
    BY DEF Init, Kinds, NoClient
  <2>6. /\ clients \in Seq(ClientStates) /\ client \in 0 .. Len(clients)
        /\ connected \in BOOLEAN
    BY <2>1 DEF Init
  <2> QED
    BY <2>2, <2>3, <2>4, <2>5, <2>6 DEF TypeOK
<1>2. PermitsAccounted
  <2>1. {c \in Calls : pc[c] \in Holding} = {}
    BY DEF Init, Holding
  <2> QED
    BY <2>1, FS_EmptySet, ClientAssumption DEF Init, PermitsAccounted
<1>3. ASSUME NEW c \in Calls PROVE CallInv(c)
  <2>1. 0 <= (MaxReconnects + 1) * MaxAttempts
    BY TurnBound, ClientAssumption
  <2> QED
    BY <2>1, ClientAssumption DEF Init, CallInv, Untouched, LayersBounded, SendsInTurn,
       MutationInFlight, Holding
<1> QED
  BY <1>1, <1>2, <1>3 DEF IInv

LEMMA NextInv == IInv /\ [Next]_vars => IInv'
<1> SUFFICES ASSUME IInv, [Next]_vars PROVE IInv'
  OBVIOUS
<1>1. ASSUME NEW c \in Calls, Start(c) \/ Progress(c) \/ Handshake(c) \/ Cancel(c)
      PROVE  IInv'
  BY <1>1, StartKeeps, AcquireKeeps, FirstTurnKeeps, ReconnectCloseKeeps,
     ReconnectCreateKeeps, ReconnectCreateFailsKeeps, ReconnectEnteredKeeps,
     ReconnectEnterFailsKeeps, ReplyKeeps, ExpireKeeps, DisconnectKeeps,
     UnexpectedKeeps, ReplayKeeps, CancelKeeps
  DEF Progress, Handshake
<1>2. CASE BreakerRecovers \/ Crash \/ SubprocessEnds \/ Shutdown \/ UNCHANGED vars
  BY <1>2, EnvironmentKeeps
<1>3. CASE Terminated
  BY <1>3, EnvironmentKeeps DEF Terminated
<1> QED
  BY <1>1, <1>2, <1>3 DEF Next

THEOREM Inductive == Spec => []IInv
BY InitInv, NextInv, PTL DEF Spec

\* Every variable keeps its type, for every number of calls and every limit:
\* the semaphore never exceeds the bulkhead's size, the loop and tenacity
\* counters never exceed theirs, self._client is None or an object made so far.
THEOREM TypeCorrect == Spec => []TypeOK
<1>1. IInv => TypeOK
  BY DEF IInv
<1> QED
  BY <1>1, Inductive, PTL

\* No permit of the bulkhead is lost or given back twice, on any way out of any
\* call (tools.py 489-491).
THEOREM PermitsAreAccounted == Spec => []PermitsAccounted
<1>1. IInv => PermitsAccounted
  BY DEF IInv
<1> QED
  BY <1>1, Inductive, PTL

\* A call to a tool that changes state is put on the wire at most once,
\* whatever the other calls, the subprocess and the retry layers do
\* (tools.py 363-365, 434-440).
THEOREM MutationIsSentOnce == Spec => []MutationSentOnce
<1>1. IInv => MutationSentOnce
  BY DEF IInv, CallInv, MutationInFlight, MutationSentOnce
<1> QED
  BY <1>1, Inductive, PTL

\* The two retry layers multiply and nothing else does: a call is put on the
\* wire at most (MaxReconnects + 1) * MaxAttempts times (tools.py 366-377, 390).
THEOREM SendsAreBounded == Spec => []SendsBounded
<1>1. IInv => SendsBounded
  BY DEF IInv, CallInv, SendsInTurn, SendsBounded
<1> QED
  BY <1>1, Inductive, PTL

\* A mutating call that the breaker refused was not sent before, so that it is
\* safe to make again (tools.py 407-421).
THEOREM RefusedIsNotSent == Spec => []RefusedWasNotSent
<1>1. IInv => RefusedWasNotSent
  BY DEF IInv, CallInv, MutationInFlight, RefusedWasNotSent
<1> QED
  BY <1>1, Inductive, PTL

-------------------------------------------------------------------------------
(* Reconnections: one for every turn of the loop, and one more for a call   *)
(* that finds the client disconnected at its start                          *)

InTurn(c) ==
    /\ pc[c] \in {"idle", "queued", "admitted"} => reconnects[c] = 0
    /\ pc[c] = "backoff" => reconnects[c] <= attempts[c]
    /\ pc[c] \in Holding => reconnects[c] <= attempts[c] + 1
    /\ reconnects[c] <= MaxReconnects + 1

\* The turn after an attempt, whatever the turn has done.
LEMMA NextTurnReconnects ==
    ASSUME IInv, NEW c \in Calls, pc[c] \in Holding, NextTurn(c), reconnects'[c] \in Nat,
           reconnects'[c] <= attempts[c] + 1
    PROVE  InTurn(c)'
<1>1. /\ attempts[c] \in Nat /\ attempts[c] <= MaxReconnects /\ MaxReconnects \in Nat
      /\ attempts'[c] = attempts[c] + 1
  BY ClientAssumption DEF IInv, TypeOK, CallInv, LayersBounded, NextTurn
<1>2. \/ attempts[c] + 1 > MaxReconnects /\ pc'[c] = "done"
      \/ ~(attempts[c] + 1 > MaxReconnects) /\ pc'[c] = "backoff"
  BY DEF IInv, TypeOK, NextTurn, Finish, At
<1>3. reconnects'[c] <= attempts'[c] /\ reconnects'[c] <= MaxReconnects + 1
  BY <1>1
<1> QED
  BY <1>1, <1>2, <1>3 DEF InTurn, Holding

\* A step that neither takes a turn nor reconnects.
LEMMA SameTurn ==
    ASSUME IInv, NEW c \in Calls, InTurn(c), UNCHANGED <<attempts, reconnects>>,
           pc'[c] \in {"idle", "queued", "admitted"} =>
              pc[c] \in {"idle", "queued", "admitted"},
           pc'[c] = "backoff" => pc[c] \in {"admitted", "backoff"},
           pc'[c] \in Holding => pc[c] \in Holding \cup {"queued"}
    PROVE  InTurn(c)'
BY DEF IInv, TypeOK, InTurn, Holding

LEMMA ReconnectsStep ==
    ASSUME IInv, \A c \in Calls : InTurn(c), [Next]_vars
    PROVE  \A c \in Calls : InTurn(c)'
<1> USE DEF IInv
<1>1. ASSUME NEW c \in Calls, Start(c) \/ Progress(c) \/ Handshake(c) \/ Cancel(c)
      PROVE  InTurn(c)' /\ \A d \in Calls \ {c} : InTurn(d)'
  <2>1. \A d \in Calls \ {c} :
            pc'[d] = pc[d] /\ attempts'[d] = attempts[d] /\ reconnects'[d] = reconnects[d]
    BY <1>1 DEF Start, Progress, Handshake, Cancel, Acquire, FirstTurn, ReconnectClose,
       ReconnectCreate, Closed, ReconnectCreateFails, ReconnectEntered, ReconnectEnterFails,
       Reply, Expire, Disconnect, Unexpected, Replay, WaitToReplay, NextTurn, Attempt,
       RawCall, Finish, At, historyVars, TypeOK
  <2>2. \A d \in Calls \ {c} : InTurn(d)'
    BY <2>1 DEF InTurn
  <2>3. InTurn(c) /\ reconnects[c] \in Nat /\ attempts[c] \in Nat /\ MaxReconnects \in Nat
    BY ClientAssumption DEF TypeOK
  <2>4. pc[c] \in Holding => attempts[c] <= MaxReconnects
    BY DEF CallInv, LayersBounded
  <2>5. CASE ReconnectClose(c) \/ ReconnectCreate(c)
    <3>1. attempts' = attempts /\ pc[c] \in {"backoff", "closing"}
      BY <2>5 DEF ReconnectClose, ReconnectCreate, Closed
    <3>2. pc'[c] \in {"closing", "connecting"}
      BY <2>5 DEF ReconnectClose, ReconnectCreate, At, TypeOK
    <3>3. \/ pc[c] = "backoff" /\ reconnects'[c] = reconnects[c] + 1
          \/ pc[c] = "closing" /\ reconnects'[c] = reconnects[c]
      BY <2>5 DEF ReconnectClose, ReconnectCreate, Closed, TypeOK
    <3>4. reconnects'[c] <= attempts[c] + 1
      BY <2>3, <3>1, <3>3 DEF InTurn, Holding
    <3>5. reconnects'[c] <= attempts'[c] + 1 /\ reconnects'[c] <= MaxReconnects + 1
      <4>1. attempts[c] <= MaxReconnects /\ reconnects'[c] \in Nat
        BY <2>3, <2>4, <3>1, <3>3 DEF Holding
      <4> QED
        BY <2>3, <3>1, <3>4, <4>1
    <3>6. InTurn(c)'
      BY <3>2, <3>5 DEF InTurn
    <3> QED
      BY <2>2, <3>6
  <2>6. CASE ReconnectCreateFails(c)
    <3>1. NextTurn(c) /\ pc[c] \in {"backoff", "closing"}
      BY <2>6 DEF ReconnectCreateFails
    <3>2. \/ pc[c] = "backoff" /\ reconnects'[c] = reconnects[c] + 1
          \/ pc[c] = "closing" /\ reconnects'[c] = reconnects[c]
      BY <2>6 DEF ReconnectCreateFails, TypeOK
    <3>3. reconnects'[c] \in Nat /\ reconnects'[c] <= attempts[c] + 1
      BY <2>3, <3>2 DEF InTurn, Holding
    <3> QED
      BY <2>2, <3>1, <3>3, NextTurnReconnects DEF Holding
  <2>7. CASE (ReconnectEnterFails(c) \/ Disconnect(c)) /\ NextTurn(c)
    <3>1. reconnects' = reconnects /\ pc[c] \in Holding
      BY <2>7 DEF ReconnectEnterFails, Disconnect, historyVars, Holding
    <3>2. reconnects'[c] \in Nat /\ reconnects'[c] <= attempts[c] + 1
      BY <2>3, <3>1 DEF InTurn
    <3> QED
      BY <2>2, <2>7, <3>1, <3>2, NextTurnReconnects
  <2>8. CASE ~NextTurn(c) /\ ~ReconnectClose(c) /\ ~ReconnectCreate(c)
    <3>1. UNCHANGED <<attempts, reconnects>>
      BY <1>1, <2>8 DEF Start, Progress, Handshake, Cancel, Acquire, FirstTurn,
         ReconnectCreateFails, ReconnectEntered, ReconnectEnterFails, Reply, Expire,
         Disconnect, Unexpected, Replay, WaitToReplay, historyVars
    <3>2. /\ pc'[c] \in {"idle", "queued", "admitted"} =>
                pc[c] \in {"idle", "queued", "admitted"}
          /\ pc'[c] = "backoff" => pc[c] \in {"admitted", "backoff"}
          /\ pc'[c] \in Holding => pc[c] \in Holding \cup {"queued"}
      BY <1>1, <2>8 DEF Start, Progress, Handshake, Cancel, Acquire, FirstTurn,
         ReconnectCreateFails, ReconnectEntered, ReconnectEnterFails, Reply, Expire,
         Disconnect, Unexpected, Replay, WaitToReplay, Attempt, RawCall, Finish, At,
         TypeOK, Holding
    <3> QED
      BY <2>2, <2>3, <3>1, <3>2, SameTurn
  <2> QED
    BY <1>1, <2>5, <2>6, <2>7, <2>8 DEF Progress, Handshake, Start, Cancel, Acquire,
       FirstTurn, Reply, Expire, WaitToReplay, Unexpected, Replay, ReconnectEntered,
       NextTurn, TypeOK
<1>2. CASE \/ BreakerRecovers \/ Crash \/ SubprocessEnds \/ Shutdown
         \/ Terminated \/ UNCHANGED vars
  <2>1. UNCHANGED <<pc, attempts, reconnects>>
    BY <1>2 DEF BreakerRecovers, Crash, SubprocessEnds, Shutdown, Terminated, vars,
       callVars, historyVars
  <2> QED
    BY <2>1 DEF InTurn
<1> QED
  BY <1>1, <1>2 DEF Next

\* However the calls close and replace each other's client, no call reconnects
\* more often than its loop has turns (tools.py 390-393, 440-454).
THEOREM ReconnectsAreBounded == Spec => []ReconnectsBounded
<1>1. Init => \A c \in Calls : InTurn(c)
  BY ClientAssumption DEF Init, InTurn, Holding
<1>2. IInv /\ (\A c \in Calls : InTurn(c)) /\ [Next]_vars => (\A c \in Calls : InTurn(c))'
  BY ReconnectsStep
<1>3. (\A c \in Calls : InTurn(c)) => ReconnectsBounded
  BY DEF InTurn, ReconnectsBounded
<1> QED
  BY <1>1, <1>2, <1>3, Inductive, PTL DEF Spec

\* The reconnections that have got as far as making a client object.
Remade ==
    {p \in Calls \X (1 .. MaxReconnects + 1) :
        /\ p[2] <= reconnects[p[1]]
        /\ ~(pc[p[1]] = "closing" /\ p[2] = reconnects[p[1]])}

\* Each client object but the first stands for one of them.
ObjectsCounted ==
    /\ Len(clients) <= 1 + Cardinality(Remade)
    /\ \A c \in Calls : pc[c] = "closing" => reconnects[c] >= 1

\* The first client object, and at most one for every turn of every call's loop.
SubprocessesBounded == Len(clients) <= 1 + Cardinality(Calls) * (MaxReconnects + 1)

\* There are no more of them than turns of all the calls' loops.
LEMMA RemadeFinite ==
    /\ IsFiniteSet(Remade)
    /\ Cardinality(Remade) \in Nat
    /\ Cardinality(Remade) <= Cardinality(Calls) * (MaxReconnects + 1)
<1> DEFINE turns == 1 .. MaxReconnects + 1
<1>1. IsFiniteSet(turns) /\ Cardinality(turns) = MaxReconnects + 1
  <2>1. MaxReconnects + 1 \in Nat /\ 1 \in Int /\ MaxReconnects + 1 \in Int
    BY ClientAssumption
  <2> QED
    BY <2>1, FS_Interval
<1>2. /\ IsFiniteSet(Calls \X turns)
      /\ Cardinality(Calls \X turns) = Cardinality(Calls) * (MaxReconnects + 1)
  BY <1>1, ClientAssumption, FS_Product
<1>3. Remade \subseteq Calls \X turns
  BY DEF Remade
<1> QED
  BY <1>2, <1>3, FS_Subset, FS_CardinalityType

\* The same after a step.
LEMMA RemadeFiniteNext == (IsFiniteSet(Remade) /\ Cardinality(Remade) \in Nat)'
BY RemadeFinite, PTL

\* A step that makes no client object.
LEMMA NoObjectMade ==
    ASSUME IInv, ObjectsCounted, Len(clients') = Len(clients),
           \A c \in Calls :
              /\ reconnects'[c] \in Nat /\ reconnects'[c] >= reconnects[c]
              /\ pc'[c] = "closing" =>
                    \/ pc[c] = "closing" /\ reconnects'[c] = reconnects[c]
                    \/ reconnects'[c] = reconnects[c] + 1
    PROVE  ObjectsCounted'
<1>1. \A c \in Calls : reconnects[c] \in Nat
  BY DEF IInv, TypeOK
<1>2. Remade \subseteq Remade'
  <2> SUFFICES ASSUME NEW p \in Remade PROVE p \in Remade'
    OBVIOUS
  <2> DEFINE c == p[1]
  <2>1. /\ p \in Calls \X (1 .. MaxReconnects + 1) /\ c \in Calls /\ p[2] \in Nat
        /\ p[2] <= reconnects[c] /\ ~(pc[c] = "closing" /\ p[2] = reconnects[c])
    BY ClientAssumption DEF Remade
  <2>2. p[2] <= reconnects'[c] /\ ~(pc'[c] = "closing" /\ p[2] = reconnects'[c])
    <3> HIDE DEF c
    <3> QED
      BY <1>1, <2>1
  <2> QED
    BY <2>1, <2>2 DEF Remade
<1>3. Cardinality(Remade) <= Cardinality(Remade') /\ Cardinality(Remade') \in Nat
  <2>1. IsFiniteSet(Remade') /\ Cardinality(Remade') \in Nat
    BY RemadeFiniteNext
  <2> QED
    BY <1>2, <2>1, FS_Subset
<1>4. Len(clients) \in Nat /\ Cardinality(Remade) \in Nat
  BY RemadeFinite DEF IInv, TypeOK
<1> QED
  BY <1>1, <1>3, <1>4 DEF ObjectsCounted

\* ReconnectCreate makes one, in a turn no object was made in (tools.py:311-316).
LEMMA ObjectMade ==
    ASSUME IInv, ObjectsCounted, NEW c \in Calls, ReconnectCreate(c), InTurn(c)'
    PROVE  ObjectsCounted'
<1> DEFINE k == reconnects'[c]
<1>1. /\ \A d \in Calls : reconnects[d] \in Nat
      /\ pc \in [Calls -> PCs] /\ reconnects \in [Calls -> Nat]
      /\ Len(clients) \in Nat /\ MaxReconnects \in Nat
  BY ClientAssumption DEF IInv, TypeOK
<1>2. pc' = [pc EXCEPT ![c] = "connecting"]
  BY DEF ReconnectCreate, At
<1>3. Len(clients') = Len(clients) + 1
  BY DEF ReconnectCreate, IInv, TypeOK
<1>4. /\ k \in 1 .. MaxReconnects + 1 /\ <<c, k>> \notin Remade
      /\ \A d \in Calls \ {c} : reconnects'[d] = reconnects[d]
      /\ \/ pc[c] = "closing" /\ k = reconnects[c]
         \/ pc[c] = "backoff" /\ k = reconnects[c] + 1
  <2>1. CASE pc[c] = "closing"
    <3>1. reconnects' = reconnects /\ reconnects[c] >= 1
      BY <2>1 DEF ReconnectCreate, Closed, ObjectsCounted
    <3> QED
      BY <1>1, <2>1, <3>1 DEF Remade, InTurn
  <2>2. CASE pc[c] # "closing"
    <3>1. reconnects' = [reconnects EXCEPT ![c] = @ + 1] /\ pc[c] = "backoff"
      BY <2>2 DEF ReconnectCreate, Closed
    <3> QED
      BY <1>1, <2>2, <3>1 DEF Remade, InTurn
  <2> QED
    BY <2>1, <2>2
<1> HIDE DEF k
<1>5. Remade \cup {<<c, k>>} \subseteq Remade'
  <2>1. ASSUME NEW p \in Remade PROVE p \in Remade'
    <3>1. /\ p \in Calls \X (1 .. MaxReconnects + 1) /\ p[1] \in Calls /\ p[2] \in Nat
          /\ p[2] <= reconnects[p[1]]
          /\ ~(pc[p[1]] = "closing" /\ p[2] = reconnects[p[1]])
      BY <1>1 DEF Remade
    <3>2. CASE p[1] = c
      <4>1. p[2] <= k /\ pc'[c] = "connecting"
        BY <1>1, <1>2, <1>4, <3>1, <3>2
      <4> QED
        BY <3>1, <3>2, <4>1 DEF Remade, k
    <3>3. CASE p[1] # c
      <4>1. pc'[p[1]] = pc[p[1]] /\ reconnects'[p[1]] = reconnects[p[1]]
        BY <1>1, <1>2, <1>4, <3>1, <3>3
      <4> QED
        BY <3>1, <4>1 DEF Remade
    <3> QED
      BY <3>2, <3>3
  <2>2. <<c, k>> \in Remade'
    <3>1. pc'[c] = "connecting" /\ k <= k /\ <<c, k>> \in Calls \X (1 .. MaxReconnects + 1)
      BY <1>1, <1>2, <1>4
    <3> QED
      BY <3>1 DEF Remade, k
  <2> QED
    BY <2>1, <2>2
<1>6. Cardinality(Remade) + 1 <= Cardinality(Remade')
  <2>1. IsFiniteSet(Remade') /\ Cardinality(Remade') \in Nat
    BY RemadeFiniteNext
  <2>2. /\ IsFiniteSet(Remade) /\ Cardinality(Remade) \in Nat
        /\ Cardinality(Remade \cup {<<c, k>>}) = Cardinality(Remade) + 1
    BY <1>4, RemadeFinite, FS_AddElement
  <2>3. Cardinality(Remade \cup {<<c, k>>}) <= Cardinality(Remade')
    BY <1>5, <2>1, FS_Subset
  <2> QED
    BY <2>2, <2>3
<1>7. Cardinality(Remade) \in Nat /\ Cardinality(Remade') \in Nat
  BY RemadeFinite, RemadeFiniteNext
<1>8. \A d \in Calls : pc'[d] = "closing" => reconnects'[d] >= 1
  BY <1>1, <1>2, <1>4 DEF ObjectsCounted
<1> QED
  BY <1>1, <1>3, <1>6, <1>7, <1>8 DEF ObjectsCounted

\* Every step keeps the count.
LEMMA ObjectsStep ==
    ASSUME IInv, ObjectsCounted, (\A c \in Calls : InTurn(c))', [Next]_vars
    PROVE  ObjectsCounted'
<1> USE DEF IInv
<1>1. ASSUME NEW c \in Calls, Start(c) \/ Progress(c) \/ Handshake(c) \/ Cancel(c),
             ~ReconnectCreate(c)
      PROVE  ObjectsCounted'
  <2>1. Len(clients') = Len(clients)
    <3>1. CASE ReconnectClose(c)
      BY <3>1, ClientLeft DEF ReconnectClose, TypeOK
    <3>2. ASSUME ~ReconnectClose(c)
          PROVE  \/ UNCHANGED clients
                 \/ \E k \in Nat, s \in ClientStates : clients' = [clients EXCEPT ![k] = s]
      BY <1>1, <3>2 DEF Start, Progress, Handshake, Cancel, Acquire, FirstTurn,
         ReconnectCreateFails, ReconnectEntered, ReconnectEnterFails, Reply, Expire,
         Disconnect, Unexpected, Replay, sharedVars, ClientStates, TypeOK
    <3> QED
      BY <3>1, <3>2, SeqExcept DEF TypeOK
  <2>2. \A d \in Calls \ {c} : pc'[d] = pc[d] /\ reconnects'[d] = reconnects[d]
    BY <1>1 DEF Start, Progress, Handshake, Cancel, Acquire, FirstTurn, ReconnectClose,
       ReconnectCreateFails, ReconnectEntered, ReconnectEnterFails,
       Reply, Expire, Disconnect, Unexpected, Replay, WaitToReplay, NextTurn, Attempt,
       RawCall, Finish, At, historyVars, TypeOK
  <2>3. CASE ReconnectClose(c)
    <3>1. reconnects'[c] = reconnects[c] + 1 /\ reconnects[c] \in Nat
      BY <2>3 DEF ReconnectClose, TypeOK
    <3>2. \A d \in Calls : reconnects[d] \in Nat
      BY DEF TypeOK
    <3> HIDE DEF IInv
    <3> QED
      BY <2>1, <2>2, <3>1, <3>2, NoObjectMade
  <2>4. CASE ~ReconnectClose(c)
    <3>1. /\ pc'[c] # "closing"
          /\ reconnects'[c] = reconnects[c] \/ reconnects'[c] = reconnects[c] + 1
      BY <1>1, <2>4 DEF Start, Progress, Handshake, Cancel, Acquire, FirstTurn,
         ReconnectCreateFails, ReconnectEntered, ReconnectEnterFails,
         Reply, Expire, Disconnect, Unexpected, Replay, WaitToReplay, NextTurn, Attempt,
         RawCall, Finish, At, historyVars, TypeOK
    <3>2. reconnects[c] \in Nat /\ reconnects'[c] \in Nat /\ reconnects'[c] >= reconnects[c]
      BY <3>1 DEF TypeOK
    <3>3. \A d \in Calls : reconnects[d] \in Nat
      BY DEF TypeOK
    <3> HIDE DEF IInv
    <3> QED
      BY <2>1, <2>2, <3>1, <3>2, <3>3, NoObjectMade
  <2> QED
    BY <2>3, <2>4
<1>2. CASE \/ BreakerRecovers \/ Crash \/ SubprocessEnds \/ Shutdown
         \/ Terminated \/ UNCHANGED vars
  <2>1. UNCHANGED <<pc, reconnects>>
    BY <1>2 DEF BreakerRecovers, Crash, SubprocessEnds, Shutdown, Terminated, vars,
       callVars, historyVars
  <2>2. Len(clients') = Len(clients)
    <3>1. CASE Shutdown
      BY <3>1, ClientLeft DEF Shutdown, TypeOK, sharedVars
    <3>2. ASSUME ~Shutdown
          PROVE  \/ UNCHANGED clients
                 \/ \E k \in Nat, s \in ClientStates : clients' = [clients EXCEPT ![k] = s]
      BY <1>2, <3>2 DEF BreakerRecovers, Crash, SubprocessEnds, Terminated, vars,
         sharedVars, ClientStates, TypeOK
    <3> QED
      BY <3>1, <3>2, SeqExcept DEF TypeOK
  <2> QED
    BY <2>1, <2>2, NoObjectMade DEF TypeOK
<1> QED
  BY <1>1, <1>2, ObjectMade DEF Next

\* However many calls reconnect at once, and however they close each other's
\* client, the subprocesses started are no more than the first one and one for
\* each turn of a call's loop: what the race of _reconnect can leave behind is
\* bounded (tools.py:304-320, 390-393).
THEOREM SubprocessesAreBounded == Spec => []SubprocessesBounded
<1>1. Init => ObjectsCounted
  <2>1. Cardinality(Remade) \in Nat
    BY RemadeFinite
  <2> QED
    BY <2>1 DEF Init, ObjectsCounted
<1>2. Init => \A c \in Calls : InTurn(c)
  BY ClientAssumption DEF Init, InTurn, Holding
<1>3. IInv /\ (\A c \in Calls : InTurn(c)) /\ [Next]_vars => (\A c \in Calls : InTurn(c))'
  BY ReconnectsStep
<1>4. IInv /\ ObjectsCounted /\ (\A c \in Calls : InTurn(c))' /\ [Next]_vars
          => ObjectsCounted'
  BY ObjectsStep
<1>5. IInv /\ ObjectsCounted => SubprocessesBounded
  <2> SUFFICES ASSUME IInv, ObjectsCounted PROVE SubprocessesBounded
    OBVIOUS
  <2>1. Len(clients) \in Nat /\ Cardinality(Remade) \in Nat
    BY RemadeFinite DEF IInv, TypeOK
  <2>2. Cardinality(Calls) * (MaxReconnects + 1) \in Nat
    BY ClientAssumption, FS_CardinalityType
  <2> QED
    BY <2>1, <2>2, RemadeFinite DEF ObjectsCounted, SubprocessesBounded
<1> QED
  BY <1>1, <1>2, <1>3, <1>4, <1>5, Inductive, PTL DEF Spec

-------------------------------------------------------------------------------
(***************************************************************************)
(* HelmClient implements CallContract.  Every step of a call inside the     *)
(* bulkhead is a send, a completion or a stutter of the contract; the send  *)
(* limits come from the inductive invariant after the step.                *)
(***************************************************************************)
LEMMA StatusOf ==
    ASSUME TypeOK, NEW c \in Calls
    PROVE  /\ pc[c] = "idle" => Status(c) = "idle"
           /\ pc[c] = "queued" => Status(c) = "waiting"
           /\ pc[c] = "done" => Status(c) = "done"
           /\ pc[c] \in Holding => Status(c) = "active"
           /\ Status(c) = "active" => pc[c] \in Holding
BY DEF TypeOK, Status, PCs, Holding

LEMMA StatusOfNext ==
    ASSUME TypeOK', NEW c \in Calls
    PROVE  /\ pc'[c] = "idle" => Status(c)' = "idle"
           /\ pc'[c] = "queued" => Status(c)' = "waiting"
           /\ pc'[c] = "done" => Status(c)' = "done"
           /\ pc'[c] \in Holding => Status(c)' = "active"
BY DEF TypeOK, Status, PCs, Holding

\* A step that moves c alone changes the contract's status of c alone.
LEMMA StatusFrame ==
    ASSUME NEW c \in Calls, \A d \in Calls \ {c} : pc'[d] = pc[d]
    PROVE  [d \in Calls |-> Status(d)]' = [[d \in Calls |-> Status(d)] EXCEPT ![c] = Status(c)']
BY DEF Status

LEMMA ActiveIsHolders == TypeOK => Contract!Active = Holders
BY StatusOf DEF Contract!Active, Holders

\* CallContract counts with its own instance of Cardinality.
LEMMA SameCardinality ==
    ASSUME NEW S
    PROVE  Contract!Cardinality(S) = Cardinality(S)
BY Zenon DEF Contract!Cardinality, Cardinality

\* What a step of a call inside the bulkhead may do, seen from outside.
Outward(c) ==
    /\ pc[c] \in Holding
    /\ Moved(c)
    /\ kind' = kind
    /\ \/ sent' = sent
       \/ sent' = [sent EXCEPT ![c] = @ + 1] /\ pc'[c] \in Holding

LEMMA OutwardRefines ==
    ASSUME IInv, IInv', NEW c \in Calls, Outward(c)
    PROVE  [Contract!Next]_(Contract!vars)
<1> DEFINE st == [d \in Calls |-> Status(d)]
<1>1. TypeOK /\ TypeOK' /\ Status(c) = "active"
  BY StatusOf DEF IInv, Outward
<1>2. \A d \in Calls \ {c} : pc'[d] = pc[d]
  BY MovedPreserves DEF Outward
<1>3. st' = [st EXCEPT ![c] = Status(c)']
  BY <1>2, StatusFrame
<1>4. CASE \E p \in Holding : At(c, p) /\ StillRunning
  <2>1. pc'[c] \in Holding /\ outcome' = outcome
    BY <1>1, <1>4 DEF At, StillRunning, TypeOK
  <2>2. st' = st
    BY <1>1, <1>3, <2>1, StatusOfNext
  <2>3. CASE sent' = sent
    BY <2>1, <2>2, <2>3 DEF Outward, Contract!vars
  <2>4. CASE sent' = [sent EXCEPT ![c] = @ + 1]
    <3>1. sent[c] \in Nat /\ sent'[c] = sent[c] + 1 /\ kind[c] \in Kinds
      BY <1>1, <2>4 DEF TypeOK
    <3>2. sent'[c] <= Contract!Limit(c)
      BY DEF IInv, CallInv, SendsInTurn, MutationInFlight, Outward, Contract!Limit
    <3>3. sent[c] < Contract!Limit(c)
      <4>1. Contract!Limit(c) \in Nat
        BY ClientAssumption DEF Contract!Limit
      <4> QED
        BY <3>1, <3>2, <4>1
    <3>4. Contract!Send(c)
      BY <1>1, <2>1, <2>2, <2>4, <3>3 DEF Contract!Send, Outward
    <3> QED
      BY <3>4 DEF Contract!Next
  <2> QED
    BY <2>3, <2>4 DEF Outward
<1>5. CASE \E r \in Outcomes : Finish(c, r)
  <2>1. PICK r \in Outcomes : Finish(c, r)
    BY <1>5
  <2>2. pc'[c] = "done" /\ outcome' = [outcome EXCEPT ![c] = r]
    BY <1>1, <2>1 DEF Finish, At, TypeOK
  <2>3. st' = [st EXCEPT ![c] = "done"]
    BY <1>1, <1>3, <2>2, StatusOfNext
  <2>4. sent' = sent
    BY <2>2 DEF Outward, Holding
  <2>5. Contract!Complete(c)
    BY <1>1, <2>2, <2>3, <2>4 DEF Contract!Complete, Outward
  <2> QED
    BY <2>5 DEF Contract!Next
<1> QED
  BY <1>4, <1>5 DEF Outward, Moved

\* Every step a call takes inside the bulkhead is such a step.
LEMMA HoldingStepIsOutward ==
    ASSUME IInv, NEW c \in Calls, pc[c] \in Holding,
           Progress(c) \/ Handshake(c) \/ Cancel(c)
    PROVE  Outward(c)
<1> USE DEF historyVars, sharedVars
<1>1. CASE Acquire(c)
  BY <1>1 DEF Acquire, Holding
<1>2. CASE FirstTurn(c)
  <2>1. CASE Attempt(c)
    BY <1>2, <2>1, AttemptStep DEF FirstTurn, Outward, Holding
  <2>2. CASE At(c, "backoff") /\ StillRunning /\ UNCHANGED <<tries, on, sent, breakerVars>>
    BY <1>2, <2>2 DEF FirstTurn, Outward, Moved, Holding
  <2> QED
    BY <1>2, <2>1, <2>2 DEF FirstTurn
<1>3. CASE ReconnectClose(c)
  BY <1>3 DEF ReconnectClose, Outward, Moved, Holding
<1>4. CASE ReconnectCreate(c)
  BY <1>4 DEF ReconnectCreate, Outward, Moved, Holding
<1>5. CASE ReconnectCreateFails(c)
  BY <1>5, NextTurnStep DEF ReconnectCreateFails, Outward
<1>6. CASE ReconnectEntered(c)
  BY <1>6, AttemptStep DEF ReconnectEntered, Outward, Holding
<1>7. CASE ReconnectEnterFails(c)
  BY <1>7, NextTurnStep DEF ReconnectEnterFails, Outward
<1>8. CASE Reply(c)
  BY <1>8 DEF Reply, Outward, Moved, Outcomes
<1>9. CASE Expire(c)
  <2>1. CASE WaitToReplay(c)
    BY <1>9, <2>1 DEF Expire, WaitToReplay, Outward, Moved, Holding
  <2>2. CASE Finish(c, "timeout")
    BY <1>9, <2>2 DEF Expire, Outward, Moved, Outcomes
  <2> QED
    BY <1>9, <2>1, <2>2 DEF Expire
<1>10. CASE Disconnect(c)
  <2>1. CASE WaitToReplay(c)
    BY <1>10, <2>1 DEF Disconnect, WaitToReplay, Outward, Moved, Holding
  <2>2. CASE Finish(c, "connection_error")
    BY <1>10, <2>2 DEF Disconnect, Outward, Moved, Outcomes
  <2>3. CASE NextTurn(c)
    BY <1>10, <2>3, NextTurnStep DEF Disconnect, Outward
  <2> QED
    BY <1>10, <2>1, <2>2, <2>3 DEF Disconnect
<1>11. CASE Unexpected(c)
  BY <1>11 DEF Unexpected, Outward, Moved, Outcomes
<1>12. CASE Replay(c)
  BY <1>12, RawCallStep DEF Replay, Outward, Holding
<1>13. CASE Cancel(c)
  <2>1. Finish(c, "cancelled") /\ kind' = kind /\ sent' = sent
    BY <1>13 DEF Cancel, Holding
  <2> QED
    BY <2>1 DEF Outward, Moved, Outcomes
<1> QED
  BY <1>1, <1>2, <1>3, <1>4, <1>5, <1>6, <1>7, <1>8, <1>9, <1>10, <1>11, <1>12, <1>13
  DEF Progress, Handshake

\* Steps outside the bulkhead: a call is made, admitted or cancelled in the queue.
LEMMA OutsideStepRefines ==
    ASSUME IInv, IInv', NEW c \in Calls, pc[c] \notin Holding,
           Start(c) \/ Progress(c) \/ Handshake(c) \/ Cancel(c)
    PROVE  Contract!Next
<1> DEFINE st == [d \in Calls |-> Status(d)]
<1>1. TypeOK /\ TypeOK'
  BY DEF IInv
<1>2. CASE Start(c)
  <2>1. pc[c] = "idle" /\ pc' = [pc EXCEPT ![c] = "queued"] /\ UNCHANGED <<kind, sent, outcome>>
    BY <1>2 DEF Start, At, historyVars
  <2>2. Status(c) = "idle" /\ st' = [st EXCEPT ![c] = "waiting"]
    BY <1>1, <2>1, StatusOf, StatusOfNext, StatusFrame DEF TypeOK
  <2>3. Contract!Submit(c)
    BY <2>1, <2>2 DEF Contract!Submit
  <2> QED
    BY <2>3 DEF Contract!Next
<1>3. CASE Acquire(c)
  <2>1. /\ pc[c] = "queued" /\ pc' = [pc EXCEPT ![c] = "admitted"]
        /\ UNCHANGED <<kind, sent, outcome>>
    BY <1>3 DEF Acquire, At, historyVars
  <2>2. Status(c) = "waiting" /\ st' = [st EXCEPT ![c] = "active"]
    BY <1>1, <2>1, StatusOf, StatusOfNext, StatusFrame DEF TypeOK, Holding
  <2>3. Cardinality(Contract!Active) < MaxConcurrent
    <3>1. permits + Cardinality(Holders) = MaxConcurrent
      BY DEF IInv, PermitsAccounted, Holders
    <3>2. permits > 0 /\ permits \in Nat
      BY <1>1, <1>3 DEF Acquire, TypeOK
    <3> QED
      BY <1>1, <3>1, <3>2, ActiveIsHolders, HoldersFinite, ClientAssumption
  <2>4. Contract!Admit(c)
    <3>1. st[c] = "waiting" /\ UNCHANGED <<kind, sent, outcome>>
      BY <2>1, <2>2
    <3> QED
      BY <2>2, <2>3, <3>1, SameCardinality DEF Contract!Admit
  <2> QED
    BY <2>4 DEF Contract!Next
<1>4. CASE Cancel(c)
  <2>1. /\ pc[c] = "queued" /\ pc' = [pc EXCEPT ![c] = "done"] /\ UNCHANGED <<kind, sent>>
        /\ outcome' = [outcome EXCEPT ![c] = "cancelled"]
    BY <1>4 DEF Cancel, At, historyVars, Holding
  <2>2. Status(c) = "waiting" /\ st' = [st EXCEPT ![c] = "done"]
    BY <1>1, <2>1, StatusOf, StatusOfNext, StatusFrame DEF TypeOK
  <2>3. Contract!Complete(c)
    BY <2>1, <2>2 DEF Contract!Complete, Outcomes
  <2> QED
    BY <2>3 DEF Contract!Next
<1>5. CASE (Progress(c) /\ ~Acquire(c)) \/ Handshake(c)
  BY <1>5 DEF Progress, Handshake, FirstTurn, ReconnectClose, ReconnectCreate, Closed,
     ReconnectCreateFails, ReconnectEntered, ReconnectEnterFails, Reply, Expire,
     Disconnect, Unexpected, Replay, Holding
<1> QED
  BY <1>2, <1>3, <1>4, <1>5

LEMMA StepRefines ==
    ASSUME IInv, IInv', [Next]_vars
    PROVE  [Contract!Next]_(Contract!vars)
<1>1. ASSUME NEW c \in Calls, Start(c) \/ Progress(c) \/ Handshake(c) \/ Cancel(c)
      PROVE  [Contract!Next]_(Contract!vars)
  <2>1. CASE pc[c] \in Holding
    <3>1. ~Start(c)
      BY <2>1 DEF Start, Holding
    <3> QED
      BY <1>1, <2>1, <3>1, HoldingStepIsOutward, OutwardRefines
  <2>2. CASE pc[c] \notin Holding
    BY <1>1, <2>2, OutsideStepRefines
  <2> QED
    BY <2>1, <2>2
<1>2. CASE \/ BreakerRecovers \/ Crash \/ SubprocessEnds \/ Shutdown
         \/ Terminated \/ UNCHANGED vars
  <2>1. UNCHANGED <<pc, kind, sent, outcome>>
    BY <1>2 DEF BreakerRecovers, Crash, SubprocessEnds, Shutdown, Terminated, vars,
       callVars, historyVars
  <2> QED
    BY <2>1 DEF Contract!vars, Status
<1> QED
  BY <1>1, <1>2 DEF Next

LEMMA InitRefines == Init => Contract!Init
BY DEF Init, Contract!Init, Status, Kinds

\* The class implements the contract, for every number of calls and every limit:
\* never more active calls than the bulkhead allows, never a send for a finished
\* call, never a second send of a mutating call (tools.py 363-378, 434-440, 489-491).
THEOREM Implements == Spec => ImplementsContract
<1>1. IInv /\ [Next]_vars => [Contract!Next]_(Contract!vars)
  BY NextInv, StepRefines
<1> QED
  BY <1>1, Inductive, InitRefines, PTL DEF Spec, ImplementsContract, Contract!Spec
===============================================================================

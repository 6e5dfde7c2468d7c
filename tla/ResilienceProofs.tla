---------------------------- MODULE ResilienceProofs ---------------------------
(***************************************************************************)
(* internal/resilience: the circuit breaker for any number of callers, any  *)
(* threshold and any timeout, and what sanitize.go and budget.go do to the  *)
(* answers of the tools that read a release, for manifests of any length.   *)
(*                                                                          *)
(* FoldLeft is a recursive function over the subsets of a sequence's        *)
(* indices.  What it computes is proved with the least-number principle,    *)
(* which the well-foundedness of < gives, and from there on a sequence is   *)
(* looked at one element after the other.                                   *)
(***************************************************************************)
EXTENDS CircuitBreaker, ReleaseReads, SequenceTheorems, WellFoundedInduction, TLAPS

-------------------------------------------------------------------------------
(* Circuit breaker                                                           *)

\* Half-open begins when the timeout is over and the first failure ends it, so a
\* half-open breaker has not failed since.
HalfOpenIsRested == state = "half_open" => elapsed = RecoveryTimeout

BInv == TypeOK /\ ClosedBelowThreshold /\ HalfOpenIsRested

LEMMA UpToBounded ==
    ASSUME NEW n \in Nat, NEW bound \in Nat
    PROVE  /\ UpTo(n, bound) \in 0 .. bound
           /\ n >= bound => UpTo(n, bound) = bound
           /\ n < bound => UpTo(n, bound) = n
BY DEF UpTo

LEMMA BreakerInitially == Init => BInv
BY BreakerAssumption DEF Init, BInv, TypeOK, ClosedBelowThreshold, HalfOpenIsRested

\* Every report and every moment that passes keeps the three clauses together.
LEMMA BreakerStep == BInv /\ [Next]_vars => BInv'
<1> SUFFICES ASSUME BInv, [Next]_vars PROVE BInv'
  OBVIOUS
<1> USE BreakerAssumption DEF BInv, TypeOK, ClosedBelowThreshold, HalfOpenIsRested
<1>1. ASSUME NEW c \in Callers, Allow(c) PROVE BInv'
  BY <1>1 DEF Allow
<1>2. ASSUME NEW c \in Callers, RecordSuccess(c) PROVE BInv'
  BY <1>2 DEF RecordSuccess
<1>3. ASSUME NEW c \in Callers, RecordFailure(c) PROVE BInv'
  <2>1. /\ failures + 1 \in Nat
        /\ failures + 1 >= FailureThreshold => failures' = FailureThreshold
        /\ failures + 1 < FailureThreshold => failures' = failures + 1
    BY <1>3, UpToBounded DEF RecordFailure
  <2>2. pc' \in [Callers -> {"idle", "working", "probing"}] /\ elapsed' = 0
    BY <1>3 DEF RecordFailure
  <2>3. CASE state = "half_open" \/ failures + 1 >= FailureThreshold
    <3>1. state' = "open"
      BY <1>3, <2>3 DEF RecordFailure
    <3>2. failures' = FailureThreshold
      BY <2>1, <2>3
    <3> QED
      BY <2>2, <3>1, <3>2
  <2>4. CASE state # "half_open" /\ failures + 1 < FailureThreshold
    <3>1. state' = "closed" /\ failures' = failures + 1
      BY <1>3, <2>1, <2>4 DEF RecordFailure
    <3> QED
      BY <2>2, <2>4, <3>1
  <2> QED
    BY <2>3, <2>4, <2>1
<1>4. CASE Tick
  <2>1. elapsed + 1 \in Nat /\ RecoveryTimeout \in Nat
    OBVIOUS
  <2>2. /\ elapsed' \in 0 .. RecoveryTimeout
        /\ elapsed = RecoveryTimeout => elapsed' = RecoveryTimeout
    <3> HIDE DEF BInv
    <3> QED
      BY <1>4, <2>1, UpToBounded DEF Tick
  <2> QED
    BY <1>4, <2>2 DEF Tick
<1>5. CASE UNCHANGED vars
  BY <1>5 DEF vars
<1> QED
  BY <1>1, <1>2, <1>3, <1>4, <1>5 DEF Next, Report

LEMMA BreakerInductive == Spec => []BInv
BY BreakerInitially, BreakerStep, PTL DEF Spec

\* Every field of the breaker stays in its range.
THEOREM BreakerTypeCorrect == Spec => []TypeOK
<1>1. BInv => TypeOK
  BY DEF BInv
<1> QED
  BY <1>1, BreakerInductive, PTL

\* Open or half-open is the same as having failed often enough in a row,
\* whatever reports come in late (circuitbreaker.go:92-112).
THEOREM ClosedMeansBelow == Spec => []ClosedBelowThreshold
<1>1. BInv => ClosedBelowThreshold
  BY DEF BInv
<1> QED
  BY <1>1, BreakerInductive, PTL

\* Over the threshold nobody is let in before a full recovery timeout without a
\* failure (circuitbreaker.go:71-90).
THEOREM RestsBeforeProbing == Spec => RestsAfterFailure
<1> DEFINE Rests == \A c \in Callers :
               pc[c] = "idle" /\ pc'[c] # "idle" =>
                   failures < FailureThreshold \/ elapsed >= RecoveryTimeout
<1>1. BInv /\ [Next]_vars => [Rests]_vars
  <2> SUFFICES ASSUME BInv, Next PROVE Rests
    OBVIOUS
  <2> SUFFICES ASSUME NEW c \in Callers, pc[c] = "idle", pc'[c] # "idle"
               PROVE  failures < FailureThreshold \/ elapsed >= RecoveryTimeout
    OBVIOUS
  <2> USE BreakerAssumption DEF BInv, TypeOK, ClosedBelowThreshold, HalfOpenIsRested
  <2>1. ASSUME NEW d \in Callers, Allow(d) PROVE Allow(c)
    <3>1. d = c
      BY <2>1 DEF Allow
    <3> QED
      BY <2>1, <3>1
  <2>2. ASSUME NEW d \in Callers, Report(d) PROVE FALSE
    <3>1. pc'[c] = IF c = d THEN "idle" ELSE pc[c]
      BY <2>2 DEF Report, RecordSuccess, RecordFailure
    <3> QED
      BY <3>1
  <2>3. ~Tick
    BY DEF Tick
  <2>4. Allow(c)
    BY <2>1, <2>2, <2>3 DEF Next
  <2> QED
    BY <2>4 DEF Allow
<1> QED
  BY <1>1, BreakerInductive, PTL DEF Spec, RestsAfterFailure

-------------------------------------------------------------------------------
(* Numbers                                                                   *)

\* Every non-empty set of numbers has a least one.
LEMMA LeastNumber ==
    ASSUME NEW T \in SUBSET Nat, T # {}
    PROVE  \E m \in T : \A n \in T : m <= n
<1> DEFINE Less == OpToRel(<, Nat)
<1>1. IsWellFoundedOn(Less, Nat)
  BY NatLessThanWellFounded
<1>2. \A x, y \in Nat : y < x => <<y, x>> \in Less
  BY DEF OpToRel
<1> HIDE DEF Less
<1>3. PICK m \in T : \A n \in T : <<n, m>> \notin Less
  BY <1>1, WFMin
<1>4. \A n \in T : ~(n < m)
  BY <1>2, <1>3
<1> QED
  BY <1>4

\* Induction up to n, for a set rather than for a formula.
LEMMA InductionTo ==
    ASSUME NEW n \in Nat, NEW T, 0 \in T, \A i \in 1 .. n : i - 1 \in T => i \in T
    PROVE  0 .. n \subseteq T
<1> SUFFICES ASSUME (0 .. n) \ T # {} PROVE FALSE
  OBVIOUS
<1> DEFINE Left == (0 .. n) \ T
<1>1. PICK m \in Left : \A i \in Left : m <= i
  <2>1. Left \in SUBSET Nat
    OBVIOUS
  <2> QED
    BY <2>1, LeastNumber
<1>2. m \in 1 .. n
  BY <1>1
<1>3. m - 1 \in T
  BY <1>1, <1>2
<1> QED
  BY <1>1, <1>2, <1>3

\* A non-empty set of numbers up to n has a greatest one.
LEMMA MaxOf ==
    ASSUME NEW n \in Nat, NEW S \in SUBSET (0 .. n), S # {}
    PROVE  Max(S) \in S /\ \A y \in S : y <= Max(S)
<1> DEFINE T == {n - x : x \in S}
<1>1. PICK m \in T : \A t \in T : m <= t
  <2>1. \A x \in S : n - x \in Nat
    OBVIOUS
  <2>2. T \in SUBSET Nat /\ T # {}
    BY <2>1
  <2> QED
    BY <2>2, LeastNumber
<1>2. PICK x \in S : m = n - x
  BY <1>1
<1>3. \A y \in S : x >= y
  BY <1>1, <1>2
<1>4. \E z \in S : \A y \in S : z >= y
  BY <1>3
<1>5. Max(S) \in S /\ \A y \in S : Max(S) >= y
  BY <1>4 DEF Max
<1> QED
  BY <1>5

LEMMA MinOf ==
    ASSUME NEW S \in SUBSET Nat, S # {}
    PROVE  Min(S) \in S /\ \A y \in S : Min(S) <= y
<1>1. \E z \in S : \A y \in S : z <= y
  BY LeastNumber
<1> QED
  BY <1>1 DEF Min

-------------------------------------------------------------------------------
(* Folds                                                                     *)

\* A recursion over the subsets of 1 .. n that takes the greatest element off:
\* the shape of FoldLeft.
Unwinds(g, n, A, base, step) ==
    /\ g[{}] = base
    /\ \A s \in SUBSET (1 .. n) :
           (s # {} /\ g[s \ {Max(s)}] \in A) => g[s] = step[<<Max(s), g[s \ {Max(s)}]>>]

\* The same, one number after the other, with the result v.
RunsTo(v, f, n, A, base, step) ==
    /\ f \in [0 .. n -> A]
    /\ f[0] = base
    /\ \A i \in 1 .. n : f[i] = step[<<i, f[i - 1]>>]
    /\ v = f[n]

\* There is such a function.
LEMMA Recursion ==
    ASSUME NEW n \in Nat, NEW A, NEW base \in A, NEW step \in [(1 .. n) \X A -> A]
    PROVE  \E g : g \in [SUBSET (1 .. n) -> A] /\ Unwinds(g, n, A, base, step)
<1> DEFINE Solves(g, k) ==
               /\ g \in [SUBSET (1 .. k) -> A]
               /\ g[{}] = base
               /\ \A s \in SUBSET (1 .. k) : s # {} => g[s] = step[<<Max(s), g[s \ {Max(s)}]>>]
           T == {k \in 0 .. n : \E g : Solves(g, k)}
<1>1. 0 \in T
  <2> DEFINE g == [s \in SUBSET (1 .. 0) |-> base]
  <2>1. SUBSET (1 .. 0) = {{}}
    OBVIOUS
  <2>2. Solves(g, 0)
    BY <2>1
  <2> HIDE DEF g, Solves
  <2> QED
    BY <2>2
<1>2. ASSUME NEW k \in 1 .. n, k - 1 \in T PROVE k \in T
  <2>1. PICK g : Solves(g, k - 1)
    BY <1>2
  <2> DEFINE h == [s \in SUBSET (1 .. k) |->
                       IF k \in s THEN step[<<k, g[s \ {k}]>>] ELSE g[s]]
  <2>2. ASSUME NEW s \in SUBSET (1 .. k)
        PROVE  /\ s \ {k} \in SUBSET (1 .. k - 1)
               /\ k \notin s => s \in SUBSET (1 .. k - 1)
    OBVIOUS
  <2>3. h \in [SUBSET (1 .. k) -> A]
    <3> SUFFICES ASSUME NEW s \in SUBSET (1 .. k) PROVE h[s] \in A
      OBVIOUS
    <3>1. CASE k \in s
      <4>1. g[s \ {k}] \in A
        BY <2>1, <2>2
      <4> QED
        BY <3>1, <4>1
    <3>2. CASE k \notin s
      BY <3>2, <2>1, <2>2
    <3> QED
      BY <3>1, <3>2
  <2>4. h[{}] = base
    BY <2>1
  <2>5. ASSUME NEW s \in SUBSET (1 .. k), s # {}
        PROVE  h[s] = step[<<Max(s), h[s \ {Max(s)}]>>]
    <3>1. Max(s) \in s /\ \A y \in s : y <= Max(s)
      <4>1. s \in SUBSET (0 .. k)
        OBVIOUS
      <4> QED
        BY <2>5, <4>1, MaxOf
    <3>2. CASE k \in s
      <4>1. Max(s) = k
        <5>1. Max(s) \in 1 .. k /\ k <= Max(s)
          BY <3>1, <3>2
        <5> QED
          BY <5>1
      <4>2. h[s \ {k}] = g[s \ {k}]
        BY <2>2
      <4> QED
        BY <3>2, <4>1, <4>2
    <3>3. CASE k \notin s
      <4>1. s \in SUBSET (1 .. k - 1) /\ s \ {Max(s)} \in SUBSET (1 .. k - 1)
        BY <2>2, <3>3
      <4>2. h[s] = g[s] /\ h[s \ {Max(s)}] = g[s \ {Max(s)}]
        BY <4>1, <3>3
      <4> QED
        BY <4>1, <4>2, <2>1, <2>5
    <3> QED
      BY <3>2, <3>3
  <2> HIDE DEF h
  <2>6. Solves(h, k)
    BY <2>3, <2>4, <2>5
  <2> HIDE DEF Solves
  <2> QED
    BY <2>6
<1> HIDE DEF T
<1>3. n \in T
  BY <1>1, <1>2, InductionTo
<1> QED
  BY <1>3 DEF T, Unwinds

LEMMA MaxOfPrefix ==
    ASSUME NEW i \in Nat \ {0}
    PROVE  1 .. i # {} /\ Max(1 .. i) = i /\ (1 .. i) \ {i} = 1 .. i - 1
<1>1. 1 .. i \in SUBSET (0 .. i) /\ 1 .. i # {} /\ i \in 1 .. i
  OBVIOUS
<1>2. Max(1 .. i) \in 1 .. i /\ \A y \in 1 .. i : y <= Max(1 .. i)
  BY <1>1, MaxOf
<1>3. Max(1 .. i) = i
  BY <1>1, <1>2
<1> QED
  BY <1>1, <1>3

\* What such a recursion makes of 1 .. n it makes one number after the other.
LEMMA InTurn ==
    ASSUME NEW n \in Nat, NEW A, NEW base \in A, NEW step \in [(1 .. n) \X A -> A],
           NEW g, Unwinds(g, n, A, base, step), NEW v, v = g[1 .. n]
    PROVE  \E f : RunsTo(v, f, n, A, base, step)
<1> DEFINE T == {i \in 0 .. n : g[1 .. i] \in A}
<1>1. \A i \in 1 .. n : i - 1 \in T => g[1 .. i] = step[<<i, g[1 .. i - 1]>>]
  <2> SUFFICES ASSUME NEW i \in 1 .. n, g[1 .. i - 1] \in A
               PROVE  g[1 .. i] = step[<<i, g[1 .. i - 1]>>]
    OBVIOUS
  <2>1. 1 .. i \in SUBSET (1 .. n) /\ i \in Nat \ {0}
    OBVIOUS
  <2>2. 1 .. i # {} /\ Max(1 .. i) = i /\ (1 .. i) \ {i} = 1 .. i - 1
    BY <2>1, MaxOfPrefix
  <2> QED
    BY <2>1, <2>2 DEF Unwinds
<1>2. 1 .. 0 = {}
  OBVIOUS
<1>3. 0 .. n \subseteq T
  <2>1. 0 \in T
    BY <1>2 DEF Unwinds
  <2>2. ASSUME NEW i \in 1 .. n, i - 1 \in T PROVE i \in T
    <3>1. g[1 .. i] = step[<<i, g[1 .. i - 1]>>] /\ g[1 .. i - 1] \in A
      BY <1>1, <2>2
    <3>2. g[1 .. i] \in A
      BY <3>1
    <3> QED
      BY <3>2
  <2> HIDE DEF T
  <2> QED
    BY <2>1, <2>2, InductionTo
<1> DEFINE f == [i \in 0 .. n |-> g[1 .. i]]
<1>4. f \in [0 .. n -> A]
  BY <1>3
<1>5. f[0] = base /\ v = f[n]
  BY <1>2 DEF Unwinds
<1>6. \A i \in 1 .. n : f[i] = step[<<i, f[i - 1]>>]
  <2> SUFFICES ASSUME NEW i \in 1 .. n PROVE f[i] = step[<<i, f[i - 1]>>]
    OBVIOUS
  <2>1. i - 1 \in 0 .. n /\ i \in 0 .. n
    OBVIOUS
  <2>2. i - 1 \in T
    BY <1>3, <2>1
  <2>3. f[i] = g[1 .. i] /\ f[i - 1] = g[1 .. i - 1]
    BY <2>1
  <2> HIDE DEF T, f
  <2> QED
    BY <1>1, <2>2, <2>3
<1> HIDE DEF f
<1> QED
  BY <1>4, <1>5, <1>6 DEF RunsTo

-------------------------------------------------------------------------------
(* Picked and Join                                                           *)

\* The fold of Picked, one line after the other.
PicksInTurn(f, lines, chosen) ==
    /\ f \in [0 .. Len(lines) -> Seq(Lines)]
    /\ f[0] = <<>>
    /\ \A i \in 1 .. Len(lines) :
           f[i] = IF i \in chosen THEN Append(f[i - 1], lines[i]) ELSE f[i - 1]
    /\ Picked(lines, chosen) = f[Len(lines)]

LEMMA PickedInTurn ==
    ASSUME NEW lines \in Seq(Lines), NEW chosen
    PROVE  \E f : PicksInTurn(f, lines, chosen)
<1> DEFINE n == Len(lines)
           A == Seq(Lines)
           base == <<>>
           index == [i \in DOMAIN lines |-> i]
           Takes(out, i) == IF i \in chosen THEN Append(out, lines[i]) ELSE out
           Solves(g) == g = [s \in SUBSET DOMAIN index |->
                                IF s = {} THEN base ELSE Takes(g[s \ {Max(s)}], index[Max(s)])]
           step == [p \in (1 .. n) \X A |-> Takes(p[2], index[p[1]])]
<1>1. /\ n \in Nat
      /\ DOMAIN index = 1 .. n
      /\ base \in A
  OBVIOUS
<1>2. \A i \in 1 .. n, out \in A : Takes(out, index[i]) \in A
  OBVIOUS
<1>3. /\ step \in [(1 .. n) \X A -> A]
      /\ \A i \in 1 .. n, out \in A : step[<<i, out>>] = Takes(out, index[i])
  <2> HIDE DEF A, n, Takes
  <2> QED
    BY <1>2
<1> HIDE DEF n, A, base, step, index, Takes
<1>4. \A s \in SUBSET (1 .. n) :
          s # {} => Max(s) \in 1 .. n /\ s \ {Max(s)} \in SUBSET (1 .. n)
  <2>1. \A s \in SUBSET (1 .. n) : s \in SUBSET (0 .. n)
    OBVIOUS
  <2> QED
    BY <1>1, <2>1, MaxOf
<1>5. \E h : Solves(h)
  <2>1. PICK g : g \in [SUBSET (1 .. n) -> A] /\ Unwinds(g, n, A, base, step)
    BY <1>1, <1>3, Recursion
  <2>2. \A s \in SUBSET (1 .. n) : s # {} => g[s] = Takes(g[s \ {Max(s)}], index[Max(s)])
    BY <1>3, <1>4, <2>1 DEF Unwinds
  <2>3. g = [s \in SUBSET (1 .. n) |->
                IF s = {} THEN base ELSE Takes(g[s \ {Max(s)}], index[Max(s)])]
    BY <2>1, <2>2 DEF Unwinds
  <2> QED
    BY <1>1, <2>3
<1> DEFINE G == CHOOSE h : Solves(h)
<1>6. G = [s \in SUBSET (1 .. n) |->
              IF s = {} THEN base ELSE Takes(G[s \ {Max(s)}], index[Max(s)])]
  <2>1. Solves(G)
    BY <1>5
  <2> QED
    BY <1>1, <2>1
<1>7. Picked(lines, chosen) = G[1 .. n]
  <2>1. Picked(lines, chosen) = G[DOMAIN index]
    BY DEF Picked, FoldLeft, MapThenFoldSet, index, base, Takes
  <2> QED
    BY <1>1, <2>1
<1> HIDE DEF G
<1>8. Unwinds(G, n, A, base, step)
  BY <1>3, <1>4, <1>6 DEF Unwinds
<1>9. PICK f : RunsTo(G[1 .. n], f, n, A, base, step)
  BY <1>1, <1>3, <1>8, InTurn
<1>10. ASSUME NEW i \in 1 .. n PROVE f[i] = Takes(f[i - 1], index[i])
  <2>1. f[i - 1] \in A /\ f[i] = step[<<i, f[i - 1]>>]
    BY <1>1, <1>9 DEF RunsTo
  <2> QED
    BY <1>3, <2>1
<1>11. \A i \in 1 .. n : f[i] = IF i \in chosen THEN Append(f[i - 1], lines[i]) ELSE f[i - 1]
  <2>1. \A i \in 1 .. n : index[i] = i
    BY DEF index, n
  <2> QED
    BY <1>10, <2>1 DEF Takes
<1> QED
  BY <1>7, <1>9, <1>11 DEF n, A, base, RunsTo, PicksInTurn

LEMMA SeparatorIsLine == Separator \in Lines /\ BlankLine \in Lines
BY DEF Separator, BlankLine, Lines, Kinds

\* The fold of Join, one text after the other.
JoinsInTurn(f, texts) ==
    /\ f \in [0 .. Len(texts) -> Seq(Lines)]
    /\ f[0] = <<>>
    /\ \A i \in 1 .. Len(texts) :
           f[i] = f[i - 1] \o (IF i = 1 THEN <<>> ELSE <<Separator>>) \o texts[i]
    /\ Join(texts) = f[Len(texts)]

LEMMA JoinInTurn ==
    ASSUME NEW texts \in Seq(Seq(Lines))
    PROVE  \E f : JoinsInTurn(f, texts)
<1> DEFINE n == Len(texts)
           A == Seq(Lines)
           base == <<>>
           index == [i \in DOMAIN texts |-> i]
           Takes(out, i) == out \o (IF i = 1 THEN <<>> ELSE <<Separator>>) \o texts[i]
           Solves(g) == g = [s \in SUBSET DOMAIN index |->
                                IF s = {} THEN base ELSE Takes(g[s \ {Max(s)}], index[Max(s)])]
           step == [p \in (1 .. n) \X A |-> Takes(p[2], index[p[1]])]
<1>1. /\ n \in Nat
      /\ DOMAIN index = 1 .. n
      /\ base \in A
  OBVIOUS
<1>2. \A i \in 1 .. n, out \in A : Takes(out, index[i]) \in A
  BY SeparatorIsLine
<1>3. /\ step \in [(1 .. n) \X A -> A]
      /\ \A i \in 1 .. n, out \in A : step[<<i, out>>] = Takes(out, index[i])
  <2> HIDE DEF A, n, Takes
  <2> QED
    BY <1>2
<1> HIDE DEF n, A, base, step, index, Takes
<1>4. \A s \in SUBSET (1 .. n) :
          s # {} => Max(s) \in 1 .. n /\ s \ {Max(s)} \in SUBSET (1 .. n)
  <2>1. \A s \in SUBSET (1 .. n) : s \in SUBSET (0 .. n)
    OBVIOUS
  <2> QED
    BY <1>1, <2>1, MaxOf
<1>5. \E h : Solves(h)
  <2>1. PICK g : g \in [SUBSET (1 .. n) -> A] /\ Unwinds(g, n, A, base, step)
    BY <1>1, <1>3, Recursion
  <2>2. \A s \in SUBSET (1 .. n) : s # {} => g[s] = Takes(g[s \ {Max(s)}], index[Max(s)])
    BY <1>3, <1>4, <2>1 DEF Unwinds
  <2>3. g = [s \in SUBSET (1 .. n) |->
                IF s = {} THEN base ELSE Takes(g[s \ {Max(s)}], index[Max(s)])]
    BY <2>1, <2>2 DEF Unwinds
  <2> QED
    BY <1>1, <2>3
<1> DEFINE G == CHOOSE h : Solves(h)
<1>6. G = [s \in SUBSET (1 .. n) |->
              IF s = {} THEN base ELSE Takes(G[s \ {Max(s)}], index[Max(s)])]
  <2>1. Solves(G)
    BY <1>5
  <2> QED
    BY <1>1, <2>1
<1>7. Join(texts) = G[1 .. n]
  <2>1. Join(texts) = G[DOMAIN index]
    BY DEF Join, FoldLeft, MapThenFoldSet, index, base, Takes
  <2> QED
    BY <1>1, <2>1
<1> HIDE DEF G
<1>8. Unwinds(G, n, A, base, step)
  BY <1>3, <1>4, <1>6 DEF Unwinds
<1>9. PICK f : RunsTo(G[1 .. n], f, n, A, base, step)
  BY <1>1, <1>3, <1>8, InTurn
<1>10. ASSUME NEW i \in 1 .. n PROVE f[i] = Takes(f[i - 1], index[i])
  <2>1. f[i - 1] \in A /\ f[i] = step[<<i, f[i - 1]>>]
    BY <1>1, <1>9 DEF RunsTo
  <2> QED
    BY <1>3, <2>1
<1>11. \A i \in 1 .. n : f[i] = f[i - 1] \o (IF i = 1 THEN <<>> ELSE <<Separator>>) \o texts[i]
  <2>1. \A i \in 1 .. n : index[i] = i
    BY DEF index, n
  <2> QED
    BY <1>10, <2>1 DEF Takes
<1> QED
  BY <1>7, <1>9, <1>11 DEF n, A, base, RunsTo, JoinsInTurn

-------------------------------------------------------------------------------
(* sanitize.go: the two loops, one line after the other                      *)

Progress == [skip : Int, out : Seq(Lines)]

LEMMA SanitizeLineType ==
    ASSUME NEW acc \in Progress, NEW line \in Lines
    PROVE  SanitizeLine(acc, line) \in Progress
<1>1. acc.skip \in Int /\ acc.out \in Seq(Lines) /\ line.indent \in Int
  BY DEF Lines, Progress
<1>2. Append(acc.out, line) \in Seq(Lines)
  BY <1>1
<1>3. /\ [skip |-> -1, out |-> Append(acc.out, line)] \in [skip : Int, out : Seq(Lines)]
      /\ [acc EXCEPT !.out = Append(@, line)] \in [skip : Int, out : Seq(Lines)]
  BY <1>1, <1>2 DEF Progress
<1>4. /\ [acc EXCEPT !.skip = -1] \in [skip : Int, out : Seq(Lines)]
      /\ [acc EXCEPT !.skip = line.indent] \in [skip : Int, out : Seq(Lines)]
  BY <1>1 DEF Progress
<1> QED
  BY <1>3, <1>4 DEF SanitizeLine, Progress

Splitting == [docs : Seq(Seq(Lines)), doc : Seq(Lines)]

LEMMA SplitLineType ==
    ASSUME NEW acc \in Splitting, NEW line \in Lines
    PROVE  SplitLine(acc, line) \in Splitting
<1>1. acc.docs \in Seq(Seq(Lines)) /\ acc.doc \in Seq(Lines)
  BY DEF Splitting
<1>2. Append(acc.docs, acc.doc) \in Seq(Seq(Lines)) /\ Append(acc.doc, line) \in Seq(Lines)
  BY <1>1
<1>3. <<>> \in Seq(Lines)
  OBVIOUS
<1> QED
  BY <1>1, <1>2, <1>3 DEF SplitLine, Splitting

\* The loop of sanitizeDocument, one line after the other.
SanitizesInTurn(f, doc) ==
    /\ f \in [0 .. Len(doc) -> Progress]
    /\ f[0] = [skip |-> -1, out |-> <<>>]
    /\ \A i \in 1 .. Len(doc) : f[i] = SanitizeLine(f[i - 1], doc[i])
    /\ FoldLeft(SanitizeLine, [skip |-> -1, out |-> <<>>], doc) = f[Len(doc)]

LEMMA SanitizedInTurn ==
    ASSUME NEW doc \in Seq(Lines)
    PROVE  \E f : SanitizesInTurn(f, doc)
<1> DEFINE n == Len(doc)
           A == Progress
           base == [skip |-> -1, out |-> <<>>]
           index == doc
           Takes(acc, line) == SanitizeLine(acc, line)
           Solves(g) == g = [s \in SUBSET DOMAIN index |->
                                IF s = {} THEN base ELSE Takes(g[s \ {Max(s)}], index[Max(s)])]
           step == [p \in (1 .. n) \X A |-> Takes(p[2], index[p[1]])]
<1>1. /\ n \in Nat
      /\ DOMAIN index = 1 .. n
      /\ base \in A
  BY DEF Progress
<1>2. \A i \in 1 .. n, out \in A : Takes(out, index[i]) \in A
  <2> SUFFICES ASSUME NEW i \in 1 .. n, NEW out \in A PROVE Takes(out, index[i]) \in A
    OBVIOUS
  <2>1. index[i] \in Lines
    OBVIOUS
  <2> QED
    BY <2>1, SanitizeLineType
<1>3. /\ step \in [(1 .. n) \X A -> A]
      /\ \A i \in 1 .. n, out \in A : step[<<i, out>>] = Takes(out, index[i])
  <2> HIDE DEF A, n, Takes
  <2> QED
    BY <1>2
<1> HIDE DEF n, A, base, step, index, Takes
<1>4. \A s \in SUBSET (1 .. n) :
          s # {} => Max(s) \in 1 .. n /\ s \ {Max(s)} \in SUBSET (1 .. n)
  <2>1. \A s \in SUBSET (1 .. n) : s \in SUBSET (0 .. n)
    OBVIOUS
  <2> QED
    BY <1>1, <2>1, MaxOf
<1>5. \E h : Solves(h)
  <2>1. PICK g : g \in [SUBSET (1 .. n) -> A] /\ Unwinds(g, n, A, base, step)
    BY <1>1, <1>3, Recursion
  <2>2. \A s \in SUBSET (1 .. n) : s # {} => g[s] = Takes(g[s \ {Max(s)}], index[Max(s)])
    BY <1>3, <1>4, <2>1 DEF Unwinds
  <2>3. g = [s \in SUBSET (1 .. n) |->
                IF s = {} THEN base ELSE Takes(g[s \ {Max(s)}], index[Max(s)])]
    BY <2>1, <2>2 DEF Unwinds
  <2> QED
    BY <1>1, <2>3
<1> DEFINE G == CHOOSE h : Solves(h)
<1>6. G = [s \in SUBSET (1 .. n) |->
              IF s = {} THEN base ELSE Takes(G[s \ {Max(s)}], index[Max(s)])]
  <2>1. Solves(G)
    BY <1>5
  <2> QED
    BY <1>1, <2>1
<1>7. FoldLeft(SanitizeLine, [skip |-> -1, out |-> <<>>], doc) = G[1 .. n]
  <2>1. FoldLeft(SanitizeLine, [skip |-> -1, out |-> <<>>], doc) = G[DOMAIN index]
    BY DEF FoldLeft, MapThenFoldSet, index, base, Takes
  <2> QED
    BY <1>1, <2>1
<1> HIDE DEF G
<1>8. Unwinds(G, n, A, base, step)
  BY <1>3, <1>4, <1>6 DEF Unwinds
<1>9. PICK f : RunsTo(G[1 .. n], f, n, A, base, step)
  BY <1>1, <1>3, <1>8, InTurn
<1>10. ASSUME NEW i \in 1 .. n PROVE f[i] = Takes(f[i - 1], index[i])
  <2>1. f[i - 1] \in A /\ f[i] = step[<<i, f[i - 1]>>]
    BY <1>1, <1>9 DEF RunsTo
  <2> QED
    BY <1>3, <2>1
<1>11. \A i \in 1 .. n : f[i] = SanitizeLine(f[i - 1], doc[i])
  BY <1>10 DEF Takes, index, n
<1> QED
  BY <1>7, <1>9, <1>11 DEF n, A, base, RunsTo, SanitizesInTurn

\* The loop of splitYAMLDocuments, one line after the other.
SplitsInTurn(f, manifest) ==
    /\ f \in [0 .. Len(manifest) -> Splitting]
    /\ f[0] = [docs |-> <<>>, doc |-> <<>>]
    /\ \A i \in 1 .. Len(manifest) : f[i] = SplitLine(f[i - 1], manifest[i])
    /\ FoldLeft(SplitLine, [docs |-> <<>>, doc |-> <<>>], manifest) = f[Len(manifest)]

LEMMA SplitInTurn ==
    ASSUME NEW manifest \in Seq(Lines)
    PROVE  \E f : SplitsInTurn(f, manifest)
<1> DEFINE n == Len(manifest)
           A == Splitting
           base == [docs |-> <<>>, doc |-> <<>>]
           index == manifest
           Takes(acc, line) == SplitLine(acc, line)
           Solves(g) == g = [s \in SUBSET DOMAIN index |->
                                IF s = {} THEN base ELSE Takes(g[s \ {Max(s)}], index[Max(s)])]
           step == [p \in (1 .. n) \X A |-> Takes(p[2], index[p[1]])]
<1>1. /\ n \in Nat
      /\ DOMAIN index = 1 .. n
      /\ base \in A
  BY DEF Splitting
<1>2. \A i \in 1 .. n, out \in A : Takes(out, index[i]) \in A
  <2> SUFFICES ASSUME NEW i \in 1 .. n, NEW out \in A PROVE Takes(out, index[i]) \in A
    OBVIOUS
  <2>1. index[i] \in Lines
    OBVIOUS
  <2> QED
    BY <2>1, SplitLineType
<1>3. /\ step \in [(1 .. n) \X A -> A]
      /\ \A i \in 1 .. n, out \in A : step[<<i, out>>] = Takes(out, index[i])
  <2> HIDE DEF A, n, Takes
  <2> QED
    BY <1>2
<1> HIDE DEF n, A, base, step, index, Takes
<1>4. \A s \in SUBSET (1 .. n) :
          s # {} => Max(s) \in 1 .. n /\ s \ {Max(s)} \in SUBSET (1 .. n)
  <2>1. \A s \in SUBSET (1 .. n) : s \in SUBSET (0 .. n)
    OBVIOUS
  <2> QED
    BY <1>1, <2>1, MaxOf
<1>5. \E h : Solves(h)
  <2>1. PICK g : g \in [SUBSET (1 .. n) -> A] /\ Unwinds(g, n, A, base, step)
    BY <1>1, <1>3, Recursion
  <2>2. \A s \in SUBSET (1 .. n) : s # {} => g[s] = Takes(g[s \ {Max(s)}], index[Max(s)])
    BY <1>3, <1>4, <2>1 DEF Unwinds
  <2>3. g = [s \in SUBSET (1 .. n) |->
                IF s = {} THEN base ELSE Takes(g[s \ {Max(s)}], index[Max(s)])]
    BY <2>1, <2>2 DEF Unwinds
  <2> QED
    BY <1>1, <2>3
<1> DEFINE G == CHOOSE h : Solves(h)
<1>6. G = [s \in SUBSET (1 .. n) |->
              IF s = {} THEN base ELSE Takes(G[s \ {Max(s)}], index[Max(s)])]
  <2>1. Solves(G)
    BY <1>5
  <2> QED
    BY <1>1, <2>1
<1>7. FoldLeft(SplitLine, [docs |-> <<>>, doc |-> <<>>], manifest) = G[1 .. n]
  <2>1. FoldLeft(SplitLine, [docs |-> <<>>, doc |-> <<>>], manifest) = G[DOMAIN index]
    BY DEF FoldLeft, MapThenFoldSet, index, base, Takes
  <2> QED
    BY <1>1, <2>1
<1> HIDE DEF G
<1>8. Unwinds(G, n, A, base, step)
  BY <1>3, <1>4, <1>6 DEF Unwinds
<1>9. PICK f : RunsTo(G[1 .. n], f, n, A, base, step)
  BY <1>1, <1>3, <1>8, InTurn
<1>10. ASSUME NEW i \in 1 .. n PROVE f[i] = Takes(f[i - 1], index[i])
  <2>1. f[i - 1] \in A /\ f[i] = step[<<i, f[i - 1]>>]
    BY <1>1, <1>9 DEF RunsTo
  <2> QED
    BY <1>3, <2>1
<1>11. \A i \in 1 .. n : f[i] = SplitLine(f[i - 1], manifest[i])
  BY <1>10 DEF Takes, index, n
<1> QED
  BY <1>7, <1>9, <1>11 DEF n, A, base, RunsTo, SplitsInTurn

-------------------------------------------------------------------------------
(* Texts without their blank lines                                           *)

\* What NonBlank does, one line after the other.
ShowsInTurn(f, lines) ==
    /\ f \in [0 .. Len(lines) -> Seq(Lines)]
    /\ f[0] = <<>>
    /\ \A i \in 1 .. Len(lines) :
           f[i] = IF Blank(lines[i]) THEN f[i - 1] ELSE Append(f[i - 1], lines[i])
    /\ NonBlank(lines) = f[Len(lines)]

LEMMA NonBlankInTurn ==
    ASSUME NEW lines \in Seq(Lines)
    PROVE  \E f : ShowsInTurn(f, lines)
<1> DEFINE chosen == {i \in DOMAIN lines : ~Blank(lines[i])}
<1>1. PICK f : PicksInTurn(f, lines, chosen)
  BY PickedInTurn
<1>2. \A i \in 1 .. Len(lines) : i \in chosen <=> ~Blank(lines[i])
  OBVIOUS
<1>3. NonBlank(lines) = Picked(lines, chosen)
  BY DEF NonBlank
<1> HIDE DEF chosen
<1>4. ShowsInTurn(f, lines)
  BY <1>1, <1>2, <1>3 DEF PicksInTurn, ShowsInTurn
<1> QED
  BY <1>4

LEMMA NonBlankType == ASSUME NEW lines \in Seq(Lines) PROVE NonBlank(lines) \in Seq(Lines)
<1>1. PICK f : ShowsInTurn(f, lines)
  BY NonBlankInTurn
<1>2. Len(lines) \in 0 .. Len(lines)
  OBVIOUS
<1> QED
  BY <1>1, <1>2 DEF ShowsInTurn

LEMMA PickedNone ==
    ASSUME NEW lines \in Seq(Lines), NEW chosen, \A i \in 1 .. Len(lines) : i \notin chosen
    PROVE  Picked(lines, chosen) = <<>>
<1>1. PICK f : PicksInTurn(f, lines, chosen)
  BY PickedInTurn
<1> DEFINE n == Len(lines)
           T == {i \in 0 .. n : f[i] = <<>>}
<1>2. n \in Nat
  OBVIOUS
<1>3. 0 \in T
  BY <1>1, <1>2 DEF PicksInTurn
<1>4. \A i \in 1 .. n : i - 1 \in T => i \in T
  BY <1>1 DEF PicksInTurn
<1> HIDE DEF T, n
<1>5. 0 .. n \subseteq T
  BY <1>2, <1>3, <1>4, InductionTo
<1>6. n \in 0 .. n
  BY <1>2
<1> QED
  BY <1>1, <1>5, <1>6 DEF T, n, PicksInTurn

LEMMA AllBlankIsEmpty ==
    ASSUME NEW lines \in Seq(Lines), \A i \in 1 .. Len(lines) : Blank(lines[i])
    PROVE  NonBlank(lines) = <<>>
<1> DEFINE chosen == {i \in DOMAIN lines : ~Blank(lines[i])}
<1>1. \A i \in 1 .. Len(lines) : i \notin chosen
  OBVIOUS
<1> HIDE DEF chosen
<1>2. Picked(lines, chosen) = <<>>
  BY <1>1, PickedNone
<1> QED
  BY <1>2 DEF NonBlank, chosen

LEMMA NonBlankOfNone == NonBlank(<<>>) = <<>>
<1>1. PICK f : ShowsInTurn(f, <<>>)
  <2>1. <<>> \in Seq(Lines)
    OBVIOUS
  <2> QED
    BY <2>1, NonBlankInTurn
<1>2. Len(<<>>) = 0
  OBVIOUS
<1> QED
  BY <1>1, <1>2 DEF ShowsInTurn

LEMMA ConcatAppend ==
    ASSUME NEW a \in Seq(Lines), NEW b \in Seq(Lines), NEW line \in Lines
    PROVE  a \o Append(b, line) = Append(a \o b, line)
<1>1. Append(b, line) = b \o <<line>> /\ <<line>> \in Seq(Lines) /\ a \o b \in Seq(Lines)
  BY AppendIsConcat
<1>2. Append(a \o b, line) = (a \o b) \o <<line>>
  BY <1>1, AppendIsConcat
<1> QED
  BY <1>1, <1>2, ConcatAssociative

\* Picked takes texts one after the other.
LEMMA PickedConcat ==
    ASSUME NEW a \in Seq(Lines), NEW b \in Seq(Lines), NEW A, NEW B, NEW C,
           \A i \in 1 .. Len(a) : i \in C <=> i \in A,
           \A i \in 1 .. Len(b) : Len(a) + i \in C <=> i \in B
    PROVE  Picked(a \o b, C) = Picked(a, A) \o Picked(b, B)
<1> DEFINE c == a \o b
           m == Len(a)
           n == Len(b)
<1>1. /\ c \in Seq(Lines) /\ m \in Nat /\ n \in Nat /\ Len(c) = m + n
      /\ \A i \in 1 .. m : c[i] = a[i]
      /\ \A i \in 1 .. n : c[m + i] = b[i] /\ b[i] \in Lines
  OBVIOUS
<1> HIDE DEF c
<1>2. PICK f : PicksInTurn(f, a, A)
  BY PickedInTurn
<1>3. PICK g : PicksInTurn(g, b, B)
  BY PickedInTurn
<1>4. PICK h : PicksInTurn(h, c, C)
  BY <1>1, PickedInTurn
<1>5. \A i \in 1 .. m : i \in C <=> i \in A
  OBVIOUS
<1>6. \A i \in 1 .. n : m + i \in C <=> i \in B
  OBVIOUS
<1> HIDE DEF m, n
<1>7. h[m] = f[m]
  <2> DEFINE T == {i \in 0 .. m : h[i] = f[i]}
  <2>1. 0 \in T
    BY <1>1, <1>2, <1>4 DEF PicksInTurn
  <2>2. ASSUME NEW i \in 1 .. m, i - 1 \in T PROVE i \in T
    <3>1. i \in 1 .. Len(c) /\ c[i] = a[i] /\ i \in 0 .. m /\ (i \in C <=> i \in A)
      BY <1>1, <1>5
    <3>2. h[i - 1] = f[i - 1]
      BY <2>2
    <3>3. h[i] = f[i]
      BY <1>2, <1>4, <3>1, <3>2 DEF PicksInTurn, m
    <3> QED
      BY <3>1, <3>3
  <2> HIDE DEF T
  <2>3. 0 .. m \subseteq T
    BY <1>1, <2>1, <2>2, InductionTo
  <2>4. m \in 0 .. m
    BY <1>1
  <2> QED
    BY <2>3, <2>4 DEF T
<1>8. f[m] \in Seq(Lines)
  <2>1. m \in 0 .. m
    BY <1>1
  <2>2. f \in [0 .. m -> Seq(Lines)]
    BY <1>2 DEF PicksInTurn, m
  <2> QED
    BY <2>1, <2>2
<1>9. h[m + n] = f[m] \o g[n]
  <2> DEFINE T == {i \in 0 .. n : h[m + i] = f[m] \o g[i]}
  <2>1. 0 \in T
    <3>1. m + 0 = m /\ g[0] = <<>> /\ 0 \in 0 .. n
      BY <1>1, <1>3 DEF PicksInTurn
    <3>2. f[m] \o <<>> = f[m]
      BY <1>8, ConcatEmptySeq
    <3> QED
      BY <1>7, <3>1, <3>2
  <2>2. ASSUME NEW i \in 1 .. n, i - 1 \in T PROVE i \in T
    <3>1. /\ m + i \in 1 .. Len(c) /\ c[m + i] = b[i] /\ (m + i) - 1 = m + (i - 1)
          /\ i - 1 \in 0 .. n /\ i \in 0 .. n /\ b[i] \in Lines
      BY <1>1
    <3>2. h[(m + i) - 1] = f[m] \o g[i - 1]
      BY <2>2, <3>1
    <3>3. g[i - 1] \in Seq(Lines)
      BY <1>3, <3>1 DEF n, PicksInTurn
    <3>4. f[m] \o Append(g[i - 1], b[i]) = Append(f[m] \o g[i - 1], b[i])
      BY <1>8, <3>1, <3>3, ConcatAppend
    <3>5. g[i] = IF i \in B THEN Append(g[i - 1], b[i]) ELSE g[i - 1]
      BY <1>3 DEF PicksInTurn, n
    <3>6. h[m + i] = IF i \in B THEN Append(f[m] \o g[i - 1], b[i]) ELSE f[m] \o g[i - 1]
      <4>1. \A j \in 1 .. Len(c) : h[j] = IF j \in C THEN Append(h[j - 1], c[j]) ELSE h[j - 1]
        BY <1>4 DEF PicksInTurn
      <4> DEFINE k == m + i
      <4>2. k \in 1 .. Len(c) /\ c[k] = b[i] /\ (k \in C <=> i \in B)
        BY <3>1, <1>6
      <4>3. h[k - 1] = f[m] \o g[i - 1]
        BY <3>2
      <4> HIDE DEF k
      <4>4. h[k] = IF k \in C THEN Append(h[k - 1], c[k]) ELSE h[k - 1]
        BY <4>1, <4>2
      <4>5. h[k] = IF i \in B THEN Append(f[m] \o g[i - 1], b[i]) ELSE f[m] \o g[i - 1]
        BY <4>2, <4>3, <4>4
      <4> QED
        BY <4>5 DEF k
    <3>7. h[m + i] = f[m] \o g[i]
      BY <3>4, <3>5, <3>6
    <3> QED
      BY <3>1, <3>7
  <2> HIDE DEF T
  <2>3. 0 .. n \subseteq T
    BY <1>1, <2>1, <2>2, InductionTo
  <2>4. n \in 0 .. n
    BY <1>1
  <2> QED
    BY <2>3, <2>4 DEF T
<1> QED
  BY <1>1, <1>2, <1>3, <1>4, <1>9 DEF c, m, n, PicksInTurn

\* So does NonBlank.
LEMMA NonBlankConcat ==
    ASSUME NEW a \in Seq(Lines), NEW b \in Seq(Lines)
    PROVE  NonBlank(a \o b) = NonBlank(a) \o NonBlank(b)
<1> DEFINE A == {i \in DOMAIN a : ~Blank(a[i])}
           B == {i \in DOMAIN b : ~Blank(b[i])}
           C == {i \in DOMAIN (a \o b) : ~Blank((a \o b)[i])}
<1>1. /\ DOMAIN (a \o b) = 1 .. Len(a) + Len(b) /\ Len(a) \in Nat /\ Len(b) \in Nat
      /\ \A i \in 1 .. Len(a) : (a \o b)[i] = a[i]
      /\ \A i \in 1 .. Len(b) : (a \o b)[Len(a) + i] = b[i]
  OBVIOUS
<1>2. /\ \A i \in 1 .. Len(a) : i \in C <=> i \in A
      /\ \A i \in 1 .. Len(b) : Len(a) + i \in C <=> i \in B
  BY <1>1
<1> HIDE DEF A, B, C
<1>3. Picked(a \o b, C) = Picked(a, A) \o Picked(b, B)
  BY <1>2, PickedConcat
<1> QED
  BY <1>3 DEF NonBlank, A, B, C

LEMMA NonBlankOfOne ==
    ASSUME NEW line \in Lines
    PROVE  NonBlank(<<line>>) = IF Blank(line) THEN <<>> ELSE <<line>>
<1>1. <<line>> \in Seq(Lines) /\ Len(<<line>>) = 1 /\ <<line>>[1] = line
  OBVIOUS
<1>2. PICK f : ShowsInTurn(f, <<line>>)
  BY <1>1, NonBlankInTurn
<1>3. f[1] = IF Blank(line) THEN f[0] ELSE Append(f[0], line)
  BY <1>1, <1>2 DEF ShowsInTurn
<1> QED
  BY <1>1, <1>2, <1>3 DEF ShowsInTurn

LEMMA NonBlankAppend ==
    ASSUME NEW lines \in Seq(Lines), NEW line \in Lines
    PROVE  NonBlank(Append(lines, line)) =
               IF Blank(line) THEN NonBlank(lines) ELSE Append(NonBlank(lines), line)
<1>1. Append(lines, line) = lines \o <<line>> /\ <<line>> \in Seq(Lines)
  BY AppendIsConcat
<1>2. NonBlank(Append(lines, line)) = NonBlank(lines) \o NonBlank(<<line>>)
  BY <1>1, NonBlankConcat
<1>3. NonBlank(lines) \in Seq(Lines)
  BY NonBlankType
<1>4. Append(NonBlank(lines), line) = NonBlank(lines) \o <<line>>
  BY <1>3, AppendIsConcat
<1>5. NonBlank(lines) \o <<>> = NonBlank(lines)
  BY <1>3, ConcatEmptySeq
<1> QED
  BY <1>2, <1>4, <1>5, NonBlankOfOne

-------------------------------------------------------------------------------
(* sanitize.go: which lines a block has                                      *)

\* A line of a block as sanitizeDocument sees it: an earlier line opens one, and
\* every line since is deeper.
Within(doc, i) ==
    \E j \in 1 .. i - 1 :
        /\ Opens(doc[j])
        /\ \A k \in j + 1 .. i : Blank(doc[k]) \/ doc[k].indent > doc[j].indent

\* The lines with something on them that are neither noisy nor in a block.
KeptLines(doc) == {i \in DOMAIN doc : ~Blank(doc[i]) /\ ~Noisy(doc[i]) /\ ~Within(doc, i)}
Kept(doc) == Picked(doc, KeptLines(doc))

\* Line j has opened a block that line i is in, or it is line i itself.
Reaches(doc, j, i) ==
    /\ j <= i /\ Opens(doc[j])
    /\ \A k \in j + 1 .. i : Blank(doc[k]) \/ doc[k].indent > doc[j].indent

\* The loop skips the outermost block that is open.
SkipsOutermost(skip, doc, i) ==
    /\ skip >= 0 => \E j \in 1 .. i : Reaches(doc, j, i) /\ doc[j].indent = skip
    /\ skip < 0 => skip = -1 /\ \A j \in 1 .. i : ~Reaches(doc, j, i)
    /\ \A j \in 1 .. i : Reaches(doc, j, i) => doc[j].indent >= skip

\* A line reaches the next one if that is blank or deeper.
LEMMA ReachesNext ==
    ASSUME NEW doc \in Seq(Lines), NEW i \in 0 .. Len(doc) - 1, NEW j \in 1 .. i
    PROVE  Reaches(doc, j, i + 1) <=>
               Reaches(doc, j, i) /\ (Blank(doc[i + 1]) \/ doc[i + 1].indent > doc[j].indent)
<1>1. j + 1 .. i + 1 = (j + 1 .. i) \cup {i + 1}
  OBVIOUS
<1>2. j <= i /\ j <= i + 1
  OBVIOUS
<1> QED
  BY <1>1, <1>2 DEF Reaches

LEMMA ReachesItself ==
    ASSUME NEW doc \in Seq(Lines), NEW i \in 1 .. Len(doc)
    PROVE  Reaches(doc, i, i) <=> Opens(doc[i])
BY DEF Reaches

\* A line is in a block exactly if one that reached the line before reaches it too.
LEMMA WithinReached ==
    ASSUME NEW doc \in Seq(Lines), NEW i \in 1 .. Len(doc)
    PROVE  Within(doc, i) <=>
               \E j \in 1 .. i - 1 :
                   /\ Reaches(doc, j, i - 1)
                   /\ Blank(doc[i]) \/ doc[i].indent > doc[j].indent
<1>1. ASSUME NEW j \in 1 .. i - 1
      PROVE  Reaches(doc, j, i) <=>
                 Reaches(doc, j, i - 1) /\ (Blank(doc[i]) \/ doc[i].indent > doc[j].indent)
  <2>1. i - 1 \in 0 .. Len(doc) - 1 /\ (i - 1) + 1 = i
    OBVIOUS
  <2> QED
    BY <2>1, ReachesNext
<1>2. Within(doc, i) <=> \E j \in 1 .. i - 1 : Reaches(doc, j, i)
  BY DEF Within, Reaches
<1> QED
  BY <1>1, <1>2

\* One turn of the loop keeps SkipsOutermost, and writes a line that is not blank
\* if and only if it is to be kept.
LEMMA SanitizeTurn ==
    ASSUME NEW doc \in Seq(Lines), NEW i \in 1 .. Len(doc), NEW acc \in Progress,
           SkipsOutermost(acc.skip, doc, i - 1)
    PROVE  LET next == SanitizeLine(acc, doc[i])
               kept == ~Blank(doc[i]) /\ ~Noisy(doc[i]) /\ ~Within(doc, i)
           IN  /\ SkipsOutermost(next.skip, doc, i)
               /\ kept => next.out = Append(acc.out, doc[i])
               /\ ~kept => \/ next.out = acc.out
                           \/ Blank(doc[i]) /\ next.out = Append(acc.out, doc[i])
<1> DEFINE line == doc[i]
           next == SanitizeLine(acc, line)
           kept == ~Blank(line) /\ ~Noisy(line) /\ ~Within(doc, i)
           Deeper(j) == Blank(line) \/ line.indent > doc[j].indent
<1>1. /\ line \in Lines /\ line.indent \in Nat /\ acc.skip \in Int
      /\ \A j \in 1 .. i : doc[j].indent \in Nat
      /\ i - 1 \in 0 .. Len(doc) - 1 /\ (i - 1) + 1 = i
      /\ 1 .. i = (1 .. i - 1) \cup {i}
      /\ acc = [skip |-> acc.skip, out |-> acc.out]
  <2>1. \A j \in 1 .. i : doc[j] \in Lines
    OBVIOUS
  <2> QED
    BY <2>1 DEF Lines, Progress
<1>2. \A j \in 1 .. i - 1 : Reaches(doc, j, i) <=> Reaches(doc, j, i - 1) /\ Deeper(j)
  BY <1>1, ReachesNext
<1>3. Reaches(doc, i, i) <=> Opens(line)
  BY ReachesItself
<1>4. Within(doc, i) <=> \E j \in 1 .. i - 1 : Reaches(doc, j, i - 1) /\ Deeper(j)
  BY WithinReached
<1>5. Blank(line) => ~Opens(line)
  BY DEF Blank, Opens
<1> HIDE DEF line
<1>6. CASE Blank(line)
  <2>1. next.skip = acc.skip
    BY <1>1, <1>6 DEF SanitizeLine
  <2>2. \A j \in 1 .. i : Reaches(doc, j, i) <=> j \in 1 .. i - 1 /\ Reaches(doc, j, i - 1)
    BY <1>1, <1>2, <1>3, <1>5, <1>6
  <2>3. SkipsOutermost(next.skip, doc, i)
    BY <1>1, <2>1, <2>2 DEF SkipsOutermost
  <2>4. next.out = acc.out \/ next.out = Append(acc.out, line)
    BY <1>1, <1>6 DEF SanitizeLine
  <2> QED
    BY <1>6, <2>3, <2>4 DEF line
<1>7. CASE ~Blank(line) /\ acc.skip >= 0 /\ line.indent > acc.skip
  <2>1. next = acc
    BY <1>7 DEF SanitizeLine
  <2>2. PICK o \in 1 .. i - 1 : Reaches(doc, o, i - 1) /\ doc[o].indent = acc.skip
    BY <1>1, <1>7 DEF SkipsOutermost
  <2>3. Within(doc, i)
    BY <1>4, <1>7, <2>2
  <2>4. Reaches(doc, o, i) /\ o \in 1 .. i
    BY <1>1, <1>2, <1>7, <2>2
  <2>5. \A j \in 1 .. i : Reaches(doc, j, i) => doc[j].indent >= acc.skip
    <3> SUFFICES ASSUME NEW j \in 1 .. i, Reaches(doc, j, i) PROVE doc[j].indent >= acc.skip
      OBVIOUS
    <3>1. CASE j = i
      BY <1>1, <1>7, <3>1 DEF line
    <3>2. CASE j \in 1 .. i - 1
      BY <1>2, <3>2 DEF SkipsOutermost
    <3> QED
      BY <1>1, <3>1, <3>2
  <2>6. SkipsOutermost(next.skip, doc, i)
    BY <1>1, <1>7, <2>1, <2>2, <2>4, <2>5 DEF SkipsOutermost
  <2> QED
    BY <2>1, <2>3, <2>6 DEF line
<1>8. CASE ~Blank(line) /\ ~(acc.skip >= 0 /\ line.indent > acc.skip)
  <2>1. \A j \in 1 .. i - 1 : ~(Reaches(doc, j, i - 1) /\ Deeper(j))
    <3> SUFFICES ASSUME NEW j \in 1 .. i - 1, Reaches(doc, j, i - 1), Deeper(j) PROVE FALSE
      OBVIOUS
    <3>1. acc.skip >= 0
      BY <1>1 DEF SkipsOutermost
    <3>2. doc[j].indent >= acc.skip /\ doc[j].indent \in Nat
      BY <1>1 DEF SkipsOutermost
    <3>3. line.indent > doc[j].indent
      BY <1>8
    <3> QED
      BY <1>1, <1>8, <3>1, <3>2, <3>3
  <2>2. ~Within(doc, i)
    BY <1>4, <2>1
  <2>3. \A j \in 1 .. i : Reaches(doc, j, i) <=> j = i /\ Opens(line)
    BY <1>1, <1>2, <1>3, <2>1
  <2>4. CASE Opens(line)
    <3>1. next.skip = line.indent /\ next.out = acc.out
      BY <1>1, <1>8, <2>4 DEF SanitizeLine
    <3>2. SkipsOutermost(next.skip, doc, i)
      BY <1>1, <2>3, <2>4, <3>1 DEF SkipsOutermost, line
    <3> QED
      BY <2>4, <3>1, <3>2 DEF line, Noisy
  <2>5. CASE ~Opens(line)
    <3>1. /\ next.skip = -1
          /\ next.out = IF Noisy(line) THEN acc.out ELSE Append(acc.out, line)
      BY <1>1, <1>8, <2>5 DEF SanitizeLine
    <3>2. SkipsOutermost(next.skip, doc, i)
      BY <1>1, <2>3, <2>5, <3>1 DEF SkipsOutermost
    <3> QED
      BY <1>8, <2>2, <3>1, <3>2 DEF line
  <2> QED
    BY <2>4, <2>5
<1> QED
  BY <1>6, <1>7, <1>8

-------------------------------------------------------------------------------
(* sanitize.go: nothing but the noise is lost                                *)

\* What sanitizeDocument's loop writes.
Looped(doc) == FoldLeft(SanitizeLine, [skip |-> -1, out |-> <<>>], doc).out

\* sanitizeDocument's loop writes the lines to keep, and blank lines.
LEMMA LoopIsExact ==
    ASSUME NEW doc \in Seq(Lines)
    PROVE  /\ Looped(doc) \in Seq(Lines)
           /\ Kept(doc) \in Seq(Lines)
           /\ NonBlank(Looped(doc)) = Kept(doc)
<1> DEFINE n == Len(doc)
           kept == KeptLines(doc)
<1>1. PICK f : SanitizesInTurn(f, doc)
  BY SanitizedInTurn
<1>2. PICK g : PicksInTurn(g, doc, kept)
  <2> HIDE DEF kept
  <2> QED
    BY PickedInTurn
<1>3. /\ n \in Nat
      /\ \A i \in 1 .. n : i - 1 \in 0 .. n /\ doc[i] \in Lines
      /\ \A i \in 1 .. n : i \in kept <=> ~Blank(doc[i]) /\ ~Noisy(doc[i]) /\ ~Within(doc, i)
  BY DEF KeptLines
<1> HIDE DEF kept
<1>4. /\ \A i \in 0 .. n : f[i] \in Progress /\ f[i].out \in Seq(Lines) /\ g[i] \in Seq(Lines)
      /\ \A i \in 1 .. n : f[i] = SanitizeLine(f[i - 1], doc[i])
      /\ \A i \in 1 .. n : g[i] = IF i \in kept THEN Append(g[i - 1], doc[i]) ELSE g[i - 1]
  BY <1>1, <1>2 DEF SanitizesInTurn, PicksInTurn, Progress
<1> DEFINE T == {i \in 0 .. n : SkipsOutermost(f[i].skip, doc, i) /\ NonBlank(f[i].out) = g[i]}
<1>5. 0 \in T
  <2>1. f[0].skip = -1 /\ f[0].out = <<>> /\ g[0] = <<>>
    BY <1>1, <1>2 DEF SanitizesInTurn, PicksInTurn
  <2>2. NonBlank(<<>>) = <<>>
    BY NonBlankOfNone
  <2>3. SkipsOutermost(f[0].skip, doc, 0)
    BY <2>1 DEF SkipsOutermost
  <2> QED
    BY <1>3, <2>1, <2>2, <2>3
<1>6. ASSUME NEW i \in 1 .. n, i - 1 \in T PROVE i \in T
  <2>1. f[i - 1] \in Progress /\ f[i - 1].out \in Seq(Lines) /\ doc[i] \in Lines
    BY <1>3, <1>4
  <2>2. SkipsOutermost(f[i - 1].skip, doc, i - 1) /\ NonBlank(f[i - 1].out) = g[i - 1]
    BY <1>6
  <2>3. f[i] = SanitizeLine(f[i - 1], doc[i])
    BY <1>4
  <2>4. /\ SkipsOutermost(f[i].skip, doc, i)
        /\ i \in kept => f[i].out = Append(f[i - 1].out, doc[i])
        /\ i \notin kept => \/ f[i].out = f[i - 1].out
                            \/ Blank(doc[i]) /\ f[i].out = Append(f[i - 1].out, doc[i])
    <3> DEFINE acc == f[i - 1]
               next == SanitizeLine(acc, doc[i])
    <3>1. i \in 1 .. Len(doc)
      OBVIOUS
    <3>2. i \in kept <=> ~Blank(doc[i]) /\ ~Noisy(doc[i]) /\ ~Within(doc, i)
      BY <1>3
    <3>3. acc \in Progress /\ SkipsOutermost(acc.skip, doc, i - 1)
      BY <2>1, <2>2
    <3> HIDE DEF acc
    <3>4. /\ SkipsOutermost(next.skip, doc, i)
          /\ i \in kept => next.out = Append(acc.out, doc[i])
          /\ i \notin kept => \/ next.out = acc.out
                              \/ Blank(doc[i]) /\ next.out = Append(acc.out, doc[i])
      BY <3>1, <3>2, <3>3, SanitizeTurn
    <3> QED
      BY <2>3, <3>4 DEF acc
  <2>5. NonBlank(Append(f[i - 1].out, doc[i])) =
            IF Blank(doc[i]) THEN NonBlank(f[i - 1].out)
            ELSE Append(NonBlank(f[i - 1].out), doc[i])
    BY <2>1, NonBlankAppend
  <2>6. g[i] = IF i \in kept THEN Append(g[i - 1], doc[i]) ELSE g[i - 1]
    BY <1>4
  <2>7. i \in kept => ~Blank(doc[i])
    BY <1>3
  <2>8. NonBlank(f[i].out) = g[i]
    BY <2>2, <2>4, <2>5, <2>6, <2>7
  <2> QED
    BY <2>4, <2>8
<1> HIDE DEF T, n
<1>7. n \in T
  <2>1. 0 .. n \subseteq T
    BY <1>3, <1>5, <1>6, InductionTo
  <2> QED
    BY <1>3, <2>1
<1>8. n \in 0 .. n /\ NonBlank(f[n].out) = g[n]
  BY <1>7 DEF T
<1>9. Looped(doc) = f[n].out
  BY <1>1 DEF SanitizesInTurn, Looped, n
<1>10. Kept(doc) = g[n]
  BY <1>2 DEF PicksInTurn, Kept, kept, n
<1> QED
  BY <1>4, <1>8, <1>9, <1>10

\* Only empty lines are trimmed.
LEMMA TrimRightKeeps ==
    ASSUME NEW lines \in Seq(Lines)
    PROVE  TrimRight(lines) \in Seq(Lines) /\ NonBlank(TrimRight(lines)) = NonBlank(lines)
<1> DEFINE I == {i \in 1 .. Len(lines) : ~Empty(lines[i])}
           last == IF I # {} THEN Max(I) ELSE 0
<1>1. TrimRight(lines) = SubSeq(lines, 1, last)
  BY DEF TrimRight, SelectLastInSeq
<1>2. Len(lines) \in Nat /\ \A i \in 1 .. Len(lines) : lines[i] \in Lines
  OBVIOUS
<1>3. last \in 0 .. Len(lines) /\ \A i \in last + 1 .. Len(lines) : Empty(lines[i])
  <2>1. CASE I = {}
    BY <1>2, <2>1
  <2>2. CASE I # {}
    <3>1. I \in SUBSET (0 .. Len(lines))
      OBVIOUS
    <3>2. Max(I) \in I /\ \A i \in I : i <= Max(I)
      <4> HIDE DEF I
      <4> QED
        BY <1>2, <2>2, <3>1, MaxOf
    <3>3. last = Max(I)
      BY <2>2
    <3> HIDE DEF last
    <3>4. last \in I /\ \A i \in I : i <= last
      BY <3>2, <3>3
    <3>5. last \in 1 .. Len(lines)
      BY <3>4
    <3>6. ASSUME NEW i \in last + 1 .. Len(lines) PROVE Empty(lines[i])
      <4>1. i \in 1 .. Len(lines) /\ ~(i <= last)
        BY <1>2, <3>5
      <4>2. i \notin I
        BY <3>4, <4>1
      <4> QED
        BY <4>1, <4>2
    <3> QED
      BY <1>2, <3>5, <3>6
  <2> QED
    BY <2>1, <2>2
<1> HIDE DEF last, I
<1> DEFINE front == SubSeq(lines, 1, last)
           rest == SubSeq(lines, last + 1, Len(lines))
<1>4. front \o rest = lines
  <2>1. SubSeq(lines, 1, Len(lines)) = lines
    BY SubSeqFull
  <2>2. /\ 1 \in 1 .. Len(lines) + 1
        /\ last \in 1 - 1 .. Len(lines)
        /\ Len(lines) \in last .. Len(lines)
    BY <1>2, <1>3
  <2>3. SubSeq(lines, 1, last) \o SubSeq(lines, last + 1, Len(lines))
            = SubSeq(lines, 1, Len(lines))
    BY <2>2, ConcatAdjacentSubSeq
  <2> QED
    BY <2>1, <2>3
<1>5. front \in Seq(Lines)
  BY <1>2, <1>3
<1>6. rest \in Seq(Lines) /\ \A i \in 1 .. Len(rest) : Blank(rest[i])
  <2>1. /\ rest \in Seq(Lines)
        /\ Len(rest) = IF last + 1 <= Len(lines) THEN Len(lines) - (last + 1) + 1 ELSE 0
        /\ \A i \in 1 .. Len(lines) - (last + 1) + 1 : rest[i] = lines[last + 1 + i - 1]
    BY <1>2, <1>3, SubSeqProperties
  <2> HIDE DEF rest
  <2>2. ASSUME NEW i \in 1 .. Len(rest) PROVE Blank(rest[i])
    <3>1. /\ i \in 1 .. Len(lines) - (last + 1) + 1
          /\ last + 1 + i - 1 \in last + 1 .. Len(lines)
      BY <1>2, <1>3, <2>1
    <3>2. rest[i] = lines[last + 1 + i - 1]
      BY <2>1, <3>1
    <3>3. Empty(rest[i])
      BY <1>3, <3>1, <3>2
    <3> QED
      BY <3>3 DEF Empty
  <2> QED
    BY <2>1, <2>2
<1> HIDE DEF front, rest
<1>7. NonBlank(lines) = NonBlank(front) \o NonBlank(rest)
  BY <1>4, <1>5, <1>6, NonBlankConcat
<1>8. NonBlank(rest) = <<>>
  BY <1>6, AllBlankIsEmpty
<1>9. NonBlank(front) \o <<>> = NonBlank(front)
  BY <1>5, NonBlankType, ConcatEmptySeq
<1> QED
  BY <1>1, <1>5, <1>7, <1>8, <1>9 DEF front

\* So does sanitizeDocument, whose last newline adds a blank line at most.
LEMMA SanitizeDocumentIsExact ==
    ASSUME NEW doc \in Seq(Lines)
    PROVE  SanitizeDocument(doc) \in Seq(Lines) /\ NonBlank(SanitizeDocument(doc)) = Kept(doc)
<1> DEFINE out == TrimRight(Looped(doc))
<1>1. out \in Seq(Lines) /\ NonBlank(out) = Kept(doc)
  BY LoopIsExact, TrimRightKeeps
<1>2. SanitizeDocument(doc) = IF out = <<>> THEN <<BlankLine>> ELSE out
  BY DEF SanitizeDocument, Looped
<1> HIDE DEF out
<1>3. <<BlankLine>> \in Seq(Lines) /\ NonBlank(<<BlankLine>>) = <<>>
  <2>1. BlankLine \in Lines /\ Blank(BlankLine)
    BY SeparatorIsLine DEF BlankLine, Blank
  <2> QED
    BY <2>1, NonBlankOfOne
<1> QED
  BY <1>1, <1>2, <1>3, NonBlankOfNone

LEMMA JoinType == ASSUME NEW texts \in Seq(Seq(Lines)) PROVE Join(texts) \in Seq(Lines)
<1>1. PICK f : JoinsInTurn(f, texts)
  BY JoinInTurn
<1>2. Len(texts) \in 0 .. Len(texts)
  OBVIOUS
<1> QED
  BY <1>1, <1>2 DEF JoinsInTurn

\* Taking the blank lines out of the texts takes them out of what they make.
LEMMA NonBlankJoin ==
    ASSUME NEW a \in Seq(Seq(Lines)), NEW b \in Seq(Seq(Lines)), Len(a) = Len(b),
           \A i \in 1 .. Len(a) : NonBlank(a[i]) = b[i]
    PROVE  NonBlank(Join(a)) = Join(b)
<1>1. PICK f : JoinsInTurn(f, a)
  BY JoinInTurn
<1>2. PICK g : JoinsInTurn(g, b)
  BY JoinInTurn
<1> DEFINE n == Len(a)
           Sep(i) == IF i = 1 THEN <<>> ELSE <<Separator>>
           T == {i \in 0 .. n : NonBlank(f[i]) = g[i]}
<1>3. n \in Nat /\ \A i \in 1 .. n : i - 1 \in 0 .. n /\ a[i] \in Seq(Lines)
  OBVIOUS
<1>4. \A i \in 0 .. n : f[i] \in Seq(Lines)
  BY <1>1 DEF JoinsInTurn
<1>5. \A i : Sep(i) \in Seq(Lines) /\ NonBlank(Sep(i)) = Sep(i)
  <2>1. Separator \in Lines /\ ~Blank(Separator)
    BY SeparatorIsLine DEF Separator, Blank
  <2>2. <<Separator>> \in Seq(Lines) /\ <<>> \in Seq(Lines)
    BY <2>1
  <2>3. NonBlank(<<Separator>>) = <<Separator>>
    BY <2>1, NonBlankOfOne
  <2> QED
    BY <2>2, <2>3, NonBlankOfNone
<1>6. /\ \A i \in 1 .. n : f[i] = f[i - 1] \o Sep(i) \o a[i]
      /\ \A i \in 1 .. n : g[i] = g[i - 1] \o Sep(i) \o b[i]
  BY <1>1, <1>2 DEF JoinsInTurn
<1>7. 0 \in T
  BY <1>1, <1>2, <1>3, NonBlankOfNone DEF JoinsInTurn
<1> HIDE DEF Sep
<1>8. ASSUME NEW i \in 1 .. n, i - 1 \in T PROVE i \in T
  <2>1. /\ f[i - 1] \in Seq(Lines) /\ a[i] \in Seq(Lines) /\ Sep(i) \in Seq(Lines)
        /\ f[i - 1] \o Sep(i) \in Seq(Lines)
    BY <1>3, <1>4, <1>5
  <2>2. NonBlank(f[i - 1] \o Sep(i)) = NonBlank(f[i - 1]) \o Sep(i)
    BY <1>5, <2>1, NonBlankConcat
  <2>3. NonBlank(f[i - 1] \o Sep(i) \o a[i]) = NonBlank(f[i - 1] \o Sep(i)) \o NonBlank(a[i])
    BY <2>1, NonBlankConcat
  <2>4. NonBlank(f[i - 1]) = g[i - 1] /\ NonBlank(a[i]) = b[i]
    BY <1>8
  <2>5. NonBlank(f[i]) = g[i]
    BY <1>6, <2>2, <2>3, <2>4
  <2> QED
    BY <2>5
<1> HIDE DEF T, n
<1>9. n \in T
  <2>1. 0 .. n \subseteq T
    BY <1>3, <1>7, <1>8, InductionTo
  <2> QED
    BY <1>3, <2>1
<1> QED
  BY <1>1, <1>2, <1>9 DEF T, n, JoinsInTurn

LEMMA SplitType ==
    ASSUME NEW manifest \in Seq(Lines)
    PROVE  SplitYAMLDocuments(manifest) \in Seq(Seq(Lines))
<1>1. PICK f : SplitsInTurn(f, manifest)
  BY SplitInTurn
<1> DEFINE split == FoldLeft(SplitLine, [docs |-> <<>>, doc |-> <<>>], manifest)
<1>2. split \in Splitting
  <2>1. Len(manifest) \in 0 .. Len(manifest)
    OBVIOUS
  <2> QED
    BY <1>1, <2>1 DEF SplitsInTurn
<1>3. SplitYAMLDocuments(manifest) =
          IF split.doc = <<>> THEN split.docs ELSE Append(split.docs, split.doc)
  BY DEF SplitYAMLDocuments
<1> HIDE DEF split
<1>4. split.docs \in Seq(Seq(Lines)) /\ split.doc \in Seq(Lines)
  BY <1>2 DEF Splitting
<1> QED
  BY <1>3, <1>4

LEMMA TrimSpaceType ==
    ASSUME NEW doc \in Seq(Lines), ~AllBlank(doc)
    PROVE  TrimSpace(doc) \in Seq(Lines)
<1> DEFINE I == {i \in 1 .. Len(doc) : ~Blank(doc[i])}
<1>1. Len(doc) \in Nat /\ \A i \in 1 .. Len(doc) : doc[i] \in Lines
  OBVIOUS
<1>2. I # {} /\ I \in SUBSET (0 .. Len(doc)) /\ I \in SUBSET Nat /\ I \in SUBSET (1 .. Len(doc))
  BY DEF AllBlank
<1>3. TrimSpace(doc) = [SubSeq(doc, Min(I), Max(I)) EXCEPT ![1].indent = 0]
  BY <1>2 DEF TrimSpace, SelectInSeq, SelectLastInSeq
<1> HIDE DEF I
<1>4. Min(I) \in I /\ Max(I) \in I /\ \A i \in I : Min(I) <= i
  BY <1>1, <1>2, MinOf, MaxOf
<1> DEFINE first == Min(I)
           last == Max(I)
           kept == SubSeq(doc, first, last)
<1>5. first \in 1 .. Len(doc) /\ last \in first .. Len(doc)
  <2>1. first \in 1 .. Len(doc) /\ last \in 1 .. Len(doc) /\ first <= last
    BY <1>2, <1>4
  <2> QED
    BY <2>1
<1> HIDE DEF first, last
<1>6. kept \in Seq(Lines) /\ 1 \in 1 .. Len(kept)
  <2>1. \A i \in first .. last : doc[i] \in Lines
    BY <1>1, <1>5
  <2>2. kept \in Seq(Lines) /\ Len(kept) = IF first <= last THEN last - first + 1 ELSE 0
    BY <1>5, <2>1, SubSeqProperties
  <2> QED
    BY <1>5, <2>2
<1> HIDE DEF kept
<1>7. [kept[1] EXCEPT !.indent = 0] \in Lines
  <2>1. kept[1] \in Lines
    BY <1>6
  <2> QED
    BY <2>1 DEF Lines
<1>8. [kept EXCEPT ![1] = [kept[1] EXCEPT !.indent = 0]] \in Seq(Lines)
  BY <1>6, <1>7, ExceptSeq
<1> QED
  BY <1>3, <1>8 DEF kept, first, last

-------------------------------------------------------------------------------
(* sanitize.go: documents                                                    *)

LEMMA WithinReaches ==
    ASSUME NEW doc, NEW i \in Nat
    PROVE  Within(doc, i) <=> \E j \in 1 .. i - 1 : Reaches(doc, j, i)
<1>1. \A j \in 1 .. i - 1 : j <= i
  OBVIOUS
<1> QED
  BY <1>1 DEF Within, Reaches

\* The blocks of a text that follows another are its own, if no line of the first
\* text has opened one that reaches it.
LEMMA WithinRest ==
    ASSUME NEW a \in Seq(Lines), NEW b \in Seq(Lines), NEW i \in 1 .. Len(b),
           \A j \in 1 .. Len(a) : ~Reaches(a \o b, j, Len(a) + i)
    PROVE  Within(a \o b, Len(a) + i) <=> Within(b, i)
<1> DEFINE c == a \o b
           m == Len(a)
           p == m + i
<1>1. /\ m \in Nat /\ i \in Nat /\ p \in Nat /\ p = m + i
      /\ \A l \in 1 .. i : c[m + l] = b[l]
      /\ \A j \in 1 .. m : ~Reaches(c, j, p)
  OBVIOUS
<1> HIDE DEF c, m, p
<1>2. ASSUME NEW j \in 1 .. i - 1 PROVE Reaches(c, m + j, p) <=> Reaches(b, j, i)
  <2> DEFINE q == m + j
  <2>1. /\ c[q] = b[j] /\ q <= p /\ j <= i
        /\ \A l \in q + 1 .. p : l - m \in j + 1 .. i /\ l - m \in 1 .. i /\ m + (l - m) = l
        /\ \A l \in j + 1 .. i : m + l \in q + 1 .. p /\ l \in 1 .. i
    BY <1>1
  <2> HIDE DEF q
  <2>2. \A l \in q + 1 .. p : c[l] = b[l - m]
    BY <1>1, <2>1
  <2>3. \A l \in j + 1 .. i : c[m + l] = b[l]
    BY <1>1, <2>1
  <2>4. Reaches(b, j, i) => Reaches(c, q, p)
    BY <2>1, <2>2 DEF Reaches
  <2>5. Reaches(c, q, p) => Reaches(b, j, i)
    BY <2>1, <2>3 DEF Reaches
  <2> QED
    BY <2>4, <2>5 DEF q
<1>3. \A j \in 1 .. p - 1 : j \in 1 .. m \/ (j - m \in 1 .. i - 1 /\ m + (j - m) = j)
  BY <1>1
<1>4. \A j \in 1 .. i - 1 : m + j \in 1 .. p - 1
  BY <1>1
<1>5. ASSUME NEW j \in 1 .. p - 1, Reaches(c, j, p) PROVE \E k \in 1 .. i - 1 : Reaches(b, k, i)
  <2>1. j - m \in 1 .. i - 1 /\ m + (j - m) = j
    BY <1>1, <1>3, <1>5
  <2>2. Reaches(b, j - m, i)
    BY <1>2, <1>5, <2>1
  <2> QED
    BY <2>1, <2>2
<1>6. ASSUME NEW j \in 1 .. i - 1, Reaches(b, j, i) PROVE \E k \in 1 .. p - 1 : Reaches(c, k, p)
  BY <1>2, <1>4, <1>6
<1>7. Within(b, i) <=> \E j \in 1 .. i - 1 : Reaches(b, j, i)
  BY <1>1, WithinReaches
<1>8. Within(c, p) <=> \E j \in 1 .. p - 1 : Reaches(c, j, p)
  BY <1>1, WithinReaches
<1> QED
  BY <1>5, <1>6, <1>7, <1>8 DEF c, m, p

\* Keeping takes texts one after the other, if no block of the first reaches a line
\* of the second.
LEMMA KeptConcat ==
    ASSUME NEW a \in Seq(Lines), NEW b \in Seq(Lines),
           \A i \in 1 .. Len(b) :
               Blank(b[i]) \/ (Within(a \o b, Len(a) + i) <=> Within(b, i))
    PROVE  Kept(a \o b) = Kept(a) \o Kept(b)
<1> DEFINE c == a \o b
           m == Len(a)
<1>1. /\ c \in Seq(Lines) /\ m \in Nat /\ Len(b) \in Nat /\ Len(c) = m + Len(b)
      /\ \A i \in 1 .. m : c[i] = a[i]
      /\ \A i \in 1 .. Len(b) : c[m + i] = b[i]
      /\ DOMAIN c = 1 .. Len(c) /\ DOMAIN a = 1 .. m /\ DOMAIN b = 1 .. Len(b)
  OBVIOUS
<1>2. \A i \in 1 .. Len(b) : Blank(b[i]) \/ (Within(c, m + i) <=> Within(b, i))
  OBVIOUS
<1> HIDE DEF c, m
<1>3. ASSUME NEW i \in 1 .. m PROVE Within(c, i) <=> Within(a, i)
  <2>1. \A j \in 1 .. i - 1 : c[j] = a[j] /\ \A k \in j + 1 .. i : c[k] = a[k]
    <3>1. \A j \in 1 .. i - 1 : j \in 1 .. m /\ \A k \in j + 1 .. i : k \in 1 .. m
      BY <1>1
    <3> QED
      BY <1>1, <3>1
  <2> QED
    BY <2>1 DEF Within
<1>4. \A i \in 1 .. m : i \in KeptLines(c) <=> i \in KeptLines(a)
  BY <1>1, <1>3 DEF KeptLines
<1>5. \A i \in 1 .. Len(b) : m + i \in KeptLines(c) <=> i \in KeptLines(b)
  BY <1>1, <1>2 DEF KeptLines
<1> DEFINE A == KeptLines(a)
           B == KeptLines(b)
           C == KeptLines(c)
<1>6. \A i \in 1 .. Len(a) : i \in C <=> i \in A
  BY <1>4 DEF m
<1>7. \A i \in 1 .. Len(b) : Len(a) + i \in C <=> i \in B
  BY <1>5 DEF m
<1> HIDE DEF A, B, C
<1>8. Picked(a \o b, C) = Picked(a, A) \o Picked(b, B)
  BY <1>6, <1>7, PickedConcat
<1> QED
  BY <1>8 DEF Kept, A, B, C, c

LEMMA KeptOfBlanks ==
    ASSUME NEW lines \in Seq(Lines), \A i \in 1 .. Len(lines) : Blank(lines[i])
    PROVE  Kept(lines) = <<>>
<1>1. \A i \in 1 .. Len(lines) : i \notin KeptLines(lines)
  BY DEF KeptLines
<1> QED
  BY <1>1, PickedNone DEF Kept

LEMMA KeptType == ASSUME NEW lines \in Seq(Lines) PROVE Kept(lines) \in Seq(Lines)
BY LoopIsExact

\* A separator ends every block and opens none.
LEMMA SeparatorKept ==
    ASSUME NEW x \in Seq(Lines), NEW d \in Seq(Lines)
    PROVE  Kept(x \o <<Separator>> \o d) = Kept(x) \o <<Separator>> \o Kept(d)
<1> DEFINE s == <<Separator>>
           y == x \o s
           z == y \o d
           m == Len(x)
<1>1. /\ s \in Seq(Lines) /\ Len(s) = 1 /\ s[1] = Separator /\ DOMAIN s = 1 .. 1
      /\ y \in Seq(Lines) /\ z \in Seq(Lines) /\ m \in Nat /\ Len(d) \in Nat
  BY SeparatorIsLine
<1>2. /\ Len(y) = m + 1 /\ y[m + 1] = Separator /\ \A i \in 1 .. m : y[i] = x[i]
      /\ Len(z) = m + 1 + Len(d)
      /\ \A i \in 1 .. m + 1 : z[i] = y[i]
      /\ \A i \in 1 .. Len(d) : z[m + 1 + i] = d[i]
  BY <1>1
<1>3. /\ Separator.indent = 0 /\ ~Blank(Separator) /\ ~Opens(Separator) /\ ~Noisy(Separator)
      /\ \A line \in Lines : ~(Separator.indent > line.indent)
  BY DEF Separator, Blank, Opens, Noisy, Lines
<1> HIDE DEF s, y, z, m
<1>4. ASSUME NEW i \in 1 .. Len(d) PROVE Within(z, Len(y) + i) <=> Within(d, i)
  <2> DEFINE p == Len(y) + i
  <2>1. p \in Nat /\ p > m + 1
    BY <1>1, <1>2
  <2> HIDE DEF p
  <2>2. ASSUME NEW j \in 1 .. Len(y) PROVE ~Reaches(z, j, p)
    <3>1. CASE j = m + 1
      BY <1>1, <1>2, <1>3, <3>1 DEF Reaches
    <3>2. CASE j \in 1 .. m
      <4>1. m + 1 \in j + 1 .. p /\ m + 1 \in 1 .. m + 1 /\ j \in 1 .. m + 1
        BY <1>1, <2>1, <3>2
      <4>2. z[m + 1] = Separator /\ z[j] \in Lines
        BY <1>1, <1>2, <3>2, <4>1
      <4> QED
        BY <1>3, <4>1, <4>2 DEF Reaches
    <3> QED
      BY <1>1, <1>2, <3>1, <3>2
  <2> QED
    BY <1>1, <2>2, WithinRest DEF p, z
<1>5. Kept(z) = Kept(y) \o Kept(d)
  BY <1>1, <1>4, KeptConcat DEF z
<1>6. ~Within(y, m + 1) /\ ~Within(s, 1)
  <2>1. ASSUME NEW j \in 1 .. (m + 1) - 1 PROVE ~Reaches(y, j, m + 1)
    <3>1. y[j] \in Lines /\ m + 1 \in j + 1 .. m + 1
      BY <1>1, <1>2
    <3> QED
      BY <1>2, <1>3, <3>1 DEF Reaches
  <2>2. ~Within(y, m + 1)
    <3>1. m + 1 \in Nat
      BY <1>1
    <3> QED
      BY <2>1, <3>1, WithinReaches
  <2>3. 1 .. 1 - 1 = {}
    OBVIOUS
  <2> QED
    BY <2>2, <2>3 DEF Within
<1>7. Kept(y) = Kept(x) \o Kept(s)
  <2>1. \A i \in 1 .. Len(s) : Within(y, Len(x) + i) <=> Within(s, i)
    <3>1. \A i \in 1 .. Len(s) : i = 1 /\ Len(x) + i = m + 1
      BY <1>1 DEF m
    <3> QED
      BY <1>6, <3>1
  <2> QED
    BY <1>1, <2>1, KeptConcat DEF y
<1>8. Kept(s) = s
  <2>1. KeptLines(s) = {1}
    BY <1>1, <1>3, <1>6 DEF KeptLines
  <2>2. PICK f : PicksInTurn(f, s, {1})
    BY <1>1, PickedInTurn
  <2>3. f[1] = Append(f[0], s[1])
    BY <1>1, <2>2 DEF PicksInTurn
  <2>4. f[1] = <<Separator>>
    BY <1>1, <2>2, <2>3, SeparatorIsLine DEF PicksInTurn
  <2> QED
    BY <1>1, <2>1, <2>2, <2>4 DEF PicksInTurn, Kept, s
<1> QED
  BY <1>5, <1>7, <1>8 DEF s, y, z

\* Keeping takes documents one after the other.
LEMMA KeptJoin ==
    ASSUME NEW a \in Seq(Seq(Lines)), NEW b \in Seq(Seq(Lines)), Len(a) = Len(b),
           \A i \in 1 .. Len(a) : Kept(a[i]) = b[i]
    PROVE  Kept(Join(a)) = Join(b)
<1>1. PICK f : JoinsInTurn(f, a)
  BY JoinInTurn
<1>2. PICK g : JoinsInTurn(g, b)
  BY JoinInTurn
<1> DEFINE n == Len(a)
           T == {i \in 0 .. n : Kept(f[i]) = g[i]}
<1>3. n \in Nat /\ \A i \in 1 .. n : i - 1 \in 0 .. n /\ a[i] \in Seq(Lines) /\ b[i] \in Seq(Lines)
  OBVIOUS
<1>4. \A i \in 0 .. n : f[i] \in Seq(Lines)
  BY <1>1 DEF JoinsInTurn
<1>5. /\ \A i \in 1 .. n : f[i] = f[i - 1] \o (IF i = 1 THEN <<>> ELSE <<Separator>>) \o a[i]
      /\ \A i \in 1 .. n : g[i] = g[i - 1] \o (IF i = 1 THEN <<>> ELSE <<Separator>>) \o b[i]
      /\ f[0] = <<>> /\ g[0] = <<>>
  BY <1>1, <1>2 DEF JoinsInTurn
<1>6. 0 \in T
  <2>1. <<>> \in Seq(Lines) /\ \A i \in 1 .. Len(<<>>) : Blank(<<>>[i])
    OBVIOUS
  <2>2. Kept(<<>>) = <<>>
    BY <2>1, KeptOfBlanks
  <2>3. Kept(f[0]) = g[0] /\ 0 \in 0 .. n
    BY <1>3, <1>5, <2>2
  <2> QED
    BY <2>3
<1>7. ASSUME NEW i \in 1 .. n, i - 1 \in T PROVE i \in T
  <2>1. Kept(f[i - 1]) = g[i - 1] /\ Kept(a[i]) = b[i] /\ f[i - 1] \in Seq(Lines)
    BY <1>3, <1>4, <1>7
  <2>2. CASE i = 1
    <3>1. \A t \in Seq(Lines) : <<>> \o <<>> \o t = t
      <4> SUFFICES ASSUME NEW t \in Seq(Lines) PROVE <<>> \o <<>> \o t = t
        OBVIOUS
      <4>1. <<>> \o <<>> = <<>>
        OBVIOUS
      <4>2. <<>> \o t = t
        BY ConcatEmptySeq
      <4> QED
        BY <4>1, <4>2
    <3>2. /\ f[i] = <<>> \o <<>> \o a[i] /\ g[i] = <<>> \o <<>> \o b[i]
          /\ a[i] \in Seq(Lines) /\ b[i] \in Seq(Lines)
      <4>1. f[i - 1] = <<>> /\ g[i - 1] = <<>>
        BY <1>5, <2>2
      <4> QED
        BY <1>3, <1>5, <2>2, <4>1
    <3>3. f[i] = a[i] /\ g[i] = b[i]
      BY <3>1, <3>2
    <3>4. Kept(f[i]) = g[i] /\ i \in 0 .. n
      BY <1>3, <2>1, <3>3
    <3> QED
      BY <3>4
  <2>3. CASE i # 1
    <3>1. Kept(f[i - 1] \o <<Separator>> \o a[i]) = Kept(f[i - 1]) \o <<Separator>> \o Kept(a[i])
      BY <1>3, <2>1, SeparatorKept
    <3>2. f[i] = f[i - 1] \o <<Separator>> \o a[i] /\ g[i] = g[i - 1] \o <<Separator>> \o b[i]
      BY <1>5, <2>3
    <3>3. i \in 0 .. n
      BY <1>3
    <3>4. Kept(f[i]) = Kept(f[i - 1] \o <<Separator>> \o a[i])
      BY <3>2
    <3>5. Kept(f[i - 1]) \o <<Separator>> \o Kept(a[i]) = g[i - 1] \o <<Separator>> \o b[i]
      BY <2>1
    <3>6. Kept(f[i]) = g[i]
      BY <3>1, <3>2, <3>4, <3>5
    <3> QED
      BY <3>3, <3>6
  <2> QED
    BY <2>2, <2>3
<1> HIDE DEF T, n
<1>8. n \in T
  <2>1. 0 .. n \subseteq T
    BY <1>3, <1>6, <1>7, InductionTo
  <2> QED
    BY <1>3, <2>1
<1> QED
  BY <1>1, <1>2, <1>8 DEF T, n, JoinsInTurn

LEMMA JoinAppend ==
    ASSUME NEW texts \in Seq(Seq(Lines)), NEW text \in Seq(Lines)
    PROVE  Join(Append(texts, text)) =
               IF texts = <<>> THEN text ELSE Join(texts) \o <<Separator>> \o text
<1> DEFINE more == Append(texts, text)
           n == Len(texts)
<1>1. /\ more \in Seq(Seq(Lines)) /\ n \in Nat /\ Len(more) = n + 1 /\ more[n + 1] = text
      /\ \A i \in 1 .. n : more[i] = texts[i]
      /\ texts = <<>> <=> n = 0
  OBVIOUS
<1> HIDE DEF more
<1>2. PICK f : JoinsInTurn(f, texts)
  BY JoinInTurn
<1>3. PICK g : JoinsInTurn(g, more)
  BY <1>1, JoinInTurn
<1> DEFINE Between(i) == IF i = 1 THEN <<>> ELSE <<Separator>>
<1>11. \A i \in 1 .. n : f[i] = f[i - 1] \o Between(i) \o texts[i]
  BY <1>2 DEF JoinsInTurn
<1>12. \A i \in 1 .. n + 1 : g[i] = g[i - 1] \o Between(i) \o more[i]
  BY <1>1, <1>3 DEF JoinsInTurn
<1> HIDE DEF n, Between
<1> DEFINE T == {i \in 0 .. n : f[i] = g[i]}
<1>4. 0 \in T
  BY <1>1, <1>2, <1>3 DEF JoinsInTurn
<1>5. ASSUME NEW i \in 1 .. n, i - 1 \in T PROVE i \in T
  <2>1. f[i - 1] = g[i - 1] /\ more[i] = texts[i] /\ i \in 1 .. n + 1 /\ i \in 0 .. n
    BY <1>1, <1>5
  <2>2. f[i] = g[i]
    BY <1>11, <1>12, <2>1
  <2> QED
    BY <2>1, <2>2
<1> HIDE DEF T
<1>6. f[n] = g[n]
  <2>1. 0 .. n \subseteq T
    BY <1>1, <1>4, <1>5, InductionTo
  <2>2. n \in 0 .. n
    BY <1>1
  <2> QED
    BY <2>1, <2>2 DEF T
<1>7. g[n + 1] = f[n] \o (IF n = 0 THEN <<>> ELSE <<Separator>>) \o text
  <2>1. n + 1 \in 1 .. Len(more) /\ (n + 1) - 1 = n /\ (n + 1 = 1 <=> n = 0)
    BY <1>1
  <2>2. g[n + 1] = g[(n + 1) - 1] \o Between(n + 1) \o more[n + 1]
    BY <1>1, <1>12, <2>1
  <2>3. Between(n + 1) = IF n = 0 THEN <<>> ELSE <<Separator>>
    BY <2>1 DEF Between
  <2> QED
    BY <1>1, <1>6, <2>1, <2>2, <2>3
<1>8. Join(more) = g[n + 1] /\ Join(texts) = f[n]
  BY <1>1, <1>2, <1>3 DEF JoinsInTurn, n
<1>9. CASE n = 0
  <2>1. f[n] = <<>>
    BY <1>2, <1>9 DEF JoinsInTurn
  <2>2. <<>> \o <<>> = <<>>
    OBVIOUS
  <2>3. <<>> \o text = text
    BY ConcatEmptySeq
  <2> QED
    BY <1>1, <1>7, <1>8, <1>9, <2>1, <2>2, <2>3 DEF more
<1>10. CASE n # 0
  BY <1>1, <1>7, <1>8, <1>10 DEF more
<1> QED
  BY <1>9, <1>10

\* The first line of a document with something on it has no indent.
AtMargin(doc) ==
    \A l \in DOMAIN doc :
        ~Blank(doc[l]) /\ (\A k \in 1 .. l - 1 : Blank(doc[k])) => doc[l].indent = 0

\* What splitYAMLDocuments' loop has read.
ReadSoFar(acc) == IF acc.docs = <<>> THEN acc.doc ELSE Join(acc.docs) \o <<Separator>> \o acc.doc

\* The document that is being read is what follows the last separator.
SplitInvariant(acc, manifest, i) ==
    /\ ReadSoFar(acc) = SubSeq(manifest, 1, i)
    /\ Len(acc.doc) <= i
    /\ i = Len(acc.doc) \/ manifest[i - Len(acc.doc)] = Separator
    /\ \A l \in 1 .. Len(acc.doc) : acc.doc[l] = manifest[i - Len(acc.doc) + l]
    /\ AtMargin(acc.doc) /\ \A d \in 1 .. Len(acc.docs) : AtMargin(acc.docs[d])

LEMMA SplitTurn ==
    ASSUME NEW manifest \in Seq(Lines), AsHelmWrites(manifest), Undashed(manifest),
           NEW i \in 1 .. Len(manifest), NEW acc \in Splitting,
           SplitInvariant(acc, manifest, i - 1)
    PROVE  SplitInvariant(SplitLine(acc, manifest[i]), manifest, i)
<1> DEFINE line == manifest[i]
           next == SplitLine(acc, line)
           n == Len(acc.doc)
<1>1. /\ acc.docs \in Seq(Seq(Lines)) /\ acc.doc \in Seq(Lines) /\ n \in Nat
      /\ acc = [docs |-> acc.docs, doc |-> acc.doc]
      /\ line \in Lines /\ i \in Nat /\ Len(manifest) \in Nat
  BY DEF Splitting
<1>2. SubSeq(manifest, 1, i) = SubSeq(manifest, 1, i - 1) \o <<line>>
  <2>3. SubSeq(manifest, i, i) = <<manifest[i]>>
    <3>1. /\ SubSeq(manifest, i, i) \in Seq(Lines)
          /\ Len(SubSeq(manifest, i, i)) = 1
          /\ SubSeq(manifest, i, i)[1] = manifest[i]
      OBVIOUS
    <3> DEFINE one == SubSeq(manifest, i, i)
    <3> HIDE DEF one
    <3>2. ASSUME one \in Seq(Lines), Len(one) = 1 PROVE one = <<one[1]>>
      BY <3>2
    <3> QED
      BY <3>1, <3>2 DEF one
  <2>1. /\ 1 \in 1 .. Len(manifest) + 1 /\ i - 1 \in 1 - 1 .. Len(manifest) /\ i \in i - 1 .. Len(manifest)
        /\ (i - 1) + 1 = i
    OBVIOUS
  <2>2. SubSeq(manifest, 1, i - 1) \o SubSeq(manifest, (i - 1) + 1, i) = SubSeq(manifest, 1, i)
    BY <2>1, ConcatAdjacentSubSeq
  <2> QED
    BY <2>1, <2>2, <2>3
<1>3. /\ ReadSoFar(acc) = SubSeq(manifest, 1, i - 1)
      /\ n <= i - 1
      /\ i - 1 = n \/ manifest[i - 1 - n] = Separator
      /\ \A l \in 1 .. n : acc.doc[l] = manifest[i - 1 - n + l]
      /\ AtMargin(acc.doc) /\ \A d \in 1 .. Len(acc.docs) : AtMargin(acc.docs[d])
  BY DEF SplitInvariant
<1>4. Join(acc.docs) \in Seq(Lines)
  BY <1>1, JoinType
<1> HIDE DEF line, n
<1>5. CASE line.kind = "separator"
  <2>1. line = Separator
    <3>1. i \in DOMAIN manifest
      BY <1>1
    <3>2. line.indent = 0
      BY <1>5, <3>1 DEF Undashed, line
    <3>3. line \in [indent : Nat, kind : Kinds]
      BY <1>1 DEF Lines
    <3>4. line = [indent |-> line.indent, kind |-> line.kind]
      BY <3>3
    <3> QED
      BY <1>5, <3>2, <3>4 DEF Separator
  <2>2. next.docs = Append(acc.docs, acc.doc) /\ next.doc = <<>>
    BY <1>5 DEF SplitLine
  <2>3. next.docs # <<>>
    BY <1>1, <2>2
  <2>4. Join(next.docs) = ReadSoFar(acc)
    BY <1>1, <2>2, JoinAppend DEF ReadSoFar
  <2>5. ReadSoFar(next) = SubSeq(manifest, 1, i)
    <3>1. SubSeq(manifest, 1, i - 1) \o <<Separator>> \in Seq(Lines)
      <4>1. SubSeq(manifest, 1, i - 1) \in Seq(Lines)
        BY <1>1
      <4> QED
        BY <4>1, SeparatorIsLine
    <3>2. (SubSeq(manifest, 1, i - 1) \o <<Separator>>) \o <<>> = SubSeq(manifest, 1, i - 1) \o <<Separator>>
      BY <3>1, ConcatEmptySeq
    <3> QED
      BY <1>2, <1>3, <2>1, <2>2, <2>3, <2>4, <3>2 DEF ReadSoFar
  <2>6. \A d \in 1 .. Len(next.docs) : AtMargin(next.docs[d])
    <3>1. /\ Len(next.docs) = Len(acc.docs) + 1 /\ Len(acc.docs) \in Nat
          /\ next.docs[Len(acc.docs) + 1] = acc.doc
          /\ \A d \in 1 .. Len(acc.docs) : next.docs[d] = acc.docs[d]
      BY <1>1, <2>2
    <3>2. \A d \in 1 .. Len(acc.docs) + 1 : d \in 1 .. Len(acc.docs) \/ d = Len(acc.docs) + 1
      BY <3>1
    <3> QED
      BY <1>3, <3>1, <3>2
  <2>7. Len(next.doc) = 0 /\ AtMargin(next.doc) /\ manifest[i - 0] = Separator
    BY <1>1, <2>1, <2>2 DEF AtMargin, line
  <2> HIDE DEF next
  <2> QED
    BY <1>1, <2>5, <2>6, <2>7 DEF SplitInvariant, next, line
<1>6. CASE line.kind # "separator"
  <2>1. next.docs = acc.docs /\ next.doc = Append(acc.doc, line)
    BY <1>1, <1>6 DEF SplitLine
  <2>2. /\ Len(next.doc) = n + 1 /\ next.doc[n + 1] = line
        /\ \A l \in 1 .. n : next.doc[l] = acc.doc[l]
        /\ DOMAIN next.doc = 1 .. n + 1 /\ DOMAIN acc.doc = 1 .. n
    BY <1>1, <2>1 DEF n
  <2> HIDE DEF next
  <2>3. ReadSoFar(next) = SubSeq(manifest, 1, i)
    <3>1. CASE acc.docs = <<>>
      <4>1. ReadSoFar(next) = Append(acc.doc, line) /\ ReadSoFar(acc) = acc.doc
        BY <2>1, <3>1 DEF ReadSoFar
      <4>2. Append(acc.doc, line) = acc.doc \o <<line>>
        BY <1>1, AppendIsConcat
      <4> QED
        BY <1>2, <1>3, <4>1, <4>2
    <3>2. CASE acc.docs # <<>>
      <4> DEFINE front == Join(acc.docs) \o <<Separator>>
      <4>1. front \in Seq(Lines)
        BY <1>4, SeparatorIsLine
      <4>2. ReadSoFar(next) = front \o Append(acc.doc, line) /\ ReadSoFar(acc) = front \o acc.doc
        BY <2>1, <3>2 DEF ReadSoFar
      <4> HIDE DEF front
      <4>3. front \o Append(acc.doc, line) = Append(front \o acc.doc, line)
        BY <1>1, <4>1, ConcatAppend
      <4>4. front \o acc.doc \in Seq(Lines)
        BY <1>1, <4>1
      <4>5. Append(front \o acc.doc, line) = (front \o acc.doc) \o <<line>>
        BY <1>1, <4>4, AppendIsConcat
      <4> QED
        BY <1>2, <1>3, <4>2, <4>3, <4>5
    <3> QED
      BY <3>1, <3>2
  <2>4. ASSUME NEW l \in 1 .. n + 1 PROVE next.doc[l] = manifest[i - (n + 1) + l]
    <3>1. CASE l \in 1 .. n
      <4>1. i - (n + 1) + l = i - 1 - n + l
        BY <1>1
      <4> QED
        BY <1>3, <2>2, <3>1, <4>1
    <3>2. CASE l = n + 1
      <4>1. i - (n + 1) + (n + 1) = i
        BY <1>1
      <4> QED
        BY <2>2, <3>2, <4>1 DEF line
    <3> QED
      BY <1>1, <3>1, <3>2
  <2>5. AtMargin(next.doc)
    <3> SUFFICES ASSUME NEW l \in 1 .. n + 1, ~Blank(next.doc[l]),
                        \A k \in 1 .. l - 1 : Blank(next.doc[k])
                 PROVE  next.doc[l].indent = 0
      BY <2>2 DEF AtMargin
    <3>1. CASE l \in 1 .. n
      <4>1. \A k \in 1 .. l - 1 : k \in 1 .. n
        BY <1>1, <3>1
      <4> QED
        BY <1>3, <2>2, <3>1, <4>1 DEF AtMargin
    <3>2. CASE l = n + 1
      <4> DEFINE k == i - 1 - n
      <4>1. k \in 0 .. i - 1 /\ (k = 0 \/ manifest[k] = Separator)
        BY <1>1, <1>3
      <4>2. \A p \in k + 1 .. i - 1 : Blank(manifest[p])
        <5> SUFFICES ASSUME NEW p \in k + 1 .. i - 1 PROVE Blank(manifest[p])
          OBVIOUS
        <5>1. p - k \in 1 .. n /\ p = i - 1 - n + (p - k) /\ p - k \in 1 .. l - 1
          <6>1. k = i - 1 - n /\ k \in Int /\ p \in Int /\ k + 1 <= p /\ p <= i - 1
            BY <1>1
          <6> HIDE DEF k
          <6>2. p - k >= 1 /\ p - k <= n /\ p - k \in Int
            BY <1>1, <6>1
          <6> QED
            BY <1>1, <3>2, <6>1, <6>2
        <5>2. Blank(next.doc[p - k]) /\ next.doc[p - k] = acc.doc[p - k]
          BY <2>2, <5>1
        <5> QED
          BY <1>3, <5>1, <5>2
      <4>3. ~Blank(manifest[i])
        BY <2>2, <3>2 DEF line
      <4> HIDE DEF k
      <4>4. First(manifest, i) /\ i \in DOMAIN manifest
        BY <4>1, <4>2, <4>3 DEF First
      <4>5. manifest[i].indent = 0
        BY <4>4 DEF AsHelmWrites
      <4> QED
        BY <2>2, <3>2, <4>5 DEF line
    <3> QED
      BY <1>1, <3>1, <3>2
  <2>6. i = n + 1 \/ manifest[i - (n + 1)] = Separator
    <3>1. i - (n + 1) = i - 1 - n
      BY <1>1
    <3> QED
      BY <1>1, <1>3, <3>1
  <2>7. n + 1 <= i
    BY <1>1, <1>3
  <2> QED
    BY <1>3, <2>1, <2>2, <2>3, <2>4, <2>5, <2>6, <2>7 DEF SplitInvariant, next, line
<1> QED
  BY <1>5, <1>6

\* Splitting a manifest loses nothing.
LEMMA SplitRejoins ==
    ASSUME NEW manifest \in Seq(Lines), AsHelmWrites(manifest), Undashed(manifest)
    PROVE  /\ Join(SplitYAMLDocuments(manifest)) = manifest
           /\ \A d \in 1 .. Len(SplitYAMLDocuments(manifest)) :
                  AtMargin(SplitYAMLDocuments(manifest)[d])
<1>1. PICK f : SplitsInTurn(f, manifest)
  BY SplitInTurn
<1> DEFINE n == Len(manifest)
           T == {i \in 0 .. n : SplitInvariant(f[i], manifest, i)}
<1>2. n \in Nat /\ \A i \in 0 .. n : f[i] \in Splitting
  BY <1>1 DEF SplitsInTurn
<1>3. f[0].docs = <<>> /\ f[0].doc = <<>>
  BY <1>1 DEF SplitsInTurn
<1>4. 0 \in T
  <2>1. SubSeq(manifest, 1, 0) = <<>> /\ Len(<<>>) = 0
    OBVIOUS
  <2>2. SplitInvariant(f[0], manifest, 0)
    BY <1>3, <2>1 DEF SplitInvariant, ReadSoFar, AtMargin
  <2> QED
    BY <1>2, <2>2
<1>5. ASSUME NEW i \in 1 .. n, i - 1 \in T PROVE i \in T
  <2>1. i - 1 \in 0 .. n /\ f[i] = SplitLine(f[i - 1], manifest[i])
    BY <1>1, <1>2 DEF SplitsInTurn
  <2>2. f[i - 1] \in Splitting /\ SplitInvariant(f[i - 1], manifest, i - 1)
    BY <1>2, <1>5, <2>1
  <2>3. SplitInvariant(f[i], manifest, i)
    <3> DEFINE acc == f[i - 1]
    <3>1. acc \in Splitting /\ SplitInvariant(acc, manifest, i - 1)
      BY <2>2
    <3> HIDE DEF acc
    <3>2. SplitInvariant(SplitLine(acc, manifest[i]), manifest, i)
      BY <3>1, SplitTurn
    <3> QED
      BY <2>1, <3>2 DEF acc
  <2> QED
    BY <2>3
<1> HIDE DEF T, n
<1>6. SplitInvariant(f[n], manifest, n)
  <2>1. 0 .. n \subseteq T
    BY <1>2, <1>4, <1>5, InductionTo
  <2>2. n \in 0 .. n
    BY <1>2
  <2> QED
    BY <2>1, <2>2 DEF T
<1> DEFINE split == f[n]
           docs == SplitYAMLDocuments(manifest)
<1>7. docs = IF split.doc = <<>> THEN split.docs ELSE Append(split.docs, split.doc)
  BY <1>1 DEF SplitsInTurn, SplitYAMLDocuments, n
<1>8. split.docs \in Seq(Seq(Lines)) /\ split.doc \in Seq(Lines)
  <2>1. n \in 0 .. n
    BY <1>2
  <2>2. split \in Splitting
    BY <1>2, <2>1
  <2> QED
    BY <2>2 DEF Splitting
<1>9. SubSeq(manifest, 1, n) = manifest
  BY SubSeqFull DEF n
<1>10. CASE n = 0
  <2>1. docs = <<>> /\ manifest = <<>>
    BY <1>3, <1>7, <1>10 DEF n
  <2>2. Join(<<>>) = <<>>
    <3>1. <<>> \in Seq(Seq(Lines)) /\ Len(<<>>) = 0
      OBVIOUS
    <3>2. PICK g : JoinsInTurn(g, <<>>)
      BY <3>1, JoinInTurn
    <3> QED
      BY <3>1, <3>2 DEF JoinsInTurn
  <2> HIDE DEF docs
  <2> QED
    BY <2>1, <2>2 DEF docs
<1>11. CASE n # 0
  <2>1. n \in 1 .. n /\ n - 1 \in 0 .. n
    BY <1>2, <1>11
  <2>2. manifest[n].kind # "separator"
    <3>1. manifest # <<>> /\ Last(manifest) = manifest[n]
      BY <1>2, <1>11 DEF Last, n
    <3> QED
      BY <3>1 DEF AsHelmWrites
  <2>3. split = SplitLine(f[n - 1], manifest[n])
    BY <1>1, <2>1 DEF SplitsInTurn, n
  <2>4. split.doc # <<>>
    <3>1. f[n - 1] \in Splitting
      BY <1>2, <2>1
    <3>2. f[n - 1].doc \in Seq(Lines)
      BY <3>1 DEF Splitting
    <3>3. split.doc = Append(f[n - 1].doc, manifest[n])
      BY <2>2, <2>3, <3>1 DEF SplitLine, Splitting
    <3> QED
      BY <3>2, <3>3
  <2> HIDE DEF split, docs
  <2>5. docs = Append(split.docs, split.doc)
    BY <1>7, <2>4
  <2>6. Join(docs) = ReadSoFar(split)
    BY <1>8, <2>5, JoinAppend DEF ReadSoFar
  <2>7. SplitInvariant(split, manifest, n)
    BY <1>6 DEF split
  <2>8. Join(docs) = manifest
    BY <1>9, <2>6, <2>7 DEF SplitInvariant
  <2>9. \A d \in 1 .. Len(docs) : AtMargin(docs[d])
    <3>1. /\ Len(docs) = Len(split.docs) + 1 /\ Len(split.docs) \in Nat
          /\ docs[Len(split.docs) + 1] = split.doc
          /\ \A d \in 1 .. Len(split.docs) : docs[d] = split.docs[d]
      BY <1>8, <2>5
    <3>2. \A d \in 1 .. Len(split.docs) + 1 : d \in 1 .. Len(split.docs) \/ d = Len(split.docs) + 1
      BY <3>1
    <3> QED
      BY <2>7, <3>1, <3>2 DEF SplitInvariant
  <2> QED
    BY <2>8, <2>9 DEF docs
<1> QED
  BY <1>10, <1>11

\* Of a document that begins at the margin only blank lines are trimmed.
LEMMA TrimSpaceKept ==
    ASSUME NEW doc \in Seq(Lines), ~AllBlank(doc), AtMargin(doc)
    PROVE  Kept(TrimSpace(doc)) = Kept(doc)
<1> DEFINE I == {i \in 1 .. Len(doc) : ~Blank(doc[i])}
           n == Len(doc)
<1>1. n \in Nat /\ \A i \in 1 .. n : doc[i] \in Lines
  OBVIOUS
<1>2. I # {} /\ I \in SUBSET (0 .. n) /\ I \in SUBSET Nat /\ I \in SUBSET (1 .. n)
  BY DEF AllBlank
<1>3. TrimSpace(doc) = [SubSeq(doc, Min(I), Max(I)) EXCEPT ![1].indent = 0]
  BY <1>2 DEF TrimSpace, SelectInSeq, SelectLastInSeq
<1>4. \A i \in 1 .. n : i \in I <=> ~Blank(doc[i])
  OBVIOUS
<1> HIDE DEF I, n
<1>5. Min(I) \in I /\ Max(I) \in I /\ (\A i \in I : Min(I) <= i) /\ (\A i \in I : i <= Max(I))
  BY <1>1, <1>2, MinOf, MaxOf
<1> DEFINE first == Min(I)
           last == Max(I)
           front == SubSeq(doc, 1, first - 1)
           mid == SubSeq(doc, first, last)
           back == SubSeq(doc, last + 1, n)
<1>6. first \in 1 .. n /\ last \in first .. n
  <2>1. first \in 1 .. n /\ last \in 1 .. n /\ first <= last
    BY <1>2, <1>5
  <2> QED
    BY <2>1
<1>7. /\ \A i \in 1 .. first - 1 : Blank(doc[i])
      /\ \A i \in last + 1 .. n : Blank(doc[i])
      /\ ~Blank(doc[first])
  <2>1. ASSUME NEW i \in 1 .. first - 1 PROVE Blank(doc[i])
    <3>1. i \in 1 .. n /\ ~(first <= i)
      BY <1>1, <1>6
    <3> QED
      BY <1>4, <1>5, <3>1
  <2>2. ASSUME NEW i \in last + 1 .. n PROVE Blank(doc[i])
    <3>1. i \in 1 .. n /\ ~(i <= last)
      BY <1>1, <1>6
    <3> QED
      BY <1>4, <1>5, <3>1
  <2> QED
    BY <1>4, <1>5, <1>6, <2>1, <2>2
<1> HIDE DEF first, last
<1>8. /\ front \in Seq(Lines) /\ Len(front) = first - 1
      /\ \A i \in 1 .. first - 1 : front[i] = doc[i]
  BY <1>1, <1>6 DEF n
<1>9. /\ mid \in Seq(Lines) /\ Len(mid) = last - first + 1
      /\ \A i \in 1 .. last - first + 1 : mid[i] = doc[first + i - 1]
  <2>1. \A i \in first .. last : doc[i] \in Lines
    BY <1>1, <1>6
  <2> QED
    BY <1>1, <1>6, <2>1, SubSeqProperties
<1>10. /\ back \in Seq(Lines) /\ Len(back) = n - last
       /\ \A i \in 1 .. n - last : back[i] = doc[last + i]
  <2>1. \A i \in last + 1 .. n : doc[i] \in Lines
    BY <1>1, <1>6
  <2>2. /\ back \in Seq(Lines)
        /\ Len(back) = IF last + 1 <= n THEN n - (last + 1) + 1 ELSE 0
        /\ \A i \in 1 .. n - (last + 1) + 1 : back[i] = doc[(last + 1) + i - 1]
    BY <1>1, <1>6, <2>1, SubSeqProperties
  <2> HIDE DEF back
  <2>3. n - (last + 1) + 1 = n - last /\ (last + 1 <= n \/ n - last = 0)
    BY <1>1, <1>6
  <2>4. \A i \in 1 .. n - last : (last + 1) + i - 1 = last + i
    BY <1>1, <1>6
  <2> QED
    BY <1>1, <1>6, <2>2, <2>3, <2>4
<1>11. doc = front \o (mid \o back)
  <2>1. /\ 1 \in 1 .. n + 1 /\ first - 1 \in 1 - 1 .. n /\ n \in first - 1 .. n
        /\ first \in 1 .. n + 1 /\ last \in first - 1 .. n /\ n \in last .. n
        /\ (first - 1) + 1 = first
    BY <1>1, <1>6
  <2>2. mid \o back = SubSeq(doc, first, n)
    BY <2>1, ConcatAdjacentSubSeq DEF n
  <2>3. front \o SubSeq(doc, first, n) = SubSeq(doc, 1, n)
    BY <2>1, ConcatAdjacentSubSeq DEF n
  <2>4. SubSeq(doc, 1, n) = doc
    BY SubSeqFull DEF n
  <2> QED
    BY <2>2, <2>3, <2>4
<1> HIDE DEF front, mid, back
<1>12. TrimSpace(doc) = mid
  <2>1. mid[1] = doc[first] /\ 1 \in DOMAIN mid
    BY <1>1, <1>6, <1>9
  <2>2. mid[1].indent = 0 /\ mid[1] \in Lines
    <3>1. first \in DOMAIN doc /\ \A k \in 1 .. first - 1 : Blank(doc[k])
      BY <1>1, <1>6, <1>7 DEF n
    <3>2. doc[first].indent = 0
      BY <1>7, <3>1 DEF AtMargin
    <3> QED
      BY <1>1, <1>6, <2>1, <3>2
  <2>3. [mid[1] EXCEPT !.indent = 0] = mid[1]
    <3>1. mid[1] \in [indent : Nat, kind : Kinds]
      BY <2>2 DEF Lines
    <3> QED
      BY <2>2, <3>1
  <2>4. [mid EXCEPT ![1] = mid[1]] = mid
    BY <1>9
  <2>5. [mid EXCEPT ![1].indent = 0] = [mid EXCEPT ![1] = [mid[1] EXCEPT !.indent = 0]]
    OBVIOUS
  <2> QED
    BY <1>3, <2>3, <2>4, <2>5 DEF mid, first, last
<1>13. Kept(mid \o back) = Kept(mid)
  <2>1. \A i \in 1 .. Len(back) : Blank(back[i])
    <3>1. \A i \in 1 .. n - last : last + i \in last + 1 .. n
      BY <1>1, <1>6
    <3> QED
      BY <1>7, <1>10, <3>1
  <2>2. Kept(mid \o back) = Kept(mid) \o Kept(back)
    BY <1>9, <1>10, <2>1, KeptConcat
  <2>3. Kept(back) = <<>>
    BY <1>10, <2>1, KeptOfBlanks
  <2>4. Kept(mid) \o <<>> = Kept(mid)
    BY <1>9, KeptType, ConcatEmptySeq
  <2> QED
    BY <2>2, <2>3, <2>4
<1>14. Kept(doc) = Kept(mid \o back)
  <2> DEFINE rest == mid \o back
  <2>1. rest \in Seq(Lines)
    BY <1>9, <1>10
  <2>2. doc = front \o rest
    BY <1>11
  <2> HIDE DEF rest
  <2>3. \A i \in 1 .. Len(front) : (front \o rest)[i] = front[i] /\ Blank(front[i])
    <3>1. \A i \in 1 .. Len(front) : (front \o rest)[i] = front[i]
      BY <1>8, <2>1
    <3> QED
      BY <1>7, <1>8, <2>2, <3>1
  <2>4. ASSUME NEW i \in 1 .. Len(rest)
        PROVE  Within(front \o rest, Len(front) + i) <=> Within(rest, i)
    <3>1. \A j \in 1 .. Len(front) : ~Reaches(front \o rest, j, Len(front) + i)
      BY <2>3 DEF Blank, Opens, Reaches
    <3> QED
      BY <1>8, <2>1, <3>1, WithinRest
  <2>5. Kept(front \o rest) = Kept(front) \o Kept(rest)
    BY <1>8, <2>1, <2>4, KeptConcat
  <2>6. Kept(front) = <<>>
    BY <1>8, <2>3, KeptOfBlanks
  <2>7. <<>> \o Kept(rest) = Kept(rest)
    BY <2>1, KeptType, ConcatEmptySeq
  <2> QED
    BY <2>2, <2>5, <2>6, <2>7 DEF rest
<1> QED
  BY <1>12, <1>13, <1>14

\* What sanitizeDocument removes is what YAML has as the noisy values, if they
\* show as such.
LEMMA BelongsIsWithin ==
    ASSUME NEW manifest \in Seq(Lines), Announced(manifest), Indented(manifest),
           NEW i \in 1 .. Len(manifest), ~Blank(manifest[i])
    PROVE  Belongs(manifest, i) <=> Within(manifest, i)
<1>1. Within(manifest, i) => Belongs(manifest, i)
  BY DEF Within, Belongs, Under, Noisy
<1>2. ASSUME NEW j \in 1 .. i - 1, Noisy(manifest[j]),
             \A k \in j + 1 .. i : Under(manifest[k], manifest[j])
      PROVE  Within(manifest, i)
  <2> DEFINE Deeper(k) == Blank(manifest[k]) \/ manifest[k].indent > manifest[j].indent
             Firsts == {k \in j + 1 .. i : ~Deeper(k)}
             Shown == {k \in j + 1 .. i : ~Blank(manifest[k])}
  <2>1. i \in DOMAIN manifest /\ \A k \in j + 1 .. i : k \in DOMAIN manifest /\ j \in 1 .. k - 1
    OBVIOUS
  <2>2. \A k \in j + 1 .. i : manifest[k] \in Lines /\ manifest[k].indent \in Nat
    <3>1. \A k \in j + 1 .. i : manifest[k] \in Lines
      OBVIOUS
    <3> QED
      BY <3>1 DEF Lines
  <2>3. manifest[j].indent \in Nat
    <3>1. manifest[j] \in Lines
      OBVIOUS
    <3> QED
      BY <3>1 DEF Lines
  <2>4. CASE Opens(manifest[j])
    <3>1. Firsts = {}
      <4> SUFFICES ASSUME Firsts # {} PROVE FALSE
        OBVIOUS
      <4>1. Firsts \in SUBSET Nat
        OBVIOUS
      <4>2. PICK k \in Firsts : \A l \in Firsts : k <= l
        <5> HIDE DEF Firsts
        <5> QED
          BY <4>1, LeastNumber
      <4>3. k \in j + 1 .. i /\ ~Deeper(k) /\ \A l \in j + 1 .. k - 1 : Deeper(l)
        <5>1. \A l \in j + 1 .. k - 1 : l \in j + 1 .. i /\ ~(k <= l)
          BY <4>2
        <5> QED
          BY <4>2, <5>1
      <4>4. /\ manifest[j].kind = "managed" /\ manifest[k].kind = "item"
            /\ manifest[k].indent = manifest[j].indent
        BY <1>2, <4>3 DEF Under
      <4> QED
        BY <2>1, <4>3, <4>4 DEF Indented
    <3>2. \A k \in j + 1 .. i : Blank(manifest[k]) \/ manifest[k].indent > manifest[j].indent
      BY <3>1
    <3> QED
      BY <2>4, <3>2 DEF Within
  <2>5. CASE ~Opens(manifest[j])
    <3>1. manifest[j].kind = "noisy"
      BY <1>2, <2>5 DEF Noisy
    <3>2. Shown # {} /\ Shown \in SUBSET Nat
      BY <2>1
    <3>3. PICK k \in Shown : \A l \in Shown : k <= l
      <4> HIDE DEF Shown
      <4> QED
        BY <3>2, LeastNumber
    <3>4. k \in j + 1 .. i /\ ~Blank(manifest[k]) /\ \A l \in j + 1 .. k - 1 : Blank(manifest[l])
      <4>1. \A l \in j + 1 .. k - 1 : l \in j + 1 .. i /\ ~(k <= l)
        BY <3>3
      <4> QED
        BY <3>3, <4>1
    <3>5. manifest[k].indent > manifest[j].indent
      BY <1>2, <3>1, <3>4 DEF Under
    <3>6. manifest[k].indent <= manifest[j].indent
      BY <2>1, <3>1, <3>4 DEF Announced, FirstBelow
    <3> QED
      BY <2>2, <2>3, <3>4, <3>5, <3>6
  <2> QED
    BY <2>4, <2>5
<1> QED
  BY <1>1, <1>2 DEF Belongs

LEMMA WrittenType ==
    ASSUME NEW doc \in Seq(Lines)
    PROVE  /\ Written(doc) \in Seq(Lines)
           /\ AtMargin(doc) => NonBlank(Written(doc)) = Kept(doc)
<1>1. CASE AllBlank(doc)
  <2>1. \A i \in 1 .. Len(doc) : Blank(doc[i])
    BY <1>1 DEF AllBlank
  <2>2. NonBlank(doc) = <<>> /\ Kept(doc) = <<>>
    BY <2>1, AllBlankIsEmpty, KeptOfBlanks
  <2> QED
    BY <1>1, <2>2 DEF Written
<1>2. CASE ~AllBlank(doc)
  <2>1. TrimSpace(doc) \in Seq(Lines)
    BY <1>2, TrimSpaceType
  <2>2. /\ SanitizeDocument(TrimSpace(doc)) \in Seq(Lines)
        /\ NonBlank(SanitizeDocument(TrimSpace(doc))) = Kept(TrimSpace(doc))
    BY <2>1, SanitizeDocumentIsExact
  <2> QED
    BY <1>2, <2>2, TrimSpaceKept DEF Written
<1> QED
  BY <1>1, <1>2

LEMMA SanitizeManifestType ==
    ASSUME NEW manifest \in Seq(Lines)
    PROVE  SanitizeManifest(manifest) \in Seq(Lines)
<1> DEFINE docs == SplitYAMLDocuments(manifest)
           a == [i \in DOMAIN docs |-> Written(docs[i])]
<1>1. docs \in Seq(Seq(Lines))
  BY SplitType
<1> HIDE DEF docs
<1>2. Len(docs) \in Nat /\ DOMAIN docs = 1 .. Len(docs) /\ \A i \in 1 .. Len(docs) : docs[i] \in Seq(Lines)
  BY <1>1
<1>3. a \in Seq(Seq(Lines))
  BY <1>2, WrittenType
<1>4. SanitizeManifest(manifest) = Join(a)
  BY DEF SanitizeManifest, docs
<1> HIDE DEF a
<1> QED
  BY <1>3, <1>4, JoinType

\* SanitizeManifest loses the noise of a manifest and nothing else (sanitize.go:
\* 18-55), for manifests of any length as Helm writes them: what it writes is, but
\* for blank lines, the manifest without its noisy keys and what YAML has as their
\* values, if no line within a document is three dashes, the lists of managedFields
\* are indented and long values announced.
THEOREM SanitizeManifestIsExact ==
    ASSUME NEW manifest \in Seq(Lines), AsHelmWrites(manifest), Undashed(manifest),
           Announced(manifest), Indented(manifest)
    PROVE  NonBlank(SanitizeManifest(manifest)) = WithoutNoise(manifest)
<1> DEFINE docs == SplitYAMLDocuments(manifest)
           a == [i \in DOMAIN docs |-> Written(docs[i])]
           b == [i \in DOMAIN docs |-> Kept(docs[i])]
<1>1. docs \in Seq(Seq(Lines)) /\ Join(docs) = manifest /\ \A d \in 1 .. Len(docs) : AtMargin(docs[d])
  BY SplitType, SplitRejoins
<1> HIDE DEF docs
<1>2. Len(docs) \in Nat /\ DOMAIN docs = 1 .. Len(docs) /\ \A i \in 1 .. Len(docs) : docs[i] \in Seq(Lines)
  BY <1>1
<1>3. /\ a \in Seq(Seq(Lines)) /\ Len(a) = Len(docs)
      /\ \A i \in 1 .. Len(docs) : a[i] = Written(docs[i])
  BY <1>2, WrittenType
<1>4. /\ b \in Seq(Seq(Lines)) /\ Len(b) = Len(docs)
      /\ \A i \in 1 .. Len(docs) : b[i] = Kept(docs[i])
  BY <1>2, KeptType
<1>5. SanitizeManifest(manifest) = Join(a)
  BY DEF SanitizeManifest, docs
<1> HIDE DEF a, b
<1>6. \A i \in 1 .. Len(a) : NonBlank(a[i]) = b[i]
  BY <1>1, <1>2, <1>3, <1>4, WrittenType
<1>7. NonBlank(Join(a)) = Join(b)
  BY <1>3, <1>4, <1>6, NonBlankJoin
<1>8. Kept(Join(docs)) = Join(b)
  BY <1>1, <1>4, KeptJoin
<1>9. Kept(manifest) = WithoutNoise(manifest)
  <2> DEFINE chosen == {i \in DOMAIN manifest :
                            ~Blank(manifest[i]) /\ ~Noisy(manifest[i]) /\ ~Belongs(manifest, i)}
  <2>1. \A i \in 1 .. Len(manifest) :
            ~Blank(manifest[i]) => (Belongs(manifest, i) <=> Within(manifest, i))
    BY BelongsIsWithin
  <2>2. chosen = KeptLines(manifest)
    BY <2>1 DEF KeptLines
  <2> QED
    BY <2>2 DEF Kept, WithoutNoise
<1> QED
  BY <1>1, <1>5, <1>7, <1>8, <1>9

-------------------------------------------------------------------------------
(* budget.go                                                                 *)

\* The recursive function Offsets is what its definition says.
LEMMA OffsetsInTurn ==
    ASSUME NEW text \in Seq(Lines)
    PROVE  /\ Offsets(text) \in [0 .. Len(text) -> Nat]
           /\ Offsets(text)[0] = 0
           /\ \A i \in 1 .. Len(text) : Offsets(text)[i] = Offsets(text)[i - 1] + Size(text[i])
<1> DEFINE n == Len(text)
           step == [p \in (1 .. n) \X Nat |-> p[2] + Size(text[p[1]])]
           Solves(f) == f = [i \in 0 .. n |-> IF i = 0 THEN 0 ELSE f[i - 1] + Size(text[i])]
<1>1. n \in Nat /\ 0 \in Nat
  OBVIOUS
<1>2. \A i \in 1 .. n : Size(text[i]) \in Nat
  <2> SUFFICES ASSUME NEW i \in 1 .. n PROVE Size(text[i]) \in Nat
    OBVIOUS
  <2>1. text[i] \in Lines
    OBVIOUS
  <2>2. text[i].indent \in Nat
    BY <2>1 DEF Lines
  <2> QED
    BY <2>2 DEF Size
<1>3. /\ step \in [(1 .. n) \X Nat -> Nat]
      /\ \A i \in 1 .. n, sum \in Nat : step[<<i, sum>>] = sum + Size(text[i])
  <2> HIDE DEF n
  <2> QED
    BY <1>2
<1> HIDE DEF n, step
<1>4. \E f : Solves(f)
  <2>1. PICK g : g \in [SUBSET (1 .. n) -> Nat] /\ Unwinds(g, n, Nat, 0, step)
    BY <1>1, <1>3, Recursion
  <2>2. PICK f : RunsTo(g[1 .. n], f, n, Nat, 0, step)
    BY <1>1, <1>3, <2>1, InTurn
  <2>3. \A i \in 1 .. n : f[i] = f[i - 1] + Size(text[i])
    <3> SUFFICES ASSUME NEW i \in 1 .. n PROVE f[i] = f[i - 1] + Size(text[i])
      OBVIOUS
    <3>1. f[i - 1] \in Nat /\ f[i] = step[<<i, f[i - 1]>>]
      BY <1>1, <2>2 DEF RunsTo
    <3> QED
      BY <1>3, <3>1
  <2>4. f \in [0 .. n -> Nat] /\ f[0] = 0
    BY <2>2 DEF RunsTo
  <2>5. Solves(f)
    BY <1>1, <2>3, <2>4
  <2> QED
    BY <2>5
<1>5. Offsets(text) = CHOOSE f : Solves(f)
  BY DEF Offsets, n
<1> DEFINE F == CHOOSE f : Solves(f)
<1>6. F = [i \in 0 .. n |-> IF i = 0 THEN 0 ELSE F[i - 1] + Size(text[i])]
  BY <1>4
<1> HIDE DEF F
<1>7. F[0] = 0 /\ \A i \in 1 .. n : F[i] = F[i - 1] + Size(text[i])
  BY <1>1, <1>6
<1>8. 0 .. n \subseteq {i \in 0 .. n : F[i] \in Nat}
  <2> DEFINE T == {i \in 0 .. n : F[i] \in Nat}
  <2>1. 0 \in T
    BY <1>1, <1>7
  <2>2. ASSUME NEW i \in 1 .. n, i - 1 \in T PROVE i \in T
    <3>1. F[i - 1] \in Nat /\ Size(text[i]) \in Nat /\ F[i] = F[i - 1] + Size(text[i])
      BY <1>2, <1>7, <2>2
    <3> QED
      BY <3>1
  <2> HIDE DEF T
  <2>3. 0 .. n \subseteq T
    BY <1>1, <2>1, <2>2, InductionTo
  <2> QED
    BY <2>3 DEF T
<1> QED
  BY <1>5, <1>6, <1>7, <1>8 DEF F, n

LEMMA MaxOfTwo ==
    ASSUME NEW a \in Int, NEW b \in Int
    PROVE  Max({a, b}) = IF a >= b THEN a ELSE b
<1>1. \E z \in {a, b} : \A y \in {a, b} : z >= y
  OBVIOUS
<1>2. Max({a, b}) \in {a, b} /\ \A y \in {a, b} : Max({a, b}) >= y
  BY <1>1 DEF Max
<1> QED
  BY <1>2

LEMMA LengthType ==
    ASSUME NEW text \in Seq(Lines)
    PROVE  Length(text) \in Nat /\ LineEnds(text) \in SUBSET Nat
<1>1. Len(text) \in 0 .. Len(text) /\ DOMAIN text \subseteq 0 .. Len(text)
  OBVIOUS
<1> QED
  BY <1>1, OffsetsInTurn DEF Length, LineEnds

\* TruncateResponse, for any text and any limit (budget.go): exactly the texts that
\* are too long are cut, and a text that is cut is short enough with its notice.
THEOREM TruncatedFits ==
    ASSUME NEW text \in Seq(Lines), NEW max \in Nat \ {0}
    PROVE  LET cut == TruncateResponse(text, max)
               whole == [shown |-> Length(text), notice |-> 0]
           IN  /\ cut \in [shown : Nat, notice : Nat]
               /\ Length(text) <= max <=> cut = whole
               /\ cut # whole =>
                      /\ cut.notice = Notice /\ cut.shown < Length(text)
                      /\ cut.shown + cut.notice <= Max({max, Notice})
<1> DEFINE cut == TruncateResponse(text, max)
           cutoff == Max({max - Reserve, 0})
           ends == {e \in LineEnds(text) : e <= cutoff /\ e > cutoff - Window + 1}
           shown == IF ends = {} THEN cutoff ELSE Max(ends)
<1>1. /\ Reserve \in Nat /\ Notice \in Nat /\ 1 <= Notice /\ Notice <= Reserve
      /\ max \in Nat /\ 0 < max
  BY BudgetAssumption
<1>2. Length(text) \in Nat /\ LineEnds(text) \in SUBSET Nat
  BY LengthType
<1>3. Max({max, Notice}) >= max /\ Max({max, Notice}) >= Notice /\ Max({max, Notice}) \in Nat
  BY <1>1, MaxOfTwo
<1>4. cut = IF Length(text) <= max THEN [shown |-> Length(text), notice |-> 0]
            ELSE [shown |-> shown, notice |-> Notice]
  BY <1>1 DEF TruncateResponse
<1>5. cutoff = IF max >= Reserve THEN max - Reserve ELSE 0
  <2>1. max - Reserve \in Int
    BY <1>1
  <2>2. cutoff = IF max - Reserve >= 0 THEN max - Reserve ELSE 0
    BY <2>1, MaxOfTwo
  <2> QED
    BY <1>1, <2>2
<1>6. shown \in 0 .. cutoff
  <2>1. cutoff \in Nat
    BY <1>1, <1>5
  <2>2. ends \in SUBSET (0 .. cutoff)
    BY <1>2, <2>1
  <2> HIDE DEF ends, cutoff
  <2>3. CASE ends = {}
    BY <2>1, <2>3
  <2>4. CASE ends # {}
    <3>1. Max(ends) \in ends
      BY <2>1, <2>2, <2>4, MaxOf
    <3> QED
      BY <2>2, <2>4, <3>1
  <2> QED
    BY <2>3, <2>4
<1> HIDE DEF cut, shown, cutoff
<1>7. CASE Length(text) <= max
  <2>1. cut = [shown |-> Length(text), notice |-> 0]
    BY <1>4, <1>7 DEF cut
  <2> QED
    BY <1>2, <1>7, <2>1 DEF cut
<1>8. CASE Length(text) > max
  <2>1. cut = [shown |-> shown, notice |-> Notice]
    BY <1>1, <1>2, <1>4, <1>8 DEF cut
  <2>2. /\ shown \in Nat /\ shown + Notice <= Max({max, Notice})
        /\ shown < Length(text) /\ Notice # 0 /\ ~(Length(text) <= max)
    BY <1>1, <1>2, <1>3, <1>5, <1>6, <1>8
  <2>3. cut # [shown |-> Length(text), notice |-> 0]
    BY <2>1, <2>2
  <2> QED
    BY <1>1, <2>1, <2>2, <2>3 DEF cut
<1> QED
  BY <1>1, <1>2, <1>7, <1>8

\* Without a limit nothing is cut.
LEMMA UntruncatedIsWhole ==
    ASSUME NEW text \in Seq(Lines)
    PROVE  TruncateResponse(text, 0) = [shown |-> Length(text), notice |-> 0]
BY DEF TruncateResponse

-------------------------------------------------------------------------------
(* The tools that read a release                                             *)

Calls == [pc : {"received", "engine", "resources", "read", "answered"}, request : AllRequests,
          source : Seq(Lines), text : Seq(Lines), shown : Nat, notice : Nat, structured : Nat]

\* Type correctness.
ReadsTypeOK ==
    /\ revisions \in Seq(Seq(Lines))
    /\ upgrades \in Nat
    /\ call \in {Idle} \cup Calls

\* The text of an answer is what its tool makes of what the engine returned.
TextAnswers == At("answered") => call.text = Answered(call.request.tool, call.source)

ReadsInv == ReadsTypeOK /\ TextAnswers /\ BudgetKept

LEMMA AnsweredType ==
    ASSUME NEW tool \in Tools, NEW source \in Seq(Lines)
    PROVE  Answered(tool, source) \in Seq(Lines)
<1>1. ASSUME NEW lines \in Seq(Lines) PROVE OneLine(lines) \in Seq(Lines)
  BY LengthType DEF OneLine, Lines, Kinds
<1>2. SanitizeManifest(source) \in Seq(Lines)
  BY SanitizeManifestType
<1> QED
  BY <1>1, <1>2 DEF Answered

LEMMA ReadsInitially == ReadsInit => ReadsInv
<1> SUFFICES ASSUME ReadsInit PROVE ReadsInv
  OBVIOUS
<1>1. PICK m \in FirstManifests : revisions = <<m>>
  BY DEF ReadsInit
<1>2. m \in Seq(Lines)
  BY ReadsAssumption
<1>3. revisions \in Seq(Seq(Lines))
  BY <1>1, <1>2
<1> QED
  BY <1>3 DEF ReadsInit, ReadsInv, ReadsTypeOK, TextAnswers, BudgetKept, Idle, At

\* Only TextResult answers, so another step keeps what is said of answers.
LEMMA UnansweredKeeps ==
    ASSUME revisions' \in Seq(Seq(Lines)), upgrades' \in Nat,
           call' \in {Idle} \cup Calls, call'.pc # "answered"
    PROVE  ReadsInv'
BY DEF ReadsInv, ReadsTypeOK, TextAnswers, BudgetKept, At

LEMMA CallStays ==
    ASSUME ReadsInv, UNCHANGED call, revisions' \in Seq(Seq(Lines)), upgrades' \in Nat
    PROVE  ReadsInv'
BY DEF ReadsInv, ReadsTypeOK, TextAnswers, BudgetKept, At, Calls, Idle

\* What the engine returns is a text.
LEMMA ReturnsKeeps ==
    ASSUME NEW tool \in Tools, NEW sources \in SUBSET Seq(Lines), ReadsInv, Returns(tool, sources)
    PROVE  ReadsInv'
<1>1. call \in Calls /\ revisions' \in Seq(Seq(Lines)) /\ upgrades' \in Nat
  BY DEF Returns, At, ReadsInv, ReadsTypeOK, Idle
<1>2. PICK source \in sources : call' = [call EXCEPT !.pc = "read", !.source = source]
  BY DEF Returns
<1>3. call' \in Calls /\ call'.pc = "read"
  BY <1>1, <1>2 DEF Calls
<1> QED
  BY <1>1, <1>3, UnansweredKeeps

LEMMA TextResultKeeps == ReadsInv /\ TextResult => ReadsInv'
<1> SUFFICES ASSUME ReadsInv, TextResult PROVE ReadsInv'
  OBVIOUS
<1> DEFINE tool == call.request.tool
           text == Answered(tool, call.source)
           cut == TruncateResponse(text, MaxResponseBytes)
           twice == IF tool \in Typed THEN Length(text) ELSE 0
           whole == [shown |-> Length(text), notice |-> 0]
<1>1. /\ call \in Calls /\ UNCHANGED <<revisions, upgrades>>
      /\ revisions \in Seq(Seq(Lines)) /\ upgrades \in Nat
      /\ call' = [call EXCEPT !.pc = "answered", !.text = text, !.shown = cut.shown,
                               !.notice = cut.notice, !.structured = twice]
  BY DEF TextResult, At, ReadsInv, ReadsTypeOK, Idle
<1>2. text \in Seq(Lines)
  <2>1. call.request.tool \in Tools /\ call.source \in Seq(Lines)
    BY <1>1 DEF Calls, AllRequests
  <2> QED
    BY <2>1, AnsweredType
<1>3. text = Answered(call.request.tool, call.source)
  OBVIOUS
<1> HIDE DEF text
<1>4. /\ cut \in [shown : Nat, notice : Nat]
      /\ MaxResponseBytes > 0 =>
             /\ Length(text) <= MaxResponseBytes <=> cut = whole
             /\ cut # whole =>
                    /\ cut.notice = Notice /\ cut.shown < Length(text)
                    /\ cut.shown + cut.notice <= Max({MaxResponseBytes, Notice})
  <2>1. CASE MaxResponseBytes = 0
    <3>1. cut = whole
      BY <1>2, <2>1, UntruncatedIsWhole
    <3> QED
      BY <1>2, <2>1, <3>1, LengthType
  <2>2. CASE MaxResponseBytes \in Nat \ {0}
    BY <1>2, <2>2, TruncatedFits
  <2> QED
    BY <2>1, <2>2, ReadsAssumption
<1>5. twice \in Nat
  BY <1>2, LengthType
<1> HIDE DEF cut, twice
<1>6. call' \in Calls
  BY <1>1, <1>2, <1>4, <1>5 DEF Calls
<1>7. /\ call'.pc = "answered" /\ call'.request = call.request /\ call'.source = call.source
      /\ call'.text = text /\ call'.shown = cut.shown /\ call'.notice = cut.notice
  BY <1>1 DEF Calls
<1>8. BudgetKept'
  <2>1. cut = [shown |-> cut.shown, notice |-> cut.notice]
    BY <1>4
  <2> QED
    BY <1>4, <1>7, <2>1 DEF BudgetKept, At
<1>9. TextAnswers'
  BY <1>3, <1>7 DEF TextAnswers, At
<1> QED
  BY <1>1, <1>6, <1>8, <1>9 DEF ReadsInv, ReadsTypeOK

LEMMA ReadsStep == ReadsInv /\ [ReadsNext]_readVars => ReadsInv'
<1> SUFFICES ASSUME ReadsInv, [ReadsNext]_readVars PROVE ReadsInv'
  OBVIOUS
<1>1. /\ revisions \in Seq(Seq(Lines)) /\ upgrades \in Nat /\ call \in {Idle} \cup Calls
      /\ Idle.pc = "idle"
  BY DEF ReadsInv, ReadsTypeOK, Idle
<1>2. CASE Arrive
  <2>1. PICK r \in Requests :
            call' = [pc |-> "received", request |-> r, source |-> <<>>, text |-> <<>>,
                     shown |-> 0, notice |-> 0, structured |-> 0]
    BY <1>2 DEF Arrive
  <2>2. <<>> \in Seq(Lines) /\ r \in AllRequests
    BY ReadsAssumption
  <2>3. call' \in Calls /\ call'.pc # "answered"
    BY <2>1, <2>2 DEF Calls
  <2> QED
    BY <1>1, <1>2, <2>3, UnansweredKeeps DEF Arrive
<1>3. ASSUME NEW tool \in Tools, Handle(tool) PROVE ReadsInv'
  <2>1. call \in Calls /\ call' = [call EXCEPT !.pc = "engine"] /\ UNCHANGED <<revisions, upgrades>>
    BY <1>1, <1>3 DEF Handle, At, Goto
  <2>2. call' \in Calls /\ call'.pc # "answered"
    BY <2>1 DEF Calls
  <2> QED
    BY <1>1, <2>1, <2>2, UnansweredKeeps
<1>4. CASE Refuse \/ Return
  <2>1. call' = Idle /\ UNCHANGED <<revisions, upgrades>>
    BY <1>4 DEF Refuse, Return
  <2> QED
    BY <1>1, <2>1, UnansweredKeeps
<1>5. CASE TextResult
  BY <1>5, TextResultKeeps
<1>6. CASE Status
  <2>1. call \in Calls /\ call' = [call EXCEPT !.pc = "resources"] /\ UNCHANGED <<revisions, upgrades>>
    BY <1>1, <1>6 DEF Status, At, Goto
  <2>2. call' \in Calls /\ call'.pc # "answered"
    BY <2>1 DEF Calls
  <2> QED
    BY <1>1, <2>1, <2>2, UnansweredKeeps
<1>7. CASE Resources
  <2>1. call \in Calls /\ UNCHANGED <<revisions, upgrades>>
    BY <1>1, <1>7 DEF Resources, At
  <2>2. PICK source \in OtherTexts : call' = [call EXCEPT !.pc = "read", !.source = source]
    BY <1>7 DEF Resources
  <2>3. source \in Seq(Lines)
    BY ReadsAssumption
  <2>4. call' \in Calls /\ call'.pc # "answered"
    BY <2>1, <2>2, <2>3 DEF Calls
  <2> QED
    BY <1>1, <2>1, <2>4, UnansweredKeeps
<1>8. CASE GetAll \/ GetManifest \/ GetHooks
  <2> DEFINE sources == {revisions[i] : i \in Found}
  <2>1. sources \in SUBSET Seq(Lines)
    BY <1>1 DEF Found
  <2>2. \E tool \in Tools : Returns(tool, sources)
    BY <1>8 DEF GetAll, GetManifest, GetHooks, Tools
  <2> HIDE DEF sources
  <2> QED
    BY <2>1, <2>2, ReturnsKeeps
<1>9. CASE GetValues \/ GetMetadata \/ GetNotes \/ List
  <2>1. OfRevision \in SUBSET Seq(Lines) /\ OtherTexts \in SUBSET Seq(Lines)
    BY ReadsAssumption DEF OfRevision
  <2>2. \E tool \in Tools, sources \in {OfRevision, OtherTexts} : Returns(tool, sources)
    BY <1>9 DEF GetValues, GetMetadata, GetNotes, List, Tools
  <2> QED
    BY <2>1, <2>2, ReturnsKeeps
<1>10. CASE History
  <2> DEFINE sources == {Listed(call.request.max) : i \in DOMAIN revisions}
             all == Len(revisions)
             length == IF call.request.max > 0 /\ call.request.max < all
                       THEN call.request.max ELSE all
  <2>1. call.request.max \in Nat /\ all \in Nat
    <3>1. call \in Calls
      BY <1>1, <1>10 DEF History, Returns, At
    <3> QED
      BY <1>1, <3>1 DEF Calls, AllRequests
  <2>2. length \in Nat /\ Listed(call.request.max) = [i \in 1 .. length |-> Entry]
    BY <2>1 DEF Listed
  <2>3. Entry \in Lines
    BY DEF Entry, Lines, Kinds
  <2> HIDE DEF length
  <2>4. Listed(call.request.max) \in Seq(Lines)
    BY <2>2, <2>3
  <2>5. sources \in SUBSET Seq(Lines)
    BY <2>4
  <2>6. Returns("history", sources) /\ "history" \in Tools
    BY <1>10 DEF History, Tools
  <2> HIDE DEF sources
  <2> QED
    BY <2>5, <2>6, ReturnsKeeps
<1>11. CASE Upgrade
  <2>1. PICK m \in LaterManifests : revisions' = Append(revisions, m)
    BY <1>11 DEF Upgrade
  <2>2. m \in Seq(Lines) /\ upgrades' = upgrades + 1 /\ UNCHANGED call
    BY <1>11, ReadsAssumption DEF Upgrade
  <2>3. revisions' \in Seq(Seq(Lines)) /\ upgrades' \in Nat
    BY <1>1, <2>1, <2>2
  <2> QED
    BY <2>2, <2>3, CallStays
<1>12. CASE Uninstall \/ UNCHANGED readVars
  <2>1. <<>> \in Seq(Seq(Lines))
    OBVIOUS
  <2>2. revisions' \in Seq(Seq(Lines)) /\ upgrades' \in Nat /\ UNCHANGED call
    BY <1>1, <1>12, <2>1 DEF Uninstall, readVars
  <2> QED
    BY <2>2, CallStays
<1>13. CASE \/ HandleGetAll \/ HandleGetValues \/ HandleGetMetadata \/ HandleGetManifest
            \/ HandleGetHooks \/ HandleGetNotes \/ HandleStatus \/ HandleHistory \/ HandleList
  BY <1>3, <1>13 DEF HandleGetAll, HandleGetValues, HandleGetMetadata, HandleGetManifest,
     HandleGetHooks, HandleGetNotes, HandleStatus, HandleHistory, HandleList, Tools
<1> QED
  BY <1>2, <1>4, <1>5, <1>6, <1>7, <1>8, <1>9, <1>10, <1>11, <1>12, <1>13 DEF ReadsNext

LEMMA ReadsInductive == ReadsSpec => []ReadsInv
BY ReadsInitially, ReadsStep, PTL DEF ReadsSpec

\* Revisions and calls hold lines, and lengths of lines.
THEOREM ReadsTypeCorrect == ReadsSpec => []ReadsTypeOK
<1>1. ReadsInv => ReadsTypeOK
  BY DEF ReadsInv
<1> QED
  BY <1>1, ReadsInductive, PTL

\* For manifests of any length: the text of helm_get_manifest's and helm_get_hooks'
\* answers has every line outside the noisy keys and their values, unchanged and in
\* order, and none of theirs, under the conditions SanitizedExactly names
\* (sanitize.go).
THEOREM AnswersAreSanitizedExactly == ReadsSpec => []SanitizedExactly
<1>1. ReadsInv => SanitizedExactly
  <2> SUFFICES ASSUME ReadsInv, Sanitized, Undashed(call.source), Announced(call.source),
                      Indented(call.source)
               PROVE  NonBlank(call.text) = WithoutNoise(call.source)
    BY DEF SanitizedExactly
  <2>1. call.source \in Seq(Lines) /\ AsHelmWrites(call.source)
    BY DEF ReadsInv, ReadsTypeOK, Idle, Calls, At, Sanitized
  <2>2. call.text = SanitizeManifest(call.source)
    BY DEF ReadsInv, TextAnswers, Sanitized, Answered
  <2> QED
    BY <2>1, <2>2, SanitizeManifestIsExact
<1> QED
  BY <1>1, ReadsInductive, PTL

\* The text of an answer goes out whole exactly if it is within the limit, and is
\* within the limit with its notice otherwise (budget.go).
THEOREM AnswersFitTheBudget == ReadsSpec => []BudgetKept
<1>1. ReadsInv => BudgetKept
  BY DEF ReadsInv
<1> QED
  BY <1>1, ReadsInductive, PTL
===============================================================================

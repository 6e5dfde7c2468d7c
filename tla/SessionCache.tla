----------------------------- MODULE SessionCache -----------------------------
(***************************************************************************)
(* internal/security/session.go: the validated tokens, keyed by the hash    *)
(* of the token.  Every method holds the mutex from its first line to its   *)
(* last, so each is one action; which caller comes next is open.  Delete has  *)
(* no caller outside the tests and is left out.                            *)
(***************************************************************************)
EXTENDS Clock, FiniteSets, Functions

CONSTANTS
    Tokens,        \* the bearer tokens, standing for their hashes
    ExpiresAt,     \* Claims.ExpiresAt of each
    InactivityTTL, \* config.InactivityTTL
    MaxEntries     \* config.MaxEntries

ASSUME SessionAssumption ==
    /\ IsFiniteSet(Tokens)
    /\ ExpiresAt \in [Tokens -> Nat]
    /\ InactivityTTL \in Nat \ {0}
    /\ MaxEntries \in Nat \ {0}

VARIABLE entries \* the LastAccess of each token that has an entry

CacheInit == entries = [t \in {} |-> 0]

CacheTypeOK == \E S \in SUBSET Tokens : entries \in [S -> Nat]

\* Neither past its exp nor left alone for too long.
Usable(t) ==
    /\ now <= ExpiresAt[t]
    /\ now - entries[t] <= InactivityTTL

Drop(S) == entries' = Restrict(entries, DOMAIN entries \ S)

\* Get returns claims, and slides the window.
GetHit(t) ==
    /\ t \in DOMAIN entries
    /\ Usable(t)
    /\ entries' = [entries EXCEPT ![t] = now]

\* Get returns nil, and deletes an entry it found unusable.
GetMiss(t) ==
    /\ t \in DOMAIN entries => ~Usable(t)
    /\ Drop({t})

\* evictOldest: ties are broken by the order of the map iteration.
Oldest == {k \in DOMAIN entries : \A j \in DOMAIN entries : entries[k] <= entries[j]}

\* Mutants: an entry that the iteration happens to meet, and a wrong boundary.
VictimsAny ==
    IF Cardinality(DOMAIN entries) >= MaxEntries
    THEN {{k} : k \in DOMAIN entries}
    ELSE {{}}

VictimsTooLate ==
    IF Cardinality(DOMAIN entries) > MaxEntries
    THEN {{k} : k \in Oldest}
    ELSE {{}}

\* What Put removes first.
Victims ==
    IF Cardinality(DOMAIN entries) >= MaxEntries
    THEN {{k} : k \in Oldest}
    ELSE {{}}

Put(t) ==
    \E S \in Victims :
        entries' = [k \in (DOMAIN entries \ S) \cup {t} |->
                       IF k = t THEN now ELSE entries[k]]

\* A mutant: && for ||.
CleanupIfBoth ==
    Drop({k \in DOMAIN entries : now > ExpiresAt[k] /\ now - entries[k] > InactivityTTL})

\* One tick of cleanupLoop.
Cleanup == Drop({k \in DOMAIN entries : ~Usable(k)})

CacheNext ==
    \/ \E t \in Tokens : GetHit(t) \/ GetMiss(t) \/ Put(t)
    \/ Cleanup

CacheStart == CacheInit /\ now = 0

\* The cache with any callers.
CacheStep ==
    \/ CacheNext /\ UNCHANGED now
    \/ Advance /\ UNCHANGED entries

CacheSpec == CacheStart /\ [][CacheStep]_<<entries, now>>

\* The ticker of cleanupLoop keeps ticking.
CacheFairSpec == CacheSpec /\ WF_<<entries, now>>(Cleanup /\ UNCHANGED now)

-------------------------------------------------------------------------------
\* The cache never outgrows its configuration, whatever the order of the calls
\* that fill it (session.go:114-117, README.md:990).
Capped == Cardinality(DOMAIN entries) <= MaxEntries

\* The sessions that are lost in this step although they could still be used.
Lost == {k \in DOMAIN entries \ DOMAIN entries' : Usable(k)}

\* A session that could still be used is lost only when the cache is full, and
\* then it is one, and no other was used less recently (session.go:114-117,
\* 180-197).
LosesOnlyOldest ==
    [][Lost # {} => /\ Cardinality(DOMAIN entries) >= MaxEntries
                    /\ \E k \in Oldest : Lost = {k}]_<<entries, now>>

\* No entry stays for ever once its token has expired.
ExpiredPurged ==
    \A t \in Tokens :
        t \in DOMAIN entries /\ now > ExpiresAt[t] ~> t \notin DOMAIN entries
===============================================================================

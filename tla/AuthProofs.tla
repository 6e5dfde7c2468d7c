------------------------------ MODULE AuthProofs ------------------------------
(* The session cache, the JWKS cache and the middleware that joins them,    *)
(* for any tokens, keys, requests, limits and lengths of time.              *)
EXTENDS Auth, FiniteSetTheorems, TLAPS

-------------------------------------------------------------------------------
(* The session cache on its own                                             *)

\* Inductive: Capped, and what its proof needs of the types.
CInv ==
    /\ DOMAIN entries \subseteq Tokens
    /\ entries \in [DOMAIN entries -> Nat]
    /\ now \in Nat
    /\ Capped

LEMMA EntriesFinite ==
    ASSUME DOMAIN entries \subseteq Tokens
    PROVE  IsFiniteSet(DOMAIN entries) /\ Cardinality(DOMAIN entries) \in Nat
BY SessionAssumption, FS_Subset, FS_CardinalityType

LEMMA DropShrinks ==
    ASSUME CInv, NEW S, Drop(S), UNCHANGED now
    PROVE  CInv' /\ DOMAIN entries' = DOMAIN entries \ S
<1>1. /\ DOMAIN entries' = DOMAIN entries \ S
      /\ entries' \in [DOMAIN entries \ S -> Nat]
  BY DEF CInv, Drop, Restrict
<1>2. Cardinality(DOMAIN entries') <= Cardinality(DOMAIN entries)
  BY <1>1, EntriesFinite, FS_Subset DEF CInv
<1>3. Cardinality(DOMAIN entries) \in Nat /\ Cardinality(DOMAIN entries') \in Nat
  <2>1. IsFiniteSet(DOMAIN entries \ S)
    BY EntriesFinite, FS_Subset DEF CInv
  <2> QED
    BY <1>1, <2>1, EntriesFinite, FS_CardinalityType DEF CInv
<1>4. Cardinality(DOMAIN entries') <= MaxEntries
  BY <1>2, <1>3, SessionAssumption DEF CInv, Capped
<1> QED
  BY <1>1, <1>4 DEF CInv, Capped

\* Put removes an entry before it adds one, and only if there is no room.
LEMMA PutFits ==
    ASSUME CInv, NEW t \in Tokens, Put(t), UNCHANGED now
    PROVE  CInv'
<1> DEFINE D == DOMAIN entries
<1>1. PICK S \in Victims :
          entries' = [k \in (D \ S) \cup {t} |-> IF k = t THEN now ELSE entries[k]]
  BY DEF Put
<1>2. /\ DOMAIN entries' = (D \ S) \cup {t}
      /\ (D \ S) \cup {t} \subseteq Tokens
      /\ entries' \in [(D \ S) \cup {t} -> Nat]
  BY <1>1 DEF CInv
<1>3. IsFiniteSet(D) /\ Cardinality(D) \in Nat /\ Cardinality(D) <= MaxEntries
  BY EntriesFinite DEF CInv, Capped
<1>4. IsFiniteSet(D \ S) /\ Cardinality(D \ S) \in Nat
  BY <1>3, FS_Subset, FS_CardinalityType
<1>5. Cardinality(D \ S) + 1 <= MaxEntries
  <2>1. CASE Cardinality(D) >= MaxEntries
    <3>1. PICK k \in D : S = {k}
      BY <2>1, <1>1 DEF Victims, Oldest
    <3>2. Cardinality(D \ {k}) = Cardinality(D) - 1
      BY <1>3, FS_RemoveElement
    <3> QED
      BY <1>3, <3>1, <3>2, SessionAssumption
  <2>2. CASE ~(Cardinality(D) >= MaxEntries)
    <3>1. D \ S = D
      BY <2>2, <1>1 DEF Victims
    <3> QED
      BY <1>3, <2>2, <3>1, SessionAssumption
  <2> QED
    BY <2>1, <2>2
<1>6. Cardinality((D \ S) \cup {t}) \in {Cardinality(D \ S), Cardinality(D \ S) + 1}
  <2> HIDE DEF D
  <2> QED
    BY <1>4, FS_AddElement, Zenon
<1>7. Cardinality((D \ S) \cup {t}) \in Nat
  BY <1>4, <1>6
<1>8. Cardinality(DOMAIN entries') <= MaxEntries
  BY <1>2, <1>4, <1>5, <1>6, <1>7, SessionAssumption
<1> QED
  BY <1>2, <1>8 DEF CInv, Capped

LEMMA CacheStepInv == CInv /\ [CacheStep]_<<entries, now>> => CInv'
<1> SUFFICES ASSUME CInv, [CacheStep]_<<entries, now>> PROVE CInv'
  OBVIOUS
<1>1. ASSUME NEW t \in Tokens, GetHit(t), UNCHANGED now PROVE CInv'
  <2>1. DOMAIN entries' = DOMAIN entries /\ entries' \in [DOMAIN entries -> Nat]
    BY <1>1 DEF CInv, GetHit
  <2> QED
    BY <1>1, <2>1 DEF CInv, Capped
<1>2. ASSUME NEW t \in Tokens, GetMiss(t), UNCHANGED now PROVE CInv'
  BY <1>2, DropShrinks DEF GetMiss
<1>3. ASSUME NEW t \in Tokens, Put(t), UNCHANGED now PROVE CInv'
  BY <1>3, PutFits
<1>4. CASE Cleanup /\ UNCHANGED now
  BY <1>4, DropShrinks DEF Cleanup
<1>5. CASE Advance /\ UNCHANGED entries
  BY <1>5 DEF CInv, Capped, Advance
<1>6. CASE UNCHANGED <<entries, now>>
  BY <1>6 DEF CInv, Capped
<1> QED
  BY <1>1, <1>2, <1>3, <1>4, <1>5, <1>6 DEF CacheStep, CacheNext

LEMMA CacheInductive == CacheSpec => []CInv
<1>1. CacheStart => CInv
  <2> SUFFICES ASSUME CacheStart PROVE CInv
    OBVIOUS
  <2>1. DOMAIN entries = {} /\ entries \in [{} -> Nat] /\ now = 0
    BY DEF CacheStart, CacheInit
  <2> QED
    BY <2>1, FS_EmptySet, SessionAssumption DEF CInv, Capped
<1> QED
  BY <1>1, CacheStepInv, PTL DEF CacheSpec

\* For every limit the cache stays within it, in any order of calls
\* (session.go:114-117, README.md:990).
THEOREM CacheIsCapped == CacheSpec => []Capped
<1>1. CInv => Capped
  BY DEF CInv
<1> QED
  BY <1>1, CacheInductive, PTL

\* A usable session is lost only when the cache is full, and then only the one
\* that was used least recently, for any limit and in any order of calls
\* (session.go:114-117, 180-197).
THEOREM CacheLosesOldest == CacheSpec => LosesOnlyOldest
<1> DEFINE Loss == Lost # {} => /\ Cardinality(DOMAIN entries) >= MaxEntries
                                /\ \E k \in Oldest : Lost = {k}
<1>1. ASSUME CInv, NEW t \in Tokens, Put(t) PROVE Loss
  <2>1. PICK S \in Victims : DOMAIN entries' = (DOMAIN entries \ S) \cup {t}
    BY <1>1 DEF Put
  <2>2. CASE Cardinality(DOMAIN entries) >= MaxEntries
    <3>1. PICK k \in Oldest : S = {k}
      BY <2>1, <2>2 DEF Victims
    <3>2. Lost \subseteq {k}
      BY <2>1, <3>1 DEF Lost
    <3> QED
      BY <2>2, <3>2
  <2>3. CASE ~(Cardinality(DOMAIN entries) >= MaxEntries)
    <3>1. Lost = {}
      BY <2>1, <2>3 DEF Victims, Lost
    <3> QED
      BY <3>1
  <2> QED
    BY <2>2, <2>3
<1>2. CInv /\ [CacheStep]_<<entries, now>> => [Loss]_<<entries, now>>
  <2> SUFFICES ASSUME CInv, CacheStep PROVE Loss
    OBVIOUS
  <2>1. ASSUME NEW t \in Tokens, GetHit(t) PROVE Lost = {}
    BY <2>1 DEF CInv, GetHit, Lost
  <2>2. ASSUME NEW t \in Tokens, GetMiss(t) PROVE Lost = {}
    <3>1. DOMAIN entries' = DOMAIN entries \ {t}
      BY <2>2 DEF GetMiss, Drop, Restrict
    <3> QED
      BY <2>2, <3>1 DEF GetMiss, Lost
  <2>3. ASSUME NEW t \in Tokens, Put(t) PROVE Loss
    BY <1>1, <2>3
  <2>4. ASSUME Cleanup PROVE Lost = {}
    <3>1. DOMAIN entries' = DOMAIN entries \ {k \in DOMAIN entries : ~Usable(k)}
      BY <2>4 DEF Cleanup, Drop, Restrict
    <3> QED
      BY <3>1 DEF Lost
  <2>5. ASSUME UNCHANGED entries PROVE Lost = {}
    BY <2>5 DEF Lost
  <2> QED
    BY <2>1, <2>2, <2>3, <2>4, <2>5 DEF CacheStep, CacheNext
<1> QED
  BY <1>2, CacheInductive, PTL DEF CacheSpec, LosesOnlyOldest

-------------------------------------------------------------------------------
(* The JWKS cache on its own                                                *)

\* A key about which S and the issuer disagree changed at t or later.
DiffersSince(S, t) == \A k \in Kids : (k \in S) # (k \in issuerKeys) => t <= changed[k]

\* The strengthening of KeysRecent: an answer differs from what the issuer
\* publishes only by changes made since the fetch began, and a fetch is not
\* older than the HTTP timeout.
JInv ==
    /\ JwksTypeOK
    /\ now \in Nat
    /\ \A k \in Kids : changed[k] <= now
    /\ fetched <= now
    /\ refreshing => started <= now /\ now <= started + FetchTimeout
    /\ answer # {} => refreshing /\ DiffersSince(answer, started)
    /\ KeysRecent

LEMMA JwksStepInv == JInv /\ [JwksStep]_<<jwksVars, now>> => JInv'
<1> SUFFICES ASSUME JInv, [JwksStep]_<<jwksVars, now>> PROVE JInv'
  OBVIOUS
<1> USE JwksAssumption DEF JInv, JwksTypeOK
<1>1. ASSUME NEW u \in Urls, NEW maxAge \in {KeysTTL, MinRefresh},
             RefreshFetches(u, maxAge), UNCHANGED now
      PROVE  JInv'
  BY <1>1 DEF RefreshFetches, KeysRecent, cacheVars, issuerVars
<1>2. CASE IssuerAnswers /\ UNCHANGED now
  <2>1. DiffersSince(issuerKeys, started)
    BY DEF DiffersSince
  <2> QED
    BY <1>2, <2>1 DEF IssuerAnswers, KeysRecent, DiffersSince, cacheVars, issuerVars
<1>3. ASSUME NEW u \in Urls, FetchSucceeds(u), UNCHANGED now
      PROVE  JInv'
  <2>1. ASSUME NEW k \in Kids, (k \in answer) # (k \in issuerKeys)
        PROVE  now <= changed[k] + FetchTimeout
    <3>1. started <= changed[k] /\ now <= started + FetchTimeout
      BY <1>3, <2>1 DEF FetchSucceeds, DiffersSince
    <3> QED
      BY <3>1
  <2>2. KeysRecent'
    BY <1>3, <2>1 DEF FetchSucceeds, KeysRecent, issuerVars
  <2>3. /\ keys' = answer /\ url' = u /\ fetched' = now /\ answer' = {}
        /\ refreshing' = FALSE /\ started' = 0
        /\ UNCHANGED <<issuerKeys, changed, rotations, now>>
    BY <1>3 DEF FetchSucceeds, issuerVars
  <2>4. JwksTypeOK'
    BY <2>3
  <2> HIDE DEF JwksTypeOK
  <2> QED
    BY <2>2, <2>3, <2>4
<1>4. CASE FetchFails /\ UNCHANGED now
  BY <1>4 DEF FetchFails, KeysRecent, cacheVars, issuerVars
<1>5. CASE Rotate /\ UNCHANGED now
  <2>1. PICK new \in SUBSET Kids :
          /\ issuerKeys' = new
          /\ changed' = [k \in Kids |->
                IF (k \in new) = (k \in issuerKeys) THEN changed[k] ELSE now]
    BY <1>5 DEF Rotate
  <2>2. UNCHANGED <<keys, url, fetched, refreshing, started, answer, now>>
    BY <1>5 DEF Rotate, cacheVars, fetchVars
  <2>3. changed' \in [Kids -> Nat] /\ \A k \in Kids : changed'[k] <= now
    BY <2>1
  <2>4. \A k \in Kids : (k \in new) # (k \in issuerKeys) => changed'[k] = now
    BY <2>1
  <2>5. \A k \in Kids : (k \in new) = (k \in issuerKeys) => changed'[k] = changed[k]
    BY <2>1
  <2>6. KeysRecent'
    <3> SUFFICES ASSUME keys # {}, NEW k \in Kids, (k \in keys) # (k \in new)
                 PROVE  fetched <= changed'[k] + FetchTimeout
      BY <2>1, <2>2 DEF KeysRecent
    <3>1. CASE (k \in new) = (k \in issuerKeys)
      BY <2>5, <3>1 DEF KeysRecent
    <3>2. CASE (k \in new) # (k \in issuerKeys)
      BY <2>4, <3>2
    <3> QED
      BY <3>1, <3>2
  <2>7. answer' # {} => refreshing' /\ DiffersSince(answer, started)'
    <3> SUFFICES ASSUME answer # {}, NEW k \in Kids, (k \in answer) # (k \in new)
                 PROVE  refreshing /\ started <= changed'[k]
      BY <2>1, <2>2 DEF DiffersSince
    <3>1. CASE (k \in new) = (k \in issuerKeys)
      BY <2>5, <3>1 DEF DiffersSince
    <3>2. CASE (k \in new) # (k \in issuerKeys)
      BY <2>4, <3>2
    <3> QED
      BY <3>1, <3>2
  <2>8. rotations' \in 0 .. MaxRotations
    BY <1>5 DEF Rotate
  <2> QED
    BY <2>1, <2>2, <2>3, <2>6, <2>7, <2>8
<1>6. CASE Advance /\ FetchMayLast /\ UNCHANGED jwksVars
  <2>1. now' = now + 1 /\ (refreshing => now < started + FetchTimeout)
    BY <1>6 DEF Advance, FetchMayLast
  <2>2. UNCHANGED <<keys, url, fetched, refreshing, started, answer, issuerKeys, changed, rotations>>
    BY <1>6 DEF jwksVars, cacheVars, fetchVars, issuerVars
  <2> QED
    BY <2>1, <2>2 DEF KeysRecent, DiffersSince
<1>7. CASE UNCHANGED <<jwksVars, now>>
  BY <1>7 DEF jwksVars, cacheVars, fetchVars, issuerVars, KeysRecent, DiffersSince
<1> QED
  BY <1>1, <1>2, <1>3, <1>4, <1>5, <1>6, <1>7 DEF JwksStep

LEMMA JwksInductive == JwksSpec => []JInv
<1>1. JwksInit /\ now = 0 => JInv
  <2> SUFFICES ASSUME JwksInit, now = 0 PROVE JInv
    OBVIOUS
  <2>1. JwksTypeOK
    <3>1. rotations \in 0 .. MaxRotations
      BY JwksAssumption DEF JwksInit
    <3>2. changed \in [Kids -> Nat]
      BY DEF JwksInit
    <3>3. keys = {} /\ url = NoUrl /\ fetched = 0 /\ refreshing = FALSE /\ started = 0 /\ answer = {}
      BY DEF JwksInit
    <3>4. issuerKeys \in SUBSET Kids
      BY DEF JwksInit
    <3> QED
      BY <3>1, <3>2, <3>3, <3>4 DEF JwksTypeOK
  <2>2. \A k \in Kids : changed[k] <= now
    BY DEF JwksInit
  <2> QED
    BY <2>1, <2>2 DEF JwksInit, JInv, KeysRecent
<1> QED
  BY <1>1, JwksStepInv, PTL DEF JwksSpec

\* No stored key set was older than one fetch, for any issuer and any timing
\* (oidc.go:411-431).
THEOREM StoredKeysAreRecent == JwksSpec => []KeysRecent
<1>1. JInv => KeysRecent
  BY DEF JInv
<1> QED
  BY <1>1, JwksInductive, PTL

-------------------------------------------------------------------------------
(* The middleware                                                           *)

\* A flag that says whether a request is in S, where there is at most one.
Guards(flag, S) ==
    /\ flag = (\E r \in Requests : pc[r] \in S)
    /\ \A q, r \in Requests : pc[q] \in S /\ pc[r] \in S => q = r

RequestTypeOK ==
    /\ pc \in [Requests -> PCs]
    /\ token \in [Requests -> Tokens]

\* discoveryMu and the write lock of the JWKS cache each have one holder.
MInv ==
    /\ RequestTypeOK
    /\ Guards(discovering, {"discovering"})
    /\ Guards(refreshing, Fetching)

LEMMA GuardStays ==
    ASSUME RequestTypeOK, NEW r \in Requests, NEW p \in PCs, Goto(r, p), NEW S, NEW flag,
           Guards(flag, S), pc[r] \notin S, p \notin S
    PROVE  /\ flag = (\E q \in Requests : pc'[q] \in S)
           /\ \A q, s \in Requests : pc'[q] \in S /\ pc'[s] \in S => q = s
<1>1. \A q \in Requests : pc'[q] = IF q = r THEN p ELSE pc[q]
  BY DEF RequestTypeOK, Goto
<1>2. \A q \in Requests : pc'[q] \in S <=> pc[q] \in S
  BY <1>1
<1> QED
  BY <1>2, Zenon DEF Guards

LEMMA JwksGuardStays ==
    ASSUME MInv, NEW r \in Requests, NEW p \in PCs, Goto(r, p),
           pc[r] \notin Fetching, p \notin Fetching, UNCHANGED refreshing
    PROVE  Guards(refreshing, Fetching)'
<1>1. RequestTypeOK /\ Guards(refreshing, Fetching)
  BY DEF MInv
<1>2. /\ refreshing = (\E q \in Requests : pc'[q] \in Fetching)
      /\ \A q, s \in Requests : pc'[q] \in Fetching /\ pc'[s] \in Fetching => q = s
  BY <1>1, GuardStays
<1>3. refreshing' = (\E q \in Requests : pc'[q] \in Fetching)
  BY <1>2, Zenon
<1> QED
  BY <1>2, <1>3, Zenon DEF Guards, Fetching

LEMMA DiscoveryGuardStays ==
    ASSUME MInv, NEW r \in Requests, NEW p \in PCs, Goto(r, p),
           pc[r] # "discovering", p # "discovering", UNCHANGED discovering
    PROVE  Guards(discovering, {"discovering"})'
<1> DEFINE S == {"discovering"}
<1>1. RequestTypeOK /\ Guards(discovering, S) /\ pc[r] \notin S /\ p \notin S
  BY DEF MInv
<1>2. /\ discovering = (\E q \in Requests : pc'[q] \in S)
      /\ \A q, s \in Requests : pc'[q] \in S /\ pc'[s] \in S => q = s
  <2> HIDE DEF S
  <2> QED
    BY <1>1, GuardStays
<1>3. discovering' = (\E q \in Requests : pc'[q] \in S)
  <2> HIDE DEF S
  <2> QED
    BY <1>2, Zenon
<1> QED
  BY <1>2, <1>3, Zenon DEF Guards

LEMMA GuardEnters ==
    ASSUME RequestTypeOK, NEW r \in Requests, NEW p \in PCs, Goto(r, p), NEW S,
           Guards(FALSE, S), p \in S
    PROVE  /\ \E q \in Requests : pc'[q] \in S
           /\ \A q, s \in Requests : pc'[q] \in S /\ pc'[s] \in S => q = s
<1>1. \A q \in Requests : pc'[q] = IF q = r THEN p ELSE pc[q]
  BY DEF RequestTypeOK, Goto
<1> QED
  BY <1>1 DEF Guards

LEMMA GuardLeaves ==
    ASSUME RequestTypeOK, NEW r \in Requests, NEW p \in PCs, Goto(r, p), NEW S, NEW flag,
           Guards(flag, S), pc[r] \in S, p \notin S
    PROVE  \A q \in Requests : pc'[q] \notin S
<1>1. \A q \in Requests : pc'[q] = IF q = r THEN p ELSE pc[q]
  BY DEF RequestTypeOK, Goto
<1> QED
  BY <1>1 DEF Guards

\* Where the key function leaves a request.
LEMMA Looks ==
    ASSUME NEW r \in Requests, NEW place, NEW ks,
           Look(r, place, ks) \/ FirstLook(r, ks)
    PROVE  \E p \in {"store", "refused", "kid_missing", "unknown_key"} : Goto(r, p)
BY DEF Look, FirstLook, LastLook, Checked

\* A request that moves about outside the critical sections.
LEMMA Outside ==
    ASSUME MInv, NEW r \in Requests, NEW p \in PCs, Goto(r, p),
           pc[r] \notin Fetching \cup {"discovering"}, p \notin Fetching \cup {"discovering"},
           UNCHANGED <<discovering, refreshing>>,
           token' \in [Requests -> Tokens]
    PROVE  MInv'
<1>1. RequestTypeOK'
  BY DEF MInv, RequestTypeOK, Goto
<1>2. Guards(discovering, {"discovering"})'
  BY DiscoveryGuardStays
<1>3. Guards(refreshing, Fetching)'
  BY JwksGuardStays
<1> QED
  BY <1>1, <1>2, <1>3 DEF MInv

LEMMA MutexStep == MInv /\ [Next]_vars => MInv'
<1> SUFFICES ASSUME MInv, [Next]_vars PROVE MInv'
  OBVIOUS
<1> USE DEF RequestTypeOK
<1>1. ASSUME NEW r \in Requests, Arrive(r) PROVE MInv'
  <2>1. token' \in [Requests -> Tokens]
    BY <1>1 DEF Arrive, MInv
  <2> QED
    BY <1>1, <2>1, Outside
       DEF Arrive, Idle, PCs, Fetching, discoveryVars, jwksVars, fetchVars
<1>2. ASSUME NEW r \in Requests, Lookup(r) \/ Store(r) \/ DiscoverCached(r) PROVE MInv'
  <2>1. PICK p \in {"granted", "discover", "keys"} : Goto(r, p)
    BY <1>2 DEF Lookup, Store, DiscoverCached
  <2>2. /\ pc[r] \in {"lookup", "store", "discover"}
        /\ UNCHANGED <<token, discovering, refreshing>>
    BY <1>2 DEF Lookup, Store, DiscoverCached, discoveryVars, jwksVars, fetchVars
  <2> QED
    BY <2>1, <2>2, Outside DEF MInv, PCs, Idle, Fetching
<1>3. ASSUME NEW r \in Requests, DiscoverBegins(r) PROVE MInv'
  <2>1. /\ pc[r] = "discover" /\ Goto(r, "discovering") /\ discovering = FALSE
        /\ discovering' = TRUE /\ UNCHANGED <<token, refreshing>>
    BY <1>3 DEF DiscoverBegins, jwksVars, fetchVars, MInv, Guards
  <2>2. RequestTypeOK' /\ "discovering" \in PCs
    BY <2>1 DEF MInv, Goto, PCs
  <2>3. Guards(discovering, {"discovering"})'
    <3>1. Guards(FALSE, {"discovering"})
      BY <2>1 DEF MInv
    <3> QED
      BY <2>1, <2>2, <3>1, GuardEnters DEF MInv, Guards
  <2>4. Guards(refreshing, Fetching)'
    BY <2>1, <2>2, JwksGuardStays DEF Fetching
  <2> QED
    BY <2>2, <2>3, <2>4 DEF MInv
<1>4. ASSUME NEW r \in Requests, DiscoverEnds(r) PROVE MInv'
  <2>1. PICK p \in {"keys", "refused"} : Goto(r, p)
    BY <1>4 DEF DiscoverEnds, DocumentRead, DocumentMissing
  <2>2. /\ pc[r] = "discovering" /\ discovering' = FALSE /\ UNCHANGED <<token, refreshing>>
    BY <1>4 DEF DiscoverEnds, jwksVars, fetchVars, MInv
  <2>3. p \in PCs /\ RequestTypeOK'
    BY <2>1, <2>2 DEF MInv, Goto, PCs, Idle
  <2>4. Guards(discovering, {"discovering"})'
    <3>1. \A q \in Requests : pc'[q] \notin {"discovering"}
      BY <2>1, <2>2, <2>3, GuardLeaves DEF MInv
    <3> QED
      BY <2>2, <3>1 DEF Guards
  <2>5. Guards(refreshing, Fetching)'
    BY <2>1, <2>2, <2>3, JwksGuardStays DEF Fetching
  <2> QED
    BY <2>3, <2>4, <2>5 DEF MInv
<1>5. ASSUME NEW r \in Requests, Keys(r) PROVE MInv'
  <2>1. PICK p \in {"store", "refused", "kid_missing", "unknown_key", "keys_stale"} : Goto(r, p)
    BY <1>5, Looks DEF Keys
  <2>2. pc[r] = "keys" /\ UNCHANGED <<token, discovering, refreshing>>
    BY <1>5 DEF Keys, GetKeysHit, GetKeysMiss, discoveryVars, jwksVars, fetchVars
  <2> QED
    BY <2>1, <2>2, Outside DEF MInv, PCs, Idle, Waiting, Fetching
<1>6. ASSUME NEW r \in Requests, Refresh(r) PROVE MInv'
  <2>1. pc[r] \in Waiting /\ UNCHANGED <<token, discovering>>
    BY <1>6 DEF Refresh, discoveryVars
  <2>2. ASSUME RefreshReuses(uri[r], MaxAge(pc[r])), Look(r, pc[r], keys) PROVE MInv'
    <3>1. PICK p \in {"store", "refused", "kid_missing", "unknown_key"} : Goto(r, p)
      BY <2>2, Looks
    <3>2. UNCHANGED refreshing
      BY <2>2 DEF RefreshReuses, jwksVars, fetchVars
    <3> QED
      BY <2>1, <3>1, <3>2, Outside DEF MInv, PCs, Idle, Waiting, Fetching
  <2>3. ASSUME RefreshFetches(uri[r], MaxAge(pc[r])),
               Goto(r, IF pc[r] = "keys_stale" THEN "fetch_stale" ELSE "fetch_missing")
        PROVE  MInv'
    <3>1. PICK p \in Fetching : Goto(r, p)
      BY <2>3 DEF Fetching
    <3>2. refreshing = FALSE /\ refreshing' = TRUE
      BY <2>3 DEF RefreshFetches, MInv, Guards
    <3>3. p \in PCs /\ RequestTypeOK'
      BY <2>1, <3>1 DEF MInv, Goto, PCs
    <3>4. Guards(refreshing, Fetching)'
      <4>1. Guards(FALSE, Fetching)
        BY <3>2 DEF MInv
      <4> QED
        BY <3>1, <3>2, <3>3, <4>1, GuardEnters DEF MInv, Guards
    <3>5. Guards(discovering, {"discovering"})'
      <4>1. pc[r] # "discovering" /\ p # "discovering"
        BY <2>1, <3>1 DEF Fetching, Waiting
      <4> QED
        BY <2>1, <3>1, <3>3, <4>1, DiscoveryGuardStays
    <3> QED
      BY <3>3, <3>4, <3>5 DEF MInv
  <2> QED
    BY <1>6, <2>2, <2>3 DEF Refresh
<1>7. ASSUME NEW r \in Requests, FetchReturns(r) PROVE MInv'
  <2>1. PICK p \in {"store", "refused", "kid_missing", "unknown_key"} : Goto(r, p)
    BY <1>7, Looks DEF FetchReturns
  <2>2. /\ pc[r] \in Fetching /\ refreshing' = FALSE
        /\ UNCHANGED <<token, discovering>>
    BY <1>7 DEF FetchReturns, FetchSucceeds, FetchFails, discoveryVars
  <2>3. p \in PCs /\ RequestTypeOK'
    BY <2>1, <2>2 DEF MInv, Goto, PCs, Idle, Waiting
  <2>4. Guards(refreshing, Fetching)'
    <3>1. p \notin Fetching
      BY <2>1 DEF Fetching
    <3>2. \A q \in Requests : pc'[q] \notin Fetching
      BY <2>1, <2>2, <2>3, <3>1, GuardLeaves DEF MInv
    <3> QED
      BY <2>2, <3>2 DEF Guards
  <2>5. Guards(discovering, {"discovering"})'
    BY <2>1, <2>2, <2>3, DiscoveryGuardStays DEF Fetching
  <2> QED
    BY <2>3, <2>4, <2>5 DEF MInv
<1>8. ASSUME UNCHANGED <<requestVars, discovering, refreshing>> PROVE MInv'
  BY <1>8 DEF MInv, Guards, requestVars
<1>9. CASE Purge \/ DiscoveryAges \/ Issuer \/ Tick \/ UNCHANGED vars
  <2>1. UNCHANGED <<requestVars, discovering, refreshing>>
    BY <1>9 DEF Purge, DiscoveryAges, Issuer, Tick, vars, discoveryVars, jwksVars,
                fetchVars, IssuerAnswers, Rotate
  <2> QED
    BY <2>1, <1>8
<1> QED
  BY <1>1, <1>2, <1>3, <1>4, <1>5, <1>6, <1>7, <1>9 DEF Next, Work

LEMMA MutexInductive == Spec => []MInv
<1>1. Init => MInv
  BY DEF Init, JwksInit, MInv, RequestTypeOK, Guards, PCs, Idle, Fetching
<1> QED
  BY <1>1, MutexStep, PTL DEF Spec

\* Every run of the middleware is a run of the session cache, so what holds of
\* the cache for any callers holds here (middleware.go:84, 104).
THEOREM ImplementsCache == Spec => CacheSpec
<1>1. Init => CacheStart
  BY DEF Init, CacheStart, JwksInit
<1>2. MInv /\ [Next]_vars => [CacheStep]_<<entries, now>>
  <2> SUFFICES ASSUME MInv, [Next]_vars PROVE CacheStep \/ UNCHANGED <<entries, now>>
    OBVIOUS
  <2>1. ASSUME NEW r \in Requests, Lookup(r) \/ Store(r) PROVE CacheStep
    <3>1. token[r] \in Tokens /\ UNCHANGED now
      BY <2>1 DEF MInv, RequestTypeOK, Lookup, Store
    <3>2. GetHit(token[r]) \/ GetMiss(token[r]) \/ Put(token[r])
      BY <2>1 DEF Lookup, Store
    <3> QED
      BY <3>1, <3>2 DEF CacheStep, CacheNext
  <2>2. ASSUME NEW r \in Requests,
               \/ Arrive(r) \/ DiscoverCached(r) \/ DiscoverBegins(r) \/ DiscoverEnds(r)
               \/ Keys(r) \/ Refresh(r) \/ FetchReturns(r)
        PROVE  UNCHANGED <<entries, now>>
    BY <2>2 DEF Arrive, DiscoverCached, DiscoverBegins, DiscoverEnds, Keys, Refresh, FetchReturns
  <2>3. CASE Purge
    BY <2>3 DEF Purge, CacheStep, CacheNext
  <2>4. CASE DiscoveryAges \/ Issuer \/ UNCHANGED vars
    BY <2>4 DEF DiscoveryAges, Issuer, vars
  <2>5. CASE Tick
    BY <2>5 DEF Tick, CacheStep
  <2> QED
    BY <2>1, <2>2, <2>3, <2>4, <2>5 DEF Next, Work
<1> QED
  BY <1>1, <1>2, MutexInductive, PTL DEF Spec, CacheSpec

\* The addresses the middleware works with are addresses of the issuer.
UInv ==
    /\ uri \in [Requests -> Urls \cup {NoUrl}]
    /\ \A r \in Requests : pc[r] \in UsingUri => uri[r] \in Urls
    /\ discovered \in Urls \cup {NoUrl}

\* A request that keeps its jwks_uri, or has no more use for it.
LEMMA UriKept ==
    ASSUME MInv, UInv, NEW r \in Requests, NEW p, Goto(r, p), KeepUri(r),
           pc[r] \in UsingUri, UNCHANGED discovered
    PROVE  UInv'
<1>1. \A q \in Requests : pc'[q] = IF q = r THEN p ELSE pc[q]
  BY DEF MInv, RequestTypeOK, Goto
<1>2. CASE p \in UsingUri
  <2>1. uri' = uri
    BY <1>1, <1>2 DEF KeepUri
  <2> QED
    BY <1>1, <2>1 DEF UInv
<1>3. CASE p \notin UsingUri
  <2>1. uri' = [uri EXCEPT ![r] = NoUrl]
    BY <1>1, <1>3 DEF KeepUri
  <2> QED
    BY <1>1, <1>3, <2>1 DEF UInv
<1> QED
  BY <1>2, <1>3

\* A request that goes on without a jwks_uri.
LEMMA UriUnused ==
    ASSUME MInv, UInv, NEW r \in Requests, NEW p, p \notin UsingUri, Goto(r, p),
           UNCHANGED <<uri, discovered>>
    PROVE  UInv'
BY DEF MInv, RequestTypeOK, Goto, UInv

LEMMA UriStep == MInv /\ UInv /\ [Next]_vars => UInv'
<1> SUFFICES ASSUME MInv, UInv, [Next]_vars PROVE UInv'
  OBVIOUS
<1>1. ASSUME NEW r \in Requests, Arrive(r) \/ Lookup(r) \/ Store(r) \/ DiscoverBegins(r)
      PROVE  UInv'
  <2>1. /\ \E p \in {"lookup", "granted", "discover", "discovering"} : Goto(r, p)
        /\ UNCHANGED <<uri, discovered>>
    BY <1>1 DEF Arrive, Lookup, Store, DiscoverBegins, discoveryVars
  <2> QED
    BY <2>1, UriUnused DEF UsingUri, Waiting, Fetching
<1>2. ASSUME NEW r \in Requests, DiscoverCached(r) PROVE UInv'
  BY <1>2 DEF DiscoverCached, Goto, UInv, MInv, RequestTypeOK, discoveryVars
<1>3. ASSUME NEW r \in Requests, DiscoverEnds(r) PROVE UInv'
  <2>1. CASE DocumentRead(r)
    BY <1>3, <2>1 DEF DiscoverEnds, DocumentRead, Goto, UInv, MInv, RequestTypeOK
  <2>2. CASE DocumentMissing(r)
    BY <1>3, <2>2, UriUnused DEF DiscoverEnds, DocumentMissing, UsingUri, Waiting, Fetching
  <2> QED
    BY <1>3, <2>1, <2>2 DEF DiscoverEnds
<1>4. ASSUME NEW r \in Requests, Keys(r) \/ Refresh(r) \/ FetchReturns(r) PROVE UInv'
  <2>1. \E p : Goto(r, p)
    BY <1>4, Looks DEF Keys, Refresh, FetchReturns
  <2>2. /\ KeepUri(r) /\ pc[r] \in UsingUri
        /\ UNCHANGED discovered
    BY <1>4 DEF Keys, Refresh, FetchReturns, UsingUri, discoveryVars
  <2> QED
    BY <2>1, <2>2, UriKept
<1>5. CASE Purge \/ Issuer \/ Tick \/ UNCHANGED vars
  BY <1>5 DEF Purge, Issuer, Tick, vars, requestVars, discoveryVars, UInv
<1>6. CASE DiscoveryAges
  BY <1>6 DEF DiscoveryAges, requestVars, UInv
<1> QED
  BY <1>1, <1>2, <1>3, <1>4, <1>5, <1>6 DEF Next, Work

LEMMA UriInductive == Spec => []UInv
<1>1. Init => UInv
  BY AuthAssumption DEF Init, UInv, UsingUri, Waiting, Fetching
<1> QED
  BY <1>1, UriStep, MutexInductive, PTL DEF Spec

\* Every run of the middleware is a run of the JWKS cache (oidc.go:146, 168).
THEOREM ImplementsKeys == Spec => JwksSpec
<1>1. Init => JwksInit /\ now = 0
  BY DEF Init
<1>2. UInv /\ [Next]_vars => [JwksStep]_<<jwksVars, now>>
  <2> SUFFICES ASSUME UInv, [Next]_vars PROVE JwksStep \/ UNCHANGED <<jwksVars, now>>
    OBVIOUS
  <2>1. ASSUME NEW r \in Requests, Refresh(r) PROVE JwksStep \/ UNCHANGED <<jwksVars, now>>
    <3>1. MaxAge(pc[r]) \in {KeysTTL, MinRefresh} /\ uri[r] \in Urls
      BY <2>1 DEF MaxAge, Refresh, UInv, UsingUri
    <3>2. UNCHANGED now /\ (UNCHANGED jwksVars \/ RefreshFetches(uri[r], MaxAge(pc[r])))
      BY <2>1 DEF Refresh, RefreshReuses
    <3> QED
      BY <3>1, <3>2 DEF JwksStep
  <2>2. ASSUME NEW r \in Requests, FetchReturns(r) PROVE JwksStep
    <3>1. uri[r] \in Urls
      BY <2>2 DEF FetchReturns, UInv, UsingUri
    <3> QED
      BY <2>2, <3>1 DEF FetchReturns, JwksStep
  <2>3. ASSUME NEW r \in Requests,
               \/ Arrive(r) \/ Lookup(r) \/ Store(r) \/ Keys(r)
               \/ DiscoverCached(r) \/ DiscoverBegins(r) \/ DiscoverEnds(r)
        PROVE  UNCHANGED <<jwksVars, now>>
    BY <2>3 DEF Arrive, Lookup, Store, Keys, GetKeysHit, GetKeysMiss,
                DiscoverCached, DiscoverBegins, DiscoverEnds
  <2>4. CASE Issuer
    BY <2>4 DEF Issuer, JwksStep
  <2>5. CASE Tick
    BY <2>5 DEF Tick, JwksStep
  <2>6. CASE Purge \/ DiscoveryAges \/ UNCHANGED vars
    BY <2>6 DEF Purge, DiscoveryAges, vars
  <2> QED
    BY <2>1, <2>2, <2>3, <2>4, <2>5, <2>6 DEF Next, Work
<1> QED
  BY <1>1, <1>2, UriInductive, PTL DEF Spec, JwksSpec

\* What holds of the session cache and of the JWKS cache for any callers holds
\* of them behind the middleware: the sessions stay within the limit, a usable
\* one is lost only when the cache is full, and no key set is stored that was
\* out of date by more than the HTTP timeout (middleware.go:84, 104; oidc.go:146,
\* 168).
THEOREM CachesBehindMiddleware == Spec => []Capped /\ LosesOnlyOldest /\ []KeysRecent
BY ImplementsCache, CacheIsCapped, CacheLosesOldest, ImplementsKeys, StoredKeysAreRecent, PTL

LEMMA Bounded == Spec => [](now \in 0 .. MaxTime)
<1>1. Init => now \in 0 .. MaxTime
  BY ClockAssumption DEF Init
<1>2. now \in 0 .. MaxTime /\ [Next]_vars => (now \in 0 .. MaxTime)'
  <2> SUFFICES ASSUME now \in 0 .. MaxTime, [Next]_vars PROVE now' \in 0 .. MaxTime
    OBVIOUS
  <2>1. CASE Tick
    BY <2>1, ClockAssumption DEF Tick, Advance
  <2>2. ASSUME NEW r \in Requests, Arrive(r) \/ Work(r) PROVE UNCHANGED now
    BY <2>2 DEF Arrive, Work, Lookup, Store, Keys, Refresh, FetchReturns,
                DiscoverCached, DiscoverBegins, DiscoverEnds
  <2>3. CASE Purge \/ DiscoveryAges \/ Issuer \/ UNCHANGED vars
    BY <2>3 DEF Purge, DiscoveryAges, Issuer, vars
  <2> QED
    BY <2>1, <2>2, <2>3 DEF Next
<1> QED
  BY <1>1, <1>2, PTL DEF Spec

\* Every variable keeps its type, and each of the two mutexes that are held over
\* a fetch is held by exactly the request that fetches (oidc.go:232, 412).
THEOREM AuthTypeCorrect == Spec => []AuthTypeOK
<1>1. CInv => CacheTypeOK
  BY DEF CInv, CacheTypeOK
<1>2. MInv /\ UInv /\ CInv /\ JInv /\ now \in 0 .. MaxTime => AuthTypeOK
  BY <1>1 DEF MInv, UInv, RequestTypeOK, Guards, JInv, AuthTypeOK
<1> QED
  BY <1>2, MutexInductive, UriInductive, CacheInductive, ImplementsCache, JwksInductive, ImplementsKeys,
     Bounded, PTL

-------------------------------------------------------------------------------
(* What the middleware promises                                             *)

\* Only its own steps move a request that is under way.
LEMMA OwnStep ==
    ASSUME RequestTypeOK, [Next]_vars, NEW r \in Requests,
           pc[r] \notin Idle, pc'[r] # pc[r]
    PROVE  Work(r)
<1>1. ASSUME NEW q \in Requests, Arrive(q) \/ Work(q) PROVE q = r /\ Work(r)
  <2>1. \E p : Goto(q, p)
    BY <1>1, Looks DEF Arrive, Work, Lookup, Store, DiscoverCached, DiscoverBegins, DiscoverEnds,
                      DocumentRead, DocumentMissing, Keys, Refresh, FetchReturns
  <2>2. q = r
    BY <2>1 DEF RequestTypeOK, Goto
  <2>3. ~Arrive(r)
    BY DEF Arrive
  <2> QED
    BY <1>1, <2>2, <2>3
<1>2. ~(Purge \/ DiscoveryAges \/ Issuer \/ Tick \/ UNCHANGED vars)
  BY DEF Purge, DiscoveryAges, Issuer, Tick, vars, requestVars
<1> QED
  BY <1>1, <1>2 DEF Next

LEMMA KeyStep ==
    ASSUME RequestTypeOK, NEW r \in Requests, Work(r),
           pc[r] # "store", pc'[r] \in {"store", "unknown_key"}
    PROVE  Keys(r) \/ Refresh(r) \/ FetchReturns(r)
<1>1. ASSUME NEW p, Goto(r, p) PROVE pc'[r] = p
  BY <1>1 DEF RequestTypeOK, Goto
<1>2. ~(Lookup(r) \/ DiscoverCached(r) \/ DiscoverBegins(r) \/ DiscoverEnds(r) \/ Store(r))
  BY <1>1 DEF Lookup, DiscoverCached, DiscoverBegins, DiscoverEnds, DocumentRead,
              DocumentMissing, Store
<1> QED
  BY <1>2 DEF Work

\* The result of the key function, read off the place the request goes to.
LEMMA LookResult ==
    ASSUME RequestTypeOK, NEW r \in Requests, NEW place, NEW ks,
           Look(r, place, ks) \/ FirstLook(r, ks)
    PROVE  /\ pc'[r] = "store" => KidOf[token[r]] \in ks
           /\ pc'[r] = "unknown_key" =>
                 /\ Look(r, place, ks) /\ place \notin {"keys_stale", "fetch_stale"}
                 /\ KidOf[token[r]] \notin ks
<1>1. ASSUME NEW p, Goto(r, p) PROVE pc'[r] = p
  BY <1>1 DEF RequestTypeOK, Goto
<1>2. FirstLook(r, ks) => /\ pc'[r] = "store" => KidOf[token[r]] \in ks
                          /\ pc'[r] # "unknown_key"
  BY <1>1 DEF FirstLook, Checked
<1>3. LastLook(r, ks) => /\ pc'[r] = "store" => KidOf[token[r]] \in ks
                         /\ pc'[r] = "unknown_key" => KidOf[token[r]] \notin ks
  BY <1>1 DEF LastLook, Checked
<1> QED
  BY <1>2, <1>3 DEF Look

\* The cached keys are young enough for a caller that accepts maxAge.
Young(maxAge) == keys # {} /\ now - fetched < maxAge

\* A token is accepted on keys within the ttl, or on a fresh answer.
LEMMA AcceptedOn ==
    ASSUME JInv, MInv, [Next]_vars, NEW r \in Requests, pc[r] # "store", pc'[r] = "store"
    PROVE  LET kid == KidOf[token[r]] IN
           \/ kid \in keys /\ Young(KeysTTL)
           \/ kid \in answer /\ refreshing
<1>1. RequestTypeOK
  BY DEF MInv
<1>2. Keys(r) \/ Refresh(r) \/ FetchReturns(r)
  <2>1. ASSUME pc[r] \in Idle PROVE FALSE
    <3>1. ASSUME NEW q \in Requests, Arrive(q) \/ Work(q) PROVE FALSE
      <4>1. \E p : Goto(q, p)
        BY <3>1, Looks DEF Arrive, Work, Lookup, Store, DiscoverCached, DiscoverBegins,
                          DiscoverEnds, DocumentRead, DocumentMissing, Keys, Refresh,
                          FetchReturns
      <4>2. q = r
        BY <1>1, <4>1 DEF RequestTypeOK, Goto
      <4>3. Arrive(r)
        BY <2>1, <3>1, <4>2 DEF Work, Idle, Lookup, Store, DiscoverCached, DiscoverBegins,
                               DiscoverEnds, Keys, Refresh, FetchReturns, Waiting, Fetching
      <4> QED
        BY <1>1, <4>3 DEF Arrive, Goto, RequestTypeOK
    <3> QED
      BY <2>1, <3>1 DEF Next, Purge, DiscoveryAges, Issuer, Tick, vars, requestVars
  <2> QED
    BY <1>1, <2>1, OwnStep, KeyStep
<1>3. CASE Keys(r)
  BY <1>1, <1>3, LookResult DEF Keys, GetKeysHit, Fresh, Young, Goto, RequestTypeOK
<1>4. CASE Refresh(r)
  <2>1. RefreshReuses(uri[r], MaxAge(pc[r])) /\ Look(r, pc[r], keys)
    BY <1>1, <1>4 DEF Refresh, Goto, RequestTypeOK
  <2>2. KidOf[token[r]] \in keys
    BY <1>1, <2>1, LookResult
  <2>3. Young(KeysTTL)
    BY <2>1, JwksAssumption DEF RefreshReuses, Fresh, Young, MaxAge, JInv, JwksTypeOK
  <2> QED
    BY <2>2, <2>3
<1>5. CASE FetchReturns(r)
  <2>1. FetchSucceeds(uri[r]) /\ Look(r, pc[r], answer)
    BY <1>1, <1>5 DEF FetchReturns, Goto, RequestTypeOK
  <2> QED
    BY <1>1, <2>1, LookResult DEF FetchSucceeds
<1> QED
  BY <1>2, <1>3, <1>4, <1>5

\* A key is found missing on keys within minRefresh, or on a fresh answer.
LEMMA MissingOn ==
    ASSUME JInv, MInv, [Next]_vars, NEW r \in Requests,
           pc[r] \notin Idle, pc'[r] = "unknown_key"
    PROVE  LET kid == KidOf[token[r]] IN
           \/ kid \notin keys /\ Young(MinRefresh)
           \/ kid \notin answer /\ answer # {} /\ refreshing
<1>1. RequestTypeOK
  BY DEF MInv
<1>2. Work(r)
  BY <1>1, OwnStep DEF Idle
<1>3. pc[r] # "store"
  <2>1. ~Store(r)
    BY <1>1 DEF Store, Goto, RequestTypeOK
  <2> QED
    BY <1>2, <2>1 DEF Work, Lookup, DiscoverCached, DiscoverBegins, DiscoverEnds,
                     Keys, Refresh, FetchReturns, Waiting, Fetching
<1>4. Keys(r) \/ Refresh(r) \/ FetchReturns(r)
  BY <1>1, <1>2, <1>3, KeyStep
<1>5. ~Keys(r)
  <2>1. ASSUME Keys(r), GetKeysMiss(uri[r]), Goto(r, "keys_stale") PROVE FALSE
    BY <1>1, <2>1 DEF Goto, RequestTypeOK
  <2>2. ASSUME Keys(r), FirstLook(r, keys) PROVE FALSE
    <3>1. Look(r, "keys_stale", keys)
      BY <2>2 DEF Look
    <3> QED
      BY <1>1, <3>1, LookResult
  <2> QED
    BY <2>1, <2>2 DEF Keys
<1>6. CASE Refresh(r)
  <2>1. RefreshReuses(uri[r], MaxAge(pc[r])) /\ Look(r, pc[r], keys)
    BY <1>1, <1>6 DEF Refresh, Goto, RequestTypeOK
  <2>2. pc[r] # "keys_stale" /\ KidOf[token[r]] \notin keys
    BY <1>1, <2>1, LookResult
  <2> QED
    BY <2>1, <2>2 DEF RefreshReuses, Fresh, Young, MaxAge
<1>7. CASE FetchReturns(r)
  <2>1. FetchSucceeds(uri[r]) /\ Look(r, pc[r], answer)
    BY <1>1, <1>7 DEF FetchReturns, Goto, RequestTypeOK
  <2> QED
    BY <1>1, <2>1, LookResult DEF FetchSucceeds
<1> QED
  BY <1>4, <1>5, <1>6, <1>7

\* After a rotation the new key is refused for minRefresh and one fetch at most,
\* for any issuer, any clock and any traffic (oidc.go:399-406).
THEOREM RotationIsSeen == Spec => RotationSeen
<1> DEFINE Seen == \A r \in Requests :
               LET kid == KidOf[token[r]] IN
               pc[r] \notin Idle /\ pc'[r] = "unknown_key" /\ kid \in issuerKeys =>
                   now < changed[kid] + MinRefresh + FetchTimeout
<1>1. MInv /\ JInv /\ [Next]_vars => [Seen]_vars
  <2> SUFFICES ASSUME MInv, JInv, [Next]_vars, NEW r \in Requests,
                      pc[r] \notin Idle, pc'[r] = "unknown_key",
                      KidOf[token[r]] \in issuerKeys
               PROVE  now < changed[KidOf[token[r]]] + MinRefresh + FetchTimeout
    OBVIOUS
  <2> DEFINE kid == KidOf[token[r]]
  <2>1. /\ kid \in Kids /\ changed[kid] \in Nat /\ now \in Nat /\ fetched \in Nat
        /\ started \in Nat /\ fetched <= now
    BY AuthAssumption DEF MInv, RequestTypeOK, JInv, JwksTypeOK
  <2>2. CASE kid \notin keys /\ Young(MinRefresh)
    <3>1. fetched <= changed[kid] + FetchTimeout
      BY <2>1, <2>2 DEF Young, JInv, KeysRecent
    <3>2. now - fetched < MinRefresh
      BY <2>2 DEF Young
    <3> QED
      BY <2>1, <3>1, <3>2, JwksAssumption
  <2>3. CASE kid \notin answer /\ answer # {} /\ refreshing
    <3>1. started <= changed[kid] /\ now <= started + FetchTimeout
      BY <2>1, <2>3 DEF JInv, DiffersSince
    <3> QED
      BY <2>1, <3>1, JwksAssumption
  <2> QED
    BY <2>2, <2>3, MissingOn
<1> QED
  BY <1>1, MutexInductive, JwksInductive, ImplementsKeys, PTL DEF Spec, RotationSeen

\* A withdrawn key validates no token after the ttl and one fetch, for any
\* issuer, any clock and any traffic (oidc.go:387-396).
THEOREM WithdrawnIsForgotten == Spec => WithdrawnKeyForgotten
<1> DEFINE Forgotten == \A r \in Requests :
               LET kid == KidOf[token[r]] IN
               pc[r] # "store" /\ pc'[r] = "store" /\ kid \notin issuerKeys =>
                   now < changed[kid] + KeysTTL + FetchTimeout
<1>1. MInv /\ JInv /\ [Next]_vars => [Forgotten]_vars
  <2> SUFFICES ASSUME MInv, JInv, [Next]_vars, NEW r \in Requests,
                      pc[r] # "store", pc'[r] = "store",
                      KidOf[token[r]] \notin issuerKeys
               PROVE  now < changed[KidOf[token[r]]] + KeysTTL + FetchTimeout
    OBVIOUS
  <2> DEFINE kid == KidOf[token[r]]
  <2>1. /\ kid \in Kids /\ changed[kid] \in Nat /\ now \in Nat /\ fetched \in Nat
        /\ started \in Nat /\ fetched <= now
    BY AuthAssumption DEF MInv, RequestTypeOK, JInv, JwksTypeOK
  <2>2. CASE kid \in keys /\ Young(KeysTTL)
    <3>1. fetched <= changed[kid] + FetchTimeout
      BY <2>1, <2>2 DEF Young, JInv, KeysRecent
    <3>2. now - fetched < KeysTTL
      BY <2>2 DEF Young
    <3> QED
      BY <2>1, <3>1, <3>2, JwksAssumption
  <2>3. CASE kid \in answer /\ refreshing
    <3>1. started <= changed[kid] /\ now <= started + FetchTimeout
      BY <2>1, <2>3 DEF JInv, DiffersSince
    <3> QED
      BY <2>1, <3>1, JwksAssumption
  <2> QED
    BY <2>2, <2>3, AcceptedOn
<1> QED
  BY <1>1, MutexInductive, JwksInductive, ImplementsKeys, PTL DEF Spec, WithdrawnKeyForgotten
===============================================================================

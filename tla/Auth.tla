--------------------------------- MODULE Auth ---------------------------------
(***************************************************************************)
(* The bearer-token middleware (internal/security/middleware.go) with the   *)
(* OIDC validator (oidc.go), the session cache and the JWKS cache behind    *)
(* it.  net/http runs each request in a goroutine of its own; a request     *)
(* gives way to others wherever it takes or waits for one of the three      *)
(* mutexes, or waits for the issuer.  The goroutines are reused, so any     *)
(* number of requests goes by.                                             *)
(*                                                                         *)
(* A token is a model value with the facts the checks look at: its key id,  *)
(* its exp, and whether signature, method, issuer, audience, azp, scopes    *)
(* and roles are in order.                                                 *)
(***************************************************************************)
EXTENDS SessionCache, JwksCache

CONSTANTS
    Requests,     \* the goroutines that serve requests
    KidOf,        \* the kid header of each token
    Authorised    \* the tokens whose other claims pass every check

ASSUME AuthAssumption ==
    /\ KidOf \in [Tokens -> Kids]
    /\ Authorised \subseteq Tokens

VARIABLES
    pc,          \* where each request is
    token,       \* the token it carries
    uri,         \* the jwks_uri it goes on with, while it needs one
    discovering, \* whether discoveryMu is held by a request that is fetching
    discovered   \* the jwks_uri that was discovered within discoveryTTL, or NoUrl

requestVars   == <<pc, token, uri>>
discoveryVars == <<discovering, discovered>>
vars == <<requestVars, discoveryVars, entries, jwksVars, now>>

\* Nothing to do, or an answered request.
Idle == {"idle", "granted", "refused", "unknown_key"}

\* Waiting for the write lock of the JWKS cache, and holding it for a fetch:
\* because the keys are too old, or because they lack the kid of the token.
Waiting == {"keys_stale", "kid_missing"}
Fetching == {"fetch_stale", "fetch_missing"}

\* Where a request needs its jwks_uri.
UsingUri == {"keys"} \cup Waiting \cup Fetching

PCs == Idle \cup Waiting \cup Fetching
            \cup {"lookup", "discover", "discovering", "keys", "store"}

AuthTypeOK ==
    /\ CacheTypeOK
    /\ JwksTypeOK
    /\ now \in 0 .. MaxTime
    /\ pc \in [Requests -> PCs]
    /\ token \in [Requests -> Tokens]
    /\ discovering = (\E r \in Requests : pc[r] = "discovering")
    /\ refreshing = (\E r \in Requests : pc[r] \in Fetching)
    /\ uri \in [Requests -> Urls \cup {NoUrl}]
    /\ discovered \in Urls \cup {NoUrl}

Init ==
    /\ now = 0
    /\ CacheInit
    /\ JwksInit
    /\ pc = [r \in Requests |-> "idle"]
    /\ token \in [Requests -> Tokens]
    /\ discovering = FALSE
    /\ uri = [r \in Requests |-> NoUrl]
    /\ discovered = NoUrl

Goto(r, place) == pc' = [pc EXCEPT ![r] = place]

\* A request keeps its jwks_uri as long as it has a use for it.
KeepUri(r) == uri' = IF pc'[r] \in UsingUri THEN uri ELSE [uri EXCEPT ![r] = NoUrl]

-------------------------------------------------------------------------------
(* The middleware                                                           *)

Arrive(r) ==
    /\ pc[r] \in Idle
    /\ \E t \in Tokens : token' = [token EXCEPT ![r] = t]
    /\ Goto(r, "lookup")
    /\ UNCHANGED <<uri, discoveryVars, entries, jwksVars, now>>

\* SessionCache.Get.
Lookup(r) ==
    /\ pc[r] = "lookup"
    /\ \/ GetHit(token[r]) /\ Goto(r, "granted")
       \/ GetMiss(token[r]) /\ Goto(r, "discover")
    /\ UNCHANGED <<token, uri, discoveryVars, jwksVars, now>>

\* SessionCache.Put, then the handler.
Store(r) ==
    /\ pc[r] = "store"
    /\ Put(token[r])
    /\ Goto(r, "granted")
    /\ UNCHANGED <<token, uri, discoveryVars, jwksVars, now>>

-------------------------------------------------------------------------------
(* cachedJWKSURL: discoveryMu is held while the document is fetched         *)

DiscoverCached(r) ==
    /\ pc[r] = "discover"
    /\ ~discovering
    /\ discovered # NoUrl
    /\ Goto(r, "keys")
    /\ uri' = [uri EXCEPT ![r] = discovered]
    /\ UNCHANGED <<token, discoveryVars, entries, jwksVars, now>>

DiscoverBegins(r) ==
    /\ pc[r] = "discover"
    /\ ~discovering
    /\ discovered = NoUrl
    /\ discovering' = TRUE
    /\ Goto(r, "discovering")
    /\ UNCHANGED <<token, uri, discovered, entries, jwksVars, now>>

\* The document arrives, with whatever address the issuer has by then, or no
\* usable one does.
DocumentRead(r) ==
    /\ Goto(r, "keys")
    /\ discovered' \in Urls
    /\ uri' = [uri EXCEPT ![r] = discovered']

DocumentMissing(r) ==
    /\ Goto(r, "refused")
    /\ UNCHANGED <<uri, discovered>>

\* A mutant: an error return that skips the deferred unlock.
DiscoverEndsLocked(r) ==
    /\ pc[r] = "discovering"
    /\ \/ DocumentRead(r) /\ discovering' = FALSE
       \/ DocumentMissing(r) /\ UNCHANGED discovering
    /\ UNCHANGED <<token, entries, jwksVars, now>>

DiscoverEnds(r) ==
    /\ pc[r] = "discovering"
    /\ DocumentRead(r) \/ DocumentMissing(r)
    /\ discovering' = FALSE
    /\ UNCHANGED <<token, entries, jwksVars, now>>

\* discoveryTTL has passed.
DiscoveryAges ==
    /\ discovered # NoUrl
    /\ ~discovering
    /\ discovered' = NoUrl
    /\ UNCHANGED <<requestVars, discovering, entries, jwksVars, now>>

-------------------------------------------------------------------------------
(* ValidateToken                                                            *)

\* jwt.Parse checks exp last, strictly.
Checked(r) ==
    Goto(r, IF token[r] \in Authorised /\ now < ExpiresAt[token[r]]
            THEN "store" ELSE "refused")

\* The key function with the keys that GetKeys returned.
FirstLook(r, ks) ==
    IF KidOf[token[r]] \in ks THEN Checked(r) ELSE Goto(r, "kid_missing")

\* The key function with the keys that RefreshKeys returned.
LastLook(r, ks) ==
    IF KidOf[token[r]] \in ks THEN Checked(r) ELSE Goto(r, "unknown_key")

Look(r, place, ks) ==
    IF place \in {"keys_stale", "fetch_stale"} THEN FirstLook(r, ks) ELSE LastLook(r, ks)

Keys(r) ==
    /\ pc[r] = "keys"
    /\ \/ GetKeysHit(uri[r]) /\ FirstLook(r, keys)
       \/ GetKeysMiss(uri[r]) /\ Goto(r, "keys_stale")
    /\ KeepUri(r)
    /\ UNCHANGED <<token, discoveryVars, entries, now>>

\* A mutant: RefreshKeys reuses the ttl of GetKeys.
MaxAgeTTL(place) == KeysTTL

\* What refresh() is called with.
MaxAge(place) == IF place = "keys_stale" THEN KeysTTL ELSE MinRefresh

Refresh(r) ==
    /\ pc[r] \in Waiting
    /\ \/ RefreshReuses(uri[r], MaxAge(pc[r])) /\ Look(r, pc[r], keys)
       \/ /\ RefreshFetches(uri[r], MaxAge(pc[r]))
          /\ Goto(r, IF pc[r] = "keys_stale" THEN "fetch_stale" ELSE "fetch_missing")
    /\ KeepUri(r)
    /\ UNCHANGED <<token, discoveryVars, entries, now>>

FetchReturns(r) ==
    /\ pc[r] \in Fetching
    /\ \/ FetchSucceeds(uri[r]) /\ Look(r, pc[r], answer)
       \/ FetchFails /\ Goto(r, "refused")
    /\ KeepUri(r)
    /\ UNCHANGED <<token, discoveryVars, entries, now>>

-------------------------------------------------------------------------------
Work(r) ==
    \/ Lookup(r) \/ DiscoverCached(r) \/ DiscoverBegins(r) \/ DiscoverEnds(r)
    \/ Keys(r) \/ Refresh(r) \/ FetchReturns(r) \/ Store(r)

Purge == Cleanup /\ UNCHANGED <<requestVars, discoveryVars, jwksVars, now>>

Issuer ==
    /\ IssuerAnswers \/ Rotate
    /\ UNCHANGED <<requestVars, discoveryVars, entries, now>>

Tick ==
    /\ FetchMayLast
    /\ Advance
    /\ UNCHANGED <<requestVars, discoveryVars, entries, jwksVars>>

Next ==
    \/ \E r \in Requests : Arrive(r) \/ Work(r)
    \/ Purge \/ DiscoveryAges \/ Issuer \/ Tick

Spec == Init /\ [][Next]_vars

\* sync.Mutex hands over to a goroutine that has waited for a millisecond, and
\* http.Client ends every fetch, so a request that can go on again and again
\* does.
FairSpec ==
    /\ Spec
    /\ \A r \in Requests : SF_vars(Work(r))

-------------------------------------------------------------------------------
\* A token whose key the issuer publishes is refused for its key only within
\* minRefresh and one fetch of the rotation, not for the hour the keys are
\* cached (oidc.go:399-406, TestJWKSCache_RefreshKeysAfterRotationWithinTTL).
RotationSeen ==
    [][\A r \in Requests :
          LET kid == KidOf[token[r]] IN
          pc[r] \notin Idle /\ pc'[r] = "unknown_key" /\ kid \in issuerKeys =>
              now < changed[kid] + MinRefresh + FetchTimeout]_vars

\* A key that the issuer withdrew stops validating tokens when the cached keys
\* have expired: after the ttl and one fetch (oidc.go:387-396, README.md:974).
WithdrawnKeyForgotten ==
    [][\A r \in Requests :
          LET kid == KidOf[token[r]] IN
          pc[r] # "store" /\ pc'[r] = "store" /\ kid \notin issuerKeys =>
              now < changed[kid] + KeysTTL + FetchTimeout]_vars

\* Every request is answered: the three mutexes, two of them held over a fetch,
\* never block one for good.
RequestAnswered == \A r \in Requests : pc[r] = "lookup" ~> pc[r] \in Idle
===============================================================================

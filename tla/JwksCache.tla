------------------------------ MODULE JwksCache -------------------------------
(***************************************************************************)
(* internal/security/oidc.go, type jwksCache: the issuer's signing keys,    *)
(* fetched at most when they are too old for the caller.  refresh() holds   *)
(* the write lock while it fetches.  The issuer is external: it rotates its *)
(* keys whenever it likes, in the middle of a fetch too.                    *)
(***************************************************************************)
EXTENDS Clock

CONSTANTS
    Kids,         \* the key ids the issuer may use
    Urls,         \* the addresses at which it publishes its keys
    NoUrl,        \* the empty address
    KeysTTL,      \* ttl
    MinRefresh,   \* minRefresh
    FetchTimeout, \* http.Client.Timeout
    MaxRotations  \* bound: how often the issuer changes its keys

ASSUME JwksAssumption ==
    /\ NoUrl \notin Urls
    /\ FetchTimeout \in Nat \ {0}
    /\ MinRefresh \in Nat \ {0}
    /\ KeysTTL \in Nat /\ MinRefresh <= KeysTTL
    /\ MaxRotations \in Nat

VARIABLES
    keys,       \* the cached keys
    url,        \* where they came from
    fetched,    \* when they were stored
    refreshing, \* whether some goroutine holds the write lock and is fetching
    started,    \* when the fetch under way began
    answer,     \* the body the issuer has sent for it, {} before that
    issuerKeys, \* the keys the issuer publishes
    changed,    \* history: when each key was last published or withdrawn
    rotations   \* history: how often the issuer changed its keys

cacheVars  == <<keys, url, fetched>>
fetchVars  == <<refreshing, started, answer>>
issuerVars == <<issuerKeys, changed, rotations>>
jwksVars   == <<cacheVars, fetchVars, issuerVars>>

JwksInit ==
    /\ keys = {}
    /\ url = NoUrl
    /\ fetched = 0
    /\ refreshing = FALSE
    /\ started = 0
    /\ answer = {}
    /\ issuerKeys \in SUBSET Kids
    /\ changed = [k \in Kids |-> 0]
    /\ rotations = 0

JwksTypeOK ==
    /\ keys \in SUBSET Kids
    /\ url \in Urls \cup {NoUrl}
    /\ fetched \in Nat
    /\ refreshing \in BOOLEAN
    /\ started \in Nat
    /\ answer \in SUBSET Kids
    /\ issuerKeys \in SUBSET Kids
    /\ changed \in [Kids -> Nat]
    /\ rotations \in 0 .. MaxRotations

\* A mutant: keys that were fetched once are good for ever.
FreshForEver(u, maxAge) == keys # {} /\ url = u

\* The cached keys came from this address and are young enough for a caller that
\* accepts maxAge.
Fresh(u, maxAge) ==
    /\ url = u
    /\ now - fetched < maxAge
    /\ keys # {}

\* GetKeys under the read lock.
GetKeysHit(u) ==
    /\ ~refreshing
    /\ Fresh(u, KeysTTL)
    /\ UNCHANGED jwksVars

GetKeysMiss(u) ==
    /\ ~refreshing
    /\ ~Fresh(u, KeysTTL)
    /\ UNCHANGED jwksVars

\* refresh: the check is repeated under the write lock.
RefreshReuses(u, maxAge) ==
    /\ ~refreshing
    /\ Fresh(u, maxAge)
    /\ UNCHANGED jwksVars

RefreshFetches(u, maxAge) ==
    /\ ~refreshing
    /\ ~Fresh(u, maxAge)
    /\ refreshing' = TRUE
    /\ started' = now
    /\ answer' = {}
    /\ UNCHANGED <<cacheVars, issuerVars>>

\* The issuer answers with what it publishes at that moment, at whichever of its
\* addresses it was asked.
IssuerAnswers ==
    /\ refreshing
    /\ answer = {}
    /\ answer' = issuerKeys
    /\ UNCHANGED <<cacheVars, refreshing, started, issuerVars>>

FetchSucceeds(u) ==
    /\ refreshing
    /\ answer # {}
    /\ keys' = answer
    /\ url' = u
    /\ fetched' = now
    /\ refreshing' = FALSE
    /\ answer' = {}
    /\ started' = 0
    /\ UNCHANGED issuerVars

\* No answer, a bad one, or one without a usable key.  The cache keeps what it
\* had and nothing remembers the attempt.
FetchFails ==
    /\ refreshing
    /\ refreshing' = FALSE
    /\ answer' = {}
    /\ started' = 0
    /\ UNCHANGED <<cacheVars, issuerVars>>

Rotate ==
    /\ rotations < MaxRotations
    /\ \E new \in SUBSET Kids \ {issuerKeys} :
          /\ issuerKeys' = new
          /\ changed' = [k \in Kids |->
                            IF (k \in new) = (k \in issuerKeys) THEN changed[k] ELSE now]
    /\ rotations' = rotations + 1
    /\ UNCHANGED <<cacheVars, fetchVars>>

\* http.Client gives up on a fetch after its timeout.
FetchMayLast == refreshing => now < started + FetchTimeout

JwksStep ==
    \/ /\ \/ \E u \in Urls, maxAge \in {KeysTTL, MinRefresh} : RefreshFetches(u, maxAge)
          \/ \E u \in Urls : FetchSucceeds(u)
          \/ IssuerAnswers \/ FetchFails \/ Rotate
       /\ UNCHANGED now
    \/ Advance /\ FetchMayLast /\ UNCHANGED jwksVars

\* The cache with any callers.
JwksSpec == JwksInit /\ now = 0 /\ [][JwksStep]_<<jwksVars, now>>

-------------------------------------------------------------------------------
\* Where the cache disagrees with the issuer about a key, the issuer changed
\* its mind at most a fetch before the keys were stored, or after that: no key
\* set is stored that was out of date by more than the HTTP timeout, however
\* fetches and rotations overlap (oidc.go:411-431).
KeysRecent ==
    keys # {} =>
        \A k \in Kids :
            (k \in keys) # (k \in issuerKeys) => fetched <= changed[k] + FetchTimeout
===============================================================================

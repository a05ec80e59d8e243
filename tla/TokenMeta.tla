------------------------------ MODULE TokenMeta ------------------------------
(***************************************************************************)
(* Token metadata (src/services/tokenMeta.js): getTokenMetadata() with its *)
(* cache and the map of requests in flight, over the MemoryCacheStore of   *)
(* src/services/cacheStore.js.  A call first looks in the cache, then      *)
(* joins the request in flight for its key, and otherwise starts one.      *)
(*                                                                         *)
(* An asset is abstracted to its cache key, metadata to the times that     *)
(* matter: cachedAt, and the expiry of the cache entry.                    *)
(***************************************************************************)
EXTENDS Naturals

CONSTANTS
  Callers,     \* calls of getTokenMetadata
  Assets,      \* the assets: [key, valid]
  MetaTtl,     \* ttlMs
  MetaHorizon, \* bound: the clock stops here
  NoMeta         \* no value

ASSUME MetaAssumption ==
  /\ MetaTtl \in Nat \ {0}
  /\ MetaHorizon \in Nat
  /\ NoMeta \notin Nat

VARIABLES
  clock,         \* Date.now()
  tokenCache,  \* [Keys -> entry or NoMeta]
  inFlight,    \* inFlightRequests: the callers that share the promise, or NoMeta
  fetching,    \* keys whose fetch is under way
  call         \* [Callers -> the call: its state, key, start and result]

metaVars == <<clock, tokenCache, inFlight, fetching, call>>

Keys == {asset.key : asset \in Assets}
Flight == [callers : SUBSET Callers, cachedAt : Nat \cup {NoMeta}]
NoCall == [at |-> "new", key |-> NoMeta, since |-> 0, cachedAt |-> NoMeta]

MetaInit ==
  /\ clock = 0
  /\ tokenCache = [k \in Keys |-> NoMeta]
  /\ inFlight = [k \in Keys |-> NoMeta]
  /\ fetching = {}
  /\ call = [c \in Callers |-> NoCall]

\* MemoryCacheStore.get(): an entry lives up to and including expiresAt.
CachedMeta(k) ==
  IF tokenCache[k] # NoMeta /\ clock <= tokenCache[k].expiresAt
    THEN tokenCache[k].cachedAt ELSE NoMeta

\* MemoryCacheStore.set(), with the time the metadata is stamped with.
Stamped == [cachedAt |-> clock, expiresAt |-> clock + MetaTtl]

Result(c, asset, where, when) ==
  call' = [call EXCEPT ![c] = [at |-> where, key |-> asset.key, since |-> clock,
                               cachedAt |-> when]]

-----------------------------------------------------------------------------
\* validateAsset() refuses the asset.
RefuseAsset(c, asset) ==
  /\ ~ asset.valid
  /\ Result(c, asset, "rejected", NoMeta)
  /\ UNCHANGED <<clock, tokenCache, inFlight, fetching>>

CacheHit(c, asset) ==
  /\ asset.valid /\ CachedMeta(asset.key) # NoMeta
  /\ Result(c, asset, "resolved", CachedMeta(asset.key))
  /\ UNCHANGED <<clock, tokenCache, inFlight, fetching>>

\* A promise that has settled, were one left in the map, would answer at once.
Join(c, asset) ==
  /\ asset.valid /\ inFlight[asset.key] # NoMeta
  /\ Result(c, asset, IF asset.key \in fetching THEN "waiting" ELSE "resolved",
            inFlight[asset.key].cachedAt)
  /\ inFlight' = [inFlight EXCEPT ![asset.key].callers = @ \cup {c}]
  /\ UNCHANGED <<clock, tokenCache, fetching>>

\* The asynchronous function runs up to its first await, then the promise is
\* entered in the map.  Were there no await (a synchronous lookup of the native
\* asset, say), its finally would run before that, as in FetchAtOnce.
FetchAtOnce(c, asset) ==
  /\ asset.valid /\ inFlight[asset.key] = NoMeta
  /\ Result(c, asset, "resolved", clock)
  /\ tokenCache' = [tokenCache EXCEPT ![asset.key] = Stamped]
  /\ inFlight' = [inFlight EXCEPT ![asset.key] = [callers |-> {}, cachedAt |-> clock]]
  /\ UNCHANGED <<clock, fetching>>

Fetch(c, asset) ==
  /\ asset.valid /\ inFlight[asset.key] = NoMeta
  /\ Result(c, asset, "waiting", NoMeta)
  /\ inFlight' = [inFlight EXCEPT ![asset.key] = [callers |-> {c}, cachedAt |-> NoMeta]]
  /\ fetching' = fetching \cup {asset.key}
  /\ UNCHANGED <<clock, tokenCache>>

GetTokenMetadata(c, asset, skipCache) ==
  /\ call[c].at = "new"
  /\ \/ RefuseAsset(c, asset)
     \/ ~ skipCache /\ CacheHit(c, asset)
     \/ /\ skipCache \/ (asset.valid => CachedMeta(asset.key) = NoMeta)
        /\ Join(c, asset) \/ Fetch(c, asset)

\* The fetch ends; a contract that cannot be reached yields the fallback, which
\* is cached like any other answer.  All who share the promise are answered.
FetchEnds(k) ==
  /\ k \in fetching
  /\ tokenCache' = [tokenCache EXCEPT ![k] = Stamped]
  /\ fetching' = fetching \ {k}
  /\ call' = [c \in Callers |-> IF c \in inFlight[k].callers
                                  THEN [call[c] EXCEPT !.at = "resolved", !.cachedAt = clock]
                                  ELSE call[c]]
  /\ inFlight' = [inFlight EXCEPT ![k] = NoMeta]
  /\ UNCHANGED clock

\* invalidateTokenMetadata() and clearTokenCache() touch the cache alone: what is
\* in flight is still cached when it arrives.
Invalidate(ks) ==
  /\ \E k \in ks : tokenCache[k] # NoMeta
  /\ tokenCache' = [k \in Keys |-> IF k \in ks THEN NoMeta ELSE tokenCache[k]]
  /\ UNCHANGED <<clock, inFlight, fetching, call>>

MetaTick ==
  /\ clock < MetaHorizon
  /\ clock' = clock + 1
  /\ UNCHANGED <<tokenCache, inFlight, fetching, call>>

MetaNext ==
  \/ \E c \in Callers, asset \in Assets, skipCache \in BOOLEAN :
       GetTokenMetadata(c, asset, skipCache)
  \/ \E k \in Keys : FetchEnds(k)
  \/ \E ks \in {{k} : k \in Keys} \cup {Keys} : Invalidate(ks)
  \/ MetaTick

MetaSpec == MetaInit /\ [][MetaNext]_metaVars

-----------------------------------------------------------------------------
(* Whatever a caller is given was fetched no longer than the time to live  *)
(* before it asked: neither a cache entry nor a promise left in the map of *)
(* requests in flight answers for ever.                                    *)
MetadataWithinTtl ==
  \A c \in Callers :
    call[c].at = "resolved" => call[c].since <= call[c].cachedAt + MetaTtl

MetaTypeOK ==
  /\ clock \in Nat
  /\ tokenCache \in [Keys -> [cachedAt : Nat, expiresAt : Nat] \cup {NoMeta}]
  /\ inFlight \in [Keys -> Flight \cup {NoMeta}]
  /\ fetching \subseteq Keys
  /\ call \in [Callers -> [at : {"new", "waiting", "resolved", "rejected"}, key : Keys \cup {NoMeta},
                           since : Nat, cachedAt : Nat \cup {NoMeta}]]

\* The inductive invariant: an entry lives for the time to live from its stamp,
\* a promise in the map has not settled, and nobody asked in the future.
MetaInv ==
  /\ MetaTypeOK
  /\ \A k \in Keys : tokenCache[k] # NoMeta => tokenCache[k].expiresAt = tokenCache[k].cachedAt + MetaTtl
  /\ \A k \in Keys : inFlight[k] # NoMeta => k \in fetching
  /\ \A c \in Callers : call[c].since <= clock
  /\ \A c \in Callers : call[c].at = "resolved" => call[c].cachedAt \in Nat
  /\ MetadataWithinTtl

=============================================================================

--------------------------- MODULE FootprintCache ---------------------------
(* services/sorobanSim.js: a transaction is simulated before it is sent, and  *)
(* the footprint a simulation returns is kept for the next transaction of the *)
(* same operation, invoice and funder.  The cache is a Map in insertion order *)
(* whose entries move to the back when they are used; simulations overlap,    *)
(* and each writes its footprint when its RPC call comes back.                *)
EXTENDS Naturals, Sequences

CONSTANTS
  Simulations,     \* calls of simulateOrThrow
  FootKeys,        \* operation, invoice and funder, joined
  FootSize,        \* MAX_CACHE_SIZE
  FootTtl,         \* CACHE_TTL_MS
  FootHorizon      \* bound: the last instant of the clock

ASSUME FootAssumption == FootSize \in Nat \ {0} /\ FootTtl \in Nat

VARIABLES
  footprints,      \* footprintCache: entries, least recently used first
  sim,             \* each call: where it is, its key and its options
  instantSim,      \* the clock
  uses,            \* history: hits and writes so far
  lastUse          \* history: the last of them that touched each key

footVars == <<footprints, sim, instantSim, uses, lastUse>>

NoSim == [at |-> "none", key |-> "none", useCache |-> TRUE]

FootInit ==
  /\ footprints = <<>>
  /\ sim = [s \in Simulations |-> NoSim]
  /\ instantSim = 0
  /\ uses = 0 /\ lastUse = [k \in FootKeys |-> 0]

Held(k) == {i \in DOMAIN footprints : footprints[i].key = k}
Place(k) == CHOOSE i \in Held(k) : TRUE
Without(k) ==
  LET p == Place(k)
  IN IF Held(k) = {} THEN footprints
     ELSE SubSeq(footprints, 1, p - 1) \o SubSeq(footprints, p + 1, Len(footprints))

\* The stub of the simulator returns no ledger, so an entry's ledgerSequence is
\* null and the ledger never makes it stale, whatever the caller passes.
LiveEntry(k) == \E i \in Held(k) : instantSim - footprints[i].at <= FootTtl

Touch(k) == uses' = uses + 1 /\ lastUse' = [lastUse EXCEPT ![k] = uses + 1]

\* The bug an LRU must not have: a hit leaves the entry where it is.
InPlace(k) == footprints

\* A hit is deleted and set again, which moves it to the back of the Map.
Promoted(k) == Append(Without(k), footprints[Place(k)])

\* Parameters that do not validate end the call before it looks at the cache.
SimulateInvalid(s) ==
  /\ sim[s].at = "none"
  /\ sim' = [sim EXCEPT ![s].at = "failure"]
  /\ UNCHANGED <<footprints, instantSim, uses, lastUse>>

\* getCachedFootprint finds a live entry.
SimulateHit(s, k) ==
  /\ sim[s].at = "none"
  /\ LiveEntry(k)
  /\ footprints' = Promoted(k)
  /\ sim' = [sim EXCEPT ![s] = [at |-> "cached", key |-> k, useCache |-> TRUE]]
  /\ Touch(k)
  /\ UNCHANGED instantSim

\* It finds none, or an expired one, which it deletes; or the caller asked for
\* no cache.  The RPC call begins.
SimulateMiss(s, k, useCache) ==
  /\ sim[s].at = "none"
  /\ useCache => ~LiveEntry(k)
  /\ footprints' = IF useCache THEN Without(k) ELSE footprints
  /\ sim' = [sim EXCEPT ![s] = [at |-> "calling", key |-> k, useCache |-> useCache]]
  /\ UNCHANGED <<instantSim, uses, lastUse>>

\* cacheFootprint makes room for a new key only: a key that is there is replaced.
Room(k) ==
  IF Held(k) # {} THEN Without(k)
  ELSE IF Len(footprints) >= FootSize THEN Tail(footprints)
  ELSE footprints

CacheFootprint(k) == Append(Room(k), [key |-> k, at |-> instantSim])

Simulated(s) ==
  /\ sim[s].at = "calling"
  /\ sim' = [sim EXCEPT ![s].at = "success"]
  /\ IF sim[s].useCache
       THEN footprints' = CacheFootprint(sim[s].key) /\ Touch(sim[s].key)
       ELSE UNCHANGED <<footprints, uses, lastUse>>
  /\ UNCHANGED instantSim

\* A simulation that fails writes nothing.
SimulationFails(s) ==
  /\ sim[s].at = "calling"
  /\ sim' = [sim EXCEPT ![s].at = "failure"]
  /\ UNCHANGED <<footprints, instantSim, uses, lastUse>>

SimTick ==
  /\ instantSim < FootHorizon
  /\ instantSim' = instantSim + 1
  /\ UNCHANGED <<footprints, sim, uses, lastUse>>

FootNext ==
  \/ \E s \in Simulations, k \in FootKeys :
       \/ SimulateHit(s, k)
       \/ \E useCache \in BOOLEAN : SimulateMiss(s, k, useCache)
  \/ \E s \in Simulations : SimulateInvalid(s) \/ Simulated(s) \/ SimulationFails(s)
  \/ SimTick

FootSpec == FootInit /\ [][FootNext]_footVars

-----------------------------------------------------------------------------
(* Properties.                                                             *)

\* The cache of sorobanSim.js stays within its size with one entry a key, and
\* stands in the order of last use however simulations overlap: what the next
\* eviction takes is the footprint nobody has asked for the longest.
LeastRecentFirst ==
  /\ Len(footprints) <= FootSize
  /\ \A i, j \in DOMAIN footprints :
       i < j => lastUse[footprints[i].key] < lastUse[footprints[j].key]

\* The inductive invariant: uses are numbered as they happen.
FootTypeOK ==
  /\ footprints \in Seq([key : FootKeys, at : Nat])
  /\ sim \in [Simulations -> [at : {"none", "cached", "calling", "success", "failure"},
                              key : FootKeys \cup {NoSim.key}, useCache : BOOLEAN]]
  /\ instantSim \in Nat /\ uses \in Nat /\ lastUse \in [FootKeys -> Nat]

FootInv ==
  /\ FootTypeOK
  /\ \A k \in FootKeys : lastUse[k] <= uses
  /\ \A s \in Simulations : sim[s].at = "calling" => sim[s].key \in FootKeys
  /\ LeastRecentFirst
=============================================================================

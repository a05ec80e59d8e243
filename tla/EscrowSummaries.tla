--------------------------- MODULE EscrowSummaries ---------------------------
(***************************************************************************)
(* GET /api/escrow/:invoiceId: getEscrowStateWithProjection()              *)
(* (src/services/escrowRead.js) behind the Redis summary cache             *)
(* (src/cache/redis.js), whose commands run under a time-out inside a      *)
(* CircuitBreaker of its own with the fallback () => null.                 *)
(*                                                                         *)
(* One invoice.  Its projection row is abstracted to the ledger of the     *)
(* latest event, 0 when there is no row (EscrowIndexer models how the row  *)
(* comes about).  Redis may answer, fail or stay silent; a command that    *)
(* timed out is not cancelled, so a SET may still take effect later.       *)
(***************************************************************************)
EXTENDS CircuitBreaker

CONSTANTS
  Readers,         \* requests, one read each
  None,            \* no value
  MaxLedger,       \* bound: the last ledger the indexer projects
  CacheTtl,        \* ttlSeconds: the EX of a SET
  OpTimeout,       \* timeoutMs of a Redis command
  GapThreshold,    \* ledgerGapThreshold
  ReadHorizon          \* bound: reads start and events come before this time

ASSUME SummaryAssumption ==
  /\ {GapThreshold, ReadHorizon} \subseteq Nat
  /\ {MaxLedger, CacheTtl, OpTimeout} \subseteq Nat \ {0}
  /\ None \notin Nat

VARIABLES
  cacheable,   \* the cache is enabled and takes this invoice id
  projected,   \* latest_ledger_sequence of the projection row, 0: no row
  entry,       \* the value in Redis, with its expiry
  readAt,      \* [Readers -> where the request is]
  summary,     \* the summary a request has built or was served
  deadline,    \* the timer of the request's Redis command
  sent,        \* the SET of a request that Redis has not yet applied, or None
  staleAt,     \* history: when the projection last moved on, or an outdated
               \* summary last reached Redis
  lag          \* history: for a request that was served an outdated summary
               \* from the cache, the time since staleAt

requestVars == <<readAt, summary, deadline, sent, lag>>
summaryVars == <<breakerVars, now, cacheable, projected, entry, requestVars, staleAt>>

\* What a caller is given: the ledger the state is as of (0: "not_found"), and
\* legal_hold, which a state taken from the projection does not carry.
Summaries == [ledger : 0..MaxLedger, hold : {"absent", "no", "yes"}]
NoEntry == [summary |-> None, cachedLedger |-> None, expires |-> 0]

SummaryTypeOK ==
  /\ BreakerTypeOK
  /\ cacheable \in BOOLEAN
  /\ projected \in 0..MaxLedger
  /\ entry \in [summary : Summaries \cup {None}, cachedLedger : Nat \cup {None},
                expires : Nat]
  /\ readAt \in [Readers -> {"new", "get", "project", "live", "hold", "save", "set",
                         "done", "failed"}]
  /\ summary \in [Readers -> Summaries \cup {None}]
  /\ deadline \in [Readers -> Nat]
  /\ sent \in [Readers -> [summary : Summaries, cachedLedger : Nat \cup {None}]
                            \cup {None}]
  /\ staleAt \in Nat
  /\ lag \in [Readers -> Nat]

SummaryInit ==
  /\ BreakerInit
  /\ cacheable \in BOOLEAN
  /\ projected \in {0, 1}
  /\ entry = NoEntry
  /\ readAt = [r \in Readers |-> "new"]
  /\ summary = [r \in Readers |-> None]
  /\ deadline = [r \in Readers |-> 0]
  /\ sent = [r \in Readers |-> None]
  /\ staleAt = 0
  /\ lag = [r \in Readers |-> 0]

-----------------------------------------------------------------------------
(* getSummary().                                                           *)

GapExceeded(current, cached) ==
  /\ current # None /\ cached # None
  /\ \/ current > cached + GapThreshold
     \/ cached > current + GapThreshold

ReadGoes(r, where) == readAt' = [readAt EXCEPT ![r] = where]

\* The route finds no contract for the invoice and answers 404.
Unmapped(r) ==
  /\ readAt[r] = "new"
  /\ ReadGoes(r, "failed")
  /\ UNCHANGED <<breakerVars, now, cacheable, projected, entry, summary, deadline,
                 sent, staleAt, lag>>

\* No cache, or the open breaker's fallback null: a miss.
StartUncached(r) ==
  /\ readAt[r] = "new" /\ now < ReadHorizon
  /\ cacheable => FailsFast
  /\ ReadGoes(r, "project")
  /\ UNCHANGED <<breakerVars, now, cacheable, projected, entry, summary, deadline,
                 sent, staleAt, lag>>

StartGet(r) ==
  /\ readAt[r] = "new" /\ now < ReadHorizon
  /\ cacheable
  /\ Admits
  /\ ReadGoes(r, "get")
  /\ deadline' = [deadline EXCEPT ![r] = now + OpTimeout]
  /\ UNCHANGED <<now, cacheable, projected, entry, summary, sent, staleAt, lag>>

\* The caller gives getSummary() no current ledger, so no gap is ever found.
GetAnswered(r) ==
  /\ readAt[r] = "get"
  /\ onSuccess
  /\ IF /\ entry.summary # None
        /\ now < entry.expires
        /\ ~ GapExceeded(None, entry.cachedLedger)
       THEN /\ summary' = [summary EXCEPT ![r] = entry.summary]
            /\ lag' = [lag EXCEPT ![r] = IF entry.summary.ledger # projected
                                            THEN now - staleAt ELSE 0]
            /\ ReadGoes(r, "done")
       ELSE /\ ReadGoes(r, "project")
            /\ UNCHANGED <<summary, lag>>
  /\ UNCHANGED <<now, cacheable, projected, entry, deadline, sent, staleAt>>

\* The GET fails, or its time is up: the cache fails open.
GetFails(r) ==
  /\ readAt[r] = "get"
  /\ onFailure
  /\ ReadGoes(r, "project")
  /\ UNCHANGED <<now, cacheable, projected, entry, summary, deadline, sent, staleAt, lag>>

-----------------------------------------------------------------------------
(* The projection, and the live read when there is no row to be had.       *)

\* _readBaseStateFromProjection(): a failed query counts as no row.
ReadsProjection(r, then, else) ==
  \/ /\ projected > 0
     /\ summary' = [summary EXCEPT ![r] = [ledger |-> projected, hold |-> "absent"]]
     /\ ReadGoes(r, then)
  \/ /\ ReadGoes(r, else)
     /\ summary' = [summary EXCEPT ![r] = [ledger |-> 0, hold |-> "absent"]]

ReadProjection(r) ==
  /\ readAt[r] = "project"
  /\ ReadsProjection(r, "save", "live")
  /\ UNCHANGED <<breakerVars, now, cacheable, projected, entry, deadline, sent, staleAt, lag>>

\* _fetchBaseEscrowState() asks the projection again, then the contract, whose
\* stub knows the neutral state "not_found".
ReadLive(r) ==
  /\ readAt[r] = "live"
  /\ ReadsProjection(r, "hold", "hold")
  /\ UNCHANGED <<breakerVars, now, cacheable, projected, entry, deadline, sent, staleAt, lag>>

\* The contract call is refused by the circuit of SorobanCall: 500.
LiveRefused(r) ==
  /\ readAt[r] = "live"
  /\ ReadGoes(r, "failed")
  /\ UNCHANGED <<breakerVars, now, cacheable, projected, entry, summary, deadline,
                 sent, staleAt, lag>>

\* fetchLegalHoldStatus(): a call that fails leaves the hold unknown, which is
\* reported as held.
ReadHold(r) ==
  /\ readAt[r] = "hold"
  /\ \E hold \in {"no", "yes"} : summary' = [summary EXCEPT ![r].hold = hold]
  /\ ReadGoes(r, "save")
  /\ UNCHANGED <<breakerVars, now, cacheable, projected, entry, deadline, sent, staleAt, lag>>

-----------------------------------------------------------------------------
(* setSummary(), and what Redis makes of the command.                      *)

SaveSkipped(r) ==
  /\ readAt[r] = "save"
  /\ cacheable => FailsFast
  /\ ReadGoes(r, "done")
  /\ UNCHANGED <<breakerVars, now, cacheable, projected, entry, summary, deadline,
                 sent, staleAt, lag>>

\* The live branch passes no ledger.
StartSet(r) ==
  /\ readAt[r] = "save"
  /\ cacheable
  /\ Admits
  /\ ReadGoes(r, "set")
  /\ deadline' = [deadline EXCEPT ![r] = now + OpTimeout]
  /\ sent' = [sent EXCEPT ![r] =
       [summary |-> summary[r],
        cachedLedger |-> IF summary[r].hold = "absent" THEN summary[r].ledger ELSE None]]
  /\ UNCHANGED <<now, cacheable, projected, entry, summary, staleAt, lag>>

LandsForGood(r) ==
  entry' = [summary |-> sent[r].summary, cachedLedger |-> sent[r].cachedLedger,
            expires |-> now + 1000]

Lands(r) ==
  entry' = [summary |-> sent[r].summary, cachedLedger |-> sent[r].cachedLedger,
            expires |-> now + CacheTtl]

\* Redis applies a SET, whether or not the request still waits for the reply.
Land(r) ==
  /\ sent[r] # None
  /\ Lands(r)
  /\ sent' = [sent EXCEPT ![r] = None]
  /\ staleAt' = IF sent[r].summary.ledger # projected THEN now ELSE staleAt
  /\ UNCHANGED <<breakerVars, now, cacheable, projected, readAt, summary, deadline, lag>>

\* The connection breaks and the command is lost.
Lose(r) ==
  /\ sent[r] # None
  /\ sent' = [sent EXCEPT ![r] = None]
  /\ UNCHANGED <<breakerVars, now, cacheable, projected, entry, readAt, summary, deadline,
                 staleAt, lag>>

SetAnswered(r) ==
  /\ readAt[r] = "set" /\ sent[r] = None
  /\ onSuccess
  /\ ReadGoes(r, "done")
  /\ UNCHANGED <<now, cacheable, projected, entry, summary, deadline, sent, staleAt, lag>>

SetFails(r) ==
  /\ readAt[r] = "set"
  /\ onFailure
  /\ ReadGoes(r, "done")
  /\ UNCHANGED <<now, cacheable, projected, entry, summary, deadline, sent, staleAt, lag>>

-----------------------------------------------------------------------------
\* The indexer projects a later event.
Project ==
  /\ projected < MaxLedger /\ now < ReadHorizon
  /\ projected' = projected + 1
  /\ staleAt' = now
  /\ UNCHANGED <<breakerVars, now, cacheable, entry, requestVars>>

\* Time passes, but not past the timer of a Redis command; beyond ReadHorizon only
\* while one is under way.
Waiting(r) == readAt[r] \in {"get", "set"}

SummaryTick ==
  /\ now < ReadHorizon \/ \E r \in Readers : Waiting(r)
  /\ \A r \in Readers : Waiting(r) => now < deadline[r]
  /\ now' = now + 1
  /\ UNCHANGED <<breakerVars, cacheable, projected, entry, requestVars, staleAt>>

ReadStep(r) ==
  \/ Unmapped(r) \/ StartUncached(r) \/ StartGet(r)
  \/ GetAnswered(r) \/ GetFails(r)
  \/ ReadProjection(r) \/ ReadLive(r) \/ LiveRefused(r) \/ ReadHold(r)
  \/ SaveSkipped(r) \/ StartSet(r) \/ SetAnswered(r) \/ SetFails(r)

SummaryNext ==
  \/ \E r \in Readers : ReadStep(r) \/ Land(r) \/ Lose(r)
  \/ Project
  \/ SummaryTick

SummarySpec == SummaryInit /\ [][SummaryNext]_summaryVars

-----------------------------------------------------------------------------
(* A GET that serves an outdated ledger does so less than the time to live *)
(* after the moment that made it outdated: the projection moved on, or a   *)
(* slow request's SET put an older summary (or a "not_found" born of a     *)
(* failed query) back in its place.  Nothing older outlives that, although *)
(* the ledger-gap check never applies.                                     *)
StaleOnlyWithinTtl == \A r \in Readers : lag[r] < CacheTtl

\* The inductive invariant behind it: the value in Redis is the projection's
\* latest, or expires within a time to live of the moment that outdated it.
SummaryInv ==
  /\ SummaryTypeOK
  /\ StaleOnlyWithinTtl
  /\ staleAt <= now /\ entry.expires <= now + CacheTtl
  /\ entry.summary # None => \/ entry.summary.ledger = projected
                             \/ entry.expires <= staleAt + CacheTtl
  /\ \A r \in Readers : readAt[r] \in {"hold", "save"} => summary[r] \in Summaries

=============================================================================

---------------------------- MODULE HealthProbes ----------------------------
(* The readiness probes, services/health.js with the storage probe of        *)
(* services/storage.js and the two routes of app.js.  /ready and /readyz     *)
(* start their checks together and answer once all of them have settled;     *)
(* every check that leaves the process races a timer.  /readyz also sets the *)
(* Prometheus gauge, the value an operator's alert reads.                    *)
(*                                                                           *)
(* Dependencies answer, fail or hang at will: nothing here relies on them.   *)
(* The pool is what a check can see of it: "free", "pressed" (used           *)
(* connections at or above the saturation ratio) or "exhausted" (acquires    *)
(* queue, a query gets no connection).  The gauge is counted in halves: 2 is *)
(* the code's 1, 1 its 0.5.                                                  *)
EXTENDS Naturals

CONSTANTS
  Probes,          \* requests to the two routes
  Limit,           \* the time-out of each check that leaves the process
  Warn, Fail,      \* SOROBAN_LATENCY_WARN_MS, SOROBAN_LATENCY_FAIL_MS
  StaleAfter,      \* ESCROW_INDEXER_STALE_THRESHOLD_SECONDS
  Deployments,     \* the environments the process may be started in
  ProbeHorizon     \* bound: the last instant of the clock

Remote == {"soroban", "database", "kyc", "storage"}
Checks == Remote \cup {"indexerStaleness"}

ASSUME LimitAssumption == Limit \in [Remote -> Nat \ {0}]

VARIABLES
  env,         \* the deployment: what is configured
  instant,     \* the clock
  load,        \* the connection pool, used by every other request too
  advanced,    \* when the indexer's cursor last advanced, 0 before it did
  probe,       \* each request: its route, when it began, the pool it sampled
  outcome,     \* the status of each of its checks
  sent,        \* the answer of each request
  gauge        \* readiness_gauge

healthVars == <<env, instant, load, advanced, probe, outcome, sent, gauge>>

AskedBy(route) ==
  IF route = "ready" THEN Checks ELSE {"database", "soroban", "storage"}

HealthInit ==
  /\ env \in Deployments
  /\ instant = 1
  /\ load \in {"free", "pressed", "exhausted"}
  /\ advanced \in {0, 1}
  /\ probe = [p \in Probes |-> [route |-> "none", began |-> 0, pool |-> "none"]]
  /\ outcome = [p \in Probes |-> [c \in Checks |-> "unasked"]]
  /\ sent = [p \in Probes |-> "none"]
  /\ gauge = 0

-----------------------------------------------------------------------------
(* The checks.                                                             *)

\* Latency against the two thresholds.
ClassifySorobanLatency(latency) ==
  IF latency <= Warn THEN "healthy" ELSE IF latency <= Fail THEN "degraded" ELSE "unhealthy"

\* prom-client's Gauge.get is asynchronous: what the check reads is a promise,
\* neither undefined, nor zero, nor a number.
GaugeGet == [number |-> FALSE, value |-> advanced]

\* elapsedSeconds > threshold; every comparison with NaN is false.
Older(reading) == reading.number /\ instant - reading.value > StaleAfter

CheckIndexerStaleness ==
  IF ~env.indexer THEN "disabled"
  ELSE IF GaugeGet.number /\ GaugeGet.value = 0 THEN "healthy"
  ELSE IF Older(GaugeGet) THEN "stale" ELSE "healthy"

\* A check that needs nobody's answer: what it returns at once.  The storage
\* probe looks at the opt-out first, then at the fallback, then at the bucket.
Settled(c) ==
  CASE c = "soroban" -> IF env.soroban THEN "waiting" ELSE "unknown"
    [] c = "database" -> IF env.database THEN "waiting" ELSE "not_configured"
    [] c = "kyc" -> IF env.kyc THEN "waiting" ELSE "disabled"
    [] c = "indexerStaleness" -> CheckIndexerStaleness
    [] c = "storage" ->
         IF env.storageProbe = "off" THEN "disabled"
         ELSE IF env.storageFallback THEN "in_memory"
         ELSE IF env.bucket THEN "waiting" ELSE "not_configured"

\* The counters of the pool, null where there is none.
InspectPoolHealth == IF env.pool THEN load ELSE "null"

\* A request starts all its checks before it waits for any: the pool is sampled
\* now, whatever it is when the query returns.
Ask(p, route) ==
  /\ probe[p].route = "none"
  /\ \A c \in Remote : instant + Limit[c] <= ProbeHorizon
  /\ probe' = [probe EXCEPT ![p] = [route |-> route, began |-> instant, pool |-> InspectPoolHealth]]
  /\ outcome' = [outcome EXCEPT ![p] = [c \in Checks |-> IF c \in AskedBy(route) THEN Settled(c) ELSE "unasked"]]
  /\ UNCHANGED <<env, instant, load, advanced, sent, gauge>>

Elapsed(p) == instant - probe[p].began

\* What a check makes of an answer that came in time.
CheckSorobanHealth(p, ok) == IF ok THEN ClassifySorobanLatency(Elapsed(p)) ELSE "unhealthy"
CheckDatabaseHealth(p, ok) ==
  IF ~ok THEN "unhealthy"
  ELSE IF probe[p].pool \in {"pressed", "exhausted"} THEN "degraded" ELSE "healthy"
CheckKycHealth(ok) == IF ok THEN "healthy" ELSE "unhealthy"
ProbeS3Connectivity(ok) == IF ok THEN "healthy" ELSE "unhealthy"

\* A dependency answers.  A query answers once it has a connection.
Replies(p, c, ok) ==
  /\ outcome[p][c] = "waiting"
  /\ c = "database" /\ ok => load # "exhausted"
  /\ outcome' = [outcome EXCEPT ![p][c] =
       CASE c = "soroban" -> CheckSorobanHealth(p, ok)
         [] c = "database" -> CheckDatabaseHealth(p, ok)
         [] c = "kyc" -> CheckKycHealth(ok)
         [] c = "storage" -> ProbeS3Connectivity(ok)]
  /\ UNCHANGED <<env, instant, load, advanced, probe, sent, gauge>>

\* The bug a bounded probe excludes: the query on the pool has no timer.
ArmedButForThePool(p, c) == outcome[p][c] = "waiting" /\ c # "database"

\* The timer of a check runs from its start until it settles.
Armed(p, c) == outcome[p][c] = "waiting"

\* The timer wins the race: the answer, if it ever comes, goes nowhere.
TimesOut(p, c) ==
  /\ Armed(p, c) /\ Elapsed(p) >= Limit[c]
  /\ outcome' = [outcome EXCEPT ![p][c] = "unhealthy"]
  /\ UNCHANGED <<env, instant, load, advanced, probe, sent, gauge>>

-----------------------------------------------------------------------------
(* The answers.                                                            *)

AllSettled(p) == \A c \in Checks : outcome[p][c] # "waiting"

\* /ready: the database is reported and does not count.
Healthy(o) ==
  /\ o["soroban"] \in {"healthy", "unknown"}
  /\ o["kyc"] \in {"healthy", "disabled"}
  /\ o["indexerStaleness"] \in {"healthy", "disabled"}
  /\ o["storage"] \notin {"not_configured", "unhealthy"}

StorageOk(o) == o["storage"] \in {"healthy", "in_memory", "disabled"}
DbReady(o) == o["database"] \in {"healthy", "degraded"}
SorobanReady(o) == o["soroban"] \in {"healthy", "degraded", "unknown"}
Ready(o) == DbReady(o) /\ SorobanReady(o) /\ StorageOk(o)

ReadinessGauge(o) ==
  IF ~DbReady(o) \/ ~StorageOk(o) THEN 0
  ELSE IF "degraded" \in {o["database"], o["soroban"]} THEN 1
  ELSE IF Ready(o) THEN 2 ELSE 0

\* Promise.all resolves, the gauge is set, the response is sent.
AnswerReady(p) ==
  /\ probe[p].route = "ready" /\ sent[p] = "none" /\ AllSettled(p)
  /\ sent' = [sent EXCEPT ![p] = IF Healthy(outcome[p]) THEN "200" ELSE "503"]
  /\ UNCHANGED <<env, instant, load, advanced, probe, outcome, gauge>>

AnswerReadyz(p) ==
  /\ probe[p].route = "readyz" /\ sent[p] = "none" /\ AllSettled(p)
  /\ sent' = [sent EXCEPT ![p] = IF Ready(outcome[p]) THEN "200" ELSE "503"]
  /\ gauge' = ReadinessGauge(outcome[p])
  /\ UNCHANGED <<env, instant, load, advanced, probe, outcome>>

-----------------------------------------------------------------------------
(* The world around the probes.                                            *)

\* Other requests take and return connections.
LoadChanges ==
  /\ load' \in {"free", "pressed", "exhausted"} \ {load}
  /\ UNCHANGED <<env, instant, advanced, probe, outcome, sent, gauge>>

\* The indexer's cycle moved its cursor.
CursorAdvances ==
  /\ env.indexer /\ advanced # instant
  /\ advanced' = instant
  /\ UNCHANGED <<env, instant, load, probe, outcome, sent, gauge>>

\* Time passes; a timer that is due fires first.
HealthTick ==
  /\ instant < ProbeHorizon
  /\ \A p \in Probes, c \in Remote : Armed(p, c) => Elapsed(p) < Limit[c]
  /\ instant' = instant + 1
  /\ UNCHANGED <<env, load, advanced, probe, outcome, sent, gauge>>

HealthNext ==
  \/ \E p \in Probes, route \in {"ready", "readyz"} : Ask(p, route)
  \/ \E p \in Probes, c \in Remote : (\E ok \in BOOLEAN : Replies(p, c, ok)) \/ TimesOut(p, c)
  \/ \E p \in Probes : AnswerReady(p) \/ AnswerReadyz(p)
  \/ LoadChanges \/ CursorAdvances \/ HealthTick

HealthSpec == HealthInit /\ [][HealthNext]_healthVars

-----------------------------------------------------------------------------
(* Properties.                                                             *)

\* Every /ready and /readyz is answered, with dependencies that hang and a pool
\* that stays exhausted: each check that waits for somebody else races a timer
\* of its own (checkSorobanHealth, checkDatabaseHealth, checkKycHealth,
\* probeS3Connectivity), so Promise.all always settles.
ProbesAnswered == \A p \in Probes : probe[p].route # "none" ~> sent[p] # "none"

=============================================================================

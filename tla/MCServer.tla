------------------------------ MODULE MCServer ------------------------------
(* The server process: its shutdown and its readiness probes, two            *)
(* independent parts explored in one run.                                    *)
EXTENDS ShutdownCoordinator, HealthProbes

VARIABLE part

serverVars == <<shutdownVars, healthVars, part>>

MCLimit == [soroban |-> 2, database |-> 1, kyc |-> 2, storage |-> 1]

AllSet == [soroban |-> TRUE, database |-> TRUE, pool |-> TRUE, kyc |-> TRUE, indexer |-> TRUE,
           storageProbe |-> "on", storageFallback |-> FALSE, bucket |-> TRUE]
Nothing == [soroban |-> FALSE, database |-> FALSE, pool |-> FALSE, kyc |-> FALSE, indexer |-> FALSE,
            storageProbe |-> "off", storageFallback |-> FALSE, bucket |-> FALSE]

\* Everything configured; nothing; no pool to sample and no bucket; the
\* in-memory storage and no indexer.
Small == [AllSet EXCEPT !.storageFallback = TRUE, !.indexer = FALSE]
MCDeployments ==
  {AllSet, Nothing, [AllSet EXCEPT !.pool = FALSE, !.bucket = FALSE], Small}

MCInit ==
  /\ part \in {"shutdown", "health"}
  /\ part = "shutdown" => env = Nothing /\ load = "free" /\ advanced = 0
  /\ ShutdownInit /\ HealthInit

\* Two probes only in the small deployment, and only of /readyz, which share
\* the gauge; the second begins after the first.
Pairs ==
  probe'[2].route # "none" =>
    env = Small /\ probe'[1].route = "readyz" /\ probe'[2].route = "readyz"

MCShutdown == part = "shutdown" /\ ShutdownNext /\ UNCHANGED <<healthVars, part>>
MCHealth ==
  /\ part = "health" /\ HealthNext /\ UNCHANGED <<shutdownVars, part>>
  /\ Pairs

MCNext == MCShutdown \/ MCHealth

Shutting(A) == part = "shutdown" /\ A /\ UNCHANGED <<healthVars, part>>
Probing(A) == part = "health" /\ A /\ UNCHANGED <<shutdownVars, part>>

\* Only the clock is relied on, and the process to run what is due.
MCSpec ==
  /\ MCInit /\ [][MCNext]_serverVars
  /\ \A s \in Signals : WF_serverVars(Shutting(ForceExit(s)))
  /\ WF_serverVars(Probing(HealthTick))
  /\ \A p \in Probes :
       /\ WF_serverVars(Probing(AnswerReady(p) \/ AnswerReadyz(p)))
       /\ \A c \in Remote : WF_serverVars(Probing(TimesOut(p, c)))
=============================================================================

------------------------ MODULE ShutdownCoordinator ------------------------
(***************************************************************************)
(* Graceful shutdown of the process: src/utils/shutdownCoordinator.js and  *)
(* its use by src/index.js.  Each signal calls executeShutdown(); the      *)
(* calls run concurrently between their awaits.  HTTP connections, the     *)
(* background worker and the Knex pool are the environment it tears down.  *)
(*                                                                         *)
(* A connection is "busy" while a request is being handled on it.  A       *)
(* keep-alive connection outlives its requests, and close() waits for all  *)
(* connections.                                                            *)
(***************************************************************************)
EXTENDS Naturals, FiniteSets

CONSTANTS
  Signals,           \* executeShutdown() is called once for each
  Connections,
  Jobs,              \* handler calls the background worker may have in flight
  WorkerRegistered   \* did register() get a worker? src/index.js passes none

ASSUME ShutdownAssumption == WorkerRegistered \in BOOLEAN

VARIABLES
  isShuttingDown,
  call,        \* where each call of executeShutdown() is
  timer,       \* its forceExitTimeout
  listening,   \* serverInstance.listening
  conn,
  polling,     \* the worker takes jobs
  jobs,        \* jobs in flight
  pool,        \* the Knex pool
  exit         \* "no", or the exit status

shutdownVars == <<isShuttingDown, call, timer, listening, conn, polling, jobs, pool, exit>>

ShutdownInit ==
  /\ isShuttingDown = "no"
  /\ call = [s \in Signals |-> "none"]
  /\ timer = [s \in Signals |-> "off"]
  /\ listening = "yes"
  /\ conn = [c \in Connections |-> "closed"]
  /\ polling = "yes"
  /\ jobs = {}
  /\ pool = "open"
  /\ exit = "no"

-----------------------------------------------------------------------------
(* Environment: clients and jobs.                                          *)

Connect(c) ==
  /\ exit = "no" /\ listening = "yes"
  /\ conn[c] = "closed"
  /\ conn' = [conn EXCEPT ![c] = "busy"]
  /\ UNCHANGED <<isShuttingDown, call, timer, listening, polling, jobs, pool, exit>>

\* The response ends: the connection closes or stays open for the next request.
\* A request that hangs simply never takes this step.
Respond(c, after) ==
  /\ exit = "no"
  /\ conn[c] = "busy"
  /\ conn' = [conn EXCEPT ![c] = after]
  /\ UNCHANGED <<isShuttingDown, call, timer, listening, polling, jobs, pool, exit>>

\* An idle connection is closed, or carries another request even after close().
IdleConnection(c, after) ==
  /\ exit = "no"
  /\ conn[c] = "idle"
  /\ conn' = [conn EXCEPT ![c] = after]
  /\ UNCHANGED <<isShuttingDown, call, timer, listening, polling, jobs, pool, exit>>

JobStarts(j) ==
  /\ exit = "no" /\ polling = "yes"
  /\ j \notin jobs
  /\ jobs' = jobs \cup {j}
  /\ UNCHANGED <<isShuttingDown, call, timer, listening, conn, polling, pool, exit>>

JobEnds(j) ==
  /\ exit = "no"
  /\ j \in jobs
  /\ jobs' = jobs \ {j}
  /\ UNCHANGED <<isShuttingDown, call, timer, listening, conn, polling, pool, exit>>

-----------------------------------------------------------------------------
(* executeShutdown().                                                      *)

ExecuteShutdownTimerLate(s) ==
  /\ exit = "no" /\ call[s] = "none"
  /\ IF isShuttingDown = "yes"
       THEN /\ call' = [call EXCEPT ![s] = "ignored"]
            /\ UNCHANGED <<isShuttingDown, timer, conn, listening>>
       ELSE /\ isShuttingDown' = "yes"
            /\ conn' = [c \in Connections |-> IF conn[c] = "idle" THEN "closed" ELSE conn[c]]
            /\ listening' = "no"
            /\ call' = [call EXCEPT ![s] = IF listening = "yes" THEN "closing" ELSE "drained"]
            /\ UNCHANGED timer
  /\ UNCHANGED <<polling, jobs, pool, exit>>

\* A signal arrives: up to the first await.  close() of a server that does not
\* listen any more calls back at once, with an error that is only logged.
ExecuteShutdown(s) ==
  /\ exit = "no" /\ call[s] = "none"
  /\ IF isShuttingDown = "yes"
       THEN /\ call' = [call EXCEPT ![s] = "ignored"]
            /\ UNCHANGED <<isShuttingDown, timer, conn, listening>>
       ELSE /\ isShuttingDown' = "yes"
            /\ timer' = [timer EXCEPT ![s] = "armed"]
            /\ conn' = [c \in Connections |-> IF conn[c] = "idle" THEN "closed" ELSE conn[c]]
            /\ listening' = "no"
            /\ call' = [call EXCEPT ![s] = IF listening = "yes" THEN "closing" ELSE "drained"]
  /\ UNCHANGED <<polling, jobs, pool, exit>>

\* The callback of close().
ServerClosed(s) ==
  /\ exit = "no" /\ call[s] = "closing"
  /\ \A c \in Connections : conn[c] = "closed"
  /\ call' = [call EXCEPT ![s] = "drained"]
  /\ UNCHANGED <<isShuttingDown, timer, listening, conn, polling, jobs, pool, exit>>

\* Phase 3 up to its await, or straight on to phase 4.
StopWorker(s) ==
  /\ exit = "no" /\ call[s] = "drained"
  /\ IF WorkerRegistered
       THEN polling' = "no" /\ call' = [call EXCEPT ![s] = "stopping"]
       ELSE call' = [call EXCEPT ![s] = "destroying"] /\ UNCHANGED polling
  /\ UNCHANGED <<isShuttingDown, timer, listening, conn, jobs, pool, exit>>

\* worker.stop() resolves when no job is in flight or its own time is up.
WorkerStopped(s) ==
  /\ exit = "no" /\ call[s] = "stopping"
  /\ call' = [call EXCEPT ![s] = "destroying"]
  /\ UNCHANGED <<isShuttingDown, timer, listening, conn, polling, jobs, pool, exit>>

ExitBeforePool(s, failed) ==
  /\ exit = "no" /\ call[s] = "destroying"
  /\ timer' = [timer EXCEPT ![s] = "off"]
  /\ call' = [call EXCEPT ![s] = "exited"]
  /\ exit' = "0"
  /\ UNCHANGED <<isShuttingDown, listening, conn, polling, jobs, pool>>

\* Phase 4: db.destroy() closes the pool, or rejects; then process.exit().
PoolDestroyed(s, failed) ==
  /\ exit = "no" /\ call[s] = "destroying"
  /\ pool' = IF failed THEN "broken" ELSE "closed"
  /\ timer' = [timer EXCEPT ![s] = "off"]
  /\ call' = [call EXCEPT ![s] = "exited"]
  /\ exit' = IF failed THEN "1" ELSE "0"
  /\ UNCHANGED <<isShuttingDown, listening, conn, polling, jobs>>

ForceExit(s) ==
  /\ exit = "no" /\ timer[s] = "armed"
  /\ exit' = "1"
  /\ UNCHANGED <<isShuttingDown, call, timer, listening, conn, polling, jobs, pool>>

ShutdownStep(s) ==
  \/ ServerClosed(s)
  \/ StopWorker(s)
  \/ WorkerStopped(s)
  \/ \E failed \in BOOLEAN : PoolDestroyed(s, failed)

ShutdownNext ==
  \/ \E c \in Connections : Connect(c)
  \/ \E c \in Connections, after \in {"idle", "closed"} : Respond(c, after)
  \/ \E c \in Connections, after \in {"busy", "closed"} : IdleConnection(c, after)
  \/ \E j \in Jobs : JobStarts(j) \/ JobEnds(j)
  \/ \E s \in Signals : ExecuteShutdown(s) \/ ShutdownStep(s) \/ ForceExit(s)

ShutdownSpec == ShutdownInit /\ [][ShutdownNext]_shutdownVars

\* Only the clock is relied on: neither clients, nor jobs, nor the database have
\* to make progress.
ShutdownFairSpec == ShutdownSpec /\ \A s \in Signals : WF_shutdownVars(ForceExit(s))

-----------------------------------------------------------------------------
(* Properties.                                                             *)

\* The state of the coordinator and of what it shuts down keeps its type.
ShutdownTypeOK ==
  /\ isShuttingDown \in {"no", "yes"}
  /\ call \in [Signals -> {"none", "ignored", "closing", "drained", "stopping", "destroying", "exited"}]
  /\ timer \in [Signals -> {"off", "armed"}]
  /\ listening \in {"no", "yes"}
  /\ conn \in [Connections -> {"closed", "idle", "busy"}]
  /\ polling \in {"no", "yes"}
  /\ jobs \subseteq Jobs
  /\ pool \in {"open", "closed", "broken"}
  /\ exit \in {"no", "0", "1"}

\* The pool is there for every request that is being answered, whatever signals
\* arrive and in whatever order connections come, stay and go.
PoolOutlivesRequests ==
  pool # "open" => \A c \in Connections : conn[c] = "closed"

\* Status 0 means what the README says of a clean exit: requests answered, the
\* registered worker told to stop, the pool closed.
CleanExit ==
  exit = "0" =>
    /\ \A c \in Connections : conn[c] = "closed"
    /\ pool = "closed"
    /\ WorkerRegistered => polling = "no"

\* A signal ends the process, even if a request, a job or the pool hangs.
ShutdownEnds == (isShuttingDown = "yes") ~> (exit # "no")

-----------------------------------------------------------------------------
(* The inductive invariant behind the safety properties.                   *)

\* At most one call is past the guard, and what it has passed is done.
OneShutdown ==
  /\ isShuttingDown = "no" => \A s \in Signals : call[s] = "none"
  /\ \A s, r \in Signals :
       call[s] \notin {"none", "ignored"} /\ call[r] \notin {"none", "ignored"} => s = r
  /\ isShuttingDown = "no" <=> listening = "yes"

Progress ==
  /\ \A s \in Signals :
       call[s] \in {"drained", "stopping", "destroying", "exited"} =>
         listening = "no" /\ \A c \in Connections : conn[c] = "closed"
  /\ \A s \in Signals :
       call[s] \in {"stopping", "destroying", "exited"} /\ WorkerRegistered => polling = "no"
  /\ pool # "open" => \E s \in Signals : call[s] = "exited"
  /\ exit = "0" => pool = "closed"

\* One executeShutdown() at most is past the isShuttingDown guard, however many
\* signals arrive, and each phase it has left behind is done for good.
ShutdownInv == ShutdownTypeOK /\ OneShutdown /\ Progress
=============================================================================

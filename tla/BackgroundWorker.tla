-------------------------- MODULE BackgroundWorker --------------------------
(***************************************************************************)
(* One Node process running a BackgroundWorker (src/workers/worker.js)     *)
(* over an in-memory JobQueue.  JavaScript runs to completion: while the   *)
(* synchronous _poll() is in its loop nothing else runs, which loop # "idle"*)
(* expresses; handlers, callers and timers act only when loop = "idle".    *)
(*                                                                         *)
(* A call of _processJob is the pair <<job, attempt>>: attempts grows at   *)
(* every dispatch, so the pair names the call.  Handlers are external: a   *)
(* call ends by resolving or by throwing, at any later time.               *)
(***************************************************************************)
EXTENDS JobQueue

CONSTANT MaxConcurrency   \* this.maxConcurrency, at least 1

ASSUME WorkerAssumption == MaxConcurrency \in Nat \ {0}

VARIABLES
  isRunning,
  processingCount,
  running,      \* calls of _processJob that have not returned
  loop,         \* where _poll() is: "idle", "retry" or "main" (inside dequeue)
  timers,       \* armed timeouts whose callback is _poll
  pollTimer,    \* this.pollTimer: "null" or "set"
  stop          \* a call of stop(): "waiting" for the calls in flight, or how
                \* it ended, "drained" or "timeout"; "none" after a start

workerVars == <<isRunning, processingCount, running, loop, timers, pollTimer, stop>>
vars == <<queueVars, now, workerVars>>

Calls == Jobs \X (1..(MaxRetries + 1))

Init ==
  /\ JobQueueInit
  /\ isRunning = FALSE
  /\ processingCount = 0
  /\ running = {}
  /\ loop = "idle"
  /\ timers = 0
  /\ pollTimer = "null"
  /\ stop = "none"

-----------------------------------------------------------------------------
(* Callers of the queue.                                                   *)

Enqueue(j, d) ==
  /\ loop = "idle"
  /\ enqueue(j, d)
  /\ UNCHANGED <<now, workerVars>>

Cancel(j) ==
  /\ loop = "idle"
  /\ cancel(j)
  /\ UNCHANGED <<now, workerVars>>

Clear ==
  /\ loop = "idle"
  /\ clear
  /\ UNCHANGED <<now, workerVars>>

Tick ==
  /\ ClockTick
  /\ UNCHANGED <<queueVars, workerVars>>

-----------------------------------------------------------------------------
(* _poll().                                                                *)

PollLoopForgetsTimer(n, armed) ==
  IF n < MaxConcurrency
    THEN /\ loop' = "retry"
         /\ timers' = armed
         /\ UNCHANGED pollTimer
    ELSE /\ loop' = "idle"
         /\ timers' = armed
         /\ UNCHANGED pollTimer

\* Control of _poll() once the loop condition has been tested with n calls in
\* flight: another dequeue(), or the end of _poll(), which arms the next timer.
PollLoop(n, armed) ==
  IF n < MaxConcurrency
    THEN /\ loop' = "retry"
         /\ timers' = armed
         /\ UNCHANGED pollTimer
    ELSE /\ loop' = "idle"
         /\ timers' = armed + 1
         /\ pollTimer' = "set"

\* The timer fires.
PollTimerFires ==
  /\ loop = "idle"
  /\ timers > 0
  /\ IF isRunning
       THEN PollLoop(processingCount, timers - 1)
       ELSE /\ timers' = timers - 1
            /\ UNCHANGED <<loop, pollTimer>>
  /\ UNCHANGED <<queueVars, now, isRunning, processingCount, running, stop>>

\* _poll() got job j from dequeue(): _processJob(j) starts, not awaited.
StartCall(j) ==
  /\ running' = running \cup {<<j, attempts[j] + 1>>}
  /\ processingCount' = processingCount + 1
  /\ PollLoop(processingCount + 1, timers)
  /\ UNCHANGED <<now, isRunning, stop>>

PollTakesRetry ==
  /\ loop = "retry"
  /\ DequeueRetry
  /\ StartCall(Head(retryQueue))

PollPassesRetry ==
  /\ loop = "retry"
  /\ PassRetry
  /\ loop' = "main"
  /\ UNCHANGED <<now, isRunning, processingCount, running, timers, pollTimer, stop>>

PollTakesMain ==
  /\ loop = "main"
  /\ DequeueMain
  /\ StartCall(Head(queue))

PollPassesMain ==
  /\ loop = "main"
  /\ PassMain
  /\ UNCHANGED <<now, workerVars>>

\* dequeue() returned null.
PollEnds ==
  /\ loop = "main"
  /\ queue = <<>>
  /\ loop' = "idle"
  /\ timers' = timers + 1
  /\ pollTimer' = "set"
  /\ UNCHANGED <<queueVars, now, isRunning, processingCount, running, stop>>

PollStep ==
  \/ PollTakesRetry
  \/ PollPassesRetry
  \/ PollTakesMain
  \/ PollPassesMain
  \/ PollEnds

-----------------------------------------------------------------------------
(* _processJob() after the handler has settled.                            *)

\* The finally block.
CallReturns(c) ==
  /\ running' = running \ {c}
  /\ processingCount' = processingCount - 1
  /\ UNCHANGED <<now, isRunning, loop, timers, pollTimer, stop>>

\* The catch block; for a deleted record retry() throws too.
RetryOrThrow(j) ==
  \/ retry(j)
  \/ j \notin live /\ UNCHANGED queueVars

\* The handler resolved: ack(), whose own error also ends in the catch block.
HandlerResolves(c) ==
  /\ loop = "idle"
  /\ c \in running
  /\ IF CanAck(c[1]) THEN ack(c[1]) ELSE RetryOrThrow(c[1])
  /\ CallReturns(c)

HandlerThrows(c) ==
  /\ loop = "idle"
  /\ c \in running
  /\ RetryOrThrow(c[1])
  /\ CallReturns(c)

HandlerSettles(c) == HandlerResolves(c) \/ HandlerThrows(c)

-----------------------------------------------------------------------------
(* start() and stop().                                                     *)

\* Without a persistence adapter start() has no await before _poll().
Start ==
  /\ loop = "idle"
  /\ ~isRunning
  /\ isRunning' = TRUE
  /\ stop' = IF stop = "waiting" THEN "waiting" ELSE "none"
  /\ PollLoop(processingCount, timers)
  /\ UNCHANGED <<queueVars, now, processingCount, running>>

Stop ==
  /\ loop = "idle"
  /\ stop # "waiting"
  /\ isRunning' = FALSE
  /\ timers' = IF pollTimer = "set" THEN timers - 1 ELSE timers
  /\ pollTimer' = "null"
  /\ stop' = "waiting"
  /\ UNCHANGED <<queueVars, now, processingCount, running, loop>>

\* timeoutMs is the caller's, zero included: the wait may end at any time, and
\* stop() resolves in the same way whether or not calls are still in flight.
StopReturns ==
  /\ loop = "idle"
  /\ stop = "waiting"
  /\ stop' = IF processingCount > 0 THEN "timeout" ELSE "drained"
  /\ UNCHANGED <<queueVars, now, isRunning, processingCount, running, loop, timers, pollTimer>>

Next ==
  \/ \E j \in Jobs, d \in Delays : Enqueue(j, d)
  \/ \E j \in Jobs : Cancel(j)
  \/ Clear
  \/ Tick
  \/ PollTimerFires
  \/ PollStep
  \/ \E c \in Calls : HandlerSettles(c)
  \/ Start
  \/ Stop
  \/ StopReturns

Spec == Init /\ [][Next]_vars

\* Timers fire, a synchronous loop runs on, time passes, and every handler
\* settles in the end (the event loop also serves handlers that settle between
\* polls, hence the strong form).  Nobody has to start, stop, enqueue or cancel.
Fairness ==
  /\ WF_vars(PollTimerFires)
  /\ WF_vars(PollStep)
  /\ WF_vars(Tick)
  /\ \A c \in Calls : SF_vars(HandlerSettles(c))

FairSpec == Spec /\ Fairness

-----------------------------------------------------------------------------
(* Properties.                                                             *)

\* Every field of the queue and the worker keeps its type; attempts stays within
\* maxRetries + 1.
TypeOK ==
  /\ JobQueueTypeOK
  /\ now \in Nat
  /\ isRunning \in BOOLEAN
  /\ processingCount \in Nat
  /\ running \subseteq Calls
  /\ loop \in {"idle", "retry", "main"}
  /\ timers \in Nat
  /\ pollTimer \in {"null", "set"}
  /\ stop \in {"none", "waiting", "drained", "timeout"}

\* The slots in use are exactly the calls of _processJob in flight, whatever
\* the handlers, cancel(), clear() and restarts did, and never more than
\* maxConcurrency.
SlotsMatchCalls ==
  /\ processingCount = Cardinality(running)
  /\ processingCount <= MaxConcurrency

Elems(s) == {s[i] : i \in 1..Len(s)}

Distinct(s) == \A i, k \in 1..Len(s) : s[i] = s[k] => i = k

\* A job is in one place: once in the main queue, or once in the retry queue,
\* or with one handler; so no job is ever handled twice at the same time.
JobInOnePlace ==
  /\ Distinct(queue)
  /\ Distinct(retryQueue)
  /\ Elems(queue) \cap Elems(retryQueue) = {}
  /\ \A c \in running : c[1] \notin Elems(queue) \cup Elems(retryQueue)
  /\ \A c, e \in running : c[1] = e[1] => c = e

\* No job of the Map is forgotten: one that waits is in the queue its status
\* says, one that is being processed has a handler working for it.
NoJobLost ==
  \A j \in live :
    /\ status[j] = "pending" => j \in Elems(queue)
    /\ status[j] = "retrying" => j \in Elems(retryQueue)
    /\ status[j] = "processing" => \E c \in running : c[1] = j

\* A job fails for good only after maxRetries + 1 attempts, and no call is
\* made beyond them.
FailedOnlyWhenExhausted ==
  \A j \in Jobs : status[j] = "failed" => attempts[j] = MaxRetries + 1

\* retry() appends without looking at maxQueueSize; still the two arrays stay
\* within the limit plus the calls that may come back.
QueueBounded ==
  Len(queue) + Len(retryQueue) + processingCount <= MaxQueueSize + MaxConcurrency

\* stop() that resolves with nothing in flight has really quiesced the worker:
\* nothing runs until the next start().
DrainedIsQuiet ==
  stop = "drained" /\ ~isRunning => running = {} /\ timers = 0

\* stop() and start() in any order leave one poll loop, never two.
OnePollLoop ==
  /\ loop # "idle" => timers = 0
  /\ timers <= 1
  /\ isRunning => loop # "idle" \/ timers = 1

\* A job never leaves "completed" or "failed", and a cancelled or cleared job
\* that was waiting never starts, although its id may still be queued.
TerminalIsFinal ==
  [][\A j \in Jobs :
       /\ status[j] \in {"completed", "failed"} => status'[j] = status[j]
       /\ status[j] \in {"pending", "retrying"} /\ j \notin live
            => status'[j] = status[j]]_vars

\* The callers pass durations, which are far below the clock.
DelaysAreDurations == \A d \in Delays : d <= Epoch

\* Every iteration of the synchronous loop over the main queue shortens the
\* queue, so dequeue() returns without waiting for the clock.
DequeueTerminates == [][loop = "main" => loop' # "main" \/ Len(queue') < Len(queue) \/ now' # now]_vars

\* A job that stays in the Map is completed or failed in the end, if the worker
\* is in the end left running.
JobsSettle ==
  <>[]isRunning =>
    \A j \in Jobs : (j \in live) ~> (j \notin live \/ status[j] \in {"completed", "failed"})

-----------------------------------------------------------------------------
(* The inductive invariant behind the safety properties.                   *)

\* The status of a job says where its id is, deleted or not.
Placement ==
  /\ Distinct(queue)
  /\ Distinct(retryQueue)
  /\ \A j \in Elems(queue) : status[j] = "pending"
  /\ \A j \in Elems(retryQueue) : status[j] = "retrying"
  /\ \A c \in running : status[c[1]] = "processing" /\ attempts[c[1]] = c[2]

\* The status of a job says how often it was tried.
Attempts ==
  \A j \in Jobs :
    /\ status[j] = "unused" => j \notin live
    /\ status[j] \in {"unused", "pending"} => attempts[j] = 0
    /\ status[j] = "retrying" => attempts[j] \in 1..MaxRetries
    /\ status[j] \in {"processing", "completed"} => attempts[j] \in 1..(MaxRetries + 1)
    /\ status[j] = "failed" => attempts[j] = MaxRetries + 1

\* Between polls a running worker has one armed timer, known to pollTimer; in
\* _poll() a slot is free.
PollControl ==
  IF loop = "idle"
    THEN IF isRunning THEN timers = 1 /\ pollTimer = "set"
         ELSE timers = 0 /\ pollTimer = "null"
    ELSE isRunning /\ timers = 0 /\ processingCount < MaxConcurrency

WorkerInv ==
  /\ TypeOK
  /\ Placement
  /\ Attempts
  /\ IsFiniteSet(running)
  /\ SlotsMatchCalls
  /\ PollControl
  /\ NoJobLost
  /\ QueueBounded
  /\ DrainedIsQuiet

-----------------------------------------------------------------------------
(* Refinement.                                                             *)

\* What a caller sees of a job: its status, and whether a deleted job still has
\* a handler working for it.
phaseOf(j) ==
  CASE status[j] = "unused" -> "new"
    [] status[j] \in {"pending", "retrying"} ->
         IF j \in live THEN "waiting" ELSE "dropped"
    [] status[j] = "processing" ->
         IF j \in live THEN "running"
         ELSE IF \E c \in running : c[1] = j THEN "orphan" ELSE "dropped"
    [] status[j] = "completed" -> "done"
    [] status[j] = "failed" -> "failed"

jobPhase == [j \in Jobs |-> phaseOf(j)]

Lifecycle == INSTANCE JobLifecycle
  WITH phase <- jobPhase, tries <- attempts,
       MaxTries <- MaxRetries + 1, Slots <- MaxConcurrency

\* The queue and the worker together keep the promise of JobLifecycle.
ImplementsLifecycle == Lifecycle!Spec
=============================================================================

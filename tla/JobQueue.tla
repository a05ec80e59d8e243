------------------------------ MODULE JobQueue ------------------------------
(***************************************************************************)
(* The in-memory job queue of src/workers/jobQueue.js: the Map of job      *)
(* records and the two arrays of job ids.  Every operator below is one     *)
(* method of class JobQueue; BackgroundWorker turns them into the actions  *)
(* of a running process.                                                   *)
(*                                                                         *)
(* A job id is random and never reused, so Jobs is the set of ids the      *)
(* process will ever draw and a job that has not been enqueued yet is      *)
(* "unused".  The fields of a record live in functions over Jobs; deleting *)
(* the record from the Map only removes its id from live, since a handler  *)
(* that is still running keeps the record alive.                           *)
(***************************************************************************)
EXTENDS Integers, Sequences, FiniteSets

CONSTANTS
  Jobs,          \* the ids the process can draw
  MaxRetries,    \* this.maxRetries, at most 10
  MaxQueueSize,  \* this.maxQueueSize
  Delays,        \* the values callers pass as options.delayMs
  Epoch,         \* Date.now() when the process starts
  BaseDelay,     \* 1000 ms of the code
  MaxDelay       \* 60000 ms of the code

ASSUME JobQueueAssumption ==
  /\ MaxRetries \in 0..10
  /\ MaxQueueSize \in Nat \ {0}
  /\ Delays \subseteq Nat
  /\ Epoch \in Nat
  /\ BaseDelay \in Nat
  /\ MaxDelay \in Nat

VARIABLES
  live,        \* keys of the Map this.jobs
  status,      \* job.status
  attempts,    \* job.attempts
  delayMs,     \* job.delayMs
  queue,       \* this.queue
  retryQueue,  \* this.retryQueue
  now          \* Date.now()

queueVars == <<live, status, attempts, delayMs, queue, retryQueue>>

JOB_STATUS == {"pending", "processing", "completed", "failed", "retrying"}

JobQueueTypeOK ==
  /\ live \subseteq Jobs
  /\ status \in [Jobs -> JOB_STATUS \cup {"unused"}]
  /\ attempts \in [Jobs -> 0..(MaxRetries + 1)]
  /\ delayMs \in [Jobs -> Nat]
  /\ queue \in Seq(Jobs)
  /\ retryQueue \in Seq(Jobs)

JobQueueInit ==
  /\ live = {}
  /\ status = [j \in Jobs |-> "unused"]
  /\ attempts = [j \in Jobs |-> 0]
  /\ delayMs = [j \in Jobs |-> 0]
  /\ queue = <<>>
  /\ retryQueue = <<>>
  /\ now = Epoch

-----------------------------------------------------------------------------

\* Wrong variants of a definition, each named for the slip it makes, stand before
\* it; no action uses them.

\* Both arrays count against the limit, with the ids of cancelled jobs in them.
HasRoom == Len(queue) + Len(retryQueue) < MaxQueueSize

enqueue(j, d) ==
  /\ status[j] = "unused"
  /\ HasRoom
  /\ live' = live \cup {j}
  /\ status' = [status EXCEPT ![j] = "pending"]
  /\ delayMs' = [delayMs EXCEPT ![j] = d]
  /\ queue' = Append(queue, j)
  /\ UNCHANGED <<attempts, retryQueue>>

\* delayMs is compared with the clock, whatever the caller meant by it.
isReadyToProcess(j) ==
  /\ status[j] \in {"pending", "retrying"}
  /\ now >= delayMs[j]

\* dequeue() hands the job to the caller.
Dispatch(j) ==
  /\ status' = [status EXCEPT ![j] = "processing"]
  /\ attempts' = [attempts EXCEPT ![j] = @ + 1]
  /\ UNCHANGED <<live, delayMs>>

\* First half of dequeue(): the head of the retry queue, and only the head, is
\* looked at.  A cancelled head is dropped and one that is not due goes to the
\* back; both fall through to the main queue.
RetryHeadReady ==
  /\ retryQueue # <<>>
  /\ Head(retryQueue) \in live
  /\ isReadyToProcess(Head(retryQueue))

DequeueRetry ==
  /\ RetryHeadReady
  /\ Dispatch(Head(retryQueue))
  /\ retryQueue' = Tail(retryQueue)
  /\ UNCHANGED queue

PassRetryDropsHead ==
  /\ ~RetryHeadReady
  /\ retryQueue' = IF retryQueue = <<>> THEN <<>> ELSE Tail(retryQueue)
  /\ UNCHANGED <<live, status, attempts, delayMs, queue>>

PassRetry ==
  /\ ~RetryHeadReady
  /\ retryQueue' = IF retryQueue = <<>> THEN <<>>
                   ELSE IF Head(retryQueue) \in live
                     THEN Append(Tail(retryQueue), Head(retryQueue))
                     ELSE Tail(retryQueue)
  /\ UNCHANGED <<live, status, attempts, delayMs, queue>>

\* Second half of dequeue(): one iteration of the loop over the main queue.
MainHeadReady ==
  /\ queue # <<>>
  /\ Head(queue) \in live
  /\ isReadyToProcess(Head(queue))

DequeueMain ==
  /\ MainHeadReady
  /\ Dispatch(Head(queue))
  /\ queue' = Tail(queue)
  /\ UNCHANGED retryQueue

PassMain ==
  /\ queue # <<>>
  /\ ~MainHeadReady
  /\ queue' = IF Head(queue) \in live /\ delayMs[Head(queue)] > 0
                THEN Append(Tail(queue), Head(queue))
                ELSE Tail(queue)
  /\ UNCHANGED <<live, status, attempts, delayMs, retryQueue>>

\* ack() throws, changing nothing, unless this holds.
CanAck(j) == j \in live /\ status[j] = "processing"

ack(j) ==
  /\ CanAck(j)
  /\ status' = [status EXCEPT ![j] = "completed"]
  /\ UNCHANGED <<live, attempts, delayMs, queue, retryQueue>>

\* Math.pow(2, n - 1) for the n <= maxRetries <= 10 that retry() asks for; n = 0,
\* a job that was put back in the Map while its handler ran, gives one half.
Pow2 == <<1, 2, 4, 8, 16, 32, 64, 128, 256, 512>>

Backoff(n) ==
  LET d == IF n = 0 THEN BaseDelay \div 2 ELSE Pow2[n] * BaseDelay
  IN  IF d < MaxDelay THEN d ELSE MaxDelay

\* retry() looks at neither the status of the job nor the queue limit.
retry(j) ==
  /\ j \in live
  /\ IF attempts[j] <= MaxRetries
       THEN /\ status' = [status EXCEPT ![j] = "retrying"]
            /\ delayMs' = [delayMs EXCEPT ![j] = now + Backoff(attempts[j])]
            /\ retryQueue' = Append(retryQueue, j)
       ELSE /\ status' = [status EXCEPT ![j] = "failed"]
            /\ UNCHANGED <<delayMs, retryQueue>>
  /\ UNCHANGED <<live, attempts, queue>>

cancelAsFailed(j) ==
  /\ j \in live
  /\ status' = [status EXCEPT ![j] = "failed"]
  /\ UNCHANGED <<live, attempts, delayMs, queue, retryQueue>>

\* cancel() deletes the record in whatever status it is; the arrays keep the id.
cancel(j) ==
  /\ j \in live
  /\ live' = live \ {j}
  /\ UNCHANGED <<status, attempts, delayMs, queue, retryQueue>>

clear ==
  /\ live' = {}
  /\ queue' = <<>>
  /\ retryQueue' = <<>>
  /\ UNCHANGED <<status, attempts, delayMs>>

\* Date.now() is only ever compared with delayMs, so the clock needs to move
\* only while a job is waiting for its time.
SomeJobWaits == \E j \in live : status[j] \in {"pending", "retrying"} /\ now < delayMs[j]

ClockTick ==
  /\ SomeJobWaits
  /\ now' = now + 1
=============================================================================

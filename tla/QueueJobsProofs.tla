-------------------------- MODULE QueueJobsProofs ---------------------------
(***************************************************************************)
(* The job queue with its worker, for any jobs, delays and limits, and the *)
(* reminders of src/jobs/maturityReminders.js that run on it.              *)
(*                                                                         *)
(* WorkerInv: the statuses of the jobs, the arrays, the handlers running   *)
(* and their count tell the same story, and every id is in one place once. *)
(* ReminderInv: the Map of invoices and the history name enqueued jobs of  *)
(* their own invoice, no job is retried, and a settled mail is past its    *)
(* one call.                                                               *)
(***************************************************************************)
EXTENDS MaturityReminders, FiniteSetTheorems, TLAPS

-----------------------------------------------------------------------------
(* Lemmas on the arrays of ids.                                            *)

\* shift() on an array of distinct ids removes exactly the id it returns.
LEMMA ShiftFacts ==
  ASSUME NEW s \in Seq(Jobs), s # <<>>
  PROVE  /\ Head(s) \in Jobs
         /\ Head(s) \in Elems(s)
         /\ Tail(s) \in Seq(Jobs)
         /\ Len(s) \in Nat
         /\ Len(Tail(s)) = Len(s) - 1
         /\ Elems(Tail(s)) \subseteq Elems(s)
         /\ Elems(s) = Elems(Tail(s)) \cup {Head(s)}
         /\ Distinct(s) => Distinct(Tail(s)) /\ Head(s) \notin Elems(Tail(s))
<1>1. /\ Len(s) \in Nat /\ Len(s) > 0
      /\ Head(s) = s[1] /\ Head(s) \in Jobs
      /\ Tail(s) \in Seq(Jobs)
      /\ Len(Tail(s)) = Len(s) - 1
      /\ \A i \in 1..Len(Tail(s)) : Tail(s)[i] = s[i + 1]
  OBVIOUS
<1>2. Head(s) \in Elems(s)
  BY <1>1 DEF Elems
<1>3. Elems(Tail(s)) \subseteq Elems(s)
  BY <1>1 DEF Elems
<1>4. ASSUME NEW i \in 1..Len(s)
      PROVE  s[i] \in Elems(Tail(s)) \cup {Head(s)}
  <2>1. CASE i = 1
    BY <2>1, <1>1
  <2>2. CASE i # 1
    <3>1. i - 1 \in 1..Len(Tail(s)) /\ Tail(s)[i - 1] = s[i]
      BY <2>2, <1>1
    <3>2. QED
      BY Zenon, <3>1 DEF Elems
  <2>3. QED
    BY Zenon, <2>1, <2>2
<1>5. Elems(s) = Elems(Tail(s)) \cup {Head(s)}
  BY Zenon, <1>2, <1>3, <1>4 DEF Elems
<1>6. Distinct(s) => Distinct(Tail(s)) /\ Head(s) \notin Elems(Tail(s))
  BY <1>1 DEF Elems, Distinct
<1>7. QED
  BY Zenon, <1>1, <1>2, <1>3, <1>5, <1>6

\* push() of an id that is not in the array keeps the ids distinct.
LEMMA PushFacts ==
  ASSUME NEW s \in Seq(Jobs), NEW x \in Jobs
  PROVE  /\ Append(s, x) \in Seq(Jobs)
         /\ Len(s) \in Nat
         /\ Len(Append(s, x)) = Len(s) + 1
         /\ Elems(Append(s, x)) = Elems(s) \cup {x}
         /\ Distinct(s) /\ x \notin Elems(s) => Distinct(Append(s, x))
<1>1. /\ Len(s) \in Nat
      /\ Append(s, x) \in Seq(Jobs)
      /\ Len(Append(s, x)) = Len(s) + 1
      /\ \A i \in 1..Len(s) : Append(s, x)[i] = s[i]
      /\ Append(s, x)[Len(s) + 1] = x
  OBVIOUS
<1>2. Elems(Append(s, x)) = Elems(s) \cup {x}
  <2>1. Elems(Append(s, x)) \subseteq Elems(s) \cup {x}
    BY <1>1 DEF Elems
  <2>2. Elems(s) \subseteq Elems(Append(s, x))
    BY <1>1 DEF Elems
  <2>3. x \in Elems(Append(s, x))
    BY <1>1 DEF Elems
  <2>4. QED
    BY Zenon, <2>1, <2>2, <2>3
<1>3. Distinct(s) /\ x \notin Elems(s) => Distinct(Append(s, x))
  BY <1>1 DEF Elems, Distinct
<1>4. QED
  BY Zenon, <1>1, <1>2, <1>3

\* What an empty array holds.
LEMMA EmptyFacts == Elems(<<>>) = {} /\ Distinct(<<>>) /\ Len(<<>>) = 0 /\ <<>> \in Seq(Jobs)
  BY DEF Elems, Distinct

\* The delay of a retry is a number of milliseconds.
LEMMA BackoffType ==
  ASSUME NEW n \in 1..10
  PROVE  Backoff(n) \in Nat
<1>1. Pow2[n] \in Nat
  BY DEF Pow2
<1>2. Pow2[n] * BaseDelay \in Nat
  BY <1>1, JobQueueAssumption
<1>3. QED
  BY <1>2, JobQueueAssumption DEF Backoff

-----------------------------------------------------------------------------
(* Steps that leave the queue and the calls in flight alone.               *)

\* The constructor establishes the invariant.
LEMMA InitInv == Init => WorkerInv
<1> SUFFICES ASSUME Init PROVE WorkerInv
  OBVIOUS
<1> USE JobQueueAssumption, WorkerAssumption DEF Init, JobQueueInit
<1>1. TypeOK
  <2>1. 0 \in 0..(MaxRetries + 1)
    OBVIOUS
  <2>2. queue \in Seq(Jobs) /\ retryQueue \in Seq(Jobs)
    BY EmptyFacts
  <2>3. QED
    BY Zenon, <2>1, <2>2 DEF TypeOK, JobQueueTypeOK
<1>2. Placement /\ NoJobLost
  BY EmptyFacts DEF Placement, NoJobLost
<1>3. Attempts
  BY DEF Attempts
<1>4. IsFiniteSet(running) /\ SlotsMatchCalls
  BY FS_EmptySet DEF SlotsMatchCalls
<1>5. PollControl /\ QueueBounded /\ DrainedIsQuiet
  BY EmptyFacts DEF PollControl, QueueBounded, DrainedIsQuiet
<1>6. QED
  BY Zenon, <1>1, <1>2, <1>3, <1>4, <1>5 DEF WorkerInv

\* What the invariant says of the queue survives any step that leaves the queue
\* and the calls in flight alone.
LEMMA QueueUntouched ==
  ASSUME WorkerInv, UNCHANGED <<queueVars, running, processingCount>>
  PROVE  /\ JobQueueTypeOK'
         /\ Placement' /\ Attempts' /\ NoJobLost' /\ QueueBounded'
         /\ IsFiniteSet(running)' /\ SlotsMatchCalls'
<1> USE DEF WorkerInv, queueVars
<1>1. JobQueueTypeOK'
  BY DEF TypeOK, JobQueueTypeOK
<1>2. Placement'
  BY DEF Placement, Elems, Distinct
<1>3. Attempts' /\ NoJobLost'
  BY DEF Attempts, NoJobLost, Elems
<1>4. QueueBounded' /\ IsFiniteSet(running)' /\ SlotsMatchCalls'
  BY DEF QueueBounded, SlotsMatchCalls
<1>5. QED
  BY Zenon, <1>1, <1>2, <1>3, <1>4

\* The clock, the timer, start() and stop() preserve the invariant.
LEMMA WorkerStepInv ==
  ASSUME WorkerInv,
         \/ Tick \/ PollTimerFires \/ PollEnds
         \/ Start \/ Stop \/ StopReturns \/ UNCHANGED vars
  PROVE  WorkerInv'
<1>1. UNCHANGED <<queueVars, running, processingCount>>
  BY DEF Tick, PollTimerFires, PollEnds, Start, Stop, StopReturns, vars, workerVars
<1>2. /\ JobQueueTypeOK'
      /\ Placement' /\ Attempts' /\ NoJobLost' /\ QueueBounded'
      /\ IsFiniteSet(running)' /\ SlotsMatchCalls'
  BY Zenon, <1>1, QueueUntouched
<1>3. TypeOK /\ PollControl /\ DrainedIsQuiet /\ SlotsMatchCalls /\ IsFiniteSet(running)
  BY DEF WorkerInv
<1>4. processingCount = 0 => running = {}
  BY Zenon, <1>3, FS_EmptySet DEF SlotsMatchCalls
<1>5. TypeOK' /\ PollControl' /\ DrainedIsQuiet'
  <2> USE <1>3 DEF TypeOK, PollControl, DrainedIsQuiet
  <2>1. CASE Tick
    BY <1>1, <1>2, <2>1 DEF Tick, ClockTick, workerVars
  <2>2. CASE PollTimerFires
    <3>1. isRunning /\ timers = 1 /\ loop = "idle"
      BY <2>2 DEF PollTimerFires
    <3>2. PollLoop(processingCount, 0)
      BY <2>2, <3>1 DEF PollTimerFires
    <3>3. QED
      BY <1>1, <1>2, <2>2, <3>1, <3>2 DEF PollTimerFires, PollLoop
  <2>3. CASE PollEnds
    BY <1>1, <1>2, <2>3 DEF PollEnds
  <2>4. CASE Start
    <3>1. timers = 0 /\ loop = "idle" /\ pollTimer = "null" /\ isRunning' = TRUE
      BY <2>4 DEF Start
    <3>2. PollLoop(processingCount, 0)
      BY Zenon, <2>4, <3>1 DEF Start
    <3>3. QED
      BY <1>1, <1>2, <2>4, <3>1, <3>2 DEF Start, PollLoop
  <2>5. CASE Stop
    <3>1. timers' = 0
      BY <2>5 DEF Stop
    <3>2. isRunning' \in BOOLEAN /\ ~isRunning'
      BY Zenon, <2>5 DEF Stop
    <3>3. QED
      BY <1>1, <1>2, <2>5, <3>1, <3>2 DEF Stop
  <2>6. CASE StopReturns
    BY <1>1, <1>2, <1>4, <2>6 DEF StopReturns
  <2>7. CASE UNCHANGED vars
    BY Zenon, <1>1, <1>2, <2>7 DEF vars, workerVars
  <2>8. QED
    BY Zenon, <2>1, <2>2, <2>3, <2>4, <2>5, <2>6, <2>7
<1>6. QED
  BY <1>2, <1>5 DEF WorkerInv

-----------------------------------------------------------------------------
(* Callers of the queue, and the passes of dequeue() that find no job.     *)

\* What the invariant says of the worker survives a step of the queue alone.
LEMMA WorkerUntouched ==
  ASSUME WorkerInv, JobQueueTypeOK', now' = now,
         UNCHANGED <<isRunning, processingCount, running, timers, pollTimer, stop>>,
         loop' = loop \/ (loop = "retry" /\ loop' = "main")
  PROVE  /\ TypeOK' /\ PollControl' /\ DrainedIsQuiet'
         /\ IsFiniteSet(running)' /\ SlotsMatchCalls'
<1>1. TypeOK'
  BY DEF WorkerInv, TypeOK
<1>2. PollControl' /\ DrainedIsQuiet'
  BY DEF WorkerInv, TypeOK, PollControl, DrainedIsQuiet
<1>3. IsFiniteSet(running)' /\ SlotsMatchCalls'
  BY DEF WorkerInv, SlotsMatchCalls
<1>4. QED
  BY <1>1, <1>2, <1>3

\* A push of a new id, which is in no array, preserves the invariant, also when ids
\* leave the Map in the same step.
LEMMA PushInv ==
  ASSUME WorkerInv, NEW j \in Jobs, NEW d \in Delays, status[j] = "unused", HasRoom,
         live' \subseteq live \cup {j}, status' = [status EXCEPT ![j] = "pending"],
         delayMs' = [delayMs EXCEPT ![j] = d], queue' = Append(queue, j),
         UNCHANGED <<attempts, retryQueue, now, workerVars>>
  PROVE  WorkerInv'
<1> USE JobQueueAssumption, WorkerAssumption
<1>1. /\ TypeOK /\ JobQueueTypeOK /\ Placement /\ Attempts /\ NoJobLost
      /\ QueueBounded /\ SlotsMatchCalls
  BY DEF WorkerInv, TypeOK
<1>2. /\ status[j] = "unused" /\ live' \subseteq live \cup {j}
      /\ status' = [status EXCEPT ![j] = "pending"]
      /\ delayMs' = [delayMs EXCEPT ![j] = d] /\ d \in Nat
      /\ queue' = Append(queue, j)
      /\ UNCHANGED <<attempts, retryQueue>>
      /\ UNCHANGED <<now, workerVars>>
  OBVIOUS
<1>3. /\ queue \in Seq(Jobs) /\ status \in [Jobs -> JOB_STATUS \cup {"unused"}]
      /\ live \subseteq Jobs
  BY Zenon, <1>1 DEF JobQueueTypeOK
<1>4. /\ queue' \in Seq(Jobs) /\ Len(queue) \in Nat /\ Len(queue') = Len(queue) + 1
      /\ Elems(queue') = Elems(queue) \cup {j}
      /\ Distinct(queue) /\ j \notin Elems(queue) => Distinct(queue')
  BY <1>2, <1>3, PushFacts
<1>5. JobQueueTypeOK'
  BY Zenon, <1>1, <1>2, <1>4 DEF JobQueueTypeOK, JOB_STATUS
<1>6. Placement'
  <2>1. j \notin Elems(queue) /\ j \notin Elems(retryQueue) /\ \A c \in running : c[1] # j
    BY Zenon, <1>1, <1>2 DEF Placement
  <2>2. \A c \in running : c[1] \in Jobs
    BY <1>1 DEF TypeOK, Calls
  <2>3. Distinct(queue') /\ Distinct(retryQueue')
    BY Zenon, <1>1, <1>2, <1>4, <2>1 DEF Placement
  <2>4. \A i \in Elems(queue') : status'[i] = "pending"
    BY <1>1, <1>2, <1>3, <1>4 DEF Placement
  <2>5. \A i \in Elems(retryQueue') : status'[i] = "retrying"
    BY <1>1, <1>2, <1>3, <2>1 DEF Placement
  <2>6. \A c \in running' : status'[c[1]] = "processing" /\ attempts'[c[1]] = c[2]
    BY Zenon, <1>1, <1>2, <1>3, <2>1, <2>2 DEF Placement, workerVars
  <2>7. QED
    BY Zenon, <2>3, <2>4, <2>5, <2>6 DEF Placement
<1>7. Attempts'
  BY <1>1, <1>2, <1>3 DEF Attempts
<1>8. NoJobLost'
  BY ZenonT(60), <1>1, <1>2, <1>3, <1>4 DEF NoJobLost, workerVars
<1>9. QueueBounded'
  <2>1. Len(retryQueue) \in Nat /\ processingCount \in Nat
    BY <1>1 DEF TypeOK, JobQueueTypeOK
  <2>2. retryQueue' = retryQueue /\ processingCount' = processingCount
    BY Zenon, <1>2 DEF workerVars
  <2>3. processingCount <= MaxConcurrency /\ Len(queue) + Len(retryQueue) < MaxQueueSize
    BY Zenon, <1>1 DEF SlotsMatchCalls, HasRoom
  <2>4. Len(queue) + 1 + Len(retryQueue) + processingCount <= MaxQueueSize + MaxConcurrency
    BY <1>4, <2>1, <2>3
  <2>5. QED
    BY Zenon, <1>4, <2>2, <2>4 DEF QueueBounded
<1>10. /\ TypeOK' /\ PollControl' /\ DrainedIsQuiet'
       /\ IsFiniteSet(running)' /\ SlotsMatchCalls'
  <2>1. now' = now /\ loop' = loop
    BY <1>2 DEF workerVars
  <2>2. UNCHANGED <<isRunning, processingCount, running, timers, pollTimer, stop>>
    BY <1>2 DEF workerVars
  <2>3. QED
    BY Zenon, <2>1, <2>2, <1>5, WorkerUntouched
<1>11. QED
  BY Zenon, <1>6, <1>7, <1>8, <1>9, <1>10 DEF WorkerInv

\* enqueue() preserves the invariant.
LEMMA EnqueueInv ==
  ASSUME WorkerInv, NEW j \in Jobs, NEW d \in Delays, Enqueue(j, d)
  PROVE  WorkerInv'
  BY Zenon, PushInv DEF Enqueue, enqueue

\* cancel() and clear() preserve the invariant: they take ids out of the Map,
\* and clear() out of the arrays, and leave the calls in flight alone.
LEMMA CancelClearInv ==
  ASSUME WorkerInv, Clear \/ \E j \in Jobs : Cancel(j)
  PROVE  WorkerInv'
<1>1. /\ TypeOK /\ JobQueueTypeOK /\ Placement /\ Attempts /\ NoJobLost
      /\ QueueBounded /\ SlotsMatchCalls
  BY DEF WorkerInv, TypeOK
<1>2. /\ live' \subseteq live
      /\ \/ UNCHANGED <<queue, retryQueue>>
         \/ queue' = <<>> /\ retryQueue' = <<>> /\ live' = {}
      /\ UNCHANGED <<status, attempts, delayMs, now, workerVars>>
  BY DEF Clear, clear, Cancel, cancel
<1>3. JobQueueTypeOK'
  BY Zenon, <1>1, <1>2, EmptyFacts DEF JobQueueTypeOK
<1>4. Placement'
  <2>1. CASE UNCHANGED <<queue, retryQueue>>
    BY <1>1, <1>2, <2>1 DEF Placement, workerVars, Elems, Distinct
  <2>2. CASE queue' = <<>> /\ retryQueue' = <<>>
    BY Zenon, <1>1, <1>2, <2>2, EmptyFacts DEF Placement, workerVars
  <2>3. QED
    BY <1>2, <2>1, <2>2
<1>5. Attempts'
  BY <1>1, <1>2 DEF Attempts
<1>6. NoJobLost'
  BY <1>1, <1>2 DEF NoJobLost, workerVars, Elems
<1>7. QueueBounded'
  <2>1. Len(queue) \in Nat /\ Len(retryQueue) \in Nat /\ processingCount \in Nat
    BY <1>1 DEF TypeOK, JobQueueTypeOK
  <2>2. processingCount' = processingCount /\ processingCount <= MaxConcurrency
    BY Zenon, <1>1, <1>2 DEF SlotsMatchCalls, workerVars
  <2>3. 0 + 0 + processingCount <= MaxQueueSize + MaxConcurrency
    BY <2>1, <2>2, JobQueueAssumption, WorkerAssumption
  <2>4. QED
    BY Zenon, <1>1, <1>2, <2>2, <2>3, EmptyFacts DEF QueueBounded
<1>8. /\ TypeOK' /\ PollControl' /\ DrainedIsQuiet'
      /\ IsFiniteSet(running)' /\ SlotsMatchCalls'
  <2>1. now' = now /\ loop' = loop
    BY <1>2 DEF workerVars
  <2>2. UNCHANGED <<isRunning, processingCount, running, timers, pollTimer, stop>>
    BY <1>2 DEF workerVars
  <2>3. QED
    BY Zenon, <2>1, <2>2, <1>3, WorkerUntouched
<1>9. QED
  BY Zenon, <1>4, <1>5, <1>6, <1>7, <1>8 DEF WorkerInv

\* An id that is not due goes to the back: the same ids, in another order.
LEMMA RotateFacts ==
  ASSUME NEW s \in Seq(Jobs), s # <<>>, Distinct(s)
  PROVE  /\ Append(Tail(s), Head(s)) \in Seq(Jobs)
         /\ Len(Append(Tail(s), Head(s))) = Len(s)
         /\ Elems(Append(Tail(s), Head(s))) = Elems(s)
         /\ Distinct(Append(Tail(s), Head(s)))
<1>1. /\ Head(s) \in Jobs /\ Tail(s) \in Seq(Jobs) /\ Len(s) \in Nat
      /\ Len(Tail(s)) = Len(s) - 1
      /\ Elems(s) = Elems(Tail(s)) \cup {Head(s)}
      /\ Distinct(Tail(s)) /\ Head(s) \notin Elems(Tail(s))
  BY ShiftFacts
<1> DEFINE t == Tail(s)
           x == Head(s)
<1>2. /\ Append(t, x) \in Seq(Jobs) /\ Len(Append(t, x)) = Len(t) + 1
      /\ Elems(Append(t, x)) = Elems(t) \cup {x}
      /\ Distinct(Append(t, x))
  <2> HIDE DEF t, x
  <2>1. t \in Seq(Jobs) /\ x \in Jobs /\ Distinct(t) /\ x \notin Elems(t)
    BY <1>1 DEF t, x
  <2>2. QED
    BY <2>1, PushFacts
<1>3. QED
  BY <1>1, <1>2

\* The pass of dequeue() over the retry queue that finds no job preserves the
\* invariant: the head is a deleted job, or it goes to the back.
LEMMA PollPassesRetryInv ==
  ASSUME WorkerInv, PollPassesRetry
  PROVE  WorkerInv'
<1>1. /\ TypeOK /\ JobQueueTypeOK /\ Placement /\ Attempts /\ NoJobLost
      /\ QueueBounded
  BY DEF WorkerInv, TypeOK
<1>2. /\ UNCHANGED <<live, status, attempts, delayMs, queue>>
      /\ UNCHANGED <<now, isRunning, processingCount, running, timers, pollTimer, stop>>
      /\ loop = "retry" /\ loop' = "main"
  BY DEF PollPassesRetry, PassRetry
<1>3. retryQueue \in Seq(Jobs) /\ Distinct(retryQueue)
  BY <1>1 DEF JobQueueTypeOK, Placement
<1>4. /\ retryQueue' \in Seq(Jobs) /\ Distinct(retryQueue')
      /\ Len(retryQueue') \in Nat /\ Len(retryQueue) \in Nat
      /\ Len(retryQueue') <= Len(retryQueue)
      /\ Elems(retryQueue') \subseteq Elems(retryQueue)
      /\ \A j \in live : j \in Elems(retryQueue) => j \in Elems(retryQueue')
  <2>1. CASE retryQueue = <<>>
    BY <2>1, <1>3, EmptyFacts DEF PollPassesRetry, PassRetry
  <2>2. CASE retryQueue # <<>> /\ Head(retryQueue) \in live
    <3>1. retryQueue' = Append(Tail(retryQueue), Head(retryQueue))
      BY <2>2 DEF PollPassesRetry, PassRetry
    <3>2. QED
      BY <1>3, <2>2, <3>1, RotateFacts
  <2>3. CASE retryQueue # <<>> /\ Head(retryQueue) \notin live
    <3>1. retryQueue' = Tail(retryQueue)
      BY <2>3 DEF PollPassesRetry, PassRetry
    <3>2. QED
      BY <1>3, <2>3, <3>1, ShiftFacts
  <2>4. QED
    BY Zenon, <2>1, <2>2, <2>3
<1>5. JobQueueTypeOK'
  BY <1>1, <1>2, <1>4 DEF JobQueueTypeOK
<1>6. Placement'
  BY Zenon, <1>1, <1>2, <1>4 DEF Placement
<1>7. Attempts'
  BY <1>1, <1>2 DEF Attempts
<1>8. NoJobLost'
  BY Zenon, <1>1, <1>2, <1>4 DEF NoJobLost
<1>9. QueueBounded'
  <2>1. Len(queue) \in Nat /\ processingCount \in Nat
    BY <1>1 DEF TypeOK, JobQueueTypeOK
  <2>2. QED
    BY <1>1, <1>2, <1>4, <2>1, JobQueueAssumption, WorkerAssumption DEF QueueBounded
<1>10. /\ TypeOK' /\ PollControl' /\ DrainedIsQuiet'
       /\ IsFiniteSet(running)' /\ SlotsMatchCalls'
  BY <1>2, <1>5, WorkerUntouched
<1>11. QED
  BY Zenon, <1>6, <1>7, <1>8, <1>9, <1>10 DEF WorkerInv

\* One iteration over the main queue that finds no job preserves the invariant.
\* The code drops a job of the Map that is not due when its delayMs is 0; no
\* such job exists, because ids in the main queue are of pending jobs.
LEMMA PollPassesMainInv ==
  ASSUME WorkerInv, PollPassesMain
  PROVE  WorkerInv'
<1>1. /\ TypeOK /\ JobQueueTypeOK /\ Placement /\ Attempts /\ NoJobLost
      /\ QueueBounded
  BY DEF WorkerInv, TypeOK
<1>2. /\ UNCHANGED <<live, status, attempts, delayMs, retryQueue>>
      /\ now' = now /\ loop' = loop
      /\ UNCHANGED <<isRunning, processingCount, running, timers, pollTimer, stop>>
      /\ queue # <<>>
  BY DEF PollPassesMain, PassMain, workerVars
<1>3. queue \in Seq(Jobs) /\ Distinct(queue)
  BY <1>1 DEF JobQueueTypeOK, Placement
<1>4. Head(queue) \in live => delayMs[Head(queue)] > 0
  <2>1. Head(queue) \in Jobs /\ status[Head(queue)] = "pending"
    BY Zenon, <1>1, <1>2, <1>3, ShiftFacts DEF Placement
  <2>2. now \in Nat /\ delayMs[Head(queue)] \in Nat
    BY <1>1, <2>1 DEF TypeOK, JobQueueTypeOK
  <2>3. QED
    BY <1>2, <2>1, <2>2 DEF PollPassesMain, PassMain, MainHeadReady, isReadyToProcess
<1>5. /\ queue' \in Seq(Jobs) /\ Distinct(queue')
      /\ Len(queue') \in Nat /\ Len(queue) \in Nat
      /\ Len(queue') <= Len(queue)
      /\ Elems(queue') \subseteq Elems(queue)
      /\ \A j \in live : j \in Elems(queue) => j \in Elems(queue')
  <2>1. CASE Head(queue) \in live
    <3>1. queue' = Append(Tail(queue), Head(queue))
      BY <2>1, <1>4 DEF PollPassesMain, PassMain
    <3>2. QED
      BY <1>2, <1>3, <3>1, RotateFacts
  <2>2. CASE Head(queue) \notin live
    <3>1. queue' = Tail(queue)
      BY <2>2 DEF PollPassesMain, PassMain
    <3>2. QED
      BY <1>2, <1>3, <2>2, <3>1, ShiftFacts
  <2>3. QED
    BY <2>1, <2>2
<1>6. JobQueueTypeOK'
  BY Zenon, <1>1, <1>2, <1>5 DEF JobQueueTypeOK
<1>7. Placement'
  BY Zenon, <1>1, <1>2, <1>5 DEF Placement
<1>8. Attempts'
  BY Zenon, <1>1, <1>2 DEF Attempts
<1>9. NoJobLost'
  BY Zenon, <1>1, <1>2, <1>5 DEF NoJobLost
<1>10. QueueBounded'
  <2>1. Len(retryQueue) \in Nat /\ processingCount \in Nat
    BY <1>1 DEF TypeOK, JobQueueTypeOK
  <2>2. QED
    BY <1>1, <1>2, <1>5, <2>1, JobQueueAssumption, WorkerAssumption DEF QueueBounded
<1>11. /\ TypeOK' /\ PollControl' /\ DrainedIsQuiet'
       /\ IsFiniteSet(running)' /\ SlotsMatchCalls'
  BY <1>2, <1>6, WorkerUntouched
<1>12. QED
  BY Zenon, <1>7, <1>8, <1>9, <1>10, <1>11 DEF WorkerInv

-----------------------------------------------------------------------------
(* A job is handed to a handler.                                           *)

\* A waiting job taken out of its array and dispatched preserves the invariant:
\* it has no call in flight, so the new call is new and takes a free slot.
LEMMA TakeInv ==
  ASSUME WorkerInv, NEW j \in live, status[j] \in {"pending", "retrying"},
         loop # "idle", Dispatch(j), StartCall(j),
         queue' \in Seq(Jobs), retryQueue' \in Seq(Jobs),
         Distinct(queue'), Elems(queue') = Elems(queue) \ {j},
         Distinct(retryQueue'), Elems(retryQueue') = Elems(retryQueue) \ {j},
         Len(queue') + Len(retryQueue') = Len(queue) + Len(retryQueue) - 1
  PROVE  WorkerInv'
<1> USE JobQueueAssumption, WorkerAssumption
<1>1. /\ TypeOK /\ JobQueueTypeOK /\ Placement /\ Attempts /\ NoJobLost
      /\ QueueBounded /\ SlotsMatchCalls /\ IsFiniteSet(running) /\ PollControl
  BY DEF WorkerInv, TypeOK
<1>2. /\ status' = [status EXCEPT ![j] = "processing"]
      /\ attempts' = [attempts EXCEPT ![j] = attempts[j] + 1]
      /\ UNCHANGED <<live, delayMs>>
  BY DEF Dispatch
<1>3. /\ running' = running \cup {<<j, attempts[j] + 1>>}
      /\ processingCount' = processingCount + 1
      /\ PollLoop(processingCount + 1, timers)
      /\ UNCHANGED <<now, isRunning, stop>>
  BY DEF StartCall
<1>4. /\ live \subseteq Jobs /\ j \in Jobs
      /\ status \in [Jobs -> JOB_STATUS \cup {"unused"}]
      /\ attempts \in [Jobs -> 0..(MaxRetries + 1)]
  BY Zenon, <1>1 DEF JobQueueTypeOK
<1>5. attempts[j] \in 0..MaxRetries
  BY <1>1, <1>4 DEF Attempts
<1>6. \A c \in running : c[1] # j /\ c[1] \in Jobs
  BY Zenon, <1>1 DEF Placement, TypeOK, Calls
<1>7. JobQueueTypeOK'
  <2>1. status' \in [Jobs -> JOB_STATUS \cup {"unused"}]
    BY Zenon, <1>2, <1>4 DEF JOB_STATUS
  <2>2. attempts' \in [Jobs -> 0..(MaxRetries + 1)]
    BY <1>2, <1>4, <1>5
  <2>3. QED
    BY Zenon, <1>1, <1>2, <2>1, <2>2 DEF JobQueueTypeOK
<1>8. Placement'
  <2>1. \A i \in Elems(queue') : status'[i] = "pending"
    BY <1>1, <1>2, <1>4 DEF Placement
  <2>2. \A i \in Elems(retryQueue') : status'[i] = "retrying"
    BY <1>1, <1>2, <1>4 DEF Placement
  <2>3. ASSUME NEW c \in running'
        PROVE  status'[c[1]] = "processing" /\ attempts'[c[1]] = c[2]
    <3>1. CASE c \in running
      BY Zenon, <1>1, <1>2, <1>4, <1>6, <3>1 DEF Placement
    <3>2. CASE c = <<j, attempts[j] + 1>>
      BY Zenon, <1>2, <1>4, <3>2
    <3>3. QED
      BY Zenon, <1>3, <3>1, <3>2
  <2>4. QED
    BY Zenon, <2>1, <2>2, <2>3 DEF Placement
<1>9. Attempts'
  BY <1>1, <1>2, <1>4, <1>5 DEF Attempts
<1>10. NoJobLost'
  <2> SUFFICES ASSUME NEW i \in live
               PROVE  /\ status'[i] = "pending" => i \in Elems(queue')
                      /\ status'[i] = "retrying" => i \in Elems(retryQueue')
                      /\ status'[i] = "processing" => \E c \in running' : c[1] = i
    BY Zenon, <1>2 DEF NoJobLost
  <2>1. CASE i = j
    <3>1. status'[i] = "processing"
      BY Zenon, <1>2, <1>4, <2>1
    <3>2. <<j, attempts[j] + 1>> \in running' /\ <<j, attempts[j] + 1>>[1] = i
      BY Zenon, <1>3, <2>1
    <3>3. QED
      BY Zenon, <3>1, <3>2
  <2>2. CASE i # j
    <3>1. status'[i] = status[i]
      BY Zenon, <1>2, <1>4, <2>2
    <3>2. QED
      BY Zenon, <1>1, <1>3, <2>2, <3>1 DEF NoJobLost
  <2>3. QED
    BY Zenon, <2>1, <2>2
<1>11. /\ IsFiniteSet(running')
       /\ Cardinality(running') = Cardinality(running) + 1
  <2>1. <<j, attempts[j] + 1>> \notin running
    BY <1>6
  <2>2. QED
    BY Zenon, <1>1, <1>3, <2>1, FS_AddElement
<1>12. SlotsMatchCalls' /\ QueueBounded'
  <2>1. /\ Len(queue) \in Nat /\ Len(retryQueue) \in Nat /\ processingCount \in Nat
        /\ Len(queue') \in Nat /\ Len(retryQueue') \in Nat
    BY <1>1 DEF TypeOK, JobQueueTypeOK
  <2>2. processingCount < MaxConcurrency
    BY <1>1 DEF PollControl
  <2>3. SlotsMatchCalls'
    BY <1>1, <1>3, <1>11, <2>1, <2>2 DEF SlotsMatchCalls
  <2>4. QueueBounded'
    BY <1>1, <1>3, <2>1 DEF QueueBounded
  <2>5. QED
    BY Zenon, <2>3, <2>4
<1>13. running' \subseteq Calls
  BY <1>1, <1>3, <1>4, <1>5 DEF TypeOK, Calls
<1>14. TypeOK' /\ PollControl' /\ DrainedIsQuiet'
  <2>1. isRunning /\ timers = 0 /\ isRunning' = isRunning
    BY Zenon, <1>1, <1>3 DEF PollControl
  <2>2. TypeOK'
    BY <1>1, <1>3, <1>7, <1>13 DEF TypeOK, PollLoop
  <2>3. PollControl' /\ DrainedIsQuiet'
    BY <1>1, <1>3, <2>1, <2>2 DEF PollLoop, PollControl, DrainedIsQuiet, TypeOK
  <2>4. QED
    BY Zenon, <2>2, <2>3
<1>15. QED
  BY Zenon, <1>8, <1>9, <1>10, <1>11, <1>12, <1>14 DEF WorkerInv

\* The job comes from the head of either array.
LEMMA PollTakesInv ==
  ASSUME WorkerInv, PollTakesRetry \/ PollTakesMain
  PROVE  WorkerInv'
<1>1. /\ queue \in Seq(Jobs) /\ retryQueue \in Seq(Jobs) /\ Placement
      /\ Len(queue) \in Nat /\ Len(retryQueue) \in Nat
  BY DEF WorkerInv, TypeOK, JobQueueTypeOK
<1>2. CASE PollTakesRetry
  <2> DEFINE j == Head(retryQueue)
  <2>1. /\ loop # "idle" /\ Dispatch(j) /\ StartCall(j) /\ j \in live
        /\ status[j] \in {"pending", "retrying"}
        /\ retryQueue # <<>> /\ retryQueue' = Tail(retryQueue) /\ queue' = queue
    BY <1>2 DEF PollTakesRetry, DequeueRetry, RetryHeadReady, isReadyToProcess
  <2>2. /\ retryQueue' \in Seq(Jobs) /\ Distinct(retryQueue')
        /\ Elems(retryQueue') = Elems(retryQueue) \ {j}
        /\ Len(retryQueue') = Len(retryQueue) - 1
        /\ status[j] = "retrying"
    BY <1>1, <2>1, ShiftFacts DEF Placement
  <2>3. /\ queue' \in Seq(Jobs) /\ Distinct(queue') /\ Elems(queue') = Elems(queue) \ {j}
        /\ Len(queue') = Len(queue)
    BY Zenon, <1>1, <2>1, <2>2 DEF Placement
  <2>4. Len(queue') + Len(retryQueue') = Len(queue) + Len(retryQueue) - 1
    BY Zenon, <1>1, <2>2, <2>3
  <2> HIDE DEF j
  <2>5. QED
    BY Zenon, <2>1, <2>2, <2>3, <2>4, TakeInv
<1>3. CASE PollTakesMain
  <2> DEFINE j == Head(queue)
  <2>1. /\ loop # "idle" /\ Dispatch(j) /\ StartCall(j) /\ j \in live
        /\ status[j] \in {"pending", "retrying"}
        /\ queue # <<>> /\ queue' = Tail(queue) /\ retryQueue' = retryQueue
    BY <1>3 DEF PollTakesMain, DequeueMain, MainHeadReady, isReadyToProcess
  <2>2. /\ queue' \in Seq(Jobs) /\ Distinct(queue')
        /\ Elems(queue') = Elems(queue) \ {j}
        /\ Len(queue') = Len(queue) - 1
        /\ status[j] = "pending"
    BY <1>1, <2>1, ShiftFacts DEF Placement
  <2>3. /\ retryQueue' \in Seq(Jobs) /\ Distinct(retryQueue')
        /\ Elems(retryQueue') = Elems(retryQueue) \ {j}
        /\ Len(retryQueue') = Len(retryQueue)
    BY Zenon, <1>1, <2>1, <2>2 DEF Placement
  <2>4. Len(queue') + Len(retryQueue') = Len(queue) + Len(retryQueue) - 1
    BY <1>1, <2>2, <2>3
  <2> HIDE DEF j
  <2>5. QED
    BY Zenon, <2>1, <2>2, <2>3, <2>4, TakeInv
<1>4. QED
  BY <1>2, <1>3

-----------------------------------------------------------------------------
(* A handler settles.                                                      *)

\* Whatever ack(), retry() or their errors do to the job of the call, the end of
\* the call preserves the invariant as long as the job is put in its place.
LEMMA CallEndsInv ==
  ASSUME WorkerInv, NEW c \in running, NEW s \in JOB_STATUS,
         loop = "idle", CallReturns(c),
         JobQueueTypeOK', UNCHANGED <<live, attempts, queue>>,
         status' = [status EXCEPT ![c[1]] = s],
         \/ s \in {"completed", "failed"} /\ UNCHANGED retryQueue
         \/ s = "processing" /\ c[1] \notin live /\ UNCHANGED retryQueue
         \/ s = "retrying" /\ retryQueue' = Append(retryQueue, c[1]),
         s = "retrying" => attempts[c[1]] <= MaxRetries,
         s = "failed" => attempts[c[1]] > MaxRetries
  PROVE  WorkerInv'
<1> USE JobQueueAssumption, WorkerAssumption
<1>1. /\ TypeOK /\ JobQueueTypeOK /\ Placement /\ Attempts /\ NoJobLost
      /\ QueueBounded /\ SlotsMatchCalls /\ IsFiniteSet(running) /\ PollControl
      /\ DrainedIsQuiet
  BY Zenon DEF WorkerInv, TypeOK
<1> DEFINE j == c[1]
<1>2. /\ running' = running \ {c} /\ processingCount' = processingCount - 1
      /\ UNCHANGED <<now, isRunning, loop, timers, pollTimer, stop>>
  BY DEF CallReturns
<1>3. /\ j \in Jobs /\ status[j] = "processing" /\ attempts[j] = c[2]
      /\ attempts[j] \in 1..(MaxRetries + 1)
      /\ status \in [Jobs -> JOB_STATUS \cup {"unused"}]
      /\ attempts \in [Jobs -> 0..(MaxRetries + 1)]
      /\ queue \in Seq(Jobs) /\ retryQueue \in Seq(Jobs) /\ live \subseteq Jobs
  BY ZenonT(60), <1>1 DEF TypeOK, JobQueueTypeOK, Calls, Placement, Attempts
<1>4. j \notin Elems(queue) /\ j \notin Elems(retryQueue)
  BY Zenon, <1>1, <1>3 DEF Placement
<1>5. ASSUME NEW e \in running'
      PROVE  e \in running /\ e[1] \in Jobs /\ e[1] # j
  <2>1. e \in running /\ e # c
    BY Zenon, <1>2
  <2>2. e \in Calls /\ c \in Calls
    BY Zenon, <1>1, <2>1 DEF TypeOK
  <2>3. attempts[e[1]] = e[2] /\ attempts[c[1]] = c[2]
    BY Zenon, <1>1, <2>1 DEF Placement
  <2>4. QED
    BY <2>1, <2>2, <2>3 DEF Calls
<1>6. /\ Len(queue) \in Nat /\ Len(retryQueue) \in Nat /\ processingCount \in Nat
      /\ Len(retryQueue') \in Nat
      /\ Distinct(retryQueue')
      /\ s = "retrying" => /\ Elems(retryQueue') = Elems(retryQueue) \cup {j}
                           /\ Len(retryQueue') = Len(retryQueue) + 1
      /\ s # "retrying" => retryQueue' = retryQueue
  <2>1. Len(queue) \in Nat /\ Len(retryQueue) \in Nat /\ processingCount \in Nat
    BY <1>1, <1>3 DEF TypeOK
  <2>2. s # "retrying" => retryQueue' = retryQueue
    OBVIOUS
  <2>3. s = "retrying" => /\ Len(retryQueue') = Len(retryQueue) + 1
                          /\ Elems(retryQueue') = Elems(retryQueue) \cup {j}
                          /\ Distinct(retryQueue')
    <3>1. Distinct(retryQueue)
      BY Zenon, <1>1 DEF Placement
    <3>2. s = "retrying" => retryQueue' = Append(retryQueue, j)
      OBVIOUS
    <3> HIDE DEF j
    <3>3. QED
      BY ZenonT(60), <1>3, <1>4, <3>1, <3>2, PushFacts
  <2>4. Distinct(retryQueue) /\ Len(retryQueue') \in Nat
    BY <1>1, <2>1, <2>2, <2>3 DEF Placement
  <2>5. Distinct(retryQueue')
    <3>1. CASE s = "retrying"
      BY Zenon, <2>3, <3>1
    <3>2. CASE s # "retrying"
      BY Zenon, <2>2, <2>4, <3>2
    <3>3. QED
      BY Zenon, <3>1, <3>2
  <2>6. QED
    BY Zenon, <2>1, <2>2, <2>3, <2>4, <2>5
<1> HIDE DEF j
<1>7. Placement'
  <2>1. /\ \A i \in Jobs : i # j => status'[i] = status[i]
        /\ status'[j] = s
    BY Zenon, <1>3 DEF j
  <2>2. Distinct(queue') /\ \A i \in Elems(queue') : i \in Elems(queue) /\ i \in Jobs
    BY <1>1, <1>3 DEF Placement, Elems
  <2>3. \A i \in Elems(retryQueue) : i \in Jobs
    BY <1>3 DEF Elems
  <2>4. \A i \in Elems(queue') : status'[i] = "pending"
    BY ZenonT(60), <1>1, <1>4, <2>1, <2>2 DEF Placement
  <2>5. \A i \in Elems(retryQueue') : status'[i] = "retrying"
    BY <1>1, <1>4, <1>6, <2>1, <2>3 DEF Placement
  <2>6. \A e \in running' : status'[e[1]] = "processing" /\ attempts'[e[1]] = e[2]
    BY Zenon, <1>1, <1>5, <2>1 DEF Placement
  <2>7. QED
    BY Zenon, <1>6, <2>2, <2>4, <2>5, <2>6 DEF Placement
<1>8. Attempts'
  <2>1. \A i \in Jobs : i # j => status'[i] = status[i]
    BY Zenon, <1>3 DEF j
  <2>2. status'[j] = s /\ attempts'[j] = attempts[j]
    BY Zenon, <1>3 DEF j
  <2>3. attempts[j] \in 1..(MaxRetries + 1) /\ attempts' = attempts
    BY <1>3
  <2>4. s = "retrying" => attempts[j] \in 1..MaxRetries
    BY <2>3 DEF j
  <2>5. s = "failed" => attempts[j] = MaxRetries + 1
    BY <2>3 DEF j
  <2>6. s \in {"processing", "completed", "failed", "retrying"}
    OBVIOUS
  <2>7. QED
    BY ZenonT(60), <1>1, <2>1, <2>2, <2>3, <2>4, <2>5, <2>6 DEF Attempts
<1>9. NoJobLost'
  <2> SUFFICES ASSUME NEW i \in live
               PROVE  /\ status'[i] = "pending" => i \in Elems(queue')
                      /\ status'[i] = "retrying" => i \in Elems(retryQueue')
                      /\ status'[i] = "processing" => \E e \in running' : e[1] = i
    BY DEF NoJobLost
  <2>1. CASE i = j
    BY Zenon, <1>3, <1>6, <2>1 DEF j
  <2>2. CASE i # j
    <3>1. status'[i] = status[i]
      BY <1>3, <2>2 DEF j
    <3>2. \A e \in running : e[1] = i => e \in running'
      BY Zenon, <1>2, <2>2 DEF j
    <3>3. QED
      BY Zenon, <1>1, <1>6, <3>1, <3>2 DEF NoJobLost
  <2>3. QED
    BY Zenon, <2>1, <2>2
<1>10. /\ IsFiniteSet(running')
       /\ Cardinality(running') = Cardinality(running) - 1
       /\ Cardinality(running) \in Nat /\ Cardinality(running') \in Nat
  BY Zenon, <1>1, <1>2, FS_RemoveElement, FS_CardinalityType
<1>11. SlotsMatchCalls'
  BY <1>1, <1>2, <1>6, <1>10 DEF SlotsMatchCalls
<1>12. QueueBounded'
  BY <1>1, <1>2, <1>6 DEF QueueBounded
<1>13. TypeOK'
  <2>1. processingCount' \in Nat
    BY Zenon, <1>10, <1>11 DEF SlotsMatchCalls
  <2>2. running' \subseteq Calls
    BY Zenon, <1>1, <1>2 DEF TypeOK
  <2>3. QED
    BY Zenon, <1>1, <1>2, <2>1, <2>2 DEF TypeOK
<1>14. PollControl' /\ DrainedIsQuiet'
  BY Zenon, <1>1, <1>2 DEF PollControl, DrainedIsQuiet, TypeOK
<1>15. QED
  BY Zenon, <1>7, <1>8, <1>9, <1>10, <1>11, <1>12, <1>13, <1>14 DEF WorkerInv

\* A handler that resolves or throws preserves the invariant: its job is live
\* and completed, retried or failed, or it was deleted and stays as it is.
LEMMA HandlerInv ==
  ASSUME WorkerInv, NEW c \in Calls, HandlerSettles(c)
  PROVE  WorkerInv'
<1> USE JobQueueAssumption
<1>1. /\ c \in running /\ loop = "idle" /\ CallReturns(c)
      /\ \/ ack(c[1])
         \/ retry(c[1])
         \/ c[1] \notin live /\ UNCHANGED queueVars
  BY DEF HandlerSettles, HandlerResolves, HandlerThrows, RetryOrThrow
<1>2. JobQueueTypeOK /\ TypeOK /\ Placement /\ Attempts
  BY DEF WorkerInv, TypeOK
<1>3. /\ c[1] \in Jobs /\ status[c[1]] = "processing"
      /\ attempts[c[1]] \in 1..(MaxRetries + 1)
  BY Zenon, <1>1, <1>2 DEF Calls, Placement, Attempts
<1>4. CASE ack(c[1])
  <2>1. /\ status' = [status EXCEPT ![c[1]] = "completed"]
        /\ UNCHANGED <<live, attempts, delayMs, queue, retryQueue>>
        /\ "completed" \in JOB_STATUS
    BY <1>4 DEF ack, JOB_STATUS
  <2>2. JobQueueTypeOK'
    BY Zenon, <1>2, <1>3, <2>1 DEF JobQueueTypeOK
  <2>3. QED
    BY Zenon, <1>1, <2>1, <2>2, CallEndsInv
<1>5. CASE c[1] \notin live /\ UNCHANGED queueVars
  <2>1. /\ status' = [status EXCEPT ![c[1]] = "processing"]
        /\ UNCHANGED <<live, attempts, delayMs, queue, retryQueue>>
        /\ "processing" \in JOB_STATUS
    BY Zenon, <1>2, <1>3, <1>5 DEF queueVars, JOB_STATUS, JobQueueTypeOK
  <2>2. JobQueueTypeOK'
    BY Zenon, <1>2, <1>3, <2>1 DEF JobQueueTypeOK
  <2>3. QED
    BY Zenon, <1>1, <1>5, <2>1, <2>2, CallEndsInv
<1>6. CASE retry(c[1]) /\ attempts[c[1]] <= MaxRetries
  <2>1. /\ status' = [status EXCEPT ![c[1]] = "retrying"]
        /\ delayMs' = [delayMs EXCEPT ![c[1]] = now + Backoff(attempts[c[1]])]
        /\ retryQueue' = Append(retryQueue, c[1])
        /\ UNCHANGED <<live, attempts, queue>>
        /\ "retrying" \in JOB_STATUS
    BY <1>6 DEF retry, JOB_STATUS
  <2>2. now + Backoff(attempts[c[1]]) \in Nat
    <3>1. attempts[c[1]] \in 1..10
      BY <1>3, <1>6
    <3>2. Backoff(attempts[c[1]]) \in Nat
      BY Zenon, <3>1, BackoffType
    <3>3. QED
      BY <1>2, <3>2 DEF TypeOK
  <2>3. JobQueueTypeOK'
    BY <1>2, <1>3, <2>1, <2>2 DEF JobQueueTypeOK
  <2>4. QED
    BY Zenon, <1>1, <1>6, <2>1, <2>3, CallEndsInv
<1>7. CASE retry(c[1]) /\ ~(attempts[c[1]] <= MaxRetries)
  <2>1. /\ status' = [status EXCEPT ![c[1]] = "failed"]
        /\ UNCHANGED <<live, attempts, delayMs, queue, retryQueue>>
        /\ "failed" \in JOB_STATUS
    BY <1>7 DEF retry, JOB_STATUS
  <2>2. attempts[c[1]] > MaxRetries
    BY <1>3, <1>7
  <2>3. JobQueueTypeOK'
    BY Zenon, <1>2, <1>3, <2>1 DEF JobQueueTypeOK
  <2>4. QED
    BY Zenon, <1>1, <2>1, <2>2, <2>3, CallEndsInv
<1>8. QED
  BY Zenon, <1>1, <1>4, <1>5, <1>6, <1>7

-----------------------------------------------------------------------------
(* The invariant and what follows from it.                                 *)

\* Every step of the queue, the worker and its callers keeps the invariant.
LEMMA NextInv == WorkerInv /\ [Next]_vars => WorkerInv'
<1> SUFFICES ASSUME WorkerInv, [Next]_vars PROVE WorkerInv'
  OBVIOUS
<1>1. CASE \E j \in Jobs, d \in Delays : Enqueue(j, d)
  BY Zenon, <1>1, EnqueueInv
<1>2. CASE Clear \/ \E j \in Jobs : Cancel(j)
  BY <1>2, CancelClearInv
<1>3. CASE \E c \in Calls : HandlerSettles(c)
  BY <1>3, HandlerInv
<1>4. CASE PollTakesRetry \/ PollTakesMain
  BY <1>4, PollTakesInv
<1>5. CASE PollPassesRetry
  BY <1>5, PollPassesRetryInv
<1>6. CASE PollPassesMain
  BY <1>6, PollPassesMainInv
<1>7. CASE \/ Tick \/ PollTimerFires \/ PollEnds
           \/ Start \/ Stop \/ StopReturns \/ UNCHANGED vars
  BY <1>7, WorkerStepInv
<1>8. QED
  BY Zenon, <1>1, <1>2, <1>3, <1>4, <1>5, <1>6, <1>7 DEF Next, PollStep

\* The invariant holds in every state the worker can reach.
THEOREM WorkerInvariant == Spec => []WorkerInv
<1>1. Init => WorkerInv
  BY InitInv
<1>2. WorkerInv /\ [Next]_vars => WorkerInv'
  BY NextInv
<1>3. QED
  BY <1>1, <1>2, PTL DEF Spec

\* TypeOK: every variable of the queue and the worker keeps its type.
THEOREM TypeCorrect == Spec => []TypeOK
<1>1. WorkerInv => TypeOK
  BY DEF WorkerInv
<1>2. QED
  BY <1>1, WorkerInvariant, PTL

\* processingCount is the number of calls of _processJob in flight, and at most
\* maxConcurrency, for any number of jobs and any limits.
THEOREM SlotsCorrect == Spec => []SlotsMatchCalls
<1>1. WorkerInv => SlotsMatchCalls
  BY DEF WorkerInv
<1>2. QED
  BY <1>1, WorkerInvariant, PTL

\* No job is in two places, so none is handled twice at the same time.
THEOREM OnePlace == Spec => []JobInOnePlace
<1>1. WorkerInv => JobInOnePlace
  <2> SUFFICES ASSUME WorkerInv PROVE JobInOnePlace
    OBVIOUS
  <2>1. Placement /\ running \subseteq Calls
    BY DEF WorkerInv, TypeOK
  <2>2. ASSUME NEW c \in running, NEW e \in running, c[1] = e[1]
        PROVE  c = e
    <3>1. c[2] = attempts[c[1]] /\ e[2] = attempts[e[1]]
      BY <2>1 DEF Placement
    <3>2. QED
      BY <2>1, <2>2, <3>1 DEF Calls
  <2>3. QED
    BY Zenon, <2>1, <2>2 DEF Placement, JobInOnePlace
<1>2. QED
  BY <1>1, WorkerInvariant, PTL

\* No job of the Map is forgotten by the queue and the worker.
THEOREM NothingLost == Spec => []NoJobLost
<1>1. WorkerInv => NoJobLost
  BY DEF WorkerInv
<1>2. QED
  BY <1>1, WorkerInvariant, PTL

\* A job is given up only after maxRetries + 1 attempts.
THEOREM ExhaustedOnly == Spec => []FailedOnlyWhenExhausted
<1>1. WorkerInv => FailedOnlyWhenExhausted
  BY DEF WorkerInv, Attempts, FailedOnlyWhenExhausted
<1>2. QED
  BY <1>1, WorkerInvariant, PTL

\* The arrays stay within maxQueueSize plus the calls that may come back.
THEOREM BoundedQueue == Spec => []QueueBounded
<1>1. WorkerInv => QueueBounded
  BY DEF WorkerInv
<1>2. QED
  BY <1>1, WorkerInvariant, PTL

\* After stop() has drained the worker nothing runs until the next start().
THEOREM QuietAfterDrain == Spec => []DrainedIsQuiet
<1>1. WorkerInv => DrainedIsQuiet
  BY DEF WorkerInv
<1>2. QED
  BY <1>1, WorkerInvariant, PTL

\* Whatever the order of start() and stop(), there is one poll loop.
THEOREM SinglePollLoop == Spec => []OnePollLoop
<1>1. WorkerInv => OnePollLoop
  BY DEF WorkerInv, TypeOK, PollControl, OnePollLoop
<1>2. QED
  BY <1>1, WorkerInvariant, PTL

-----------------------------------------------------------------------------
(* Action properties.                                                      *)

\* The only changes of status: enqueue() of a new job, the dispatch of a waiting
\* job of the Map, and the end of a call.
LEMMA StatusChanges ==
  ASSUME WorkerInv, [Next]_vars, NEW j \in Jobs
  PROVE  \/ status'[j] = status[j]
         \/ status[j] = "unused"
         \/ status[j] \in {"pending", "retrying"} /\ j \in live
         \/ status[j] = "processing"
<1>1. status \in [Jobs -> JOB_STATUS \cup {"unused"}] /\ Placement
  BY DEF WorkerInv, TypeOK, JobQueueTypeOK
<1>2. CASE \E i \in Jobs, d \in Delays : Enqueue(i, d)
  BY <1>1, <1>2 DEF Enqueue, enqueue
<1>3. CASE \E c \in Calls : HandlerSettles(c)
  <2>1. PICK c \in Calls : HandlerSettles(c)
    BY <1>3
  <2>2. c \in running /\ (ack(c[1]) \/ retry(c[1]) \/ UNCHANGED queueVars)
    BY <2>1 DEF HandlerSettles, HandlerResolves, HandlerThrows, RetryOrThrow
  <2>3. status[c[1]] = "processing" /\ c[1] \in Jobs
    BY Zenon, <1>1, <2>2 DEF Placement, Calls
  <2>4. QED
    BY Zenon, <1>1, <2>2, <2>3 DEF ack, retry, queueVars
<1>4. CASE PollTakesRetry
  BY Zenon, <1>1, <1>4 DEF PollTakesRetry, DequeueRetry, RetryHeadReady, Dispatch, isReadyToProcess
<1>5. CASE PollTakesMain
  BY <1>1, <1>5 DEF PollTakesMain, DequeueMain, MainHeadReady, Dispatch, isReadyToProcess
<1>6. CASE \/ Clear \/ \E i \in Jobs : Cancel(i)
           \/ PollPassesRetry \/ PollPassesMain
  BY <1>6 DEF Clear, clear, Cancel, cancel, PollPassesRetry, PassRetry,
       PollPassesMain, PassMain
<1>7. CASE \/ Tick \/ PollTimerFires \/ PollEnds
           \/ Start \/ Stop \/ StopReturns \/ UNCHANGED vars
  BY Zenon, <1>7 DEF Tick, PollTimerFires, PollEnds, Start, Stop, StopReturns, vars, queueVars
<1>8. QED
  BY Zenon, <1>2, <1>3, <1>4, <1>5, <1>6, <1>7 DEF Next, PollStep

\* A finished job stays finished, and a deleted job that waited never starts.
THEOREM FinalStatus == Spec => TerminalIsFinal
<1>1. WorkerInv /\ [Next]_vars =>
        [\A j \in Jobs :
           /\ status[j] \in {"completed", "failed"} => status'[j] = status[j]
           /\ status[j] \in {"pending", "retrying"} /\ j \notin live
                => status'[j] = status[j]]_vars
  BY StatusChanges
<1>2. QED
  BY <1>1, WorkerInvariant, PTL DEF Spec, TerminalIsFinal

\* A job that has not been tried yet still has the delay its caller passed, and
\* the clock never runs back.
DelayInv ==
  /\ now >= Epoch
  /\ \A j \in Jobs : status[j] = "pending" => delayMs[j] \in Delays

\* Every step keeps what callers pass as delays and the clock above the epoch.
LEMMA DelayInvStep ==
  ASSUME WorkerInv, DelayInv, [Next]_vars
  PROVE  DelayInv'
<1>1. now' >= Epoch
  <2>1. now \in Nat /\ Epoch \in Nat /\ now >= Epoch
    BY JobQueueAssumption DEF WorkerInv, TypeOK, DelayInv
  <2>2. now' = now \/ now' = now + 1
    BY Zenon DEF Next, PollStep, vars, Enqueue, Cancel, Clear, Tick, ClockTick, PollTimerFires,
         PollTakesRetry, PollPassesRetry, PollTakesMain, PollPassesMain, PollEnds, StartCall,
         HandlerSettles, HandlerResolves, HandlerThrows, CallReturns, Start, Stop, StopReturns
  <2>3. QED
    BY <2>1, <2>2
<1>2. ASSUME NEW j \in Jobs, status'[j] = "pending"
      PROVE  delayMs'[j] \in Delays
  <2>1. /\ status \in [Jobs -> JOB_STATUS \cup {"unused"}] /\ Placement
        /\ delayMs \in [Jobs -> Nat]
    BY DEF WorkerInv, TypeOK, JobQueueTypeOK
  <2>2. CASE \E i \in Jobs, d \in Delays : Enqueue(i, d)
    BY Zenon, <1>2, <2>1, <2>2 DEF Enqueue, enqueue, DelayInv
  <2>3. CASE \E c \in Calls : HandlerSettles(c)
    <3>1. PICK c \in Calls : HandlerSettles(c)
      BY <2>3
    <3>2. c \in running /\ (ack(c[1]) \/ retry(c[1]) \/ UNCHANGED queueVars)
      BY <3>1 DEF HandlerSettles, HandlerResolves, HandlerThrows, RetryOrThrow
    <3>3. status[c[1]] = "processing" /\ c[1] \in Jobs
      BY <2>1, <3>2 DEF Placement, Calls
    <3>4. QED
      BY Zenon, <1>2, <2>1, <3>2, <3>3 DEF ack, retry, queueVars, DelayInv
  <2>4. CASE PollTakesRetry
    BY Zenon, <1>2, <2>1, <2>4 DEF PollTakesRetry, DequeueRetry, Dispatch, DelayInv
  <2>5. CASE PollTakesMain
    BY Zenon, <1>2, <2>1, <2>5 DEF PollTakesMain, DequeueMain, Dispatch, DelayInv
  <2>6. CASE \/ Clear \/ \E i \in Jobs : Cancel(i)
             \/ PollPassesRetry \/ PollPassesMain
    BY Zenon, <1>2, <2>6 DEF Clear, clear, Cancel, cancel, PollPassesRetry, PassRetry,
         PollPassesMain, PassMain, DelayInv
  <2>7. CASE \/ Tick \/ PollTimerFires \/ PollEnds
             \/ Start \/ Stop \/ StopReturns \/ UNCHANGED vars
    BY Zenon, <1>2, <2>7 DEF Tick, PollTimerFires, PollEnds, Start, Stop, StopReturns, vars,
         queueVars, DelayInv
  <2>8. QED
    BY Zenon, <2>2, <2>3, <2>4, <2>5, <2>6, <2>7 DEF Next, PollStep
<1>3. QED
  BY <1>1, <1>2 DEF DelayInv

\* An iteration of dequeue()'s loop over the main array takes an id off it for good
\* or ends the loop, when delays are durations.
LEMMA PassShortens ==
  ASSUME DelaysAreDurations, WorkerInv, DelayInv, [Next]_vars, ~UNCHANGED vars, loop = "main"
  PROVE  loop' # "main" \/ Len(queue') < Len(queue) \/ now' # now
<1>1. /\ TypeOK /\ Placement /\ queue \in Seq(Jobs) /\ live \subseteq Jobs
      /\ delayMs \in [Jobs -> Nat]
  BY Zenon DEF WorkerInv, TypeOK, JobQueueTypeOK
<1>2. \/ Tick \/ PollTakesMain \/ PollPassesMain \/ PollEnds
  BY DEF Next, PollStep, Enqueue, Cancel, Clear, PollTimerFires,
       PollTakesRetry, PollPassesRetry, HandlerSettles, HandlerResolves, HandlerThrows,
       Start, Stop, StopReturns
<1>3. CASE Tick
  BY <1>1, <1>3 DEF Tick, ClockTick, TypeOK
<1>4. CASE PollTakesMain
  BY <1>4 DEF PollTakesMain, StartCall, PollLoop
<1>5. CASE PollEnds
  BY <1>5 DEF PollEnds
<1>6. CASE PollPassesMain
  <2>1. queue # <<>> /\ ~MainHeadReady
    BY <1>6 DEF PollPassesMain, PassMain
  <2>2. /\ Head(queue) \in Jobs /\ status[Head(queue)] = "pending"
        /\ Len(Tail(queue)) = Len(queue) - 1 /\ Len(queue) \in Nat
    BY Zenon, <1>1, <2>1, ShiftFacts DEF Placement
  <2>3. now >= delayMs[Head(queue)]
    <3>1. /\ delayMs[Head(queue)] \in Delays /\ delayMs[Head(queue)] \in Nat
          /\ now >= Epoch /\ now \in Nat /\ Epoch \in Nat
      BY Zenon, <1>1, <2>2, JobQueueAssumption DEF DelayInv, TypeOK
    <3>2. QED
      BY <3>1 DEF DelaysAreDurations
  <2>4. Head(queue) \notin live
    BY Zenon, <2>1, <2>2, <2>3 DEF MainHeadReady, isReadyToProcess
  <2>5. queue' = Tail(queue)
    BY Zenon, <1>6, <2>4 DEF PollPassesMain, PassMain
  <2>6. QED
    BY <2>2, <2>5
<1>7. QED
  BY Zenon, <1>2, <1>3, <1>4, <1>5, <1>6

\* When callers pass durations, the synchronous loop of dequeue() removes an id
\* at every iteration, so _poll() never waits for the clock with the event loop
\* blocked.
THEOREM DequeueReturns ==
  ASSUME DelaysAreDurations
  PROVE  Spec => DequeueTerminates
<1>1. Init => DelayInv
  BY JobQueueAssumption DEF Init, JobQueueInit, DelayInv
<1>2. WorkerInv /\ DelayInv /\ [Next]_vars => DelayInv'
  BY DelayInvStep
<1>3. WorkerInv /\ DelayInv /\ [Next]_vars =>
        [loop = "main" => loop' # "main" \/ Len(queue') < Len(queue) \/ now' # now]_vars
  BY PassShortens
<1>4. QED
  BY <1>1, <1>2, <1>3, WorkerInvariant, PTL DEF Spec, DequeueTerminates

-----------------------------------------------------------------------------
(* The worker implements JobLifecycle.                                     *)

\* The phase of one job, spelled out case by case.
LEMMA PhaseOf ==
  ASSUME WorkerInv, NEW j \in Jobs
  PROVE  /\ status[j] = "unused" => jobPhase[j] = "new"
         /\ status[j] \in {"pending", "retrying"} /\ j \in live => jobPhase[j] = "waiting"
         /\ status[j] \in {"pending", "retrying"} /\ j \notin live => jobPhase[j] = "dropped"
         /\ status[j] = "processing" /\ j \in live => jobPhase[j] = "running"
         /\ status[j] = "processing" /\ j \notin live /\ (\E c \in running : c[1] = j)
              => jobPhase[j] = "orphan"
         /\ status[j] = "processing" /\ j \notin live /\ ~(\E c \in running : c[1] = j)
              => jobPhase[j] = "dropped"
         /\ status[j] = "completed" => jobPhase[j] = "done"
         /\ status[j] = "failed" => jobPhase[j] = "failed"
  BY Zenon DEF jobPhase, phaseOf

\* A job whose status, Map entry and calls do not change keeps its phase.
LEMMA SamePhase ==
  ASSUME NEW j \in Jobs, status[j] \in JOB_STATUS \cup {"unused"},
         status'[j] = status[j], j \in live' <=> j \in live,
         (\E c \in running' : c[1] = j) <=> (\E c \in running : c[1] = j)
  PROVE  jobPhase'[j] = jobPhase[j]
  BY DEF jobPhase, phaseOf, JOB_STATUS

\* The slots the lifecycle counts are slots of the worker.
LEMMA BusyBound ==
  ASSUME WorkerInv
  PROVE  /\ Cardinality(Lifecycle!Busy) \in Nat
         /\ Cardinality(Lifecycle!Busy) <= processingCount
<1> DEFINE Img == {c[1] : c \in running}
<1>1. IsFiniteSet(running) /\ Cardinality(running) = processingCount
  BY DEF WorkerInv, SlotsMatchCalls
<1>2. IsFiniteSet(Img) /\ Cardinality(Img) <= Cardinality(running)
  <2> DEFINE f == [c \in running |-> c[1]]
  <2>1. f \in Surjection(running, Img)
    BY DEF Surjection
  <2>2. QED
    BY <1>1, <2>1, FS_Surjection
<1>3. Lifecycle!Busy \subseteq Img
  <2> SUFFICES ASSUME NEW j \in Jobs, jobPhase[j] \in {"running", "orphan"}
               PROVE  \E c \in running : c[1] = j
    BY DEF Lifecycle!Busy
  <2>1. status[j] \in JOB_STATUS \cup {"unused"}
    BY DEF WorkerInv, TypeOK, JobQueueTypeOK
  <2>2. status[j] = "processing"
    BY Zenon, <2>1, PhaseOf DEF JOB_STATUS
  <2>3. CASE j \in live
    BY Zenon, <2>2, <2>3 DEF WorkerInv, NoJobLost
  <2>4. CASE j \notin live
    BY Zenon, <2>2, <2>4, PhaseOf
  <2>5. QED
    BY <2>3, <2>4
<1>4. Cardinality(Lifecycle!Busy) <= Cardinality(Img)
  BY Zenon, <1>2, <1>3, FS_Subset
<1>5. QED
  <2>1. /\ Cardinality(Lifecycle!Busy) \in Nat /\ Cardinality(Img) \in Nat
        /\ processingCount \in Nat
    BY Zenon, <1>1, <1>2, <1>3, FS_Subset, FS_CardinalityType
  <2>2. QED
    BY <1>1, <1>2, <1>4, <2>1

\* A step that touches one job changes the phase of that job only.
LEMMA OnePhase ==
  ASSUME WorkerInv, NEW j \in Jobs, NEW p, jobPhase'[j] = p,
         \A i \in Jobs \ {j} :
           /\ status'[i] = status[i]
           /\ i \in live' <=> i \in live
           /\ (\E c \in running' : c[1] = i) <=> (\E c \in running : c[1] = i)
  PROVE  jobPhase' = [jobPhase EXCEPT ![j] = p]
<1>1. ASSUME NEW i \in Jobs, i # j
      PROVE  jobPhase'[i] = jobPhase[i]
  <2>1. status[i] \in JOB_STATUS \cup {"unused"}
    BY DEF WorkerInv, TypeOK, JobQueueTypeOK
  <2>2. QED
    BY Zenon, <1>1, <2>1, SamePhase
<1>2. /\ jobPhase = [i \in Jobs |-> jobPhase[i]]
      /\ jobPhase' = [i \in Jobs |-> jobPhase'[i]]
  BY DEF jobPhase
<1>3. [jobPhase EXCEPT ![j] = p] = [i \in Jobs |-> IF i = j THEN p ELSE jobPhase[i]]
  BY <1>2
<1>4. \A i \in Jobs : jobPhase'[i] = IF i = j THEN p ELSE jobPhase[i]
  BY <1>1
<1>5. QED
  BY Zenon, <1>2, <1>3, <1>4

\* enqueue() is Accept.
LEMMA EnqueueRefines ==
  ASSUME WorkerInv, NEW j \in Jobs, NEW d \in Delays, Enqueue(j, d)
  PROVE  Lifecycle!Accept(j)
<1>1. /\ status \in [Jobs -> JOB_STATUS \cup {"unused"}] /\ live \subseteq Jobs
  BY DEF WorkerInv, TypeOK, JobQueueTypeOK
<1>2. /\ status[j] = "unused" /\ live' = live \cup {j}
      /\ status' = [status EXCEPT ![j] = "pending"]
      /\ running' = running /\ attempts' = attempts
  BY DEF Enqueue, enqueue, workerVars
<1>3. jobPhase[j] = "new"
  BY Zenon, <1>2, PhaseOf
<1>4. jobPhase'[j] = "waiting"
  <2>1. status'[j] = "pending" /\ j \in live'
    BY <1>1, <1>2
  <2>2. QED
    BY <2>1 DEF jobPhase, phaseOf
<1>5. jobPhase' = [jobPhase EXCEPT ![j] = "waiting"]
  BY Zenon, <1>1, <1>2, <1>4, OnePhase
<1>6. QED
  BY Zenon, <1>2, <1>3, <1>5 DEF Lifecycle!Accept

\* cancel() and clear() are Drop.
LEMMA DropRefines ==
  ASSUME WorkerInv, Clear \/ \E j \in Jobs : Cancel(j)
  PROVE  \E S \in SUBSET Jobs : Lifecycle!Drop(S)
<1> DEFINE S == live \ live'
<1>1. /\ status \in [Jobs -> JOB_STATUS \cup {"unused"}] /\ live \subseteq Jobs
      /\ Attempts /\ NoJobLost
  BY DEF WorkerInv, TypeOK, JobQueueTypeOK
<1>2. /\ live' \subseteq live /\ UNCHANGED <<status, attempts, running>>
  BY DEF Clear, clear, Cancel, cancel, workerVars
<1>3. ASSUME NEW j \in Jobs
      PROVE  jobPhase'[j] = IF j \in S THEN Lifecycle!Dropped(jobPhase[j]) ELSE jobPhase[j]
  <2>1. CASE j \notin S
    <3>1. jobPhase'[j] = jobPhase[j]
      BY Zenon, <1>1, <1>2, <2>1, SamePhase
    <3>2. QED
      BY <2>1, <3>1
  <2>2. CASE j \in S
    <3>1. j \in live /\ j \notin live' /\ status[j] # "unused" /\ status' = status
      BY Zenon, <1>1, <1>2, <2>2 DEF Attempts
    <3>2. CASE status[j] \in {"pending", "retrying"}
      <4>1. jobPhase[j] = "waiting"
        BY Zenon, <3>1, <3>2, PhaseOf
      <4>2. jobPhase'[j] = "dropped"
        BY Zenon, <3>1, <3>2 DEF jobPhase, phaseOf
      <4>3. QED
        BY Zenon, <2>2, <4>1, <4>2 DEF Lifecycle!Dropped
    <3>3. CASE status[j] = "processing"
      <4>1. jobPhase[j] = "running"
        BY Zenon, <3>1, <3>3, PhaseOf
      <4>2. \E c \in running' : c[1] = j
        BY Zenon, <1>1, <1>2, <3>1, <3>3 DEF NoJobLost
      <4>3. jobPhase'[j] = "orphan"
        BY Zenon, <3>1, <3>3, <4>2 DEF jobPhase, phaseOf
      <4>4. QED
        BY Zenon, <2>2, <4>1, <4>3 DEF Lifecycle!Dropped
    <3>4. CASE status[j] \in {"completed", "failed"}
      <4>1. jobPhase[j] \in {"done", "failed"}
        BY Zenon, <3>4, PhaseOf
      <4>2. jobPhase'[j] = jobPhase[j]
        BY Zenon, <3>1, <3>4 DEF jobPhase, phaseOf
      <4>3. QED
        BY Zenon, <2>2, <4>1, <4>2 DEF Lifecycle!Dropped
    <3>5. QED
      BY Zenon, <1>1, <3>1, <3>2, <3>3, <3>4 DEF JOB_STATUS
  <2>3. QED
    BY Zenon, <2>1, <2>2
<1>4. jobPhase' = [j \in Jobs |-> jobPhase'[j]]
  BY DEF jobPhase
<1>5. S \in SUBSET Jobs
  BY <1>1
<1> HIDE DEF S
<1>6. jobPhase' = [j \in Jobs |-> IF j \in S THEN Lifecycle!Dropped(jobPhase[j]) ELSE jobPhase[j]]
  BY <1>3, <1>4
<1>7. Lifecycle!Drop(S)
  BY Zenon, <1>2, <1>6 DEF Lifecycle!Drop
<1>8. QED
  BY <1>5, <1>7

\* The dispatch of a job is Begin, in a slot the lifecycle counts as free.
LEMMA BeginRefines ==
  ASSUME WorkerInv, NEW j \in live, status[j] \in {"pending", "retrying"},
         loop # "idle", Dispatch(j), StartCall(j)
  PROVE  Lifecycle!Begin(j)
<1>1. /\ status \in [Jobs -> JOB_STATUS \cup {"unused"}] /\ j \in Jobs
      /\ attempts \in [Jobs -> 0..(MaxRetries + 1)]
      /\ attempts[j] \in 0..MaxRetries
  BY JobQueueAssumption DEF WorkerInv, TypeOK, JobQueueTypeOK, Attempts
<1>2. /\ status' = [status EXCEPT ![j] = "processing"]
      /\ attempts' = [attempts EXCEPT ![j] = attempts[j] + 1]
      /\ running' = running \cup {<<j, attempts[j] + 1>>}
      /\ live' = live
  BY DEF Dispatch, StartCall
<1>3. jobPhase[j] = "waiting"
  BY Zenon, <1>1, PhaseOf
<1>4. jobPhase'[j] = "running"
  <2>1. status'[j] = "processing" /\ j \in live'
    BY <1>1, <1>2
  <2>2. QED
    BY Zenon, <1>1, <2>1 DEF jobPhase, phaseOf
<1>5. jobPhase' = [jobPhase EXCEPT ![j] = "running"]
  <2>1. ASSUME NEW i \in Jobs \ {j}
        PROVE  /\ status'[i] = status[i]
               /\ i \in live' <=> i \in live
               /\ (\E c \in running' : c[1] = i) <=> (\E c \in running : c[1] = i)
    <3>1. <<j, attempts[j] + 1>>[1] # i
      OBVIOUS
    <3>2. QED
      BY Zenon, <1>1, <1>2, <3>1
  <2>2. QED
    BY Zenon, <1>1, <1>4, <2>1, OnePhase
<1>6. Cardinality(Lifecycle!Busy) < MaxConcurrency
  <2>1. processingCount < MaxConcurrency /\ processingCount \in Nat /\ MaxConcurrency \in Nat
    BY Zenon, WorkerAssumption DEF WorkerInv, PollControl, TypeOK
  <2>2. /\ Cardinality(Lifecycle!Busy) \in Nat
        /\ Cardinality(Lifecycle!Busy) <= processingCount
    BY BusyBound
  <2>3. QED
    BY <2>1, <2>2
<1>7. attempts[j] < MaxRetries + 1
  BY <1>1, JobQueueAssumption
<1>8. Lifecycle!Cardinality(Lifecycle!Busy) = Cardinality(Lifecycle!Busy)
  BY DEF Lifecycle!Cardinality, Cardinality
<1>9. QED
  BY Zenon, <1>2, <1>3, <1>5, <1>6, <1>7, <1>8 DEF Lifecycle!Begin

\* The end of a call is Complete, Fail, or the end of an orphan.
LEMMA SettleRefines ==
  ASSUME WorkerInv, NEW c \in Calls, HandlerSettles(c)
  PROVE  \/ Lifecycle!Complete(c[1])
         \/ Lifecycle!Fail(c[1])
         \/ Lifecycle!OrphanEnds(c[1])
<1> DEFINE j == c[1]
<1>1. /\ c \in running /\ running' = running \ {c}
      /\ \/ ack(j)
         \/ retry(j)
         \/ j \notin live /\ UNCHANGED queueVars
  BY DEF HandlerSettles, HandlerResolves, HandlerThrows, RetryOrThrow, CallReturns
<1>2. /\ status \in [Jobs -> JOB_STATUS \cup {"unused"}] /\ j \in Jobs
      /\ attempts \in [Jobs -> 0..(MaxRetries + 1)] /\ Placement /\ running \subseteq Calls
      /\ live \subseteq Jobs
  BY Zenon DEF WorkerInv, TypeOK, JobQueueTypeOK, Calls
<1>3. status[j] = "processing"
  BY Zenon, <1>1, <1>2 DEF Placement
<1>4. \A e \in running : e[1] = j => e = c
  <2>1. \A e \in running : attempts[e[1]] = e[2]
    BY <1>2 DEF Placement
  <2>2. QED
    BY <1>1, <1>2, <2>1 DEF Calls
<1>5. ~(\E e \in running' : e[1] = j)
  BY Zenon, <1>1, <1>4
<1>6. \A i \in Jobs \ {j} :
        (\E e \in running' : e[1] = i) <=> (\E e \in running : e[1] = i)
  BY <1>1
<1> HIDE DEF j
<1>7. CASE ack(j)
  <2>1. /\ status' = [status EXCEPT ![j] = "completed"] /\ live' = live
        /\ attempts' = attempts /\ j \in live
    BY <1>7 DEF ack, CanAck
  <2>2. status'[j] = "completed"
    BY Zenon, <1>2, <2>1
  <2>3. jobPhase'[j] = "done"
    BY Zenon, <1>2, <2>2 DEF jobPhase, phaseOf
  <2>4. jobPhase' = [jobPhase EXCEPT ![j] = "done"]
    BY Zenon, <1>2, <1>6, <2>1, <2>3, OnePhase
  <2>5. jobPhase[j] = "running"
    BY Zenon, <1>2, <1>3, <2>1, PhaseOf
  <2>6. Lifecycle!Complete(j)
    BY Zenon, <2>1, <2>4, <2>5 DEF Lifecycle!Complete
  <2>7. QED
    BY <2>6 DEF j
<1>8. CASE retry(j)
  <2> DEFINE p == IF attempts[j] < MaxRetries + 1 THEN "waiting" ELSE "failed"
             s == IF attempts[j] <= MaxRetries THEN "retrying" ELSE "failed"
  <2>1. /\ status' = [status EXCEPT ![j] = s] /\ live' = live
        /\ attempts' = attempts /\ j \in live
    BY <1>8 DEF retry
  <2>2. attempts[j] <= MaxRetries <=> attempts[j] < MaxRetries + 1
    BY <1>2, JobQueueAssumption
  <2>3. jobPhase'[j] = p
    <3>1. status'[j] = s /\ j \in live'
      BY Zenon, <1>2, <2>1
    <3>2. QED
      BY Zenon, <1>2, <2>2, <3>1 DEF jobPhase, phaseOf
  <2>4. jobPhase' = [jobPhase EXCEPT ![j] = p]
    <3> HIDE DEF p, s
    <3>1. QED
      BY Zenon, <1>2, <1>6, <2>1, <2>3, OnePhase
  <2>5. jobPhase[j] = "running"
    BY Zenon, <1>2, <1>3, <2>1, PhaseOf
  <2>6. Lifecycle!Fail(j)
    BY Zenon, <2>1, <2>4, <2>5 DEF Lifecycle!Fail
  <2>7. QED
    BY <2>6 DEF j
<1>9. CASE j \notin live /\ UNCHANGED queueVars
  <2>1. status' = status /\ live' = live /\ attempts' = attempts
    BY <1>9 DEF queueVars
  <2>2. jobPhase'[j] = "dropped"
    BY Zenon, <1>2, <1>3, <1>5, <1>9, <2>1 DEF jobPhase, phaseOf
  <2>3. jobPhase' = [jobPhase EXCEPT ![j] = "dropped"]
    BY Zenon, <1>2, <1>6, <2>1, <2>2, OnePhase
  <2>4. jobPhase[j] = "orphan"
    <3>1. \E e \in running : e[1] = j
      BY <1>1 DEF j
    <3>2. QED
      BY Zenon, <1>2, <1>3, <1>9, <3>1, PhaseOf
  <2>5. Lifecycle!OrphanEnds(j)
    BY Zenon, <2>1, <2>3, <2>4 DEF Lifecycle!OrphanEnds
  <2>6. QED
    BY <2>5 DEF j
<1>10. QED
  BY Zenon, <1>1, <1>7, <1>8, <1>9

\* The queue and the worker implement the lifecycle of a job: every step is a
\* step of JobLifecycle or leaves it alone.
THEOREM LifecycleImplemented == Spec => ImplementsLifecycle
<1>1. Init => Lifecycle!Init
  <2> SUFFICES ASSUME Init PROVE Lifecycle!Init
    OBVIOUS
  <2>1. /\ status = [j \in Jobs |-> "unused"] /\ attempts = [j \in Jobs |-> 0]
    BY DEF Init, JobQueueInit
  <2>2. \A j \in Jobs : phaseOf(j) = "new"
    BY <2>1 DEF phaseOf
  <2>3. QED
    BY Zenon, <2>1, <2>2 DEF Lifecycle!Init, jobPhase
<1>2. WorkerInv /\ [Next]_vars => [Lifecycle!Next]_(Lifecycle!lifecycleVars)
  <2> SUFFICES ASSUME WorkerInv, [Next]_vars
               PROVE  Lifecycle!Next \/ UNCHANGED Lifecycle!lifecycleVars
    OBVIOUS
  <2>0. live \subseteq Jobs
    BY DEF WorkerInv, TypeOK, JobQueueTypeOK
  <2>1. CASE \E j \in Jobs, d \in Delays : Enqueue(j, d)
    BY <2>1, EnqueueRefines DEF Lifecycle!Next
  <2>2. CASE Clear \/ \E j \in Jobs : Cancel(j)
    BY <2>2, DropRefines DEF Lifecycle!Next
  <2>3. CASE \E c \in Calls : HandlerSettles(c)
    <3>1. PICK c \in Calls : HandlerSettles(c)
      BY <2>3
    <3>2. c[1] \in Jobs
      BY DEF Calls
    <3>3. QED
      BY Zenon, <3>1, <3>2, SettleRefines DEF Lifecycle!Next
  <2>4. CASE PollTakesRetry
    <3> DEFINE j == Head(retryQueue)
    <3>1. /\ loop # "idle" /\ Dispatch(j) /\ StartCall(j) /\ j \in live
          /\ status[j] \in {"pending", "retrying"}
      BY <2>4 DEF PollTakesRetry, DequeueRetry, RetryHeadReady, isReadyToProcess
    <3> HIDE DEF j
    <3>2. Lifecycle!Begin(j) /\ j \in Jobs
      BY Zenon, <2>0, <3>1, BeginRefines
    <3>3. QED
      BY <3>2 DEF Lifecycle!Next
  <2>5. CASE PollTakesMain
    <3> DEFINE j == Head(queue)
    <3>1. /\ loop # "idle" /\ Dispatch(j) /\ StartCall(j) /\ j \in live
          /\ status[j] \in {"pending", "retrying"}
      BY Zenon, <2>5 DEF PollTakesMain, DequeueMain, MainHeadReady, isReadyToProcess
    <3> HIDE DEF j
    <3>2. Lifecycle!Begin(j) /\ j \in Jobs
      BY Zenon, <2>0, <3>1, BeginRefines
    <3>3. QED
      BY <3>2 DEF Lifecycle!Next
  <2>6. CASE \/ Tick \/ PollTimerFires \/ PollEnds \/ PollPassesRetry \/ PollPassesMain
             \/ Start \/ Stop \/ StopReturns \/ UNCHANGED vars
    <3>1. UNCHANGED <<status, live, running, attempts>>
      BY Zenon, <2>6 DEF Tick, PollTimerFires, PollEnds, PollPassesRetry, PassRetry, PollPassesMain,
           PassMain, Start, Stop, StopReturns, vars, queueVars, workerVars
    <3>2. jobPhase' = jobPhase
      BY <3>1 DEF jobPhase, phaseOf
    <3>3. QED
      BY <3>1, <3>2 DEF Lifecycle!lifecycleVars
  <2>7. QED
    BY ZenonT(60), <2>1, <2>2, <2>3, <2>4, <2>5, <2>6 DEF Next, PollStep
<1>3. QED
  BY <1>1, <1>2, WorkerInvariant, PTL DEF Spec, ImplementsLifecycle, Lifecycle!Spec

-----------------------------------------------------------------------------
(* Maturity reminders.                                                     *)

\* An empty queue, no entry in invoiceJobs and no mail under way.
LEMMA ReminderStart == ReminderInit => ReminderInv
<1> SUFFICES ASSUME ReminderInit PROVE ReminderInv
  OBVIOUS
<1>1. WorkerInv
  BY Zenon, InitInv DEF ReminderInit
<1>2. ReminderTypeOK
  BY <1>1, ReminderAssumption DEF ReminderInit, ReminderTypeOK, WorkerInv
<1>3. running = {} /\ \A j \in Jobs : status[j] = "unused"
  BY DEF ReminderInit, Init, JobQueueInit
<1> QED BY <1>1, <1>2, <1>3, ReminderAssumption DEF ReminderInit, ReminderInv, NewestKept

\* The types the steps below start from.
LEMMA ReminderTypes ==
  ASSUME ReminderInv
  PROVE  /\ WorkerInv /\ TypeOK /\ Placement /\ live \subseteq Jobs
         /\ status \in [Jobs -> JOB_STATUS \cup {"unused"}] /\ running \subseteq Calls
         /\ invoiceJobs \in [Invoices -> Jobs \cup {NoJob}] /\ invoiceId \in [Jobs -> Invoices]
         /\ mail \in [Jobs -> {"unsent", "sent", "dead", "recorded", "unrecorded"}]
         /\ sends \in [Jobs -> 0..MaxAttempts] /\ newest \in [Invoices -> Jobs \cup {NoJob}]
         /\ MaxAttempts \in 1..10 /\ NoJob \notin Jobs
  BY Zenon, ReminderAssumption DEF ReminderInv, ReminderTypeOK, WorkerInv, TypeOK, JobQueueTypeOK

\* scheduleReminder(): the job that leaves the Map is the invoice's mapped one.
LEMMA ScheduleStep ==
  ASSUME ReminderInv, NEW j \in Jobs, NEW d \in Delays, ScheduleReminder(j, d)
  PROVE  ReminderInv'
<1> USE ReminderTypes
<1> DEFINE old == invoiceJobs[invoiceId[j]]
<1>1. /\ status[j] = "unused" /\ HasRoom /\ live' = (live \cup {j}) \ {old}
      /\ status' = [status EXCEPT ![j] = "pending"] /\ delayMs' = [delayMs EXCEPT ![j] = d]
      /\ queue' = Append(queue, j) /\ UNCHANGED <<attempts, retryQueue, now, workerVars, invoiceId, mail, sends>>
      /\ invoiceJobs' = [invoiceJobs EXCEPT ![invoiceId[j]] = j]
      /\ newest' = [newest EXCEPT ![invoiceId[j]] = j]
  BY Zenon DEF ScheduleReminder, EnqueueAndReplace
<1>2. WorkerInv'
  <2>1. live' \subseteq live \cup {j}
    BY Zenon, <1>1
  <2> QED BY Zenon, <1>1, <2>1, PushInv
<1>3. ReminderTypeOK'
  <2>1. TypeOK'
    BY Zenon, <1>2 DEF WorkerInv
  <2> QED BY Zenon, <1>1, <2>1 DEF ReminderTypeOK
<1>4. \A i \in Invoices : \A k \in {invoiceJobs[i], newest[i]} \ {NoJob} :
        invoiceId[k] = i /\ status[k] # "unused" /\ k \in Jobs
  BY DEF ReminderInv
<1>5. \A i \in Invoices : \A k \in {invoiceJobs'[i], newest'[i]} \ {NoJob} :
        invoiceId'[k] = i /\ status'[k] # "unused"
  <2> SUFFICES ASSUME NEW i \in Invoices, NEW k \in {invoiceJobs'[i], newest'[i]} \ {NoJob}
               PROVE  invoiceId'[k] = i /\ status'[k] # "unused"
    BY Zenon
  <2>1. CASE i = invoiceId[j]
    <3>1. k = j
      BY Zenon, <1>1, <2>1
    <3> QED BY Zenon, <1>1, <2>1, <3>1
  <2>2. CASE i # invoiceId[j]
    <3>1. k \in {invoiceJobs[i], newest[i]} \ {NoJob}
      BY Zenon, <1>1, <2>2
    <3> QED BY Zenon, <1>1, <1>4, <3>1
  <2> QED BY Zenon, <2>1, <2>2
<1>6. NewestKept'
  <2> SUFFICES ASSUME NEW i \in Invoices, newest'[i] # NoJob PROVE newest'[i] \in live'
    BY Zenon DEF NewestKept
  <2>1. CASE i = invoiceId[j]
    <3>1. newest'[i] = j
      BY Zenon, <1>1, <2>1
    <3>2. old # j
      BY Zenon, <1>1, <1>4
    <3> QED BY Zenon, <1>1, <3>1, <3>2
  <2>2. CASE i # invoiceId[j]
    <3>1. newest'[i] = newest[i] /\ newest[i] \in live
      <4>1. newest[i] # NoJob => newest[i] \in live
        BY Zenon DEF ReminderInv, NewestKept
      <4> QED BY Zenon, <1>1, <2>2, <4>1
    <3>2. invoiceId[newest[i]] = i
      BY Zenon, <1>4, <2>2, <3>1
    <3>3. old # NoJob => invoiceId[old] = invoiceId[j]
      BY Zenon, <1>4
    <3>4. newest[i] # old
      BY Zenon, <2>2, <3>1, <3>2, <3>3
    <3> QED BY Zenon, <1>1, <3>1, <3>4
  <2> QED BY Zenon, <2>1, <2>2
<1>7. \A k \in Jobs : /\ status'[k] # "retrying"
                      /\ mail'[k] = "unsent" => sends'[k] < MaxAttempts
                      /\ mail'[k] # "unsent" => /\ status'[k] \in {"processing", "completed"}
                                                /\ \A c \in running' : c[1] # k
  BY <1>1 DEF ReminderInv, workerVars
<1> QED BY ZenonT(60), <1>2, <1>3, <1>5, <1>6, <1>7 DEF ReminderInv

\* cancelReminder(): only the invoice's own job leaves the Map.
LEMMA CancelStep ==
  ASSUME ReminderInv, NEW i \in Invoices, CancelReminder(i)
  PROVE  ReminderInv'
<1> USE ReminderTypes
<1> DEFINE old == invoiceJobs[i]
<1>1. /\ loop = "idle" /\ old # NoJob /\ invoiceJobs' = [invoiceJobs EXCEPT ![i] = NoJob]
      /\ UNCHANGED <<now, workerVars, invoiceId, mail, sends>>
      /\ \/ old \in live /\ cancel(old) /\ newest' = [newest EXCEPT ![i] = NoJob]
         \/ old \notin live /\ UNCHANGED <<queueVars, newest>>
  BY Zenon DEF CancelReminder
<1>2. WorkerInv'
  <2>1. CASE cancel(old)
    <3>1. Cancel(old) /\ old \in Jobs
      BY Zenon, <1>1, <2>1 DEF Cancel
    <3> QED BY Zenon, <3>1, CancelClearInv
  <2>2. CASE UNCHANGED queueVars
    <3>1. UNCHANGED vars
      BY Zenon, <1>1, <2>2 DEF vars
    <3> QED BY Zenon, <3>1, WorkerStepInv
  <2> QED BY Zenon, <1>1, <2>1, <2>2
<1>3. status' = status /\ running' = running /\ (newest' = newest \/ newest' = [newest EXCEPT ![i] = NoJob])
  BY Zenon, <1>1 DEF cancel, queueVars, workerVars
<1>4. ReminderTypeOK'
  <2>1. TypeOK'
    BY Zenon, <1>2 DEF WorkerInv
  <2> QED BY Zenon, <1>1, <1>3, <2>1 DEF ReminderTypeOK
<1>5. NewestKept'
  <2> SUFFICES ASSUME NEW k \in Invoices, newest'[k] # NoJob PROVE newest'[k] \in live'
    BY Zenon DEF NewestKept
  <2>1. newest'[k] = newest[k] /\ newest[k] \in live
    BY <1>3 DEF ReminderInv, NewestKept
  <2>2. CASE old \in live /\ cancel(old) /\ newest' = [newest EXCEPT ![i] = NoJob]
    <3>1. k # i
      BY Zenon, <2>2
    <3>2. invoiceId[newest[k]] = k /\ invoiceId[old] = i
      BY Zenon, <1>1, <2>1 DEF ReminderInv
    <3> QED BY Zenon, <2>1, <2>2, <3>1, <3>2 DEF cancel
  <2>3. CASE UNCHANGED <<queueVars, newest>>
    BY Zenon, <2>1, <2>3 DEF queueVars
  <2> QED BY Zenon, <1>1, <2>2, <2>3
<1>6. \A k \in Invoices : \A j \in {invoiceJobs'[k], newest'[k]} \ {NoJob} :
        invoiceId'[j] = k /\ status'[j] # "unused"
  <2> SUFFICES ASSUME NEW k \in Invoices, NEW j \in {invoiceJobs'[k], newest'[k]} \ {NoJob}
               PROVE  invoiceId[j] = k /\ status[j] # "unused"
    BY Zenon, <1>1, <1>3
  <2>1. j \in {invoiceJobs[k], newest[k]} \ {NoJob}
    BY Zenon, <1>1, <1>3
  <2> QED BY Zenon, <2>1 DEF ReminderInv
<1>7. \A k \in Jobs : /\ status'[k] # "retrying"
                      /\ mail'[k] = "unsent" => sends'[k] < MaxAttempts
                      /\ mail'[k] # "unsent" => /\ status'[k] \in {"processing", "completed"}
                                                /\ \A c \in running' : c[1] # k
  BY Zenon, <1>1, <1>3 DEF ReminderInv
<1> QED BY ZenonT(60), <1>2, <1>4, <1>5, <1>6, <1>7 DEF ReminderInv

\* A call of the handler ends: its job is acknowledged or was deleted, in either case
\* not retried, and no second call works for it.
LEMMA CallEndStep ==
  ASSUME ReminderInv, NEW c \in Calls, HandlerResolves(c),
         NEW outcome \in {"sent", "dead"}, HandlerEnds(c, outcome),
         sends' = [sends EXCEPT ![c[1]] = @ + 1], UNCHANGED <<invoiceId, newest>>
  PROVE  ReminderInv'
<1> USE ReminderTypes
<1> DEFINE j == c[1]
<1>1. WorkerInv'
  BY Zenon, HandlerInv DEF HandlerSettles
<1>2. /\ c \in running /\ j \in Jobs /\ status[j] = "processing" /\ running' = running \ {c}
      /\ mail' = [mail EXCEPT ![j] = outcome] /\ invoiceJobs' = [invoiceJobs EXCEPT ![invoiceId[j]] = NoJob]
  BY Zenon DEF HandlerResolves, CallReturns, HandlerEnds, Placement, Calls
<1>3. /\ live' = live /\ (status' = status \/ status' = [status EXCEPT ![j] = "completed"])
  <2>1. CASE CanAck(j)
    BY Zenon, <2>1 DEF HandlerResolves, ack
  <2>2. CASE ~ CanAck(j)
    <3>1. j \notin live
      BY Zenon, <1>2, <2>2 DEF CanAck
    <3>2. UNCHANGED queueVars
      BY Zenon, <2>2, <3>1 DEF HandlerResolves, RetryOrThrow, retry
    <3> QED BY Zenon, <3>2 DEF queueVars
  <2> QED BY Zenon, <2>1, <2>2
<1>4. \A e \in running' : e[1] # j
  <2> SUFFICES ASSUME NEW e \in running, e # c, e[1] = j PROVE FALSE
    BY Zenon, <1>2
  <2>1. e[2] = attempts[j] /\ c[2] = attempts[j]
    BY Zenon, <1>2 DEF Placement
  <2>2. e \in Calls /\ c \in Calls
    BY Zenon
  <2> QED BY <2>1, <2>2 DEF Calls
<1>5. mail[j] = "unsent" /\ sends[j] < MaxAttempts /\ sends[j] \in Nat
  BY <1>2 DEF ReminderInv
<1>6. ReminderTypeOK'
  <2>1. TypeOK'
    BY Zenon, <1>1 DEF WorkerInv
  <2>2. sends' \in [Jobs -> 0..MaxAttempts]
    BY <1>2, <1>5
  <2> QED BY Zenon, <1>2, <2>1, <2>2 DEF ReminderTypeOK
<1>7. NewestKept'
  BY Zenon, <1>3 DEF ReminderInv, NewestKept
<1>8. \A i \in Invoices : \A k \in {invoiceJobs'[i], newest'[i]} \ {NoJob} :
        invoiceId'[k] = i /\ status'[k] # "unused"
  <2> SUFFICES ASSUME NEW i \in Invoices, NEW k \in {invoiceJobs'[i], newest'[i]} \ {NoJob}
               PROVE  invoiceId[k] = i /\ status'[k] # "unused"
    OBVIOUS
  <2>1. k \in {invoiceJobs[i], newest[i]} \ {NoJob} /\ k \in Jobs
    BY <1>2
  <2>2. invoiceId[k] = i /\ status[k] # "unused"
    BY Zenon, <2>1 DEF ReminderInv
  <2> QED BY Zenon, <1>2, <1>3, <2>1, <2>2
<1>9. ASSUME NEW k \in Jobs
      PROVE  /\ status'[k] # "retrying"
             /\ mail'[k] = "unsent" => sends'[k] < MaxAttempts
             /\ mail'[k] # "unsent" => /\ status'[k] \in {"processing", "completed"}
                                       /\ \A e \in running' : e[1] # k
  <2>1. CASE k = j
    BY Zenon, <1>2, <1>3, <1>4, <2>1
  <2>2. CASE k # j
    <3>1. status'[k] = status[k] /\ mail'[k] = mail[k] /\ sends'[k] = sends[k] /\ running' \subseteq running
      BY ZenonT(60), <1>2, <1>3, <2>2
    <3> QED BY Zenon, <3>1 DEF ReminderInv
  <2> QED BY Zenon, <2>1, <2>2
<1> QED BY ZenonT(60), <1>1, <1>6, <1>7, <1>8, <1>9 DEF ReminderInv

\* sendMail() accepts or rejects a mail.
LEMMA MailSteps ==
  ASSUME ReminderInv, NEW c \in Calls, MailStep(c)
  PROVE  ReminderInv'
<1> USE ReminderTypes
<1>1. CASE MailAccepted(c)
  BY Zenon, <1>1, CallEndStep DEF MailAccepted, HandlerEnds
<1>2. ASSUME NEW permanent \in BOOLEAN, MailFails(c, permanent) PROVE ReminderInv'
  <2>1. CASE permanent \/ sends'[c[1]] >= MaxAttempts
    BY Zenon, <1>2, <2>1, CallEndStep DEF MailFails, HandlerEnds
  <2>2. CASE ~ (permanent \/ sends'[c[1]] >= MaxAttempts)
    <3>1. /\ c \in running /\ sends' = [sends EXCEPT ![c[1]] = @ + 1]
          /\ UNCHANGED <<vars, invoiceJobs, mail, invoiceId, newest>> /\ ~ (sends'[c[1]] >= MaxAttempts)
      BY Zenon, <1>2, <2>2 DEF MailFails
    <3>2. c[1] \in Jobs
      BY Zenon DEF Calls
    <3>3. sends' \in [Jobs -> 0..MaxAttempts] /\ sends'[c[1]] < MaxAttempts
      <4>1. sends[c[1]] + 1 < MaxAttempts /\ sends[c[1]] \in Nat
        BY <3>1, <3>2
      <4> QED BY <3>1, <3>2, <4>1
    <3>4. /\ UNCHANGED <<live, status, running>> /\ WorkerInv'
      BY Zenon, <3>1, WorkerStepInv DEF vars, queueVars, workerVars
    <3>5. TypeOK'
      BY Zenon, <3>4 DEF WorkerInv
    <3>6. ReminderTypeOK'
      BY Zenon, <3>1, <3>3, <3>5 DEF ReminderTypeOK
    <3>7. \A k \in Jobs : sends'[k] = sends[k] \/ (k = c[1] /\ sends'[k] < MaxAttempts)
      BY Zenon, <3>1, <3>3
    <3> QED BY <3>1, <3>4, <3>6, <3>7 DEF ReminderInv, NewestKept
  <2> QED BY Zenon, <2>1, <2>2
<1> QED BY Zenon, <1>1, <1>2 DEF MailStep

\* The worker's own steps: a dispatch only of a job that waits, and so is unmailed.
LEMMA WorkerSteps ==
  ASSUME ReminderInv, PollTimerFires \/ PollStep \/ Start \/ Stop \/ StopReturns, UNCHANGED reminderVars
  PROVE  ReminderInv'
<1> USE ReminderTypes
<1>1. WorkerInv'
  BY Zenon, NextInv DEF Next
<1>2. TypeOK' /\ UNCHANGED <<invoiceJobs, invoiceId, mail, sends, newest>>
  BY Zenon, <1>1 DEF WorkerInv, reminderVars
<1>3. ReminderTypeOK'
  BY Zenon, <1>2 DEF ReminderTypeOK
<1>4. /\ live' = live
      /\ \/ UNCHANGED <<status, running>>
         \/ \E j \in Jobs : /\ status[j] \in {"pending", "retrying"} /\ status' = [status EXCEPT ![j] = "processing"]
                            /\ running' = running \cup {<<j, attempts[j] + 1>>}
  <2>1. CASE PollTakesRetry
    <3>1. Head(retryQueue) \in Jobs
      BY Zenon, <2>1 DEF PollTakesRetry, DequeueRetry, RetryHeadReady
    <3> QED BY Zenon, <2>1, <3>1 DEF PollTakesRetry, DequeueRetry, RetryHeadReady, isReadyToProcess,
               Dispatch, StartCall
  <2>2. CASE PollTakesMain
    <3>1. Head(queue) \in Jobs
      BY Zenon, <2>2 DEF PollTakesMain, DequeueMain, MainHeadReady
    <3> QED BY Zenon, <2>2, <3>1 DEF PollTakesMain, DequeueMain, MainHeadReady, isReadyToProcess,
               Dispatch, StartCall
  <2>3. CASE PollPassesRetry \/ PollPassesMain
    BY Zenon, <2>3 DEF PollPassesRetry, PassRetry, PollPassesMain, PassMain, workerVars
  <2>4. CASE PollTimerFires \/ PollEnds \/ Start \/ Stop \/ StopReturns
    BY Zenon, <2>4 DEF PollTimerFires, PollEnds, Start, Stop, StopReturns, queueVars
  <2> QED BY Zenon, <2>1, <2>2, <2>3, <2>4 DEF PollStep
<1>5. NewestKept'
  BY Zenon, <1>2, <1>4 DEF ReminderInv, NewestKept
<1>6. \A k \in Jobs : /\ status'[k] # "retrying" /\ (status[k] # "unused" => status'[k] # "unused")
                      /\ mail[k] # "unsent" => /\ status'[k] \in {"processing", "completed"}
                                               /\ \A c \in running' : c[1] # k
  <2>1. CASE UNCHANGED <<status, running>>
    BY Zenon, <2>1 DEF ReminderInv
  <2>2. ASSUME NEW j \in Jobs, status[j] \in {"pending", "retrying"},
               status' = [status EXCEPT ![j] = "processing"],
               running' = running \cup {<<j, attempts[j] + 1>>}, NEW k \in Jobs
        PROVE  /\ status'[k] # "retrying" /\ (status[k] # "unused" => status'[k] # "unused")
               /\ mail[k] # "unsent" => /\ status'[k] \in {"processing", "completed"}
                                        /\ \A c \in running' : c[1] # k
    <3>1. mail[j] = "unsent"
      BY Zenon, <2>2 DEF ReminderInv
    <3>2. CASE k = j
      BY Zenon, <2>2, <3>1, <3>2
    <3>3. CASE k # j
      <4>1. status'[k] = status[k] /\ \A c \in running' : c[1] = k => c \in running
        BY <2>2, <3>3
      <4> QED BY Zenon, <4>1 DEF ReminderInv
    <3> QED BY Zenon, <3>2, <3>3
  <2> QED BY Zenon, <1>4, <2>1, <2>2
<1>7. \A i \in Invoices : \A k \in {invoiceJobs'[i], newest'[i]} \ {NoJob} :
        invoiceId'[k] = i /\ status'[k] # "unused"
  <2> SUFFICES ASSUME NEW i \in Invoices, NEW k \in {invoiceJobs[i], newest[i]} \ {NoJob}
               PROVE  invoiceId[k] = i /\ status'[k] # "unused"
    BY Zenon, <1>2
  <2>1. k \in Jobs /\ invoiceId[k] = i /\ status[k] # "unused"
    BY DEF ReminderInv
  <2> QED BY Zenon, <1>6, <2>1
<1>8. \A k \in Jobs : mail'[k] = "unsent" => sends'[k] < MaxAttempts
  BY Zenon, <1>2 DEF ReminderInv
<1> QED BY ZenonT(60), <1>1, <1>2, <1>3, <1>5, <1>6, <1>7, <1>8 DEF ReminderInv

\* No step breaks the invariant.
LEMMA ReminderInductive == ReminderInv /\ [ReminderNext]_allVars => ReminderInv'
<1> SUFFICES ASSUME ReminderInv, [ReminderNext]_allVars PROVE ReminderInv'
  BY Zenon
<1>1. ASSUME NEW j \in Jobs, NEW outcome \in {"recorded", "unrecorded"}, DeadLetterWritten(j, outcome)
      PROVE ReminderInv'
  <2>1. /\ mail[j] = "dead" /\ mail' = [mail EXCEPT ![j] = outcome]
        /\ UNCHANGED <<vars, invoiceJobs, invoiceId, sends, newest>>
    BY Zenon, <1>1 DEF DeadLetterWritten
  <2>2. UNCHANGED <<live, status, running>> /\ WorkerInv'
    BY Zenon, <2>1, WorkerStepInv, ReminderTypes DEF vars, queueVars, workerVars
  <2>3. ReminderTypeOK'
    <3>1. TypeOK'
      BY Zenon, <2>2 DEF WorkerInv
    <3> QED BY Zenon, <2>1, <3>1, ReminderTypes DEF ReminderTypeOK
  <2>4. \A k \in Jobs : mail'[k] = "unsent" <=> mail[k] = "unsent"
    BY Zenon, <2>1, ReminderTypes
  <2> QED BY <2>1, <2>2, <2>3, <2>4 DEF ReminderInv, NewestKept
<1>2. CASE UNCHANGED allVars
  <2>1. UNCHANGED <<vars, invoiceJobs, invoiceId, mail, sends, newest>>
    BY Zenon, <1>2 DEF allVars, reminderVars
  <2>2. UNCHANGED <<live, status, running>> /\ WorkerInv'
    BY Zenon, <2>1, WorkerStepInv, ReminderTypes DEF vars, queueVars, workerVars
  <2>3. TypeOK'
    BY Zenon, <2>2 DEF WorkerInv
  <2>4. /\ invoiceJobs' = invoiceJobs /\ invoiceId' = invoiceId /\ newest' = newest
        /\ mail' = mail /\ sends' = sends /\ live' = live /\ status' = status /\ running' = running
    BY Zenon, <2>1, <2>2
  <2>5. ReminderTypeOK' /\ NewestKept'
    BY Zenon, <2>3, <2>4 DEF ReminderInv, NewestKept, ReminderTypeOK
  <2> QED BY ZenonT(60), <2>2, <2>4, <2>5 DEF ReminderInv
<1> QED BY <1>1, <1>2, ScheduleStep, CancelStep, MailSteps, WorkerSteps DEF ReminderNext

\* The inductive invariant of the reminders; the queue they use keeps its own.
THEOREM ReminderInvariant == ReminderSpec => []ReminderInv
BY ReminderStart, ReminderInductive, PTL DEF ReminderSpec

\* scheduleReminder() in maturityReminders.js never loses the newest reminder.
THEOREM NewestIsKept == ReminderSpec => []NewestKept
<1>1. ReminderInv => NewestKept
  BY Zenon DEF ReminderInv
<1> QED BY <1>1, ReminderInvariant, PTL

\* A settled reminder is not sent again.
THEOREM RemindersDeliveredOnce == ReminderSpec => DeliveredOnce
<1>1. ReminderInv /\ [ReminderNext]_allVars
      => [\A j \in Jobs : mail[j] # "unsent" => sends'[j] = sends[j]]_allVars
  <2> SUFFICES ASSUME ReminderInv, ReminderNext, NEW j \in Jobs, mail[j] # "unsent" PROVE sends'[j] = sends[j]
    BY Zenon
  <2>1. ASSUME NEW c \in Calls, MailStep(c) PROVE sends'[j] = sends[j]
    <3>1. c \in running /\ sends' = [sends EXCEPT ![c[1]] = @ + 1]
      BY Zenon, <2>1 DEF MailStep, MailAccepted, MailFails, HandlerEnds, HandlerResolves
    <3>2. c[1] # j
      BY Zenon, <3>1 DEF ReminderInv
    <3> QED BY Zenon, <3>1, <3>2, ReminderTypes
  <2> QED BY Zenon, <2>1 DEF ReminderNext, ScheduleReminder, CancelReminder, DeadLetterWritten, reminderVars
<1> QED BY <1>1, ReminderInvariant, PTL DEF ReminderSpec, DeliveredOnce

=============================================================================

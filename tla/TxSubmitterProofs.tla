------------------------- MODULE TxSubmitterProofs --------------------------
(***************************************************************************)
(* The transaction submitter with its durable queue, for any submissions,  *)
(* delays, limits, crashes and failing statements.                         *)
(*                                                                         *)
(* TxInv: a submission in memory and its row tell the same story (RowInv), *)
(* what restore() has read is still there to be updated (CallerInv), the   *)
(* slot and the arrays agree (SlotInv) and, while restores do not overlap, *)
(* an id is in one place once (CopyInv).                                   *)
(***************************************************************************)
EXTENDS TxSubmitter, TLAPS

-----------------------------------------------------------------------------
(* Pairs, and the arrays of ids.                                           *)

\* A write of one job's row is no write of another's.
LEMMA OtherRow ==
  ASSUME NEW j, NEW k, k # j, NEW x
  PROVE  \A w \in {<<k, x>>} : w[1] # j
OBVIOUS

\* What enqueue() inserts.
NewEntry(j, d) == {<<j, Row("pending", 0, d)>>}

\* It is a pending row of the job.
LEMMA PendingEntry ==
  ASSUME NEW j, NEW d
  PROVE  \A f \in NewEntry(j, d) : f[1] = j /\ f[2].status = "pending"
BY DEF NewEntry, Row

\* shift() on an array of distinct ids removes exactly the id it returns.
LEMMA ShiftFacts ==
  ASSUME NEW s \in Seq(Jobs), s # <<>>
  PROVE  /\ Head(s) \in Jobs
         /\ Head(s) \in Elems(s)
         /\ Tail(s) \in Seq(Jobs)
         /\ Len(s) \in Nat
         /\ Len(Tail(s)) = Len(s) - 1
         /\ Elems(Tail(s)) \subseteq Elems(s)
         /\ Elems(s) = Elems(Tail(s)) \cup {Head(s)}
         /\ Distinct(s) => Distinct(Tail(s)) /\ Head(s) \notin Elems(Tail(s))
<1>1. /\ Len(s) \in Nat /\ Len(s) > 0
      /\ Head(s) = s[1] /\ Head(s) \in Jobs
      /\ Tail(s) \in Seq(Jobs)
      /\ Len(Tail(s)) = Len(s) - 1
      /\ \A i \in 1..Len(Tail(s)) : Tail(s)[i] = s[i + 1]
  OBVIOUS
<1>2. Head(s) \in Elems(s)
  BY <1>1 DEF Elems
<1>3. Elems(Tail(s)) \subseteq Elems(s)
  BY <1>1 DEF Elems
<1>4. ASSUME NEW i \in 1..Len(s)
      PROVE  s[i] \in Elems(Tail(s)) \cup {Head(s)}
  <2>1. CASE i = 1
    BY <2>1, <1>1
  <2>2. CASE i # 1
    <3>1. i - 1 \in 1..Len(Tail(s)) /\ Tail(s)[i - 1] = s[i]
      BY <2>2, <1>1
    <3>2. QED
      BY Zenon, <3>1 DEF Elems
  <2>3. QED
    BY <2>1, <2>2
<1>5. Elems(s) = Elems(Tail(s)) \cup {Head(s)}
  BY Zenon, <1>2, <1>3, <1>4 DEF Elems
<1>6. Distinct(s) => Distinct(Tail(s)) /\ Head(s) \notin Elems(Tail(s))
  BY <1>1 DEF Elems, Distinct
<1>7. QED
  BY Zenon, <1>1, <1>2, <1>3, <1>5, <1>6

\* push() of an id that is not in the array keeps the ids distinct.
LEMMA PushFacts ==
  ASSUME NEW s \in Seq(Jobs), NEW x \in Jobs
  PROVE  /\ Append(s, x) \in Seq(Jobs)
         /\ Len(s) \in Nat
         /\ Len(Append(s, x)) = Len(s) + 1
         /\ Elems(Append(s, x)) = Elems(s) \cup {x}
         /\ Distinct(s) /\ x \notin Elems(s) => Distinct(Append(s, x))
<1>1. /\ Len(s) \in Nat
      /\ Append(s, x) \in Seq(Jobs)
      /\ Len(Append(s, x)) = Len(s) + 1
      /\ \A i \in 1..Len(s) : Append(s, x)[i] = s[i]
      /\ Append(s, x)[Len(s) + 1] = x
  OBVIOUS
<1>2. Elems(Append(s, x)) = Elems(s) \cup {x}
  <2>1. Elems(Append(s, x)) \subseteq Elems(s) \cup {x}
    BY <1>1 DEF Elems
  <2>2. Elems(s) \subseteq Elems(Append(s, x))
    BY <1>1 DEF Elems
  <2>3. x \in Elems(Append(s, x))
    BY <1>1 DEF Elems
  <2>4. QED
    BY <2>1, <2>2, <2>3
<1>3. Distinct(s) /\ x \notin Elems(s) => Distinct(Append(s, x))
  BY <1>1 DEF Elems, Distinct
<1>4. QED
  BY <1>1, <1>2, <1>3

\* What an empty array holds.
LEMMA EmptyFacts == Elems(<<>>) = {} /\ Distinct(<<>>) /\ Len(<<>>) = 0 /\ <<>> \in Seq(Jobs)
  BY DEF Elems, Distinct

\* An id that is not due goes to the back: the same ids, in another order.
LEMMA RotateFacts ==
  ASSUME NEW s \in Seq(Jobs), s # <<>>, Distinct(s)
  PROVE  /\ Append(Tail(s), Head(s)) \in Seq(Jobs)
         /\ Len(Append(Tail(s), Head(s))) = Len(s)
         /\ Elems(Append(Tail(s), Head(s))) = Elems(s)
         /\ Distinct(Append(Tail(s), Head(s)))
<1>1. /\ Head(s) \in Jobs /\ Tail(s) \in Seq(Jobs) /\ Len(s) \in Nat
      /\ Len(Tail(s)) = Len(s) - 1
      /\ Elems(s) = Elems(Tail(s)) \cup {Head(s)}
      /\ Distinct(Tail(s)) /\ Head(s) \notin Elems(Tail(s))
  BY ShiftFacts
<1> DEFINE t == Tail(s)
           x == Head(s)
<1>2. /\ Append(t, x) \in Seq(Jobs) /\ Len(Append(t, x)) = Len(t) + 1
      /\ Elems(Append(t, x)) = Elems(t) \cup {x}
      /\ Distinct(Append(t, x))
  <2> HIDE DEF t, x
  <2>1. t \in Seq(Jobs) /\ x \in Jobs /\ Distinct(t) /\ x \notin Elems(t)
    BY <1>1 DEF t, x
  <2>2. QED
    BY <2>1, PushFacts
<1>3. QED
  BY <1>1, <1>2

-----------------------------------------------------------------------------
(* The transaction submitter: frames.                                      *)

\* A row of the table is none of the values that stand for no row.
LEMMA RowIsARow ==
  /\ \A x \in Rows : x # NoRow
  /\ \A s \in JOB_STATUS, a, d \in Nat : Row(s, a, d) \in Rows
  /\ NON_TERMINAL_STATUSES \subseteq JOB_STATUS
<1>1. \A x \in Rows : x.status \in JOB_STATUS
  BY DEF Rows
<1>2. NoRow.status = "none" /\ "none" \notin JOB_STATUS
  BY DEF NoRow, JOB_STATUS
<1>3. \A s \in JOB_STATUS, a, d \in Nat : Row(s, a, d) \in Rows
  BY DEF Row, Rows
<1> QED BY Zenon, <1>1, <1>2, <1>3 DEF NON_TERMINAL_STATUSES, JOB_STATUS

\* The constructor and the migrations establish the invariant.
LEMMA TxStart == TxInit => TxInv
<1> SUFFICES ASSUME TxInit PROVE TxInv
  OBVIOUS
<1>1. /\ live = {} /\ status = [j \in Jobs |-> "unused"] /\ attempts = [j \in Jobs |-> 0]
      /\ delayMs = [j \in Jobs |-> 0] /\ queue = <<>> /\ retryQueue = <<>> /\ now = Epoch
      /\ processingCount = 0 /\ running = {} /\ loop = "idle"
  BY DEF TxInit, Init, JobQueueInit
<1>2. /\ rows = [j \in Jobs |-> NoRow] /\ writes = {} /\ call = [j \in Jobs |-> "none"]
      /\ at = [r \in Callers |-> "idle"] /\ todo = [r \in Callers |-> {}] /\ cur = [r \in Callers |-> {}]
      /\ restored = FALSE /\ runs = [j \in Jobs |-> 0] /\ overlap = FALSE /\ settled = {}
  BY DEF TxInit
<1>3. TxTypeOK
  BY Zenon, <1>1, <1>2, EmptyFacts, JobQueueAssumption DEF TxTypeOK
<1>4. SlotInv /\ RowInv
  BY Zenon, <1>1, <1>2 DEF SlotInv, RowInv
<1>5. CallerInv
  BY Zenon, <1>1, <1>2 DEF CallerInv, Callers
<1>6. CopyInv
  BY Zenon, <1>1, <1>2, EmptyFacts DEF CopyInv
<1> QED BY Zenon, <1>3, <1>4, <1>5, <1>6 DEF TxInv

\* The slot is not touched, and what it works for stays unfinished.
LEMMA SlotFrame ==
  ASSUME SlotInv, UNCHANGED <<running, processingCount>>,
         \A c \in running : InMemory(c[1])',
         loop' # "idle" => running = {}
  PROVE  SlotInv'
BY DEF SlotInv

\* Nobody's restore() or INSERT moves.
LEMMA CallerFrame ==
  ASSUME TxTypeOK, CallerInv, UNCHANGED <<at, call, cur, todo>>,
         \A j \in Jobs : (rows'[j] = NoRow <=> rows[j] = NoRow) /\ (status'[j] = "unused" => j \notin live')
  PROVE  CallerInv'
<1>1. \A r \in Callers : todo[r] \subseteq Jobs \X Rows /\ cur[r] \subseteq Jobs \X Rows
  BY DEF TxTypeOK
<1>2. \A r \in Callers : \A e \in todo[r] \cup cur[r] : e[1] \in Jobs
  BY <1>1
<1> QED BY <1>2 DEF CallerInv

\* The arrays, the Map and what ran are not touched, and no restore() moves.
LEMMA CopyFrame ==
  ASSUME CopyInv, UNCHANGED <<queue, retryQueue, live, attempts, runs, at, restored, cur>>,
         running' \subseteq running
  PROVE  CopyInv'
<1>1. /\ queue' = queue /\ retryQueue' = retryQueue /\ live' = live /\ attempts' = attempts
      /\ runs' = runs /\ at' = at /\ restored' = restored /\ cur' = cur
  OBVIOUS
<1>2. /\ Distinct(queue') /\ Distinct(retryQueue') /\ Elems(queue') \cap Elems(retryQueue') = {}
      /\ \A j \in Elems(queue') \cup Elems(retryQueue') : j \in live' /\ runs'[j] = 0
  BY Zenon, <1>1 DEF CopyInv
<1>3. \A c \in running' : runs'[c[1]] # 0
  BY Zenon, <1>1 DEF CopyInv
<1>4. \A r \in Callers : at'[r] # "idle" =>
        /\ ~restored' /\ \A q \in Callers : at'[q] # "idle" => q = r
        /\ at'[r] = "update" => \A e \in cur'[r] : e[1] \notin live'
  BY <1>1 DEF CopyInv
<1> QED BY Zenon, <1>1, <1>2, <1>3, <1>4 DEF CopyInv

\* The arrays are not touched.
LEMMA ArraysFrame ==
  ASSUME UNCHANGED <<queue, retryQueue>>
  PROVE  /\ Elems(queue)' = Elems(queue) /\ Elems(retryQueue)' = Elems(retryQueue)
         /\ Distinct(queue)' = Distinct(queue) /\ Distinct(retryQueue)' = Distinct(retryQueue)
BY DEF Elems, Distinct

\* The types of a step that leaves the table and the callers alone.
LEMMA TypeFrame ==
  ASSUME TxTypeOK, UNCHANGED <<rows, call, at, todo, cur, restored, overlap>>,
         live' \subseteq Jobs, status' \in [Jobs -> JOB_STATUS \cup {"unused"}],
         attempts' \in [Jobs -> Nat], delayMs' \in [Jobs -> Nat], now' \in Nat,
         queue' \in Seq(Jobs), retryQueue' \in Seq(Jobs), running' \subseteq Jobs \X Nat,
         writes' \subseteq Jobs \X Rows, runs' \in [Jobs -> Nat]
  PROVE  TxTypeOK'
BY Zenon DEF TxTypeOK

-----------------------------------------------------------------------------
(* The worker.                                                             *)

\* _poll(), start() and the clock: nothing is taken.
LEMMA TxQuietSteps ==
  ASSUME TxInv,
         \/ UNCHANGED txVars
         \/ TxTick
         \/ StartRestored
         \/ SubmitRetries
         \/ (PollTimerFires \/ PollEnds)
              /\ UNCHANGED <<rows, writes, call, at, todo, cur, restored, tries, histories>>
  PROVE  TxInv'
<1>1. /\ UNCHANGED <<queueVars, running, processingCount, rows, writes, call, at, todo, cur,
                     restored, runs, settled, overlap>>
      /\ now' \in {now, now + 1}
      /\ loop' # "idle" => loop # "idle" \/ processingCount < MaxConcurrency
  <2>1. CASE UNCHANGED txVars
    BY Zenon, <2>1 DEF txVars, memory, histories, queueVars, workerVars
  <2>2. CASE TxTick
    BY Zenon, <2>2 DEF TxTick, Tick, ClockTick, queueVars, workerVars, histories
  <2>3. CASE StartRestored
    BY Zenon, <2>3 DEF StartRestored, Start, PollLoop, queueVars, histories
  <2>4. CASE SubmitRetries
    BY Zenon, <2>4 DEF SubmitRetries, queueVars, workerVars, histories
  <2>5. CASE (PollTimerFires \/ PollEnds)
               /\ UNCHANGED <<rows, writes, call, at, todo, cur, restored, tries, histories>>
    BY Zenon, <2>5 DEF PollTimerFires, PollEnds, PollLoop, queueVars, histories
  <2> QED BY Zenon, <2>1, <2>2, <2>3, <2>4, <2>5
<1>2. UNCHANGED <<live, status, attempts, delayMs, queue, retryQueue>>
  BY Zenon, <1>1 DEF queueVars
<1>3. TxTypeOK'
  <2>1. TxTypeOK
    BY DEF TxInv
  <2>2. now' \in Nat
    BY <1>1, <2>1 DEF TxTypeOK
  <2> QED BY Zenon, <1>1, <1>2, <2>1, <2>2, TypeFrame DEF TxTypeOK
<1>4. SlotInv'
  <2>1. loop' # "idle" => running = {}
    BY <1>1, TxSubmitterAssumption DEF TxInv, SlotInv
  <2>2. \A c \in running : InMemory(c[1])'
    BY Zenon, <1>2 DEF TxInv, SlotInv, InMemory
  <2> QED BY Zenon, <1>1, <2>1, <2>2, SlotFrame DEF TxInv
<1>5. CallerInv'
  BY <1>1, <1>2 DEF TxInv, CallerInv
<1>6. RowInv'
  BY Zenon, <1>1 DEF TxInv, RowInv
<1>7. ~overlap' => CopyInv'
  BY Zenon, <1>1, <1>2, CopyFrame DEF TxInv
<1> QED BY Zenon, <1>3, <1>4, <1>5, <1>6, <1>7 DEF TxInv

\* dequeue() finds no job at the head of an array: the id is dropped, or goes to the back.
LEMMA TxPasses ==
  ASSUME TxInv, PollPassesRetry \/ PollPassesMain,
         UNCHANGED <<rows, writes, call, at, todo, cur, restored, tries, histories>>
  PROVE  TxInv'
<1> DEFINE Shorter(s, t) == /\ t \in Seq(Jobs) /\ Elems(t) \subseteq Elems(s)
                            /\ Distinct(s) => Distinct(t)
<1>1. TxTypeOK /\ queue \in Seq(Jobs) /\ retryQueue \in Seq(Jobs)
  BY Zenon DEF TxInv, TxTypeOK
<1>2. ASSUME NEW s \in Seq(Jobs), s # <<>>
      PROVE  Shorter(s, Tail(s)) /\ Shorter(s, Append(Tail(s), Head(s)))
  <2>1. /\ Head(s) \in Jobs /\ Tail(s) \in Seq(Jobs)
        /\ Elems(s) = Elems(Tail(s)) \cup {Head(s)}
        /\ Distinct(s) => Distinct(Tail(s))
    BY Zenon, <1>2, ShiftFacts
  <2>2. Append(Tail(s), Head(s)) \in Seq(Jobs) /\ Elems(Append(Tail(s), Head(s))) = Elems(s)
    BY Zenon, <2>1, PushFacts
  <2>3. Distinct(s) => Distinct(Append(Tail(s), Head(s)))
    BY Zenon, <1>2, RotateFacts
  <2> QED BY Zenon, <2>1, <2>2, <2>3
<1>3. Shorter(queue, queue) /\ Shorter(retryQueue, retryQueue)
  BY Zenon, <1>1
<1> HIDE DEF Shorter
<1>4. /\ Shorter(queue, queue') /\ Shorter(retryQueue, retryQueue')
      /\ UNCHANGED <<live, status, attempts, delayMs, now, running, processingCount>>
      /\ loop # "idle"
  <2>1. CASE PollPassesRetry
    <3>1. /\ retryQueue' \in {retryQueue, Tail(retryQueue), Append(Tail(retryQueue), Head(retryQueue))}
          /\ retryQueue = <<>> => retryQueue' = retryQueue
          /\ queue' = queue /\ loop = "retry"
          /\ UNCHANGED <<live, status, attempts, delayMs, now, running, processingCount>>
      BY Zenon, <2>1 DEF PollPassesRetry, PassRetry
    <3> QED BY Zenon, <1>1, <1>2, <1>3, <3>1
  <2>2. CASE PollPassesMain
    <3>1. /\ queue' \in {Tail(queue), Append(Tail(queue), Head(queue))}
          /\ queue # <<>> /\ retryQueue' = retryQueue /\ loop = "main"
          /\ UNCHANGED <<live, status, attempts, delayMs, now, running, processingCount>>
      BY Zenon, <2>2 DEF PollPassesMain, PassMain, workerVars
    <3> QED BY Zenon, <1>1, <1>2, <1>3, <3>1
  <2> QED BY Zenon, <2>1, <2>2
<1>5. UNCHANGED <<runs, settled, overlap>>
  BY DEF histories
<1>6. TxTypeOK'
  BY Zenon, <1>1, <1>4, <1>5, TypeFrame DEF Shorter, TxTypeOK
<1>7. SlotInv'
  BY Zenon, <1>4, SlotFrame DEF TxInv, SlotInv, InMemory
<1>8. CallerInv' /\ RowInv'
  BY <1>4, <1>5 DEF TxInv, CallerInv, RowInv
<1>9. ASSUME ~overlap' PROVE CopyInv'
  <2>1. CopyInv
    BY Zenon, <1>5, <1>9 DEF TxInv
  <2> QED BY Zenon, <1>4, <1>5, <2>1 DEF CopyInv, Shorter
<1> QED BY Zenon, <1>6, <1>7, <1>8, <1>9 DEF TxInv

\* dequeue() hands out the head of an array, which is persisted as processing.
LEMMA TxTakes ==
  ASSUME TxInv,
         \/ PollTakesRetry /\ DurableTake(Head(retryQueue))
         \/ PollTakesMain /\ DurableTake(Head(queue))
  PROVE  TxInv'
<1>1. TxTypeOK /\ SlotInv /\ CallerInv /\ RowInv
  BY DEF TxInv
<1>2. /\ queue \in Seq(Jobs) /\ retryQueue \in Seq(Jobs) /\ status \in [Jobs -> JOB_STATUS \cup {"unused"}]
      /\ attempts \in [Jobs -> Nat] /\ delayMs \in [Jobs -> Nat] /\ runs \in [Jobs -> Nat]
      /\ live \subseteq Jobs /\ now \in Nat /\ writes \subseteq Jobs \X Rows
  BY Zenon, <1>1 DEF TxTypeOK
<1>3. PICK j :
        /\ j \in live /\ status[j] \in {"pending", "retrying"}
        /\ \/ j = Head(queue) /\ queue # <<>> /\ queue' = Tail(queue) /\ retryQueue' = retryQueue
           \/ j = Head(retryQueue) /\ retryQueue # <<>> /\ retryQueue' = Tail(retryQueue) /\ queue' = queue
        /\ Dispatch(j) /\ StartCall(j) /\ DurableTake(j) /\ loop # "idle"
  <2>1. CASE PollTakesRetry /\ DurableTake(Head(retryQueue))
    BY Zenon, <2>1 DEF PollTakesRetry, DequeueRetry, RetryHeadReady, isReadyToProcess
  <2>2. CASE PollTakesMain /\ DurableTake(Head(queue))
    BY Zenon, <2>2 DEF PollTakesMain, DequeueMain, MainHeadReady, isReadyToProcess
  <2> QED BY Zenon, <2>1, <2>2
<1>4. /\ j \in Jobs /\ live' = live /\ delayMs' = delayMs /\ now' = now
      /\ status' = [status EXCEPT ![j] = "processing"] /\ attempts' = [attempts EXCEPT ![j] = @ + 1]
      /\ running = {} /\ running' = {<<j, attempts[j] + 1>>} /\ processingCount' = 1
      /\ loop' = "idle"
  <2>1. running = {} /\ processingCount = 0
    BY Zenon, <1>1, <1>3 DEF SlotInv
  <2> QED BY <1>2, <1>3, <2>1, TxSubmitterAssumption DEF Dispatch, StartCall, PollLoop
<1>5. /\ writes' = writes \cup {<<j, Row("processing", attempts[j] + 1, delayMs[j])>>}
      /\ runs' = [runs EXCEPT ![j] = @ + 1]
      /\ UNCHANGED <<rows, call, at, todo, cur, restored, settled, overlap>>
  BY Zenon, <1>2, <1>3, <1>4 DEF DurableTake, persistJobState
<1>6. TxTypeOK'
  <2>1. "processing" \in JOB_STATUS
    BY DEF JOB_STATUS
  <2>2. /\ status' \in [Jobs -> JOB_STATUS \cup {"unused"}] /\ attempts' \in [Jobs -> Nat]
        /\ runs' \in [Jobs -> Nat] /\ running' \subseteq Jobs \X Nat
    <3>1. status' \in [Jobs -> JOB_STATUS \cup {"unused"}]
      BY Zenon, <1>2, <1>4, <2>1
    <3>2. attempts[j] \in Nat /\ attempts' \in [Jobs -> Nat]
      BY <1>2, <1>4
    <3>3. runs' \in [Jobs -> Nat]
      <4>1. runs[j] + 1 \in Nat
        BY <1>2, <1>4
      <4> QED BY Zenon, <1>2, <1>5, <4>1
    <3>4. running' \subseteq Jobs \X Nat
      BY <1>4, <3>2
    <3> QED BY Zenon, <3>1, <3>2, <3>3, <3>4
  <2>3. writes' \subseteq Jobs \X Rows
    <3>1. Row("processing", attempts[j] + 1, delayMs[j]) \in Rows
      BY <1>2, <1>4, <2>1, RowIsARow
    <3>2. <<j, Row("processing", attempts[j] + 1, delayMs[j])>> \in Jobs \X Rows
      BY Zenon, <1>4, <3>1
    <3> QED BY Zenon, <1>2, <1>5, <3>2
  <2>4. queue' \in Seq(Jobs) /\ retryQueue' \in Seq(Jobs)
    <3>1. \A s \in Seq(Jobs) : s # <<>> => Tail(s) \in Seq(Jobs)
      BY Zenon, ShiftFacts
    <3> QED BY Zenon, <1>2, <1>3, <3>1
  <2> QED BY Zenon, <1>1, <1>2, <1>4, <1>5, <2>2, <2>3, <2>4, TypeFrame
<1>7. SlotInv'
  <2>1. \A c \in running' : c[1] = j /\ running' = {c}
    BY <1>4
  <2>2. InMemory(j)'
    BY Zenon, <1>2, <1>3, <1>4 DEF InMemory, NON_TERMINAL_STATUSES
  <2> QED BY Zenon, <1>4, <2>1, <2>2 DEF SlotInv
<1>8. CallerInv'
  <2>1. \A k \in Jobs : status'[k] = "unused" => k \notin live'
    BY <1>1, <1>2, <1>4 DEF CallerInv
  <2> QED BY Zenon, <1>1, <1>5, <2>1, CallerFrame
<1>9. RowInv'
  BY <1>1, <1>5 DEF RowInv, Row, NON_TERMINAL_STATUSES
<1>10. ASSUME ~overlap' PROVE CopyInv'
  <2>1. CopyInv
    BY Zenon, <1>5, <1>10 DEF TxInv
  <2>2. /\ Elems(queue') \subseteq Elems(queue) /\ Elems(retryQueue') \subseteq Elems(retryQueue)
        /\ Distinct(queue') /\ Distinct(retryQueue')
        /\ j \in Elems(queue) \cup Elems(retryQueue) /\ j \notin Elems(queue') \cup Elems(retryQueue')
    <3>1. CASE j = Head(queue) /\ queue # <<>> /\ queue' = Tail(queue) /\ retryQueue' = retryQueue
      BY Zenon, <1>2, <2>1, <3>1, ShiftFacts DEF CopyInv
    <3>2. CASE j = Head(retryQueue) /\ retryQueue # <<>> /\ retryQueue' = Tail(retryQueue) /\ queue' = queue
      BY Zenon, <1>2, <2>1, <3>2, ShiftFacts DEF CopyInv
    <3> QED BY Zenon, <1>3, <3>1, <3>2
  <2>3. runs[j] = 0 /\ runs'[j] = 1 /\ attempts'[j] # 0
    BY <1>2, <1>4, <1>5, <2>1, <2>2 DEF CopyInv
  <2>4. Elems(queue)' \cap Elems(retryQueue)' = {} /\ Distinct(queue)' /\ Distinct(retryQueue)'
    BY ZenonT(60), <2>1, <2>2 DEF CopyInv, Elems, Distinct
  <2>5. \A k \in Elems(queue)' \cup Elems(retryQueue)' : k \in live' /\ runs'[k] = 0
    <3>1. Elems(queue)' = Elems(queue') /\ Elems(retryQueue)' = Elems(retryQueue')
      BY DEF Elems
    <3>2. \A k \in Elems(queue) \cup Elems(retryQueue) : k \in live /\ runs[k] = 0
      BY Zenon, <2>1 DEF CopyInv
    <3> QED BY Zenon, <1>2, <1>4, <1>5, <2>2, <3>1, <3>2
  <2>6. \A k \in Jobs : runs'[k] # 0 => runs'[k] = 1 /\ k \in live' /\ attempts'[k] # 0
    BY ZenonT(60), <1>2, <1>3, <1>4, <1>5, <2>1, <2>3 DEF CopyInv
  <2>7. \A c \in running' : runs'[c[1]] # 0
    BY <1>4, <2>3
  <2>8. \A r \in Callers : at'[r] # "idle" =>
          /\ ~restored' /\ \A q \in Callers : at'[q] # "idle" => q = r
          /\ at'[r] = "update" => \A e \in cur'[r] : e[1] \notin live'
    BY Zenon, <1>4, <1>5, <2>1 DEF CopyInv
  <2> QED BY Zenon, <2>4, <2>5, <2>6, <2>7, <2>8 DEF CopyInv
<1> QED BY Zenon, <1>6, <1>7, <1>8, <1>9, <1>10 DEF TxInv

\* The handler settles: ack() or retry(), and the record is persisted.
LEMMA TxSettles ==
  ASSUME TxInv, NEW c \in running, SubmitSettles(c)
  PROVE  TxInv'
<1> DEFINE j == c[1]
<1>1. TxTypeOK /\ SlotInv /\ CallerInv /\ RowInv
  BY DEF TxInv
<1>2. /\ queue \in Seq(Jobs) /\ retryQueue \in Seq(Jobs) /\ status \in [Jobs -> JOB_STATUS \cup {"unused"}]
      /\ attempts \in [Jobs -> Nat] /\ delayMs \in [Jobs -> Nat] /\ runs \in [Jobs -> Nat]
      /\ live \subseteq Jobs /\ now \in Nat /\ writes \subseteq Jobs \X Rows
  BY Zenon, <1>1 DEF TxTypeOK
<1>3. j \in live /\ j \in Jobs /\ running = {c} /\ processingCount = 1
  BY Zenon, <1>1, <1>2 DEF SlotInv, InMemory
<1>4. /\ live' = live /\ attempts' = attempts /\ queue' = queue /\ now' = now
      /\ running' = {} /\ processingCount' = 0
      /\ \/ /\ status' = [status EXCEPT ![j] = "completed"] /\ UNCHANGED <<delayMs, retryQueue>>
         \/ /\ status' = [status EXCEPT ![j] = "failed"] /\ UNCHANGED <<delayMs, retryQueue>>
         \/ /\ status' = [status EXCEPT ![j] = "retrying"] /\ retryQueue' = Append(retryQueue, j)
            /\ attempts[j] = 0 /\ delayMs' = [delayMs EXCEPT ![j] = now + Backoff(attempts[j])]
      /\ UNCHANGED loop
  <2>1. /\ ack(j) \/ retry(j)
        /\ CallReturns(c) /\ loop = "idle"
    BY Zenon, <1>3 DEF SubmitSettles, HandlerSettles, HandlerResolves, HandlerThrows, RetryOrThrow
  <2>2. attempts[j] <= MaxRetries <=> attempts[j] = 0
    BY <1>2, <1>3, TxSubmitterAssumption
  <2>3. running' = {} /\ processingCount' = 0 /\ now' = now /\ UNCHANGED loop
    BY <1>3, <2>1 DEF CallReturns
  <2> HIDE DEF j
  <2> QED BY <2>1, <2>2, <2>3 DEF ack, retry
<1>5. /\ writes' = writes \cup {<<j, Row(status'[j], attempts'[j], delayMs'[j])>>}
      /\ settled' = settled \cup {j}
      /\ UNCHANGED <<rows, call, at, todo, cur, restored, runs, overlap>>
  BY Zenon DEF SubmitSettles, persistJobState
<1> HIDE DEF j
<1>6. TxTypeOK'
  <2>1. {"completed", "failed", "retrying"} \subseteq JOB_STATUS
    BY DEF JOB_STATUS
  <2>2. Backoff(0) \in Nat
    BY JobQueueAssumption DEF Backoff
  <2>3. /\ status' \in [Jobs -> JOB_STATUS \cup {"unused"}] /\ delayMs' \in [Jobs -> Nat]
        /\ status'[j] \in JOB_STATUS
    <3>1. status' \in [Jobs -> JOB_STATUS \cup {"unused"}] /\ status'[j] \in JOB_STATUS
      BY Zenon, <1>2, <1>3, <1>4, <2>1
    <3>2. CASE delayMs' = delayMs
      BY Zenon, <1>2, <3>1, <3>2
    <3>3. CASE delayMs' = [delayMs EXCEPT ![j] = now + Backoff(attempts[j])] /\ attempts[j] = 0
      <4>1. now + Backoff(attempts[j]) \in Nat
        BY <1>2, <2>2, <3>3
      <4> QED BY Zenon, <1>2, <3>1, <3>3, <4>1
    <3> QED BY Zenon, <1>4, <3>2, <3>3
  <2>4. writes' \subseteq Jobs \X Rows
    <3>1. Row(status'[j], attempts'[j], delayMs'[j]) \in Rows
      BY <1>2, <1>3, <1>4, <2>3, RowIsARow
    <3>2. <<j, Row(status'[j], attempts'[j], delayMs'[j])>> \in Jobs \X Rows
      BY Zenon, <1>3, <3>1
    <3> QED BY <1>2, <1>5, <3>2
  <2>5. queue' \in Seq(Jobs) /\ retryQueue' \in Seq(Jobs)
    BY ZenonT(60), <1>2, <1>3, <1>4, PushFacts
  <2> QED BY Zenon, <1>1, <1>2, <1>4, <1>5, <2>3, <2>4, <2>5, TypeFrame
<1>7. SlotInv'
  BY Zenon, <1>1, <1>3, <1>4 DEF SlotInv
<1>8. CallerInv'
  <2>1. \A k \in Jobs : status'[k] = "unused" => k \notin live'
    <3>1. \A k \in Jobs : status'[k] = "unused" => status[k] = "unused"
      BY Zenon, <1>2, <1>3, <1>4
    <3> QED BY Zenon, <1>1, <1>4, <3>1 DEF CallerInv
  <2> QED BY Zenon, <1>1, <1>5, <2>1, CallerFrame
<1>9. RowInv'
  <2>1. \A w \in writes' : w \in writes \/ w[1] = j
    BY <1>5
  <2> QED BY Zenon, <1>1, <1>5, <2>1 DEF RowInv
<1>10. ASSUME ~overlap' PROVE CopyInv'
  <2>1. CopyInv
    BY Zenon, <1>5, <1>10 DEF TxInv
  <2>2. attempts[j] # 0
    BY Zenon, <1>3, <2>1 DEF CopyInv, j
  <2>3. retryQueue' = retryQueue
    BY Zenon, <1>4, <2>2
  <2> QED BY Zenon, <1>4, <1>5, <2>1, <2>3, CopyFrame
<1> QED BY Zenon, <1>6, <1>7, <1>8, <1>9, <1>10 DEF TxInv

-----------------------------------------------------------------------------
(* The table.                                                              *)

\* What is in memory does not move, nor a restore() or a call.
LEMMA TxMemoryFrame ==
  ASSUME TxInv, UNCHANGED <<queueVars, running, processingCount, loop, runs, overlap>>
  PROVE  /\ SlotInv'
         /\ \A j \in Jobs : status'[j] = "unused" => j \notin live'
         /\ UNCHANGED <<live, status, attempts, delayMs, queue, retryQueue>>
<1>1. UNCHANGED <<live, status, attempts, delayMs, queue, retryQueue>>
  BY DEF queueVars
<1>2. SlotInv'
  BY Zenon, <1>1, SlotFrame DEF TxInv, SlotInv, InMemory
<1>3. \A j \in Jobs : status'[j] = "unused" => j \notin live'
  BY Zenon, <1>1 DEF TxInv, CallerInv
<1> QED BY Zenon, <1>1, <1>2, <1>3

\* An update lands or is lost.
LEMMA TxWrites ==
  ASSUME TxInv, NEW w \in writes, WriteLands(w) \/ WriteFails(w)
  PROVE  TxInv'
<1>1. /\ UNCHANGED <<queueVars, running, processingCount, loop, runs, overlap>>
      /\ UNCHANGED <<now, call, at, todo, cur, restored, settled>>
      /\ writes' = writes \ {w}
      /\ rows' = rows \/ (rows[w[1]] # NoRow /\ rows' = [rows EXCEPT ![w[1]] = w[2]])
  <2>1. CASE WriteLands(w)
    BY Zenon, <2>1 DEF WriteLands, memory, histories, workerVars
  <2>2. CASE WriteFails(w)
    BY Zenon, <2>2 DEF WriteFails, memory, workerVars
  <2> QED BY Zenon, <2>1, <2>2
<1>2. TxTypeOK /\ CallerInv /\ RowInv
  BY DEF TxInv
<1>3. /\ SlotInv' /\ \A j \in Jobs : status'[j] = "unused" => j \notin live'
      /\ UNCHANGED <<live, status, attempts, delayMs, queue, retryQueue>>
  BY Zenon, <1>1, TxMemoryFrame
<1>4. w[1] \in Jobs /\ w[2] \in Rows /\ rows \in [Jobs -> Rows \cup {NoRow}]
  BY Zenon, <1>2 DEF TxTypeOK
<1>5. rows' \in [Jobs -> Rows \cup {NoRow}]
  BY Zenon, <1>1, <1>4
<1>6. TxTypeOK'
  BY Zenon, <1>1, <1>2, <1>3, <1>5 DEF TxTypeOK
<1>7. \A j \in Jobs : rows'[j] = NoRow <=> rows[j] = NoRow
  BY Zenon, <1>1, <1>4, RowIsARow
<1>8. CallerInv'
  BY Zenon, <1>1, <1>2, <1>3, <1>7, CallerFrame
<1>9. RowInv'
  <2>1. \A j \in Jobs : rows'[j] = rows[j] \/ (j = w[1] /\ rows'[j] = w[2])
    BY Zenon, <1>1, <1>4
  <2>2. w[2].status \in NON_TERMINAL_STATUSES \/ w[1] \in settled
    BY Zenon, <1>2 DEF RowInv
  <2>3. \A j \in Jobs : call'[j] = "ok" => rows'[j].status \in NON_TERMINAL_STATUSES \/ j \in settled'
    BY Zenon, <1>1, <1>2, <2>1, <2>2 DEF RowInv
  <2>4. \A v \in writes' : v[2].status \in NON_TERMINAL_STATUSES \/ v[1] \in settled'
    BY Zenon, <1>1, <1>2 DEF RowInv
  <2> QED BY Zenon, <2>3, <2>4 DEF RowInv
<1>10. ~overlap' => CopyInv'
  BY Zenon, <1>1, <1>3, CopyFrame DEF TxInv
<1> QED BY Zenon, <1>3, <1>6, <1>8, <1>9, <1>10 DEF TxInv

\* The INSERT of an enqueue lands, or fails, or both.
LEMMA TxInserts ==
  ASSUME TxInv, NEW j \in Jobs, InsertLands(j) \/ InsertFails(j)
  PROVE  TxInv'
<1>1. PICK e \in cur[j], outcome \in {"ok", "error"} :
        /\ call[j] = "insert" /\ call' = [call EXCEPT ![j] = outcome]
        /\ rows' = [rows EXCEPT ![j] = e[2]] \/ (rows' = rows /\ outcome = "error")
        /\ cur' = [cur EXCEPT ![j] = {}]
        /\ UNCHANGED <<queueVars, running, processingCount, loop, runs, overlap>>
        /\ UNCHANGED <<now, writes, at, todo, restored, settled>>
  <2>1. CASE InsertLands(j)
    BY Zenon, <2>1 DEF InsertLands, histories, workerVars
  <2>2. CASE InsertFails(j)
    BY Zenon, <2>2 DEF InsertFails, workerVars
  <2> QED BY Zenon, <2>1, <2>2
<1>2. TxTypeOK /\ CallerInv /\ RowInv
  BY DEF TxInv
<1>3. /\ SlotInv' /\ \A k \in Jobs : status'[k] = "unused" => k \notin live'
      /\ UNCHANGED <<live, status, attempts, delayMs, queue, retryQueue>>
  BY Zenon, <1>1, TxMemoryFrame
<1>4. /\ rows \in [Jobs -> Rows \cup {NoRow}] /\ call \in [Jobs -> {"none", "restore", "insert", "ok", "error"}]
      /\ cur \in [Callers -> SUBSET (Jobs \X Rows)] /\ todo \in [Callers -> SUBSET (Jobs \X Rows)]
      /\ at \in [Callers -> {"idle", "select", "next", "update"}]
      /\ j \in Callers
  BY Zenon, <1>2 DEF TxTypeOK, Callers
<1>5. e[1] = j /\ e[2] \in Rows /\ e[2].status = "pending" /\ at[j] = "idle"
  <2>1. e \in Jobs \X Rows
    BY Zenon, <1>4
  <2> QED BY <1>1, <1>2, <2>1 DEF CallerInv
<1>6. TxTypeOK'
  <2>1. rows' \in [Jobs -> Rows \cup {NoRow}]
    BY Zenon, <1>1, <1>4, <1>5
  <2>2. call' \in [Jobs -> {"none", "restore", "insert", "ok", "error"}]
    BY Zenon, <1>1, <1>4
  <2>3. cur' \in [Callers -> SUBSET (Jobs \X Rows)]
    BY Zenon, <1>1, <1>4
  <2> QED BY Zenon, <1>1, <1>2, <1>3, <2>1, <2>2, <2>3 DEF TxTypeOK
<1>7. CallerInv'
  <2>1. \A k \in Jobs : rows[k] # NoRow => rows'[k] # NoRow
    BY Zenon, <1>1, <1>4, <1>5, RowIsARow
  <2>2. \A k \in Jobs : k # j => rows'[k] = rows[k] /\ call'[k] = call[k] /\ cur'[k] = cur[k]
    BY Zenon, <1>1, <1>4 DEF Callers
  <2>3. ASSUME NEW k \in Jobs
        PROVE  /\ at'[k] # "idle" => call'[k] = "restore"
               /\ call'[k] = "insert" => \A f \in cur'[k] : f[1] = k /\ f[2].status = "pending"
               /\ rows'[k] # NoRow => call'[k] \notin {"none", "restore"}
    <3>1. CASE k = j
      BY Zenon, <1>1, <1>4, <1>5, <3>1
    <3>2. CASE k # j
      BY <1>1, <1>2, <2>2, <3>2 DEF CallerInv
    <3> QED BY Zenon, <3>1, <3>2
  <2>4. ASSUME NEW r \in Callers
        PROVE  /\ at'[r] \in {"next", "update"} => \A f \in todo'[r] : rows'[f[1]] # NoRow
               /\ at'[r] = "update" => \A f \in cur'[r] : rows'[f[1]] # NoRow
    <3>1. \A f \in todo[r] \cup cur[r] : f[1] \in Jobs
      BY <1>4
    <3>2. cur'[r] \subseteq cur[r]
      BY <1>1, <1>4
    <3> QED BY <1>1, <1>2, <2>1, <3>1, <3>2 DEF CallerInv
  <2> QED BY Zenon, <1>3, <2>3, <2>4 DEF CallerInv
<1>8. RowInv'
  <2>1. \A k \in Jobs : k # j => rows'[k] = rows[k] /\ call'[k] = call[k]
    BY Zenon, <1>1, <1>4
  <2>2. call'[j] = "ok" => rows'[j].status \in NON_TERMINAL_STATUSES
    BY Zenon, <1>1, <1>4, <1>5 DEF NON_TERMINAL_STATUSES
  <2> QED BY Zenon, <1>1, <1>2, <2>1, <2>2 DEF RowInv
<1>9. ASSUME ~overlap' PROVE CopyInv'
  <2>1. CopyInv
    BY Zenon, <1>1, <1>9 DEF TxInv
  <2>2. \A r \in Callers : cur'[r] \subseteq cur[r]
    BY Zenon, <1>1, <1>4
  <2>3. /\ Distinct(queue)' /\ Distinct(retryQueue)' /\ Elems(queue)' = Elems(queue)
        /\ Elems(retryQueue)' = Elems(retryQueue)
    BY Zenon, <1>3, <2>1, ArraysFrame DEF CopyInv
  <2> QED BY Zenon, <1>1, <1>3, <2>1, <2>2, <2>3 DEF CopyInv
<1> QED BY Zenon, <1>3, <1>6, <1>7, <1>8, <1>9 DEF TxInv

-----------------------------------------------------------------------------
(* Restores and enqueues.                                                  *)

\* A record is set in the Map and its id pushed, by restore() or by enqueue(): the
\* slot is not disturbed, and without an overlap a new id is in one array once.
LEMMA TxPush ==
  ASSUME TxInv, NEW j \in Jobs, NEW s \in JOB_STATUS, NEW a \in Nat, NEW d \in Nat,
         j \notin live \/ s \in NON_TERMINAL_STATUSES,
         live' = live \cup {j}, status' = [status EXCEPT ![j] = s],
         attempts' = [attempts EXCEPT ![j] = a], delayMs' = [delayMs EXCEPT ![j] = d],
         \/ queue' = Append(queue, j) /\ retryQueue' = retryQueue
         \/ retryQueue' = Append(retryQueue, j) /\ queue' = queue
  PROVE  /\ \A c \in running : InMemory(c[1])'
         /\ live' \subseteq Jobs /\ status' \in [Jobs -> JOB_STATUS \cup {"unused"}]
         /\ attempts' \in [Jobs -> Nat] /\ delayMs' \in [Jobs -> Nat]
         /\ queue' \in Seq(Jobs) /\ retryQueue' \in Seq(Jobs)
         /\ \A k \in Jobs : status'[k] = "unused" => k \notin live'
         /\ (~overlap /\ j \notin live) =>
              /\ Distinct(queue)' /\ Distinct(retryQueue)' /\ Elems(queue)' \cap Elems(retryQueue)' = {}
              /\ \A k \in Elems(queue)' \cup Elems(retryQueue)' : k \in live' /\ runs[k] = 0
              /\ \A k \in Jobs : runs[k] # 0 => runs[k] = 1 /\ k \in live' /\ attempts'[k] # 0
              /\ \A c \in running : runs[c[1]] # 0
<1>1. TxTypeOK /\ SlotInv /\ CallerInv
  BY DEF TxInv
<1>2. /\ queue \in Seq(Jobs) /\ retryQueue \in Seq(Jobs) /\ status \in [Jobs -> JOB_STATUS \cup {"unused"}]
      /\ attempts \in [Jobs -> Nat] /\ delayMs \in [Jobs -> Nat] /\ runs \in [Jobs -> Nat]
      /\ live \subseteq Jobs
  BY Zenon, <1>1 DEF TxTypeOK
<1>3. \A c \in running : InMemory(c[1])'
  <2> SUFFICES ASSUME NEW c \in running PROVE InMemory(c[1])'
    OBVIOUS
  <2>1. c[1] \in live /\ c[1] \in Jobs /\ status[c[1]] \in NON_TERMINAL_STATUSES
    BY Zenon, <1>1, <1>2 DEF SlotInv, InMemory
  <2>2. status'[c[1]] \in NON_TERMINAL_STATUSES
    BY Zenon, <1>2, <2>1
  <2> QED BY Zenon, <2>1, <2>2 DEF InMemory
<1>4. live' \subseteq Jobs /\ status' \in [Jobs -> JOB_STATUS \cup {"unused"}]
  BY Zenon, <1>2
<1>5. attempts' \in [Jobs -> Nat] /\ delayMs' \in [Jobs -> Nat]
  BY Zenon, <1>2
<1>6. queue' \in Seq(Jobs) /\ retryQueue' \in Seq(Jobs)
  <2>1. Append(queue, j) \in Seq(Jobs) /\ Append(retryQueue, j) \in Seq(Jobs)
    BY Zenon, <1>2, PushFacts
  <2> QED BY Zenon, <1>2, <2>1
<1>7. \A k \in Jobs : status'[k] = "unused" => k \notin live'
  <2>1. s # "unused"
    BY DEF JOB_STATUS
  <2> QED BY <1>1, <1>2, <2>1 DEF CallerInv
<1>8. ASSUME ~overlap, j \notin live
      PROVE  /\ Distinct(queue)' /\ Distinct(retryQueue)' /\ Elems(queue)' \cap Elems(retryQueue)' = {}
             /\ \A k \in Elems(queue)' \cup Elems(retryQueue)' : k \in live' /\ runs[k] = 0
             /\ \A k \in Jobs : runs[k] # 0 => runs[k] = 1 /\ k \in live' /\ attempts'[k] # 0
             /\ \A c \in running : runs[c[1]] # 0
  <2>1. CopyInv
    BY <1>8 DEF TxInv
  <2>2. j \notin Elems(queue) \cup Elems(retryQueue) /\ runs[j] = 0
    BY <1>8, <2>1 DEF CopyInv
  <2>3. /\ Elems(Append(queue, j)) = Elems(queue) \cup {j} /\ Distinct(Append(queue, j))
        /\ Elems(Append(retryQueue, j)) = Elems(retryQueue) \cup {j} /\ Distinct(Append(retryQueue, j))
    BY Zenon, <1>2, <2>1, <2>2, PushFacts DEF CopyInv
  <2>4. /\ Distinct(queue') /\ Distinct(retryQueue') /\ Elems(queue') \cap Elems(retryQueue') = {}
        /\ Elems(queue') \cup Elems(retryQueue') = Elems(queue) \cup Elems(retryQueue) \cup {j}
    <3>1. CASE queue' = Append(queue, j) /\ retryQueue' = retryQueue
      BY <2>1, <2>2, <2>3, <3>1 DEF CopyInv
    <3>2. CASE retryQueue' = Append(retryQueue, j) /\ queue' = queue
      BY <2>1, <2>2, <2>3, <3>2 DEF CopyInv
    <3> QED BY Zenon, <3>1, <3>2
  <2>5. /\ Distinct(queue)' /\ Distinct(retryQueue)' /\ Elems(queue)' = Elems(queue')
        /\ Elems(retryQueue)' = Elems(retryQueue')
    BY Zenon, <2>4 DEF Distinct, Elems
  <2>6. \A k \in Jobs : runs[k] # 0 => runs[k] = 1 /\ k \in live' /\ attempts'[k] # 0
    BY Zenon, <1>2, <2>1, <2>2 DEF CopyInv
  <2> QED BY Zenon, <2>1, <2>2, <2>4, <2>5, <2>6 DEF CopyInv
<1> QED BY Zenon, <1>3, <1>4, <1>5, <1>6, <1>7, <1>8

\* A caller finds the queue not restored, and selects the rows.
LEMMA TxSelects ==
  ASSUME TxInv, NEW r \in Callers, CallRestore(r) \/ SelectUnfinished(r)
  PROVE  TxInv'
<1>1. TxTypeOK /\ CallerInv /\ RowInv
  BY DEF TxInv
<1>2. /\ rows \in [Jobs -> Rows \cup {NoRow}] /\ call \in [Jobs -> {"none", "restore", "insert", "ok", "error"}]
      /\ cur \in [Callers -> SUBSET (Jobs \X Rows)] /\ todo \in [Callers -> SUBSET (Jobs \X Rows)]
      /\ at \in [Callers -> {"idle", "select", "next", "update"}] /\ overlap \in BOOLEAN
      /\ Jobs \subseteq Callers
  BY Zenon, <1>1 DEF TxTypeOK, Callers
<1>3. /\ UNCHANGED <<queueVars, running, processingCount, loop, runs>>
      /\ UNCHANGED <<now, rows, writes, cur, restored, settled>>
  <2>1. CASE CallRestore(r)
    BY Zenon, <2>1 DEF CallRestore, workerVars
  <2>2. CASE SelectUnfinished(r)
    BY Zenon, <2>2 DEF SelectUnfinished, workerVars, histories
  <2> QED BY Zenon, <2>1, <2>2
<1>4. UNCHANGED <<live, status, attempts, delayMs, queue, retryQueue>>
  BY <1>3 DEF queueVars
<1>5. SlotInv'
  BY Zenon, <1>3, <1>4, SlotFrame DEF TxInv, SlotInv, InMemory
<1>6. CASE CallRestore(r)
  <2>1. /\ ~restored /\ at[r] = "idle" /\ at' = [at EXCEPT ![r] = "select"] /\ todo' = todo
        /\ overlap' = (overlap \/ \E q \in Callers : at[q] # "idle")
        /\ \/ r = START /\ call' = call
           \/ r \in Jobs /\ call[r] = "none" /\ call' = [call EXCEPT ![r] = "restore"]
    BY Zenon, <1>6, TxSubmitterAssumption DEF CallRestore, Callers
  <2>2. TxTypeOK'
    <3>1. at' \in [Callers -> {"idle", "select", "next", "update"}]
      BY Zenon, <1>2, <2>1
    <3>2. call' \in [Jobs -> {"none", "restore", "insert", "ok", "error"}]
      BY Zenon, <1>2, <2>1
    <3>3. overlap' \in BOOLEAN
      BY <2>1
    <3> QED BY Zenon, <1>1, <1>3, <1>4, <2>1, <3>1, <3>2, <3>3 DEF TxTypeOK
  <2>3. CallerInv'
    <3>1. ASSUME NEW k \in Jobs
          PROVE  /\ at'[k] # "idle" => call'[k] = "restore"
                 /\ call'[k] = "insert" => \A f \in cur'[k] : f[1] = k /\ f[2].status = "pending"
                 /\ rows'[k] # NoRow => call'[k] \notin {"none", "restore"}
                 /\ status'[k] = "unused" => k \notin live'
      <4>1. CASE k = r
        BY <1>1, <1>2, <1>3, <1>4, <2>1, <4>1, TxSubmitterAssumption DEF CallerInv
      <4>2. CASE k # r
        <5>1. at'[k] = at[k] /\ call'[k] = call[k]
          BY Zenon, <1>2, <2>1, <4>2
        <5> QED BY <1>1, <1>3, <1>4, <5>1 DEF CallerInv
      <4> QED BY Zenon, <4>1, <4>2
    <3>2. ASSUME NEW q \in Callers
          PROVE  /\ at'[q] \in {"next", "update"} => \A f \in todo'[q] : rows'[f[1]] # NoRow
                 /\ at'[q] = "update" => \A f \in cur'[q] : rows'[f[1]] # NoRow
      BY <1>1, <1>2, <1>3, <2>1 DEF CallerInv
    <3> QED BY Zenon, <3>1, <3>2 DEF CallerInv
  <2>4. RowInv'
    BY Zenon, <1>1, <1>2, <1>3, <2>1 DEF RowInv
  <2>5. ASSUME ~overlap' PROVE CopyInv'
    <3>1. CopyInv /\ \A q \in Callers : at[q] = "idle"
      BY Zenon, <2>1, <2>5 DEF TxInv
    <3>2. /\ Distinct(queue)' /\ Distinct(retryQueue)' /\ Elems(queue)' = Elems(queue)
          /\ Elems(retryQueue)' = Elems(retryQueue)
      BY Zenon, <1>4, <3>1, ArraysFrame DEF CopyInv
    <3>3. ASSUME NEW q \in Callers, at'[q] # "idle"
          PROVE  q = r /\ at'[q] = "select"
      BY Zenon, <1>2, <2>1, <3>1, <3>3
    <3> QED BY Zenon, <1>3, <1>4, <2>1, <3>1, <3>2, <3>3 DEF CopyInv
  <2> QED BY Zenon, <1>5, <2>2, <2>3, <2>4, <2>5 DEF TxInv
<1>7. CASE SelectUnfinished(r)
  <2> DEFINE found == {<<k, rows[k]>> : k \in {i \in Jobs : rows[i].status \in NON_TERMINAL_STATUSES}}
  <2>1. /\ at[r] = "select" /\ at' = [at EXCEPT ![r] = "next"] /\ call' = call /\ overlap' = overlap
        /\ todo' = [todo EXCEPT ![r] = found]
    BY Zenon, <1>7 DEF SelectUnfinished, histories
  <2>2. \A e \in found : e[1] \in Jobs /\ rows[e[1]] # NoRow /\ e \in Jobs \X Rows
    <3>1. NoRow.status \notin NON_TERMINAL_STATUSES
      BY DEF NoRow, NON_TERMINAL_STATUSES
    <3>2. ASSUME NEW k \in Jobs, rows[k].status \in NON_TERMINAL_STATUSES
          PROVE  rows[k] # NoRow /\ <<k, rows[k]>> \in Jobs \X Rows
      BY Zenon, <1>2, <3>1, <3>2
    <3> QED BY <3>2
  <2> HIDE DEF found
  <2>3. TxTypeOK'
    <3>1. at' \in [Callers -> {"idle", "select", "next", "update"}]
      BY Zenon, <1>2, <2>1
    <3>2. todo' \in [Callers -> SUBSET (Jobs \X Rows)]
      BY Zenon, <1>2, <2>1, <2>2
    <3> QED BY Zenon, <1>1, <1>3, <1>4, <2>1, <3>1, <3>2 DEF TxTypeOK
  <2>4. \A q \in Callers : at'[q] # "idle" <=> at[q] # "idle"
    BY Zenon, <1>2, <2>1
  <2>5. CallerInv'
    <3>1. ASSUME NEW q \in Callers
          PROVE  /\ at'[q] \in {"next", "update"} => \A f \in todo'[q] : rows'[f[1]] # NoRow
                 /\ at'[q] = "update" => \A f \in cur'[q] : rows'[f[1]] # NoRow
      <4>1. CASE q = r
        BY Zenon, <1>2, <1>3, <2>1, <2>2, <4>1
      <4>2. CASE q # r
        <5>1. at'[q] = at[q] /\ todo'[q] = todo[q]
          BY Zenon, <1>2, <2>1, <4>2
        <5> QED BY <1>1, <1>3, <5>1 DEF CallerInv
      <4> QED BY <4>1, <4>2
    <3> QED BY ZenonT(60), <1>1, <1>2, <1>3, <1>4, <2>1, <2>4, <3>1 DEF CallerInv
  <2>6. RowInv'
    BY Zenon, <1>1, <1>3, <2>1 DEF RowInv
  <2>7. ASSUME ~overlap' PROVE CopyInv'
    <3>1. CopyInv
      BY Zenon, <2>1, <2>7 DEF TxInv
    <3>2. /\ Distinct(queue)' /\ Distinct(retryQueue)' /\ Elems(queue)' = Elems(queue)
          /\ Elems(retryQueue)' = Elems(retryQueue)
      BY Zenon, <1>4, <3>1, ArraysFrame DEF CopyInv
    <3>3. \A q \in Callers : at'[q] = "update" => at[q] = "update"
      BY Zenon, <1>2, <2>1
    <3> QED BY Zenon, <1>3, <1>4, <2>4, <3>1, <3>2, <3>3 DEF CopyInv
  <2> QED BY Zenon, <1>5, <2>3, <2>5, <2>6, <2>7 DEF TxInv
<1> QED BY Zenon, <1>6, <1>7

\* One iteration of restore(): the row is skipped, or about to be updated, or its job
\* goes into the Map and an array.
LEMMA TxRestoresRow ==
  ASSUME TxInv, NEW r \in Callers, NEW e \in todo[r], RestoreRow(r, e)
  PROVE  TxInv'
<1>1. TxTypeOK /\ SlotInv /\ CallerInv /\ RowInv
  BY DEF TxInv
<1>2. /\ cur \in [Callers -> SUBSET (Jobs \X Rows)] /\ todo \in [Callers -> SUBSET (Jobs \X Rows)]
      /\ at \in [Callers -> {"idle", "select", "next", "update"}]
      /\ Jobs \subseteq Callers /\ runs \in [Jobs -> Nat]
  BY Zenon, <1>1 DEF TxTypeOK, Callers
<1>3. /\ at[r] = "next" /\ todo' = [todo EXCEPT ![r] = @ \ {e}]
      /\ UNCHANGED <<running, processingCount, loop, now, rows, writes, call, restored>>
      /\ UNCHANGED <<runs, settled, overlap>>
      /\ \/ UNCHANGED <<queueVars, at, cur>>
         \/ /\ e[1] \notin live /\ UNCHANGED queueVars
            /\ at' = [at EXCEPT ![r] = "update"] /\ cur' = [cur EXCEPT ![r] = {e}]
         \/ e[1] \notin live /\ AddJob(e[1], e[2]) /\ UNCHANGED <<at, cur>>
  BY Zenon DEF RestoreRow, workerVars, histories
<1>4. e \in Jobs \X Rows /\ rows[e[1]] # NoRow
  BY <1>1, <1>2, <1>3 DEF CallerInv
<1>5. e[1] \in Jobs /\ e[2] \in Rows
  BY Zenon, <1>4
<1>6. /\ todo' \in [Callers -> SUBSET (Jobs \X Rows)] /\ \A q \in Callers : todo'[q] \subseteq todo[q]
  BY Zenon, <1>2, <1>3
<1>7. /\ at' \in [Callers -> {"idle", "select", "next", "update"}]
      /\ cur' \in [Callers -> SUBSET (Jobs \X Rows)]
      /\ \A q \in Callers : /\ at'[q] # "idle" <=> at[q] # "idle"
                            /\ at'[q] \in {"next", "update"} => at[q] \in {"next", "update"}
                            /\ at'[q] = "update" => \/ at[q] = "update" /\ cur'[q] = cur[q]
                                                    \/ q = r /\ cur'[q] = {e} /\ e[1] \notin live'
                            /\ at[q] = "idle" => cur'[q] = cur[q]
  <2>1. CASE UNCHANGED <<queueVars, at, cur>>
    BY Zenon, <1>2, <1>3, <2>1
  <2>2. CASE /\ e[1] \notin live /\ UNCHANGED queueVars
             /\ at' = [at EXCEPT ![r] = "update"] /\ cur' = [cur EXCEPT ![r] = {e}]
    <3>1. {e} \in SUBSET (Jobs \X Rows) /\ e[1] \notin live'
      BY Zenon, <1>4, <2>2 DEF queueVars
    <3>2. at' \in [Callers -> {"idle", "select", "next", "update"}]
      BY Zenon, <1>2, <2>2
    <3>3. cur' \in [Callers -> SUBSET (Jobs \X Rows)]
      BY Zenon, <1>2, <2>2, <3>1
    <3> QED BY Zenon, <1>2, <1>3, <2>2, <3>1, <3>2, <3>3
  <2>3. CASE e[1] \notin live /\ AddJob(e[1], e[2]) /\ UNCHANGED <<at, cur>>
    BY Zenon, <1>2, <1>3, <2>3
  <2> QED BY Zenon, <1>3, <2>1, <2>2, <2>3
<1>8. /\ SlotInv'
      /\ live' \subseteq Jobs /\ status' \in [Jobs -> JOB_STATUS \cup {"unused"}]
      /\ attempts' \in [Jobs -> Nat] /\ delayMs' \in [Jobs -> Nat]
      /\ queue' \in Seq(Jobs) /\ retryQueue' \in Seq(Jobs)
      /\ \A k \in Jobs : status'[k] = "unused" => k \notin live'
      /\ ~overlap =>
           /\ Distinct(queue)' /\ Distinct(retryQueue)' /\ Elems(queue)' \cap Elems(retryQueue)' = {}
           /\ \A k \in Elems(queue)' \cup Elems(retryQueue)' : k \in live' /\ runs[k] = 0
           /\ \A k \in Jobs : runs[k] # 0 => runs[k] = 1 /\ k \in live' /\ attempts'[k] # 0
           /\ \A c \in running : runs[c[1]] # 0
  <2>1. CASE UNCHANGED queueVars
    <3>1. UNCHANGED <<live, status, attempts, delayMs, queue, retryQueue>>
      BY Zenon, <2>1 DEF queueVars
    <3>2. SlotInv' /\ \A k \in Jobs : status'[k] = "unused" => k \notin live'
      BY Zenon, <1>3, <2>1, TxMemoryFrame
    <3>3. /\ live' \subseteq Jobs /\ status' \in [Jobs -> JOB_STATUS \cup {"unused"}]
          /\ attempts' \in [Jobs -> Nat] /\ delayMs' \in [Jobs -> Nat]
          /\ queue' \in Seq(Jobs) /\ retryQueue' \in Seq(Jobs)
      BY Zenon, <1>1, <3>1 DEF TxTypeOK
    <3>4. Elems(queue)' = Elems(queue) /\ Elems(retryQueue)' = Elems(retryQueue)
      BY Zenon, <3>1, ArraysFrame
    <3>5. ~overlap => Distinct(queue)' /\ Distinct(retryQueue)'
      BY Zenon, <3>1, ArraysFrame DEF TxInv, CopyInv
    <3> QED BY Zenon, <3>1, <3>2, <3>3, <3>4, <3>5 DEF TxInv, CopyInv
  <2>2. CASE e[1] \notin live /\ AddJob(e[1], e[2])
    <3>1. e[2].status \in JOB_STATUS /\ e[2].attempts \in Nat /\ e[2].delayMs \in Nat
      BY Zenon, <1>5 DEF Rows
    <3>2. \A c \in running : InMemory(c[1])'
      BY Zenon, <1>5, <2>2, <3>1, TxPush DEF AddJob
    <3>3. SlotInv'
      BY Zenon, <1>1, <1>3, <3>2, SlotFrame DEF SlotInv
    <3> QED BY Zenon, <1>5, <2>2, <3>1, <3>3, TxPush DEF AddJob
  <2> QED BY Zenon, <1>3, <2>1, <2>2
<1>9. TxTypeOK'
  BY Zenon, <1>1, <1>3, <1>6, <1>7, <1>8 DEF TxTypeOK
<1>10. CallerInv'
  <2>1. ASSUME NEW k \in Jobs
        PROVE  /\ at'[k] # "idle" => call'[k] = "restore"
               /\ call'[k] = "insert" => \A f \in cur'[k] : f[1] = k /\ f[2].status = "pending"
               /\ rows'[k] # NoRow => call'[k] \notin {"none", "restore"}
    BY Zenon, <1>1, <1>2, <1>3, <1>7 DEF CallerInv
  <2>2. ASSUME NEW q \in Callers
        PROVE  /\ at'[q] \in {"next", "update"} => \A f \in todo'[q] : rows'[f[1]] # NoRow
               /\ at'[q] = "update" => \A f \in cur'[q] : rows'[f[1]] # NoRow
    BY <1>1, <1>3, <1>4, <1>6, <1>7 DEF CallerInv
  <2> QED BY Zenon, <1>8, <2>1, <2>2 DEF CallerInv
<1>11. RowInv'
  BY <1>1, <1>3 DEF RowInv
<1>12. ASSUME ~overlap' PROVE CopyInv'
  <2>1. CopyInv /\ ~overlap
    BY Zenon, <1>3, <1>12 DEF TxInv
  <2>2. ASSUME NEW q \in Callers, at'[q] # "idle"
        PROVE  /\ ~restored' /\ \A p \in Callers : at'[p] # "idle" => p = q
               /\ at'[q] = "update" => \A f \in cur'[q] : f[1] \notin live'
    <3>1. at[q] # "idle" /\ at[r] # "idle"
      BY Zenon, <1>3, <1>7, <2>2
    <3>2. q = r /\ at[q] = "next" /\ ~restored
      BY Zenon, <1>3, <2>1, <3>1 DEF CopyInv
    <3>3. \A p \in Callers : at'[p] # "idle" => p = q
      BY Zenon, <1>7, <2>1, <3>1 DEF CopyInv
    <3> QED BY <1>3, <1>7, <3>2, <3>3
  <2> QED BY Zenon, <1>3, <1>8, <2>1, <2>2 DEF CopyInv
<1> QED BY <1>8, <1>9, <1>10, <1>11, <1>12 DEF TxInv

\* The UPDATE of restore(): the row is pending again, and then the job is put back.
LEMMA TxRestoresPending ==
  ASSUME TxInv, NEW r \in Callers, RestorePending(r)
  PROVE  TxInv'
<1>1. TxTypeOK /\ SlotInv /\ CallerInv /\ RowInv
  BY DEF TxInv
<1>2. /\ cur \in [Callers -> SUBSET (Jobs \X Rows)] /\ todo \in [Callers -> SUBSET (Jobs \X Rows)]
      /\ at \in [Callers -> {"idle", "select", "next", "update"}] /\ rows \in [Jobs -> Rows \cup {NoRow}]
      /\ Jobs \subseteq Callers /\ runs \in [Jobs -> Nat]
  BY Zenon, <1>1 DEF TxTypeOK, Callers
<1>3. PICK e \in cur[r] :
        /\ rows' = [rows EXCEPT ![e[1]].status = "pending"]
        /\ AddJob(e[1], [e[2] EXCEPT !.status = "pending"])
  BY Zenon DEF RestorePending
<1>4. /\ at[r] = "update" /\ at' = [at EXCEPT ![r] = "next"] /\ cur' = [cur EXCEPT ![r] = {}]
      /\ UNCHANGED <<running, processingCount, loop, now, writes, call, todo, restored>>
      /\ UNCHANGED <<runs, settled, overlap>>
  BY Zenon DEF RestorePending, workerVars, histories
<1>5. e \in Jobs \X Rows /\ rows[e[1]] # NoRow
  BY <1>1, <1>2, <1>4 DEF CallerInv
<1>6. e[1] \in Jobs /\ e[2] \in Rows /\ rows[e[1]] \in Rows
  BY <1>2, <1>5
<1> DEFINE row == [e[2] EXCEPT !.status = "pending"]
<1>7. row.status = "pending" /\ row.attempts \in Nat /\ row.delayMs \in Nat
  BY Zenon, <1>6 DEF Rows
<1>8. \A x \in Rows : [x EXCEPT !.status = "pending"] \in Rows
        /\ [x EXCEPT !.status = "pending"].status = "pending"
  BY DEF Rows, JOB_STATUS
<1>9. /\ rows' \in [Jobs -> Rows \cup {NoRow}] /\ \A k \in Jobs : rows[k] # NoRow <=> rows'[k] # NoRow
      /\ \A k \in Jobs : rows'[k] = rows[k] \/ rows'[k].status = "pending"
  <2>1. rows' = [rows EXCEPT ![e[1]] = [rows[e[1]] EXCEPT !.status = "pending"]]
    BY Zenon, <1>2, <1>3, <1>6
  <2> HIDE DEF row
  <2> QED BY Zenon, <1>2, <1>5, <1>6, <1>8, <2>1, RowIsARow
<1>10. AddJob(e[1], row)
  BY Zenon, <1>3
<1> HIDE DEF row
<1>11. /\ \A c \in running : InMemory(c[1])'
       /\ live' \subseteq Jobs /\ status' \in [Jobs -> JOB_STATUS \cup {"unused"}]
       /\ attempts' \in [Jobs -> Nat] /\ delayMs' \in [Jobs -> Nat]
       /\ queue' \in Seq(Jobs) /\ retryQueue' \in Seq(Jobs)
       /\ \A k \in Jobs : status'[k] = "unused" => k \notin live'
       /\ (~overlap /\ e[1] \notin live) =>
           /\ Distinct(queue)' /\ Distinct(retryQueue)' /\ Elems(queue)' \cap Elems(retryQueue)' = {}
           /\ \A k \in Elems(queue)' \cup Elems(retryQueue)' : k \in live' /\ runs[k] = 0
           /\ \A k \in Jobs : runs[k] # 0 => runs[k] = 1 /\ k \in live' /\ attempts'[k] # 0
           /\ \A c \in running : runs[c[1]] # 0
  <2>1. "pending" \in JOB_STATUS /\ "pending" \in NON_TERMINAL_STATUSES
    BY DEF JOB_STATUS, NON_TERMINAL_STATUSES
  <2> QED BY Zenon, <1>6, <1>7, <1>10, <2>1, TxPush DEF AddJob
<1>12. SlotInv'
  BY Zenon, <1>1, <1>4, <1>11, SlotFrame DEF SlotInv
<1>13. /\ at' \in [Callers -> {"idle", "select", "next", "update"}]
       /\ cur' \in [Callers -> SUBSET (Jobs \X Rows)]
       /\ \A q \in Callers : /\ at'[q] # "idle" <=> at[q] # "idle"
                             /\ at'[q] \in {"next", "update"} => at[q] \in {"next", "update"}
                             /\ at'[q] = "update" => at[q] = "update" /\ q # r
                             /\ cur'[q] \subseteq cur[q]
  BY Zenon, <1>2, <1>4
<1>14. TxTypeOK'
  BY Zenon, <1>1, <1>4, <1>9, <1>11, <1>13 DEF TxTypeOK
<1>15. CallerInv'
  <2>1. ASSUME NEW k \in Jobs
        PROVE  /\ at'[k] # "idle" => call'[k] = "restore"
               /\ call'[k] = "insert" => \A f \in cur'[k] : f[1] = k /\ f[2].status = "pending"
               /\ rows'[k] # NoRow => call'[k] \notin {"none", "restore"}
    BY Zenon, <1>1, <1>2, <1>4, <1>9, <1>13 DEF CallerInv
  <2>2. ASSUME NEW q \in Callers
        PROVE  /\ at'[q] \in {"next", "update"} => \A f \in todo'[q] : rows'[f[1]] # NoRow
               /\ at'[q] = "update" => \A f \in cur'[q] : rows'[f[1]] # NoRow
    <3>1. \A f \in todo[q] \cup cur[q] : f[1] \in Jobs
      BY <1>2
    <3> QED BY <1>1, <1>4, <1>9, <1>13, <3>1 DEF CallerInv
  <2> QED BY Zenon, <1>11, <2>1, <2>2 DEF CallerInv
<1>16. RowInv'
  <2>1. "pending" \in NON_TERMINAL_STATUSES
    BY DEF NON_TERMINAL_STATUSES
  <2> QED BY Zenon, <1>1, <1>4, <1>9, <2>1 DEF RowInv
<1>17. ASSUME ~overlap' PROVE CopyInv'
  <2>1. CopyInv /\ ~overlap
    BY Zenon, <1>4, <1>17 DEF TxInv
  <2>2. e[1] \notin live
    BY Zenon, <1>4, <2>1 DEF CopyInv
  <2>3. ASSUME NEW q \in Callers, at'[q] # "idle"
        PROVE  /\ ~restored' /\ \A p \in Callers : at'[p] # "idle" => p = q
               /\ at'[q] # "update"
    <3>1. at[q] # "idle" /\ at[r] # "idle"
      BY Zenon, <1>4, <1>13, <2>3
    <3>2. q = r /\ ~restored
      BY Zenon, <2>1, <3>1 DEF CopyInv
    <3>3. \A p \in Callers : at'[p] # "idle" => p = q
      BY Zenon, <1>13, <2>1, <3>1 DEF CopyInv
    <3> QED BY Zenon, <1>4, <1>13, <3>2, <3>3
  <2> QED BY Zenon, <1>4, <1>11, <2>1, <2>2, <2>3 DEF CopyInv
<1> QED BY Zenon, <1>12, <1>14, <1>15, <1>16, <1>17 DEF TxInv

\* enqueueTxSubmission() once the queue is restored: the job is in memory and its
\* INSERT on the way, or the queue is full.
LEMMA TxEnqueues ==
  ASSUME TxInv, NEW j \in Jobs, EnqueueRestored(j) \/ RestoreThenEnqueue(j)
  PROVE  TxInv'
<1>1. TxTypeOK /\ SlotInv /\ CallerInv /\ RowInv
  BY DEF TxInv
<1>2. /\ cur \in [Callers -> SUBSET (Jobs \X Rows)]
           /\ call \in [Jobs -> {"none", "restore", "insert", "ok", "error"}]
      /\ at \in [Callers -> {"idle", "select", "next", "update"}] /\ attempts \in [Jobs -> Nat]
      /\ j \in Callers /\ Jobs \subseteq Callers /\ live \subseteq Jobs
  BY Zenon, <1>1 DEF TxTypeOK, Callers
<1>3. /\ call[j] \in {"none", "restore"} /\ at' = [at EXCEPT ![j] = "idle"] /\ restored' = TRUE
      /\ ~overlap => \A q \in Callers : at'[q] = "idle"
      /\ UNCHANGED <<todo, runs, settled, overlap>>
  <2>1. CASE EnqueueRestored(j)
    <3>1. restored /\ call[j] = "none" /\ UNCHANGED <<at, todo, restored, runs, settled, overlap>>
      BY Zenon, <2>1 DEF EnqueueRestored, histories
    <3>2. at[j] = "idle"
      BY Zenon, <1>1, <3>1 DEF CallerInv
    <3>3. ~overlap => \A q \in Callers : at[q] = "idle"
      BY Zenon, <3>1 DEF TxInv, CopyInv
    <3>4. restored' = TRUE
      BY Zenon, <1>1, <3>1 DEF TxTypeOK
    <3> QED BY Zenon, <1>2, <3>1, <3>2, <3>3, <3>4
  <2>2. CASE RestoreThenEnqueue(j)
    <3>1. /\ at[j] = "next" /\ restored' = TRUE /\ at' = [at EXCEPT ![j] = "idle"]
          /\ UNCHANGED <<todo, runs, settled, overlap>>
      BY Zenon, <2>2 DEF RestoreThenEnqueue, RestoreDone, histories
    <3>2. call[j] = "restore"
      BY Zenon, <1>1, <3>1 DEF CallerInv
    <3>3. ~overlap => \A q \in Callers : at[q] # "idle" => q = j
      BY Zenon, <1>2, <3>1 DEF TxInv, CopyInv
    <3> QED BY Zenon, <1>2, <3>1, <3>2, <3>3
  <2> QED BY Zenon, <2>1, <2>2
<1>4. PICK d \in Delays : DurableEnqueue(j, d)
  BY DEF EnqueueRestored, RestoreThenEnqueue
<1>5. UNCHANGED <<running, processingCount, loop, now, rows, writes>>
  BY Zenon, <1>4 DEF DurableEnqueue, workerVars
<1>6. /\ \/ call' = [call EXCEPT ![j] = "insert"] /\ cur' = [cur EXCEPT ![j] = {<<j, Row("pending", 0, d)>>}]
         \/ call' = [call EXCEPT ![j] = "error"] /\ cur' = cur
      /\ \A c \in running : InMemory(c[1])'
      /\ live' \subseteq Jobs /\ status' \in [Jobs -> JOB_STATUS \cup {"unused"}]
      /\ attempts' \in [Jobs -> Nat] /\ delayMs' \in [Jobs -> Nat]
      /\ queue' \in Seq(Jobs) /\ retryQueue' \in Seq(Jobs)
      /\ \A k \in Jobs : status'[k] = "unused" => k \notin live'
      /\ ~overlap =>
           /\ Distinct(queue)' /\ Distinct(retryQueue)' /\ Elems(queue)' \cap Elems(retryQueue)' = {}
           /\ \A k \in Elems(queue)' \cup Elems(retryQueue)' : k \in live' /\ runs[k] = 0
           /\ \A k \in Jobs : runs[k] # 0 => runs[k] = 1 /\ k \in live' /\ attempts'[k] # 0
           /\ \A c \in running : runs[c[1]] # 0
  <2>1. CASE HasRoom
    <3>1. /\ enqueue(j, d) /\ call' = [call EXCEPT ![j] = "insert"]
          /\ cur' = [cur EXCEPT ![j] = {<<j, Row("pending", 0, d)>>}]
      BY Zenon, <1>4, <2>1 DEF DurableEnqueue
    <3>2. d \in Nat /\ "pending" \in JOB_STATUS /\ attempts[j] \in Nat
      BY Zenon, <1>2, JobQueueAssumption DEF JOB_STATUS
    <3>3. /\ j \notin live /\ live' = live \cup {j} /\ status' = [status EXCEPT ![j] = "pending"]
          /\ attempts' = [attempts EXCEPT ![j] = attempts[j]] /\ delayMs' = [delayMs EXCEPT ![j] = d]
          /\ queue' = Append(queue, j) /\ retryQueue' = retryQueue
      BY <1>1, <1>2, <3>1 DEF enqueue, CallerInv
    <3> QED BY Zenon, <3>1, <3>2, <3>3, TxPush
  <2>2. CASE ~HasRoom
    <3>1. UNCHANGED <<live, status, attempts, delayMs, queue, retryQueue, cur>>
            /\ call' = [call EXCEPT ![j] = "error"]
      BY Zenon, <1>4, <2>2 DEF DurableEnqueue, queueVars
    <3>2. \A c \in running : InMemory(c[1])'
      BY Zenon, <1>1, <3>1 DEF SlotInv, InMemory
    <3>3. \A k \in Jobs : status'[k] = "unused" => k \notin live'
      BY Zenon, <1>1, <3>1 DEF CallerInv
    <3>4. Elems(queue)' = Elems(queue) /\ Elems(retryQueue)' = Elems(retryQueue)
      BY Zenon, <3>1, ArraysFrame
    <3>5. ~overlap => Distinct(queue)' /\ Distinct(retryQueue)'
      BY Zenon, <3>1, ArraysFrame DEF TxInv, CopyInv
    <3>6. /\ live' \subseteq Jobs /\ status' \in [Jobs -> JOB_STATUS \cup {"unused"}]
          /\ attempts' \in [Jobs -> Nat] /\ delayMs' \in [Jobs -> Nat]
          /\ queue' \in Seq(Jobs) /\ retryQueue' \in Seq(Jobs)
      BY Zenon, <1>1, <3>1 DEF TxTypeOK
    <3> QED BY Zenon, <3>1, <3>2, <3>3, <3>4, <3>5, <3>6 DEF TxInv, CopyInv
  <2> QED BY Zenon, <2>1, <2>2
<1>7. SlotInv'
  BY Zenon, <1>1, <1>5, <1>6, SlotFrame DEF SlotInv
<1>8. TxTypeOK'
  <2>1. at' \in [Callers -> {"idle", "select", "next", "update"}]
    BY Zenon, <1>2, <1>3
  <2>2. call' \in [Jobs -> {"none", "restore", "insert", "ok", "error"}]
    BY Zenon, <1>2, <1>6
  <2>3. cur' \in [Callers -> SUBSET (Jobs \X Rows)]
    <3>1. Row("pending", 0, d) \in Rows
      BY Zenon, RowIsARow, JobQueueAssumption DEF JOB_STATUS
    <3>2. {<<j, Row("pending", 0, d)>>} \in SUBSET (Jobs \X Rows)
      BY <3>1
    <3>3. CASE cur' = [cur EXCEPT ![j] = {<<j, Row("pending", 0, d)>>}]
      BY Zenon, <1>2, <3>2, <3>3
    <3> QED BY Zenon, <1>2, <1>6, <3>3
  <2> QED BY Zenon, <1>1, <1>3, <1>5, <1>6, <2>1, <2>2, <2>3 DEF TxTypeOK
<1>9. CallerInv'
  <2>1. ASSUME NEW k \in Jobs
        PROVE  /\ at'[k] # "idle" => call'[k] = "restore"
               /\ call'[k] = "insert" => \A f \in cur'[k] : f[1] = k /\ f[2].status = "pending"
               /\ rows'[k] # NoRow => call'[k] \notin {"none", "restore"}
    <3>1. CASE k = j
      <4>1. at'[k] = "idle" /\ call'[k] \in {"insert", "error"}
        BY Zenon, <1>2, <1>3, <1>6, <3>1
      <4>2. call'[k] = "insert" => cur'[k] = NewEntry(j, d)
        BY Zenon, <1>2, <1>6, <3>1 DEF NewEntry
      <4>3. call'[k] \notin {"none", "restore"}
        BY Zenon, <4>1
      <4>4. \A f \in NewEntry(j, d) : f[1] = j /\ f[2].status = "pending"
        BY Zenon, PendingEntry
      <4> QED BY Zenon, <3>1, <4>1, <4>2, <4>3, <4>4
    <3>2. CASE k # j
      <4>1. at'[k] = at[k] /\ call'[k] = call[k] /\ cur'[k] = cur[k]
        <5>1. at'[k] = at[k]
          BY Zenon, <1>2, <1>3, <3>2 DEF Callers
        <5>2. call'[k] = call[k]
          BY ZenonT(60), <1>2, <1>6, <3>2
        <5>3. cur'[k] = cur[k]
          BY Zenon, <1>2, <1>6, <3>2 DEF Callers
        <5> QED BY Zenon, <5>1, <5>2, <5>3
      <4> QED BY ZenonT(60), <1>1, <1>5, <4>1 DEF CallerInv
    <3> QED BY Zenon, <3>1, <3>2
  <2>2. ASSUME NEW q \in Callers
        PROVE  /\ at'[q] \in {"next", "update"} => \A f \in todo'[q] : rows'[f[1]] # NoRow
               /\ at'[q] = "update" => \A f \in cur'[q] : rows'[f[1]] # NoRow
    <3>1. CASE q = j
      BY Zenon, <1>2, <1>3, <3>1
    <3>2. CASE q # j
      <4>1. at'[q] = at[q] /\ cur'[q] = cur[q]
        BY <1>2, <1>3, <1>6, <3>2
      <4> QED BY <1>1, <1>3, <1>5, <4>1 DEF CallerInv
    <3> QED BY Zenon, <3>1, <3>2
  <2> QED BY Zenon, <1>6, <2>1, <2>2 DEF CallerInv
<1>10. RowInv'
  <2>1. \A k \in Jobs : call'[k] = "ok" => call[k] = "ok"
    BY <1>2, <1>6
  <2> QED BY Zenon, <1>1, <1>3, <1>5, <2>1 DEF RowInv
<1>11. ~overlap' => CopyInv'
  BY Zenon, <1>3, <1>5, <1>6 DEF CopyInv
<1> QED BY <1>7, <1>8, <1>9, <1>10, <1>11 DEF TxInv

\* start() goes on after its restore(), or a statement of a restore() throws.
LEMMA TxRestoreEnds ==
  ASSUME TxInv, NEW r \in Callers, (r = START /\ RestoreThenStart) \/ RestoreFails(r)
  PROVE  TxInv'
<1>1. TxTypeOK /\ SlotInv /\ CallerInv /\ RowInv
  BY Zenon DEF TxInv
<1>2. /\ cur \in [Callers -> SUBSET (Jobs \X Rows)]
           /\ call \in [Jobs -> {"none", "restore", "insert", "ok", "error"}]
      /\ todo \in [Callers -> SUBSET (Jobs \X Rows)]
      /\ at \in [Callers -> {"idle", "select", "next", "update"}] /\ Jobs \subseteq Callers
  BY Zenon, <1>1 DEF TxTypeOK, Callers
<1>3. /\ at[r] # "idle" /\ at' = [at EXCEPT ![r] = "idle"]
      /\ UNCHANGED <<queueVars, running, processingCount, now, rows, writes, runs, settled, overlap>>
      /\ restored' \in {restored, TRUE}
      /\ loop' # "idle" => running = {}
      /\ \/ r = START /\ UNCHANGED <<call, cur, todo>>
         \/ /\ call' = (IF r = START THEN call ELSE [call EXCEPT ![r] = "error"])
            /\ todo' = [todo EXCEPT ![r] = {}] /\ cur' = [cur EXCEPT ![r] = {}]
  <2>1. CASE r = START /\ RestoreThenStart
    <3>1. loop' # "idle" => processingCount < MaxConcurrency
      BY Zenon, <2>1 DEF RestoreThenStart, Start, PollLoop
    <3>2. loop' # "idle" => running = {}
      BY <1>1, <3>1, TxSubmitterAssumption DEF SlotInv
    <3> QED BY Zenon, <2>1, <3>2 DEF RestoreThenStart, RestoreDone, Start, histories
  <2>2. CASE RestoreFails(r)
    BY Zenon, <1>1, <2>2 DEF RestoreFails, workerVars, SlotInv
  <2> QED BY Zenon, <2>1, <2>2
<1>4. UNCHANGED <<live, status, attempts, delayMs, queue, retryQueue>>
  BY Zenon, <1>3 DEF queueVars
<1>5. SlotInv'
  BY Zenon, <1>1, <1>3, <1>4, SlotFrame DEF SlotInv, InMemory
<1>6. /\ at' \in [Callers -> {"idle", "select", "next", "update"}]
      /\ cur' \in [Callers -> SUBSET (Jobs \X Rows)] /\ todo' \in [Callers -> SUBSET (Jobs \X Rows)]
      /\ \A q \in Callers : /\ cur'[q] \subseteq cur[q] /\ todo'[q] \subseteq todo[q]
                            /\ at'[q] # "idle" => at'[q] = at[q] /\ q # r
  BY Zenon, <1>2, <1>3
<1>7. /\ call' \in [Jobs -> {"none", "restore", "insert", "ok", "error"}]
      /\ \A k \in Jobs : call'[k] = call[k] \/ (k = r /\ call'[k] = "error")
  <2>1. r # START => r \in Jobs
    BY DEF Callers
  <2> QED BY <1>2, <1>3, <2>1
<1>8. TxTypeOK'
  <2>1. restored' \in BOOLEAN
    BY Zenon, <1>1, <1>3 DEF TxTypeOK
  <2> QED BY Zenon, <1>1, <1>3, <1>4, <1>6, <1>7, <2>1 DEF TxTypeOK
<1>9. CallerInv'
  <2>1. ASSUME NEW k \in Jobs
        PROVE  /\ at'[k] # "idle" => call'[k] = "restore"
               /\ call'[k] = "insert" => \A f \in cur'[k] : f[1] = k /\ f[2].status = "pending"
               /\ rows'[k] # NoRow => call'[k] \notin {"none", "restore"}
    BY <1>1, <1>2, <1>3, <1>6, <1>7 DEF CallerInv
  <2>2. ASSUME NEW q \in Callers
        PROVE  /\ at'[q] \in {"next", "update"} => \A f \in todo'[q] : rows'[f[1]] # NoRow
               /\ at'[q] = "update" => \A f \in cur'[q] : rows'[f[1]] # NoRow
    BY <1>1, <1>3, <1>6 DEF CallerInv
  <2> QED BY Zenon, <1>1, <1>4, <2>1, <2>2 DEF CallerInv
<1>10. RowInv'
  BY Zenon, <1>1, <1>3, <1>7 DEF RowInv
<1>11. ASSUME ~overlap' PROVE CopyInv'
  <2>1. CopyInv
    BY Zenon, <1>3, <1>11 DEF TxInv
  <2>2. \A q \in Callers : at'[q] = "idle"
    BY <1>3, <1>6, <2>1 DEF CopyInv
  <2>3. /\ Distinct(queue)' /\ Distinct(retryQueue)' /\ Elems(queue)' = Elems(queue)
        /\ Elems(retryQueue)' = Elems(retryQueue)
    BY Zenon, <1>4, <2>1, ArraysFrame DEF CopyInv
  <2> QED BY Zenon, <1>3, <1>4, <2>1, <2>2, <2>3 DEF CopyInv
<1> QED BY Zenon, <1>5, <1>8, <1>9, <1>10, <1>11 DEF TxInv

\* The process dies: memory and what has not landed are gone, the table stays.
LEMMA TxCrash ==
  ASSUME TxInv, Crash
  PROVE  TxInv'
<1>1. TxTypeOK /\ CallerInv /\ RowInv
  BY DEF TxInv
<1>2. /\ live' = {} /\ status' = [j \in Jobs |-> "unused"] /\ attempts' = [j \in Jobs |-> 0]
      /\ delayMs' = [j \in Jobs |-> 0] /\ queue' = <<>> /\ retryQueue' = <<>> /\ now' = now
      /\ processingCount' = 0 /\ running' = {} /\ loop' = "idle"
  BY Zenon DEF Crash
<1>3. /\ rows' = rows /\ writes' = {} /\ settled' = settled
      /\ call' = [j \in Jobs |-> IF call[j] \in {"restore", "insert"} THEN "error" ELSE call[j]]
      /\ at' = [r \in Callers |-> "idle"] /\ todo' = [r \in Callers |-> {}] /\ cur' = [r \in Callers |-> {}]
      /\ restored' = FALSE /\ runs' = [j \in Jobs |-> 0] /\ overlap' = FALSE
  BY Zenon DEF Crash
<1>4. TxTypeOK'
  <2>1. call' \in [Jobs -> {"none", "restore", "insert", "ok", "error"}]
    BY Zenon, <1>1, <1>3 DEF TxTypeOK
  <2> QED BY Zenon, <1>1, <1>2, <1>3, <2>1, EmptyFacts DEF TxTypeOK
<1>5. SlotInv'
  BY Zenon, <1>2 DEF SlotInv
<1>6. CallerInv'
  BY Zenon, <1>1, <1>2, <1>3 DEF CallerInv, Callers
<1>7. RowInv'
  BY Zenon, <1>1, <1>3 DEF RowInv
<1>8. CopyInv'
  <2>1. Elems(queue)' = {} /\ Elems(retryQueue)' = {} /\ Distinct(queue)' /\ Distinct(retryQueue)'
    BY <1>2 DEF Elems, Distinct
  <2> QED BY Zenon, <1>2, <1>3, <2>1 DEF CopyInv
<1> QED BY Zenon, <1>4, <1>5, <1>6, <1>7, <1>8 DEF TxInv

\* Every step keeps the invariant.
LEMMA TxInductive == TxInv /\ [TxNext]_txVars => TxInv'
<1> SUFFICES ASSUME TxInv, [TxNext]_txVars PROVE TxInv'
  BY Zenon
<1>1. CASE Poll
  BY Zenon, <1>1, TxQuietSteps, TxPasses, TxTakes DEF Poll
<1>2. ASSUME NEW r \in Callers, CallRestore(r) \/ RestoreStep(r) PROVE TxInv'
  BY Zenon, <1>2, TxSelects, TxRestoresRow, TxRestoresPending, TxRestoreEnds, TxEnqueues DEF RestoreStep
<1>3. CASE Lands
  BY Zenon, <1>3, TxInserts, TxWrites DEF Lands
<1>4. CASE Fails
  BY Zenon, <1>4, TxInserts, TxWrites, TxRestoreEnds DEF Fails
<1> QED BY Zenon, <1>1, <1>2, <1>3, <1>4, TxQuietSteps, TxEnqueues, TxSettles, TxCrash DEF TxNext

-----------------------------------------------------------------------------
(* The theorems on the submitter.                                          *)

\* The inductive invariant holds in every behaviour of the submitter, crashes,
\* restarts and failing statements included.
THEOREM TxInvariant == TxSpec => []TxInv
BY TxStart, TxInductive, PTL DEF TxSpec

\* DurableJobQueue: a submission whose enqueue returned is in memory or has a row to
\* restore it from, until its handler has settled.
THEOREM SubmissionsAreKept == TxSpec => []NothingForgotten
<1>1. TxInv => NothingForgotten
  BY DEF TxInv, RowInv, NothingForgotten
<1> QED BY <1>1, TxInvariant, PTL

\* restore(): without an overlap of two calls of it a submission is in one place, and
\* handled at most once in one life of the process.
THEOREM SubmissionsRunOnce == TxSpec => []OneCopy
<1>1. TxInv => OneCopy
  <2> SUFFICES ASSUME TxInv, ~overlap PROVE JobInOnePlace /\ \A j \in Jobs : runs[j] <= 1
    BY DEF OneCopy
  <2>1. CopyInv /\ SlotInv /\ runs \in [Jobs -> Nat]
    BY Zenon DEF TxInv, TxTypeOK
  <2>2. \A j \in Jobs : runs[j] <= 1
    BY <2>1 DEF CopyInv
  <2>3. /\ \A c \in running : c[1] \notin Elems(queue) \cup Elems(retryQueue)
        /\ \A c, e \in running : c[1] = e[1] => c = e
    BY Zenon, <2>1 DEF CopyInv, SlotInv
  <2> QED BY <2>1, <2>2, <2>3 DEF CopyInv, JobInOnePlace
<1> QED BY <1>1, TxInvariant, PTL

\* What no step but a write, a push or a selection can undo.
LEMMA EndedFrame ==
  ASSUME NEW j \in Jobs, Ended(j), UNCHANGED <<live, status>>,
         rows'[j] = rows[j], \A w \in writes' : w \in writes \/ w[1] # j,
         \A r \in Callers : \A e \in todo'[r] \cup cur'[r] : e \in todo[r] \cup cur[r] \/ e[1] # j
  PROVE  Ended(j)'
BY DEF Ended, InMemory

\* A job's save writes its own row.
LEMMA PersistsOwn ==
  ASSUME NEW j \in Jobs, NEW k \in Jobs, k # j, persistJobState(k), \A w \in writes : w[1] # j
  PROVE  \A w \in writes' : w[1] # j
<1>1. PICK x : writes' = writes \cup {<<k, x>>}
  BY Zenon DEF persistJobState
<1> QED BY Zenon, <1>1, OtherRow

\* No step takes an ended job back: its row is selected by no restore(), its id is
\* pushed by no enqueue() and its handler has returned.
LEMMA EndedStep ==
  ASSUME TxInv, TxNext, NEW j \in Jobs, Ended(j)
  PROVE  Ended(j)'
<1>1. TxTypeOK /\ SlotInv /\ CallerInv
  BY DEF TxInv
<1>2. /\ status \in [Jobs -> JOB_STATUS \cup {"unused"}] /\ rows \in [Jobs -> Rows \cup {NoRow}]
      /\ cur \in [Callers -> SUBSET (Jobs \X Rows)] /\ todo \in [Callers -> SUBSET (Jobs \X Rows)]
      /\ Jobs \subseteq Callers /\ live \subseteq Jobs
  BY Zenon, <1>1 DEF TxTypeOK, Callers
<1>3. /\ rows[j].status \in {"completed", "failed"} /\ \A w \in writes : w[1] # j
      /\ \A r \in Callers : \A e \in todo[r] \cup cur[r] : e[1] # j
      /\ ~InMemory(j)
  BY DEF Ended
<1>4. rows[j] # NoRow /\ call[j] \notin {"none", "restore"}
  <2>1. rows[j] # NoRow
    BY <1>3 DEF NoRow
  <2> QED BY Zenon, <1>1, <2>1 DEF CallerInv
<1>5. ASSUME NEW k \in Jobs, k # j, NEW s,
             live' \subseteq live \cup {k}, status' = [status EXCEPT ![k] = s]
      PROVE  ~InMemory(j)'
  BY Zenon, <1>2, <1>3, <1>5 DEF InMemory
<1>6. ASSUME NEW k \in Jobs, EnqueueRestored(k) \/ RestoreThenEnqueue(k) PROVE Ended(j)'
  <2>1. call[k] \in {"none", "restore"}
    <3>1. CASE EnqueueRestored(k)
      BY Zenon, <3>1 DEF EnqueueRestored
    <3>2. CASE RestoreThenEnqueue(k)
      BY Zenon, <1>1, <3>2 DEF RestoreThenEnqueue, RestoreDone, CallerInv
    <3> QED BY Zenon, <1>6, <3>1, <3>2
  <2>2. k # j
    BY Zenon, <1>4, <2>1
  <2>3. PICK d \in Delays : DurableEnqueue(k, d)
    BY Zenon, <1>6 DEF EnqueueRestored, RestoreThenEnqueue
  <2>4. UNCHANGED <<rows, writes, todo>>
    BY Zenon, <1>6, <2>3 DEF DurableEnqueue, EnqueueRestored, RestoreThenEnqueue, RestoreDone
  <2>5. \A r \in Callers : cur'[r] \subseteq cur[r] \cup {<<k, Row("pending", 0, d)>>}
    BY Zenon, <1>2, <2>3 DEF DurableEnqueue
  <2>6. ~InMemory(j)'
    <3>1. CASE enqueue(k, d)
      BY Zenon, <1>5, <2>2, <3>1 DEF enqueue
    <3>2. CASE UNCHANGED queueVars
      BY Zenon, <1>3, <3>2 DEF queueVars, InMemory
    <3> QED BY Zenon, <2>3, <3>1, <3>2 DEF DurableEnqueue
  <2>7. \A r \in Callers : \A e \in todo'[r] \cup cur'[r] : e[1] # j
    BY <1>3, <2>2, <2>4, <2>5
  <2> QED BY Zenon, <1>3, <2>4, <2>6, <2>7 DEF Ended
<1>7. ASSUME NEW r \in Callers, CallRestore(r) \/ RestoreFails(r) \/ (r = START /\ RestoreThenStart)
      PROVE Ended(j)'
  <2>1. UNCHANGED <<live, status, rows, writes>>
    BY Zenon, <1>7 DEF CallRestore, RestoreFails, RestoreThenStart, Start, queueVars
  <2>2. \A q \in Callers : todo'[q] \subseteq todo[q] /\ cur'[q] \subseteq cur[q]
    BY Zenon, <1>2, <1>7 DEF CallRestore, RestoreFails, RestoreThenStart, RestoreDone
  <2> QED BY Zenon, <2>1, <2>2, EndedFrame
<1>8. ASSUME NEW r \in Callers, SelectUnfinished(r) PROVE Ended(j)'
  <2> DEFINE found == {<<k, rows[k]>> : k \in {i \in Jobs : rows[i].status \in NON_TERMINAL_STATUSES}}
  <2>1. todo' = [todo EXCEPT ![r] = found] /\ UNCHANGED <<live, status, rows, writes, cur>>
    BY Zenon, <1>8 DEF SelectUnfinished, queueVars
  <2>2. \A e \in found : e[1] # j
    BY <1>3 DEF NON_TERMINAL_STATUSES
  <2> HIDE DEF found
  <2>3. \A q \in Callers : todo'[q] \in {todo[q], found}
    BY Zenon, <1>2, <2>1
  <2> QED BY Zenon, <2>1, <2>2, <2>3, EndedFrame
<1>9. ASSUME NEW r \in Callers, NEW e \in todo[r], RestoreRow(r, e) PROVE Ended(j)'
  <2>1. e[1] \in Jobs /\ e[1] # j
    BY <1>2, <1>3
  <2>2. UNCHANGED <<rows, writes>> /\ todo' = [todo EXCEPT ![r] = @ \ {e}]
    BY Zenon, <1>9 DEF RestoreRow
  <2>3. cur' = cur \/ cur' = [cur EXCEPT ![r] = {e}]
    BY <1>9 DEF RestoreRow
  <2>4. ~InMemory(j)'
    <3>1. CASE UNCHANGED queueVars
      BY <1>3, <3>1 DEF queueVars, InMemory
    <3>2. CASE AddJob(e[1], e[2])
      BY Zenon, <1>5, <2>1, <3>2 DEF AddJob
    <3> QED BY Zenon, <1>9, <3>1, <3>2 DEF RestoreRow
  <2>5. \A q \in Callers : \A f \in todo'[q] \cup cur'[q] : f \in todo[q] \cup cur[q] \/ f = e
    BY <1>2, <2>2, <2>3
  <2>6. \A q \in Callers : \A f \in todo'[q] \cup cur'[q] : f[1] # j
    BY <1>3, <2>1, <2>5
  <2> QED BY Zenon, <1>3, <2>2, <2>4, <2>6 DEF Ended
<1>10. ASSUME NEW r \in Callers, RestorePending(r) PROVE Ended(j)'
  <2>1. PICK e \in cur[r] : /\ rows' = [rows EXCEPT ![e[1]].status = "pending"]
                            /\ AddJob(e[1], [e[2] EXCEPT !.status = "pending"])
    BY Zenon, <1>10 DEF RestorePending
  <2>2. cur' = [cur EXCEPT ![r] = {}] /\ UNCHANGED <<writes, todo>>
    BY Zenon, <1>10 DEF RestorePending
  <2>3. e[1] \in Jobs /\ e[1] # j
    BY <1>2, <1>3
  <2>4. rows'[j] = rows[j]
    BY Zenon, <1>2, <2>1, <2>3
  <2>5. ~InMemory(j)'
    BY Zenon, <1>5, <2>1, <2>3 DEF AddJob
  <2>6. \A q \in Callers : todo'[q] \subseteq todo[q] /\ cur'[q] \subseteq cur[q]
    BY Zenon, <1>2, <2>2
  <2> QED BY Zenon, <1>3, <2>2, <2>4, <2>5, <2>6 DEF Ended
<1>11. ASSUME Poll PROVE Ended(j)'
  <2>1. UNCHANGED <<live, rows, todo, cur>>
    BY Zenon, <1>11 DEF Poll, DurableTake, PollTakesRetry, PollTakesMain, DequeueRetry, DequeueMain, Dispatch,
                 PollTimerFires, PollPassesRetry, PollPassesMain, PassRetry, PassMain, PollEnds, queueVars
  <2>2. CASE UNCHANGED <<status, writes>>
    BY Zenon, <2>1, <2>2, EndedFrame
  <2>3. CASE \E k \in live : /\ status[k] \in {"pending", "retrying"} /\ status' = [status EXCEPT ![k] = "processing"]
                             /\ persistJobState(k)
    <3>1. PICK k \in live : /\ status[k] \in {"pending", "retrying"} /\ status' = [status EXCEPT ![k] = "processing"]
                            /\ persistJobState(k)
      BY Zenon, <2>3
    <3>2. k \in Jobs /\ k # j
      BY Zenon, <1>2, <1>3, <3>1 DEF InMemory, NON_TERMINAL_STATUSES
    <3>3. \A w \in writes' : w[1] # j
      BY Zenon, <1>3, <3>1, <3>2, PersistsOwn
    <3>4. ~InMemory(j)'
      BY Zenon, <1>5, <2>1, <3>1, <3>2
    <3> QED BY Zenon, <1>3, <2>1, <3>3, <3>4 DEF Ended
  <2> QED BY Zenon, <1>11, <2>2, <2>3
       DEF Poll, DurableTake, PollTakesRetry, PollTakesMain, DequeueRetry, DequeueMain, Dispatch,
           RetryHeadReady, MainHeadReady, isReadyToProcess,
           PollTimerFires, PollPassesRetry, PollPassesMain, PassRetry, PassMain, PollEnds, queueVars
<1>12. ASSUME NEW c \in running, SubmitSettles(c) PROVE Ended(j)'
  <2>1. InMemory(c[1])
    BY Zenon, <1>1 DEF SlotInv
  <2>2. c[1] \in Jobs /\ c[1] \in live /\ c[1] # j
    BY Zenon, <1>2, <1>3, <2>1 DEF InMemory
  <2>3. ack(c[1]) \/ retry(c[1])
    BY Zenon, <1>12, <2>2 DEF SubmitSettles, HandlerSettles, HandlerResolves, HandlerThrows, RetryOrThrow
  <2>4. live' = live /\ \E s \in JOB_STATUS : status' = [status EXCEPT ![c[1]] = s]
    BY Zenon, <2>3 DEF ack, retry, JOB_STATUS
  <2>5. ~InMemory(j)'
    BY Zenon, <1>5, <2>2, <2>4
  <2>6. UNCHANGED <<rows, todo, cur>> /\ persistJobState(c[1])
    BY <1>12 DEF SubmitSettles
  <2>7. \A w \in writes' : w[1] # j
    BY Zenon, <1>3, <2>2, <2>6, PersistsOwn
  <2> QED BY Zenon, <1>3, <2>5, <2>6, <2>7 DEF Ended
<1>13. ASSUME NEW k \in Jobs, InsertLands(k) \/ InsertFails(k) PROVE Ended(j)'
  <2>1. PICK e \in cur[k] : rows' \in {rows, [rows EXCEPT ![k] = e[2]]}
    BY Zenon, <1>13 DEF InsertLands, InsertFails
  <2>2. e[1] = k /\ k # j
    <3>1. call[k] = "insert"
      BY Zenon, <1>13 DEF InsertLands, InsertFails
    <3>2. e[1] = k
      BY Zenon, <1>1, <2>1, <3>1 DEF CallerInv
    <3> QED BY Zenon, <1>2, <1>3, <2>1, <3>2
  <2>3. cur' = [cur EXCEPT ![k] = {}] /\ UNCHANGED <<live, status, writes, todo>>
    BY Zenon, <1>13 DEF InsertLands, InsertFails, queueVars
  <2>4. rows'[j] = rows[j] /\ \A r \in Callers : cur'[r] \subseteq cur[r]
    BY Zenon, <1>2, <2>1, <2>2, <2>3
  <2> QED BY Zenon, <2>3, <2>4, EndedFrame
<1>14. ASSUME NEW w \in writes, WriteLands(w) \/ WriteFails(w) PROVE Ended(j)'
  <2>1. rows' \in {rows, [rows EXCEPT ![w[1]] = w[2]]} /\ writes' \subseteq writes
          /\ UNCHANGED <<live, status, todo, cur>>
    BY Zenon, <1>14 DEF WriteLands, WriteFails, memory, queueVars
  <2>2. rows'[j] = rows[j]
    BY Zenon, <1>2, <1>3, <2>1
  <2> QED BY Zenon, <2>1, <2>2, EndedFrame
<1>15. ASSUME StartRestored \/ SubmitRetries \/ TxTick PROVE Ended(j)'
  <2>1. UNCHANGED <<live, status, rows, writes, todo, cur>>
    BY Zenon, <1>15 DEF StartRestored, Start, SubmitRetries, TxTick, Tick, queueVars
  <2> QED BY Zenon, <2>1, EndedFrame
<1>16. ASSUME Crash PROVE Ended(j)'
  <2>1. /\ live' = {} /\ rows' = rows /\ writes' = {}
        /\ todo' = [r \in Callers |-> {}] /\ cur' = [r \in Callers |-> {}]
    BY Zenon, <1>16 DEF Crash
  <2> QED BY Zenon, <1>3, <2>1 DEF Ended, InMemory
<1> QED BY Zenon, <1>6, <1>7, <1>8, <1>9, <1>10, <1>11, <1>12, <1>13, <1>14, <1>15, <1>16
     DEF TxNext, RestoreStep, Lands, Fails

\* restore() and its SELECT: no crash and no restart takes a job whose row has ended
\* back to a queue.
THEOREM AckedStaysAcked == TxSpec => EndedStaysEnded
<1>1. TxInv /\ [TxNext]_txVars => [\A j \in Jobs : Ended(j) => Ended(j)']_txVars
  BY Zenon, EndedStep
<1> QED BY <1>1, TxInvariant, PTL DEF TxSpec, EndedStaysEnded

=============================================================================

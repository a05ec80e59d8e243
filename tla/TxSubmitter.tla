---------------------------- MODULE TxSubmitter ----------------------------
(***************************************************************************)
(* The transaction submitter (src/src/workers/txSubmitter.js): a           *)
(* BackgroundWorker over a DurableJobQueue (second half of                 *)
(* src/src/workers/jobQueue.js), which keeps a row of tx_submissions for   *)
(* every job and puts unfinished ones back after a restart.                *)
(*                                                                         *)
(* The process of BackgroundWorker is extended by the database and by      *)
(* crashes.  Updates made by dequeue(), ack() and retry() are not awaited: *)
(* they sit in writes until they land, in any order, or fail.  A crash     *)
(* drops what has not landed and everything in memory; the restart is part *)
(* of the same step.  The constant NON_TERMINAL_STATUSES is used but not   *)
(* declared in jobQueue.js; it is taken to be what its name says.          *)
(***************************************************************************)
EXTENDS BackgroundWorker

CONSTANTS
  TxMaxRetries,   \* cfg.maxRetries of submitWithRetry()
  MaxCrashes,     \* bound on crashes
  MaxFaults       \* bound on database statements that fail

START == "start"                   \* start(), the caller that is no enqueue
Callers == Jobs \cup {START}

\* The queue is built with maxRetries 0 and the worker with its default of one slot.
ASSUME TxSubmitterAssumption ==
  /\ START \notin Jobs
  /\ MaxRetries = 0
  /\ MaxConcurrency = 1
  /\ TxMaxRetries \in Nat
  /\ MaxCrashes \in Nat
  /\ MaxFaults \in Nat

VARIABLES
  rows,       \* tx_submissions: job -> its row, or NoRow
  writes,     \* updates that were issued and have not landed
  call,       \* enqueueTxSubmission() of a job
  at,         \* where each caller of ensureRestored() is
  todo,       \* rows its restore() still has to look at
  cur,        \* the row whose INSERT or UPDATE it awaits
  restored,   \* restored and txQueue._restored
  tries,      \* attempt of submitWithRetry() in the handler that runs
  crashes, faults,
  runs,       \* history: handler runs of a job since the last restart
  settled,    \* history: jobs whose handler settled
  overlap     \* history: two calls of restore() were under way at once

memory == <<queueVars, workerVars, at, todo, cur, restored, tries>>
histories == <<crashes, faults, runs, settled, overlap>>
txVars == <<now, memory, rows, writes, call, histories>>

NoRow == [status |-> "none", attempts |-> 0, delayMs |-> 0]
NON_TERMINAL_STATUSES == {"pending", "processing", "retrying"}

TxInit ==
  /\ Init
  /\ rows = [j \in Jobs |-> NoRow]
  /\ writes = {}
  /\ call = [j \in Jobs |-> "none"]
  /\ at = [r \in Callers |-> "idle"]
  /\ todo = [r \in Callers |-> {}]
  /\ cur = [r \in Callers |-> {}]
  /\ restored = FALSE
  /\ tries = 0
  /\ crashes = 0 /\ faults = 0
  /\ runs = [j \in Jobs |-> 0]
  /\ settled = {}
  /\ overlap = FALSE

\* restore() runs without a pause between two awaits.
Awake == \A r \in Callers : at[r] # "next"

-----------------------------------------------------------------------------
(* DurableJobQueue: the writes behind the in-memory operations. *)

Row(s, a, d) == [status |-> s, attempts |-> a, delayMs |-> d]

\* _persistJobState() takes the values the record has when it is called.
persistJobState(j) ==
  writes' = writes \cup {<<j, Row(status'[j], attempts'[j], delayMs'[j])>>}

\* An update of a row that is not there yet changes nothing.
WriteLands(w) ==
  /\ w \in writes
  /\ writes' = writes \ {w}
  /\ rows' = IF rows[w[1]] = NoRow THEN rows ELSE [rows EXCEPT ![w[1]] = w[2]]
  /\ UNCHANGED <<now, memory, call, histories>>

Fault == faults < MaxFaults /\ faults' = faults + 1

\* .catch() logs the error.
WriteFails(w) ==
  /\ w \in writes
  /\ Fault
  /\ writes' = writes \ {w}
  /\ UNCHANGED <<now, memory, rows, call, crashes, runs, settled, overlap>>

\* enqueue(): into memory at once, where the worker may take the job before the
\* INSERT, which is awaited, has landed.
DurableEnqueue(j, d) ==
  /\ IF HasRoom
       THEN /\ enqueue(j, d)
            /\ call' = [call EXCEPT ![j] = "insert"]
            /\ cur' = [cur EXCEPT ![j] = {<<j, Row("pending", 0, d)>>}]
       ELSE /\ call' = [call EXCEPT ![j] = "error"]
            /\ UNCHANGED <<queueVars, cur>>
  /\ UNCHANGED <<now, workerVars, rows, writes>>

InsertLands(j) ==
  /\ Awake /\ loop = "idle"
  /\ call[j] = "insert"
  /\ \E e \in cur[j] : rows' = [rows EXCEPT ![j] = e[2]]
  /\ call' = [call EXCEPT ![j] = "ok"]
  /\ cur' = [cur EXCEPT ![j] = {}]
  /\ UNCHANGED <<now, queueVars, workerVars, writes, at, todo, restored, tries, histories>>

InsertFailsQuietly(j) ==
  /\ Awake /\ loop = "idle"
  /\ call[j] = "insert"
  /\ Fault
  /\ call' = [call EXCEPT ![j] = "ok"]
  /\ cur' = [cur EXCEPT ![j] = {}]
  /\ UNCHANGED <<now, queueVars, workerVars, rows, writes, at, todo, restored, tries,
                 crashes, runs, settled, overlap>>

\* The caller is told of an error; the job stays in memory.
InsertFails(j) ==
  /\ Awake /\ loop = "idle"
  /\ call[j] = "insert"
  /\ Fault
  /\ \E e \in cur[j] : rows' \in {rows, [rows EXCEPT ![j] = e[2]]}
  /\ call' = [call EXCEPT ![j] = "error"]
  /\ cur' = [cur EXCEPT ![j] = {}]
  /\ UNCHANGED <<now, queueVars, workerVars, writes, at, todo, restored, tries,
                 crashes, runs, settled, overlap>>

-----------------------------------------------------------------------------
(* ensureRestored() and what its callers do next. *)

\* start() or enqueueTxSubmission(j) finds the queue not restored.
CallRestore(r) ==
  /\ Awake /\ loop = "idle"
  /\ ~restored /\ at[r] = "idle"
  /\ IF r = START THEN ~isRunning /\ UNCHANGED call
     ELSE call[r] = "none" /\ call' = [call EXCEPT ![r] = "restore"]
  /\ at' = [at EXCEPT ![r] = "select"]
  /\ overlap' = (overlap \/ \E q \in Callers : at[q] # "idle")
  /\ UNCHANGED <<now, queueVars, workerVars, rows, writes, todo, cur, restored, tries,
                 crashes, faults, runs, settled>>

SelectWaiting(r) ==
  /\ Awake /\ loop = "idle"
  /\ at[r] = "select"
  /\ todo' = [todo EXCEPT ![r] =
                {<<j, rows[j]>> : j \in {k \in Jobs : rows[k].status \in {"pending", "retrying"}}}]
  /\ at' = [at EXCEPT ![r] = "next"]
  /\ UNCHANGED <<now, queueVars, workerVars, rows, writes, call, cur, restored, tries, histories>>

SelectAllAsPending(r) ==
  /\ Awake /\ loop = "idle"
  /\ at[r] = "select"
  /\ todo' = [todo EXCEPT ![r] =
                {<<j, [rows[j] EXCEPT !.status = "pending"]>> : j \in {k \in Jobs : rows[k] # NoRow}}]
  /\ at' = [at EXCEPT ![r] = "next"]
  /\ UNCHANGED <<now, queueVars, workerVars, rows, writes, call, cur, restored, tries, histories>>

SelectUnfinished(r) ==
  /\ Awake /\ loop = "idle"
  /\ at[r] = "select"
  /\ todo' = [todo EXCEPT ![r] =
                {<<j, rows[j]>> : j \in {k \in Jobs : rows[k].status \in NON_TERMINAL_STATUSES}}]
  /\ at' = [at EXCEPT ![r] = "next"]
  /\ UNCHANGED <<now, queueVars, workerVars, rows, writes, call, cur, restored, tries, histories>>

\* jobs.set() and the push; the record is the row's.
AddJob(j, row) ==
  /\ live' = live \cup {j}
  /\ status' = [status EXCEPT ![j] = row.status]
  /\ attempts' = [attempts EXCEPT ![j] = row.attempts]
  /\ delayMs' = [delayMs EXCEPT ![j] = row.delayMs]
  /\ IF row.status = "retrying"
       THEN retryQueue' = Append(retryQueue, j) /\ UNCHANGED queue
       ELSE queue' = Append(queue, j) /\ UNCHANGED retryQueue

RestoreRowAgain(r, e) ==
  /\ at[r] = "next" /\ e \in todo[r]
  /\ todo' = [todo EXCEPT ![r] = @ \ {e}]
  /\ IF e[2].status = "processing"
       THEN /\ at' = [at EXCEPT ![r] = "update"]
            /\ cur' = [cur EXCEPT ![r] = {e}]
            /\ UNCHANGED queueVars
       ELSE AddJob(e[1], e[2]) /\ UNCHANGED <<at, cur>>
  /\ UNCHANGED <<now, workerVars, rows, writes, call, restored, tries, histories>>

\* One iteration of the loop.  A job that is already in the Map is skipped.
RestoreRow(r, e) ==
  /\ at[r] = "next" /\ e \in todo[r]
  /\ todo' = [todo EXCEPT ![r] = @ \ {e}]
  /\ CASE e[1] \in live -> UNCHANGED <<queueVars, at, cur>>
       [] e[1] \notin live /\ e[2].status = "processing" ->
            /\ at' = [at EXCEPT ![r] = "update"]
            /\ cur' = [cur EXCEPT ![r] = {e}]
            /\ UNCHANGED queueVars
       [] OTHER -> AddJob(e[1], e[2]) /\ UNCHANGED <<at, cur>>
  /\ UNCHANGED <<now, workerVars, rows, writes, call, restored, tries, histories>>

\* A job that was being processed goes back to pending, in its row first.
RestorePending(r) ==
  /\ Awake /\ loop = "idle"
  /\ at[r] = "update"
  /\ \E e \in cur[r] :
       /\ rows' = [rows EXCEPT ![e[1]].status = "pending"]
       /\ AddJob(e[1], [e[2] EXCEPT !.status = "pending"])
  /\ cur' = [cur EXCEPT ![r] = {}]
  /\ at' = [at EXCEPT ![r] = "next"]
  /\ UNCHANGED <<now, workerVars, writes, call, todo, restored, tries, histories>>

RestoreDone(r) ==
  /\ at[r] = "next" /\ todo[r] = {}
  /\ restored' = TRUE
  /\ at' = [at EXCEPT ![r] = "idle"]
  /\ UNCHANGED <<todo, tries, histories>>

RestoreThenStart ==
  /\ RestoreDone(START)
  /\ Start
  /\ UNCHANGED <<rows, writes, call, cur>>

RestoreThenEnqueue(j) ==
  /\ RestoreDone(j)
  /\ \E d \in Delays : DurableEnqueue(j, d)

\* A statement of restore() throws, and its caller with it; what is in the queue
\* by then stays there.
RestoreFails(r) ==
  /\ Awake /\ loop = "idle"
  /\ at[r] \in {"select", "update"}
  /\ Fault
  /\ at' = [at EXCEPT ![r] = "idle"]
  /\ todo' = [todo EXCEPT ![r] = {}]
  /\ cur' = [cur EXCEPT ![r] = {}]
  /\ call' = IF r = START THEN call ELSE [call EXCEPT ![r] = "error"]
  /\ UNCHANGED <<now, queueVars, workerVars, rows, writes, restored, tries,
                 crashes, runs, settled, overlap>>

StartRestored ==
  /\ Awake /\ restored /\ at[START] = "idle"
  /\ Start
  /\ UNCHANGED <<rows, writes, call, at, todo, cur, restored, tries, histories>>

EnqueueRestored(j) ==
  /\ Awake /\ loop = "idle"
  /\ restored /\ call[j] = "none"
  /\ \E d \in Delays : DurableEnqueue(j, d)
  /\ UNCHANGED <<at, todo, restored, tries, histories>>

-----------------------------------------------------------------------------
(* The worker. *)

\* dequeue() of the durable queue, inside _poll().
DurableTake(j) ==
  /\ persistJobState(j)
  /\ tries' = 0
  /\ runs' = [runs EXCEPT ![j] = @ + 1]
  /\ UNCHANGED <<rows, call, at, todo, cur, restored, crashes, faults, settled, overlap>>

Poll ==
  /\ Awake
  /\ \/ PollTakesRetry /\ DurableTake(Head(retryQueue))
     \/ PollTakesMain /\ DurableTake(Head(queue))
     \/ /\ PollTimerFires \/ PollPassesRetry \/ PollPassesMain \/ PollEnds
        /\ UNCHANGED <<rows, writes, call, at, todo, cur, restored, tries, histories>>

\* submitWithRetry(): a retryable error before the last attempt.  The sleep is
\* part of the next attempt.
SubmitRetries ==
  /\ Awake /\ loop = "idle"
  /\ running # {} /\ tries < TxMaxRetries
  /\ tries' = tries + 1
  /\ UNCHANGED <<now, queueVars, workerVars, rows, writes, call, at, todo, cur, restored, histories>>

\* ack() or retry() of the durable queue; each persists the record once the
\* in-memory operation has returned.
SubmitSettles(c) ==
  /\ Awake
  /\ HandlerSettles(c)
  /\ persistJobState(c[1])
  /\ settled' = settled \cup {c[1]}
  /\ UNCHANGED <<rows, call, at, todo, cur, restored, tries, crashes, faults, runs, overlap>>

TxTick ==
  /\ Awake /\ Tick
  /\ UNCHANGED <<rows, writes, call, at, todo, cur, restored, tries, histories>>

\* The process dies and is started again: a stop() that does not wait for the
\* writes, at the end of the process, does the same.
Crash ==
  /\ crashes < MaxCrashes
  /\ crashes' = crashes + 1
  /\ live' = {} /\ queue' = <<>> /\ retryQueue' = <<>>
  /\ status' = [j \in Jobs |-> "unused"]
  /\ attempts' = [j \in Jobs |-> 0] /\ delayMs' = [j \in Jobs |-> 0]
  /\ isRunning' = FALSE /\ processingCount' = 0 /\ running' = {} /\ loop' = "idle"
  /\ timers' = 0 /\ pollTimer' = "null" /\ stop' = "none"
  /\ at' = [r \in Callers |-> "idle"]
  /\ todo' = [r \in Callers |-> {}] /\ cur' = [r \in Callers |-> {}]
  /\ restored' = FALSE /\ tries' = 0 /\ overlap' = FALSE
  /\ writes' = {}
  /\ call' = [j \in Jobs |-> IF call[j] \in {"restore", "insert"} THEN "error" ELSE call[j]]
  /\ runs' = [j \in Jobs |-> 0]
  /\ UNCHANGED <<now, rows, faults, settled>>

RestoreStep(r) ==
  \/ SelectUnfinished(r)
  \/ \E e \in todo[r] : RestoreRow(r, e)
  \/ RestorePending(r)
  \/ r = START /\ RestoreThenStart
  \/ r \in Jobs /\ RestoreThenEnqueue(r)

Lands == (\E j \in Jobs : InsertLands(j)) \/ \E w \in writes : WriteLands(w)

Fails ==
  \/ \E j \in Jobs : InsertFails(j)
  \/ \E w \in writes : WriteFails(w)
  \/ \E r \in Callers : RestoreFails(r)

TxNext ==
  \/ \E j \in Jobs : EnqueueRestored(j)
  \/ \E r \in Callers : CallRestore(r) \/ RestoreStep(r)
  \/ StartRestored
  \/ Poll
  \/ SubmitRetries
  \/ \E c \in running : SubmitSettles(c)
  \/ Lands
  \/ Fails
  \/ TxTick
  \/ Crash

\* The event loop, the timers and the database go on; submissions settle; and the
\* submitter is started whenever it is not running.
TxFairness ==
  /\ WF_txVars(Poll)
  /\ WF_txVars(CallRestore(START)) /\ WF_txVars(StartRestored)
  /\ \A r \in Callers : WF_txVars(RestoreStep(r))
  /\ WF_txVars(Lands)
  /\ WF_txVars(TxTick)
  /\ SF_txVars(\E c \in running : SubmitSettles(c))

TxSpec == TxInit /\ [][TxNext]_txVars /\ TxFairness

-----------------------------------------------------------------------------
(* Properties. *)

InMemory(j) == j \in live /\ status[j] \in NON_TERMINAL_STATUSES

\* jobQueue.js: "Database-backed job queue for crash-safe transaction submission".
\* A submission whose enqueue returned is in memory, or has a row from which
\* restore() can bring it back, until its handler has settled: no crash, lost write
\* or order of writes forgets it.
NothingForgotten ==
  \A j \in Jobs :
    call[j] = "ok" => \/ j \in settled
                      \/ InMemory(j)
                      \/ rows[j].status \in NON_TERMINAL_STATUSES

\* Unless two calls of restore() overlap, a submission is in one queue once or with
\* one handler, and is handled at most once in one life of the process, whatever
\* restore() finds in the table and in memory, and however often it was tried.
OneCopy == ~overlap => JobInOnePlace /\ \A j \in Jobs : runs[j] <= 1

Ended(j) ==
  /\ rows[j].status \in {"completed", "failed"}
  /\ \A w \in writes : w[1] # j
  /\ \A r \in Callers : \A e \in todo[r] \cup cur[r] : e[1] # j
  /\ ~InMemory(j)

\* README.md: "No double-run of acked jobs".  A job whose row says it has ended, with
\* no older write on its way and no copy of an older row in a restore(), stays so: no
\* crash and no restart brings it back to a queue.
EndedStaysEnded == [][\A j \in Jobs : Ended(j) => Ended(j)']_txVars

\* Once an enqueue has returned, the submission is carried out in the end, crashes
\* and failing statements in between notwithstanding, unless restores overlap.
SubmissionsSettle ==
  (<>[](~overlap)) => \A j \in Jobs : call[j] = "ok" ~> j \in settled

-----------------------------------------------------------------------------
(* The inductive invariant behind the safety properties.                   *)

Rows == [status : JOB_STATUS, attempts : Nat, delayMs : Nat]

\* The queue, its table and the callers keep their types.
TxTypeOK ==
  /\ live \subseteq Jobs /\ status \in [Jobs -> JOB_STATUS \cup {"unused"}]
  /\ attempts \in [Jobs -> Nat] /\ delayMs \in [Jobs -> Nat] /\ now \in Nat
  /\ queue \in Seq(Jobs) /\ retryQueue \in Seq(Jobs) /\ running \subseteq Jobs \X Nat
  /\ rows \in [Jobs -> Rows \cup {NoRow}] /\ writes \subseteq Jobs \X Rows
  /\ call \in [Jobs -> {"none", "restore", "insert", "ok", "error"}]
  /\ at \in [Callers -> {"idle", "select", "next", "update"}]
  /\ todo \in [Callers -> SUBSET (Jobs \X Rows)] /\ cur \in [Callers -> SUBSET (Jobs \X Rows)]
  /\ runs \in [Jobs -> Nat] /\ restored \in BOOLEAN /\ overlap \in BOOLEAN

\* The one slot: what it works for is in memory and not settled.
SlotInv ==
  /\ \A c \in running : InMemory(c[1]) /\ running = {c}
  /\ processingCount = IF running = {} THEN 0 ELSE 1
  /\ loop # "idle" => running = {}

\* A caller restores, then inserts its own pending row; before that the table has no
\* row of its job, and what a restore() holds was in the table.
CallerInv ==
  /\ \A j \in Jobs :
       /\ at[j] # "idle" => call[j] = "restore"
       /\ call[j] = "insert" => \A e \in cur[j] : e[1] = j /\ e[2].status = "pending"
       /\ rows[j] # NoRow => call[j] \notin {"none", "restore"}
       /\ status[j] = "unused" => j \notin live
  /\ \A r \in Callers :
       /\ at[r] \in {"next", "update"} => \A e \in todo[r] : rows[e[1]] # NoRow
       /\ at[r] = "update" => \A e \in cur[r] : rows[e[1]] # NoRow

\* A terminal status is written, or was, only for a job whose handler settled.
RowInv ==
  /\ \A w \in writes : w[2].status \in NON_TERMINAL_STATUSES \/ w[1] \in settled
  /\ \A j \in Jobs : call[j] = "ok" => rows[j].status \in NON_TERMINAL_STATUSES \/ j \in settled

\* Without an overlap one caller restores at most, before anything else may be
\* enqueued, and a job that was taken once is in no array.
CopyInv ==
  /\ Distinct(queue) /\ Distinct(retryQueue) /\ Elems(queue) \cap Elems(retryQueue) = {}
  /\ \A j \in Elems(queue) \cup Elems(retryQueue) : j \in live /\ runs[j] = 0
  /\ \A j \in Jobs : runs[j] # 0 => runs[j] = 1 /\ j \in live /\ attempts[j] # 0
  /\ \A c \in running : runs[c[1]] # 0
  /\ \A r \in Callers : at[r] # "idle" =>
       /\ ~restored /\ \A q \in Callers : at[q] # "idle" => q = r
       /\ at[r] = "update" => \A e \in cur[r] : e[1] \notin live

TxInv == TxTypeOK /\ SlotInv /\ CallerInv /\ RowInv /\ (~overlap => CopyInv)
=============================================================================

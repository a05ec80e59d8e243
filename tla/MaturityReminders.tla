------------------------- MODULE MaturityReminders -------------------------
(***************************************************************************)
(* src/jobs/maturityReminders.js on its own queue and worker: reminders    *)
(* scheduled, replaced and cancelled per invoice through the Map           *)
(* invoiceJobs, and the handler that mails them.                           *)
(*                                                                         *)
(* The queue and the worker are those of BackgroundWorker; here only       *)
(* scheduleReminder() and cancelReminder() touch the queue, and a handler  *)
(* call settles only as createMaturityReminderHandler() lets it.  A full   *)
(* queue makes scheduleReminder() throw before it has changed anything.    *)
(* delayMs is a duration, which the queue compares with the clock, and no  *)
(* job is retried, so nothing here ever waits for the clock.               *)
(***************************************************************************)
EXTENDS BackgroundWorker

CONSTANTS
  Invoices,
  MaxAttempts,   \* getMaxAttempts(), SMTP attempts per handler call
  NoJob          \* an invoice that invoiceJobs has no entry for

ASSUME ReminderAssumption ==
  /\ MaxAttempts \in 1..10
  /\ DelaysAreDurations
  /\ NoJob \notin Jobs

VARIABLES
  invoiceJobs,   \* the Map from invoice ids to job ids
  invoiceId,     \* payload.invoiceId of every scheduled job
  mail,          \* what became of the mail of a job
  sends,         \* calls of transport.sendMail() for a job
  newest         \* the job of the last schedule of an invoice that no
                 \* cancelReminder() call has cancelled since

reminderVars == <<invoiceJobs, invoiceId, mail, sends, newest>>
allVars == <<vars, reminderVars>>

ReminderInit ==
  /\ Init
  /\ invoiceJobs = [i \in Invoices |-> NoJob]
  /\ invoiceId \in [Jobs -> Invoices]
  /\ mail = [j \in Jobs |-> "unsent"]
  /\ sends = [j \in Jobs |-> 0]
  /\ newest = [i \in Invoices |-> NoJob]

-----------------------------------------------------------------------------
(* Callers.                                                                *)

\* Array and Map after enqueue(j, d), then cancel() of the mapped job, if any.
EnqueueAndReplace(j, d, old) ==
  /\ status[j] = "unused"
  /\ HasRoom
  /\ live' = (live \cup {j}) \ {old}
  /\ status' = [status EXCEPT ![j] = "pending"]
  /\ delayMs' = [delayMs EXCEPT ![j] = d]
  /\ queue' = Append(queue, j)
  /\ UNCHANGED <<attempts, retryQueue>>

ScheduleMapsFirst(j, d) ==
  /\ loop = "idle"
  /\ EnqueueAndReplace(j, d, IF invoiceJobs[invoiceId[j]] = NoJob THEN NoJob ELSE j)
  /\ invoiceJobs' = [invoiceJobs EXCEPT ![invoiceId[j]] = j]
  /\ newest' = [newest EXCEPT ![invoiceId[j]] = j]
  /\ UNCHANGED <<now, workerVars, invoiceId, mail, sends>>

\* scheduleReminder() for the invoice invoiceId[j], with targetDate d from now.
ScheduleReminder(j, d) ==
  /\ loop = "idle"
  /\ EnqueueAndReplace(j, d, invoiceJobs[invoiceId[j]])
  /\ invoiceJobs' = [invoiceJobs EXCEPT ![invoiceId[j]] = j]
  /\ newest' = [newest EXCEPT ![invoiceId[j]] = j]
  /\ UNCHANGED <<now, workerVars, invoiceId, mail, sends>>

\* cancelReminder(); without an entry it returns false and changes nothing.
CancelReminder(i) ==
  /\ loop = "idle"
  /\ invoiceJobs[i] # NoJob
  /\ IF invoiceJobs[i] \in live
       THEN /\ cancel(invoiceJobs[i])
            /\ newest' = [newest EXCEPT ![i] = NoJob]
       ELSE UNCHANGED <<queueVars, newest>>
  /\ invoiceJobs' = [invoiceJobs EXCEPT ![i] = NoJob]
  /\ UNCHANGED <<now, workerVars, invoiceId, mail, sends>>

-----------------------------------------------------------------------------
(* The handler.                                                            *)

\* The finally block, after which the handler resolves, delivered or not.
HandlerEnds(c, outcome) ==
  /\ mail' = [mail EXCEPT ![c[1]] = outcome]
  /\ invoiceJobs' = [invoiceJobs EXCEPT ![invoiceId[c[1]]] = NoJob]
  /\ HandlerResolves(c)

MailAcceptedThrows(c) ==
  /\ sends' = [sends EXCEPT ![c[1]] = @ + 1]
  /\ mail' = [mail EXCEPT ![c[1]] = "sent"]
  /\ invoiceJobs' = [invoiceJobs EXCEPT ![invoiceId[c[1]]] = NoJob]
  /\ HandlerThrows(c)
  /\ UNCHANGED <<invoiceId, newest>>

MailAccepted(c) ==
  /\ sends' = [sends EXCEPT ![c[1]] = @ + 1]
  /\ HandlerEnds(c, "sent")
  /\ UNCHANGED <<invoiceId, newest>>

\* sendMail() rejects.  Transient errors are retried within the call; the last
\* one is dead-lettered by a promise that nobody awaits.
MailFails(c, permanent) ==
  /\ loop = "idle"
  /\ c \in running
  /\ sends' = [sends EXCEPT ![c[1]] = @ + 1]
  /\ IF permanent \/ sends'[c[1]] >= MaxAttempts
       THEN HandlerEnds(c, "dead")
       ELSE UNCHANGED <<vars, invoiceJobs, mail>>
  /\ UNCHANGED <<invoiceId, newest>>

\* persistReminderDeadLetterInBackground(): the insert succeeds, or its error is
\* only logged.
DeadLetterWritten(j, outcome) ==
  /\ loop = "idle"
  /\ mail[j] = "dead"
  /\ mail' = [mail EXCEPT ![j] = outcome]
  /\ UNCHANGED <<vars, invoiceJobs, invoiceId, sends, newest>>

MailStep(c) ==
  \/ MailAccepted(c)
  \/ \E permanent \in BOOLEAN : MailFails(c, permanent)

ReminderNext ==
  \/ \E j \in Jobs, d \in Delays : ScheduleReminder(j, d)
  \/ \E i \in Invoices : CancelReminder(i)
  \/ \E c \in Calls : MailStep(c)
  \/ \E j \in Jobs, outcome \in {"recorded", "unrecorded"} : DeadLetterWritten(j, outcome)
  \/ /\ PollTimerFires \/ PollStep \/ Start \/ Stop \/ StopReturns
     /\ UNCHANGED reminderVars

ReminderSpec == ReminderInit /\ [][ReminderNext]_allVars

-----------------------------------------------------------------------------
(* Properties.                                                             *)

\* The Map and the mails under way keep their types; a reminder makes at most
\* maxAttempts SMTP calls (sendMailWithRetry).
ReminderTypeOK ==
  /\ TypeOK
  /\ invoiceJobs \in [Invoices -> Jobs \cup {NoJob}]
  /\ invoiceId \in [Jobs -> Invoices]
  /\ mail \in [Jobs -> {"unsent", "sent", "dead", "recorded", "unrecorded"}]
  /\ sends \in [Jobs -> 0..MaxAttempts]
  /\ newest \in [Invoices -> Jobs \cup {NoJob}]

\* Replacing a reminder, in the order enqueue, cancel, set, never loses the
\* newest one: until cancelReminder() says so, its job stays in the queue.
NewestKept ==
  \A i \in Invoices : newest[i] # NoJob => newest[i] \in live

\* The handler swallows its errors and resolves, so the queue never runs a
\* reminder again: a delivered reminder is not sent a second time.
DeliveredOnce ==
  [][\A j \in Jobs : mail[j] # "unsent" => sends'[j] = sends[j]]_allVars

-----------------------------------------------------------------------------
(* The inductive invariant behind the safety properties.                   *)

\* The Map and newest name jobs of their own invoice that were enqueued; no job is
\* ever retried; mail is settled only for a job that is past its one call.
ReminderInv ==
  /\ WorkerInv /\ ReminderTypeOK /\ NewestKept
  /\ \A i \in Invoices : \A j \in {invoiceJobs[i], newest[i]} \ {NoJob} :
       invoiceId[j] = i /\ status[j] # "unused"
  /\ \A j \in Jobs :
       /\ status[j] # "retrying"
       /\ mail[j] = "unsent" => sends[j] < MaxAttempts
       /\ mail[j] # "unsent" => /\ status[j] \in {"processing", "completed"}
                                /\ \A c \in running : c[1] # j

=============================================================================

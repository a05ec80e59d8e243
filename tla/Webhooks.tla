------------------------------ MODULE Webhooks ------------------------------
(***************************************************************************)
(* Outgoing webhooks: emitWebhook() and the replay of dead letters         *)
(* (src/src/services/webhooks.js), the delivery handler of the job queue   *)
(* (src/src/jobs/webhookDelivery.js), the replay handler                   *)
(* (src/src/jobs/webhookReplay.js) and the operators' routes               *)
(* (src/src/routes/adminWebhooks.js).                                      *)
(*                                                                         *)
(* A delivery is one emission of an event, or one job.  Two migrations     *)
(* create webhook_dead_letters: the first without webhook_url and resolved,*)
(* the second with webhook_url NOT NULL, and whichever ran first counts.   *)
(* The code that dead-letters a delivery names no webhook_url; only        *)
(* writeDeadLetter() of the service does.  schema is chosen in Init.       *)
(*                                                                         *)
(* Time is the age of a signature.  webhookDelivery.js takes sortKeys from *)
(* a module that does not export it; it is taken to be the sortKeys that   *)
(* module defines.                                                         *)
(***************************************************************************)
EXTENDS Integers, FiniteSets

CONSTANTS
  Deliveries,
  Paths,         \* which code makes each delivery: "emit", "job" or "writer"
  Replays,       \* calls that replay or resolve dead letters
  Kinds,         \* what each call is: "one", "batch", "job" or "resolve"
  MaxRetries,    \* WEBHOOK_MAX_RETRIES
  BaseDelay,     \* WEBHOOK_BASE_DELAY
  MaxDelay,      \* WEBHOOK_MAX_DELAY
  Timeout,       \* WEBHOOK_TIMEOUT_MS
  Tolerances,    \* values receivers use for toleranceMs
  JobRetries,    \* maxRetries of the job queue
  BatchLimit,    \* limit of a batch replay, at most 200
  MaxFaults      \* bound on failing statements

\* Each retry ages a signature by one time-out and one delay at most.
AgePerRetry == Timeout + (6 * MaxDelay) \div 5

\* The age of the signature at the last attempt of emitWebhook().
WorstAge == MaxRetries * AgePerRetry

ASSUME WebhookAssumption ==
  /\ Paths \subseteq [Deliveries -> {"emit", "job", "writer"}]
  /\ Kinds \subseteq [Replays -> {"one", "batch", "job", "resolve"}]
  /\ {MaxRetries, BaseDelay, MaxDelay, Timeout, JobRetries, MaxFaults} \cup Tolerances \subseteq Nat
  /\ BatchLimit \in 1..200

VARIABLES
  schema,     \* the migration that made the table
  tolerance,  \* of the receiver
  path, kind, \* members of Paths and Kinds
  pc,         \* delivery -> the statement or request it waits for
  attempt,    \* delivery -> retries of withRetry() so far
  age,        \* delivery -> age of the signature of its next request
  jobTry,     \* delivery -> dispatches of its job
  rows,       \* webhook_dead_letters: the ids <<delivery, n>>
  resolved,   \* rows whose column resolved is true
  at,         \* replay -> the statement or request it waits for
  todo,       \* replay -> rows it still has to replay
  row,        \* replay -> the row at work
  redo,       \* replay -> retries of its job
  faults,
  ended,      \* history: delivery -> tries that came to an end
  ok,         \* history: delivery -> tries that got a 2xx
  lost,       \* history: delivery -> inserts that failed
  confirmed,  \* history: rows whose replay got a 2xx
  manual,     \* history: rows an operator resolved by hand
  refused     \* history: a request was refused for the age of its signature

delivery == <<pc, attempt, age, jobTry>>
replay == <<at, todo, row, redo>>
table == <<rows, resolved>>
deliveryHistory == <<ended, ok, lost>>
rowHistory == <<confirmed, manual>>
given == <<schema, tolerance, path, kind>>
vars == <<given, delivery, replay, table, faults, deliveryHistory, rowHistory, refused>>

Ids == Deliveries \X (1..(JobRetries + 1))
NoRow == {}

Init ==
  /\ schema \in {"first", "second"}
  /\ tolerance \in Tolerances
  /\ path \in Paths
  /\ kind \in Kinds
  /\ pc = [d \in Deliveries |-> "idle"]
  /\ attempt = [d \in Deliveries |-> 0]
  /\ age = [d \in Deliveries |-> 0]
  /\ jobTry = [d \in Deliveries |-> 0]
  /\ rows = {} /\ resolved = {}
  /\ at = [r \in Replays |-> "idle"]
  /\ todo = [r \in Replays |-> {}]
  /\ row = [r \in Replays |-> NoRow]
  /\ redo = [r \in Replays |-> 0]
  /\ faults = 0
  /\ ended = [d \in Deliveries |-> 0]
  /\ ok = [d \in Deliveries |-> 0]
  /\ lost = [d \in Deliveries |-> 0]
  /\ confirmed = {} /\ manual = {}
  /\ refused = FALSE

-----------------------------------------------------------------------------
(* Signing and retrying. *)

\* The receiver checks the age of the timestamp it was signed with.
verifySignature(a) == a <= tolerance

Least(a, b) == IF a < b THEN a ELSE b

BackoffUncapped(n) == BaseDelay * 2 ^ n

\* withRetry(): exponential, capped, then spread by a fifth either way.
Backoff(n) == Least(BaseDelay * 2 ^ n, MaxDelay)

Jittered(d) == ((4 * d) \div 5)..((6 * d) \div 5)

\* Results of one request.  A request may reach the receiver and still time out; an
\* error of the network may or may not carry one of the codes shouldRetry() knows.
Results == {"2xx", "4xx", "5xx", "timeout", "coded", "uncoded"}

shouldRetry(res) == res \in {"5xx", "timeout", "coded"}

Took(res) == IF res = "timeout" THEN Timeout ELSE 0

-----------------------------------------------------------------------------
(* Deliveries. *)

Goto(d, label) == pc' = [pc EXCEPT ![d] = label]

\* emitWebhook(): the invoice, then the settings of its tenant.  Without either,
\* or if a query fails, the emission ends and nothing is sent.
EmitLooksUp(d) ==
  /\ path[d] = "emit"
  /\ \/ pc[d] = "idle" /\ Goto(d, "tenant") /\ UNCHANGED <<attempt, age>>
     \/ /\ pc[d] = "tenant"
        /\ Goto(d, "send")
        /\ attempt' = [attempt EXCEPT ![d] = 0]
        /\ age' = [age EXCEPT ![d] = 0]
     \/ /\ pc[d] \in {"idle", "tenant"}
        /\ Goto(d, "gone") /\ UNCHANGED <<attempt, age>>
  /\ UNCHANGED <<given, jobTry, replay, table, faults, deliveryHistory, rowHistory, refused>>

\* The worker calls the handler; a job that threw is called again.
JobStarts(d) ==
  /\ path[d] = "job"
  /\ pc[d] = "idle"
  /\ Goto(d, "send")
  /\ attempt' = [attempt EXCEPT ![d] = 0]
  /\ age' = [age EXCEPT ![d] = 0]
  /\ jobTry' = [jobTry EXCEPT ![d] = @ + 1]
  /\ UNCHANGED <<given, replay, table, faults, deliveryHistory, rowHistory, refused>>

\* A 2xx.  emitWebhook() appends an audit event, whose failure is only logged.
Delivered(d) ==
  /\ pc[d] = "send"
  /\ verifySignature(age[d])
  /\ Goto(d, "done")
  /\ ok' = [ok EXCEPT ![d] = @ + 1]
  /\ ended' = [ended EXCEPT ![d] = @ + 1]
  /\ UNCHANGED <<given, attempt, age, jobTry, replay, table, faults, lost, rowHistory, refused>>

\* A failed request is repeated after a sleep; emitWebhook() signed once, before
\* the first of them, sendWebhookRequest() signs each.
RequestRetried(d, res) ==
  /\ pc[d] = "send" /\ res # "2xx"
  /\ verifySignature(age[d])
  /\ shouldRetry(res) /\ attempt[d] < MaxRetries
  /\ attempt' = [attempt EXCEPT ![d] = @ + 1]
  /\ \E s \in Jittered(Backoff(attempt[d])) :
       age' = [age EXCEPT ![d] = IF path[d] = "job" THEN 0 ELSE @ + Took(res) + s]
  /\ UNCHANGED <<given, pc, jobTry, replay, table, faults, deliveryHistory, rowHistory, refused>>

RequestFailed(d, res) ==
  /\ pc[d] = "send" /\ res # "2xx"
  /\ verifySignature(age[d])
  /\ ~shouldRetry(res) \/ attempt[d] = MaxRetries
  /\ Goto(d, "dead")
  /\ UNCHANGED <<given, attempt, age, jobTry, replay, table, faults, deliveryHistory, rowHistory, refused>>

\* A receiver that finds the signature too old answers 401.
RequestRefused(d) ==
  /\ pc[d] = "send"
  /\ ~verifySignature(age[d])
  /\ refused' = TRUE
  /\ Goto(d, "dead")
  /\ UNCHANGED <<given, attempt, age, jobTry, replay, table, faults, deliveryHistory, rowHistory>>

\* After the dead letter emitWebhook() returns; the handler throws, and the queue
\* calls it again while retries are left.
AfterDeadLetter(d) ==
  /\ Goto(d, IF path[d] = "job" /\ jobTry[d] <= JobRetries THEN "idle" ELSE "done")
  /\ ended' = [ended EXCEPT ![d] = @ + 1]
  /\ UNCHANGED <<given, attempt, age, jobTry, replay, resolved, ok, rowHistory, refused>>

Fault == faults < MaxFaults /\ faults' = faults + 1

\* Each call of the handler writes a row of its own, emitWebhook() at most one.
DeadRow(d) == <<d, IF path[d] = "job" THEN jobTry[d] ELSE 1>>

DeadLetterSkipped(d) ==
  /\ pc[d] = "dead"
  /\ UNCHANGED <<rows, lost, faults>>
  /\ AfterDeadLetter(d)

\* The insert names no webhook_url, which the second schema refuses; any error of
\* the insert is logged and forgotten.
WriteDeadLetter(d) ==
  /\ pc[d] = "dead"
  /\ IF schema = "first"
       THEN /\ \/ /\ rows' = rows \cup {DeadRow(d)}
                  /\ UNCHANGED <<lost, faults>>
               \/ /\ Fault
                  /\ lost' = [lost EXCEPT ![d] = @ + 1]
                  /\ UNCHANGED rows
       ELSE lost' = [lost EXCEPT ![d] = @ + 1] /\ UNCHANGED <<rows, faults>>
  /\ AfterDeadLetter(d)

\* writeDeadLetter() of the service, for its caller; the first schema does not
\* know webhook_url.
ServiceWritesDeadLetter(d) ==
  /\ path[d] = "writer"
  /\ pc[d] = "idle"
  /\ IF schema = "second"
       THEN rows' = rows \cup {<<d, 1>>} /\ UNCHANGED lost
       ELSE lost' = [lost EXCEPT ![d] = 1] /\ UNCHANGED rows
  /\ Goto(d, "done")
  /\ ended' = [ended EXCEPT ![d] = 1]
  /\ UNCHANGED <<given, attempt, age, jobTry, replay, resolved, faults, ok, rowHistory, refused>>

-----------------------------------------------------------------------------
(* Replays. *)

Move(r, label) == at' = [at EXCEPT ![r] = label]

\* POST /replay/:id, POST /resolve/:id or a job name one row, which need not exist.
ReplayOne(r, id) ==
  /\ at[r] = "idle" /\ kind[r] # "batch"
  /\ todo' = [todo EXCEPT ![r] = {id}]
  /\ Move(r, "next")
  /\ UNCHANGED <<given, delivery, row, redo, table, faults, deliveryHistory, rowHistory, refused>>

\* POST /replay selects rows that are not resolved; the first schema has no such
\* column, so the request ends in an error.
ReplayBatch(r) ==
  /\ at[r] = "idle" /\ kind[r] = "batch"
  /\ IF schema = "first" THEN Move(r, "done") /\ UNCHANGED todo
     ELSE \E s \in SUBSET (rows \ resolved) :
            /\ Cardinality(s) = Least(BatchLimit, Cardinality(rows \ resolved))
            /\ todo' = [todo EXCEPT ![r] = s]
            /\ Move(r, "next")
  /\ UNCHANGED <<given, delivery, row, redo, table, faults, deliveryHistory, rowHistory, refused>>

CallFailsUncounted(r, id) ==
  /\ todo' = [todo EXCEPT ![r] = IF kind[r] = "job" THEN {id} ELSE @ \ {id}]
  /\ row' = [row EXCEPT ![r] = NoRow]
  /\ Move(r, "next")
  /\ UNCHANGED redo

\* The call for row id failed: a route notes it and goes on with its next row; a job
\* throws and is called again while retries are left.
CallFails(r, id) ==
  /\ IF kind[r] = "job" /\ redo[r] < JobRetries
       THEN /\ redo' = [redo EXCEPT ![r] = @ + 1]
            /\ todo' = [todo EXCEPT ![r] = {id}]
       ELSE /\ todo' = [todo EXCEPT ![r] = @ \ {id}]
            /\ UNCHANGED redo
  /\ row' = [row EXCEPT ![r] = NoRow]
  /\ Move(r, "next")

TakeRow(r, id) ==
  /\ todo' = [todo EXCEPT ![r] = @ \ {id}]
  /\ row' = [row EXCEPT ![r] = {id}]
  /\ Move(r, IF kind[r] = "resolve" THEN "resolve" ELSE "send")
  /\ UNCHANGED redo

ReadRowUnchecked(r, id) ==
  /\ at[r] = "next" /\ id \in todo[r]
  /\ IF id \in rows THEN TakeRow(r, id) ELSE CallFails(r, id)
  /\ UNCHANGED <<given, delivery, table, faults, deliveryHistory, rowHistory, refused>>

\* replayWebhook() and the route that resolves look at the row first: absent and
\* resolved rows are errors.  A row of the first schema is never seen as resolved.
ReadRow(r, id) ==
  /\ at[r] = "next" /\ id \in todo[r]
  /\ IF id \in rows \ resolved THEN TakeRow(r, id) ELSE CallFails(r, id)
  /\ UNCHANGED <<given, delivery, table, faults, deliveryHistory, rowHistory, refused>>

\* The request, signed afresh, got a 2xx.  A row without an address is not sent.
ReplayAccepted(r) ==
  /\ at[r] = "send"
  /\ schema = "second"
  /\ confirmed' = confirmed \cup row[r]
  /\ Move(r, "resolve")
  /\ UNCHANGED <<given, delivery, todo, row, redo, table, faults, deliveryHistory, manual, refused>>

\* No secret, no address, an error or another status.
ReplayFails(r) ==
  /\ at[r] = "send"
  /\ \E id \in row[r] : CallFails(r, id)
  /\ UNCHANGED <<given, delivery, table, faults, deliveryHistory, rowHistory, refused>>

\* resolveDeadLetter(): an unconditional update.
ResolveRow(r) ==
  /\ at[r] = "resolve" /\ schema = "second"
  /\ resolved' = resolved \cup row[r]
  /\ manual' = IF kind[r] = "resolve" THEN manual \cup row[r] ELSE manual
  /\ row' = [row EXCEPT ![r] = NoRow]
  /\ Move(r, "next")
  /\ UNCHANGED <<given, delivery, todo, redo, rows, faults, deliveryHistory, confirmed, refused>>

\* It fails for want of the column in the first schema, and may fail in the other.
ResolveFails(r) ==
  /\ at[r] = "resolve"
  /\ IF schema = "second" THEN Fault ELSE UNCHANGED faults
  /\ \E id \in row[r] : CallFails(r, id)
  /\ UNCHANGED <<given, delivery, table, deliveryHistory, rowHistory, refused>>

ReplayEnds(r) ==
  /\ at[r] = "next" /\ todo[r] = {}
  /\ Move(r, "done")
  /\ UNCHANGED <<given, delivery, todo, row, redo, table, faults, deliveryHistory, rowHistory, refused>>

-----------------------------------------------------------------------------

SendStep(d) ==
  \/ Delivered(d)
  \/ \E res \in Results : RequestRetried(d, res) \/ RequestFailed(d, res)
  \/ RequestRefused(d)
  \/ WriteDeadLetter(d)

DeliveryStep(d) == EmitLooksUp(d) \/ JobStarts(d) \/ SendStep(d)

ReplayStep(r) ==
  \/ \E id \in todo[r] : ReadRow(r, id)
  \/ ReplayAccepted(r) \/ ReplayFails(r)
  \/ ResolveRow(r) \/ ResolveFails(r) \/ ReplayEnds(r)

Next ==
  \/ \E d \in Deliveries : DeliveryStep(d) \/ ServiceWritesDeadLetter(d)
  \/ \E r \in Replays : ReplayStep(r) \/ ReplayBatch(r) \/ \E id \in Ids : ReplayOne(r, id)

\* Every request has a time-out of its own (AbortController), so it ends; statements
\* return and the queue calls a job again.
Fairness ==
  /\ \A d \in Deliveries : WF_vars(DeliveryStep(d))
  /\ \A r \in Replays : WF_vars(ReplayStep(r))

Spec == Init /\ [][Next]_vars /\ Fairness

-----------------------------------------------------------------------------
(* Properties. *)

RowsOf(d) == {id \in rows : id[1] = d}

\* docs/webhooks.md: "When a webhook delivery exhausts all retries the delivery job
\* writes the failed event to the webhook_dead_letters table".  Each try of a
\* delivery that came to an end left exactly one trace: a 2xx, a row of its own, or
\* an insert that the log says failed.  No try is lost in silence, and none leaves
\* two, whichever error ended it and however often the queue called the handler.
OneOutcome ==
  \A d \in Deliveries :
    path[d] \in {"emit", "job"} => ok[d] + Cardinality(RowsOf(d)) + lost[d] = ended[d]

Quiet(id) ==
  /\ id \in resolved
  /\ \A r \in Replays : row[r] # {id}

\* docs/webhooks.md: "the row is only marked resolved after a 2xx", or by hand, and
\* "replaying an already-resolved row returns 409".  A row joins the resolved ones
\* only when the receiver confirmed it or an operator resolved it; once it is there
\* and no replay that read it earlier is under way, no replay sends it again, a
\* batch that selected it while it was open included.
ResolvedForGood ==
  [][\A id \in Ids : /\ id \in resolved' => id \in confirmed' \cup manual'
                     /\ Quiet(id) => Quiet(id)']_vars

\* emitWebhook() signs once and sends the same signature with every retry.  If the
\* configured delays and time-outs fit in the receiver's tolerance, no attempt is
\* refused for its age, whatever the jitter.
FreshEnough == WorstAge <= tolerance => ~refused

\* Every emission and every job comes to an end, and so does every replay, whatever
\* the receiver does.
DeliveriesEnd ==
  /\ \A d \in Deliveries : pc[d] = "send" ~> pc[d] = "done"
  /\ \A r \in Replays : at[r] = "next" ~> at[r] = "done"
-----------------------------------------------------------------------------
(* The inductive invariant behind the safety properties. *)

DeliveryLabels == {"idle", "tenant", "send", "dead", "done", "gone"}
ReplayLabels == {"idle", "next", "send", "resolve", "done"}

WebhookTypeOK ==
  /\ schema \in {"first", "second"} /\ tolerance \in Tolerances /\ path \in Paths /\ kind \in Kinds
  /\ pc \in [Deliveries -> DeliveryLabels]
  /\ attempt \in [Deliveries -> 0..MaxRetries]
  /\ age \in [Deliveries -> Int]
  /\ jobTry \in [Deliveries -> 0..(JobRetries + 1)]
  /\ rows \subseteq Ids /\ resolved \subseteq Ids /\ confirmed \subseteq Ids /\ manual \subseteq Ids
  /\ at \in [Replays -> ReplayLabels]
  /\ todo \in [Replays -> SUBSET Ids]
  /\ row \in [Replays -> SUBSET Ids]
  /\ redo \in [Replays -> Nat]
  /\ faults \in Nat /\ refused \in BOOLEAN
  /\ ended \in [Deliveries -> Nat] /\ ok \in [Deliveries -> Nat] /\ lost \in [Deliveries -> Nat]

\* A delivery that may still write a row has not written that one yet: a job wrote
\* only those of its earlier calls, an emission none.
RowAhead(d) ==
  /\ path[d] = "job" =>
       /\ pc[d] = "idle" => jobTry[d] <= JobRetries
       /\ pc[d] \in {"send", "dead"} => jobTry[d] > 0
       /\ \A id \in RowsOf(d) : /\ id[2] <= jobTry[d]
                                /\ pc[d] \in {"send", "dead"} => id[2] < jobTry[d]
  /\ path[d] = "emit" /\ RowsOf(d) # {} => pc[d] = "done"
  /\ path[d] = "writer" => pc[d] \in {"idle", "done"}

\* A row about to be marked was confirmed, unless an operator marks it.
Justified(r) == at[r] = "resolve" /\ kind[r] # "resolve" => row[r] \subseteq confirmed

WebhookInv ==
  /\ WebhookTypeOK /\ OneOutcome /\ FreshEnough
  /\ \A d \in Deliveries : RowAhead(d) /\ age[d] <= attempt[d] * AgePerRetry
  /\ resolved \subseteq confirmed \cup manual
  /\ \A r \in Replays : Justified(r)
=============================================================================

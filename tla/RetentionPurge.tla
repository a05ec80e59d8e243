--------------------------- MODULE RetentionPurge ---------------------------
(***************************************************************************)
(* The retention purge: the handler of 'retention_purge' jobs              *)
(* (src/src/jobs/retentionPurge.js), which wipes personal data from old    *)
(* invoices, and the routes that place and release legal holds and create  *)
(* policies (src/src/routes/retention.js), for one tenant.                 *)
(*                                                                         *)
(* A step is one database statement.  Calls of the handler overlap: each   *)
(* process has a worker of its own, with one call at a time, and a failed  *)
(* job is called again by its queue (BackgroundWorker).  A statement may   *)
(* fail, before or after it took effect, and a process may crash.          *)
(*                                                                         *)
(* PUT /policies is left out: its update() names the columns retentionDays,*)
(* piiFields and isActive, which the table does not have, so it can change *)
(* a name or a description only.                                           *)
(***************************************************************************)
EXTENDS Integers, FiniteSets

CONSTANTS
  Invoices,
  Fields,         \* the columns that hold personal data
  Policies,
  Existing,       \* policies that are active from the start
  Calls,          \* calls of the handler
  Holds,          \* requests for a legal hold
  HoldOn,         \* request for a hold -> the invoice it names
  Requests,       \* payloads of the jobs: [policyId, dryRun, retentionDays, piiFields]
  Age,            \* days since an invoice was created
  RetentionDays,  \* of a policy
  PiiFields,      \* of a policy
  BatchSize,
  MaxFaults,      \* bound on failed statements and crashes
  None            \* an optional part of a payload that is absent

ASSUME RetentionAssumption ==
  /\ Existing \subseteq Policies
  /\ Age \in [Invoices -> Nat]
  /\ HoldOn \in [Holds -> Invoices]
  /\ RetentionDays \in [Policies -> Nat \ {0}]
  /\ PiiFields \in [Policies -> SUBSET Fields \ {{}}]
  /\ Requests \subseteq [policyId : Policies \cup {None}, dryRun : BOOLEAN,
                         retentionDays : (Nat \ {0}) \cup {None},
                         piiFields : (SUBSET Fields \ {{}}) \cup {None}]
  /\ BatchSize \in Nat \ {0}
  /\ MaxFaults \in Nat
  /\ None \notin Policies
  /\ None \notin Invoices

VARIABLES
  active,    \* policies whose row has is_active
  clear,     \* invoice -> fields that are not null
  audited,   \* invoice -> fields whose hash is in old_values of an audit row
  hold,      \* request for a hold -> its state
  exec,      \* call -> status in retention_job_executions
  req,       \* call -> the payload
  pc,        \* call -> the statement it runs next
  todo,      \* call -> policies still to be processed
  policy,    \* call -> the policy being processed
  batch,     \* call -> eligible invoices still to be processed
  inv,       \* call -> the invoice being processed
  old,       \* call -> fields of inv that were not null when they were read
  errors,    \* call -> invoices that failed
  faults,    \* failed statements and crashes so far
  free       \* call -> has inv been without a hold since it was taken up?

tables == <<active, clear, audited, hold>>
locals == <<req, todo, policy, batch, inv, old, errors>>
vars == <<tables, exec, pc, locals, faults, free>>

Ended == "done"

\* Statements of the loop over the invoices, whose errors are caught there.
InvoiceSteps == {"check", "read", "update", "log"}

Steps == {"idle", "load", "policy", "invoice", "finish", "failing", Ended} \cup InvoiceSteps

-----------------------------------------------------------------------------

\* A hold counts while its row is active and expires_at has not passed.
HeldInvoices == {HoldOn[h] : h \in {g \in Holds : hold[g] = "active"}}

Held(i) == i \in HeldInvoices

Days(r, p) == IF r.retentionDays = None THEN RetentionDays[p] ELSE r.retentionDays

FieldsOf(r, p) == IF r.piiFields = None THEN PiiFields[p] ELSE r.piiFields

Old(r, p) == {i \in Invoices : Age[i] > Days(r, p)}

getEligibleInvoices(r, p) == {i \in Old(r, p) : ~Held(i)}

Init ==
  /\ active = Existing
  /\ clear = [i \in Invoices |-> Fields]
  /\ audited = [i \in Invoices |-> {}]
  /\ hold = [h \in Holds |-> "unplaced"]
  /\ exec = [c \in Calls |-> "none"]
  /\ req \in [Calls -> Requests]
  /\ pc = [c \in Calls |-> "idle"]
  /\ todo = [c \in Calls |-> {}]
  /\ policy = [c \in Calls |-> None]
  /\ batch = [c \in Calls |-> {}]
  /\ inv = [c \in Calls |-> None]
  /\ old = [c \in Calls |-> {}]
  /\ errors = [c \in Calls |-> {}]
  /\ faults = 0
  /\ free = [c \in Calls |-> FALSE]

-----------------------------------------------------------------------------
(* The handler. *)

Goto(c, label) == pc' = [pc EXCEPT ![c] = label]

\* The local variables of a call go with it.
Forget(c) ==
  /\ todo' = [todo EXCEPT ![c] = {}]
  /\ policy' = [policy EXCEPT ![c] = None]
  /\ batch' = [batch EXCEPT ![c] = {}]
  /\ inv' = [inv EXCEPT ![c] = None]
  /\ old' = [old EXCEPT ![c] = {}]
  /\ errors' = [errors EXCEPT ![c] = {}]
  /\ UNCHANGED req

\* createJobExecution().
StartCall(c) ==
  /\ pc[c] = "idle"
  /\ exec' = [exec EXCEPT ![c] = "started"]
  /\ Goto(c, "load")
  /\ UNCHANGED <<tables, locals, faults>>

\* The policy the payload names, or every active one; none is an error.
LoadPolicies(c) ==
  LET wanted == IF req[c].policyId = None THEN Policies ELSE {req[c].policyId}
  IN  /\ pc[c] = "load"
      /\ todo' = [todo EXCEPT ![c] = active \cap wanted]
      /\ Goto(c, IF active \cap wanted = {} THEN "failing" ELSE "policy")
      /\ UNCHANGED <<tables, exec, req, policy, batch, inv, old, errors, faults>>

\* The query has no ORDER BY: it returns any BatchSize of the eligible invoices,
\* those already purged among them.
NextPolicy(c) ==
  /\ pc[c] = "policy"
  /\ \E p \in todo[c] :
       LET eligible == getEligibleInvoices(req[c], p)
       IN  \E b \in SUBSET eligible :
             /\ \/ Cardinality(b) = BatchSize
                \/ b = eligible /\ Cardinality(b) < BatchSize
             /\ policy' = [policy EXCEPT ![c] = p]
             /\ todo' = [todo EXCEPT ![c] = @ \ {p}]
             /\ batch' = [batch EXCEPT ![c] = b]
  /\ Goto(c, "invoice")
  /\ UNCHANGED <<tables, exec, req, inv, old, errors, faults>>

NextInvoice(c) ==
  /\ pc[c] = "invoice"
  /\ \/ \E i \in batch[c] :
          /\ inv' = [inv EXCEPT ![c] = i]
          /\ batch' = [batch EXCEPT ![c] = @ \ {i}]
          /\ Goto(c, "check")
     \/ /\ batch[c] = {}
        /\ inv' = [inv EXCEPT ![c] = None]
        /\ Goto(c, IF todo[c] = {} THEN "finish" ELSE "policy")
        /\ UNCHANGED batch
  /\ old' = [old EXCEPT ![c] = {}]
  /\ UNCHANGED <<tables, exec, req, todo, policy, errors, faults>>

CheckHoldTrustsQuery(c) ==
  /\ pc[c] = "check"
  /\ Goto(c, IF req[c].dryRun THEN "log" ELSE "read")
  /\ UNCHANGED <<tables, exec, locals, faults>>

\* isUnderLegalHold(); a dry run goes from here to the audit row.
CheckHold(c) ==
  /\ pc[c] = "check"
  /\ Goto(c, IF Held(inv[c]) THEN "invoice"
             ELSE IF req[c].dryRun THEN "log" ELSE "read")
  /\ UNCHANGED <<tables, exec, locals, faults>>

\* purgeInvoicePii(): the values are hashed before they are wiped.
ReadCurrent(c) ==
  /\ pc[c] = "read"
  /\ old' = [old EXCEPT ![c] = clear[inv[c]] \cap FieldsOf(req[c], policy[c])]
  /\ Goto(c, "update")
  /\ UNCHANGED <<tables, exec, req, todo, policy, batch, inv, errors, faults>>

Wipe(c) == clear' = [clear EXCEPT ![inv[c]] = @ \ FieldsOf(req[c], policy[c])]

UpdateInvoice(c) ==
  /\ pc[c] = "update"
  /\ Wipe(c)
  /\ Goto(c, "log")
  /\ UNCHANGED <<active, audited, hold, exec, locals, faults>>

Record(c) == audited' = [audited EXCEPT ![inv[c]] = @ \cup old[c]]

\* logRetentionOperation().
LogOperation(c) ==
  /\ pc[c] = "log"
  /\ Record(c)
  /\ Goto(c, "invoice")
  /\ UNCHANGED <<active, clear, hold, exec, locals, faults>>

\* The table's CHECK does not know 'completed_with_errors', so the update that
\* reports errors throws.
Finish(c) ==
  /\ pc[c] = "finish"
  /\ IF errors[c] = {}
     THEN /\ exec' = [exec EXCEPT ![c] = "completed"]
          /\ Goto(c, Ended)
          /\ Forget(c)
     ELSE Goto(c, "failing") /\ UNCHANGED <<exec, locals>>
  /\ UNCHANGED <<tables, faults>>

\* The catch block of the handler.
RecordFailure(c) ==
  /\ pc[c] = "failing"
  /\ exec' = [exec EXCEPT ![c] = "failed"]
  /\ Goto(c, Ended)
  /\ Forget(c)
  /\ UNCHANGED <<tables, faults>>

-----------------------------------------------------------------------------
(* Failures. *)

Fault == faults < MaxFaults /\ faults' = faults + 1

InvoiceFailsQuietly(c) ==
  /\ pc[c] \in InvoiceSteps
  /\ Fault
  /\ \/ UNCHANGED <<clear, audited>>
     \/ pc[c] = "update" /\ Wipe(c) /\ UNCHANGED audited
     \/ pc[c] = "log" /\ Record(c) /\ UNCHANGED clear
  /\ Goto(c, "invoice")
  /\ UNCHANGED <<active, hold, exec, locals>>

\* A statement for one invoice fails, with or without effect: the error is kept
\* and the loop goes on with the next invoice.
InvoiceFails(c) ==
  /\ pc[c] \in InvoiceSteps
  /\ Fault
  /\ \/ UNCHANGED <<clear, audited>>
     \/ pc[c] = "update" /\ Wipe(c) /\ UNCHANGED audited
     \/ pc[c] = "log" /\ Record(c) /\ UNCHANGED clear
  /\ errors' = [errors EXCEPT ![c] = @ \cup {inv[c]}]
  /\ Goto(c, "invoice")
  /\ UNCHANGED <<active, hold, exec, req, todo, policy, batch, inv, old>>

\* A statement outside that loop fails.  Before the execution has an id, and in
\* the catch block itself, the handler ends; else the catch block is next.  The
\* last update may have taken effect all the same.
StatementFails(c) ==
  /\ Fault
  /\ \/ /\ pc[c] \in {"load", "policy", "finish"}
        /\ \/ UNCHANGED exec
           \/ /\ pc[c] = "finish" /\ errors[c] = {}
              /\ exec' = [exec EXCEPT ![c] = "completed"]
        /\ Goto(c, "failing")
        /\ UNCHANGED locals
     \/ /\ pc[c] \in {"idle", "failing"}
        /\ \/ UNCHANGED exec
           \/ exec' = [exec EXCEPT ![c] = IF pc[c] = "idle" THEN "started" ELSE "failed"]
        /\ Goto(c, Ended)
        /\ Forget(c)
  /\ UNCHANGED tables

\* The process dies in the middle of a call.
Crash(c) ==
  /\ pc[c] \notin {"idle", Ended}
  /\ Fault
  /\ Goto(c, Ended)
  /\ Forget(c)
  /\ UNCHANGED <<tables, exec>>

-----------------------------------------------------------------------------
(* The routes. *)

\* POST /policies.
CreatePolicy(p) ==
  /\ p \notin active
  /\ active' = active \cup {p}
  /\ UNCHANGED <<clear, audited, hold, exec, pc, locals, faults>>

SetHold(h, state) ==
  /\ hold' = [hold EXCEPT ![h] = state]
  /\ UNCHANGED <<active, clear, audited, exec, pc, locals, faults>>

\* POST /legal-holds looks for a hold that counts, and answers 409 if it finds
\* one; the row is inserted by a later statement.
CheckNoHold(h) ==
  /\ hold[h] = "unplaced"
  /\ SetHold(h, IF Held(HoldOn[h]) THEN "refused" ELSE "checked")

InsertHold(h) ==
  /\ hold[h] = "checked"
  /\ SetHold(h, "active")

\* expires_at passes; the row keeps its status.
HoldLapses(h) ==
  /\ hold[h] = "active"
  /\ SetHold(h, "lapsed")

\* POST /legal-holds/:holdId/release.  Nothing but a second release of the same
\* hold can come between its two statements and matter, so they are one step.
ReleaseHold(h) ==
  /\ hold[h] \in {"active", "lapsed"}
  /\ SetHold(h, "released")

-----------------------------------------------------------------------------

\* History: free[c] holds once the invoice of c was seen without a hold.
ObserveHolds ==
  free' = [c \in Calls |->
             /\ inv'[c] /= None
             /\ (free[c] /\ inv'[c] = inv[c]) \/ inv'[c] \notin HeldInvoices']

CallStep(c) ==
  \/ StartCall(c) \/ LoadPolicies(c) \/ NextPolicy(c) \/ NextInvoice(c)
  \/ CheckHold(c) \/ ReadCurrent(c) \/ UpdateInvoice(c) \/ LogOperation(c)
  \/ Finish(c) \/ RecordFailure(c)
  \/ InvoiceFails(c) \/ StatementFails(c) \/ Crash(c)

RouteStep ==
  \/ \E p \in Policies : CreatePolicy(p)
  \/ \E h \in Holds : CheckNoHold(h) \/ InsertHold(h) \/ HoldLapses(h) \/ ReleaseHold(h)

Next == ((\E c \in Calls : CallStep(c)) \/ RouteStep) /\ ObserveHolds

Spec == Init /\ [][Next]_vars

-----------------------------------------------------------------------------
(* Properties. *)

\* The state keeps its shape: a status is one the table's CHECK admits, and a call
\* at work on an invoice has a policy.
TypeOK ==
  /\ active \subseteq Policies
  /\ clear \in [Invoices -> SUBSET Fields]
  /\ audited \in [Invoices -> SUBSET Fields]
  /\ hold \in [Holds -> {"unplaced", "checked", "refused", "active", "lapsed", "released"}]
  /\ exec \in [Calls -> {"none", "started", "completed", "failed"}]
  /\ req \in [Calls -> Requests]
  /\ pc \in [Calls -> Steps]
  /\ todo \in [Calls -> SUBSET Policies]
  /\ policy \in [Calls -> Policies \cup {None}]
  /\ batch \in [Calls -> SUBSET Invoices]
  /\ inv \in [Calls -> Invoices \cup {None}]
  /\ old \in [Calls -> SUBSET Fields]
  /\ errors \in [Calls -> SUBSET Invoices]
  /\ faults \in 0..MaxFaults
  /\ free \in [Calls -> BOOLEAN]
  /\ \A c \in Calls : pc[c] \in InvoiceSteps => inv[c] /= None /\ policy[c] /= None

\* docs/retention.md: "Invoices under active legal holds are automatically
\* excluded from purging".  What the second look at the holds makes true of the
\* handler: personal data of an invoice is wiped only if the invoice was without
\* a hold at some moment since the call took it up.  A hold that was there
\* before, whatever the query had returned, protects the invoice.
HoldRespected ==
  [][\A i \in Invoices :
       clear'[i] /= clear[i] =>
         \E c \in Calls : pc[c] = "update" /\ inv[c] = i /\ free[c]]_vars

\* i is in the reach of the call c, which is no dry run, through some policy.
InReach(c, i, f) ==
  /\ exec[c] /= "none" /\ ~req[c].dryRun
  /\ \E p \in active : /\ req[c].policyId \in {None, p}
                       /\ f \in FieldsOf(req[c], p)
                       /\ i \in Old(req[c], p)

\* docs/retention.md: "Every retention operation is logged".  The audit trail and
\* the invoices tell the same story, whichever statement fails and however calls
\* overlap.  A value that was wiped and whose hash no audit row has is explained by
\* the execution record of a call that could have wiped it and does not say
\* 'completed'; and a value whose hash is in an audit row is gone from the
\* invoice: no dry run leaves a hash there, and no call whose update failed.
TrailFaithful ==
  \A i \in Invoices :
    /\ audited[i] \cap clear[i] = {}
    /\ \A f \in (Fields \ clear[i]) \ audited[i] :
         \E c \in Calls : InReach(c, i, f) /\ exec[c] \in {"started", "failed"}

-----------------------------------------------------------------------------
(* The inductive invariant behind both.                                    *)

\* The policies a call may process.
Chosen(c) == {p \in active : req[c].policyId \in {None, p}}

\* Where a call stands: it works on what it was asked for, it has seen the invoice
\* without a hold before it wipes it, and what it has read, and is still to audit,
\* is all that its update wipes.
CallInv(c) ==
  /\ pc[c] = "idle" => exec[c] = "none"
  /\ pc[c] \in {"load", "policy", "invoice", "finish"} \cup InvoiceSteps => exec[c] = "started"
  /\ todo[c] \subseteq Chosen(c)
  /\ pc[c] \in {"invoice"} \cup InvoiceSteps =>
       policy[c] \in Chosen(c) /\ batch[c] \subseteq Old(req[c], policy[c])
  /\ pc[c] \in InvoiceSteps => inv[c] \in Old(req[c], policy[c])
  /\ pc[c] = "check" => old[c] = {}
  /\ pc[c] \in {"read", "update"} => free[c] /\ ~req[c].dryRun
  /\ pc[c] = "update" => /\ clear[inv[c]] \cap FieldsOf(req[c], policy[c]) \subseteq old[c]
                         /\ old[c] \subseteq FieldsOf(req[c], policy[c])
  /\ pc[c] = "log" => old[c] \cap clear[inv[c]] = {}

\* A call that answers for a value that was wiped and not audited: it will not
\* report success, or is about to write the audit row.
Explains(c, i, f) ==
  /\ InReach(c, i, f) /\ exec[c] \in {"started", "failed"}
  /\ pc[c] = Ended \/ i \in errors[c] \/ (pc[c] = "log" /\ inv[c] = i /\ f \in old[c])

RetentionInv ==
  /\ TypeOK
  /\ \A c \in Calls : CallInv(c)
  /\ \A i \in Invoices : audited[i] \cap clear[i] = {}
  /\ \A i \in Invoices : \A f \in (Fields \ clear[i]) \ audited[i] : \E c \in Calls : Explains(c, i, f)

=============================================================================

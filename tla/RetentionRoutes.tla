--------------------------- MODULE RetentionRoutes ---------------------------
(***************************************************************************)
(* The retention routes (src/routes/retention.js): policies, legal holds,  *)
(* scheduling, the read-only routes and the audit event after a mutation   *)
(* (emitRetentionAuditSafely() of src/middleware/auditLog.js), for several *)
(* requests of several tenants at once.  What the purge makes of policies  *)
(* and holds is RetentionPurge.                                            *)
(*                                                                         *)
(* Each await is a step.  The handlers take the tenant from req.tenantId;  *)
(* it is an input here.                                                    *)
(***************************************************************************)
EXTENDS Naturals, FiniteSets

CONSTANTS
  AdminRequests,  \* requests; a row bears the name of the request that made it
  AdminTenants,
  PolicyNames,
  HeldBy,         \* invoice -> the tenant that owns it
  Nothing         \* a parameter that is left out

HeldInvoiceIds == DOMAIN HeldBy

ASSUME AdminAssumption ==
  /\ HeldBy \in [HeldInvoiceIds -> AdminTenants]
  /\ Nothing \notin AdminRequests \union AdminTenants \union PolicyNames

VARIABLES
  policyRows, \* retention_policies: [id, tenant, name, active]
  holdRows,   \* legal_holds: [id, tenant, invoice, status]
  admin,      \* each request: what it asks, how far it is, rows there when it checked
  scheduled,  \* jobs handed to the queue: [by, tenant, policy]
  executions, \* retention_job_executions: those jobs, once the worker took them
  adminTrail, \* audit_log_events: [by, action]
  shown       \* history: the last answer of a read, [tenant, rows]

adminVars == <<policyRows, holdRows, admin, scheduled, executions, adminTrail, shown>>

\* What a request asks: a policy or hold by its id, a name, an invoice.
AdminPlans ==
  [kind : {"create", "createIdle"}, of : PolicyNames]
  \union [kind : {"update"}, of : AdminRequests]
  \union [kind : {"hold"}, of : HeldInvoiceIds]
  \union [kind : {"release"}, of : AdminRequests]
  \union [kind : {"schedule"}, of : AdminRequests \union {Nothing}]

AdminTypeOK ==
  /\ policyRows \subseteq [id : AdminRequests, tenant : AdminTenants, name : PolicyNames, active : BOOLEAN]
  /\ holdRows \subseteq [id : AdminRequests, tenant : AdminTenants, invoice : HeldInvoiceIds,
                         status : {"active", "lapsed", "released"}]
  /\ admin \in [AdminRequests ->
                  [plan : AdminPlans, tenant : AdminTenants, saw : SUBSET AdminRequests,
                   at : {"check", "conflict", "write", "audit", "done", "refused"}]]

AdminInit ==
  /\ policyRows = {} /\ holdRows = {}
  /\ admin \in [AdminRequests -> [plan : AdminPlans, tenant : AdminTenants, at : {"check"}, saw : {{}}]]
  /\ scheduled = {} /\ executions = {} /\ adminTrail = {}
  /\ shown = [tenant |-> Nothing, rows |-> {}]

-----------------------------------------------------------------------------

At(r, kind, at) == admin[r].plan.kind \in kind /\ admin[r].at = at

\* The request goes on, having seen the rows there are.
Step(r, at) ==
  admin' = [admin EXCEPT ![r].at = at, ![r].saw = {p.id : p \in policyRows} \union {h.id : h \in holdRows}]

\* The request goes on with what it saw.
Proceed(r, at) == admin' = [admin EXCEPT ![r].at = at]

\* A 400 of the schema, a 404, a 409, or a query that fails.
AdminRefused(r) ==
  /\ admin[r].at \in {"check", "conflict", "write"}
  /\ Proceed(r, "refused")
  /\ UNCHANGED <<policyRows, holdRows, scheduled, executions, adminTrail, shown>>

NoneAlike(r) == {}

\* POST /policies: the active policies of the tenant with the name.
NamedAlike(r) == {p \in policyRows : p.tenant = admin[r].tenant /\ p.name = admin[r].plan.of /\ p.active}

CheckName(r) ==
  /\ At(r, {"create", "createIdle"}, "check")
  /\ NamedAlike(r) = {}
  /\ Step(r, "write")
  /\ UNCHANGED <<policyRows, holdRows, scheduled, executions, adminTrail, shown>>

InsertPolicy(r) ==
  /\ At(r, {"create", "createIdle"}, "write")
  /\ policyRows' = policyRows \union {[id |-> r, tenant |-> admin[r].tenant, name |-> admin[r].plan.of,
                                       active |-> admin[r].plan.kind = "create"]}
  /\ Proceed(r, "audit")
  /\ UNCHANGED <<holdRows, scheduled, executions, adminTrail, shown>>

\* PUT /policies/:policyId finds the policy.  Its UPDATE then always names
\* isActive, which the schema fills in and the table does not have: it fails.
FindPolicy(r) ==
  /\ At(r, {"update"}, "check")
  /\ \E p \in policyRows : p.id = admin[r].plan.of /\ p.tenant = admin[r].tenant
  /\ Step(r, "write")
  /\ UNCHANGED <<policyRows, holdRows, scheduled, executions, adminTrail, shown>>

-----------------------------------------------------------------------------
(* Legal holds.                                                            *)

\* POST /legal-holds: the invoice must be the tenant's.
FindInvoice(r) ==
  /\ At(r, {"hold"}, "check")
  /\ HeldBy[admin[r].plan.of] = admin[r].tenant
  /\ Proceed(r, "conflict")
  /\ UNCHANGED <<policyRows, holdRows, scheduled, executions, adminTrail, shown>>

\* Holds on the invoice that are active and not past expires_at.
Holding(r) == {h \in holdRows : h.invoice = admin[r].plan.of /\ h.status = "active"}

CheckHolds(r) ==
  /\ At(r, {"hold"}, "conflict")
  /\ Holding(r) = {}
  /\ Step(r, "write")
  /\ UNCHANGED <<policyRows, holdRows, scheduled, executions, adminTrail, shown>>

PlaceHold(r) ==
  /\ At(r, {"hold"}, "write")
  /\ holdRows' = holdRows \union {[id |-> r, tenant |-> admin[r].tenant, invoice |-> admin[r].plan.of,
                                   status |-> "active"]}
  /\ Proceed(r, "audit")
  /\ UNCHANGED <<policyRows, scheduled, executions, adminTrail, shown>>

\* expires_at passes.
Lapse ==
  /\ \E h \in holdRows : h.status = "active" /\ holdRows' = (holdRows \ {h}) \union {[h EXCEPT !.status = "lapsed"]}
  /\ UNCHANGED <<policyRows, admin, scheduled, executions, adminTrail, shown>>

\* POST /legal-holds/:holdId/release selects by status alone: a lapsed hold too.
FindHold(r) ==
  /\ At(r, {"release"}, "check")
  /\ \E h \in holdRows : /\ h.id = admin[r].plan.of /\ h.tenant = admin[r].tenant
                         /\ h.status \in {"active", "lapsed"}
  /\ Step(r, "write")
  /\ UNCHANGED <<policyRows, holdRows, scheduled, executions, adminTrail, shown>>

\* The UPDATE is by id: a hold released meanwhile is released again.
Release(r) ==
  /\ At(r, {"release"}, "write")
  /\ holdRows' = {IF h.id = admin[r].plan.of THEN [h EXCEPT !.status = "released"] ELSE h : h \in holdRows}
  /\ Proceed(r, "audit")
  /\ UNCHANGED <<policyRows, scheduled, executions, adminTrail, shown>>

-----------------------------------------------------------------------------
(* Scheduling, the audit event, the reads.                                 *)

\* scheduleRetentionPurge(): the job is in the queue, with the tenant and policy
\* of the request.
Enqueued(r) == [by |-> r, tenant |-> admin[r].tenant, policy |-> admin[r].plan.of]

\* POST /jobs/schedule: an active policy of the tenant, or none given.
Schedule(r) ==
  /\ At(r, {"schedule"}, "check")
  /\ \/ admin[r].plan.of = Nothing
     \/ \E p \in policyRows : p.id = admin[r].plan.of /\ p.tenant = admin[r].tenant /\ p.active
  /\ scheduled' = scheduled \union {Enqueued(r)}
  /\ Proceed(r, "done")
  /\ UNCHANGED <<policyRows, holdRows, executions, adminTrail, shown>>

\* The worker takes the job: createJobExecution().
Execute(j) ==
  /\ j \notin executions
  /\ executions' = executions \union {j}
  /\ UNCHANGED <<policyRows, holdRows, admin, scheduled, adminTrail, shown>>

\* emitRetentionAuditSafely(): a failed insert is logged and the answer is sent.
EmitAudit(r) ==
  /\ admin[r].at = "audit"
  /\ adminTrail' \in {adminTrail, adminTrail \union {[by |-> r, action |-> admin[r].plan.kind]}}
  /\ Proceed(r, "done")
  /\ UNCHANGED <<policyRows, holdRows, scheduled, executions, shown>>

Show(tenant, rows) ==
  /\ shown' = [tenant |-> tenant, rows |-> rows]
  /\ UNCHANGED <<policyRows, holdRows, admin, scheduled, executions, adminTrail>>

\* GET /policies, with or without the inactive ones.
ShowPolicies(t) ==
  \E all \in BOOLEAN : Show(t, {p \in policyRows : p.tenant = t /\ (all \/ p.active)})

\* POST /preview: getEligibleInvoices() for an active policy of the tenant, which is
\* the one asked for or one of all.  Every invoice here is old enough.
Eligible(t) ==
  {i \in HeldInvoiceIds : /\ HeldBy[i] = t
                          /\ \A h \in holdRows : ~ (h.tenant = t /\ h.invoice = i /\ h.status = "active")}

Preview(t) ==
  /\ \E p \in policyRows : p.tenant = t /\ p.active
  /\ Show(t, {[invoice |-> i, tenant |-> HeldBy[i]] : i \in Eligible(t)})

\* getRecentExecutions().
RecentExecutions(t) == {j \in executions : j.tenant = t}

\* GET /jobs.
ShowJobs(t) == Show(t, RecentExecutions(t))

\* GET /jobs/:executionId reads by id and then compares the tenant.
ShowJob(t) == \E j \in executions : j.tenant = t /\ Show(t, {j})

AdminNext ==
  \/ \E r \in AdminRequests :
       \/ AdminRefused(r) \/ CheckName(r) \/ InsertPolicy(r) \/ FindPolicy(r)
       \/ FindInvoice(r) \/ CheckHolds(r) \/ PlaceHold(r) \/ FindHold(r) \/ Release(r)
       \/ Schedule(r) \/ EmitAudit(r)
  \/ Lapse
  \/ \E j \in scheduled : Execute(j)
  \/ \E t \in AdminTenants : ShowPolicies(t) \/ Preview(t) \/ ShowJobs(t) \/ ShowJob(t)

AdminSpec == AdminInit /\ [][AdminNext]_adminVars

-----------------------------------------------------------------------------
(* Properties.                                                             *)

\* Two active policies of one tenant with one name, and two holds that count on
\* one invoice, come from requests that overlapped: neither row was there when
\* the other request looked for a conflict.
DuplicatesOverlap ==
  /\ \A p, q \in policyRows :
       p # q /\ p.tenant = q.tenant /\ p.name = q.name /\ p.active /\ q.active
       => p.id \notin admin[q.id].saw
  /\ \A g, h \in holdRows :
       g # h /\ g.invoice = h.invoice /\ g.status = "active" /\ h.status = "active"
       => g.id \notin admin[h.id].saw

\* The inductive invariant: a row is its request's and stays so, nobody has seen a
\* row that is not there, and a request about to write saw no row like its own.
RowIds == {p.id : p \in policyRows} \union {h.id : h \in holdRows}

RowOfRequest ==
  /\ \A p \in policyRows :
       /\ admin[p.id].plan.kind \in {"create", "createIdle"} /\ admin[p.id].at \in {"audit", "done"}
       /\ \A q \in policyRows : p.id = q.id => p = q
  /\ \A h \in holdRows :
       /\ admin[h.id].plan.kind = "hold" /\ admin[h.id].at \in {"audit", "done"}
       /\ \A g \in holdRows : g.id = h.id => g = h

SawNoneAlike(r) ==
  /\ At(r, {"create", "createIdle"}, "write") => \A p \in NamedAlike(r) : p.id \notin admin[r].saw
  /\ At(r, {"hold"}, "write") => \A h \in Holding(r) : h.id \notin admin[r].saw

RouteInv ==
  /\ AdminTypeOK
  /\ RowOfRequest
  /\ \A r \in AdminRequests : admin[r].saw \subseteq RowIds /\ SawNoneAlike(r)
  /\ DuplicatesOverlap

=============================================================================

---------------------------- MODULE InvoiceWrites ----------------------------
(***************************************************************************)
(* Writes to one invoice: POST, PATCH and DELETE of src/routes/v1/index.js *)
(* with the field guard of src/middleware/patchInvoice.js, and the         *)
(* functions of src/services/invoiceService.js they and the state          *)
(* transitions go through.                                                 *)
(*                                                                         *)
(* Every write is a SELECT, a check in memory and an UPDATE by id, with    *)
(* other requests in between; PATCH and transitions read the row twice.    *)
(* executeTransition(), which transitionInvoice() calls and src/ does not  *)
(* define, is taken from its use: it refuses a transition its table does   *)
(* not hold and otherwise writes an audit event before it returns.         *)
(***************************************************************************)
EXTENDS Naturals, FiniteSets

CONSTANTS
  Writes,         \* requests
  Tenants,
  Statuses,       \* invoice statuses
  LockedStatuses, \* LOCKED_STATUSES
  ValidMoves,     \* the transitions executeTransition() accepts
  FirstStatus     \* the status createInvoice() gives

ASSUME InvoiceAssumption ==
  /\ LockedStatuses \subseteq Statuses
  /\ ValidMoves \subseteq Statuses \X Statuses
  /\ FirstStatus \in Statuses \ LockedStatuses

VARIABLES
  row,     \* the invoice: [tenant, status, deleted, amount, notes]
  writes,  \* each request: its plan, how far it is, the status it last read
  trail,   \* audit events of transitions: [by, from, to]
  changed  \* history: the transitions whose status reached the row

invoiceVars == <<row, writes, trail, changed>>

NoRow == [tenant |-> "none", status |-> FirstStatus, deleted |-> FALSE,
          amount |-> "none", notes |-> "none"]
Exists == row.tenant # "none"
IsLocked == Exists /\ row.status \in LockedStatuses

\* MUTABLE_FIELDS, with amount standing for the PENDING_ONLY_FIELDS.
Fields == {"amount", "notes"}
PendingOnly == {"amount"}

Plans == [kind : {"create", "delete"}, fields : {{}}, target : {FirstStatus}]
         \union [kind : {"patch"}, fields : SUBSET Fields, target : {FirstStatus}]
         \union [kind : {"transition"}, fields : {{}}, target : Statuses]

Values == Writes \union {"none", "first"}

InvoiceTypeOK ==
  /\ row \in [tenant : Tenants \union {"none"}, status : Statuses, deleted : BOOLEAN,
              amount : Values, notes : Values]
  /\ writes \in [Writes -> [at : {"start", "resolved", "read", "write", "ok", "refused", "lost"},
                            tenant : Tenants, plan : Plans, seen : Statuses]]
  /\ trail \subseteq [by : Writes, from : Statuses, to : Statuses]
  /\ changed \subseteq Writes

InvoiceInit ==
  /\ row \in {NoRow} \union [tenant : Tenants, status : Statuses, deleted : {FALSE},
                             amount : {"first"}, notes : {"first"}]
  /\ writes \in [Writes -> [at : {"start"}, tenant : Tenants, plan : Plans, seen : {FirstStatus}]]
  /\ trail = {}
  /\ changed = {}

\* Rows a request may see: getInvoiceById() leaves out deleted rows,
\* updateInvoice() and deleteInvoice() do not.
Owned(r) == Exists /\ row.tenant = writes[r].tenant
Live(r) == Owned(r) /\ ~ row.deleted

Goto(r, at) == writes' = [writes EXCEPT ![r].at = at]

-----------------------------------------------------------------------------
(* Validation, and the requests that need no earlier read.                 *)

\* validatePatchFields(): a body without a mutable field is a 400.
EmptyPatch(r) == writes[r].plan.kind = "patch" /\ writes[r].plan.fields = {}

\* A 400 or 422 of the schemas, a failed query, or a row that is not there.
Refuse400(r) ==
  /\ writes[r].at \in {"start", "resolved", "read", "write"}
  /\ Goto(r, "refused")
  /\ UNCHANGED <<row, trail, changed>>

\* POST /invoices: createInvoice() inserts; a taken invoice_id is an error.
CreateInvoice(r) ==
  /\ writes[r].at = "start" /\ writes[r].plan.kind = "create"
  /\ ~ Exists
  /\ row' = [tenant |-> writes[r].tenant, status |-> FirstStatus, deleted |-> FALSE,
             amount |-> r, notes |-> r]
  /\ Goto(r, "ok")
  /\ UNCHANGED <<trail, changed>>

-----------------------------------------------------------------------------
(* PATCH /invoices/:id.                                                    *)

\* detectLockedFieldChange() on the status the route read.
DetectLockedFieldChange(r) == row.status \in LockedStatuses /\ writes[r].plan.fields \intersect PendingOnly # {}

PatchResolves(r) ==
  /\ writes[r].at = "start" /\ writes[r].plan.kind = "patch" /\ ~ EmptyPatch(r)
  /\ Live(r) /\ ~ DetectLockedFieldChange(r)
  /\ Goto(r, "resolved")
  /\ UNCHANGED <<row, trail, changed>>

-----------------------------------------------------------------------------
(* transitionInvoice().                                                    *)

TransitionResolves(r) ==
  /\ writes[r].at = "start" /\ writes[r].plan.kind = "transition"
  /\ Live(r)
  /\ writes' = [writes EXCEPT ![r].at = "read", ![r].seen = row.status]
  /\ UNCHANGED <<row, trail, changed>>

\* executeTransition(): the status it checks is the one read before.
ExecuteTransition(r) ==
  /\ writes[r].at = "read" /\ writes[r].plan.kind = "transition"
  /\ <<writes[r].seen, writes[r].plan.target>> \in ValidMoves
  /\ trail' = trail \union {[by |-> r, from |-> writes[r].seen, to |-> writes[r].plan.target]}
  /\ Goto(r, "resolved")
  /\ UNCHANGED <<row, changed>>

-----------------------------------------------------------------------------
(* updateInvoice() and deleteInvoice(): check, then write.                 *)

ReadStatus(r) == writes' = [writes EXCEPT ![r].at = "write", ![r].seen = row.status]

CheckOwned(r) ==
  /\ writes[r].at = "resolved" /\ Owned(r)
  /\ ReadStatus(r)
  /\ UNCHANGED <<row, trail, changed>>

\* updateInvoice(): the SELECT and the LOCKED_STATUS check.
CheckLocked(r) ==
  /\ writes[r].at = "resolved" /\ Owned(r) /\ ~ IsLocked
  /\ ReadStatus(r)
  /\ UNCHANGED <<row, trail, changed>>

\* DELETE /invoices/:id: deleteInvoice() does the same.
DeleteInvoice(r) ==
  /\ writes[r].at = "start" /\ writes[r].plan.kind = "delete"
  /\ Owned(r) /\ ~ IsLocked
  /\ ReadStatus(r)
  /\ UNCHANGED <<row, trail, changed>>

SoftDeleted == [row EXCEPT !.deleted = TRUE]

\* What the UPDATE sets.
Updated(r) ==
  LET plan == writes[r].plan
  IN IF plan.kind = "delete" THEN SoftDeleted
     ELSE [row EXCEPT !.amount = IF "amount" \in plan.fields THEN r ELSE @,
                      !.notes = IF "notes" \in plan.fields THEN r ELSE @,
                      !.status = IF plan.kind = "transition" THEN plan.target ELSE @]

\* The UPDATE, by invoice and tenant only.
Update(r) ==
  /\ writes[r].at = "write"
  /\ row' = IF Owned(r) THEN Updated(r) ELSE row
  /\ changed' = IF writes[r].plan.kind = "transition" THEN changed \union {r} ELSE changed
  /\ Goto(r, "ok")
  /\ UNCHANGED trail

-----------------------------------------------------------------------------
(* The surroundings.                                                       *)

\* Verification and funding set statuses no code in src/ writes.
SetElsewhere ==
  /\ Exists
  /\ \E s \in LockedStatuses : row' = [row EXCEPT !.status = s]
  /\ UNCHANGED <<writes, trail, changed>>

\* The process dies; what requests had in memory is gone.
InvoiceCrash ==
  /\ \E r \in Writes : writes[r].at \in {"resolved", "read", "write"}
  /\ writes' = [r \in Writes |->
                  IF writes[r].at \in {"resolved", "read", "write"}
                  THEN [writes[r] EXCEPT !.at = "lost"] ELSE writes[r]]
  /\ UNCHANGED <<row, trail, changed>>

InvoiceNext ==
  \/ \E r \in Writes :
       \/ Refuse400(r) \/ CreateInvoice(r) \/ PatchResolves(r)
       \/ TransitionResolves(r) \/ ExecuteTransition(r) \/ CheckLocked(r) \/ DeleteInvoice(r) \/ Update(r)
  \/ SetElsewhere \/ InvoiceCrash

InvoiceSpec == InvoiceInit /\ [][InvoiceNext]_invoiceVars

-----------------------------------------------------------------------------
(* Properties.                                                             *)

\* A status that transitionInvoice() stored has its audit event, however the
\* process died and whatever else was written: executeTransition() is awaited
\* before the UPDATE.  (An event without its status is possible.)
TransitionsAudited == \A r \in changed : \E e \in trail : e.by = r /\ e.to = writes[r].plan.target

\* A transition is announced from executeTransition() to its UPDATE.
Announced ==
  \A r \in Writes : writes[r].plan.kind = "transition" /\ writes[r].at \in {"resolved", "write"}
                    => \E e \in trail : e.by = r /\ e.to = writes[r].plan.target

\* A request about to write has read an unlocked status.
ReadUnlocked == \A r \in Writes : writes[r].at = "write" => writes[r].seen \notin LockedStatuses

\* The inductive invariant of the writes.
InvoiceInv == InvoiceTypeOK /\ Announced /\ ReadUnlocked /\ TransitionsAudited

\* A locked invoice is changed, deleted or moved on only by a request of its
\* tenant that had read it unlocked in updateInvoice() or deleteInvoice(), and
\* that is done with this write; one that arrives once the status is locked is
\* refused, even when the field guard let it pass because it only names notes.
LockedOnlyOvertaken ==
  [][ ( /\ IsLocked
        /\ \/ row'.status \notin LockedStatuses \/ row'.deleted # row.deleted
           \/ row'.amount # row.amount \/ row'.notes # row.notes )
      => \E r \in Writes : /\ writes[r].at = "write" /\ writes[r].tenant = row.tenant
                           /\ writes[r].seen \notin LockedStatuses
                           /\ writes'[r].at = "ok" ]_invoiceVars

=============================================================================

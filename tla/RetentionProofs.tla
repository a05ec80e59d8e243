-------------------------- MODULE RetentionProofs ---------------------------
(***************************************************************************)
(* Retention, for any invoices, policies, holds, calls and number of faults: *)
(* the purge (RetentionInv) and the routes that write policies and holds   *)
(* (RouteInv).  Before them, the end of the process that runs them, for    *)
(* any signals, connections and jobs (ShutdownInv).                        *)
(***************************************************************************)
EXTENDS RetentionPurge, RetentionRoutes, ShutdownCoordinator, TLAPS

-----------------------------------------------------------------------------
(* The graceful shutdown.                                                  *)

\* The state after module load satisfies the invariant.
LEMMA ShutdownStarts == ShutdownInit => ShutdownInv
  BY ShutdownAssumption DEF ShutdownInit, ShutdownInv, ShutdownTypeOK, OneShutdown, Progress

\* Clients and jobs do not disturb it: a connection opens only while the server
\* listens, and none is open once a call is past the close.
LEMMA EnvironmentStep ==
  ASSUME ShutdownInv,
         \/ \E c \in Connections : Connect(c)
         \/ \E c \in Connections, after \in {"idle", "closed"} : Respond(c, after)
         \/ \E c \in Connections, after \in {"busy", "closed"} : IdleConnection(c, after)
         \/ \E j \in Jobs : JobStarts(j) \/ JobEnds(j)
  PROVE  ShutdownInv'
<1>1. ASSUME NEW c \in Connections, Connect(c)
      PROVE  ShutdownInv'
  BY <1>1 DEF ShutdownInv, ShutdownTypeOK, OneShutdown, Progress, Connect
<1>2. ASSUME NEW c \in Connections, NEW after \in {"idle", "closed"}, Respond(c, after)
      PROVE  ShutdownInv'
  BY Zenon, <1>2 DEF ShutdownInv, ShutdownTypeOK, OneShutdown, Progress, Respond
<1>3. ASSUME NEW c \in Connections, NEW after \in {"busy", "closed"}, IdleConnection(c, after)
      PROVE  ShutdownInv'
  BY Zenon, <1>3 DEF ShutdownInv, ShutdownTypeOK, OneShutdown, Progress, IdleConnection
<1>4. ASSUME NEW j \in Jobs, JobStarts(j) \/ JobEnds(j)
      PROVE  ShutdownInv'
  BY <1>4 DEF ShutdownInv, ShutdownTypeOK, OneShutdown, Progress, JobStarts, JobEnds
<1> QED BY Zenon, <1>1, <1>2, <1>3, <1>4

\* A signal starts the shutdown if none is under way, and is ignored otherwise.
LEMMA SignalStep ==
  ASSUME ShutdownInv, NEW s \in Signals, ExecuteShutdown(s)
  PROVE  ShutdownInv'
<1>1. CASE isShuttingDown = "yes"
  BY <1>1 DEF ShutdownInv, ShutdownTypeOK, OneShutdown, Progress, ExecuteShutdown
<1>2. CASE isShuttingDown = "no"
  BY <1>2 DEF ShutdownInv, ShutdownTypeOK, OneShutdown, Progress, ExecuteShutdown
<1> QED BY Zenon, <1>1, <1>2 DEF ShutdownInv, ShutdownTypeOK

\* The phases of the one call that is past the guard.
LEMMA PhaseStep ==
  ASSUME ShutdownInv, NEW s \in Signals, ShutdownStep(s) \/ ForceExit(s)
  PROVE  ShutdownInv'
<1>1. CASE ServerClosed(s)
  BY <1>1 DEF ShutdownInv, ShutdownTypeOK, OneShutdown, Progress, ServerClosed
<1>2. CASE StopWorker(s)
  BY <1>2 DEF ShutdownInv, ShutdownTypeOK, OneShutdown, Progress, StopWorker
<1>3. CASE WorkerStopped(s)
  BY <1>3 DEF ShutdownInv, ShutdownTypeOK, OneShutdown, Progress, WorkerStopped
<1>4. ASSUME NEW failed \in BOOLEAN, PoolDestroyed(s, failed)
      PROVE  ShutdownInv'
  BY <1>4 DEF ShutdownInv, ShutdownTypeOK, OneShutdown, Progress, PoolDestroyed
<1>5. CASE ForceExit(s)
  BY Zenon, <1>5 DEF ShutdownInv, ShutdownTypeOK, OneShutdown, Progress, ForceExit
<1> QED BY Zenon, <1>1, <1>2, <1>3, <1>4, <1>5 DEF ShutdownStep

\* The invariant of executeShutdown(): one call is past the guard of line 69, and
\* every phase it has passed stays done.
THEOREM ShutdownInvariant == ShutdownSpec => []ShutdownInv
<1>1. ShutdownInit => ShutdownInv
  BY ShutdownStarts
<1>2. ShutdownInv /\ [ShutdownNext]_shutdownVars => ShutdownInv'
  <2> SUFFICES ASSUME ShutdownInv, [ShutdownNext]_shutdownVars
               PROVE  ShutdownInv'
    OBVIOUS
  <2>1. CASE ShutdownNext
    BY Zenon, <2>1, EnvironmentStep, SignalStep, PhaseStep DEF ShutdownNext
  <2>2. CASE UNCHANGED shutdownVars
    BY Zenon, <2>2 DEF shutdownVars, ShutdownInv, ShutdownTypeOK, OneShutdown, Progress
  <2> QED BY <2>1, <2>2
<1> QED BY <1>1, <1>2, PTL DEF ShutdownSpec

\* db.destroy() never runs under a request.
THEOREM PoolIsLast == ShutdownSpec => []PoolOutlivesRequests
<1>1. ShutdownInv => PoolOutlivesRequests
  BY DEF ShutdownInv, Progress, PoolOutlivesRequests
<1> QED BY <1>1, ShutdownInvariant, PTL

\* process.exit(0) is reached only behind all phases.
THEOREM CleanExitIsDrained == ShutdownSpec => []CleanExit
<1>1. ShutdownInv => CleanExit
  BY DEF ShutdownInv, Progress, CleanExit
<1> QED BY <1>1, ShutdownInvariant, PTL

-----------------------------------------------------------------------------
(* The purge.                                                              *)

\* Nothing is wiped and no call has begun.
LEMMA RetentionStart == Init => RetentionInv
<1> SUFFICES ASSUME Init PROVE RetentionInv
  OBVIOUS
<1>1. TypeOK
  BY RetentionAssumption DEF Init, TypeOK, Steps, InvoiceSteps
<1>2. \A c \in Calls : CallInv(c)
  BY DEF Init, CallInv, InvoiceSteps
<1> QED BY <1>1, <1>2 DEF Init, RetentionInv

\* The history: an invoice seen without a hold stays so for the call that has it,
\* and one that has no hold now has been seen.
LEMMA HoldsObserved ==
  ASSUME TypeOK, ObserveHolds
  PROVE  /\ free' \in [Calls -> BOOLEAN]
         /\ \A d \in Calls : free[d] /\ inv'[d] = inv[d] /\ inv[d] # None => free'[d]
         /\ \A d \in Calls : inv'[d] # None /\ inv'[d] \notin HeldInvoices' => free'[d]
  BY DEF ObserveHolds

\* What one call stands for is not disturbed by the others: values are only wiped,
\* and policies only added.
LEMMA OthersKept ==
  ASSUME TypeOK, ObserveHolds, NEW d \in Calls, CallInv(d), req' = req,
         pc'[d] = pc[d], exec'[d] = exec[d], todo'[d] = todo[d], policy'[d] = policy[d],
         batch'[d] = batch[d], inv'[d] = inv[d], old'[d] = old[d],
         active \subseteq active', \A i \in Invoices : clear'[i] \subseteq clear[i]
  PROVE  CallInv(d)'
<1>1. pc[d] \in InvoiceSteps => inv[d] \in Invoices /\ inv[d] # None
  BY DEF TypeOK
<1>2. Chosen(d) \subseteq Chosen(d)'
  BY DEF Chosen
<1>3. \A p : Old(req[d], p)' = Old(req[d], p) /\ FieldsOf(req[d], p)' = FieldsOf(req[d], p)
  BY DEF Old, Days, FieldsOf
<1>4. pc[d] \in {"read", "update"} /\ free[d] => free'[d]
  BY <1>1, HoldsObserved DEF InvoiceSteps
<1>5. pc[d] \in {"update", "log"} => clear'[inv[d]] \subseteq clear[inv[d]]
  BY <1>1 DEF InvoiceSteps
<1> QED BY Zenon, <1>1, <1>2, <1>4, <1>5 DEF CallInv, Old, Days, FieldsOf, InvoiceSteps

\* So does a call that answers for a value.
LEMMA OthersExplain ==
  ASSUME NEW d \in Calls, NEW i, NEW f, Explains(d, i, f), req' = req,
         pc'[d] = pc[d], exec'[d] = exec[d], inv'[d] = inv[d], old'[d] = old[d],
         errors'[d] = errors[d], active \subseteq active'
  PROVE  Explains(d, i, f)'
  BY Zenon DEF Explains, InReach, Old, Days, FieldsOf

\* A step of one call preserves the invariant if the call itself is in order after
\* it, still answers for what it answered for unless that is audited now, answers
\* for what it wiped, and audits nothing that is still there.
LEMMA StepOfOne ==
  ASSUME RetentionInv, NEW c \in Calls, ObserveHolds, TypeOK', CallInv(c)', req' = req,
         active' = active,
         \A d \in Calls \ {c} :
           /\ pc'[d] = pc[d] /\ exec'[d] = exec[d] /\ todo'[d] = todo[d] /\ policy'[d] = policy[d]
           /\ batch'[d] = batch[d] /\ inv'[d] = inv[d] /\ old'[d] = old[d] /\ errors'[d] = errors[d],
         \A i \in Invoices : /\ clear'[i] \subseteq clear[i] /\ audited[i] \subseteq audited'[i]
                             /\ (audited'[i] \ audited[i]) \cap clear'[i] = {},
         \A i \in Invoices, f \in Fields :
           Explains(c, i, f) => Explains(c, i, f)' \/ f \in audited'[i],
         \A i \in Invoices : \A f \in clear[i] \ clear'[i] : Explains(c, i, f)'
  PROVE  RetentionInv'
<1>1. \A d \in Calls : CallInv(d)'
  <2> TAKE d \in Calls
  <2>1. CASE d = c
    BY <2>1
  <2>2. CASE d # c
    BY ZenonT(60), <2>2, OthersKept DEF RetentionInv
  <2> QED BY <2>1, <2>2
<1>2. \A i \in Invoices : audited'[i] \cap clear'[i] = {}
  BY DEF RetentionInv
<1>3. ASSUME NEW i \in Invoices, NEW f \in (Fields \ clear'[i]) \ audited'[i]
      PROVE  \E d \in Calls : Explains(d, i, f)'
  <2>1. CASE f \in clear[i]
    BY <2>1
  <2>2. CASE f \notin clear[i]
    <3>1. PICK d \in Calls : Explains(d, i, f)
      BY <1>3, <2>2 DEF RetentionInv
    <3>2. CASE d = c
      BY <3>1, <3>2, <1>3
    <3>3. CASE d # c
      BY <3>1, <3>3, OthersExplain
    <3> QED BY <3>2, <3>3
  <2> QED BY <2>1, <2>2
<1> QED BY Zenon, <1>1, <1>2, <1>3 DEF RetentionInv

\* A step that touches no table, after which the call answers for what it did.
LEMMA QuietStep ==
  ASSUME RetentionInv, NEW c \in Calls, ObserveHolds, TypeOK', CallInv(c)', req' = req,
         UNCHANGED tables,
         \A d \in Calls \ {c} :
           /\ pc'[d] = pc[d] /\ exec'[d] = exec[d] /\ todo'[d] = todo[d] /\ policy'[d] = policy[d]
           /\ batch'[d] = batch[d] /\ inv'[d] = inv[d] /\ old'[d] = old[d] /\ errors'[d] = errors[d],
         pc[c] # "log" /\ pc[c] # Ended,
         exec[c] \in {"started", "failed"} /\ errors[c] # {} => exec'[c] \in {"started", "failed"},
         pc'[c] = Ended \/ errors'[c] = errors[c]
  PROVE  RetentionInv'
<1>1. ASSUME NEW i \in Invoices, NEW f \in Fields, Explains(c, i, f)
      PROVE  Explains(c, i, f)'
  <2>1. i \in errors[c] /\ exec[c] \in {"started", "failed"} /\ InReach(c, i, f)
    BY <1>1 DEF Explains
  <2>2. exec'[c] \in {"started", "failed"} /\ (pc'[c] = Ended \/ i \in errors'[c])
    BY <2>1
  <2>3. InReach(c, i, f)'
    BY Zenon, <2>1, <2>2 DEF InReach, Old, Days, FieldsOf, tables
  <2> QED BY <2>2, <2>3 DEF Explains
<1> QED BY Zenon, <1>1, StepOfOne DEF tables

\* createJobExecution(): the row is there before the first policy is read.
LEMMA StartStep ==
  ASSUME RetentionInv, NEW c \in Calls, StartCall(c), ObserveHolds
  PROVE  RetentionInv'
<1>1. TypeOK'
  BY Zenon, HoldsObserved DEF RetentionInv, TypeOK, StartCall, Goto, tables, locals, Steps, InvoiceSteps
<1>2. CallInv(c)'
  BY DEF RetentionInv, TypeOK, CallInv, StartCall, Goto, tables, locals, InvoiceSteps, Chosen
<1> QED
  BY ZenonT(60), <1>1, <1>2, QuietStep DEF RetentionInv, TypeOK, StartCall, Goto, tables, locals, Ended

\* The policies of the call: active ones, and those it was asked for.
LEMMA LoadStep ==
  ASSUME RetentionInv, NEW c \in Calls, LoadPolicies(c), ObserveHolds
  PROVE  RetentionInv'
<1>1. TypeOK'
  BY Zenon, HoldsObserved DEF RetentionInv, TypeOK, LoadPolicies, Goto, tables, Steps, InvoiceSteps
<1>2. todo'[c] \subseteq Chosen(c)'
  BY DEF RetentionInv, TypeOK, LoadPolicies, tables, Chosen
<1>3. exec'[c] = "started" /\ pc'[c] \in {"failing", "policy"}
  BY Zenon DEF RetentionInv, TypeOK, CallInv, LoadPolicies, Goto
<1>4. CallInv(c)'
  BY <1>2, <1>3 DEF CallInv, InvoiceSteps
<1> QED
  BY Zenon, <1>1, <1>3, <1>4, QuietStep DEF RetentionInv, TypeOK, LoadPolicies, Goto, tables, Ended

\* The batch of a policy is old enough, whichever rows the query returns.
LEMMA PolicyStep ==
  ASSUME RetentionInv, NEW c \in Calls, NextPolicy(c), ObserveHolds
  PROVE  RetentionInv'
<1>1. PICK p \in todo[c], b \in SUBSET Invoices :
        /\ b \subseteq getEligibleInvoices(req[c], p)
        /\ policy' = [policy EXCEPT ![c] = p] /\ todo' = [todo EXCEPT ![c] = @ \ {p}]
        /\ batch' = [batch EXCEPT ![c] = b]
  BY Zenon DEF NextPolicy, getEligibleInvoices, Old
<1>2. p \in Policies /\ p \in Chosen(c) /\ b \subseteq Old(req[c], p) /\ b \subseteq Invoices
  BY Zenon, <1>1 DEF RetentionInv, TypeOK, CallInv, getEligibleInvoices, Old
<1>3. /\ pc[c] = "policy" /\ pc' = [pc EXCEPT ![c] = "invoice"]
      /\ UNCHANGED <<tables, exec, req, inv, old, errors, faults>>
  BY DEF NextPolicy, Goto
<1>4. TypeOK'
  BY Zenon, <1>1, <1>2, <1>3, HoldsObserved DEF RetentionInv, TypeOK, tables, Steps, InvoiceSteps
<1>5. /\ pc'[c] = "invoice" /\ policy'[c] = p /\ batch'[c] = b /\ todo'[c] \subseteq todo[c]
      /\ exec'[c] = "started"
  BY <1>1, <1>3 DEF RetentionInv, TypeOK, CallInv
<1>6. CallInv(c)'
  BY Zenon, <1>2, <1>3, <1>5 DEF RetentionInv, CallInv, InvoiceSteps, Chosen, Old, Days, tables
<1> QED
  BY Zenon, <1>1, <1>3, <1>4, <1>5, <1>6, QuietStep DEF RetentionInv, TypeOK, tables, Ended

\* The next invoice comes from the batch, and nothing of it has been read.
LEMMA InvoiceStep ==
  ASSUME RetentionInv, NEW c \in Calls, NextInvoice(c), ObserveHolds
  PROVE  RetentionInv'
<1>1. /\ pc[c] = "invoice" /\ old' = [old EXCEPT ![c] = {}]
      /\ UNCHANGED <<tables, exec, req, todo, policy, errors, faults>>
  BY DEF NextInvoice
<1>2. /\ exec[c] = "started" /\ policy[c] \in Chosen(c) /\ batch[c] \subseteq Old(req[c], policy[c])
      /\ todo[c] \subseteq Chosen(c)
  BY Zenon, <1>1 DEF RetentionInv, CallInv
<1>3. policy[c] # None
  BY Zenon, <1>2, RetentionAssumption DEF Chosen, RetentionInv, TypeOK
<1>4. CASE batch[c] = {} /\ inv' = [inv EXCEPT ![c] = None] /\ UNCHANGED batch
           /\ Goto(c, IF todo[c] = {} THEN "finish" ELSE "policy")
  <2>1. pc'[c] \in {"finish", "policy"}
    BY <1>4 DEF Goto, RetentionInv, TypeOK
  <2>2. TypeOK'
    BY Zenon, <1>1, <1>4, HoldsObserved DEF RetentionInv, TypeOK, Goto, tables, Steps, InvoiceSteps
  <2>3. CallInv(c)'
    BY Zenon, <1>1, <1>2, <2>1 DEF CallInv, InvoiceSteps, Chosen, tables
  <2> QED
    BY Zenon, <1>1, <1>4, <2>1, <2>2, <2>3, QuietStep DEF RetentionInv, TypeOK, Goto, tables, Ended
<1>5. ASSUME NEW i \in batch[c], inv' = [inv EXCEPT ![c] = i],
             batch' = [batch EXCEPT ![c] = @ \ {i}], Goto(c, "check")
      PROVE  RetentionInv'
  <2>1. i \in Invoices /\ i # None /\ i \in Old(req[c], policy[c])
    BY ZenonT(60), <1>2, <1>5, RetentionAssumption DEF RetentionInv, TypeOK
  <2>2. pc'[c] = "check" /\ inv'[c] = i /\ old'[c] = {} /\ batch'[c] \subseteq batch[c]
    BY Zenon, <1>1, <1>5 DEF Goto, RetentionInv, TypeOK
  <2>3. TypeOK'
    BY Zenon, <1>1, <1>3, <1>5, <2>1, HoldsObserved DEF RetentionInv, TypeOK, Goto, tables, Steps, InvoiceSteps
  <2>4. CallInv(c)'
    BY Zenon, <1>1, <1>2, <2>1, <2>2 DEF CallInv, InvoiceSteps, Chosen, Old, Days, tables
  <2> QED
    BY Zenon, <1>1, <1>5, <2>2, <2>3, <2>4, QuietStep DEF RetentionInv, TypeOK, Goto, tables, Ended
<1> QED BY <1>4, <1>5 DEF NextInvoice

\* The second look: a call goes on to wipe what it sees without a hold now.
LEMMA CheckStep ==
  ASSUME RetentionInv, NEW c \in Calls, CheckHold(c), ObserveHolds
  PROVE  RetentionInv'
<1>1. /\ pc[c] = "check" /\ UNCHANGED <<tables, exec, locals, faults>>
      /\ pc' = [pc EXCEPT ![c] = IF Held(inv[c]) THEN "invoice"
                                 ELSE IF req[c].dryRun THEN "log" ELSE "read"]
  BY DEF CheckHold, Goto
<1>2. TypeOK'
  BY Zenon, <1>1, HoldsObserved DEF RetentionInv, TypeOK, tables, locals, Steps, InvoiceSteps
<1>3. /\ exec[c] = "started" /\ old[c] = {} /\ inv[c] # None
      /\ policy[c] \in Chosen(c) /\ batch[c] \subseteq Old(req[c], policy[c])
      /\ todo[c] \subseteq Chosen(c) /\ inv[c] \in Old(req[c], policy[c])
  BY Zenon, <1>1 DEF RetentionInv, TypeOK, CallInv, InvoiceSteps
<1>4. HeldInvoices' = HeldInvoices
  BY <1>1 DEF HeldInvoices, tables
<1>5. pc'[c] = "read" => free'[c] /\ ~req[c].dryRun
  BY Zenon, <1>1, <1>3, <1>4, HoldsObserved DEF Held, locals, RetentionInv, TypeOK
<1>6. pc'[c] \in {"invoice", "log", "read"}
  BY <1>1 DEF RetentionInv, TypeOK
<1>7. CallInv(c)'
  BY Zenon, <1>1, <1>3, <1>5, <1>6 DEF CallInv, InvoiceSteps, Chosen, Old, Days, tables, locals
<1> QED
  BY Zenon, <1>1, <1>2, <1>3, <1>6, <1>7, QuietStep DEF RetentionInv, TypeOK, tables, locals, Ended

\* The read: all that the update will wipe.
LEMMA ReadStep ==
  ASSUME RetentionInv, NEW c \in Calls, ReadCurrent(c), ObserveHolds
  PROVE  RetentionInv'
<1>1. /\ pc[c] = "read" /\ pc' = [pc EXCEPT ![c] = "update"]
      /\ old' = [old EXCEPT ![c] = clear[inv[c]] \cap FieldsOf(req[c], policy[c])]
      /\ UNCHANGED <<tables, exec, req, todo, policy, batch, inv, errors, faults>>
  BY DEF ReadCurrent, Goto
<1>2. /\ exec[c] = "started" /\ inv[c] # None /\ inv[c] \in Invoices
      /\ policy[c] \in Chosen(c) /\ batch[c] \subseteq Old(req[c], policy[c])
      /\ todo[c] \subseteq Chosen(c) /\ inv[c] \in Old(req[c], policy[c])
      /\ free[c] /\ ~req[c].dryRun
  BY Zenon, <1>1 DEF RetentionInv, TypeOK, CallInv, InvoiceSteps
<1>3. TypeOK'
  BY Zenon, <1>1, <1>2, HoldsObserved DEF RetentionInv, TypeOK, tables, Steps, InvoiceSteps
<1>4. pc'[c] = "update" /\ old'[c] = clear[inv[c]] \cap FieldsOf(req[c], policy[c]) /\ free'[c]
  BY Zenon, <1>1, <1>2, HoldsObserved DEF RetentionInv, TypeOK
<1>5. CallInv(c)'
  BY Zenon, <1>1, <1>2, <1>4 DEF CallInv, InvoiceSteps, Chosen, Old, Days, FieldsOf, tables
<1> QED
  BY Zenon, <1>1, <1>2, <1>3, <1>4, <1>5, QuietStep DEF RetentionInv, TypeOK, tables, Ended

\* What a call at work on an invoice can say of itself.
LEMMA AtWork ==
  ASSUME RetentionInv, NEW c \in Calls, pc[c] \in InvoiceSteps
  PROVE  /\ exec[c] = "started" /\ inv[c] # None /\ inv[c] \in Invoices
         /\ policy[c] \in Chosen(c) /\ batch[c] \subseteq Old(req[c], policy[c])
         /\ todo[c] \subseteq Chosen(c) /\ inv[c] \in Old(req[c], policy[c])
  BY Zenon DEF RetentionInv, TypeOK, CallInv

\* The fields an update names are in reach of the call.
LEMMA ReachOfUpdate ==
  ASSUME RetentionInv, NEW c \in Calls, pc[c] = "update", NEW f \in FieldsOf(req[c], policy[c])
  PROVE  InReach(c, inv[c], f)
<1>1. pc[c] \in InvoiceSteps
  BY Zenon DEF InvoiceSteps
<1>2. ~req[c].dryRun
  BY DEF RetentionInv, CallInv
<1> QED BY <1>1, <1>2, AtWork DEF InReach, Chosen

\* The update: everything it wipes was read before, and its audit row is next.
LEMMA UpdateStep ==
  ASSUME RetentionInv, NEW c \in Calls, UpdateInvoice(c), ObserveHolds
  PROVE  RetentionInv'
<1>1. /\ pc[c] = "update" /\ pc' = [pc EXCEPT ![c] = "log"]
      /\ clear' = [clear EXCEPT ![inv[c]] = @ \ FieldsOf(req[c], policy[c])]
      /\ UNCHANGED <<active, audited, hold, exec, locals, faults>>
  BY DEF UpdateInvoice, Goto, Wipe
<1>2. pc[c] \in InvoiceSteps
  BY <1>1 DEF InvoiceSteps
<1>3. TypeOK'
  BY Zenon, <1>1, <1>2, HoldsObserved DEF RetentionInv, TypeOK, locals, Steps, InvoiceSteps
<1>4. /\ clear[inv[c]] \cap FieldsOf(req[c], policy[c]) \subseteq old[c]
      /\ old[c] \subseteq FieldsOf(req[c], policy[c])
  BY Zenon, <1>1 DEF RetentionInv, CallInv
<1>5. /\ pc'[c] = "log" /\ clear'[inv[c]] = clear[inv[c]] \ FieldsOf(req[c], policy[c])
      /\ \A i \in Invoices \ {inv[c]} : clear'[i] = clear[i]
  BY Zenon, <1>1, <1>2, AtWork DEF RetentionInv, TypeOK
<1>6. CallInv(c)'
  BY Zenon, <1>1, <1>2, <1>4, <1>5, AtWork DEF CallInv, InvoiceSteps, Chosen, Old, Days, locals
<1>7. ASSUME NEW i \in Invoices, NEW f \in clear[i] \ clear'[i]
      PROVE  Explains(c, i, f)'
  <2>1. i = inv[c] /\ f \in old[c] /\ f \in FieldsOf(req[c], policy[c])
    BY <1>4, <1>5, <1>7
  <2>2. InReach(c, i, f) /\ exec[c] = "started"
    BY Zenon, <1>1, <1>2, <2>1, ReachOfUpdate, AtWork
  <2> QED BY Zenon, <1>1, <1>5, <2>1, <2>2 DEF Explains, InReach, Old, Days, FieldsOf, locals
<1>8. ASSUME NEW i \in Invoices, NEW f \in Fields, Explains(c, i, f)
      PROVE  Explains(c, i, f)'
  BY Zenon, <1>1, <1>8 DEF Explains, InReach, Old, Days, FieldsOf, locals, Ended
<1>9. \A d \in Calls \ {c} :
        /\ pc'[d] = pc[d] /\ exec'[d] = exec[d] /\ todo'[d] = todo[d] /\ policy'[d] = policy[d]
        /\ batch'[d] = batch[d] /\ inv'[d] = inv[d] /\ old'[d] = old[d] /\ errors'[d] = errors[d]
  BY Zenon, <1>1 DEF RetentionInv, TypeOK, locals
<1>10. \A i \in Invoices : /\ clear'[i] \subseteq clear[i] /\ audited[i] \subseteq audited'[i]
                           /\ (audited'[i] \ audited[i]) \cap clear'[i] = {}
  BY <1>1, <1>5
<1>11. req' = req /\ active' = active
  BY <1>1 DEF locals
<1> QED BY Zenon, <1>3, <1>6, <1>7, <1>8, <1>9, <1>10, <1>11, StepOfOne

\* The audit row: it holds hashes of values that are gone, and it closes the gap.
LEMMA LogStep ==
  ASSUME RetentionInv, NEW c \in Calls, LogOperation(c), ObserveHolds
  PROVE  RetentionInv'
<1>1. /\ pc[c] = "log" /\ pc' = [pc EXCEPT ![c] = "invoice"]
      /\ audited' = [audited EXCEPT ![inv[c]] = @ \cup old[c]]
      /\ UNCHANGED <<active, clear, hold, exec, locals, faults>>
  BY DEF LogOperation, Goto, Record
<1>2. pc[c] \in InvoiceSteps
  BY <1>1 DEF InvoiceSteps
<1>3. TypeOK'
  BY ZenonT(60), <1>1, <1>2, AtWork, HoldsObserved DEF RetentionInv, TypeOK, locals, Steps, InvoiceSteps
<1>4. old[c] \cap clear[inv[c]] = {}
  BY Zenon, <1>1 DEF RetentionInv, CallInv
<1>5. /\ pc'[c] = "invoice" /\ audited'[inv[c]] = audited[inv[c]] \cup old[c]
      /\ \A i \in Invoices \ {inv[c]} : audited'[i] = audited[i]
  BY Zenon, <1>1, <1>2, AtWork DEF RetentionInv, TypeOK
<1>6. CallInv(c)'
  BY Zenon, <1>1, <1>2, <1>5, AtWork DEF CallInv, InvoiceSteps, Chosen, Old, Days, locals
<1>7. ASSUME NEW i \in Invoices, NEW f \in Fields, Explains(c, i, f)
      PROVE  Explains(c, i, f)' \/ f \in audited'[i]
  BY Zenon, <1>1, <1>5, <1>7 DEF Explains, InReach, Old, Days, FieldsOf, locals, Ended
<1>8. \A d \in Calls \ {c} :
        /\ pc'[d] = pc[d] /\ exec'[d] = exec[d] /\ todo'[d] = todo[d] /\ policy'[d] = policy[d]
        /\ batch'[d] = batch[d] /\ inv'[d] = inv[d] /\ old'[d] = old[d] /\ errors'[d] = errors[d]
  BY <1>1 DEF RetentionInv, TypeOK, locals
<1>9. \A i \in Invoices : /\ clear'[i] \subseteq clear[i] /\ audited[i] \subseteq audited'[i]
                           /\ (audited'[i] \ audited[i]) \cap clear'[i] = {}
  BY Zenon, <1>1, <1>4, <1>5
<1>10. req' = req /\ active' = active /\ clear' = clear
  BY <1>1 DEF locals
<1> QED BY Zenon, <1>3, <1>6, <1>7, <1>8, <1>9, <1>10, StepOfOne

\* A call whose local variables are gone.
LEMMA CallEnds ==
  ASSUME RetentionInv, NEW c \in Calls, ObserveHolds, Forget(c), Goto(c, Ended),
         UNCHANGED tables, pc[c] # "log" /\ pc[c] # Ended,
         exec' \in [Calls -> {"none", "started", "completed", "failed"}],
         \A d \in Calls \ {c} : exec'[d] = exec[d],
         exec[c] \in {"started", "failed"} /\ errors[c] # {} => exec'[c] \in {"started", "failed"},
         faults' \in 0..MaxFaults
  PROVE  RetentionInv'
<1>1. TypeOK'
  BY ZenonT(60), HoldsObserved DEF RetentionInv, TypeOK, Goto, Forget, tables, Steps, InvoiceSteps, Ended
<1>2. pc'[c] = Ended /\ todo'[c] = {}
  BY DEF RetentionInv, TypeOK, Goto, Forget
<1>3. CallInv(c)'
  BY <1>2 DEF CallInv, InvoiceSteps, Ended
<1> QED
  BY Zenon, <1>1, <1>2, <1>3, QuietStep DEF RetentionInv, TypeOK, Goto, Forget

\* The end of a call: it reports success only when no invoice failed.
LEMMA FinishStep ==
  ASSUME RetentionInv, NEW c \in Calls, Finish(c) \/ RecordFailure(c), ObserveHolds
  PROVE  RetentionInv'
<1>1. CASE Finish(c) /\ errors[c] = {}
  BY ZenonT(60), <1>1, CallEnds DEF RetentionInv, TypeOK, Finish, Ended
<1>2. CASE Finish(c) /\ errors[c] # {}
  <2>1. pc[c] = "finish" /\ pc' = [pc EXCEPT ![c] = "failing"] /\ UNCHANGED <<tables, faults, exec, locals>>
    BY <1>2 DEF Finish, Goto
  <2>2. TypeOK'
    BY Zenon, <2>1, HoldsObserved DEF RetentionInv, TypeOK, tables, locals, Steps, InvoiceSteps
  <2>3. CallInv(c)'
    BY Zenon, <2>1 DEF RetentionInv, TypeOK, CallInv, InvoiceSteps, Chosen, tables, locals
  <2> QED BY Zenon, <2>1, <2>2, <2>3, QuietStep DEF RetentionInv, TypeOK, tables, locals, Ended
<1>3. CASE RecordFailure(c)
  BY Zenon, <1>3, CallEnds DEF RetentionInv, TypeOK, RecordFailure, Ended
<1> QED BY Zenon, <1>1, <1>2, <1>3

\* Failures are counted.
LEMMA FaultCounted ==
  ASSUME TypeOK, Fault
  PROVE  faults' \in 0..MaxFaults
<1>1. faults \in 0..MaxFaults
  BY DEF TypeOK
<1>2. MaxFaults \in Nat
  BY RetentionAssumption
<1> QED BY <1>1, <1>2 DEF Fault

\* A failed statement for one invoice: the call has the invoice among its errors,
\* and so answers for whatever the statement did.
LEMMA InvoiceFailsStep ==
  ASSUME RetentionInv, NEW c \in Calls, InvoiceFails(c), ObserveHolds
  PROVE  RetentionInv'
<1>1. /\ pc[c] \in InvoiceSteps /\ pc' = [pc EXCEPT ![c] = "invoice"]
      /\ errors' = [errors EXCEPT ![c] = @ \cup {inv[c]}]
      /\ UNCHANGED <<active, hold, exec, req, todo, policy, batch, inv, old>>
  BY DEF InvoiceFails, Goto
<1>2. faults' \in 0..MaxFaults
  BY FaultCounted DEF InvoiceFails, RetentionInv
<1>3. /\ pc'[c] = "invoice" /\ errors'[c] = errors[c] \cup {inv[c]}
      /\ inv[c] \in Invoices
  BY Zenon, <1>1, AtWork DEF RetentionInv, TypeOK
<1>4. /\ clear' \in [Invoices -> SUBSET Fields] /\ audited' \in [Invoices -> SUBSET Fields]
      /\ \A i \in Invoices : /\ clear'[i] \subseteq clear[i] /\ audited[i] \subseteq audited'[i]
                             /\ (audited'[i] \ audited[i]) \cap clear'[i] = {}
      /\ \A i \in Invoices : \A f \in clear[i] \ clear'[i] :
           pc[c] = "update" /\ i = inv[c] /\ f \in FieldsOf(req[c], policy[c])
  <2>1. CASE UNCHANGED <<clear, audited>>
    BY Zenon, <2>1 DEF RetentionInv, TypeOK
  <2>2. CASE pc[c] = "update" /\ Wipe(c) /\ UNCHANGED audited
    BY Zenon, <1>3, <2>2 DEF Wipe, RetentionInv, TypeOK
  <2>3. CASE pc[c] = "log" /\ Record(c) /\ UNCHANGED clear
    <3>1. old[c] \cap clear[inv[c]] = {} /\ old[c] \subseteq Fields
      BY Zenon, <2>3 DEF RetentionInv, TypeOK, CallInv
    <3> QED BY Zenon, <1>3, <2>3, <3>1 DEF Record, RetentionInv, TypeOK
  <2> QED BY Zenon, <2>1, <2>2, <2>3 DEF InvoiceFails
<1>5. TypeOK'
  BY <1>1, <1>2, <1>3, <1>4, HoldsObserved DEF RetentionInv, TypeOK, Steps, InvoiceSteps
<1>6. CallInv(c)'
  BY Zenon, <1>1, <1>3, AtWork DEF CallInv, InvoiceSteps, Chosen, Old, Days
<1>7. ASSUME NEW i \in Invoices, NEW f \in clear[i] \ clear'[i]
      PROVE  Explains(c, i, f)'
  <2>1. pc[c] = "update" /\ i = inv[c] /\ f \in FieldsOf(req[c], policy[c])
    BY <1>4, <1>7
  <2>2. InReach(c, i, f) /\ exec[c] = "started"
    BY Zenon, <1>1, <2>1, ReachOfUpdate, AtWork
  <2> QED BY Zenon, <1>1, <1>3, <2>1, <2>2 DEF Explains, InReach, Old, Days, FieldsOf
<1>8. ASSUME NEW i \in Invoices, NEW f \in Fields, Explains(c, i, f)
      PROVE  Explains(c, i, f)'
  <2>1. i \in errors'[c]
    BY <1>1, <1>3, <1>8 DEF Explains, InvoiceSteps, Ended
  <2> QED BY Zenon, <1>1, <1>8, <2>1 DEF Explains, InReach, Old, Days, FieldsOf
<1>9. \A d \in Calls \ {c} :
        /\ pc'[d] = pc[d] /\ exec'[d] = exec[d] /\ todo'[d] = todo[d] /\ policy'[d] = policy[d]
        /\ batch'[d] = batch[d] /\ inv'[d] = inv[d] /\ old'[d] = old[d] /\ errors'[d] = errors[d]
  BY Zenon, <1>1 DEF RetentionInv, TypeOK
<1> QED BY Zenon, <1>1, <1>4, <1>5, <1>6, <1>7, <1>8, <1>9, StepOfOne

\* Any other failed statement leads to the catch block or ends the call.
LEMMA StatementFailsStep ==
  ASSUME RetentionInv, NEW c \in Calls, StatementFails(c), ObserveHolds
  PROVE  RetentionInv'
<1>1. faults' \in 0..MaxFaults /\ UNCHANGED tables
  BY FaultCounted DEF StatementFails, RetentionInv
<1>2. CASE pc[c] \in {"idle", "failing"}
  <2>1. Goto(c, Ended) /\ Forget(c)
    BY <1>2 DEF StatementFails
  <2>2. exec' = exec \/ exec' = [exec EXCEPT ![c] = IF pc[c] = "idle" THEN "started" ELSE "failed"]
    BY <1>2 DEF StatementFails
  <2>3. /\ exec' \in [Calls -> {"none", "started", "completed", "failed"}]
        /\ \A d \in Calls \ {c} : exec'[d] = exec[d]
        /\ exec[c] \in {"started", "failed"} => exec'[c] \in {"started", "failed"}
    BY Zenon, <2>2 DEF RetentionInv, TypeOK
  <2> QED BY <1>1, <1>2, <2>1, <2>3, CallEnds DEF Ended
<1>3. CASE pc[c] \in {"load", "policy", "finish"}
  <2>1. pc' = [pc EXCEPT ![c] = "failing"] /\ UNCHANGED locals
    BY <1>3 DEF StatementFails, Goto
  <2>2. exec' = exec \/ (errors[c] = {} /\ exec' = [exec EXCEPT ![c] = "completed"])
    BY <1>3 DEF StatementFails
  <2>3. TypeOK'
    BY ZenonT(60), <1>1, <2>1, <2>2, HoldsObserved DEF RetentionInv, TypeOK, tables, locals, Steps, InvoiceSteps
  <2>4. CallInv(c)'
    BY Zenon, <1>1, <2>1 DEF RetentionInv, TypeOK, CallInv, InvoiceSteps, Chosen, tables, locals
  <2>5. /\ \A d \in Calls \ {c} : exec'[d] = exec[d]
        /\ exec[c] \in {"started", "failed"} /\ errors[c] # {} => exec'[c] \in {"started", "failed"}
    BY Zenon, <2>2 DEF RetentionInv, TypeOK
  <2> QED
    BY ZenonT(60), <1>1, <1>3, <2>1, <2>3, <2>4, <2>5, QuietStep DEF RetentionInv, TypeOK, locals, Ended
<1> QED BY <1>2, <1>3 DEF StatementFails

\* A call that died keeps its status 'started', and answers for what it left.
LEMMA CrashStep ==
  ASSUME RetentionInv, NEW c \in Calls, Crash(c), ObserveHolds
  PROVE  RetentionInv'
<1>1. /\ faults' \in 0..MaxFaults /\ Goto(c, Ended) /\ Forget(c) /\ UNCHANGED <<tables, exec>>
      /\ pc[c] # Ended
  BY Zenon, FaultCounted DEF Crash, RetentionInv
<1>2. TypeOK'
  BY Zenon, <1>1, HoldsObserved DEF RetentionInv, TypeOK, Goto, Forget, tables, Steps, InvoiceSteps, Ended
<1>3. pc'[c] = Ended /\ todo'[c] = {}
  BY Zenon, <1>1 DEF RetentionInv, TypeOK, Goto, Forget
<1>4. CallInv(c)'
  BY Zenon, <1>3 DEF CallInv, InvoiceSteps, Ended
<1>5. ASSUME NEW i \in Invoices, NEW f \in Fields, Explains(c, i, f)
      PROVE  Explains(c, i, f)'
  BY Zenon, <1>1, <1>3, <1>5 DEF Explains, InReach, Old, Days, FieldsOf, tables, Forget
<1>6. \A d \in Calls \ {c} :
        /\ pc'[d] = pc[d] /\ exec'[d] = exec[d] /\ todo'[d] = todo[d] /\ policy'[d] = policy[d]
        /\ batch'[d] = batch[d] /\ inv'[d] = inv[d] /\ old'[d] = old[d] /\ errors'[d] = errors[d]
  BY Zenon, <1>1 DEF RetentionInv, TypeOK, Goto, Forget
<1>7. UNCHANGED <<active, clear, audited, req>>
  BY <1>1 DEF tables, Forget
<1> QED BY Zenon, <1>2, <1>4, <1>5, <1>6, <1>7, StepOfOne

\* The routes add policies and change holds.
LEMMA RouteKeeps ==
  ASSUME RetentionInv, RouteStep, ObserveHolds
  PROVE  RetentionInv'
<1>1. /\ active \subseteq active' /\ active' \subseteq Policies
      /\ UNCHANGED <<clear, audited, exec, pc, locals, faults>>
  BY Zenon DEF RouteStep, CreatePolicy, CheckNoHold, InsertHold, HoldLapses, ReleaseHold, SetHold,
         RetentionInv, TypeOK
<1>2. hold' \in [Holds -> {"unplaced", "checked", "refused", "active", "lapsed", "released"}]
  BY DEF RouteStep, CreatePolicy, CheckNoHold, InsertHold, HoldLapses, ReleaseHold, SetHold,
         RetentionInv, TypeOK
<1>3. TypeOK'
  BY Zenon, <1>1, <1>2, HoldsObserved DEF RetentionInv, TypeOK, locals
<1>4. ASSUME NEW d \in Calls PROVE CallInv(d)'
  BY Zenon, <1>1, OthersKept DEF RetentionInv, TypeOK, locals
<1>5. ASSUME NEW d \in Calls, NEW i, NEW f, Explains(d, i, f) PROVE Explains(d, i, f)'
  BY <1>1, <1>5, OthersExplain DEF locals
<1> QED BY Zenon, <1>1, <1>3, <1>4, <1>5 DEF RetentionInv

\* The invariant of the handler of 'retention_purge' jobs: what a call wipes it has
\* read and will audit, or it does not report success.
THEOREM RetentionInvariant == Spec => []RetentionInv
<1>1. RetentionInv /\ [Next]_vars => RetentionInv'
  <2> SUFFICES ASSUME RetentionInv, [Next]_vars
               PROVE  RetentionInv'
    OBVIOUS
  <2>1. ASSUME NEW c \in Calls, CallStep(c), ObserveHolds
        PROVE  RetentionInv'
    BY Zenon, <2>1, StartStep, LoadStep, PolicyStep, InvoiceStep, CheckStep, ReadStep, UpdateStep, LogStep,
       FinishStep, InvoiceFailsStep, StatementFailsStep, CrashStep
    DEF CallStep
  <2>2. CASE UNCHANGED vars
    <3>1. UNCHANGED <<active, clear, audited, hold, exec, req, pc, todo, policy, batch, inv, old,
                      errors, faults, free>>
      BY <2>2 DEF vars, tables, locals
    <3>2. TypeOK'
      BY Zenon, <3>1 DEF RetentionInv, TypeOK
    <3>3. ASSUME NEW d \in Calls PROVE CallInv(d)'
      BY Zenon, <3>1 DEF RetentionInv, CallInv, Chosen, Old, Days, FieldsOf
    <3>4. ASSUME NEW d \in Calls, NEW i, NEW f, Explains(d, i, f) PROVE Explains(d, i, f)'
      BY Zenon, <3>1, <3>4, OthersExplain
    <3> QED BY Zenon, <3>1, <3>2, <3>3, <3>4 DEF RetentionInv
  <2> QED BY <2>1, <2>2, RouteKeeps DEF Next
<1> QED BY <1>1, RetentionStart, PTL DEF Spec

\* The audit trail and the invoices tell the same story, whichever statement fails
\* and however calls of the handler overlap.
THEOREM TrailIsFaithful == Spec => []TrailFaithful
<1>1. RetentionInv => TrailFaithful
  BY Zenon DEF RetentionInv, TrailFaithful, Explains
<1> QED BY <1>1, RetentionInvariant, PTL

\* Personal data is wiped only from an invoice that the call has seen without a
\* legal hold since it took the invoice up.
THEOREM HoldsAreRespected == Spec => HoldRespected
<1>1. RetentionInv /\ [Next]_vars =>
        [\A i \in Invoices : clear'[i] /= clear[i] =>
           \E c \in Calls : pc[c] = "update" /\ inv[c] = i /\ free[c]]_vars
  <2> SUFFICES ASSUME RetentionInv, Next, NEW i \in Invoices, clear'[i] /= clear[i]
               PROVE  \E c \in Calls : pc[c] = "update" /\ inv[c] = i /\ free[c]
    OBVIOUS
  <2>1. PICK c \in Calls : UpdateInvoice(c) \/ (InvoiceFails(c) /\ pc[c] = "update" /\ Wipe(c))
    BY ZenonT(60) DEF Next, CallStep, RouteStep, StartCall, LoadPolicies, NextPolicy, NextInvoice, CheckHold,
           ReadCurrent, LogOperation, Finish, RecordFailure, InvoiceFails, StatementFails, Crash,
           CreatePolicy, CheckNoHold, InsertHold, HoldLapses, ReleaseHold, SetHold, tables
  <2>2. pc[c] = "update" /\ inv[c] = i
    BY Zenon, <2>1 DEF UpdateInvoice, Wipe, RetentionInv, TypeOK
  <2> QED BY Zenon, <2>2 DEF RetentionInv, CallInv
<1> QED BY <1>1, RetentionInvariant, PTL DEF Spec, HoldRespected

-----------------------------------------------------------------------------
(* The routes.                                                             *)

\* No rows, and nobody has looked.
LEMMA RouteStart == AdminInit => RouteInv
  BY DEF AdminInit, RouteInv, AdminTypeOK, RowOfRequest, RowIds, SawNoneAlike, At, DuplicatesOverlap

\* The request moves on: the others stay where they are with what they saw.
LEMMA RequestMoves ==
  ASSUME RouteInv, NEW r \in AdminRequests,
         NEW at \in {"check", "conflict", "write", "audit", "done", "refused"}, Step(r, at) \/ Proceed(r, at)
  PROVE  /\ admin' \in [AdminRequests ->
                          [plan : AdminPlans, tenant : AdminTenants, saw : SUBSET AdminRequests,
                           at : {"check", "conflict", "write", "audit", "done", "refused"}]]
         /\ admin'[r].at = at /\ admin'[r].plan = admin[r].plan /\ admin'[r].tenant = admin[r].tenant
         /\ Step(r, at) => admin'[r].saw = RowIds
         /\ Proceed(r, at) => admin'[r].saw = admin[r].saw
         /\ \A q \in AdminRequests \ {r} : admin'[q] = admin[q]
<1>1. RowIds \subseteq AdminRequests
  BY DEF RowIds, RouteInv, AdminTypeOK
<1>2. CASE Step(r, at)
  <2>1. admin' = [admin EXCEPT ![r].at = at, ![r].saw = RowIds]
    BY <1>2 DEF Step, RowIds
  <2> DEFINE RequestRecords == [plan : AdminPlans, tenant : AdminTenants, saw : SUBSET AdminRequests,
                          at : {"check", "conflict", "write", "audit", "done", "refused"}]
  <2>4. admin[r] \in RequestRecords
    BY DEF RouteInv, AdminTypeOK
  <2>2. [admin[r] EXCEPT !.at = at, !.saw = RowIds] \in RequestRecords
    BY Zenon, <1>1, <2>4
  <2>3. ~ Proceed(r, at) \/ admin[r].saw = RowIds
    BY <2>1 DEF Proceed, RouteInv, AdminTypeOK
  <2> QED BY Zenon, <2>1, <2>2, <2>3 DEF RouteInv, AdminTypeOK
<1>3. CASE Proceed(r, at) /\ ~ Step(r, at)
  BY <1>3 DEF Proceed, RouteInv, AdminTypeOK
<1> QED BY Zenon, <1>2, <1>3

\* A request that moves on and writes nothing: what it saw are rows that are there, and
\* if it is about to write, none of them is like its own.
LEMMA RouteReads ==
  ASSUME RouteInv, NEW r \in AdminRequests,
         NEW at \in {"check", "conflict", "write", "audit", "done", "refused"},
           Proceed(r, at) \/ (Step(r, at) /\ admin[r].at \in {"check", "conflict"}),
         admin[r].at \in {"audit", "done"} => at \in {"audit", "done"},
         at = "write" => Step(r, at) /\ (admin[r].plan.kind \in {"create", "createIdle"} => NamedAlike(r) = {})
                                     /\ (admin[r].plan.kind = "hold" => Holding(r) = {}),
         UNCHANGED <<policyRows, holdRows>>
  PROVE  RouteInv'
<1>1. AdminTypeOK'
  BY ZenonT(60), RequestMoves DEF RouteInv, AdminTypeOK
<1>2. RowIds' = RowIds
  BY Zenon DEF RowIds
<1>3. RowOfRequest'
  <2>1. \A p \in policyRows : p.id \in AdminRequests
    BY DEF RouteInv, AdminTypeOK
  <2>2. \A h \in holdRows : h.id \in AdminRequests
    BY DEF RouteInv, AdminTypeOK
  <2>3. \A q \in AdminRequests : /\ admin'[q].plan = admin[q].plan
                                 /\ admin[q].at \in {"audit", "done"} => admin'[q].at \in {"audit", "done"}
    BY Zenon, RequestMoves
  <2> QED BY Zenon, <2>1, <2>2, <2>3 DEF RouteInv, RowOfRequest
<1>4. \A q \in AdminRequests : admin'[q].saw \subseteq RowIds
  BY RequestMoves DEF RouteInv
<1>5. ASSUME NEW q \in AdminRequests PROVE SawNoneAlike(q)'
  <2>1. NamedAlike(q)' = NamedAlike(q) /\ Holding(q)' = Holding(q)
    <3>1. admin'[q].plan = admin[q].plan /\ admin'[q].tenant = admin[q].tenant
      BY Zenon, RequestMoves
    <3> QED BY Zenon, <3>1 DEF NamedAlike, Holding
  <2>2. CASE q = r
    <3>1. admin'[q].at = at /\ admin'[q].plan = admin[q].plan
      BY Zenon, <2>2, RequestMoves
    <3>2. CASE at = "write"
      BY Zenon, <2>1, <2>2, <3>1, <3>2 DEF SawNoneAlike, At
    <3>3. CASE at # "write"
      BY Zenon, <2>2, <3>1, <3>3 DEF SawNoneAlike, At
    <3> QED BY <3>2, <3>3
  <2>3. CASE q # r
    <3>1. admin'[q] = admin[q] /\ SawNoneAlike(q)
      BY Zenon, <2>3, RequestMoves DEF RouteInv
    <3> QED BY Zenon, <2>1, <3>1 DEF SawNoneAlike, At
  <2> QED BY Zenon, <2>2, <2>3
<1>6. DuplicatesOverlap'
  <2>0. \A q \in AdminRequests : admin[q].at \in {"audit", "done"} => admin'[q].saw = admin[q].saw
    BY Zenon, RequestMoves
  <2>1. \A p \in policyRows : p.id \in AdminRequests /\ admin'[p.id].saw = admin[p.id].saw
    <3>1. \A p \in policyRows : p.id \in AdminRequests /\ admin[p.id].at \in {"audit", "done"}
      BY DEF RouteInv, AdminTypeOK, RowOfRequest
    <3> QED BY Zenon, <2>0, <3>1
  <2>2. \A h \in holdRows : h.id \in AdminRequests /\ admin'[h.id].saw = admin[h.id].saw
    <3>1. \A h \in holdRows : h.id \in AdminRequests /\ admin[h.id].at \in {"audit", "done"}
      BY DEF RouteInv, AdminTypeOK, RowOfRequest
    <3> QED BY Zenon, <2>0, <3>1
  <2> QED BY Zenon, <2>1, <2>2 DEF RouteInv, DuplicatesOverlap
<1> QED BY Zenon, <1>1, <1>2, <1>3, <1>4, <1>5, <1>6 DEF RouteInv

\* A policy inserted by a request that saw none like it: nobody saw the new row.
LEMMA InsertStep ==
  ASSUME RouteInv, NEW r \in AdminRequests, InsertPolicy(r)
  PROVE  RouteInv'
<1> DEFINE new == [id |-> r, tenant |-> admin[r].tenant, name |-> admin[r].plan.of,
                   active |-> admin[r].plan.kind = "create"]
<1>1. /\ admin[r].at = "write" /\ admin[r].plan.kind \in {"create", "createIdle"}
      /\ policyRows' = policyRows \union {new} /\ holdRows' = holdRows /\ Proceed(r, "audit")
  BY Zenon DEF InsertPolicy, At
<1>2. new \in [id : AdminRequests, tenant : AdminTenants, name : PolicyNames, active : BOOLEAN]
  <2>1. admin[r].plan \in AdminPlans /\ admin[r].tenant \in AdminTenants
    BY DEF RouteInv, AdminTypeOK
  <2>2. admin[r].plan.of \in PolicyNames
    BY Zenon, <1>1, <2>1 DEF AdminPlans
  <2> QED BY <2>1, <2>2
<1>3. new.id = r /\ new.tenant = admin[r].tenant /\ new.name = admin[r].plan.of
  OBVIOUS
<1> HIDE DEF new
<1>4. /\ \A p \in policyRows : p.id \in AdminRequests /\ p.id # r
      /\ \A h \in holdRows : h.id \in AdminRequests /\ h.id # r
      /\ r \notin RowIds
  BY Zenon, <1>1 DEF RouteInv, AdminTypeOK, RowOfRequest, RowIds
<1>5. RowIds' = RowIds \union {r}
  BY <1>1, <1>3 DEF RowIds
<1>6. /\ \A q \in AdminRequests \ {r} : admin'[q] = admin[q]
      /\ admin'[r].at = "audit" /\ admin'[r].plan = admin[r].plan /\ admin'[r].saw = admin[r].saw
  BY Zenon, <1>1, RequestMoves
<1>7. AdminTypeOK'
  BY Zenon, <1>1, <1>2, RequestMoves DEF RouteInv, AdminTypeOK
<1>8. RowOfRequest'
  <2>1. \A p \in policyRows : admin'[p.id] = admin[p.id]
    BY <1>4, <1>6
  <2>2. \A h \in holdRows : admin'[h.id] = admin[h.id]
    BY <1>4, <1>6
  <2>3. ASSUME NEW p \in policyRows'
        PROVE  /\ admin'[p.id].plan.kind \in {"create", "createIdle"} /\ admin'[p.id].at \in {"audit", "done"}
               /\ \A q \in policyRows' : p.id = q.id => p = q
    <3>1. CASE p = new
      BY Zenon, <1>1, <1>3, <1>4, <1>6, <3>1
    <3>2. CASE p \in policyRows
      BY ZenonT(60), <1>1, <1>3, <1>4, <2>1, <3>2 DEF RouteInv, RowOfRequest
    <3> QED BY Zenon, <1>1, <3>1, <3>2
  <2>4. ASSUME NEW h \in holdRows'
        PROVE  /\ admin'[h.id].plan.kind = "hold" /\ admin'[h.id].at \in {"audit", "done"}
               /\ \A g \in holdRows' : g.id = h.id => g = h
    BY Zenon, <1>1, <2>2 DEF RouteInv, RowOfRequest
  <2> QED BY Zenon, <2>3, <2>4 DEF RowOfRequest
<1>9. \A q \in AdminRequests : admin'[q].saw = admin[q].saw /\ admin'[q].saw \subseteq RowIds
        /\ r \notin admin'[q].saw
  BY <1>4, <1>6 DEF RouteInv
<1>10. ASSUME NEW q \in AdminRequests PROVE SawNoneAlike(q)'
  <2>1. CASE q = r
    BY <1>6, <2>1 DEF SawNoneAlike, At
  <2>2. CASE q # r
    <3>1. admin'[q] = admin[q] /\ SawNoneAlike(q)
      BY <1>6, <2>2 DEF RouteInv
    <3>2. \A p \in NamedAlike(q)' : p \in NamedAlike(q) \/ p = new
      BY Zenon, <1>1, <3>1 DEF NamedAlike
    <3>3. Holding(q)' = Holding(q)
      BY Zenon, <1>1, <3>1 DEF Holding
    <3> QED BY Zenon, <1>3, <1>9, <3>1, <3>2, <3>3 DEF SawNoneAlike, At
  <2> QED BY <2>1, <2>2
<1>11. DuplicatesOverlap'
  <2>1. ASSUME NEW p \in policyRows', NEW q \in policyRows', p # q, p.tenant = q.tenant,
               p.name = q.name, p.active, q.active
        PROVE  p.id \notin admin'[q.id].saw
    <3>1. CASE p = new
      BY Zenon, <1>1, <1>3, <1>4, <1>9, <2>1, <3>1
    <3>2. CASE p \in policyRows /\ q = new
      <4>1. p \in NamedAlike(r)
        BY Zenon, <1>3, <2>1, <3>2 DEF NamedAlike
      <4>2. p.id \notin admin[r].saw
        BY <1>1, <4>1 DEF RouteInv, SawNoneAlike, At
      <4> QED BY Zenon, <1>3, <1>6, <3>2, <4>2
    <3>3. CASE p \in policyRows /\ q \in policyRows
      BY Zenon, <1>4, <1>9, <2>1, <3>3 DEF RouteInv, DuplicatesOverlap
    <3> QED BY <1>1, <3>1, <3>2, <3>3
  <2>2. \A h \in holdRows : admin'[h.id].saw = admin[h.id].saw
    BY <1>4, <1>9
  <2> QED BY <1>1, <2>1, <2>2 DEF RouteInv, DuplicatesOverlap
<1> QED BY Zenon, <1>5, <1>7, <1>8, <1>9, <1>10, <1>11 DEF RouteInv

\* The same for a hold.
LEMMA PlaceStep ==
  ASSUME RouteInv, NEW r \in AdminRequests, PlaceHold(r)
  PROVE  RouteInv'
<1> DEFINE new == [id |-> r, tenant |-> admin[r].tenant, invoice |-> admin[r].plan.of, status |-> "active"]
<1>1. /\ admin[r].at = "write" /\ admin[r].plan.kind = "hold"
      /\ holdRows' = holdRows \union {new} /\ policyRows' = policyRows /\ Proceed(r, "audit")
  BY DEF PlaceHold, At
<1>2. new \in [id : AdminRequests, tenant : AdminTenants, invoice : HeldInvoiceIds,
               status : {"active", "lapsed", "released"}]
  <2>1. admin[r].plan \in AdminPlans /\ admin[r].tenant \in AdminTenants
    BY DEF RouteInv, AdminTypeOK
  <2>2. admin[r].plan.of \in HeldInvoiceIds
    BY Zenon, <1>1, <2>1 DEF AdminPlans
  <2> QED BY <2>1, <2>2
<1>3. new.id = r /\ new.invoice = admin[r].plan.of
  OBVIOUS
<1> HIDE DEF new
<1>4. /\ \A p \in policyRows : p.id \in AdminRequests /\ p.id # r
      /\ \A h \in holdRows : h.id \in AdminRequests /\ h.id # r
      /\ r \notin RowIds
  BY Zenon, <1>1 DEF RouteInv, AdminTypeOK, RowOfRequest, RowIds
<1>5. RowIds' = RowIds \union {r}
  BY <1>1, <1>3 DEF RowIds
<1>6. /\ \A q \in AdminRequests \ {r} : admin'[q] = admin[q]
      /\ admin'[r].at = "audit" /\ admin'[r].plan = admin[r].plan /\ admin'[r].saw = admin[r].saw
  BY Zenon, <1>1, RequestMoves
<1>7. AdminTypeOK'
  BY Zenon, <1>1, <1>2, RequestMoves DEF RouteInv, AdminTypeOK
<1>8. RowOfRequest'
  <2>1. \A p \in policyRows : admin'[p.id] = admin[p.id]
    BY <1>4, <1>6
  <2>2. \A h \in holdRows : admin'[h.id] = admin[h.id]
    BY Zenon, <1>4, <1>6
  <2>3. ASSUME NEW h \in holdRows'
        PROVE  /\ admin'[h.id].plan.kind = "hold" /\ admin'[h.id].at \in {"audit", "done"}
               /\ \A g \in holdRows' : g.id = h.id => g = h
    <3>1. CASE h = new
      BY <1>1, <1>3, <1>4, <1>6, <3>1
    <3>2. CASE h \in holdRows
      BY ZenonT(60), <1>1, <1>3, <1>4, <2>2, <3>2 DEF RouteInv, RowOfRequest
    <3> QED BY Zenon, <1>1, <3>1, <3>2
  <2> QED BY Zenon, <1>1, <2>1, <2>3 DEF RouteInv, RowOfRequest
<1>9. \A q \in AdminRequests : admin'[q].saw = admin[q].saw /\ admin'[q].saw \subseteq RowIds
        /\ r \notin admin'[q].saw
  BY <1>4, <1>6 DEF RouteInv
<1>10. ASSUME NEW q \in AdminRequests PROVE SawNoneAlike(q)'
  <2>1. CASE q = r
    BY <1>6, <2>1 DEF SawNoneAlike, At
  <2>2. CASE q # r
    <3>1. admin'[q] = admin[q] /\ SawNoneAlike(q)
      BY <1>6, <2>2 DEF RouteInv
    <3>2. \A h \in Holding(q)' : h \in Holding(q) \/ h = new
      BY <1>1, <3>1 DEF Holding
    <3>3. NamedAlike(q)' = NamedAlike(q)
      BY Zenon, <1>1, <3>1 DEF NamedAlike
    <3> QED BY Zenon, <1>3, <1>9, <3>1, <3>2, <3>3 DEF SawNoneAlike, At
  <2> QED BY Zenon, <2>1, <2>2
<1>11. DuplicatesOverlap'
  <2>1. ASSUME NEW g \in holdRows', NEW h \in holdRows', g # h, g.invoice = h.invoice,
               g.status = "active", h.status = "active"
        PROVE  g.id \notin admin'[h.id].saw
    <3>1. CASE g = new
      BY Zenon, <1>1, <1>3, <1>4, <1>9, <2>1, <3>1
    <3>2. CASE g \in holdRows /\ h = new
      <4>1. g \in Holding(r)
        BY <1>3, <2>1, <3>2 DEF Holding
      <4>2. g.id \notin admin[r].saw
        BY Zenon, <1>1, <4>1 DEF RouteInv, SawNoneAlike, At
      <4> QED BY Zenon, <1>3, <1>6, <3>2, <4>2
    <3>3. CASE g \in holdRows /\ h \in holdRows
      BY Zenon, <1>4, <1>9, <2>1, <3>3 DEF RouteInv, DuplicatesOverlap
    <3> QED BY <1>1, <3>1, <3>2, <3>3
  <2>2. \A p \in policyRows : admin'[p.id].saw = admin[p.id].saw
    BY <1>4, <1>9
  <2> QED BY <1>1, <2>1, <2>2 DEF RouteInv, DuplicatesOverlap
<1> QED BY Zenon, <1>5, <1>7, <1>8, <1>9, <1>10, <1>11 DEF RouteInv

\* Holds that lapse or are released stop counting, and come from nobody new.
LEMMA HoldsEnd ==
  ASSUME RouteInv, policyRows' = policyRows,
         NEW next, holdRows' = {next[h] : h \in holdRows},
         \A h \in holdRows : \/ next[h] = h
                             \/ \E s \in {"lapsed", "released"} : next[h] = [h EXCEPT !.status = s],
         admin' = admin \/ \E r \in AdminRequests :
           admin[r].plan.kind = "release" /\ admin[r].at = "write" /\ Proceed(r, "audit")
  PROVE  RouteInv'
<1> DEFINE Rows == [id : AdminRequests, tenant : AdminTenants, invoice : HeldInvoiceIds,
                    status : {"active", "lapsed", "released"}]
<1>1. \A h \in holdRows : /\ next[h] \in Rows /\ next[h].id = h.id /\ next[h].invoice = h.invoice
                          /\ next[h].status = "active" => next[h] = h
  <2> SUFFICES ASSUME NEW h \in holdRows
               PROVE  /\ next[h] \in Rows /\ next[h].id = h.id /\ next[h].invoice = h.invoice
                      /\ next[h].status = "active" => next[h] = h
    OBVIOUS
  <2>1. h \in Rows
    BY DEF RouteInv, AdminTypeOK
  <2>2. CASE next[h] = h
    BY <2>1, <2>2
  <2>3. ASSUME NEW s \in {"lapsed", "released"}, next[h] = [h EXCEPT !.status = s]
        PROVE  next[h] \in Rows /\ next[h].id = h.id /\ next[h].invoice = h.invoice /\ next[h].status # "active"
    BY <2>1, <2>3
  <2> QED BY Zenon, <2>2, <2>3
<1>2. \A q \in AdminRequests : /\ admin'[q].plan = admin[q].plan /\ admin'[q].tenant = admin[q].tenant
                               /\ admin'[q].saw = admin[q].saw
                               /\ admin'[q].plan.kind # "release" => admin'[q].at = admin[q].at
  <2>1. CASE admin' = admin
    BY <2>1
  <2>2. ASSUME NEW r \in AdminRequests, admin[r].plan.kind = "release", Proceed(r, "audit")
        PROVE  \A q \in AdminRequests : /\ admin'[q].plan = admin[q].plan /\ admin'[q].tenant = admin[q].tenant
                                        /\ admin'[q].saw = admin[q].saw
                                        /\ admin'[q].plan.kind # "release" => admin'[q].at = admin[q].at
    BY <2>2, RequestMoves
  <2> QED BY Zenon, <2>1, <2>2
<1>3. AdminTypeOK'
  <2>1. holdRows' \subseteq Rows
    BY <1>1
  <2>2. admin' \in [AdminRequests ->
                      [plan : AdminPlans, tenant : AdminTenants, saw : SUBSET AdminRequests,
                       at : {"check", "conflict", "write", "audit", "done", "refused"}]]
    BY Zenon, RequestMoves DEF RouteInv, AdminTypeOK
  <2> QED BY <2>1, <2>2 DEF RouteInv, AdminTypeOK
<1>4. RowIds' = RowIds
  BY <1>1 DEF RowIds
<1>5. (\A h \in holdRows : h.id \in AdminRequests) /\ \A p \in policyRows : p.id \in AdminRequests
  BY DEF RouteInv, AdminTypeOK
<1>6. RowOfRequest'
  <2>1. \A h \in holdRows : admin'[h.id].plan.kind = "hold" /\ admin'[h.id].at \in {"audit", "done"}
    BY <1>2, <1>5 DEF RouteInv, RowOfRequest
  <2>2. \A p \in policyRows : admin'[p.id].plan.kind \in {"create", "createIdle"}
          /\ admin'[p.id].at \in {"audit", "done"}
    BY <1>2, <1>5 DEF RouteInv, RowOfRequest
  <2>3. \A g, h \in holdRows : next[g].id = next[h].id => next[g] = next[h]
    BY <1>1 DEF RouteInv, RowOfRequest
  <2> QED BY <1>1, <2>1, <2>2, <2>3 DEF RouteInv, RowOfRequest
<1>7. ASSUME NEW q \in AdminRequests PROVE SawNoneAlike(q)'
  <2>1. NamedAlike(q)' = NamedAlike(q) /\ Holding(q)' \subseteq Holding(q)
    BY <1>1, <1>2 DEF NamedAlike, Holding
  <2>2. SawNoneAlike(q)
    BY DEF RouteInv
  <2> QED BY Zenon, <1>2, <2>1, <2>2 DEF SawNoneAlike, At
<1>8. DuplicatesOverlap'
  <2>1. \A h \in holdRows' : h.status = "active" => h \in holdRows
    BY <1>1
  <2>2. (\A h \in holdRows : admin'[h.id].saw = admin[h.id].saw) /\ \A p \in policyRows :
          admin'[p.id].saw = admin[p.id].saw
    BY Zenon, <1>2, <1>5
  <2> QED BY <2>1, <2>2 DEF RouteInv, DuplicatesOverlap
<1>9. \A q \in AdminRequests : admin'[q].saw \subseteq RowIds'
  BY <1>2, <1>4 DEF RouteInv
<1> QED BY Zenon, <1>3, <1>6, <1>7, <1>8, <1>9 DEF RouteInv

\* routes/retention.js, its checks before an insert, for any requests and tenants.
THEOREM RouteInvariant == AdminSpec => []RouteInv
<1>1. RouteInv /\ [AdminNext]_adminVars => RouteInv'
  <2> SUFFICES ASSUME RouteInv, [AdminNext]_adminVars PROVE RouteInv'
    OBVIOUS
  <2>1. ASSUME NEW r \in AdminRequests, AdminRefused(r) PROVE RouteInv'
    BY Zenon, <2>1, RouteReads DEF AdminRefused
  <2>2. ASSUME NEW r \in AdminRequests, CheckName(r) PROVE RouteInv'
    BY <2>2, RouteReads DEF CheckName, At
  <2>3. ASSUME NEW r \in AdminRequests, InsertPolicy(r) PROVE RouteInv'
    BY <2>3, InsertStep
  <2>4. ASSUME NEW r \in AdminRequests, FindPolicy(r) \/ FindHold(r) PROVE RouteInv'
    BY Zenon, <2>4, RouteReads DEF FindPolicy, FindHold, At
  <2>5. ASSUME NEW r \in AdminRequests, FindInvoice(r) PROVE RouteInv'
    BY Zenon, <2>5, RouteReads DEF FindInvoice, At
  <2>6. ASSUME NEW r \in AdminRequests, CheckHolds(r) PROVE RouteInv'
    BY <2>6, RouteReads DEF CheckHolds, At
  <2>7. ASSUME NEW r \in AdminRequests, PlaceHold(r) PROVE RouteInv'
    BY <2>7, PlaceStep
  <2>8. ASSUME NEW r \in AdminRequests, Release(r) PROVE RouteInv'
    <3> DEFINE next == [h \in holdRows |-> IF h.id = admin[r].plan.of THEN [h EXCEPT !.status = "released"] ELSE h]
    <3>1. holdRows' = {next[h] : h \in holdRows}
      BY <2>8 DEF Release
    <3>2. \A h \in holdRows : \/ next[h] = h
                              \/ \E s \in {"lapsed", "released"} : next[h] = [h EXCEPT !.status = s]
      OBVIOUS
    <3> HIDE DEF next
    <3> QED BY Zenon, <2>8, <3>1, <3>2, HoldsEnd DEF Release, At
  <2>9. ASSUME NEW r \in AdminRequests, Schedule(r) PROVE RouteInv'
    BY Zenon, <2>9, RouteReads DEF Schedule, At
  <2>10. ASSUME NEW r \in AdminRequests, EmitAudit(r) PROVE RouteInv'
    BY Zenon, <2>10, RouteReads DEF EmitAudit
  <2>11. CASE Lapse
    <3>1. PICK h \in holdRows : holdRows' = (holdRows \ {h}) \union {[h EXCEPT !.status = "lapsed"]}
      BY <2>11 DEF Lapse
    <3> DEFINE next == [g \in holdRows |-> IF g = h THEN [h EXCEPT !.status = "lapsed"] ELSE g]
    <3>2. holdRows' = {next[g] : g \in holdRows}
      BY <3>1
    <3>3. \A g \in holdRows : \/ next[g] = g
                              \/ \E s \in {"lapsed", "released"} : next[g] = [g EXCEPT !.status = s]
      OBVIOUS
    <3> HIDE DEF next
    <3> QED BY Zenon, <2>11, <3>2, <3>3, HoldsEnd DEF Lapse
  <2>12. CASE UNCHANGED <<policyRows, holdRows, admin>>
    BY ZenonT(60), <2>12 DEF RouteInv, AdminTypeOK, RowOfRequest, RowIds, SawNoneAlike, At, NamedAlike,
       Holding, DuplicatesOverlap
  <2>13. ASSUME NEW j \in scheduled, Execute(j) PROVE RouteInv'
    BY <2>12, <2>13 DEF Execute
  <2>14. ASSUME NEW t \in AdminTenants, ShowPolicies(t) \/ Preview(t) \/ ShowJobs(t) \/ ShowJob(t)
         PROVE RouteInv'
    BY Zenon, <2>12, <2>14 DEF ShowPolicies, Preview, ShowJobs, ShowJob, Show
  <2>15. CASE UNCHANGED adminVars
    BY <2>12, <2>15 DEF adminVars
  <2> QED BY Zenon, <2>1, <2>2, <2>3, <2>4, <2>5, <2>6, <2>7, <2>8, <2>9, <2>10, <2>11, <2>13, <2>14,
             <2>15 DEF AdminNext
<1> QED BY RouteStart, <1>1, PTL DEF AdminSpec

\* The property of the run, for every value of the constants.
THEOREM DuplicatesOnlyOverlap == AdminSpec => []DuplicatesOverlap
<1>1. RouteInv => DuplicatesOverlap
  BY DEF RouteInv
<1> QED BY <1>1, RouteInvariant, PTL

=============================================================================

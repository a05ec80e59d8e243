---------------------------- MODULE MCRetention ----------------------------
(* The purge and the routes, for TLC.  They meet in the tables of policies    *)
(* and holds, which RetentionPurge has its own steps for, so each behaviour   *)
(* follows one of them.                                                       *)
(* An old invoice and a very old one; a strict policy for one field and a lax *)
(* policy for the other; a scheduled job, a dry run and a job with overrides. *)
EXTENDS RetentionPurge, RetentionRoutes, TLC

CONSTANTS w1, w2   \* model values

VARIABLE part   \* the part this behaviour is about

MCInvoices == {1, 2}
MCFields == {"email", "name"}
MCPolicies == {"lax", "strict"}
MCExisting == {"strict"}
MCHoldOn == [h \in Holds |-> 2]
MCAge == <<2, 3>>
MCRetentionDays == [p \in MCPolicies |-> IF p = "lax" THEN 2 ELSE 1]
MCPiiFields == [p \in MCPolicies |-> IF p = "lax" THEN {"email"} ELSE {"name"}]
MCRequests ==
  {[policyId |-> None, dryRun |-> FALSE, retentionDays |-> None, piiFields |-> None],
   [policyId |-> "strict", dryRun |-> TRUE, retentionDays |-> None, piiFields |-> None],
   [policyId |-> "lax", dryRun |-> FALSE, retentionDays |-> 2, piiFields |-> MCFields]}

Symmetry == Permutations(Calls) \cup Permutations(Holds)
HeldByMC == [i \in {"inv1", "inv2"} |-> IF i = "inv1" THEN "own" ELSE "other"]

\* A first request that makes a row, a second that meets it, and any third.
OneAdmin == [plan |-> [kind |-> "schedule", of |-> Nothing], tenant |-> "own", at |-> "check", saw |-> {}]
MCRequestsAre ==
  IF part = "routes"
  THEN \E plan \in [AdminRequests -> AdminPlans], tenant \in AdminTenants :
         /\ plan[w1].kind \in {"create", "hold"} /\ plan[w1].of \in {"n1", "inv1"}
         /\ plan[w2].kind \in {"create", "createIdle", "hold", "release", "schedule"}
         /\ plan[w2].of \in {"n1", "inv1", w1}
         /\ \A r \in AdminRequests : plan[r].of # r
         /\ admin = [r \in AdminRequests |->
                       [OneAdmin EXCEPT !.plan = plan[r], !.tenant = IF r \in {w1, w2} THEN "own" ELSE tenant]]
  ELSE admin = [r \in AdminRequests |-> OneAdmin]

MCInit ==
  /\ part \in {"purge", "routes"}
  /\ MCRequestsAre /\ Init /\ AdminInit
  /\ part = "routes" => \A c \in Calls : req[c].dryRun

MCNext ==
  \/ part = "purge" /\ Next /\ UNCHANGED <<part, adminVars>>
  \/ part = "routes" /\ AdminNext /\ UNCHANGED <<part, vars>>

MCSpec == MCInit /\ [][MCNext]_<<part, vars, adminVars>>

=============================================================================

-------------------------------- MODULE MCApi --------------------------------
(***************************************************************************)
(* The HTTP surface, for TLC: lists behind the response cache, writes to   *)
(* an invoice, the gates in front of the handlers and the audit trail.     *)
(* They share no state, so each behaviour follows one of them while the    *)
(* others rest.                                                            *)
(***************************************************************************)
EXTENDS CachedLists, InvoiceWrites, RequestGates, AuditTrail

CONSTANTS c1, c2, f1, f2, w1, w2, k1, k2, u1, ip1, ip2, o1, o2   \* model values

VARIABLE part   \* the part this behaviour is about

TenantOfMC == [i \in Rows |-> IF i = 4 THEN "other" ELSE "own"]
PrincipalsMC == {[admin |-> TRUE, role |-> "admin", funder |-> NoValue],
                 [admin |-> FALSE, role |-> "user", funder |-> f1],
                 [admin |-> FALSE, role |-> "user", funder |-> f2],
                 [admin |-> FALSE, role |-> "user", funder |-> NoValue]}
ValidMovesMC == {<<"pending", "verified">>, <<"pending", "rejected">>, <<"verified", "funded">>}

(* The initial states of the part that is followed, and one of each other. *)

Asks(tenants, orders, pages) ==
  [Clients -> [at : {"ask"}, tenant : tenants, order : orders, page : pages, cursor : {NoValue},
               keep : {FALSE}, body : {NoPage}, got : {<<>>}, steady : {Rows}]]
MCLists ==
  IF part = "market"
  THEN /\ \E value \in {<<1, 1, 1, 1>>, <<2, 1, 2, 1>>} :
            market = [i \in Rows |-> [open |-> TRUE, value |-> value[i]]]
       /\ asks \in Asks({"own", "other"}, Orders, {1, 2})
       /\ asks[c1].tenant = "own" /\ asks[c2].order = asks[c1].order /\ asks[c2].page = 1
       /\ asks[c1].page = 2 => asks[c2].tenant = "other"
  ELSE /\ market = [i \in Rows |-> [open |-> FALSE, value |-> 1]]
       /\ asks \in Asks({"own"}, {"asc"}, {1})

OneWrite == [at |-> "start", tenant |-> "own", seen |-> FirstStatus,
             plan |-> [kind |-> "create", fields |-> {}, target |-> FirstStatus]]
MCWrites == IF part = "writes" THEN TRUE ELSE row = NoRow /\ writes = [r \in Writes |-> OneWrite]

\* A usual list of keys, one with a bad entry and one that lists a key twice.
RegistriesMC ==
  LET entry(k, valid, revoked) == [key |-> k, valid |-> valid, revoked |-> revoked]
  IN {<<entry(k1, TRUE, FALSE), entry(k2, TRUE, TRUE)>>,
      <<entry(k1, TRUE, FALSE), entry(k2, FALSE, FALSE)>>,
      <<entry(k2, TRUE, TRUE), entry(k2, TRUE, FALSE)>>}

\* CORS_ALLOWED_ORIGINS empty, with an origin in each spelling, or with no URL.
EnvironmentsMC ==
  [listed : {{}, {[of |-> o1, plain |-> TRUE]}, {[of |-> o1, plain |-> FALSE]}, {[of |-> "null", plain |-> TRUE]}},
   development : BOOLEAN]

\* One request of any origin, one with any body and credential, or several small ones to a sensitive
\* route that differ in who sends them, and from where.
Unsent == [at |-> "unsent", client |-> Absent, admitted |-> 0,
           msg |-> [origin |-> Absent, route |-> "admin", type |-> "other", size |-> 1, declared |-> TRUE, key |-> Absent,
                    token |-> Absent, tenant |-> TRUE, ip |-> ip1]]
MCGates ==
  \/ /\ part = "origins"
     /\ \E origin \in Written, token \in {Absent, u1} :
          arrivals = [r \in Arrivals |->
                       IF r = w1 THEN [Unsent EXCEPT !.at = "origin", !.msg.origin = origin, !.msg.token = token]
                       ELSE Unsent]
  \/ /\ part = "bodies"
     /\ \E msg \in {m \in Messages : m.ip = ip1 /\ m.origin = Absent} :
          arrivals = [r \in Arrivals |-> IF r = w1 THEN [Unsent EXCEPT !.at = "origin", !.msg = msg] ELSE Unsent]
  \/ /\ part = "rate"
     /\ \E from \in [Arrivals -> {<<Absent, ip1>>, <<Absent, ip2>>, <<k1, ip1>>}] :
          /\ from[w1] = <<Absent, ip1>>
          /\ arrivals = [r \in Arrivals |->
                        [Unsent EXCEPT !.at = "origin", !.msg.route = "sensitive", !.msg.token = u1,
                                       !.msg.key = from[r][1], !.msg.ip = from[r][2]]]
  \/ part \notin {"origins", "bodies", "rate"} /\ arrivals = [r \in Arrivals |-> Unsent]

\* Two answers, one of any kind.
OneAnswer == [method |-> "mutation", api |-> TRUE, code |-> 200, via |-> "json",
              body |-> "object", at |-> "handler"]
MCAudit == answers \in [Mutations -> IF part = "audit" THEN Handling ELSE {OneAnswer}]
           /\ answers[w2] = IF answers[w1].via = "send" THEN [OneAnswer EXCEPT !.body = "none"] ELSE OneAnswer

MCInit ==
  /\ part \in {"market", "locks", "writes", "origins", "bodies", "rate", "audit"}
  /\ part # "origins" => corsEnv = [listed |-> {}, development |-> FALSE]
  /\ part # "bodies" => apiKeys = <<[key |-> k1, valid |-> TRUE, revoked |-> FALSE],
                                     [key |-> k2, valid |-> TRUE, revoked |-> TRUE]>>
  /\ MCLists /\ MCWrites /\ MCGates /\ MCAudit
  /\ CachedInit /\ InvoiceInit /\ GateInit /\ AuditInit

MCNext ==
  \/ part = "market" /\ MarketNext /\ UNCHANGED <<part, invoiceVars, gateVars, auditVars>>
  \/ part = "locks" /\ LockNext /\ UNCHANGED <<part, invoiceVars, gateVars, auditVars>>
  \/ part = "writes" /\ InvoiceNext /\ UNCHANGED <<part, cachedVars, gateVars, auditVars>>
  \/ /\ part \in {"origins", "bodies", "rate"} /\ GateNext
     /\ UNCHANGED <<part, cachedVars, invoiceVars, auditVars>>
  \/ part = "audit" /\ AuditNext /\ UNCHANGED <<part, cachedVars, invoiceVars, gateVars>>
 
MCSpec == MCInit /\ [][MCNext]_<<part, cachedVars, invoiceVars, gateVars, auditVars>>

=============================================================================

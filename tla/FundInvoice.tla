---------------------------- MODULE FundInvoice -----------------------------
(***************************************************************************)
(* POST /api/invest/fund-invoice: KYC gate, idempotency middleware and the *)
(* handler of src/src/routes/invest.js, with the hold gate                 *)
(* (src/src/middleware/legalHoldGate.js), the escrow map                   *)
(* (src/src/config/escrowMap.js), the submission to the contract           *)
(* (src/src/services/escrowSubmit.js) and the commitment                   *)
(* (src/src/services/investorCommitment.js).                               *)
(*                                                                         *)
(* A body stands for investor, invoice and amount, so the commitment's own *)
(* idempotency key, a hash of the three, is the body.  A request may be    *)
(* slow at any await, its handler runs on while its client has given up,   *)
(* and the process may crash.                                              *)
(***************************************************************************)
EXTENDS IdempotencyKeys, Sequences

CONSTANTS
  Kind,        \* body -> "plain", "padded" (an amount with leading zeros) or "bad"
  InvoiceOf,   \* body -> invoice
  EscrowMaps,  \* values ESCROW_ADDR_BY_INVOICE may have: sequences of
               \* [invoice, address, active, env, valid]
  Env,         \* NODE_ENV
  HoldAdapter, \* TRUE if the getter get_legal_hold of the contract is wired in;
               \* without it fetchLegalHoldStatus() is a stub that returns false
  Modes,       \* values of ESCROW_SIGNING_MODE
  MaxHolds,    \* bound on changes of a legal hold
  MaxCrashes   \* bound on crashes

\* Requests are none of the values that stand for no request of this process, and
\* the escrow map is an array.
ASSUME FundAssumption ==
  /\ {None, Earlier} \cap Requests = {}
  /\ \A m \in EscrowMaps : Len(m) \in Nat /\ DOMAIN m = 1..Len(m)

VARIABLES
  mode,
  mappings,     \* ESCROW_ADDR_BY_INVOICE of this process
  held,         \* invoices under legal hold on chain
  holds, crashes,
  h,            \* request -> where its handler stands
  sent,         \* requests whose transaction reached the network
  commitments,  \* investor_commitments: [body, address, status, by]
  unheld        \* history: requests whose invoice was free of a hold at some
                \* instant since they arrived

fundVars == <<mode, mappings, held, holds, crashes, h, sent, commitments, unheld>>
vars == <<now, faults, kycVars, keyVars, fundVars>>

\* _parseConfig() throws at the first mapping without an invoice or a valid address.
\* The environment does not change, so the cache of the result is left out.
ConfigBroken == \E i \in DOMAIN mappings : ~ mappings[i].valid

\* Only such mappings count.
Active(m) == m.active /\ m.env = Env

\* resolveEscrowAddress(): the first match, None for EscrowNotFoundError.
ResolveEscrowAddress(invoice) ==
  LET hits == {i \in DOMAIN mappings : Active(mappings[i]) /\ mappings[i].invoice = invoice}
  IN IF hits = {} THEN None ELSE mappings[CHOOSE i \in hits : \A j \in hits : i <= j].address

\* resolveInvoiceByAddress(): the reverse index keeps the last mapping.
ResolveInvoiceByAddress(address) ==
  LET hits == {i \in DOMAIN mappings : Active(mappings[i]) /\ mappings[i].address = address}
  IN IF hits = {} THEN None ELSE mappings[CHOOSE i \in hits : \A j \in hits : i >= j].invoice

Invoices == {InvoiceOf[b] : b \in DOMAIN InvoiceOf}
Invoice(r) == InvoiceOf[send[r].body]
Address(r) == ResolveEscrowAddress(Invoice(r))

\* The counters of faults, holds and crashes are bounds: they may start used up.
Init ==
  /\ now \in 0..MaxTime /\ faults \in 0..MaxFaults
  /\ KycInit
  /\ KeyInit
  /\ mode \in Modes /\ mappings \in EscrowMaps
  /\ held \in {{}, Invoices}
  /\ holds \in 0..MaxHolds /\ crashes \in 0..MaxCrashes
  /\ h = [r \in Requests |-> "idle"]
  /\ sent = {} /\ commitments = {} /\ unheld = {}

Arrive(r) ==
  /\ EnterGate(r)
  /\ unheld' = IF Invoice(r) \in held THEN unheld ELSE unheld \cup {r}
  /\ UNCHANGED <<keyVars, mode, mappings, held, holds, crashes, h, sent, commitments>>

\* next() of the middleware.
Begin(r) ==
  /\ InsertPlaceholder(r)
  /\ h' = [h EXCEPT ![r] = "begin"]
  /\ UNCHANGED <<kycVars, mode, mappings, held, holds, crashes, sent, commitments, unheld>>

\* res.json() as the middleware overrides it, called by the handler or the error
\* handler: one answer at most, after the UPDATE is issued.  A second answer throws,
\* and the error handler issues another UPDATE.
Respond(r, code) ==
  /\ h' = [h EXCEPT ![r] = "ended"]
  /\ answer' = [answer EXCEPT ![r] = IF @ = 0 THEN code ELSE @]
  /\ \E c \in IF answer[r] = 0 THEN {code} ELSE {code, 500} :
       storing' = [storing EXCEPT ![r] = c]
  /\ UNCHANGED <<send, rows, lock, at, began, doomed, purge, ran, displaced>>

Continue(r, where) == h' = [h EXCEPT ![r] = where] /\ UNCHANGED keyVars

rest == <<now, faults, kycVars, mode, mappings, held, holds, crashes, unheld>>

\* validateFundInvoiceBody()
Validate(r) ==
  /\ h[r] = "begin"
  /\ \/ Kind[send[r].body] = "bad" /\ Respond(r, 400)
     \/ Kind[send[r].body] # "bad" /\ Continue(r, "hold")
  /\ UNCHANGED <<rest, sent, commitments>>

\* fetchLegalHoldStatus(): a read that fails is "unknown", not "not_held".
HoldStatuses(r) ==
  {"unknown", IF HoldAdapter /\ Invoice(r) \in held THEN "held" ELSE "not_held"}

\* What follows a status of "not_held": the escrow of the invoice, then the mode.
PassHold(r) ==
  \/ ConfigBroken /\ Respond(r, 500)
  \/ /\ ~ ConfigBroken
     /\ \/ Address(r) = None /\ Respond(r, 422)
        \/ Address(r) # None /\ mode = "stubbed" /\ Continue(r, "persist")
        \/ Address(r) # None /\ mode # "stubbed" /\ Continue(r, "preflight")

\* A gate that lets an unavailable status pass.
CheckHoldOpen(r) ==
  /\ h[r] = "hold"
  /\ \E status \in HoldStatuses(r) :
       IF status = "held" THEN Respond(r, 423) ELSE PassHold(r)
  /\ UNCHANGED <<rest, sent, commitments>>

\* A gate that neither calls next() nor answers.
CheckHoldHangs(r) ==
  /\ h[r] = "hold"
  /\ \E status \in HoldStatuses(r) :
       IF status = "not_held" THEN PassHold(r) ELSE Continue(r, "ended")
  /\ UNCHANGED <<rest, sent, commitments>>

\* legalHoldGate(): it answers itself, and the handler hangs, unless it calls next().
CheckHold(r) ==
  /\ h[r] = "hold"
  /\ \E status \in HoldStatuses(r) :
       \/ status = "held" /\ Respond(r, 423)
       \/ status = "unknown" /\ Respond(r, 503)
       \/ status = "not_held" /\ PassHold(r)
  /\ UNCHANGED <<rest, sent, commitments>>

\* _preflightContractExists()
Preflight(r) ==
  /\ h[r] = "preflight"
  /\ Respond(r, 502) \/ Continue(r, "prepare")
  /\ UNCHANGED <<rest, sent, commitments>>

\* submitFundEscrow(), the rest: an EscrowSubmitError is 502, any other failure
\* of the node 500.
Prepare(r) ==
  /\ h[r] = "prepare"
  /\ \/ \E code \in {500, 502} : Respond(r, code)
     \/ mode = "delegated" /\ Continue(r, "persist")
     \/ mode = "custodial" /\ Continue(r, "send")
  /\ UNCHANGED <<rest, sent, commitments>>

\* _signAndSubmit(): refused, or lost on the way there or back.
SignAndSubmit(r) ==
  /\ h[r] = "send"
  /\ \/ Respond(r, 502) /\ UNCHANGED sent
     \/ Respond(r, 500) /\ sent' \in {sent, sent \cup {r}}
     \/ Continue(r, "persist") /\ sent' = sent \cup {r}
  /\ UNCHANGED <<rest, commitments>>

\* validateAmountStroops(), stricter than the validation of the route.
AmountAccepted(b) == Kind[b] = "plain"

Recorded(r) == \E c \in commitments : c.body = send[r].body

\* persistCommitment() up to the INSERT.
FindCommitment(r) ==
  /\ h[r] = "persist"
  /\ \/ Respond(r, 500)
     \/ AmountAccepted(send[r].body) /\ Recorded(r) /\ Respond(r, 200)
     \/ AmountAccepted(send[r].body) /\ ~Recorded(r) /\ Continue(r, "insert")
  /\ UNCHANGED <<rest, sent, commitments>>

Commitment(r) ==
  [body |-> send[r].body, address |-> Address(r), by |-> r,
   status |-> CASE mode = "stubbed"   -> "stubbed"
                [] mode = "delegated" -> "requires_signature"
                [] mode = "custodial" -> "submitted"]

\* An INSERT whose failure is swallowed like the one of a response.
InsertBestEffort(r) ==
  /\ h[r] = "insert"
  /\ commitments' \in {commitments, commitments \cup {Commitment(r)}}
  /\ Respond(r, 200)
  /\ UNCHANGED <<rest, sent>>

\* The INSERT, under a unique index on the commitment's key.
InsertCommitment(r) ==
  /\ h[r] = "insert"
  /\ \/ Respond(r, 500) /\ UNCHANGED commitments
     \/ ~Recorded(r) /\ Respond(r, 200) /\ commitments' = commitments \cup {Commitment(r)}
  /\ UNCHANGED <<rest, sent>>

HandlerStep(r) ==
  \/ Validate(r) \/ CheckHold(r) \/ Preflight(r) \/ Prepare(r) \/ SignAndSubmit(r)
  \/ FindCommitment(r) \/ InsertCommitment(r)

ChangeHold(i) ==
  /\ holds < MaxHolds
  /\ holds' = holds + 1
  /\ held' = IF i \in held THEN held \ {i} ELSE held \cup {i}
  /\ unheld' = IF i \in held
               THEN unheld \cup {r \in Requests : kyc[r] # "idle" /\ Invoice(r) = i} ELSE unheld
  /\ UNCHANGED <<now, faults, kycVars, keyVars, mode, mappings, crashes, h, sent, commitments>>

\* The statements of an open transaction take no time next to the time-outs.
Tick ==
  /\ now < MaxTime
  /\ \A r \in Requests : at[r] \in {"idle", "done"}
  /\ now' = now + 1
  /\ UNCHANGED <<faults, kycVars, keyVars, fundVars>>

\* The process dies: open transactions roll back, maps and handlers are gone.
Crash ==
  LET open == {r \in Requests : kyc[r] # "idle" /\ (answer[r] = 0 \/ h[r] \notin {"idle", "ended"} \/ at[r] = "commit")}
  IN /\ crashes < MaxCrashes /\ open # {}
     /\ crashes' = crashes + 1
     /\ answer' = [r \in Requests |-> IF r \in open /\ answer[r] = 0 THEN Lost ELSE answer[r]]
     /\ kyc' = [r \in Requests |-> IF r \in open THEN "dead" ELSE kyc[r]]
     /\ at' = [r \in Requests |-> IF r \in open THEN "done" ELSE at[r]]
     /\ h' = [r \in Requests |-> IF h[r] = "idle" THEN "idle" ELSE "ended"]
     /\ displaced' = displaced \cup {r \in open : at[r] = "commit"}
     /\ storing' = [r \in Requests |-> 0]
     /\ doomed' = [r \in Requests |-> {}]
     /\ lock' = [k \in Keys |-> None]
     /\ got' = [r \in Requests |-> None]
     /\ mock' = None /\ cache' = NoEntry /\ purge' = 0
     /\ UNCHANGED <<now, faults, enabled, provider, webhooks, record, decisions, cleared,
                    send, rows, began, ran, mode, mappings, held, holds, sent, commitments, unheld>>

KeyStep(r) ==
  Refuse(r) \/ SelectKey(r) \/ DeleteStale(r) \/ TransactionFails(r) \/ Commit(r) \/ Store(r)

Step(r) ==
  \/ KycStep(r) /\ UNCHANGED <<keyVars, fundVars>>
  \/ KeyStep(r) /\ UNCHANGED <<kycVars, fundVars>>
  \/ Begin(r)
  \/ HandlerStep(r)

Next ==
  \/ \E r \in Requests : Arrive(r) \/ Step(r)
  \/ \E r \in Requests : CommitFails(r) /\ UNCHANGED <<kycVars, fundVars>>
  \/ KycNext /\ UNCHANGED <<keyVars, fundVars>>
  \/ PurgeBatch /\ UNCHANGED <<kycVars, fundVars>>
  \/ \E i \in Invoices : ChangeHold(i)
  \/ Tick
  \/ Crash

\* A statement or a call to the node comes back sooner or later, if with an error.
Fairness == \A r \in Requests : WF_vars(Step(r))
Spec == Init /\ [][Next]_vars /\ Fairness

-----------------------------------------------------------------------------

\* Two handlers run for one key only further apart than the orphan time-out,
\* however requests, crashes and time-outs interleave, unless the placeholder of
\* one of them was never committed (next() runs before the commit) or was deleted
\* by a request that had read an older, stale row (the DELETE is by key).
SpacedRuns ==
  \A r, s \in ran :
    (r # s /\ send[r].key = send[s].key /\ {r, s} \cap displaced = {})
      => began[r] - began[s] \notin -Orphan..Orphan

\* The transaction of a request reaches the network only if the SME was cleared
\* by the provider or an operator at some time and, with the getter wired in, the
\* invoice was free of a legal hold at some instant since the request arrived: a
\* hold stops every request that comes after it, and so does an unreadable status.
FundsGuarded ==
  \A r \in sent : cleared /\ (HoldAdapter => r \in unheld)

\* The table and the answers agree: a commitment recorded as submitted is one whose
\* transaction was sent, to the escrow the map reads back as its invoice's, and 200,
\* sent by the handler or kept for replay, is backed by a commitment.
LedgerAgrees ==
  /\ \A c \in commitments :
       /\ c.status = "submitted" => c.by \in sent
       /\ ResolveInvoiceByAddress(c.address) = InvoiceOf[c.body]
  /\ \A r \in ran : answer[r] = 200 => Recorded(r)
  /\ \A x \in rows : x.code = 200 => Recorded(x.from)

\* Every request is answered, or lost with the process: by a gate, by the
\* middleware, by the handler or by the catch of the transaction.
RequestsAnswered ==
  \A r \in Requests : (kyc[r] # "idle") ~> (answer[r] # 0)

-----------------------------------------------------------------------------
(* The inductive invariant behind the safety properties.                   *)

KycPlaces == {"idle", "provider", "save", "record", "passed", "refused", "dead"}
KeyPlaces == {"idle", "delete", "wait", "insert", "commit", "done"}
PastHold == {"preflight", "prepare", "send", "persist", "insert"}
HandlerPlaces == {"idle", "begin", "hold", "ended"} \cup PastHold

Statuses == {"pending", "verified", "rejected", "exempted", "unknown"}
Bodies == {send[r].body : r \in Requests}
KeyRows ==
  [key : Keys, by : Requests \cup {Earlier}, body : Bodies,
   code : Int, from : Requests \cup {Earlier}, born : Nat]

\* The clock, the three places of a request and what it holds keep their types.
FundTypeOK ==
  /\ now \in Nat
  /\ kyc \in [Requests -> KycPlaces] /\ at \in [Requests -> KeyPlaces]
  /\ h \in [Requests -> HandlerPlaces]
  /\ began \in [Requests -> Nat] /\ storing \in [Requests -> Int] /\ answer \in [Requests -> Int]
  /\ lock \in [Keys -> Requests \cup {None}]
  /\ got \in [Requests -> Statuses \cup {None}]
  /\ rows \subseteq KeyRows /\ doomed \in [Requests -> SUBSET KeyRows]
  /\ ran \subseteq Requests /\ sent \subseteq Requests /\ mappings \in EscrowMaps

\* A request passes the gate, then the middleware, then the handler; its
\* transaction is open at one instant only.
InOrder(r) ==
  /\ kyc[r] = "idle" => at[r] = "idle"
  /\ h[r] # "idle" <=> r \in ran
  /\ h[r] # "idle" => at[r] \in {"commit", "done"}
  /\ at[r] = "commit" => h[r] # "idle" /\ lock[send[r].key] = r
  /\ at[r] \notin {"idle", "done"} => send[r].key # NoKey /\ began[r] = now

\* Whatever can let the SME pass goes back to somebody who cleared it, and a request
\* past the hold gate was free of a hold.
ClearedInv ==
  /\ cleared \in BOOLEAN
  /\ (CanFund(record) \/ CanFund(mock) \/ CanFund(cache.status)) => cleared
  /\ \A raw \in webhooks : CanFund(NormalizeProviderStatus(raw)) => cleared
  /\ (enabled /\ CanFund(NormalizeProviderStatus(provider))) => cleared
  /\ \A r \in Requests :
       /\ CanFund(got[r]) => cleared
       /\ kyc[r] \in {"provider", "save"} => enabled
       /\ (kyc[r] = "passed" \/ at[r] \notin {"idle", "done"} \/ h[r] # "idle") => cleared
       /\ (kyc[r] # "idle" /\ Invoice(r) \notin held) => r \in unheld
       /\ (h[r] \in PastHold /\ HoldAdapter) => r \in unheld

\* A row belongs to a request that ran and was born when that one began.
Owned(x) ==
  \/ x.by = Earlier /\ x.born = 0
  \/ x.by \in ran /\ x.born = began[x.by]

\* A request that ran is about to commit its placeholder, or has its row, or is
\* older than the orphan time-out; what a transaction deletes is as old, or displaced.
KeyInv ==
  /\ \A x \in rows : Owned(x)
  /\ \A r \in Requests :
       /\ \A x \in doomed[r] : Owned(x)
       /\ at[r] \in {"delete", "wait"} => \A x \in doomed[r] : now - x.born > Orphan
       /\ at[r] \in {"insert", "commit"} =>
            \A x \in doomed[r] : x.by \in displaced \/ now - x.born > Orphan
  /\ \A r \in ran \ displaced :
       \/ at[r] = "commit"
       \/ \E x \in rows : x.by = r /\ x.key = send[r].key
       \/ now - began[r] > Orphan

\* What is about to be recorded was sent; what was answered 200 is recorded.
LedgerInv ==
  /\ \A r \in Requests :
       /\ h[r] \in PastHold => Address(r) # None
       /\ h[r] = "send" => mode = "custodial"
       /\ h[r] \in {"persist", "insert"} =>
            mode \in {"stubbed", "delegated"} \/ (mode = "custodial" /\ r \in sent)
       /\ at[r] \notin {"commit", "done"} => answer[r] = 0
       /\ storing[r] = 200 => Recorded(r)
       /\ (r \in ran /\ answer[r] = 200) => Recorded(r)
  /\ \A c \in commitments :
       /\ c.status = "submitted" => c.by \in sent
       /\ c.address = ResolveEscrowAddress(InvoiceOf[c.body]) /\ c.address # None
  /\ \A x \in rows : x.code = 200 => Recorded(x.from)

FundInv ==
  /\ FundTypeOK
  /\ \A r \in Requests : InOrder(r)
  /\ ClearedInv /\ FundsGuarded
  /\ KeyInv /\ SpacedRuns
  /\ LedgerInv

\* No two mappings that count give one address to different invoices; the code
\* does not check it.
OneInvoicePerAddress ==
  \A m \in EscrowMaps : \A i, j \in DOMAIN m :
    (Active(m[i]) /\ Active(m[j]) /\ m[i].address = m[j].address) => m[i].invoice = m[j].invoice
=============================================================================

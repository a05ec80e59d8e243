------------------------- MODULE FundInvoiceProofs --------------------------
(***************************************************************************)
(* The funding request: every transaction sent is covered by a clearance   *)
(* and by an instant without a hold, handlers of one key are spaced by the *)
(* orphan time-out, and the table agrees with what was sent and answered.  *)
(*                                                                         *)
(* The inductive invariant FundInv falls into four parts, each kept by     *)
(* every step given the first one: where a request stands (types and       *)
(* InOrder), who cleared it (ClearedInv), what became of the placeholder   *)
(* of a request that ran (KeyInv), and what is recorded (LedgerInv).       *)
(***************************************************************************)
EXTENDS FundInvoice, WellFoundedInduction, TLAPS

\* The answers that refuse or fail are not the one that succeeds.
LEMMA OtherCodes ==
  /\ 400 # 200 /\ 403 # 200 /\ 422 # 200 /\ 423 # 200
  /\ 500 # 200 /\ 502 # 200 /\ 503 # 200
OBVIOUS

\* The first part of the invariant.
Ordered == FundTypeOK /\ \A r \in Requests : InOrder(r)

-----------------------------------------------------------------------------
(* Start.                                                                  *)

\* The initial states satisfy the invariant.
LEMMA FundStart == Init => FundInv
<1> SUFFICES ASSUME Init PROVE FundInv
  OBVIOUS
<1>1. /\ now \in Nat /\ mappings \in EscrowMaps /\ sent = {} /\ commitments = {} /\ unheld = {}
      /\ h = [r \in Requests |-> "idle"]
  BY DEF Init
<1>2. /\ kyc = [r \in Requests |-> "idle"] /\ got = [r \in Requests |-> None]
      /\ webhooks = {} /\ record \in {None, "verified"} /\ mock = None /\ cache = NoEntry
      /\ cleared = (record # None \/ (enabled /\ CanFund(NormalizeProviderStatus(provider))))
      /\ enabled \in BOOLEAN
  BY DEF Init, KycInit
<1>3. /\ lock = [k \in Keys |-> None] /\ at = [r \in Requests |-> "idle"]
      /\ began = [r \in Requests |-> 0] /\ doomed = [r \in Requests |-> {}]
      /\ storing = [r \in Requests |-> 0] /\ answer = [r \in Requests |-> 0]
      /\ ran = {} /\ displaced = {}
  BY DEF Init, KeyInit
<1>4. \A x \in rows : x \in KeyRows /\ x.by = Earlier /\ x.born = 0 /\ x.code = 0
  <2> SUFFICES ASSUME NEW x \in rows
               PROVE  x \in KeyRows /\ x.by = Earlier /\ x.born = 0 /\ x.code = 0
    OBVIOUS
  <2>1. PICK k \in Keys, r \in Requests :
          x = [key |-> k, by |-> Earlier, body |-> send[r].body, code |-> 0,
               from |-> Earlier, born |-> 0]
    BY DEF Init, KeyInit
  <2>2. send[r].body \in Bodies
    BY Zenon DEF Bodies
  <2> QED BY <2>1, <2>2 DEF KeyRows
<1>5. FundTypeOK
  <2>1. rows \subseteq KeyRows
    BY <1>4
  <2> QED BY <1>1, <1>2, <1>3, <2>1 DEF FundTypeOK, KycPlaces, KeyPlaces, HandlerPlaces
<1>6. \A r \in Requests : InOrder(r)
  BY Zenon, <1>1, <1>2, <1>3 DEF InOrder
<1>7. ClearedInv /\ FundsGuarded
  BY Zenon, <1>1, <1>2, <1>3 DEF ClearedInv, FundsGuarded, CanFund, NoEntry, None, PastHold
<1>8. KeyInv /\ SpacedRuns
  BY Zenon, <1>3, <1>4 DEF KeyInv, SpacedRuns, Owned
<1>9. LedgerInv
  BY <1>1, <1>3, <1>4 DEF LedgerInv, PastHold
<1> QED BY Zenon, <1>5, <1>6, <1>7, <1>8, <1>9 DEF FundInv

-----------------------------------------------------------------------------
(* What the steps do.                                                      *)

\* What every part of the proof reads off the first.
LEMMA OrderedFacts ==
  ASSUME Ordered
  PROVE  /\ now \in Nat /\ kyc \in [Requests -> KycPlaces] /\ at \in [Requests -> KeyPlaces]
         /\ h \in [Requests -> HandlerPlaces] /\ began \in [Requests -> Nat]
         /\ storing \in [Requests -> Int] /\ answer \in [Requests -> Int]
         /\ lock \in [Keys -> Requests \cup {None}] /\ got \in [Requests -> Statuses \cup {None}]
         /\ rows \subseteq KeyRows /\ doomed \in [Requests -> SUBSET KeyRows]
         /\ ran \subseteq Requests /\ sent \subseteq Requests /\ mappings \in EscrowMaps
         /\ None \notin Requests /\ Earlier \notin Requests
         /\ \A r \in Requests :
              /\ kyc[r] = "idle" => at[r] = "idle"
              /\ (h[r] # "idle") <=> (r \in ran)
              /\ h[r] # "idle" => at[r] \in {"commit", "done"}
              /\ at[r] = "commit" => h[r] # "idle" /\ lock[send[r].key] = r
              /\ at[r] \notin {"idle", "done"} =>
                   send[r].key # NoKey /\ send[r].key \in Keys /\ began[r] = now
  BY Zenon, FundAssumption DEF Ordered, FundTypeOK, InOrder, Keys

\* No step changes what the requests send.
LEMMA KeysFixed == send' = send => Keys' = Keys /\ KeyRows' = KeyRows
BY DEF Keys, Bodies, KeyRows

\* The row a transaction is about to commit.
LEMMA PlaceholderRow ==
  ASSUME NEW r \in Requests, send[r].key \in Keys, began[r] \in Nat
  PROVE  Placeholder(r) \in KeyRows
<1>1. \A K, B, R, k, b, o, n :
        (k \in K /\ b \in B /\ o \in R /\ n \in Nat) =>
          [key |-> k, by |-> o, body |-> b, code |-> 0, from |-> o, born |-> n]
            \in [key : K, by : R, body : B, code : Int, from : R, born : Nat]
  OBVIOUS
<1>2. send[r].body \in Bodies /\ r \in Requests \cup {Earlier}
  BY DEF Bodies
<1> QED BY <1>1, <1>2 DEF Placeholder, KeyRows

\* A step of the handler moves its own place on and may answer; it leaves the gate and
\* the middleware alone.
LEMMA HandlerEffect ==
  ASSUME Ordered, NEW r \in Requests, HandlerStep(r)
  PROVE  /\ h[r] \notin {"idle", "ended"}
         /\ h'[r] \in HandlerPlaces \ {"idle", "begin"}
         /\ h' = [h EXCEPT ![r] = h'[r]]
         /\ storing' \in [Requests -> Int] /\ answer' \in [Requests -> Int]
         /\ \A s \in Requests \ {r} : storing'[s] = storing[s] /\ answer'[s] = answer[s]
         /\ sent' \in {sent, sent \cup {r}}
         /\ UNCHANGED <<now, faults, enabled, provider, webhooks, record, mock, cache, kyc, got,
                        decisions, cleared, mode, mappings, held, holds, crashes, unheld>>
         /\ UNCHANGED <<send, rows, lock, at, began, doomed, purge, ran, displaced>>
<1> USE OrderedFacts
<1>1. ASSUME NEW code \in Int, Respond(r, code)
      PROVE  /\ h'[r] \in HandlerPlaces \ {"idle", "begin"}
             /\ h' = [h EXCEPT ![r] = h'[r]]
             /\ storing' \in [Requests -> Int] /\ answer' \in [Requests -> Int]
             /\ \A s \in Requests \ {r} : storing'[s] = storing[s] /\ answer'[s] = answer[s]
             /\ UNCHANGED <<send, rows, lock, at, began, doomed, purge, ran, displaced>>
  BY <1>1 DEF Respond, HandlerPlaces
<1>2. ASSUME NEW where \in {"hold"} \cup PastHold, Continue(r, where)
      PROVE  /\ h'[r] \in HandlerPlaces \ {"idle", "begin"}
             /\ h' = [h EXCEPT ![r] = h'[r]]
             /\ storing' \in [Requests -> Int] /\ answer' \in [Requests -> Int]
             /\ \A s \in Requests \ {r} : storing'[s] = storing[s] /\ answer'[s] = answer[s]
             /\ UNCHANGED <<send, rows, lock, at, began, doomed, purge, ran, displaced>>
  BY Zenon, <1>2 DEF Continue, HandlerPlaces, PastHold, keyVars
<1>3. /\ UNCHANGED rest /\ sent' \in {sent, sent \cup {r}} /\ h[r] \notin {"idle", "ended"}
      /\ \/ \E code \in Int : Respond(r, code)
         \/ \E where \in {"hold"} \cup PastHold : Continue(r, where)
  <2>1. CASE Validate(r)
    BY <2>1 DEF Validate, PastHold
  <2>2. CASE CheckHold(r)
    BY <2>2 DEF CheckHold, PassHold, PastHold
  <2>3. CASE Preflight(r) \/ Prepare(r)
    BY <2>3 DEF Preflight, Prepare, PastHold
  <2>4. CASE SignAndSubmit(r)
    BY <2>4 DEF SignAndSubmit, PastHold
  <2>5. CASE FindCommitment(r) \/ InsertCommitment(r)
    BY <2>5 DEF FindCommitment, InsertCommitment, PastHold
  <2> QED BY Zenon, <2>1, <2>2, <2>3, <2>4, <2>5 DEF HandlerStep
<1>4. UNCHANGED <<now, faults, enabled, provider, webhooks, record, mock, cache, kyc, got,
                  decisions, cleared, mode, mappings, held, holds, crashes, unheld>>
  BY Zenon, <1>3 DEF rest, kycVars
<1> QED BY Zenon, <1>1, <1>2, <1>3, <1>4

\* A step of getKycStatus(), of the provider or of an operator.
LEMMA KycEffect ==
  ASSUME Ordered, KycNext
  PROVE  /\ kyc' \in [Requests -> KycPlaces] /\ got' \in [Requests -> Statuses \cup {None}]
         /\ now' = now
         /\ \A r \in Requests : kyc'[r] = "idle" <=> kyc[r] = "idle"
<1> USE OrderedFacts
<1>1. \A raw : NormalizeProviderStatus(raw) \in Statuses
  BY DEF NormalizeProviderStatus, Statuses
<1>2. ASSUME NEW r \in Requests, KycStep(r) \/ ProviderFails(r)
      PROVE  /\ kyc' \in [Requests -> KycPlaces] /\ got' \in [Requests -> Statuses \cup {None}]
             /\ now' = now
             /\ \A s \in Requests : kyc'[s] = "idle" <=> kyc[s] = "idle"
  <2>1. CASE ProviderAnswers(r)
    BY Zenon, <1>1, <2>1 DEF ProviderAnswers, KycPlaces
  <2>2. CASE SaveAnswer(r)
    BY Zenon, <2>2 DEF SaveAnswer, Decided, KycPlaces
  <2>3. CASE ReadRecord(r)
    BY Zenon, <2>3 DEF ReadRecord, Decided, KycPlaces
  <2>4. CASE ProviderFails(r)
    BY Zenon, <2>4 DEF ProviderFails, KycPlaces
  <2> QED BY Zenon, <1>2, <2>1, <2>2, <2>3, <2>4 DEF KycStep
<1>3. CASE ~ \E r \in Requests : KycStep(r) \/ ProviderFails(r)
  BY Zenon, <1>3 DEF KycNext, ProviderDecides, Webhook, VerifySmeSafe, RejectSmeKyc, ExemptSmeFromKyc, Manual
<1> QED BY Zenon, <1>2, <1>3

\* What the middleware leaves alone.
LEMMA KeyEffect ==
  ASSUME NEW r \in Requests,
         \/ KeyStep(r) /\ UNCHANGED <<kycVars, fundVars>>
         \/ CommitFails(r) /\ UNCHANGED <<kycVars, fundVars>>
         \/ PurgeBatch /\ UNCHANGED <<kycVars, fundVars>>
  PROVE  /\ UNCHANGED <<now, send, ran, mode, mappings, held, h, sent, commitments, unheld>>
         /\ UNCHANGED <<enabled, provider, webhooks, record, mock, cache, kyc, got, cleared>>
BY Zenon DEF KeyStep, Refuse, SelectKey, DeleteStale, TransactionFails, Commit, Store, CommitFails,
       PurgeBatch, kycVars, fundVars

-----------------------------------------------------------------------------
(* Where a request stands.                                                 *)

\* A step that leaves the middleware alone and takes nobody back to "idle".
LEMMA OrderFrame ==
  ASSUME Ordered, UNCHANGED <<now, keyVars, h, mappings>>, sent' = sent,
         kyc' \in [Requests -> KycPlaces], got' \in [Requests -> Statuses \cup {None}],
         \A r \in Requests : kyc'[r] = "idle" => kyc[r] = "idle"
  PROVE  Ordered'
<1>1. UNCHANGED <<now, send, rows, lock, at, began, doomed, storing, answer, ran, h, mappings>>
  BY DEF keyVars
<1>2. FundTypeOK'
  BY Zenon, <1>1, OrderedFacts, KeysFixed DEF FundTypeOK
<1>3. \A r \in Requests : InOrder(r)'
  BY Zenon, <1>1, OrderedFacts DEF InOrder
<1> QED BY Zenon, <1>2, <1>3 DEF Ordered

\* Release() gives up no lock of another transaction.
LEMMA ReleaseKeeps ==
  ASSUME Ordered, NEW r \in Requests, Release(r), send' = send
  PROVE  /\ lock' \in [Keys -> Requests \cup {None}]
         /\ \A s \in Requests \ {r} : at[s] = "commit" => lock'[send[s].key] = s
BY Zenon, OrderedFacts DEF Release

\* The steps of the middleware before next() and after it.
LEMMA OrderKeys ==
  ASSUME Ordered, NEW r \in Requests,
         \/ KeyStep(r) /\ UNCHANGED <<kycVars, fundVars>>
         \/ CommitFails(r) /\ UNCHANGED <<kycVars, fundVars>>
         \/ PurgeBatch /\ UNCHANGED <<kycVars, fundVars>>
  PROVE  Ordered'
<1> USE OrderedFacts
<1>1. /\ UNCHANGED <<now, send, ran, mode, mappings, held, h, sent, commitments, unheld>>
      /\ UNCHANGED <<enabled, provider, webhooks, record, mock, cache, kyc, got, cleared>>
  BY Zenon, KeyEffect
<1>2. Keys' = Keys /\ KeyRows' = KeyRows
  BY Zenon, <1>1, KeysFixed
<1>3. SUFFICES
        /\ at' \in [Requests -> KeyPlaces] /\ began' \in [Requests -> Nat]
        /\ storing' \in [Requests -> Int] /\ answer' \in [Requests -> Int]
        /\ lock' \in [Keys -> Requests \cup {None}]
        /\ rows' \subseteq KeyRows /\ doomed' \in [Requests -> SUBSET KeyRows]
        /\ \A s \in Requests :
             /\ kyc[s] = "idle" => at'[s] = "idle"
             /\ h[s] # "idle" => at'[s] \in {"commit", "done"}
             /\ at'[s] = "commit" => h[s] # "idle" /\ lock'[send[s].key] = s
             /\ at'[s] \notin {"idle", "done"} => send[s].key # NoKey /\ began'[s] = now
  <2>1. FundTypeOK'
    BY Zenon, <1>1, <1>2, <1>3 DEF FundTypeOK
  <2>2. \A s \in Requests : InOrder(s)'
    BY Zenon, <1>1, <1>3 DEF InOrder
  <2> QED BY Zenon, <2>1, <2>2 DEF Ordered
<1>4. CASE Refuse(r)
  BY <1>4 DEF Refuse, Reply, KeyPlaces
<1>5. CASE SelectKey(r)
  <2>1. /\ at[r] = "idle" /\ kyc[r] = "passed" /\ send[r].key # NoKey
        /\ began' = [began EXCEPT ![r] = now]
        /\ UNCHANGED <<rows, lock, storing>>
    BY Zenon, <1>5 DEF SelectKey
  <2>2. doomed' \in [Requests -> SUBSET KeyRows]
    <3>1. \A x \in RowsOf(send[r].key) : x \in KeyRows
      BY Zenon DEF RowsOf
    <3> QED BY Zenon, <1>5, <3>1 DEF SelectKey
  <2>3. \/ at' = [at EXCEPT ![r] = "insert"] /\ answer' = answer
        \/ at' = [at EXCEPT ![r] = "delete"] /\ answer' = answer
        \/ \E code \in Int : /\ at' = [at EXCEPT ![r] = "done"]
                             /\ answer' = [answer EXCEPT ![r] = code]
    <3>1. \A x \in RowsOf(send[r].key) : x.code \in Int
      BY Zenon DEF RowsOf, KeyRows
    <3> HIDE OrderedFacts
    <3> QED BY <1>5, <3>1 DEF SelectKey, Reply
  <2>4. /\ at' \in [Requests -> KeyPlaces] /\ answer' \in [Requests -> Int]
        /\ at'[r] \in {"insert", "delete", "done"} /\ \A s \in Requests \ {r} : at'[s] = at[s]
    BY <2>3 DEF KeyPlaces
  <2> QED BY ZenonT(60), <2>1, <2>2, <2>4
<1>6. CASE DeleteStale(r)
  <2>1. /\ at[r] \in {"delete", "wait"} /\ UNCHANGED <<rows, began, storing, answer>>
        /\ send[r].key \in Keys
    BY Zenon, <1>6 DEF DeleteStale
  <2>2. CASE lock[send[r].key] = None /\ lock' = [lock EXCEPT ![send[r].key] = r]
             /\ at' = [at EXCEPT ![r] = "insert"]
             /\ doomed' = [doomed EXCEPT ![r] = IF at[r] = "wait" THEN @ \cap rows ELSE RowsOf(send[r].key)]
    <3>1. doomed' \in [Requests -> SUBSET KeyRows]
      BY Zenon, <2>2 DEF RowsOf
    <3>2. \A s \in Requests \ {r} : at[s] = "commit" => lock'[send[s].key] = s
      BY Zenon, <2>1, <2>2
    <3> QED BY Zenon, <2>1, <2>2, <3>1, <3>2 DEF KeyPlaces
  <2>3. CASE at' = [at EXCEPT ![r] = "wait"] /\ UNCHANGED <<doomed, lock>>
    BY Zenon, <2>1, <2>3 DEF KeyPlaces
  <2> QED BY Zenon, <1>6, <2>2, <2>3 DEF DeleteStale
<1>7. CASE TransactionFails(r)
  <2>1. /\ at[r] \in {"delete", "wait", "insert"} /\ Reply(r, 500) /\ Release(r)
        /\ doomed' = [doomed EXCEPT ![r] = {}] /\ UNCHANGED <<rows, began, storing>>
    BY Zenon, <1>7 DEF TransactionFails
  <2>2. /\ lock' \in [Keys -> Requests \cup {None}]
        /\ \A s \in Requests \ {r} : at[s] = "commit" => lock'[send[s].key] = s
    BY Zenon, <1>1, <2>1, ReleaseKeeps
  <2> QED BY <2>1, <2>2 DEF Reply, KeyPlaces
<1>8. CASE Commit(r)
  <2>1. /\ at[r] = "commit" /\ Release(r) /\ rows' = (rows \ doomed[r]) \cup {Placeholder(r)}
        /\ doomed' = [doomed EXCEPT ![r] = {}] /\ at' = [at EXCEPT ![r] = "done"]
        /\ UNCHANGED <<began, storing, answer>>
    BY Zenon, <1>8 DEF Commit
  <2>2. /\ lock' \in [Keys -> Requests \cup {None}]
        /\ \A s \in Requests \ {r} : at[s] = "commit" => lock'[send[s].key] = s
    BY Zenon, <1>1, <2>1, ReleaseKeeps
  <2>3. Placeholder(r) \in KeyRows
    BY Zenon, <2>1, PlaceholderRow
  <2> QED BY Zenon, <2>1, <2>2, <2>3 DEF KeyPlaces
<1>9. CASE Store(r)
  <2> DEFINE mine == {x \in RowsOf(send[r].key) : lock[x.key] = None}
  <2>0. UNCHANGED <<lock, at, began, doomed, answer>> /\ storing' = [storing EXCEPT ![r] = 0]
    BY Zenon, <1>9 DEF Store
  <2>1. /\ \/ rows' = (rows \ mine) \cup {[x EXCEPT !.code = storing[r], !.from = r] : x \in mine}
           \/ rows' = rows
    BY Zenon, <1>9 DEF Store
  <2>2. \A x \in mine : [x EXCEPT !.code = storing[r], !.from = r] \in KeyRows
    <3> SUFFICES ASSUME NEW x \in KeyRows
                 PROVE  [x EXCEPT !.code = storing[r], !.from = r] \in KeyRows
      BY Zenon DEF RowsOf
    <3> QED BY Zenon DEF KeyRows
  <2> HIDE OrderedFacts
  <2>3. {[x EXCEPT !.code = storing[r], !.from = r] : x \in mine} \subseteq KeyRows
    BY Zenon, <2>2
  <2> HIDE DEF mine
  <2>4. rows' \subseteq KeyRows
    BY Zenon, <2>1, <2>3, OrderedFacts
  <2>5. storing' \in [Requests -> Int]
    <3>1. storing \in [Requests -> Int]
      BY Zenon, OrderedFacts
    <3> QED BY <2>0, <3>1
  <2> QED BY Zenon, <2>0, <2>4, <2>5, OrderedFacts
<1>10. CASE CommitFails(r)
  <2>1. /\ at[r] = "commit" /\ Release(r)
        /\ doomed' = [doomed EXCEPT ![r] = {}] /\ at' = [at EXCEPT ![r] = "done"]
        /\ answer' = [answer EXCEPT ![r] = IF @ = 0 THEN 500 ELSE @]
        /\ storing' = [storing EXCEPT ![r] = IF answer[r] = 0 THEN 500 ELSE @]
        /\ UNCHANGED <<rows, began>>
    BY Zenon, <1>10 DEF CommitFails
  <2>2. /\ lock' \in [Keys -> Requests \cup {None}]
        /\ \A s \in Requests \ {r} : at[s] = "commit" => lock'[send[s].key] = s
    BY Zenon, <1>1, <2>1, ReleaseKeeps
  <2>3. answer' \in [Requests -> Int] /\ storing' \in [Requests -> Int]
    <3>1. answer \in [Requests -> Int] /\ storing \in [Requests -> Int]
      BY Zenon
    <3> HIDE OrderedFacts
    <3> QED BY <2>1, <3>1
  <2>4. at' \in [Requests -> KeyPlaces] /\ doomed' \in [Requests -> SUBSET KeyRows]
    BY Zenon, <2>1 DEF KeyPlaces
  <2> QED BY Zenon, <2>1, <2>2, <2>3, <2>4
<1>11. CASE PurgeBatch
  <2>1. UNCHANGED <<lock, at, began, doomed, storing, answer>> /\ rows' \subseteq rows
    BY Zenon, <1>11 DEF PurgeBatch
  <2> QED BY Zenon, <2>1
<1> QED BY ZenonT(60), <1>4, <1>5, <1>6, <1>7, <1>8, <1>9, <1>10, <1>11 DEF KeyStep

\* next() of the middleware.
LEMMA OrderBegin ==
  ASSUME Ordered, NEW r \in Requests, Begin(r)
  PROVE  Ordered'
<1> USE OrderedFacts
<1>1. /\ at[r] = "insert" /\ lock[send[r].key] \in {None, r}
      /\ lock' = [lock EXCEPT ![send[r].key] = r] /\ at' = [at EXCEPT ![r] = "commit"]
      /\ ran' = ran \cup {r} /\ h' = [h EXCEPT ![r] = "begin"]
      /\ UNCHANGED <<now, send, rows, began, doomed, storing, answer, kyc, got, mappings, sent>>
  BY Zenon DEF Begin, InsertPlaceholder, kycVars
<1>2. FundTypeOK'
  <2>1. at' \in [Requests -> KeyPlaces] /\ h' \in [Requests -> HandlerPlaces]
    BY Zenon, <1>1 DEF KeyPlaces, HandlerPlaces
  <2>2. lock' \in [Keys -> Requests \cup {None}] /\ ran' \subseteq Requests
    BY Zenon, <1>1
  <2> QED BY Zenon, <1>1, <2>1, <2>2, KeysFixed DEF FundTypeOK
<1>3. ASSUME NEW s \in Requests PROVE InOrder(s)'
  <2>1. CASE s = r
    BY Zenon, <1>1, <2>1 DEF InOrder
  <2>2. CASE s # r
    <3>1. at'[s] = at[s] /\ h'[s] = h[s] /\ (s \in ran' <=> s \in ran)
      BY Zenon, <1>1, <2>2
    <3>2. at[s] = "commit" => lock'[send[s].key] = s
      BY Zenon, <1>1, <2>2
    <3> QED BY Zenon, <1>1, <3>1, <3>2 DEF InOrder
  <2> QED BY Zenon, <2>1, <2>2
<1> QED BY Zenon, <1>2, <1>3 DEF Ordered

\* A crash closes every request that is under way.
LEMMA CrashEffect ==
  ASSUME Ordered, Crash
  PROVE  /\ UNCHANGED <<now, send, rows, began, ran, mode, mappings, held, sent, commitments, unheld>>
         /\ UNCHANGED <<enabled, provider, webhooks, record, cleared>>
         /\ mock' = None /\ cache' = NoEntry /\ got' = [r \in Requests |-> None]
         /\ lock' = [k \in Keys |-> None] /\ doomed' = [r \in Requests |-> {}]
         /\ storing' = [r \in Requests |-> 0] /\ answer' \in [Requests -> Int]
         /\ h' = [r \in Requests |-> IF h[r] = "idle" THEN "idle" ELSE "ended"]
         /\ kyc' \in [Requests -> KycPlaces] /\ at' \in [Requests -> KeyPlaces]
         /\ displaced \subseteq displaced'
         /\ \A r \in Requests :
              /\ at[r] = "commit" => r \in displaced'
              /\ kyc'[r] \in {kyc[r], "dead"} /\ (kyc'[r] = "idle" <=> kyc[r] = "idle")
              /\ at'[r] # "commit" /\ at'[r] \in {at[r], "done"}
              /\ kyc[r] = "idle" => at'[r] = at[r]
              /\ answer'[r] \in {answer[r], Lost}
              /\ at'[r] # "done" => answer'[r] = answer[r]
<1> USE OrderedFacts
<1> DEFINE open == {r \in Requests : kyc[r] # "idle" /\ (answer[r] = 0 \/ h[r] \notin {"idle", "ended"} \/ at[r] = "commit")}
<1>1. /\ answer' = [r \in Requests |-> IF r \in open /\ answer[r] = 0 THEN Lost ELSE answer[r]]
      /\ kyc' = [r \in Requests |-> IF r \in open THEN "dead" ELSE kyc[r]]
      /\ at' = [r \in Requests |-> IF r \in open THEN "done" ELSE at[r]]
      /\ displaced' = displaced \cup {r \in open : at[r] = "commit"}
  BY Zenon DEF Crash
<1>2. \A r \in Requests : (at[r] = "commit" => r \in open) /\ (kyc[r] = "idle" => r \notin open)
  BY Zenon
<1>3. /\ UNCHANGED <<now, send, rows, began, ran, mode, mappings, held, sent, commitments, unheld>>
      /\ UNCHANGED <<enabled, provider, webhooks, record, cleared>>
      /\ mock' = None /\ cache' = NoEntry /\ got' = [r \in Requests |-> None]
      /\ lock' = [k \in Keys |-> None] /\ doomed' = [r \in Requests |-> {}]
      /\ storing' = [r \in Requests |-> 0]
      /\ h' = [r \in Requests |-> IF h[r] = "idle" THEN "idle" ELSE "ended"]
  BY Zenon DEF Crash
<1> HIDE DEF open
<1>4. answer' \in [Requests -> Int] /\ \A r \in Requests : answer'[r] \in {answer[r], Lost}
  BY <1>1 DEF Lost
<1>5. kyc' \in [Requests -> KycPlaces] /\ at' \in [Requests -> KeyPlaces]
  BY Zenon, <1>1 DEF KycPlaces, KeyPlaces
<1> QED BY Zenon, <1>1, <1>2, <1>3, <1>4, <1>5

\* A crash keeps the first part: what is in memory starts again, what is in the table
\* and what was answered stays.
LEMMA OrderCrash ==
  ASSUME Ordered, Crash
  PROVE  Ordered'
<1>1. FundTypeOK'
  <2>1. /\ UNCHANGED <<now, send, rows, began, ran, sent, mappings>>
        /\ got' = [r \in Requests |-> None] /\ lock' = [k \in Keys |-> None]
        /\ doomed' = [r \in Requests |-> {}] /\ storing' = [r \in Requests |-> 0]
        /\ h' = [r \in Requests |-> IF h[r] = "idle" THEN "idle" ELSE "ended"]
        /\ answer' \in [Requests -> Int]
        /\ kyc' \in [Requests -> KycPlaces] /\ at' \in [Requests -> KeyPlaces]
    BY Zenon, CrashEffect
  <2>2. Keys' = Keys /\ KeyRows' = KeyRows
    BY Zenon, <2>1, KeysFixed
  <2>3. h' \in [Requests -> HandlerPlaces]
    BY <2>1 DEF HandlerPlaces
  <2>4. /\ got' \in [Requests -> Statuses \cup {None}] /\ lock' \in [Keys -> Requests \cup {None}]
        /\ doomed' \in [Requests -> SUBSET KeyRows] /\ storing' \in [Requests -> Int]
    BY <2>1
  <2> QED BY Zenon, <2>1, <2>2, <2>3, <2>4, OrderedFacts DEF FundTypeOK
<1>2. \A r \in Requests : InOrder(r)'
  BY CrashEffect, OrderedFacts DEF InOrder
<1> QED BY Zenon, <1>1, <1>2 DEF Ordered

\* Every step keeps the first part.
LEMMA OrderKept == Ordered /\ [Next]_vars => Ordered'
<1> SUFFICES ASSUME Ordered, [Next]_vars PROVE Ordered'
  OBVIOUS
<1> USE OrderedFacts
<1>1. ASSUME NEW r \in Requests, Arrive(r) PROVE Ordered'
  <2>1. UNCHANGED <<now, keyVars, h, mappings>> /\ sent' = sent /\ got' = got
    BY Zenon, <1>1 DEF Arrive, EnterGate
  <2>2. kyc' \in [Requests -> KycPlaces] /\ \A s \in Requests : kyc'[s] = "idle" => kyc[s] = "idle"
    BY Zenon, <1>1 DEF Arrive, EnterGate, Decided, KycPlaces
  <2> QED BY Zenon, <2>1, <2>2, OrderFrame
<1>2. CASE KycNext /\ UNCHANGED <<keyVars, fundVars>>
  <2>1. UNCHANGED <<now, keyVars, h, mappings>> /\ sent' = sent
    BY Zenon, <1>2, KycEffect DEF fundVars
  <2> QED BY Zenon, <1>2, <2>1, KycEffect, OrderFrame
<1>3. ASSUME NEW r \in Requests, HandlerStep(r) PROVE Ordered'
  <2>1. FundTypeOK'
    <3>1. h' \in [Requests -> HandlerPlaces] /\ sent' \subseteq Requests
      <4>1. /\ h'[r] \in HandlerPlaces /\ h' = [h EXCEPT ![r] = h'[r]]
            /\ sent' \in {sent, sent \cup {r}}
        BY Zenon, <1>3, HandlerEffect
      <4>2. h \in [Requests -> HandlerPlaces] /\ sent \subseteq Requests
        BY Zenon
      <4> HIDE OrderedFacts
      <4> QED BY Zenon, <4>1, <4>2
    <3>2. /\ storing' \in [Requests -> Int] /\ answer' \in [Requests -> Int]
          /\ UNCHANGED <<now, kyc, got, mappings, send, rows, lock, at, began, doomed, ran>>
      BY Zenon, <1>3, HandlerEffect
    <3> QED BY Zenon, <3>1, <3>2, KeysFixed DEF FundTypeOK
  <2>2. \A s \in Requests : (h'[s] = "idle" <=> h[s] = "idle")
    BY ZenonT(60), <1>3, HandlerEffect
  <2>3. \A s \in Requests : InOrder(s)'
    <3>1. UNCHANGED <<now, kyc, send, lock, at, began, ran>>
      BY Zenon, <1>3, HandlerEffect
    <3> QED BY Zenon, <2>2, <3>1 DEF InOrder
  <2> QED BY Zenon, <2>1, <2>3 DEF Ordered
<1>4. ASSUME NEW i \in Invoices, ChangeHold(i) PROVE Ordered'
  <2>1. UNCHANGED <<now, keyVars, h, mappings, kyc, got>> /\ sent' = sent
    BY Zenon, <1>4 DEF ChangeHold, kycVars
  <2> QED BY Zenon, <2>1, OrderFrame
<1>5. CASE Tick
  <2>1. /\ now' = now + 1 /\ \A r \in Requests : at[r] \in {"idle", "done"}
        /\ UNCHANGED <<send, rows, lock, at, began, doomed, storing, answer, ran, kyc, got, h, sent, mappings>>
    BY Zenon, <1>5 DEF Tick, kycVars, keyVars, fundVars
  <2>2. FundTypeOK'
    <3>1. now' \in Nat
      BY <2>1
    <3> QED BY Zenon, <2>1, <3>1, KeysFixed DEF FundTypeOK
  <2>3. \A r \in Requests : InOrder(r)'
    BY Zenon, <2>1 DEF InOrder
  <2> QED BY Zenon, <2>2, <2>3 DEF Ordered
<1>6. CASE UNCHANGED vars
  <2>1. UNCHANGED <<now, keyVars, h, mappings, kyc, got>> /\ sent' = sent
    BY Zenon, <1>6 DEF vars, kycVars, fundVars
  <2> QED BY Zenon, <2>1, OrderFrame
<1>7. ASSUME NEW r \in Requests, KycStep(r), UNCHANGED <<keyVars, fundVars>> PROVE Ordered'
  BY Zenon, <1>2, <1>7 DEF KycNext
<1>8. CASE PurgeBatch /\ UNCHANGED <<kycVars, fundVars>>
  <2>1. CASE \E r \in Requests : TRUE
    BY Zenon, <1>8, <2>1, OrderKeys
  <2>2. CASE Requests = {}
    <3>1. UNCHANGED <<now, send, lock, at, began, doomed, storing, answer, ran, h, mappings, kyc, got, sent>>
          /\ rows' \subseteq rows
      BY Zenon, <1>8 DEF PurgeBatch, kycVars, fundVars
    <3>2. FundTypeOK'
      BY Zenon, <3>1, KeysFixed DEF FundTypeOK
    <3> QED BY Zenon, <2>2, <3>2 DEF Ordered
  <2> QED BY Zenon, <2>1, <2>2
<1> QED BY Zenon, <1>1, <1>2, <1>3, <1>4, <1>5, <1>6, <1>7, <1>8, OrderKeys, OrderBegin, OrderCrash
        DEF Next, Step

-----------------------------------------------------------------------------
(* Who cleared the request.                                                *)

\* What normalizeProviderStatus() makes of a status of its own.
LEMMA Normalized ==
  /\ \A raw : NormalizeProviderStatus(raw) \in Statuses
  /\ \A status \in Statuses \cup {None} :
       CanFund(NormalizeProviderStatus(status)) => CanFund(status)
BY Zenon DEF NormalizeProviderStatus, Statuses, CanFund, None, Pending, Verified, Rejected, Exempted

\* What the second part says, request by request.
LEMMA ClearedFacts ==
  ASSUME ClearedInv
  PROVE  /\ cleared \in BOOLEAN
         /\ CanFund(record) => cleared
         /\ CanFund(mock) => cleared
         /\ CanFund(cache.status) => cleared
         /\ \A raw \in webhooks : CanFund(NormalizeProviderStatus(raw)) => cleared
         /\ (enabled /\ CanFund(NormalizeProviderStatus(provider))) => cleared
         /\ \A r \in Requests : CanFund(got[r]) => cleared
         /\ \A r \in Requests : kyc[r] \in {"provider", "save"} => enabled
         /\ \A r \in Requests : kyc[r] = "passed" => cleared
BY Zenon DEF ClearedInv

\* A request is cleared when the status it is decided on is.
LEMMA KycCleared ==
  ASSUME Ordered, ClearedInv,
         NEW r \in Requests, KycStep(r) \/ ProviderFails(r)
  PROVE  /\ UNCHANGED <<enabled, provider, webhooks, mock, cleared>>
         /\ (CanFund(record') \/ CanFund(cache'.status)) => cleared
         /\ \A s \in Requests :
              /\ CanFund(got'[s]) => cleared
              /\ kyc'[s] \in {"provider", "save"} => enabled
              /\ kyc'[s] = "passed" => cleared
<1>1. got \in [Requests -> Statuses \cup {None}] /\ kyc \in [Requests -> KycPlaces]
  BY Zenon, OrderedFacts
<1>2. ~CanFund(None) /\ ~CanFund("pending")
  BY DEF CanFund, None
<1>3. CASE ProviderAnswers(r)
  BY Zenon, <1>1, <1>3, ClearedFacts DEF ProviderAnswers
<1>4. CASE SaveAnswer(r)
  <2>1. CanFund(record') => cleared
    <3>1. record' = NormalizeProviderStatus(got[r]) /\ got[r] \in Statuses \cup {None}
      BY Zenon, <1>1, <1>4 DEF SaveAnswer, Persist
    <3> QED BY Zenon, <3>1, Normalized, ClearedFacts
  <2>2. cache' = cache \/ cache'.status = record'
    BY Zenon, <1>4 DEF SaveAnswer
  <2> QED BY Zenon, <1>1, <1>2, <1>4, <2>1, <2>2, ClearedFacts DEF SaveAnswer, Decided
<1>5. CASE ReadRecord(r)
  <2>1. CanFund(PersistedStatus) => cleared
    BY Zenon, <1>2, ClearedFacts DEF PersistedStatus
  <2> QED BY Zenon, <1>1, <1>5, <2>1, ClearedFacts DEF ReadRecord, Decided
<1>6. CASE ProviderFails(r)
  BY Zenon, <1>1, <1>2, <1>6, ClearedFacts DEF ProviderFails
<1> QED BY Zenon, <1>3, <1>4, <1>5, <1>6 DEF KycStep

\* A decision, its webhook and a decision by hand.
LEMMA DecisionsCleared ==
  ASSUME ClearedInv,
         \/ \E raw \in RawStatuses : ProviderDecides(raw) \/ Webhook(raw)
         \/ VerifySmeSafe \/ RejectSmeKyc \/ ExemptSmeFromKyc
  PROVE  /\ UNCHANGED <<enabled, kyc, got>> /\ cleared' \in BOOLEAN /\ (cleared => cleared')
         /\ (CanFund(record') \/ CanFund(mock') \/ CanFund(cache'.status)) => cleared'
         /\ \A raw \in webhooks' : CanFund(NormalizeProviderStatus(raw)) => cleared'
         /\ (enabled' /\ CanFund(NormalizeProviderStatus(provider'))) => cleared'
<1>1. ASSUME NEW raw, ProviderDecides(raw)
      PROVE  /\ UNCHANGED <<enabled, kyc, got>> /\ cleared' \in BOOLEAN /\ (cleared => cleared')
             /\ (CanFund(record') \/ CanFund(mock') \/ CanFund(cache'.status)) => cleared'
             /\ \A w \in webhooks' : CanFund(NormalizeProviderStatus(w)) => cleared'
             /\ (enabled' /\ CanFund(NormalizeProviderStatus(provider'))) => cleared'
  <2>1. /\ UNCHANGED <<enabled, kyc, got, record, mock, cache>>
        /\ provider' = raw /\ webhooks' = webhooks \cup {raw}
        /\ cleared' = (cleared \/ CanFund(NormalizeProviderStatus(raw)))
    BY Zenon, <1>1 DEF ProviderDecides
  <2>2. cleared' \in BOOLEAN /\ (cleared => cleared') /\ (CanFund(NormalizeProviderStatus(raw)) => cleared')
    BY Zenon, <2>1
  <2> QED BY Zenon, <2>1, <2>2, ClearedFacts
<1>2. ASSUME NEW raw, Webhook(raw)
      PROVE  /\ UNCHANGED <<enabled, kyc, got>> /\ cleared' \in BOOLEAN /\ (cleared => cleared')
             /\ (CanFund(record') \/ CanFund(mock') \/ CanFund(cache'.status)) => cleared'
             /\ \A w \in webhooks' : CanFund(NormalizeProviderStatus(w)) => cleared'
             /\ (enabled' /\ CanFund(NormalizeProviderStatus(provider'))) => cleared'
  <2>1. /\ UNCHANGED <<enabled, provider, mock, cache, kyc, got, cleared>> /\ raw \in webhooks
        /\ webhooks' \subseteq webhooks /\ record' \in {record, NormalizeProviderStatus(raw)}
    BY Zenon, <1>2 DEF Webhook, Persist
  <2> QED BY Zenon, <2>1, ClearedFacts
<1>3. ASSUME NEW status \in {"verified", "rejected", "exempted"}, Manual(status)
      PROVE  /\ UNCHANGED <<enabled, kyc, got>> /\ cleared' \in BOOLEAN /\ (cleared => cleared')
             /\ (CanFund(record') \/ CanFund(mock') \/ CanFund(cache'.status)) => cleared'
             /\ \A w \in webhooks' : CanFund(NormalizeProviderStatus(w)) => cleared'
             /\ (enabled' /\ CanFund(NormalizeProviderStatus(provider'))) => cleared'
  <2>1. /\ UNCHANGED <<enabled, provider, webhooks, cache, kyc, got>> /\ mock' = status
        /\ record' \in {record, NormalizeProviderStatus(status)}
        /\ cleared' = (cleared \/ CanFund(status))
    BY Zenon, <1>3 DEF Manual, Persist
  <2>2. cleared' \in BOOLEAN /\ (cleared => cleared') /\ (CanFund(status) => cleared')
    BY Zenon, <2>1
  <2>3. CanFund(NormalizeProviderStatus(status)) => CanFund(status)
    <3>1. status \in Statuses
      BY Zenon DEF Statuses
    <3> QED BY Zenon, <3>1, Normalized
  <2> QED BY Zenon, <2>1, <2>2, <2>3, ClearedFacts
<1> QED BY Zenon, <1>1, <1>2, <1>3 DEF VerifySmeSafe, RejectSmeKyc, ExemptSmeFromKyc

\* The second part with the first.
Guarded == ClearedInv /\ FundsGuarded

\* Steps under which clearances stay and nobody passes the hold gate.
LEMMA GuardFrame ==
  ASSUME Ordered, Guarded, UNCHANGED <<send, held, h, sent, unheld>>, cleared' \in BOOLEAN,
         cleared => cleared',
         (CanFund(record') \/ CanFund(mock') \/ CanFund(cache'.status)) => cleared',
         \A raw \in webhooks' : CanFund(NormalizeProviderStatus(raw)) => cleared',
         (enabled' /\ CanFund(NormalizeProviderStatus(provider'))) => cleared',
         \A r \in Requests :
           /\ CanFund(got'[r]) => cleared'
           /\ kyc'[r] \in {"provider", "save"} => enabled'
           /\ kyc'[r] = "passed" => cleared'
           /\ kyc'[r] = "idle" <=> kyc[r] = "idle"
           /\ at'[r] \notin {"idle", "done"} => cleared'
  PROVE  Guarded'
<1>1. \A r \in Requests :
        /\ h'[r] # "idle" => cleared'
        /\ (kyc'[r] # "idle" /\ Invoice(r)' \notin held') => r \in unheld'
        /\ (h'[r] \in PastHold /\ HoldAdapter) => r \in unheld'
  BY Zenon DEF Guarded, ClearedInv, Invoice
<1>2. ClearedInv'
  BY Zenon, <1>1 DEF ClearedInv
<1>3. FundsGuarded'
  BY Zenon DEF Guarded, FundsGuarded
<1> QED BY Zenon, <1>2, <1>3 DEF Guarded

\* Every step keeps the second part.
LEMMA GuardKept == Ordered /\ Guarded /\ [Next]_vars => Guarded'
<1> SUFFICES ASSUME Ordered, Guarded, [Next]_vars PROVE Guarded'
  OBVIOUS
<1>0. ClearedInv
  BY Zenon DEF Guarded
<1>1. ASSUME NEW r \in Requests, Arrive(r) PROVE Guarded'
  <2>1. /\ UNCHANGED <<send, at, held, h, sent, enabled, provider, webhooks, record, mock, cache, got, cleared>>
        /\ kyc[r] = "idle" /\ unheld' = IF Invoice(r) \in held THEN unheld ELSE unheld \cup {r}
    BY Zenon, <1>1 DEF Arrive, EnterGate, keyVars
  <2>2. \E v \in {"provider", "record", "refused", "passed"} :
          /\ kyc' = [kyc EXCEPT ![r] = v] /\ (v = "passed" => cleared) /\ (v = "provider" => enabled)
    <3>1. CASE enabled /\ Decided(r, cache.status)
      BY Zenon, <3>1, <1>0, ClearedFacts DEF Decided
    <3> QED BY Zenon, <1>1, <3>1 DEF Arrive, EnterGate
  <2>3. \A s \in Requests : /\ kyc'[s] = kyc[s] \/ s = r
                            /\ kyc'[r] \in {"provider", "record", "refused", "passed"}
                            /\ kyc'[r] = "passed" => cleared
                            /\ kyc'[r] = "provider" => enabled
    BY Zenon, <2>2, OrderedFacts
  <2>4. \A s \in Requests :
          /\ CanFund(got'[s]) => cleared'
          /\ kyc'[s] \in {"provider", "save"} => enabled'
          /\ (kyc'[s] = "passed" \/ at'[s] \notin {"idle", "done"} \/ h'[s] # "idle") => cleared'
          /\ (h'[s] \in PastHold /\ HoldAdapter) => s \in unheld'
    BY Zenon, <1>0, <2>1, <2>3 DEF ClearedInv
  <2>5. \A s \in Requests : (kyc'[s] # "idle" /\ Invoice(s)' \notin held') => s \in unheld'
    BY Zenon, <1>0, <2>1, <2>3 DEF ClearedInv, Invoice
  <2>6. ClearedInv'
    BY Zenon, <1>0, <2>1, <2>4, <2>5 DEF ClearedInv
  <2>7. FundsGuarded'
    BY Zenon, <2>1 DEF Guarded, FundsGuarded
  <2> QED BY Zenon, <2>6, <2>7 DEF Guarded
<1>2. ASSUME NEW r \in Requests, KycStep(r) \/ ProviderFails(r), UNCHANGED <<keyVars, fundVars>>
      PROVE  Guarded'
  <2>1. UNCHANGED <<send, at, held, h, sent, unheld>>
    BY Zenon, <1>2 DEF keyVars, fundVars
  <2>2. \A s \in Requests : kyc'[s] = "idle" <=> kyc[s] = "idle"
    BY Zenon, <1>2, KycEffect DEF KycNext
  <2>3. \A s \in Requests : at[s] \notin {"idle", "done"} => cleared
    BY Zenon, <1>0 DEF ClearedInv
  <2>4. /\ UNCHANGED <<enabled, provider, webhooks, mock, cleared>>
        /\ (CanFund(record') \/ CanFund(cache'.status)) => cleared
        /\ \A s \in Requests :
             /\ CanFund(got'[s]) => cleared
             /\ kyc'[s] \in {"provider", "save"} => enabled
             /\ kyc'[s] = "passed" => cleared
    BY Zenon, <1>0, <1>2, KycCleared
  <2> QED BY Zenon, <1>0, <2>1, <2>2, <2>3, <2>4, ClearedFacts, GuardFrame
<1>3. CASE /\ \/ \E raw \in RawStatuses : ProviderDecides(raw) \/ Webhook(raw)
              \/ VerifySmeSafe \/ RejectSmeKyc \/ ExemptSmeFromKyc
           /\ UNCHANGED <<keyVars, fundVars>>
  <2>1. UNCHANGED <<send, at, held, h, sent, unheld>>
    BY Zenon, <1>3 DEF keyVars, fundVars
  <2>2. /\ UNCHANGED <<enabled, kyc, got>> /\ cleared' \in BOOLEAN /\ (cleared => cleared')
        /\ (CanFund(record') \/ CanFund(mock') \/ CanFund(cache'.status)) => cleared'
        /\ \A raw \in webhooks' : CanFund(NormalizeProviderStatus(raw)) => cleared'
        /\ (enabled' /\ CanFund(NormalizeProviderStatus(provider'))) => cleared'
    BY Zenon, <1>0, <1>3, DecisionsCleared
  <2>3. \A s \in Requests : /\ at[s] \notin {"idle", "done"} => cleared
                            /\ CanFund(got[s]) => cleared
                            /\ kyc[s] \in {"provider", "save"} => enabled
                            /\ kyc[s] = "passed" => cleared
    BY Zenon, <1>0 DEF ClearedInv
  <2> QED BY Zenon, <2>1, <2>2, <2>3, GuardFrame
<1>4. ASSUME UNCHANGED <<send, held, h, sent, unheld>>,
             UNCHANGED <<enabled, provider, webhooks, record, mock, cache, kyc, got, cleared>>,
             \A s \in Requests : at'[s] \notin {"idle", "done"} => cleared
      PROVE  Guarded'
  BY Zenon, <1>0, <1>4, ClearedFacts, GuardFrame
<1>5. ASSUME NEW r \in Requests,
             \/ KeyStep(r) /\ UNCHANGED <<kycVars, fundVars>>
             \/ CommitFails(r) /\ UNCHANGED <<kycVars, fundVars>>
      PROVE  Guarded'
  <2>1. /\ UNCHANGED <<send, held, h, sent, unheld>>
        /\ UNCHANGED <<enabled, provider, webhooks, record, mock, cache, kyc, got, cleared>>
    BY Zenon, <1>5, KeyEffect
  <2>2. \A s \in Requests : at'[s] \in {at[s], "done"} \/ cleared
    <3>1. at \in [Requests -> KeyPlaces]
      BY Zenon, OrderedFacts
    <3>2. CASE Refuse(r)
      BY <3>1, <3>2 DEF Refuse, Reply
    <3>3. CASE SelectKey(r)
      BY Zenon, <1>0, <3>3, ClearedFacts DEF SelectKey
    <3>4. CASE DeleteStale(r)
      BY Zenon, <1>0, <3>4 DEF DeleteStale, ClearedInv
    <3>5. CASE TransactionFails(r)
      BY Zenon, <3>1, <3>5 DEF TransactionFails, Reply
    <3>6. CASE Commit(r) \/ CommitFails(r) \/ Store(r)
      BY Zenon, <3>1, <3>6 DEF Commit, CommitFails, Store
    <3> QED BY Zenon, <1>5, <3>2, <3>3, <3>4, <3>5, <3>6 DEF KeyStep
  <2>3. \A s \in Requests : at'[s] \notin {"idle", "done"} => cleared
    BY Zenon, <1>0, <2>2 DEF ClearedInv
  <2> QED BY Zenon, <1>4, <2>1, <2>3
<1>6. ASSUME NEW r \in Requests, Begin(r) PROVE Guarded'
  <2>1. /\ UNCHANGED <<send, held, sent, unheld, enabled, provider, webhooks, record, mock, cache, kyc, got, cleared>>
        /\ h' = [h EXCEPT ![r] = "begin"] /\ at[r] = "insert" /\ at' = [at EXCEPT ![r] = "commit"]
    BY Zenon, <1>6 DEF Begin, InsertPlaceholder, kycVars
  <2>2. \A s \in Requests : /\ (at'[s] \notin {"idle", "done"} \/ h'[s] # "idle") => cleared
                            /\ h'[s] \in PastHold => h[s] \in PastHold
    BY Zenon, <1>0, <2>1, OrderedFacts DEF ClearedInv, PastHold
  <2>3. ClearedInv'
    BY Zenon, <1>0, <2>1, <2>2 DEF ClearedInv, Invoice
  <2>4. FundsGuarded'
    BY Zenon, <2>1 DEF Guarded, FundsGuarded
  <2> QED BY Zenon, <2>3, <2>4 DEF Guarded
<1>7. ASSUME NEW r \in Requests, HandlerStep(r) PROVE Guarded'
  <2>1. /\ UNCHANGED <<send, held, unheld, enabled, provider, webhooks, record, mock, cache, kyc, got, cleared, at>>
        /\ h' = [h EXCEPT ![r] = h'[r]] /\ h[r] \notin {"idle", "ended"} /\ sent' \in {sent, sent \cup {r}}
    BY Zenon, <1>7, HandlerEffect
  <2>2. cleared /\ kyc[r] # "idle"
    BY Zenon, <1>0, <2>1, OrderedFacts DEF ClearedInv
  <2>3. (h'[r] \in PastHold /\ HoldAdapter) => r \in unheld
    <3>0. h \in [Requests -> HandlerPlaces]
      BY Zenon, OrderedFacts
    <3>1. CASE h[r] \in PastHold
      BY Zenon, <1>0, <3>1 DEF ClearedInv
    <3>2. CASE Validate(r)
      <4>1. h' = [h EXCEPT ![r] = "ended"] \/ h' = [h EXCEPT ![r] = "hold"]
        BY Zenon, <3>2 DEF Validate, Respond, Continue
      <4>2. h'[r] \in {"ended", "hold"}
        BY Zenon, <3>0, <4>1
      <4> QED BY <4>2 DEF PastHold
    <3>3. CASE CheckHold(r)
      <4>1. (Respond(r, 423) \/ Respond(r, 503)) => h'[r] = "ended"
        BY <3>0 DEF Respond
      <4>2. CASE "not_held" \in HoldStatuses(r)
        <5>1. HoldAdapter => Invoice(r) \notin held
          BY <4>2 DEF HoldStatuses
        <5> QED BY Zenon, <1>0, <2>2, <5>1 DEF ClearedInv
      <4>3. CASE ~("not_held" \in HoldStatuses(r))
        <5>1. h'[r] = "ended"
          BY <3>3, <4>1, <4>3 DEF CheckHold
        <5> QED BY Zenon, <5>1 DEF PastHold
      <4> QED BY Zenon, <4>2, <4>3
    <3> QED BY Zenon, <1>7, <3>1, <3>2, <3>3
            DEF HandlerStep, Preflight, Prepare, SignAndSubmit, FindCommitment, InsertCommitment, PastHold
  <2>4. \A s \in Requests : (h'[s] \in PastHold /\ HoldAdapter) => s \in unheld
    BY ZenonT(60), <1>0, <2>1, <2>3, OrderedFacts DEF ClearedInv
  <2>5. ClearedInv'
    BY Zenon, <1>0, <2>1, <2>2, <2>4 DEF ClearedInv, Invoice
  <2>6. FundsGuarded'
    <3>1. CASE sent' = sent
      BY Zenon, <2>1, <3>1 DEF Guarded, FundsGuarded
    <3>2. CASE sent' # sent
      <4>1. h[r] = "send"
        BY Zenon, <1>7, <3>2 DEF HandlerStep, Validate, CheckHold, Preflight, Prepare, SignAndSubmit,
                          FindCommitment, InsertCommitment
      <4>2. HoldAdapter => r \in unheld
        BY Zenon, <1>0, <4>1 DEF ClearedInv, PastHold
      <4> QED BY Zenon, <2>1, <2>2, <4>2 DEF Guarded, FundsGuarded
    <3> QED BY Zenon, <3>1, <3>2
  <2> QED BY Zenon, <2>5, <2>6 DEF Guarded
<1>8. ASSUME NEW i \in Invoices, ChangeHold(i) PROVE Guarded'
  <2>1. /\ UNCHANGED <<send, at, h, sent, enabled, provider, webhooks, record, mock, cache, kyc, got, cleared>>
        /\ held' = IF i \in held THEN held \ {i} ELSE held \cup {i}
        /\ unheld' = IF i \in held
                     THEN unheld \cup {r \in Requests : kyc[r] # "idle" /\ Invoice(r) = i} ELSE unheld
    BY Zenon, <1>8 DEF ChangeHold, kycVars, keyVars
  <2>2. unheld \subseteq unheld'
    BY Zenon, <2>1
  <2>3. \A r \in Requests : (kyc'[r] # "idle" /\ Invoice(r)' \notin held') => r \in unheld'
    BY Zenon, <1>0, <2>1 DEF ClearedInv, Invoice
  <2>4. ClearedInv'
    BY Zenon, <1>0, <2>1, <2>2, <2>3 DEF ClearedInv
  <2>5. FundsGuarded'
    BY Zenon, <2>1, <2>2 DEF Guarded, FundsGuarded
  <2> QED BY Zenon, <2>4, <2>5 DEF Guarded
<1>9. CASE Crash
  <2>1. /\ UNCHANGED <<send, held, sent, unheld, enabled, provider, webhooks, record, cleared>>
        /\ mock' = None /\ cache' = NoEntry /\ got' = [r \in Requests |-> None]
        /\ h' = [r \in Requests |-> IF h[r] = "idle" THEN "idle" ELSE "ended"]
        /\ \A r \in Requests : /\ kyc'[r] \in {kyc[r], "dead"} /\ (kyc'[r] = "idle" <=> kyc[r] = "idle")
                               /\ at'[r] \in {at[r], "done"}
    BY Zenon, <1>9, CrashEffect
  <2>2. ~CanFund(mock') /\ ~CanFund(cache'.status) /\ \A r \in Requests : ~CanFund(got'[r])
    BY Zenon, <2>1 DEF CanFund, None, NoEntry
  <2>3. \A r \in Requests :
          /\ kyc'[r] \in {"provider", "save"} => enabled'
          /\ (kyc'[r] = "passed" \/ at'[r] \notin {"idle", "done"} \/ h'[r] # "idle") => cleared'
          /\ (kyc'[r] # "idle" /\ Invoice(r)' \notin held') => r \in unheld'
          /\ h'[r] \notin PastHold
    BY Zenon, <1>0, <2>1 DEF ClearedInv, Invoice, PastHold
  <2>4. ClearedInv'
    BY Zenon, <1>0, <2>1, <2>2, <2>3 DEF ClearedInv
  <2>5. FundsGuarded'
    BY Zenon, <2>1 DEF Guarded, FundsGuarded
  <2> QED BY <2>4, <2>5 DEF Guarded
<1>10. CASE Tick \/ UNCHANGED vars \/ (PurgeBatch /\ UNCHANGED <<kycVars, fundVars>>)
  <2>1. /\ UNCHANGED <<send, held, h, sent, unheld, at>>
        /\ UNCHANGED <<enabled, provider, webhooks, record, mock, cache, kyc, got, cleared>>
    BY Zenon, <1>10 DEF Tick, PurgeBatch, vars, kycVars, keyVars, fundVars
  <2> QED BY Zenon, <1>0, <1>4, <2>1 DEF ClearedInv
<1> QED BY Zenon, <1>1, <1>2, <1>3, <1>5, <1>6, <1>7, <1>8, <1>9, <1>10 DEF Next, Step, KycNext

-----------------------------------------------------------------------------
(* What became of a placeholder.                                           *)

\* The third part.
Spaced == KeyInv /\ SpacedRuns

\* A row has one birth per owner; what is stale is older than the orphan time-out.
LEMMA RowFacts ==
  ASSUME Ordered
  PROVE  /\ \A x \in KeyRows : x.born \in Nat /\ (Stale(x) => now - x.born > Orphan)
         /\ \A x, y : (Owned(x) /\ Owned(y) /\ x.by = y.by) => x.born = y.born
         /\ \A x, r : (Owned(x) /\ x.by = r /\ r \in Requests) => x.born = began[r]
         /\ Orphan \in Nat
<1>1. now \in Nat /\ ran \subseteq Requests /\ Earlier \notin Requests
  BY Zenon, OrderedFacts
<1>2. Orphan \in Nat /\ Ttl \in Int /\ Orphan < Ttl
  BY KeyAssumption DEF Ttl
<1>3. \A x \in KeyRows : x.born \in Nat
  BY DEF KeyRows
<1>4. \A x \in KeyRows : Stale(x) => now - x.born > Orphan
  BY <1>1, <1>2, <1>3 DEF Stale, Expired, Orphaned
<1> QED BY Zenon, <1>1, <1>2, <1>3, <1>4 DEF Owned

\* A step that leaves the middleware's state alone.
LEMMA KeyFrame ==
  ASSUME Spaced, UNCHANGED <<now, rows, at, began, doomed, displaced, ran, send>>
  PROVE  Spaced'
BY Zenon DEF Spaced, KeyInv, SpacedRuns, Owned

\* SpacedRuns needs a look only when somebody starts to run.
LEMMA SpacedFrame ==
  ASSUME SpacedRuns, UNCHANGED <<ran, send>>, displaced \subseteq displaced',
         \A r \in ran : began'[r] = began[r]
  PROVE  SpacedRuns'
<1> SUFFICES ASSUME NEW r \in ran, NEW s \in ran, r # s, send[r].key = send[s].key,
                    {r, s} \cap displaced' = {}
             PROVE  began'[r] - began'[s] \notin -Orphan..Orphan
  BY Zenon DEF SpacedRuns
<1>1. {r, s} \cap displaced = {}
  OBVIOUS
<1>2. began[r] - began[s] \notin -Orphan..Orphan
  BY <1>1 DEF SpacedRuns
<1> QED BY Zenon, <1>2

\* The transaction reads, then deletes.
LEMMA SelectDelete ==
  ASSUME Ordered, Spaced, NEW r \in Requests, SelectKey(r) \/ DeleteStale(r)
  PROVE  Spaced'
<1>1. /\ now \in Nat /\ at \in [Requests -> KeyPlaces] /\ began \in [Requests -> Nat]
      /\ rows \subseteq KeyRows /\ doomed \in [Requests -> SUBSET KeyRows]
      /\ \A s \in Requests : s \in ran => at[s] \in {"commit", "done"}
  BY Zenon, OrderedFacts
<1>2. CASE SelectKey(r)
  <2> DEFINE found == RowsOf(send[r].key)
             old == found \ {x \in found : ~Stale(x)}
  <2>1. /\ at[r] = "idle" /\ began' = [began EXCEPT ![r] = now]
        /\ doomed' = [doomed EXCEPT ![r] = old]
        /\ UNCHANGED <<now, send, rows, ran, displaced>>
    BY Zenon, <1>2 DEF SelectKey
  <2>2. at'[r] \in {"insert", "delete", "done"} /\ (\A s \in Requests \ {r} : at'[s] = at[s])
        /\ (at'[r] = "insert" => old = {})
    BY Zenon, <1>1, <1>2 DEF SelectKey, Reply
  <2>3. \A x \in old : x \in rows /\ x \in KeyRows /\ Stale(x)
    BY Zenon, <1>1 DEF RowsOf
  <2> HIDE DEF old, found
  <2>4. r \notin ran /\ \A s \in ran : began'[s] = began[s] /\ at'[s] = at[s] /\ s # r /\ s \in Requests
    <3>1. ran \subseteq Requests
      BY Zenon, OrderedFacts
    <3> QED BY Zenon, <1>1, <2>1, <2>2, <3>1
  <2>5. \A x : Owned(x) => Owned(x)'
    BY Zenon, <2>1, <2>4 DEF Owned
  <2>6. \A x \in old : Owned(x)' /\ now - x.born > Orphan
    BY Zenon, <2>3, <2>5, RowFacts DEF Spaced, KeyInv
  <2>7. \A s \in Requests :
          /\ \A x \in doomed'[s] : Owned(x)'
          /\ at'[s] \in {"delete", "wait"} => \A x \in doomed'[s] : now' - x.born > Orphan
          /\ at'[s] \in {"insert", "commit"} =>
               \A x \in doomed'[s] : x.by \in displaced' \/ now' - x.born > Orphan
    <3> SUFFICES ASSUME NEW s \in Requests
                 PROVE  /\ \A x \in doomed'[s] : Owned(x)'
                        /\ at'[s] \in {"delete", "wait"} => \A x \in doomed'[s] : now' - x.born > Orphan
                        /\ at'[s] \in {"insert", "commit"} =>
                             \A x \in doomed'[s] : x.by \in displaced' \/ now' - x.born > Orphan
      BY Zenon
    <3>1. CASE s = r
      BY Zenon, <1>1, <2>1, <2>6, <3>1
    <3>2. CASE s # r
      <4>1. doomed'[s] = doomed[s] /\ at'[s] = at[s]
        BY Zenon, <1>1, <2>1, <2>2, <3>2
      <4> QED BY Zenon, <2>1, <2>5, <4>1 DEF Spaced, KeyInv
    <3> QED BY Zenon, <3>1, <3>2
  <2>8. KeyInv'
    <3>1. \A x \in rows' : Owned(x)'
      BY Zenon, <2>1, <2>5 DEF Spaced, KeyInv
    <3>2. \A s \in ran' \ displaced' :
            \/ at'[s] = "commit"
            \/ \E x \in rows' : x.by = s /\ x.key = send'[s].key
            \/ now' - began'[s] > Orphan
      BY Zenon, <2>1, <2>4 DEF Spaced, KeyInv
    <3> QED BY Zenon, <2>7, <3>1, <3>2 DEF KeyInv
  <2>9. SpacedRuns'
    BY Zenon, <2>1, <2>4, SpacedFrame DEF Spaced
  <2> QED BY <2>8, <2>9 DEF Spaced
<1>3. CASE DeleteStale(r)
  <2>1. /\ at[r] \in {"delete", "wait"} /\ UNCHANGED <<now, send, rows, began, ran>>
        /\ displaced \subseteq displaced'
    BY Zenon, <1>3 DEF DeleteStale
  <2>2. \A x : Owned(x) => Owned(x)'
    BY Zenon, <2>1 DEF Owned
  <2>3. at'[r] \in {"wait", "insert"} /\ \A s \in Requests \ {r} : at'[s] = at[s] /\ doomed'[s] = doomed[s]
    BY Zenon, <1>1, <1>3 DEF DeleteStale
  <2>4. /\ \A x \in doomed[r] : x \in KeyRows /\ Owned(x) /\ now - x.born > Orphan
        /\ \A x \in rows : x \in KeyRows /\ Owned(x)
    BY Zenon, <1>1, <2>1 DEF Spaced, KeyInv
  <2>5. \A x \in doomed'[r] : Owned(x)' /\ (x.by \in displaced' \/ now - x.born > Orphan)
    <3>1. CASE doomed' = doomed
      BY Zenon, <2>2, <2>4, <3>1
    <3>2. CASE doomed'[r] = doomed[r] \cap rows
      BY Zenon, <2>2, <2>4, <3>2
    <3>3. CASE /\ doomed'[r] = RowsOf(send[r].key)
               /\ displaced' = displaced \cup ({x.by : x \in doomed'[r]} \ {x.by : x \in doomed[r]})
      <4> SUFFICES ASSUME NEW x \in doomed'[r], x.by \notin displaced'
                   PROVE  now - x.born > Orphan
        BY Zenon, <2>2, <2>4, <3>3 DEF RowsOf
      <4>1. PICK y \in doomed[r] : y.by = x.by
        BY Zenon, <3>3
      <4>2. x \in rows
        BY <3>3 DEF RowsOf
      <4>3. x.born = y.born
        BY Zenon, <2>4, <4>1, <4>2, RowFacts
      <4> QED BY Zenon, <2>4, <4>1, <4>3
    <3> QED BY Zenon, <1>1, <1>3, <3>1, <3>2, <3>3 DEF DeleteStale
  <2>6. at'[r] = "wait" => doomed'[r] = doomed[r]
    BY Zenon, <1>1, <1>3 DEF DeleteStale
  <2>7. \A s \in Requests :
          /\ \A x \in doomed'[s] : Owned(x)'
          /\ at'[s] \in {"delete", "wait"} => \A x \in doomed'[s] : now' - x.born > Orphan
          /\ at'[s] \in {"insert", "commit"} =>
               \A x \in doomed'[s] : x.by \in displaced' \/ now' - x.born > Orphan
    <3> SUFFICES ASSUME NEW s \in Requests
                 PROVE  /\ \A x \in doomed'[s] : Owned(x)'
                        /\ at'[s] \in {"delete", "wait"} => \A x \in doomed'[s] : now' - x.born > Orphan
                        /\ at'[s] \in {"insert", "commit"} =>
                             \A x \in doomed'[s] : x.by \in displaced' \/ now' - x.born > Orphan
      OBVIOUS
    <3>1. CASE s = r
      BY Zenon, <2>1, <2>3, <2>4, <2>5, <2>6, <3>1
    <3>2. CASE s # r
      <4>1. doomed'[s] = doomed[s] /\ at'[s] = at[s]
        BY Zenon, <2>3, <3>2
      <4> QED BY Zenon, <2>1, <2>2, <4>1 DEF Spaced, KeyInv
    <3> QED BY Zenon, <3>1, <3>2
  <2>8. \A s \in ran : at[s] = "commit" => at'[s] = "commit"
    <3>1. ran \subseteq Requests
      BY Zenon, OrderedFacts
    <3> QED BY Zenon, <2>1, <2>3, <3>1
  <2>9. KeyInv'
    <3>1. \A x \in rows' : Owned(x)'
      BY Zenon, <2>1, <2>2 DEF Spaced, KeyInv
    <3>2. \A s \in ran' \ displaced' :
            \/ at'[s] = "commit"
            \/ \E x \in rows' : x.by = s /\ x.key = send'[s].key
            \/ now' - began'[s] > Orphan
      BY Zenon, <2>1, <2>8 DEF Spaced, KeyInv
    <3> QED BY Zenon, <2>7, <3>1, <3>2 DEF KeyInv
  <2>10. SpacedRuns'
    BY Zenon, <2>1, SpacedFrame DEF Spaced
  <2> QED BY Zenon, <2>9, <2>10 DEF Spaced
<1> QED BY Zenon, <1>2, <1>3

\* next() finds the earlier runs of its key old enough, or displaced.
LEMMA BeginSpaced ==
  ASSUME Ordered, Spaced, NEW r \in Requests, Begin(r)
  PROVE  Spaced'
<1>1. /\ at[r] = "insert" /\ lock[send[r].key] \in {None, r} /\ RowsOf(send[r].key) \subseteq doomed[r]
      /\ at' = [at EXCEPT ![r] = "commit"] /\ ran' = ran \cup {r}
      /\ UNCHANGED <<now, send, rows, began, doomed, displaced>>
  BY Zenon DEF Begin, InsertPlaceholder
<1>2. /\ now \in Nat /\ at \in [Requests -> KeyPlaces] /\ began \in [Requests -> Nat]
      /\ ran \subseteq Requests /\ None \notin Requests /\ began[r] = now /\ r \notin ran
  BY Zenon, <1>1, OrderedFacts
<1>3. \A s \in Requests : at[s] = "commit" => lock[send[s].key] = s
  BY Zenon, OrderedFacts
<1>4. \A x : Owned(x) => Owned(x)'
  BY Zenon, <1>1 DEF Owned
<1>5. ASSUME NEW s \in ran, send[s].key = send[r].key, s \notin displaced
      PROVE  now - began[s] > Orphan
  <2>1. at[s] # "commit"
    BY Zenon, <1>1, <1>2, <1>3, <1>5
  <2>2. ASSUME NEW x \in rows, x.by = s, x.key = send[s].key PROVE now - began[s] > Orphan
    <3>1. x \in doomed[r]
      BY Zenon, <1>1, <1>5, <2>2 DEF RowsOf
    <3>2. Owned(x) /\ (x.by \in displaced \/ now - x.born > Orphan)
      BY Zenon, <1>1, <3>1 DEF Spaced, KeyInv
    <3>3. x.born = began[s]
      BY Zenon, <1>2, <2>2, <3>2, RowFacts
    <3> QED BY Zenon, <1>5, <2>2, <3>2, <3>3
  <2> QED BY Zenon, <1>5, <2>1, <2>2 DEF Spaced, KeyInv
<1>6. SpacedRuns'
  <2> SUFFICES ASSUME NEW p \in ran', NEW q \in ran', p # q, send[p].key = send[q].key,
                      p \notin displaced, q \notin displaced
               PROVE  began[p] - began[q] \notin -Orphan..Orphan
    BY Zenon, <1>1 DEF SpacedRuns
  <2>1. CASE p \in ran /\ q \in ran
    BY Zenon, <2>1 DEF Spaced, SpacedRuns
  <2>2. CASE p = r
    <3>1. q \in ran /\ now - began[q] > Orphan
      BY Zenon, <1>1, <1>5, <2>2
    <3>2. began[q] \in Nat /\ Orphan \in Nat
      BY Zenon, <1>2, <3>1, RowFacts
    <3> QED BY <1>2, <2>2, <3>1, <3>2
  <2>3. CASE q = r
    <3>1. p \in ran /\ now - began[p] > Orphan
      BY Zenon, <1>1, <1>5, <2>3
    <3>2. began[p] \in Nat /\ Orphan \in Nat
      BY Zenon, <1>2, <3>1, RowFacts
    <3> QED BY <1>2, <2>3, <3>1, <3>2
  <2> QED BY Zenon, <1>1, <2>1, <2>2, <2>3
<1>7. KeyInv'
  <2>1. \A x \in rows' : Owned(x)'
    BY Zenon, <1>1, <1>4 DEF Spaced, KeyInv
  <2>2. \A s \in Requests :
          /\ \A x \in doomed'[s] : Owned(x)'
          /\ at'[s] \in {"delete", "wait"} => \A x \in doomed'[s] : now' - x.born > Orphan
          /\ at'[s] \in {"insert", "commit"} =>
               \A x \in doomed'[s] : x.by \in displaced' \/ now' - x.born > Orphan
    <3>1. \A s \in Requests : /\ at'[s] \in {"delete", "wait"} => at[s] \in {"delete", "wait"}
                              /\ at'[s] \in {"insert", "commit"} => at[s] \in {"insert", "commit"}
      BY Zenon, <1>1, <1>2
    <3> QED BY Zenon, <1>1, <1>4, <3>1 DEF Spaced, KeyInv
  <2>3. \A s \in ran' \ displaced' :
          \/ at'[s] = "commit"
          \/ \E x \in rows' : x.by = s /\ x.key = send'[s].key
          \/ now' - began'[s] > Orphan
    <3>1. at'[r] = "commit" /\ \A s \in ran : at'[s] = at[s]
      BY Zenon, <1>1, <1>2
    <3> QED BY Zenon, <1>1, <3>1 DEF Spaced, KeyInv
  <2> QED BY Zenon, <2>1, <2>2, <2>3 DEF KeyInv
<1> QED BY Zenon, <1>6, <1>7 DEF Spaced

\* The transaction ends, an UPDATE lands, the purge deletes a batch.
LEMMA EndSpaced ==
  ASSUME Ordered, Spaced, NEW r,
         \/ r \in Requests /\ (TransactionFails(r) \/ Commit(r) \/ CommitFails(r) \/ Store(r))
         \/ PurgeBatch
  PROVE  Spaced'
<1>1. /\ now \in Nat /\ at \in [Requests -> KeyPlaces] /\ began \in [Requests -> Nat]
      /\ rows \subseteq KeyRows /\ doomed \in [Requests -> SUBSET KeyRows]
      /\ ran \subseteq Requests /\ Earlier \notin Requests
      /\ \A s \in Requests : (s \in ran => at[s] \in {"commit", "done"}) /\ (at[s] = "commit" => s \in ran)
  BY Zenon, OrderedFacts
<1>2. /\ UNCHANGED <<now, send, began, ran>> /\ displaced \subseteq displaced'
  BY Zenon DEF TransactionFails, Commit, CommitFails, Store, PurgeBatch
<1>3. \A x : Owned(x) => Owned(x)'
  BY Zenon, <1>2 DEF Owned
<1>4. /\ \A s \in Requests : doomed'[s] \subseteq doomed[s] /\ at'[s] \in {at[s], "done"}
      /\ \A s \in Requests : at[s] = "commit" /\ at'[s] # "commit" => s = r /\ (Commit(r) \/ s \in displaced')
  <2>1. CASE r \in Requests /\ TransactionFails(r)
    <3>1. /\ at[r] # "commit" /\ doomed' = [doomed EXCEPT ![r] = {}] /\ at' = [at EXCEPT ![r] = "done"]
      BY Zenon, <2>1 DEF TransactionFails, Reply
    <3> QED BY Zenon, <1>1, <3>1
  <2>2. CASE r \in Requests /\ (Commit(r) \/ CommitFails(r))
    <3>1. /\ doomed' = [doomed EXCEPT ![r] = {}] /\ at' = [at EXCEPT ![r] = "done"]
          /\ (Commit(r) \/ r \in displaced')
      BY Zenon, <2>2 DEF Commit, CommitFails
    <3> QED BY Zenon, <1>1, <3>1
  <2>3. CASE Store(r) \/ PurgeBatch
    BY Zenon, <2>3 DEF Store, PurgeBatch
  <2> QED BY Zenon, <2>1, <2>2, <2>3
<1>5. \A x \in rows' : Owned(x)'
  <2>1. CASE rows' \subseteq rows
    BY Zenon, <1>3, <2>1 DEF Spaced, KeyInv
  <2>2. CASE r \in Requests /\ Commit(r)
    <3>1. rows' \subseteq rows \cup {Placeholder(r)} /\ r \in ran
      BY Zenon, <1>1, <2>2 DEF Commit
    <3>2. Owned(Placeholder(r))
      BY Zenon, <3>1 DEF Owned, Placeholder
    <3> QED BY Zenon, <1>3, <3>1, <3>2 DEF Spaced, KeyInv
  <2>3. CASE r \in Requests /\ Store(r)
    <3> SUFFICES ASSUME NEW x \in rows', x \notin rows PROVE Owned(x)
      BY Zenon, <1>3 DEF Spaced, KeyInv
    <3>1. PICK y \in rows : x = [y EXCEPT !.code = storing[r], !.from = r]
      BY ZenonT(60), <2>3 DEF Store, RowsOf
    <3>2. x.by = y.by /\ x.born = y.born
      <4>1. y \in KeyRows
        BY Zenon, <1>1
      <4> QED BY Zenon, <3>1, <4>1 DEF KeyRows
    <3> QED BY Zenon, <3>2 DEF Owned, Spaced, KeyInv
  <2> QED BY Zenon, <2>1, <2>2, <2>3 DEF TransactionFails, CommitFails, PurgeBatch
<1>6. ASSUME NEW s \in ran, s \notin displaced', NEW y \in rows, y.by = s, y.key = send[s].key
      PROVE  (\E x \in rows' : x.by = s /\ x.key = send[s].key) \/ now - began[s] > Orphan
  <2>1. y \in KeyRows /\ Owned(y) /\ y.born = began[s] /\ s \in Requests
    BY Zenon, <1>1, <1>6, RowFacts DEF Spaced, KeyInv
  <2>2. CASE y \in rows'
    BY Zenon, <1>6, <2>2
  <2>3. CASE r \in Requests /\ Commit(r) /\ y \notin rows'
    <3>1. y \in doomed[r] /\ at[r] = "commit"
      BY Zenon, <2>3 DEF Commit
    <3>2. y.by \in displaced \/ now - y.born > Orphan
      BY Zenon, <2>3, <3>1 DEF Spaced, KeyInv
    <3> QED BY Zenon, <1>2, <1>6, <2>1, <3>2
  <2>4. CASE r \in Requests /\ Store(r) /\ y \notin rows'
    <3> DEFINE z == [y EXCEPT !.code = storing[r], !.from = r]
    <3>1. z \in rows'
      BY Zenon, <2>4 DEF Store
    <3>2. z.by = y.by /\ z.key = y.key
      BY Zenon, <2>1 DEF KeyRows
    <3> QED BY Zenon, <1>6, <3>1, <3>2
  <2>5. CASE PurgeBatch /\ y \notin rows'
    <3>1. y.born + Ttl < now
      BY Zenon, <2>5 DEF PurgeBatch, ExpiredBatches
    <3>2. Orphan \in Nat /\ Ttl \in Int /\ Orphan < Ttl /\ y.born \in Nat
      BY <2>1, KeyAssumption DEF Ttl, KeyRows
    <3> QED BY <1>1, <2>1, <3>1, <3>2
  <2>6. CASE r \in Requests /\ (TransactionFails(r) \/ CommitFails(r))
    BY Zenon, <1>6, <2>6 DEF TransactionFails, CommitFails
  <2> QED BY Zenon, <2>2, <2>3, <2>4, <2>5, <2>6
<1>7. \A s \in ran' \ displaced' :
        \/ at'[s] = "commit"
        \/ \E x \in rows' : x.by = s /\ x.key = send'[s].key
        \/ now' - began'[s] > Orphan
  <2> SUFFICES ASSUME NEW s \in ran, s \notin displaced', at'[s] # "commit"
               PROVE  (\E x \in rows' : x.by = s /\ x.key = send[s].key) \/ now - began[s] > Orphan
    BY Zenon, <1>2
  <2>1. CASE at[s] = "commit"
    <3>1. s = r /\ Commit(r)
      BY Zenon, <1>1, <1>4, <2>1
    <3>2. Placeholder(s) \in rows'
      BY Zenon, <3>1 DEF Commit
    <3>3. Placeholder(s).by = s /\ Placeholder(s).key = send[s].key
      BY Zenon DEF Placeholder
    <3> QED BY Zenon, <3>2, <3>3
  <2>2. CASE at[s] # "commit"
    <3>1. (\E x \in rows : x.by = s /\ x.key = send[s].key) \/ now - began[s] > Orphan
      BY Zenon, <1>2, <2>2 DEF Spaced, KeyInv
    <3> QED BY Zenon, <1>6, <3>1
  <2> QED BY Zenon, <2>1, <2>2
<1>8. \A s \in Requests :
        /\ \A x \in doomed'[s] : Owned(x)'
        /\ at'[s] \in {"delete", "wait"} => \A x \in doomed'[s] : now' - x.born > Orphan
        /\ at'[s] \in {"insert", "commit"} =>
             \A x \in doomed'[s] : x.by \in displaced' \/ now' - x.born > Orphan
  <2> SUFFICES ASSUME NEW s \in Requests
               PROVE  /\ \A x \in doomed'[s] : Owned(x)'
                      /\ at'[s] \in {"delete", "wait"} => \A x \in doomed'[s] : now - x.born > Orphan
                      /\ at'[s] \in {"insert", "commit"} =>
                           \A x \in doomed'[s] : x.by \in displaced' \/ now - x.born > Orphan
    BY Zenon, <1>2
  <2>1. doomed'[s] \subseteq doomed[s] /\ at'[s] \in {at[s], "done"}
    BY Zenon, <1>4
  <2> QED BY Zenon, <1>2, <1>3, <2>1 DEF Spaced, KeyInv
<1>9. SpacedRuns'
  BY Zenon, <1>2, SpacedFrame DEF Spaced
<1>10. KeyInv'
  BY Zenon, <1>5, <1>7, <1>8 DEF KeyInv
<1> QED BY Zenon, <1>9, <1>10 DEF Spaced

\* Every step keeps the third part.
LEMMA SpacedKept == Ordered /\ Spaced /\ [Next]_vars => Spaced'
<1> SUFFICES ASSUME Ordered, Spaced, [Next]_vars PROVE Spaced'
  OBVIOUS
<1>1. ASSUME NEW r \in Requests, Arrive(r) PROVE Spaced'
  BY Zenon, <1>1, KeyFrame DEF Arrive, EnterGate, keyVars
<1>2. CASE KycNext /\ UNCHANGED <<keyVars, fundVars>>
  <2>1. now' = now
    BY Zenon, <1>2, KycEffect
  <2> QED BY Zenon, <1>2, <2>1, KeyFrame DEF keyVars
<1>3. ASSUME NEW r \in Requests, HandlerStep(r) PROVE Spaced'
  <2>1. UNCHANGED <<now, rows, at, began, doomed, displaced, ran, send>>
    BY Zenon, <1>3, HandlerEffect
  <2> QED BY Zenon, <2>1, KeyFrame
<1>4. CASE (\E i \in Invoices : ChangeHold(i)) \/ UNCHANGED vars
  BY Zenon, <1>4, KeyFrame DEF ChangeHold, vars, keyVars
<1>5. ASSUME NEW r \in Requests, Refuse(r) PROVE Spaced'
  <2>1. /\ UNCHANGED <<now, rows, began, doomed, displaced, ran, send>>
        /\ at[r] = "idle" /\ at' = [at EXCEPT ![r] = "done"]
    BY Zenon, <1>5 DEF Refuse, Reply
  <2>2. \A s \in Requests : at'[s] = at[s] \/ (at[s] = "idle" /\ at'[s] = "done")
    BY Zenon, <2>1, OrderedFacts
  <2>3. \A s \in ran : s \in Requests
    BY Zenon, OrderedFacts
  <2> QED BY ZenonT(60), <2>1, <2>2, <2>3 DEF Spaced, KeyInv, SpacedRuns, Owned
<1>6. CASE Tick
  <2>1. /\ now' = now + 1 /\ \A r \in Requests : at[r] \in {"idle", "done"}
        /\ UNCHANGED <<rows, at, began, doomed, displaced, ran, send>>
    BY Zenon, <1>6 DEF Tick, keyVars
  <2>2. now \in Nat /\ Orphan \in Nat /\ \A r \in ran : began[r] \in Nat
    BY Zenon, OrderedFacts, RowFacts
  <2>3. \A r \in ran : now - began[r] > Orphan => now' - began[r] > Orphan
    BY <2>1, <2>2
  <2>4. \A x : Owned(x) => Owned(x)'
    BY Zenon, <2>1 DEF Owned
  <2>5. KeyInv'
    <3>1. \A x \in rows' : Owned(x)'
      BY Zenon, <2>1, <2>4 DEF Spaced, KeyInv
    <3>2. \A r \in Requests : at'[r] \in {"idle", "done"} /\ \A x \in doomed'[r] : Owned(x)'
      BY Zenon, <2>1, <2>4 DEF Spaced, KeyInv
    <3>3. \A r \in ran' \ displaced' :
            \/ at'[r] = "commit"
            \/ \E x \in rows' : x.by = r /\ x.key = send'[r].key
            \/ now' - began'[r] > Orphan
      BY Zenon, <2>1, <2>3 DEF Spaced, KeyInv
    <3> QED BY Zenon, <3>1, <3>2, <3>3 DEF KeyInv
  <2>6. SpacedRuns'
    BY Zenon, <2>1, SpacedFrame DEF Spaced
  <2> QED BY Zenon, <2>5, <2>6 DEF Spaced
<1>7. CASE Crash
  <2>1. /\ UNCHANGED <<now, rows, began, ran, send>> /\ doomed' = [r \in Requests |-> {}]
        /\ displaced \subseteq displaced' /\ \A r \in Requests : at[r] = "commit" => r \in displaced'
    BY Zenon, <1>7, CrashEffect
  <2>2. \A r \in ran : r \in Requests
    BY Zenon, OrderedFacts
  <2>3. \A x : Owned(x) => Owned(x)'
    BY Zenon, <2>1 DEF Owned
  <2>4. KeyInv'
    BY Zenon, <2>1, <2>2, <2>3 DEF Spaced, KeyInv
  <2>5. SpacedRuns'
    BY Zenon, <2>1, SpacedFrame DEF Spaced
  <2> QED BY Zenon, <2>4, <2>5 DEF Spaced
<1>8. CASE \E r \in Requests : KycStep(r) /\ UNCHANGED <<keyVars, fundVars>>
  BY Zenon, <1>2, <1>8 DEF KycNext
<1>9. CASE PurgeBatch
  BY Zenon, <1>9, EndSpaced
<1>10. ASSUME NEW r \in Requests, KeyStep(r) \/ CommitFails(r) PROVE Spaced'
  BY Zenon, <1>5, <1>10, SelectDelete, EndSpaced DEF KeyStep
<1> QED BY ZenonT(60), <1>1, <1>2, <1>3, <1>4, <1>6, <1>7, <1>8, <1>9, <1>10, BeginSpaced DEF Next, Step

-----------------------------------------------------------------------------
(* What is recorded.                                                       *)

\* A commitment is never taken back, nor what was sent.
LEMMA RecordedStays ==
  ASSUME send' = send, commitments \subseteq commitments', NEW r
  PROVE  Recorded(r) => Recorded(r)'
BY DEF Recorded

\* The escrow of an invoice depends on the configuration alone.
LEMMA EscrowFixed ==
  ASSUME mappings' = mappings, NEW invoice
  PROVE  ResolveEscrowAddress(invoice)' = ResolveEscrowAddress(invoice)
BY DEF ResolveEscrowAddress

\* Steps that record nothing and answer nothing new with 200.
LEMMA LedgerFrame ==
  ASSUME LedgerInv, UNCHANGED <<mode, mappings, send, commitments, sent, ran>>,
         \A r \in Requests : /\ h'[r] \in PastHold => h'[r] = h[r]
                             /\ storing'[r] = 200 => storing[r] = 200
                             /\ (r \in ran /\ answer'[r] = 200) => answer[r] = 200
                             /\ at'[r] \notin {"commit", "done"} =>
                                  at[r] \notin {"commit", "done"} /\ answer'[r] = answer[r],
         \A x \in rows' : x.code = 200 =>
           \/ \E y \in rows : y.code = 200 /\ y.from = x.from
           \/ x.from \in Requests /\ storing[x.from] = 200
  PROVE  LedgerInv'
<1>1. \A r : Recorded(r) => Recorded(r)'
  BY Zenon, RecordedStays
<1>2. \A r \in Requests : Address(r)' = Address(r)
  BY Zenon, EscrowFixed DEF Address, Invoice
<1>3. \A r \in Requests : /\ h'[r] \in PastHold => Address(r)' # None
                          /\ h'[r] = "send" => mode' = "custodial"
                          /\ h'[r] \in {"persist", "insert"} =>
                               (mode' \in {"stubbed", "delegated"} \/ (mode' = "custodial" /\ r \in sent'))
  <2>1. \A r \in Requests : h'[r] \in {"send", "persist", "insert"} => h'[r] \in PastHold
    BY Zenon DEF PastHold
  <2> QED BY <1>2, <2>1 DEF LedgerInv
<1>4. \A r \in Requests : /\ at'[r] \notin {"commit", "done"} => answer'[r] = 0
                          /\ storing'[r] = 200 => Recorded(r)'
                          /\ (r \in ran' /\ answer'[r] = 200) => Recorded(r)'
  BY <1>1 DEF LedgerInv
<1>5. \A c \in commitments' : /\ c.status = "submitted" => c.by \in sent'
                              /\ c.address = ResolveEscrowAddress(InvoiceOf[c.body])'
                              /\ c.address # None
  BY EscrowFixed DEF LedgerInv
<1>6. \A x \in rows' : x.code = 200 => Recorded(x.from)'
  BY <1>1 DEF LedgerInv
<1> QED BY ZenonT(60), <1>3, <1>4, <1>5, <1>6 DEF LedgerInv

\* The steps of the handler: 200 is said of what is recorded, a commitment is made of
\* what was sent.
LEMMA HandlerLedger ==
  ASSUME Ordered, LedgerInv, NEW r \in Requests, HandlerStep(r)
  PROVE  LedgerInv'
<1>1. /\ h' = [h EXCEPT ![r] = h'[r]] /\ sent \subseteq sent'
      /\ \A s \in Requests \ {r} : storing'[s] = storing[s] /\ answer'[s] = answer[s]
      /\ UNCHANGED <<mode, mappings, send, rows, ran>>
  BY Zenon, HandlerEffect
<1>2. h \in [Requests -> HandlerPlaces] /\ storing \in [Requests -> Int] /\ answer \in [Requests -> Int]
  BY Zenon, OrderedFacts
<1>3. \A s \in Requests : Address(s)' = Address(s)
  BY Zenon, <1>1, EscrowFixed DEF Address, Invoice
<1>4. ASSUME NEW code, Respond(r, code)
      PROVE  h'[r] = "ended" /\ storing'[r] \in {code, 500} /\ answer'[r] \in {code, answer[r]}
  BY <1>2, <1>4 DEF Respond
<1>5. ASSUME NEW where, Continue(r, where)
      PROVE  h'[r] = where /\ storing'[r] = storing[r] /\ answer'[r] = answer[r]
  BY Zenon, <1>2, <1>5 DEF Continue, keyVars
<1> DEFINE Fits ==
      /\ \/ commitments' = commitments
         \/ h[r] = "insert" /\ commitments' = commitments \cup {Commitment(r)}
      /\ storing'[r] = 200 => storing[r] = 200 \/ Recorded(r)'
      /\ answer'[r] = 200 => answer[r] = 200 \/ Recorded(r)'
      /\ h'[r] \in PastHold => h[r] \in PastHold \/ Address(r) # None
      /\ h'[r] \in {"persist", "insert"} =>
           \/ h[r] \in {"persist", "insert"}
           \/ mode \in {"stubbed", "delegated"}
           \/ (h[r] = "send" /\ r \in sent')
      /\ h'[r] = "send" => mode = "custodial"
<1>a. 400 # 200 /\ 422 # 200 /\ 423 # 200 /\ 500 # 200 /\ 502 # 200 /\ 503 # 200
  BY Zenon, OtherCodes
\* An answer other than 200, an answer of 200 for what is recorded, and a step that
\* answers nothing.
<1>b. ASSUME NEW code, Respond(r, code), code # 200, commitments' = commitments PROVE Fits
  BY <1>a, <1>b, <1>4 DEF PastHold
<1>c. ASSUME Respond(r, 200), Recorded(r)',
             \/ commitments' = commitments
             \/ h[r] = "insert" /\ commitments' = commitments \cup {Commitment(r)}
      PROVE  Fits
  BY <1>c, <1>4 DEF PastHold
<1>d. ASSUME NEW where, Continue(r, where), commitments' = commitments,
             where \in PastHold => h[r] \in PastHold \/ Address(r) # None,
             where \in {"persist", "insert"} =>
               \/ h[r] \in {"persist", "insert"}
               \/ mode \in {"stubbed", "delegated"}
               \/ (h[r] = "send" /\ r \in sent'),
             where = "send" => mode = "custodial"
      PROVE  Fits
  BY ZenonT(60), <1>d, <1>5
<1> HIDE DEF Fits
<1>6. Fits
  <2>1. CASE Validate(r)
    BY <1>a, <1>b, <1>d, <2>1 DEF Validate, PastHold
  <2>2. CASE CheckHold(r)
    <3>1. /\ commitments' = commitments
          /\ \/ Respond(r, 423) \/ Respond(r, 503) \/ Respond(r, 500) \/ Respond(r, 422)
             \/ Address(r) # None /\ mode = "stubbed" /\ Continue(r, "persist")
             \/ Address(r) # None /\ Continue(r, "preflight")
      BY <2>2 DEF CheckHold, PassHold
    <3>2. CASE Respond(r, 423) \/ Respond(r, 503) \/ Respond(r, 500) \/ Respond(r, 422)
      BY <1>a, <1>b, <3>1, <3>2
    <3>3. CASE Address(r) # None /\ mode = "stubbed" /\ Continue(r, "persist")
      BY Zenon, <1>d, <3>1, <3>3
    <3>4. CASE Address(r) # None /\ Continue(r, "preflight")
      BY Zenon, <1>d, <3>1, <3>4
    <3> QED BY <3>1, <3>2, <3>3, <3>4
  <2>3. CASE Preflight(r)
    BY <1>a, <1>b, <1>d, <2>3 DEF Preflight, PastHold
  <2>4. CASE Prepare(r)
    <3>1. /\ commitments' = commitments /\ h[r] \in PastHold
          /\ \/ Respond(r, 500) \/ Respond(r, 502)
             \/ mode = "delegated" /\ Continue(r, "persist")
             \/ mode = "custodial" /\ Continue(r, "send")
      BY <2>4 DEF Prepare, PastHold
    <3> QED BY <1>a, <1>b, <1>d, <3>1
  <2>5. CASE SignAndSubmit(r)
    <3>1. /\ commitments' = commitments /\ h[r] = "send" /\ h[r] \in PastHold
          /\ \/ Respond(r, 500) \/ Respond(r, 502)
             \/ r \in sent' /\ Continue(r, "persist")
      BY ZenonT(60), <2>5 DEF SignAndSubmit, PastHold
    <3> QED BY <1>a, <1>b, <1>d, <3>1
  <2>6. CASE FindCommitment(r)
    <3>1. Recorded(r) => Recorded(r)'
      BY Zenon, <1>1, <2>6, RecordedStays DEF FindCommitment
    <3>2. /\ commitments' = commitments /\ h[r] = "persist" /\ h[r] \in PastHold
          /\ \/ Respond(r, 500)
             \/ Recorded(r)' /\ Respond(r, 200)
             \/ Continue(r, "insert")
      BY ZenonT(60), <2>6, <3>1 DEF FindCommitment, PastHold
    <3> QED BY <1>a, <1>b, <1>c, <1>d, <3>2
  <2>7. CASE InsertCommitment(r)
    <3>1. CASE Respond(r, 500) /\ commitments' = commitments
      BY <1>a, <1>b, <3>1
    <3>2. CASE Respond(r, 200) /\ commitments' = commitments \cup {Commitment(r)}
      <4>1. Recorded(r)'
        <5>1. Commitment(r) \in commitments'
          BY Zenon, <3>2
        <5>2. Commitment(r).body = send[r].body
          BY Zenon DEF Commitment
        <5> QED BY Zenon, <1>1, <5>1, <5>2 DEF Recorded
      <4> QED BY Zenon, <1>c, <2>7, <3>2, <4>1 DEF InsertCommitment
    <3> QED BY Zenon, <2>7, <3>1, <3>2 DEF InsertCommitment
  <2> QED BY ZenonT(60), <2>1, <2>2, <2>3, <2>4, <2>5, <2>6, <2>7 DEF HandlerStep
<1> USE DEF Fits
<1>7. \A s : Recorded(s) => Recorded(s)'
  <2>1. commitments \subseteq commitments'
    BY Zenon, <1>6
  <2> QED BY Zenon, <1>1, <2>1, RecordedStays
<1>8. ASSUME NEW s \in Requests
      PROVE  /\ h'[s] \in PastHold => Address(s)' # None
             /\ h'[s] = "send" => mode' = "custodial"
             /\ h'[s] \in {"persist", "insert"} =>
                  (mode' \in {"stubbed", "delegated"} \/ (mode' = "custodial" /\ s \in sent'))
             /\ at'[s] \notin {"commit", "done"} => answer'[s] = 0
             /\ storing'[s] = 200 => Recorded(s)'
             /\ (s \in ran' /\ answer'[s] = 200) => Recorded(s)'
  <2>1. CASE s = r
    <3>1. r \in ran /\ at'[r] \in {"commit", "done"}
      BY Zenon, HandlerEffect, OrderedFacts
    <3> QED BY ZenonT(60), <1>1, <1>3, <1>6, <1>7, <2>1, <3>1 DEF LedgerInv
  <2>2. CASE s # r
    <3>1. h'[s] = h[s] /\ storing'[s] = storing[s] /\ answer'[s] = answer[s] /\ at'[s] = at[s]
      BY Zenon, <1>1, <1>2, <2>2, HandlerEffect
    <3>2. /\ h[s] \in PastHold => Address(s) # None
          /\ h[s] = "send" => mode = "custodial"
          /\ h[s] \in {"persist", "insert"} =>
               (mode \in {"stubbed", "delegated"} \/ (mode = "custodial" /\ s \in sent))
          /\ at[s] \notin {"commit", "done"} => answer[s] = 0
          /\ storing[s] = 200 => Recorded(s)
          /\ (s \in ran /\ answer[s] = 200) => Recorded(s)
      BY Zenon DEF LedgerInv
    <3> QED BY <1>1, <1>3, <1>7, <3>1, <3>2
  <2> QED BY Zenon, <2>1, <2>2
<1>9. ASSUME NEW c \in commitments'
      PROVE  /\ c.status = "submitted" => c.by \in sent'
             /\ c.address = ResolveEscrowAddress(InvoiceOf[c.body])'
             /\ c.address # None
  <2>1. CASE c \in commitments
    BY Zenon, <1>1, <2>1, EscrowFixed DEF LedgerInv
  <2>2. CASE h[r] = "insert" /\ c = Commitment(r)
    <3>1. c.body = send[r].body /\ c.address = Address(r) /\ c.by = r
      BY Zenon, <2>2 DEF Commitment
    <3>2. c.address = ResolveEscrowAddress(InvoiceOf[c.body])
      BY Zenon, <3>1 DEF Address, Invoice
    <3>3. Address(r) # None /\ (mode \in {"stubbed", "delegated"} \/ (mode = "custodial" /\ r \in sent))
      BY Zenon, <2>2 DEF LedgerInv, PastHold
    <3>4. mode \in {"stubbed", "delegated"} => c.status # "submitted"
      BY Zenon, <2>2 DEF Commitment
    <3> QED BY Zenon, <1>1, <3>1, <3>2, <3>3, <3>4, EscrowFixed
  <2> QED BY Zenon, <1>6, <2>1, <2>2
<1>10. \A x \in rows' : x.code = 200 => Recorded(x.from)'
  BY ZenonT(60), <1>1, <1>7 DEF LedgerInv
<1> QED BY Zenon, <1>8, <1>9, <1>10 DEF LedgerInv

\* The steps of the middleware answer 200 only what its row says, and only to a request
\* that does not run; an UPDATE stores what was answered.
LEMMA KeyLedger ==
  ASSUME Ordered, LedgerInv, NEW r \in Requests,
         \/ KeyStep(r) /\ UNCHANGED <<kycVars, fundVars>>
         \/ CommitFails(r) /\ UNCHANGED <<kycVars, fundVars>>
  PROVE  LedgerInv'
<1>0. 400 # 200 /\ 403 # 200 /\ 500 # 200
  BY Zenon, OtherCodes
<1>1. UNCHANGED <<mode, mappings, send, commitments, sent, ran, h>>
  BY Zenon, KeyEffect
<1>2. /\ storing \in [Requests -> Int] /\ answer \in [Requests -> Int] /\ rows \subseteq KeyRows
      /\ at \in [Requests -> KeyPlaces] /\ \A s \in Requests : s \in ran => at[s] \in {"commit", "done"}
  BY Zenon, OrderedFacts
<1>3. /\ \A s \in Requests : storing'[s] = 200 => storing[s] = 200
      /\ \A s \in Requests : (s \in ran /\ answer'[s] = 200) => answer[s] = 200
      /\ \A s \in Requests : at'[s] \notin {"commit", "done"} =>
           at[s] \notin {"commit", "done"} /\ answer'[s] = answer[s]
  <2>1. CASE Refuse(r)
    <3>1. /\ at[r] = "idle" /\ at' = [at EXCEPT ![r] = "done"] /\ storing' = storing
          /\ answer' = [answer EXCEPT ![r] = 400] \/ answer' = [answer EXCEPT ![r] = 403]
      BY ZenonT(60), <2>1 DEF Refuse, Reply
    <3>2. at \in [Requests -> KeyPlaces] /\ answer \in [Requests -> Int]
      BY Zenon, <1>2
    <3>3. at'[r] = "done" /\ answer'[r] \in {400, 403} /\ storing' = storing /\ at[r] = "idle"
      BY <3>2, <3>1
    <3>4. \A s \in Requests \ {r} : answer'[s] = answer[s] /\ at'[s] = at[s]
      BY <3>2, <3>1
    <3> QED BY <1>0, <1>2, <3>3, <3>4
  <2>2. CASE SelectKey(r)
    <3>1. /\ at[r] = "idle" /\ storing' = storing
          /\ \A s \in Requests \ {r} : answer'[s] = answer[s] /\ at'[s] = at[s]
          /\ at'[r] = "done" \/ answer' = answer
      BY ZenonT(60), <1>2, <2>2 DEF SelectKey, Reply
    <3> QED BY <1>2, <3>1
  <2>3. CASE DeleteStale(r) \/ Commit(r)
    BY ZenonT(60), <1>2, <2>3 DEF DeleteStale, Commit
  <2>4. CASE TransactionFails(r)
    <3>1. at'[r] = "done" /\ answer'[r] = 500 /\ storing' = storing /\ at[r] \notin {"commit", "done"}
      BY <1>2, <2>4 DEF TransactionFails, Reply
    <3>2. \A s \in Requests \ {r} : answer'[s] = answer[s] /\ at'[s] = at[s]
      BY ZenonT(60), <1>2, <2>4 DEF TransactionFails, Reply
    <3> QED BY <1>0, <3>1, <3>2
  <2>5. CASE CommitFails(r)
    <3>1. at'[r] = "done" /\ answer'[r] \in {answer[r], 500} /\ storing'[r] \in {storing[r], 500}
      BY <1>2, <2>5 DEF CommitFails
    <3>2. \A s \in Requests \ {r} : answer'[s] = answer[s] /\ storing'[s] = storing[s] /\ at'[s] = at[s]
      BY Zenon, <1>2, <2>5 DEF CommitFails
    <3> QED BY <1>0, <3>1, <3>2
  <2>6. CASE Store(r)
    <3>1. storing' = [storing EXCEPT ![r] = 0] /\ UNCHANGED <<at, answer>>
      BY Zenon, <2>6 DEF Store
    <3> QED BY <1>2, <3>1
  <2> QED BY ZenonT(60), <2>1, <2>2, <2>3, <2>4, <2>5, <2>6 DEF KeyStep
<1>4. \A x \in rows' : x.code = 200 =>
        \/ \E y \in rows : y.code = 200 /\ y.from = x.from
        \/ x.from \in Requests /\ storing[x.from] = 200
  <2>1. CASE Store(r)
    <3> SUFFICES ASSUME NEW x \in rows', x \notin rows, x.code = 200
                 PROVE  x.from \in Requests /\ storing[x.from] = 200
      OBVIOUS
    <3> DEFINE mine == {y \in RowsOf(send[r].key) : lock[y.key] = None}
               stored == {[y EXCEPT !.code = storing[r], !.from = r] : y \in mine}
    <3>9. mine \subseteq rows /\ (rows' = rows \/ rows' = (rows \ mine) \cup stored)
      BY Zenon, <2>1 DEF Store, RowsOf
    <3> HIDE DEF mine, stored
    <3>b. x \in stored
      BY Zenon, <3>9
    <3>c. PICK y \in mine : x = [y EXCEPT !.code = storing[r], !.from = r]
      BY <3>b, Zenon DEF stored
    <3>1. y \in rows
      BY Zenon, <3>9, <3>c
    <3>2. x.code = storing[r] /\ x.from = r
      <4>1. y \in KeyRows
        BY Zenon, <1>2, <3>1
      <4> QED BY Zenon, <3>c, <4>1 DEF KeyRows
    <3> QED BY Zenon, <3>2
  <2>2. CASE Commit(r)
    <3>1. rows' \subseteq rows \cup {Placeholder(r)} /\ Placeholder(r).code = 0
      BY Zenon, <2>2 DEF Commit, Placeholder
    <3> QED BY <3>1
  <2>3. CASE rows' = rows
    BY ZenonT(60), <2>3
  <2> QED BY ZenonT(60), <2>1, <2>2, <2>3 DEF KeyStep, Refuse, SelectKey, DeleteStale, TransactionFails, CommitFails
<1> QED BY ZenonT(60), <1>1, <1>3, <1>4, LedgerFrame

\* Every step keeps the fourth part.
LEMMA LedgerKept == Ordered /\ LedgerInv /\ [Next]_vars => LedgerInv'
<1> SUFFICES ASSUME Ordered, LedgerInv, [Next]_vars PROVE LedgerInv'
  BY Zenon
<1>1. ASSUME UNCHANGED <<mode, mappings, send, commitments, sent, ran, h, storing, answer, at>>,
             rows' \subseteq rows
      PROVE  LedgerInv'
  BY <1>1, LedgerFrame
<1>2. CASE \/ \E r \in Requests : Arrive(r)
           \/ KycNext /\ UNCHANGED <<keyVars, fundVars>>
           \/ \E r \in Requests : KycStep(r) /\ UNCHANGED <<keyVars, fundVars>>
           \/ \E i \in Invoices : ChangeHold(i)
           \/ Tick
           \/ UNCHANGED vars
  <2>1. UNCHANGED <<mode, mappings, send, commitments, sent, ran, h, storing, answer, at, rows>>
    BY Zenon, <1>2 DEF Arrive, ChangeHold, Tick, vars, keyVars, fundVars
  <2> QED BY Zenon, <1>1, <2>1
<1>3. CASE PurgeBatch /\ UNCHANGED <<kycVars, fundVars>>
  <2>1. UNCHANGED <<mode, mappings, send, commitments, sent, ran, h, storing, answer, at>>
          /\ rows' \subseteq rows
    BY Zenon, <1>3 DEF PurgeBatch, fundVars
  <2> QED BY Zenon, <1>1, <2>1
<1>4. ASSUME NEW r \in Requests, Begin(r) PROVE LedgerInv'
  <2>1. /\ UNCHANGED <<mode, mappings, send, commitments, sent, storing, answer, rows>>
        /\ h' = [h EXCEPT ![r] = "begin"] /\ ran' = ran \cup {r}
        /\ at[r] = "insert" /\ at' = [at EXCEPT ![r] = "commit"]
    BY Zenon, <1>4 DEF Begin, InsertPlaceholder
  <2>2. h \in [Requests -> HandlerPlaces] /\ at \in [Requests -> KeyPlaces]
    BY Zenon, OrderedFacts
  <2>3. answer[r] = 0
    BY Zenon, <2>1 DEF LedgerInv
  <2>4. \A s : Recorded(s) => Recorded(s)'
    BY Zenon, <2>1, RecordedStays
  <2>5. \A s \in Requests : Address(s)' = Address(s)
    BY Zenon, <2>1, EscrowFixed DEF Address, Invoice
  <2>6. ASSUME NEW s \in Requests
        PROVE  /\ h'[s] \in PastHold => Address(s)' # None
               /\ h'[s] = "send" => mode' = "custodial"
               /\ h'[s] \in {"persist", "insert"} =>
                    (mode' \in {"stubbed", "delegated"} \/ (mode' = "custodial" /\ s \in sent'))
               /\ at'[s] \notin {"commit", "done"} => answer'[s] = 0
               /\ storing'[s] = 200 => Recorded(s)'
               /\ (s \in ran' /\ answer'[s] = 200) => Recorded(s)'
    <3>1. CASE s = r
      <4>1. h'[s] = "begin" /\ h'[s] \notin PastHold /\ answer'[s] = 0 /\ storing'[s] = storing[s]
        BY Zenon, <2>1, <2>2, <2>3, <3>1 DEF PastHold
      <4>2. 0 # 200
        OBVIOUS
      <4>3. storing[s] = 200 => Recorded(s)
        BY Zenon DEF LedgerInv
      <4> QED BY ZenonT(60), <2>4, <4>1, <4>2, <4>3
    <3>2. CASE s # r
      BY ZenonT(60), <2>1, <2>2, <2>4, <2>5, <3>2 DEF LedgerInv
    <3> QED BY Zenon, <3>1, <3>2
  <2>7. \A c \in commitments' : /\ c.status = "submitted" => c.by \in sent'
                                /\ c.address = ResolveEscrowAddress(InvoiceOf[c.body])'
                                /\ c.address # None
    BY Zenon, <2>1, EscrowFixed DEF LedgerInv
  <2>8. \A x \in rows' : x.code = 200 => Recorded(x.from)'
    BY ZenonT(60), <2>1, <2>4 DEF LedgerInv
  <2> QED BY Zenon, <2>6, <2>7, <2>8 DEF LedgerInv
<1>5. CASE Crash
  <2>1. /\ UNCHANGED <<mode, mappings, send, commitments, sent, ran, rows>>
        /\ storing' = [r \in Requests |-> 0]
        /\ h' = [r \in Requests |-> IF h[r] = "idle" THEN "idle" ELSE "ended"]
        /\ \A r \in Requests : /\ answer'[r] \in {answer[r], Lost} /\ at'[r] \in {at[r], "done"}
                               /\ at'[r] # "done" => answer'[r] = answer[r]
    BY Zenon, <1>5, CrashEffect
  <2>2. \A r \in Requests : /\ h'[r] \notin PastHold /\ storing'[r] # 200
                            /\ answer'[r] = 200 => answer[r] = 200
                            /\ at'[r] \notin {"commit", "done"} =>
                                 at[r] \notin {"commit", "done"} /\ answer'[r] = answer[r]
    <3>1. Lost # 200 /\ 0 # 200
      BY DEF Lost
    <3>2. \A r \in Requests : h'[r] \in {"idle", "ended"} /\ storing'[r] = 0
      BY Zenon, <2>1
    <3>3. \A r \in Requests : h'[r] \notin PastHold
      BY Zenon, <3>2 DEF PastHold
    <3> QED BY ZenonT(60), <2>1, <3>1, <3>2, <3>3
  <2> QED BY ZenonT(60), <2>1, <2>2, LedgerFrame
<1> QED BY Zenon, <1>2, <1>3, <1>4, <1>5, KeyLedger, HandlerLedger DEF Next, Step

-----------------------------------------------------------------------------
(* The escrow map read forth and back.                                     *)

\* A set of positions has a first and a last.
LEMMA FirstAndLast ==
  ASSUME NEW n \in Nat, NEW S, S \subseteq 1..n, S # {}
  PROVE  /\ \E i \in S : \A j \in S : i <= j
         /\ \E i \in S : \A j \in S : i >= j
<1>1. \A x, y \in Nat : x < y <=> <<x, y>> \in OpToRel(<, Nat)
  BY DEF OpToRel
<1>2. IsWellFoundedOn(OpToRel(<, Nat), Nat)
  BY Zenon, NatLessThanWellFounded
<1>3. ASSUME NEW T, T \subseteq Nat, T # {} PROVE \E x \in T : \A y \in T : x <= y
  <2>1. PICK x \in T : \A y \in T : ~(<<y, x>> \in OpToRel(<, Nat))
    BY Zenon, <1>2, <1>3, WFMin
  <2>2. \A y \in T : ~(y < x)
    BY Zenon, <1>1, <1>3, <2>1
  <2> QED BY <1>3, <2>2
<1>4. \E i \in S : \A j \in S : i <= j
  <2>1. S \subseteq Nat
    OBVIOUS
  <2> QED BY Zenon, <1>3, <2>1
<1>5. \E i \in S : \A j \in S : i >= j
  <2> DEFINE T == {n - i : i \in S}
  <2>a. PICK k \in S : TRUE
    BY Zenon
  <2>b. \A i \in S : n - i \in Nat
    OBVIOUS
  <2>1. T \subseteq Nat /\ T # {}
    BY <2>a, <2>b, Zenon
  <2>2. PICK x \in T : \A y \in T : x <= y
    BY Zenon, <1>3, <2>1
  <2>3. PICK i \in S : x = n - i
    BY Zenon
  <2>4. \A j \in S : n - i <= n - j
    BY Zenon, <2>2, <2>3
  <2> QED BY <2>4
<1> QED BY Zenon, <1>4, <1>5

\* Where no two invoices share an address, an invoice's escrow is read back as the
\* invoice's: the first mapping of the invoice and the last one of the address.
LEMMA EscrowReadsBack ==
  ASSUME OneInvoicePerAddress, mappings \in EscrowMaps, NEW invoice,
         ResolveEscrowAddress(invoice) # None
  PROVE  ResolveInvoiceByAddress(ResolveEscrowAddress(invoice)) = invoice
<1> DEFINE address == ResolveEscrowAddress(invoice)
           forth == {i \in DOMAIN mappings : Active(mappings[i]) /\ mappings[i].invoice = invoice}
           back == {i \in DOMAIN mappings : Active(mappings[i]) /\ mappings[i].address = address}
           first == CHOOSE i \in forth : \A j \in forth : i <= j
           last == CHOOSE i \in back : \A j \in back : i >= j
<1>1. PICK n \in Nat : DOMAIN mappings = 1..n
  BY Zenon, FundAssumption
<1>2. forth # {} /\ address = mappings[first].address
  BY Zenon DEF ResolveEscrowAddress
<1>3. first \in forth
  <2>1. \E i \in forth : \A j \in forth : i <= j
    BY Zenon, <1>1, <1>2, FirstAndLast
  <2> QED BY Zenon, <2>1
<1>4. first \in back
  BY Zenon, <1>2, <1>3
<1>5. last \in back
  <2>1. \E i \in back : \A j \in back : i >= j
    BY Zenon, <1>1, <1>4, FirstAndLast
  <2> QED BY Zenon, <2>1
<1>6. ResolveInvoiceByAddress(address) = mappings[last].invoice
  BY Zenon, <1>4 DEF ResolveInvoiceByAddress
<1>7. mappings[last].invoice = mappings[first].invoice
  BY <1>3, <1>4, <1>5 DEF OneInvoicePerAddress
<1> QED BY Zenon, <1>3, <1>6, <1>7

-----------------------------------------------------------------------------
(* The theorems.                                                           *)

\* The four parts together.
LEMMA FundInductive == FundInv /\ [Next]_vars => FundInv'
BY Zenon, OrderKept, GuardKept, SpacedKept, LedgerKept DEF FundInv, Ordered, Guarded, Spaced

\* The inductive invariant holds in every behaviour of POST /api/invest/fund-invoice.
THEOREM FundInvariant == Spec => []FundInv
BY FundStart, FundInductive, PTL DEF Spec

\* kycGate, the hold gate and _signAndSubmit(): nothing is sent for an SME nobody
\* cleared, nor, with the getter wired in, for an invoice held ever since the
\* request arrived.
THEOREM FundsAreGuarded == Spec => []FundsGuarded
<1>1. FundInv => FundsGuarded
  BY Zenon DEF FundInv
<1> QED BY <1>1, FundInvariant, PTL

\* The idempotency middleware: two handlers of one key start further apart than the
\* orphan time-out, unless the placeholder of one was never committed or displaced.
THEOREM RunsAreSpaced == Spec => []SpacedRuns
<1>1. FundInv => SpacedRuns
  BY Zenon DEF FundInv
<1> QED BY <1>1, FundInvariant, PTL

\* persistCommitment() and the answers: where no two invoices share an escrow
\* address, the table, the map and the 200s agree.
THEOREM LedgerStaysTrue == OneInvoicePerAddress => (Spec => []LedgerAgrees)
<1> SUFFICES ASSUME OneInvoicePerAddress PROVE Spec => []LedgerAgrees
  BY Zenon
<1>1. FundInv => LedgerAgrees
  <2> SUFFICES ASSUME FundInv PROVE LedgerAgrees
    BY Zenon
  <2>1. mappings \in EscrowMaps /\ ran \subseteq Requests
    BY Zenon DEF FundInv, FundTypeOK
  <2>2. ASSUME NEW c \in commitments
        PROVE  /\ c.status = "submitted" => c.by \in sent
               /\ ResolveInvoiceByAddress(c.address) = InvoiceOf[c.body]
    <3>1. /\ c.status = "submitted" => c.by \in sent
          /\ c.address = ResolveEscrowAddress(InvoiceOf[c.body]) /\ c.address # None
      BY Zenon, <2>2 DEF FundInv, LedgerInv
    <3> QED BY Zenon, <2>1, <3>1, EscrowReadsBack
  <2>3. /\ \A r \in ran : answer[r] = 200 => Recorded(r)
        /\ \A x \in rows : x.code = 200 => Recorded(x.from)
    BY <2>1 DEF FundInv, LedgerInv
  <2> QED BY Zenon, <2>2, <2>3 DEF LedgerAgrees
<1> QED BY <1>1, FundInvariant, PTL
=============================================================================

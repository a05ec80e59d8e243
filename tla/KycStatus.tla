----------------------------- MODULE KycStatus ------------------------------
(***************************************************************************)
(* KYC of the SME behind a funding request: getKycStatus() and the records *)
(* it keeps (src/src/services/kycService.js), the provider's webhook       *)
(* (src/src/routes/kyc.js) and the manual decisions.                       *)
(*                                                                         *)
(* One SME.  requireKycForFunding, which routes/invest.js imports, and     *)
(* kycStatusCache, which kycService.js uses, are defined nowhere: the gate *)
(* is taken to let a request through exactly when canFundWithKycStatus()   *)
(* does, the cache to be a store with a time to live per entry.            *)
(***************************************************************************)
EXTENDS Integers, FiniteSets

CONSTANTS
  Requests,      \* funding requests
  RawStatuses,   \* what the provider may say
  CacheTtl,      \* KYC_STATUS_CACHE_TTL_SECONDS, 0 to disable the cache
  MaxTime,       \* bound on the clock
  MaxDecisions,  \* bound on decisions of the provider and of operators
  MaxFaults      \* bound on failing statements

VARIABLES
  now,
  faults,
  enabled,    \* getKycProviderConfig().enabled
  provider,   \* what the provider would answer now
  webhooks,   \* decisions the provider has not delivered yet
  record,     \* the row of kyc_records, or None
  mock,       \* mockKycRecords, or None
  cache,      \* kycStatusCache: [status, until]
  kyc,        \* request -> where getKycStatus() stands
  got,        \* request -> the provider's answer, being saved
  decisions,
  cleared     \* history: somebody has said verified or exempted

kycVars == <<enabled, provider, webhooks, record, mock, cache, kyc, got, decisions, cleared>>

None == "none"
NoEntry == [status |-> None, until |-> 0]

Pending == {"pending", "in_review", "reviewing", "queued", "submitted"}
Verified == {"verified", "approved", "pass", "success"}
Rejected == {"rejected", "denied", "declined", "failed"}
Exempted == {"exempted", "exempt", "waived"}

NormalizeProviderStatus(raw) ==
  CASE raw \in Pending  -> "pending"
    [] raw \in Verified -> "verified"
    [] raw \in Rejected -> "rejected"
    [] raw \in Exempted -> "exempted"
    [] OTHER            -> "unknown"

CanFund(status) == status \in {"verified", "exempted"}

KycInit ==
  /\ enabled \in BOOLEAN
  /\ provider \in RawStatuses
  /\ webhooks = {}
  /\ record \in {None, "verified"}
  /\ mock = None
  /\ cache = NoEntry
  /\ kyc = [r \in Requests |-> "idle"]
  /\ got = [r \in Requests |-> None]
  /\ decisions \in 0..MaxDecisions
  /\ cleared = (record # None \/ (enabled /\ CanFund(NormalizeProviderStatus(provider))))

Decided(r, status) ==
  kyc' = [kyc EXCEPT ![r] = IF CanFund(status) THEN "passed" ELSE "refused"]

\* The live entry of the cache, read before the provider is asked.
Cached == CacheTtl > 0 /\ cache # NoEntry /\ now <= cache.until

\* persistKycRecord(): the last write counts, whatever it was decided on.
Persist(status) == record' = NormalizeProviderStatus(status)

\* readKycRecord(), and what stands in for a missing row.
PersistedStatus ==
  IF record # None THEN record ELSE IF ~enabled /\ mock # None THEN mock ELSE "pending"

\* getKycStatus() up to its first await.
EnterGate(r) ==
  /\ kyc[r] = "idle"
  /\ \/ enabled /\ Cached /\ Decided(r, cache.status)
     \/ enabled /\ ~Cached /\ kyc' = [kyc EXCEPT ![r] = "provider"]
     \/ ~enabled /\ kyc' = [kyc EXCEPT ![r] = "record"]
  /\ UNCHANGED <<now, faults, enabled, provider, webhooks, record, mock, cache, got, decisions, cleared>>

\* verifyWithExternalProvider(): the answer, then the row, then the cache.
ProviderAnswers(r) ==
  /\ kyc[r] = "provider"
  /\ got' = [got EXCEPT ![r] = NormalizeProviderStatus(provider)]
  /\ kyc' = [kyc EXCEPT ![r] = "save"]
  /\ UNCHANGED <<now, faults, enabled, provider, webhooks, record, mock, cache, decisions, cleared>>

SaveAnswer(r) ==
  /\ kyc[r] = "save"
  /\ Persist(got[r])
  /\ cache' = IF CacheTtl > 0 THEN [status |-> record', until |-> now + CacheTtl] ELSE cache
  /\ Decided(r, record')
  /\ got' = [got EXCEPT ![r] = None]
  /\ UNCHANGED <<now, faults, enabled, provider, webhooks, mock, decisions, cleared>>

\* The provider or the row fails: the persisted status is used instead.
ProviderFails(r) ==
  /\ kyc[r] \in {"provider", "save"}
  /\ faults < MaxFaults
  /\ faults' = faults + 1
  /\ kyc' = [kyc EXCEPT ![r] = "record"]
  /\ got' = [got EXCEPT ![r] = None]
  /\ UNCHANGED <<now, enabled, provider, webhooks, record, mock, cache, decisions, cleared>>

ReadRecord(r) ==
  /\ kyc[r] = "record"
  /\ Decided(r, PersistedStatus)
  /\ UNCHANGED <<now, faults, enabled, provider, webhooks, record, mock, cache, got, decisions, cleared>>

\* The provider makes up its mind, and sends a webhook about it.
ProviderDecides(raw) ==
  /\ enabled /\ decisions < MaxDecisions
  /\ provider' = raw
  /\ webhooks' = webhooks \cup {raw}
  /\ decisions' = decisions + 1
  /\ cleared' = (cleared \/ CanFund(NormalizeProviderStatus(raw)))
  /\ UNCHANGED <<now, faults, enabled, record, mock, cache, kyc, got>>

\* POST /webhook with a valid signature.  Delivery is late, repeated or lost.
Webhook(raw) ==
  /\ raw \in webhooks
  /\ webhooks' \in {webhooks, webhooks \ {raw}}
  /\ Persist(raw) \/ UNCHANGED record
  /\ UNCHANGED <<now, faults, enabled, provider, mock, cache, kyc, got, decisions, cleared>>

\* A decision by hand: the map first, then the row, which may fail.
Manual(status) ==
  /\ ~enabled /\ decisions < MaxDecisions
  /\ mock' = status
  /\ Persist(status) \/ UNCHANGED record
  /\ decisions' = decisions + 1
  /\ cleared' = (cleared \/ CanFund(status))
  /\ UNCHANGED <<now, faults, enabled, provider, webhooks, cache, kyc, got>>

VerifySmeSafe == Manual("verified")
RejectSmeKyc == Manual("rejected")
ExemptSmeFromKyc == Manual("exempted")

KycStep(r) ==
  ProviderAnswers(r) \/ SaveAnswer(r) \/ ReadRecord(r)

KycNext ==
  \/ \E r \in Requests : KycStep(r) \/ ProviderFails(r)
  \/ \E raw \in RawStatuses : ProviderDecides(raw) \/ Webhook(raw)
  \/ VerifySmeSafe \/ RejectSmeKyc \/ ExemptSmeFromKyc
=============================================================================

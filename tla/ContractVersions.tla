-------------------------- MODULE ContractVersions --------------------------
(* The escrow contract's version watch: jobs/contractListRefresh.js, the      *)
(* registry of config/escrowVersions.js and the two routes of                 *)
(* routes/adminEscrow.js.  A refresh reads SCHEMA_VERSION on the chain,       *)
(* compares it with the registry and raises an alert for a mismatch it has    *)
(* not raised yet.  Refreshes overlap: each is an HTTP request, and what one  *)
(* read may be older than what another has already compared.                  *)
(*                                                                            *)
(* A release is named by its SCHEMA_VERSION.                                  *)
EXTENDS Naturals, Sequences, FiniteSetsExt

CONSTANTS
  Refreshes,       \* requests to POST /refresh and GET /version
  Registry,        \* the schema versions the backend knows
  Deployable,      \* the schema versions that may be deployed
  Unlisted         \* knownVersion = null

VARIABLES
  deployed,        \* SCHEMA_VERSION on the chain
  contractId,      \* is ESCROW_CONTRACT_ID set and valid
  refresh,         \* each request: where it is, and the version it read
  alerted,         \* _alertedMismatches of the contract: a set of at most one
  compared,        \* history: the versions refreshes compared, in order
  alerts           \* history: the versions alerts were raised for, in order

versionVars == <<deployed, contractId, refresh, alerted, compared, alerts>>

Fresh == [at |-> "none", does |-> "none", saw |-> 0, answer |-> "none"]

VersionInit ==
  /\ deployed \in Deployable
  /\ contractId \in {"valid", "invalid"}
  /\ refresh = [r \in Refreshes |-> Fresh]
  /\ alerted = {}
  /\ compared = <<>> /\ alerts = <<>>

\* getOnChainSchemaVersion, called by both routes, checks the id first.
Requested(r, does) ==
  /\ refresh[r].at = "none"
  /\ refresh' = [refresh EXCEPT ![r] =
       IF contractId = "valid" THEN [Fresh EXCEPT !.at = "reading", !.does = does]
       ELSE [Fresh EXCEPT !.at = "done", !.does = does, !.answer = "400"]]
  /\ UNCHANGED <<deployed, contractId, alerted, compared, alerts>>

\* The RPC node reads the ledger; its answer is still to travel back.
ReadVersion(r) ==
  /\ refresh[r].at = "reading"
  /\ refresh' = [refresh EXCEPT ![r].at = "read", ![r].saw = deployed]
  /\ UNCHANGED <<deployed, contractId, alerted, compared, alerts>>

\* The call fails after its retries, or holds no SCHEMA_VERSION.
ReadFails(r) ==
  /\ refresh[r].at \in {"reading", "read"}
  /\ refresh' = [refresh EXCEPT ![r].at = "done", ![r].answer = "502"]
  /\ UNCHANGED <<deployed, contractId, alerted, compared, alerts>>

\* An older release the registry lists is as unknown as one it does not.
CompareVersions(v) ==
  IF Registry = {} THEN [status |-> "unknown", known |-> Unlisted]
  ELSE IF v = Max(Registry) THEN [status |-> "current", known |-> v]
  ELSE IF v > Max(Registry) THEN [status |-> "ahead", known |-> Max(Registry)]
  ELSE [status |-> "unknown", known |-> IF v \in Registry THEN v ELSE Unlisted]

Mismatch(v) == CompareVersions(v).status \in {"ahead", "unknown"}
Signature(v) == [expected |-> CompareVersions(v).known, observed |-> v]

\* The bug the reset excludes: a version that came back is never reported again.
NeverReset(v) == IF Mismatch(v) THEN {Signature(v)} ELSE alerted

\* The signature remembered after a comparison.
Remembered(v) == IF Mismatch(v) THEN {Signature(v)} ELSE {}

\* raiseVersionMismatchAlert stays quiet about the signature it remembers.
Raises(v) == Mismatch(v) /\ Signature(v) \notin alerted

RunContractListRefresh(r) ==
  /\ refresh[r].at = "read" /\ refresh[r].does = "refresh"
  /\ alerted' = Remembered(refresh[r].saw)
  /\ alerts' = IF Raises(refresh[r].saw) THEN Append(alerts, refresh[r].saw) ELSE alerts
  /\ compared' = Append(compared, refresh[r].saw)
  /\ refresh' = [refresh EXCEPT ![r].at = "done", ![r].answer = "202"]
  /\ UNCHANGED <<deployed, contractId>>

\* GET /version compares and remembers nothing.
ShowVersion(r) ==
  /\ refresh[r].at = "read" /\ refresh[r].does = "version"
  /\ refresh' = [refresh EXCEPT ![r].at = "done", ![r].answer = CompareVersions(refresh[r].saw).status]
  /\ UNCHANGED <<deployed, contractId, alerted, compared, alerts>>

\* The contract is upgraded, or rolled back.
Deploy ==
  /\ deployed' \in Deployable \ {deployed}
  /\ UNCHANGED <<contractId, refresh, alerted, compared, alerts>>

\* The process restarts: its requests are lost, and what it remembered.
VersionRestart ==
  /\ compared # <<>>
  /\ refresh' = [r \in Refreshes |-> [refresh[r] EXCEPT !.at = IF @ = "none" THEN "none" ELSE "done"]]
  /\ alerted' = {} /\ compared' = <<>> /\ alerts' = <<>>
  /\ UNCHANGED <<deployed, contractId>>

VersionNext ==
  \/ \E r \in Refreshes :
       \/ \E does \in {"refresh", "version"} : Requested(r, does)
       \/ ReadVersion(r) \/ ReadFails(r) \/ RunContractListRefresh(r) \/ ShowVersion(r)
  \/ Deploy \/ VersionRestart

VersionSpec == VersionInit /\ [][VersionNext]_versionVars

-----------------------------------------------------------------------------
(* Properties.                                                             *)

\* The positions at which a run of equal mismatches begins.
Onsets(s) ==
  {i \in DOMAIN s : Mismatch(s[i]) /\ (i = 1 \/ s[i - 1] # s[i])}

\* Operators get one alert for every time a mismatch appears, changes or comes
\* back after the expected version had returned, and none while it persists
\* (contractListRefresh.js, the de-duplication by signature), in the order in
\* which overlapping refreshes finish and whatever they had read.
AlertPerOnset ==
  /\ Len(alerts) = Cardinality(Onsets(compared))
  /\ \A i \in Onsets(compared) :
       alerts[Cardinality({j \in Onsets(compared) : j <= i})] = compared[i]

\* The inductive invariant: what is remembered is the signature of the last
\* comparison, if that was a mismatch.
Versions == Deployable \cup {Fresh.saw}
RefreshCalls ==
  [at : {"none", "reading", "read", "done"}, does : {"none", "refresh", "version"}, saw : Versions,
   answer : {"none", "202", "400", "502", "current", "ahead", "unknown"}]

VersionTypeOK ==
  /\ deployed \in Deployable
  /\ refresh \in [Refreshes -> RefreshCalls]
  /\ compared \in Seq(Versions) /\ alerts \in Seq(Versions)

VersionInv ==
  /\ VersionTypeOK
  /\ alerted = IF compared = <<>> THEN {} ELSE Remembered(compared[Len(compared)])
  /\ AlertPerOnset
=============================================================================

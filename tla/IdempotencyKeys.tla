-------------------------- MODULE IdempotencyKeys ---------------------------
(***************************************************************************)
(* The idempotency middleware (src/src/middleware/idempotency.js) and the  *)
(* purge of expired keys (src/src/jobs/idempotencyPurge.js).               *)
(*                                                                         *)
(* The file holds unresolved merge markers.  Modelled is the code outside  *)
(* them with the first side of each conflict, the only one that defines    *)
(* the orphan time-out the shared code compares with.                      *)
(*                                                                         *)
(* A transaction sees committed rows only.  Its DELETE and INSERT hold the *)
(* key (lock) until it ends: a DELETE that had to wait for another         *)
(* transaction finds the row it was after gone, one that did not wait      *)
(* removes whatever row has the key by then.                               *)
(***************************************************************************)
EXTENDS KycStatus

CONSTANTS
  NoKey,        \* a missing or malformed Idempotency-Key header
  Earlier,      \* a request of an earlier process
  Sends,        \* what the requests may be: functions to [key, body]
  Orphan,       \* ORPHAN_IN_FLIGHT_TIMEOUT_MS
  TtlHours,     \* IDEMPOTENCY_KEY_TTL_HOURS, 0 if it is no number
  RawBatchSize, \* IDEMPOTENCY_PURGE_BATCH_SIZE, likewise
  RawMaxBatches \* IDEMPOTENCY_PURGE_MAX_BATCHES, likewise

Ttl == IF TtlHours > 0 THEN TtlHours ELSE 24
AtMost(n, cap) == IF n < cap THEN n ELSE cap
BatchSize == IF RawBatchSize < 1 THEN 1000 ELSE AtMost(RawBatchSize, 10000)
MaxBatches == IF RawMaxBatches < 1 THEN 100 ELSE AtMost(RawMaxBatches, 1000)

ASSUME KeyAssumption ==
  /\ {TtlHours, RawBatchSize, RawMaxBatches} \subseteq Int
  /\ Orphan \in Nat /\ Orphan < Ttl

VARIABLES
  send,       \* request -> its key and body, a member of Sends
  rows,       \* idempotency_keys: [key, by, body, code, from, born], code 0 for NULL
  lock,       \* key -> the transaction that has written it, or None
  at,         \* request -> where its transaction stands
  began,      \* request -> the instant its transaction read
  doomed,     \* request -> stale rows its transaction has read, then deleted
  storing,    \* request -> the code an un-awaited UPDATE is about to store, or 0
  answer,     \* request -> status code sent, 0 for none yet, Lost after a crash
  purge,      \* batches of the purge job so far, or Purged
  ran,        \* history: requests whose handler was started
  displaced   \* history: requests whose placeholder was never committed, or
              \* deleted by a request that had read an older one

keyVars == <<send, rows, lock, at, began, doomed, storing, answer, purge, ran, displaced>>

Lost == -1
Purged == -1
Keys == {send[r].key : r \in Requests} \ {NoKey}
RowsOf(k) == {x \in rows : x.key = k}

\* The table may hold a placeholder that a crash has left behind.
KeyInit ==
  /\ send \in Sends
  /\ rows \in {{}} \cup {{[key |-> k, by |-> Earlier, body |-> send[r].body, code |-> 0,
                          from |-> Earlier, born |-> 0]} : k \in Keys, r \in Requests}
  /\ lock = [k \in Keys |-> None]
  /\ at = [r \in Requests |-> "idle"]
  /\ began = [r \in Requests |-> 0]
  /\ doomed = [r \in Requests |-> {}]
  /\ storing = [r \in Requests |-> 0]
  /\ answer = [r \in Requests |-> 0]
  /\ purge \in {0, Purged}
  /\ ran = {}
  /\ displaced = {}

\* A response of the middleware itself.
Reply(r, code) ==
  /\ answer' = [answer EXCEPT ![r] = code]
  /\ at' = [at EXCEPT ![r] = "done"]

Expired(x) == x.born + Ttl <= now
OrphanedEarly(x) == x.code = 0 /\ now - x.born >= Orphan
Orphaned(x) == x.code = 0 /\ now - x.born > Orphan
Stale(x) == Expired(x) \/ Orphaned(x)

\* A gate that answers: 403 of KYC, 400 without a usable header.
Refuse(r) ==
  /\ at[r] = "idle"
  /\ \/ kyc[r] = "refused" /\ Reply(r, 403)
     \/ kyc[r] = "passed" /\ send[r].key = NoKey /\ Reply(r, 400)
  /\ UNCHANGED <<now, faults, send, rows, lock, began, doomed, storing, purge, ran, displaced>>

\* The SELECT of the transaction and the checks on the row it returns.
SelectKey(r) ==
  LET found == RowsOf(send[r].key)
      live == {x \in found : ~Stale(x)}
  IN /\ at[r] = "idle" /\ kyc[r] = "passed" /\ send[r].key # NoKey
     /\ began' = [began EXCEPT ![r] = now]
     /\ \/ /\ found = {}
           /\ at' = [at EXCEPT ![r] = "insert"]
           /\ UNCHANGED answer
        \/ /\ found # live
           /\ at' = [at EXCEPT ![r] = "delete"]
           /\ UNCHANGED answer
        \/ \E x \in live : \/ x.body # send[r].body /\ Reply(r, 409)
                           \/ x.body = send[r].body /\ x.code = 0 /\ Reply(r, 409)
                           \/ x.body = send[r].body /\ x.code # 0 /\ Reply(r, x.code)
     /\ doomed' = [doomed EXCEPT ![r] = found \ live]
     /\ UNCHANGED <<now, faults, send, rows, lock, storing, purge, ran, displaced>>

\* The DELETE by key of a stale row; one that waited behind another transaction
\* gets the row it was after or none.
DeleteStale(r) ==
  LET k == send[r].key IN
  /\ at[r] \in {"delete", "wait"}
  /\ \/ /\ lock[k] = None
        /\ doomed' = [doomed EXCEPT ![r] = IF at[r] = "wait" THEN @ \cap rows ELSE RowsOf(k)]
        /\ displaced' = displaced \cup ({x.by : x \in doomed'[r]} \ {x.by : x \in doomed[r]})
        /\ lock' = [lock EXCEPT ![k] = r]
        /\ at' = [at EXCEPT ![r] = "insert"]
     \/ /\ lock[k] # None /\ at[r] = "delete"
        /\ at' = [at EXCEPT ![r] = "wait"]
        /\ UNCHANGED <<doomed, lock, displaced>>
  /\ UNCHANGED <<now, faults, send, rows, began, storing, answer, purge, ran>>

Release(r) == lock' = [k \in Keys |-> IF lock[k] = r THEN None ELSE lock[k]]

\* The INSERT of the placeholder; next() starts the handler before the commit.
InsertPlaceholder(r) ==
  /\ at[r] = "insert" /\ lock[send[r].key] \in {None, r}
  /\ RowsOf(send[r].key) \subseteq doomed[r]
  /\ lock' = [lock EXCEPT ![send[r].key] = r]
  /\ at' = [at EXCEPT ![r] = "commit"]
  /\ ran' = ran \cup {r}
  /\ UNCHANGED <<now, faults, send, rows, began, doomed, storing, answer, purge, displaced>>

\* A unique violation, or any statement that fails: ROLLBACK and 500.
TransactionFails(r) ==
  /\ \/ /\ at[r] = "insert" /\ lock[send[r].key] \in {None, r}
        /\ ~(RowsOf(send[r].key) \subseteq doomed[r])
        /\ UNCHANGED faults
     \/ /\ at[r] \in {"delete", "wait", "insert"}
        /\ faults < MaxFaults /\ faults' = faults + 1
  /\ Reply(r, 500)
  /\ Release(r)
  /\ doomed' = [doomed EXCEPT ![r] = {}]
  /\ UNCHANGED <<now, send, rows, began, storing, purge, ran, displaced>>

Placeholder(r) ==
  [key |-> send[r].key, by |-> r, body |-> send[r].body, code |-> 0, from |-> r, born |-> began[r]]

Commit(r) ==
  /\ at[r] = "commit"
  /\ rows' = (rows \ doomed[r]) \cup {Placeholder(r)}
  /\ Release(r)
  /\ doomed' = [doomed EXCEPT ![r] = {}]
  /\ at' = [at EXCEPT ![r] = "done"]
  /\ UNCHANGED <<now, faults, send, began, storing, answer, purge, ran, displaced>>

\* The commit fails while the handler runs: 500, through the overridden json().
CommitFails(r) ==
  /\ at[r] = "commit"
  /\ faults < MaxFaults /\ faults' = faults + 1
  /\ displaced' = displaced \cup {r}
  /\ Release(r)
  /\ doomed' = [doomed EXCEPT ![r] = {}]
  /\ at' = [at EXCEPT ![r] = "done"]
  /\ answer' = [answer EXCEPT ![r] = IF @ = 0 THEN 500 ELSE @]
  /\ storing' = [storing EXCEPT ![r] = IF answer[r] = 0 THEN 500 ELSE @]
  /\ UNCHANGED <<now, send, rows, began, purge, ran>>

\* The UPDATE of the overridden json(): by key, whoever's row that is by now.
\* It may fail, and it touches nothing when the key is being replaced.
Store(r) ==
  LET mine == {x \in RowsOf(send[r].key) : lock[x.key] = None} IN
  /\ storing[r] # 0
  /\ \/ /\ rows' = (rows \ mine) \cup {[x EXCEPT !.code = storing[r], !.from = r] : x \in mine}
        /\ UNCHANGED faults
     \/ /\ faults < MaxFaults /\ faults' = faults + 1
        /\ UNCHANGED rows
  /\ storing' = [storing EXCEPT ![r] = 0]
  /\ UNCHANGED <<now, send, lock, at, began, doomed, answer, purge, ran, displaced>>

\* The oldest expired rows that nobody has locked, a batch of them.
ExpiredBatches ==
  LET due == {x \in rows : x.born + Ttl < now /\ lock[x.key] = None}
  IN {batch \in SUBSET due :
        /\ Cardinality(batch) = AtMost(Cardinality(due), BatchSize)
        /\ \A x \in batch, y \in due \ batch : x.born <= y.born}

\* One round of purgeExpiredKeys(), a job scheduled once per start of the process.
PurgeBatch ==
  /\ purge \in 0..(MaxBatches - 1)
  /\ \E batch \in ExpiredBatches :
       /\ rows' = rows \ batch
       /\ purge' = IF Cardinality(batch) < BatchSize \/ purge + 1 = MaxBatches
                   THEN Purged ELSE purge + 1
  /\ UNCHANGED <<now, faults, send, lock, at, began, doomed, storing, answer, ran, displaced>>
=============================================================================

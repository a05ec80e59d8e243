---------------------------- MODULE EscrowIndexer ----------------------------
(***************************************************************************)
(* The escrow event indexer (src/jobs/escrowIndexer.js): processes that    *)
(* poll Horizon's event stream from a cursor kept in the database, write   *)
(* every event to escrow_events and keep the newest one of each invoice in *)
(* escrow_event_projection.                                                *)
(*                                                                         *)
(* An event is named by its position in the stream, which is also the      *)
(* order of the paging tokens.  A process gives up control at every await, *)
(* so each database call is an action; a transaction's writes become       *)
(* visible when it commits.                                                *)
(***************************************************************************)
EXTENDS Naturals, Sequences

CONSTANTS
  Nodes,          \* processes that run an indexer on the same database
  Invoices,
  Contracts,
  Stream,         \* the records Horizon will publish, oldest first
  EscrowMap,      \* resolveInvoiceByAddress: [Contracts -> Invoices or None]
  BatchSize,
  None,           \* no value, or one that INVOICE_ID_REGEX rejects
  PersistMayFail  \* whether a transaction may fail (connection, pool, timeout)

Candidate == Invoices \cup {None}

Record == [explicit : Candidate, body : Candidate, topic : Candidate,
           contract : Contracts, ledger : Nat, wellFormed : BOOLEAN]

\* Horizon returns events in ascending order, and a ledger's events together.
ASSUME IndexerAssumption ==
  /\ None \notin Invoices
  /\ BatchSize \in Nat \ {0}
  /\ PersistMayFail \in BOOLEAN
  /\ EscrowMap \in [Contracts -> Candidate]
  /\ Stream \in Seq(Record)
  /\ \A i, j \in 1..Len(Stream) : i <= j => Stream[i].ledger <= Stream[j].ledger

VARIABLES
  head,         \* how much of the stream Horizon has published
  calm,         \* environment: "yes" when no fault and no stop() will follow
  cursor,       \* escrow_indexer_state.value; 0 for no row
  rows,         \* escrow_events
  projection,   \* escrow_event_projection: position of latest_event_id, 0 for no row
  timer,        \* [Nodes -> {"null", "set"}]
  pc,           \* where runCycle() of each process is
  from,         \* cursor, the local variable of runEscrowIndexerCycle
  upto,         \* nextCursor
  at,           \* the record the loop is at
  seen          \* the projection row findProjection() returned

dbVars == <<cursor, rows, projection>>
loopVars == <<from, upto, at, seen>>
envVars == <<head, calm>>
vars == <<envVars, dbVars, timer, pc, loopVars>>

Events == 1..Len(Stream)

Init ==
  /\ head = 0
  /\ calm = "no"
  /\ cursor = 0
  /\ rows = {}
  /\ projection = [i \in Invoices |-> 0]
  /\ timer = [n \in Nodes |-> "null"]
  /\ pc = [n \in Nodes |-> "idle"]
  /\ from = [n \in Nodes |-> 0]
  /\ upto = [n \in Nodes |-> 0]
  /\ at = [n \in Nodes |-> 1]
  /\ seen = [n \in Nodes |-> 0]

-----------------------------------------------------------------------------
(* Which events are written, and when the projection is replaced.          *)

\* An explicit field first, then the event's body, then a labelled topic, then
\* the reverse lookup of the contract.
deriveInvoiceId(r) ==
  IF r.explicit # None THEN r.explicit
  ELSE IF r.body # None THEN r.body
  ELSE IF r.topic # None THEN r.topic
  ELSE EscrowMap[r.contract]

invoiceOf(e) == deriveInvoiceId(Stream[e])

\* fetchEscrowEventsFromHorizon() keeps e and normalizeEvent() accepts it.
Persistable(e) == invoiceOf(e) # None /\ Stream[e].wellFormed

shouldReplaceByLedger(current, e) ==
  \/ current = 0
  \/ Stream[e].ledger > Stream[current].ledger

shouldReplaceProjection(current, e) ==
  \/ current = 0
  \/ Stream[e].ledger > Stream[current].ledger
  \/ Stream[e].ledger = Stream[current].ledger /\ e > current

-----------------------------------------------------------------------------
(* start(), stop() and the interval.                                       *)

\* runCycle(): nothing if a cycle is running.
runCycle(n) == pc' = [pc EXCEPT ![n] = IF @ = "idle" THEN "load" ELSE @]

Start(n) ==
  /\ timer[n] = "null"
  /\ timer' = [timer EXCEPT ![n] = "set"]
  /\ runCycle(n)
  /\ UNCHANGED <<envVars, dbVars, loopVars>>

IntervalFires(n) ==
  /\ timer[n] = "set"
  /\ runCycle(n)
  /\ UNCHANGED <<envVars, dbVars, timer, loopVars>>

Stop(n) ==
  /\ timer[n] = "set"
  /\ timer' = [timer EXCEPT ![n] = "null"]
  /\ UNCHANGED <<envVars, dbVars, pc, loopVars>>

\* The cycle is over and its local variables are gone.
CycleEnds(n) ==
  /\ pc' = [pc EXCEPT ![n] = "idle"]
  /\ from' = [from EXCEPT ![n] = 0]
  /\ upto' = [upto EXCEPT ![n] = 0]
  /\ at' = [at EXCEPT ![n] = 1]
  /\ seen' = [seen EXCEPT ![n] = 0]

\* The process dies; an open transaction is rolled back.
Crash(n) ==
  /\ timer' = [timer EXCEPT ![n] = "null"]
  /\ CycleEnds(n)
  /\ UNCHANGED <<envVars, dbVars>>

-----------------------------------------------------------------------------
(* runEscrowIndexerCycle().                                                *)

LoadCursor(n) ==
  /\ pc[n] = "load"
  /\ from' = [from EXCEPT ![n] = cursor]
  /\ pc' = [pc EXCEPT ![n] = "fetch"]
  /\ UNCHANGED <<envVars, dbVars, timer, upto, at, seen>>

\* Horizon answers with the records after the cursor.
FetchEvents(n) ==
  /\ pc[n] = "fetch"
  /\ upto' = [upto EXCEPT ![n] = IF from[n] + BatchSize < head THEN from[n] + BatchSize
                                 ELSE IF from[n] < head THEN head ELSE from[n]]
  /\ at' = [at EXCEPT ![n] = from[n] + 1]
  /\ pc' = [pc EXCEPT ![n] = "event"]
  /\ UNCHANGED <<envVars, dbVars, timer, from, seen>>

MoreEvents(n) == pc[n] = "event" /\ at[n] <= upto[n]

\* The loop goes on with the next record.
NextEvent(n) ==
  /\ at' = [at EXCEPT ![n] = @ + 1]
  /\ pc' = [pc EXCEPT ![n] = "event"]
  /\ seen' = [seen EXCEPT ![n] = 0]

\* No invoice, or normalizeEvent() throws: the record is passed over.
SkipRecord(n) ==
  /\ MoreEvents(n)
  /\ ~ Persistable(at[n])
  /\ NextEvent(n)
  /\ UNCHANGED <<envVars, dbVars, timer, from, upto>>

\* An insert of the same event_id waits for a transaction that has inserted it.
RowLocked(n) ==
  \E m \in Nodes \ {n} : at[m] = at[n] /\ pc[m] \in {"find", "commit"} /\ at[n] \notin rows

\* upsertEvent(): insert, on conflict ignore.
UpsertEvent(n) ==
  /\ MoreEvents(n)
  /\ Persistable(at[n])
  /\ ~ RowLocked(n)
  /\ pc' = [pc EXCEPT ![n] = "find"]
  /\ UNCHANGED <<envVars, dbVars, timer, loopVars>>

\* findProjection(): a read outside the transaction, without a lock.
FindProjection(n) ==
  /\ pc[n] = "find"
  /\ seen' = [seen EXCEPT ![n] = projection[invoiceOf(at[n])]]
  /\ pc' = [pc EXCEPT ![n] = "commit"]
  /\ UNCHANGED <<envVars, dbVars, timer, from, upto, at>>

\* upsertProjection() if the event is newer than what was seen, and the commit.
Commit(n) ==
  /\ pc[n] = "commit"
  /\ rows' = rows \cup {at[n]}
  /\ projection' = IF shouldReplaceProjection(seen[n], at[n])
                     THEN [projection EXCEPT ![invoiceOf(at[n])] = at[n]]
                     ELSE projection
  /\ NextEvent(n)
  /\ UNCHANGED <<envVars, cursor, timer, from, upto>>

\* A call of the transaction fails: rolled back, logged as a skipped event.
PersistFails(n) ==
  /\ PersistMayFail
  /\ \/ MoreEvents(n) /\ Persistable(at[n])
     \/ pc[n] \in {"find", "commit"}
  /\ NextEvent(n)
  /\ UNCHANGED <<envVars, dbVars, timer, from, upto>>

SaveCursorNever(n) ==
  /\ pc[n] = "event"
  /\ at[n] > upto[n]
  /\ CycleEnds(n)
  /\ UNCHANGED <<envVars, dbVars, timer>>

\* The batch is done: saveCursor() if it moved, and the end of the cycle.
SaveCursor(n) ==
  /\ pc[n] = "event"
  /\ at[n] > upto[n]
  /\ cursor' = IF upto[n] # from[n] THEN upto[n] ELSE cursor
  /\ CycleEnds(n)
  /\ UNCHANGED <<envVars, rows, projection, timer>>

\* loadCursor(), the request or saveCursor() throws: runCycle() logs it.
CycleFails(n) ==
  /\ \/ pc[n] \in {"load", "fetch"}
     \/ pc[n] = "event" /\ at[n] > upto[n]
  /\ CycleEnds(n)
  /\ UNCHANGED <<envVars, dbVars, timer>>

-----------------------------------------------------------------------------
\* Horizon publishes the next event.
Publish ==
  /\ head < Len(Stream)
  /\ head' = head + 1
  /\ UNCHANGED <<calm, dbVars, timer, pc, loopVars>>

CalmDown ==
  /\ calm = "no"
  /\ calm' = "yes"
  /\ UNCHANGED <<head, dbVars, timer, pc, loopVars>>

CycleStep(n) ==
  \/ LoadCursor(n) \/ FetchEvents(n) \/ SkipRecord(n) \/ UpsertEvent(n)
  \/ FindProjection(n) \/ Commit(n) \/ SaveCursor(n)

Disturbance(n) ==
  /\ calm = "no"
  /\ Stop(n) \/ PersistFails(n) \/ CycleFails(n) \/ Crash(n)

Next ==
  \/ Publish
  \/ CalmDown
  \/ \E n \in Nodes : Start(n) \/ IntervalFires(n) \/ CycleStep(n) \/ Disturbance(n)

Spec == Init /\ [][Next]_vars

\* Awaited calls return, the interval fires, and the indexer is started and left
\* alone from some time on.
FairSpec ==
  /\ Spec
  /\ WF_vars(CalmDown)
  /\ \A n \in Nodes : WF_vars(Start(n)) /\ WF_vars(IntervalFires(n)) /\ WF_vars(CycleStep(n))

-----------------------------------------------------------------------------
\* The tables and the local variables of runEscrowIndexerCycle() keep their types;
\* no position lies beyond the end of the stream.
TypeOK ==
  /\ head \in 0..Len(Stream)
  /\ calm \in {"no", "yes"}
  /\ cursor \in 0..Len(Stream)
  /\ rows \subseteq Events
  /\ projection \in [Invoices -> 0..Len(Stream)]
  /\ timer \in [Nodes -> {"null", "set"}]
  /\ pc \in [Nodes -> {"idle", "load", "fetch", "event", "find", "commit"}]
  /\ from \in [Nodes -> 0..Len(Stream)]
  /\ upto \in [Nodes -> 0..Len(Stream)]
  /\ at \in [Nodes -> 1..(Len(Stream) + 1)]
  /\ seen \in [Nodes -> 0..Len(Stream)]

\* The projection of an invoice is the newest of its events in escrow_events, and
\* there is none only if it has no event, although the row is read outside the
\* transaction that replaces it (persistEscrowEvent).
ProjectionLatest ==
  \A i \in Invoices :
    LET own == {e \in rows : invoiceOf(e) = i}
    IN  IF own = {} THEN projection[i] = 0
        ELSE projection[i] \in own /\ \A e \in own : e <= projection[i]

\* persistEscrowEvent() "updates the per-invoice projection if the event is newer
\* than the current one": no step replaces a projection by an older event.
ProjectionAdvances == [][\A i \in Invoices : projection'[i] >= projection[i]]_vars

\* Whatever the saved cursor has passed is in escrow_events, unless the record
\* has no invoice or is malformed: crashes, replays and cursors saved out of order
\* by two processes lose nothing (runEscrowIndexerCycle).
NothingSkipped == \A e \in Events : e <= cursor /\ Persistable(e) => e \in rows

\* Indexers that are left alone end up with every published event they can key
\* (createEscrowIndexer, runEscrowIndexerCycle).
EventsIndexed == <>[](\A e \in Events : head >= e /\ Persistable(e) => e \in rows)

=============================================================================

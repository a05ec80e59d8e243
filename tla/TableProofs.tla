---------------------------- MODULE TableProofs -----------------------------
(***************************************************************************)
(* Tables and maps that several processes, requests or callers write at    *)
(* once, for any number of them: indexed events and their projections, the *)
(* audit trail, the invoices and the cache of token metadata.              *)
(*                                                                         *)
(* The projection row is read outside the transaction that replaces it;    *)
(* what keeps it right is the primary key of escrow_events.  A process     *)
(* that is about to replace a projection by event e has inserted e and     *)
(* holds its row, so no other process is past e (FreshlySeen,              *)
(* OneInserter), and since every process goes through the stream in order  *)
(* the rows are closed under older events (Closed): nothing newer than e   *)
(* is there.                                                               *)
(* AuditInv: a row is stamped once and in the past, and a reader has kept  *)
(* what was there when it counted.  InvoiceInv: what a request has read,   *)
(* locked and announced of an invoice.  MetaInv: how long an entry lives,  *)
(* and that a promise in the map has not settled.                          *)
(***************************************************************************)
EXTENDS EscrowIndexer, AuditTrail, InvoiceWrites, TokenMeta,
        FiniteSetTheorems, TLAPS

-----------------------------------------------------------------------------
(* Indexed events.                                                         *)

InTransaction == {"find", "commit"}

InLoop == {"event", "find", "commit"}

\* Every event up to and including e that can be keyed is in escrow_events.
DoneUpTo(e) == \A f \in Events : f <= e /\ Persistable(f) => f \in rows

Closed == \A e \in rows : Persistable(e) /\ DoneUpTo(e)

Progress ==
  \A n \in Nodes :
    /\ pc[n] = "fetch" => DoneUpTo(from[n])
    /\ pc[n] \in InLoop => DoneUpTo(at[n] - 1)
    /\ pc[n] \in InTransaction => at[n] \in Events /\ Persistable(at[n])

OneInserter ==
  \A m, n \in Nodes :
    m # n /\ pc[m] \in InTransaction /\ pc[n] \in InTransaction /\ at[m] = at[n] => at[n] \in rows

FreshlySeen ==
  \A n \in Nodes : pc[n] = "commit" =>
    /\ seen[n] = 0 \/ seen[n] \in rows
    /\ at[n] > seen[n] => at[n] \notin rows

IndexerInv ==
  /\ TypeOK
  /\ Closed
  /\ NothingSkipped
  /\ Progress
  /\ OneInserter
  /\ FreshlySeen
  /\ ProjectionLatest

-----------------------------------------------------------------------------
\* Ledgers do not decrease along the stream, so the comparison of ledgers and
\* paging tokens is the order of the stream (shouldReplaceProjection).
LEMMA ReplaceIsNewer ==
  ASSUME NEW e \in Events, NEW cur \in 0..Len(Stream)
  PROVE  shouldReplaceProjection(cur, e) <=> e > cur
<1>1. Len(Stream) \in Nat /\ \A i \in Events : Stream[i] \in Record
  BY IndexerAssumption DEF Events
<1>2. CASE cur = 0
  BY <1>2 DEF shouldReplaceProjection, Events
<1>3. CASE cur # 0
  <2>1. cur \in Events
    BY <1>1, <1>3 DEF Events
  <2>2. Stream[e].ledger \in Nat /\ Stream[cur].ledger \in Nat
    BY <1>1, <2>1 DEF Record
  <2>3. /\ e <= cur => Stream[e].ledger <= Stream[cur].ledger
        /\ cur <= e => Stream[cur].ledger <= Stream[e].ledger
    BY <2>1, IndexerAssumption DEF Events
  <2>4. QED
    BY <1>1, <1>3, <2>1, <2>2, <2>3 DEF shouldReplaceProjection, Events
<1>4. QED
  BY <1>2, <1>3

\* A record that can be stored names an invoice.
LEMMA InvoiceType ==
  ASSUME NEW e \in Events, Persistable(e)
  PROVE  invoiceOf(e) \in Invoices
<1>1. Stream[e] \in Record
  BY IndexerAssumption DEF Events
<1>2. invoiceOf(e) \in Candidate
  BY Zenon, <1>1, IndexerAssumption DEF invoiceOf, deriveInvoiceId, Record, Candidate
<1>3. QED
  BY <1>2 DEF Persistable, Candidate

\* The stream is a sequence.
LEMMA LenType == Len(Stream) \in Nat
BY IndexerAssumption

-----------------------------------------------------------------------------
\* Empty tables satisfy the invariant.
LEMMA IndexerInitial == Init => IndexerInv
BY LenType DEF Init, IndexerInv, TypeOK, Closed, NothingSkipped, Progress, OneInserter, FreshlySeen,
               ProjectionLatest, Events, InLoop, InTransaction

\* A step that leaves the database alone.
LEMMA DatabaseSame ==
  ASSUME Closed, NothingSkipped, ProjectionLatest, UNCHANGED dbVars
  PROVE  /\ Closed' /\ NothingSkipped' /\ ProjectionLatest'
         /\ \A e : DoneUpTo(e)' <=> DoneUpTo(e)
BY DEF dbVars, Closed, NothingSkipped, ProjectionLatest, DoneUpTo

\* The facts of TypeOK the steps below use.
LEMMA TypeFacts ==
  ASSUME TypeOK
  PROVE  /\ head \in 0..Len(Stream) /\ calm \in {"no", "yes"} /\ cursor \in 0..Len(Stream)
    /\ rows \subseteq Events
         /\ projection \in [Invoices -> 0..Len(Stream)]
         /\ pc \in [Nodes -> {"idle", "load", "fetch", "event", "find", "commit"}]
         /\ from \in [Nodes -> 0..Len(Stream)] /\ upto \in [Nodes -> 0..Len(Stream)]
         /\ at \in [Nodes -> 1..(Len(Stream) + 1)] /\ seen \in [Nodes -> 0..Len(Stream)]
BY Zenon DEF TypeOK

\* The commit of a transaction, the only step that changes rows or projections.
LEMMA CommitStep ==
  ASSUME IndexerInv, NEW n \in Nodes, Commit(n)
  PROVE  IndexerInv' /\ \A j \in Invoices : projection'[j] >= projection[j]
<1> USE LenType DEF IndexerInv
<1>t. /\ head \in 0..Len(Stream) /\ calm \in {"no", "yes"} /\ cursor \in 0..Len(Stream) /\ rows \subseteq Events
      /\ projection \in [Invoices -> 0..Len(Stream)]
      /\ pc \in [Nodes -> {"idle", "load", "fetch", "event", "find", "commit"}]
      /\ from \in [Nodes -> 0..Len(Stream)] /\ upto \in [Nodes -> 0..Len(Stream)]
      /\ at \in [Nodes -> 1..(Len(Stream) + 1)] /\ seen \in [Nodes -> 0..Len(Stream)]
  BY Zenon, TypeFacts
<1> DEFINE e == at[n]
           i == invoiceOf(e)
<1>1. /\ pc[n] = "commit" /\ pc' = [pc EXCEPT ![n] = "event"]
      /\ at' = [at EXCEPT ![n] = @ + 1] /\ seen' = [seen EXCEPT ![n] = 0]
      /\ rows' = rows \cup {e}
      /\ UNCHANGED <<envVars, cursor, timer, from, upto>>
  BY DEF Commit, NextEvent
<1>2. e \in Events /\ Persistable(e) /\ DoneUpTo(e - 1)
  BY <1>1 DEF Progress, InTransaction, InLoop
<1>3. i \in Invoices
  BY Zenon, <1>2, InvoiceType
<1>4. projection' = IF e > seen[n] THEN [projection EXCEPT ![i] = e] ELSE projection
  BY Zenon, <1>t, <1>2, ReplaceIsNewer DEF Commit
<1>5. TypeOK'
  <2>1. e + 1 \in 1..(Len(Stream) + 1) /\ e \in 0..Len(Stream)
    BY <1>2 DEF Events
  <2>2. projection' \in [Invoices -> 0..Len(Stream)]
    BY Zenon, <1>t, <1>3, <1>4, <2>1
  <2>3. pc' \in [Nodes -> {"idle", "load", "fetch", "event", "find", "commit"}]
    BY Zenon, <1>t, <1>1
  <2>4. at' \in [Nodes -> 1..(Len(Stream) + 1)]
    BY Zenon, <1>t, <1>1, <2>1
  <2>5. seen' \in [Nodes -> 0..Len(Stream)]
    BY <1>t, <1>1
  <2>6. rows' \subseteq Events
    BY Zenon, <1>t, <1>1, <1>2
  <2>7. QED
    BY Zenon, <1>1, <2>2, <2>3, <2>4, <2>5, <2>6 DEF TypeOK, envVars
\* A process that replaces the projection commits the newest event of all.
<1>6. e > seen[n] => e \notin rows /\ \A f \in rows : f < e
  <2>1. ASSUME e > seen[n], NEW f \in rows, ~ (f < e) PROVE FALSE
    <3>1. e \notin rows
      BY Zenon, <1>1, <2>1 DEF FreshlySeen
    <3>2. e <= f
      BY <1>t, <1>2, <2>1 DEF Events
    <3>3. e \in rows
      BY Zenon, <1>2, <2>1, <3>2 DEF Closed, DoneUpTo
    <3>4. QED
      BY <3>1, <3>3
  <2>2. QED
    BY Zenon, <1>1, <2>1 DEF FreshlySeen
\* One that does not replace it commits an event that is there already.
<1>7. ~ (e > seen[n]) => e \in rows
  <2>1. ASSUME ~ (e > seen[n]) PROVE e \in rows
    <3>1. seen[n] \in rows /\ e <= seen[n]
      BY <1>t, <1>1, <1>2, <2>1 DEF FreshlySeen, Events
    <3>2. QED
      BY <1>2, <3>1 DEF Closed, DoneUpTo
  <2>2. QED
    BY <2>1
<1>8. \A f \in Events : f <= e /\ Persistable(f) => f \in rows'
  <2>1. \A f \in Events : f <= e => f <= e - 1 \/ f = e
    BY <1>2 DEF Events
  <2>2. QED
    BY Zenon, <1>1, <1>2, <2>1 DEF DoneUpTo
<1>9. \A f : DoneUpTo(f) => DoneUpTo(f)'
  BY <1>1 DEF DoneUpTo
<1>10. Closed'
  BY Zenon, <1>1, <1>2, <1>8 DEF Closed, DoneUpTo
<1>17. NothingSkipped'
  BY <1>1 DEF NothingSkipped
<1>11. Progress'
  <2>1. (e + 1) - 1 = e
    BY <1>2 DEF Events
  <2>2. at'[n] = e + 1 /\ pc'[n] = "event"
    BY Zenon, <1>t, <1>1
  <2>3. DoneUpTo(at[n] - 1)'
    BY <1>8, <2>1, <2>2 DEF DoneUpTo
  <2>4. QED
    BY Zenon, <1>t, <1>1, <1>9, <2>2, <2>3 DEF Progress, InLoop, InTransaction
<1>12. OneInserter'
  BY Zenon, <1>t, <1>1 DEF OneInserter, InTransaction
<1>13. FreshlySeen'
  <2>1. ASSUME NEW m \in Nodes, pc'[m] = "commit"
        PROVE  /\ seen'[m] = 0 \/ seen'[m] \in rows'
               /\ at'[m] > seen'[m] => at'[m] \notin rows'
    <3>1. m # n /\ pc[m] = "commit" /\ seen'[m] = seen[m] /\ at'[m] = at[m]
      BY Zenon, <1>t, <1>1, <2>1
    <3>2. at[m] = e => e \in rows
      BY Zenon, <1>1, <3>1 DEF OneInserter, InTransaction
    <3>3. QED
      BY <1>1, <3>1, <3>2 DEF FreshlySeen
  <2>2. QED
    BY <2>1 DEF FreshlySeen
<1>14. ProjectionLatest' /\ \A j \in Invoices : projection'[j] >= projection[j]
  <2>1. CASE e > seen[n]
    <3>1. /\ e \notin rows /\ (\A f \in rows : f < e)
          /\ projection' = [projection EXCEPT ![i] = e]
      BY Zenon, <2>1, <1>4, <1>6
    <3>2. \A j \in Invoices : projection[j] = 0 \/ projection[j] \in rows
      BY DEF ProjectionLatest
    <3>3. ASSUME NEW j \in Invoices PROVE projection'[j] >= projection[j]
      <4>1. projection[j] \in 0..Len(Stream) /\ e \in Nat /\ projection[j] <= e
        BY <1>t, <1>2, <3>1, <3>2 DEF Events
      <4>2. projection'[j] = e \/ projection'[j] = projection[j]
        BY Zenon, <1>t, <3>1
      <4>3. QED
        BY <4>1, <4>2
    <3>4. ASSUME NEW j \in Invoices
          PROVE  LET own == {f \in rows' : invoiceOf(f) = j}
                 IN  IF own = {} THEN projection'[j] = 0
                     ELSE projection'[j] \in own /\ \A f \in own : f <= projection'[j]
      <4>1. CASE j = i
        <5>1. projection'[j] = e /\ e \in {f \in rows' : invoiceOf(f) = j}
          BY Zenon, <1>t, <1>1, <1>3, <3>1, <4>1
        <5>2. \A f \in rows' : f <= e
          BY <1>t, <1>1, <1>2, <3>1 DEF Events
        <5>3. QED
          BY Zenon, <5>1, <5>2
      <4>2. CASE j # i
        <5>1. projection'[j] = projection[j]
          BY Zenon, <1>t, <3>1, <4>2
        <5>2. {f \in rows' : invoiceOf(f) = j} = {f \in rows : invoiceOf(f) = j}
          BY Zenon, <1>1, <4>2
        <5>3. QED
          BY Zenon, <5>1, <5>2 DEF ProjectionLatest
      <4>3. QED
        BY Zenon, <4>1, <4>2
    <3>5. QED
      BY Zenon, <3>3, <3>4 DEF ProjectionLatest
  <2>2. CASE ~ (e > seen[n])
    <3>1. rows' = rows /\ projection' = projection
      BY Zenon, <2>2, <1>1, <1>4, <1>7
    <3>2. QED
      BY <1>t, <3>1 DEF ProjectionLatest
  <2>3. QED
    BY <2>1, <2>2
<1>15. QED
  BY Zenon, <1>5, <1>10, <1>17, <1>11, <1>12, <1>13, <1>14

\* Every step of every process keeps the invariant while transactions do not fail.
LEMMA IndexerInductive ==
  ASSUME PersistMayFail = FALSE, IndexerInv, [Next]_vars
  PROVE  IndexerInv'
<1> USE LenType DEF IndexerInv
<1>t. /\ head \in 0..Len(Stream) /\ calm \in {"no", "yes"} /\ cursor \in 0..Len(Stream) /\ rows \subseteq Events
      /\ projection \in [Invoices -> 0..Len(Stream)]
      /\ pc \in [Nodes -> {"idle", "load", "fetch", "event", "find", "commit"}]
      /\ from \in [Nodes -> 0..Len(Stream)] /\ upto \in [Nodes -> 0..Len(Stream)]
      /\ at \in [Nodes -> 1..(Len(Stream) + 1)] /\ seen \in [Nodes -> 0..Len(Stream)]
  BY Zenon, TypeFacts
<1>0. CASE UNCHANGED vars
  BY Zenon, <1>0 DEF vars, envVars, dbVars, loopVars, TypeOK, Closed, NothingSkipped, Progress,
     OneInserter, FreshlySeen,
              ProjectionLatest, DoneUpTo
<1>1. CASE Publish \/ CalmDown
  <2>1. UNCHANGED <<dbVars, timer, pc, loopVars>>
    BY <1>1 DEF Publish, CalmDown
  <2>2. TypeOK'
    BY <1>1, <1>t, <2>1 DEF Publish, CalmDown, TypeOK, dbVars, loopVars
  <2>3. QED
    BY Zenon, <2>1, <2>2, DatabaseSame DEF Progress, OneInserter, FreshlySeen, dbVars, loopVars
\* An action of n outside the transaction that leaves the database alone.
<1>2. ASSUME NEW n \in Nodes, UNCHANGED dbVars, TypeOK',
             \A m \in Nodes \ {n} : pc'[m] = pc[m] /\ from'[m] = from[m] /\ at'[m] = at[m]
               /\ seen'[m] = seen[m],
             pc'[n] \in {"idle", "load", "fetch", "event"},
             pc'[n] = "fetch" => DoneUpTo(from'[n]),
             pc'[n] = "event" => DoneUpTo(at'[n] - 1)
      PROVE  IndexerInv'
  <2>1. Closed' /\ NothingSkipped' /\ ProjectionLatest' /\ \A e : DoneUpTo(e)' <=> DoneUpTo(e)
    BY Zenon, <1>2, DatabaseSame
  <2>2. Progress'
    BY Zenon, <1>2, <2>1 DEF Progress, InLoop, InTransaction
  <2>3. OneInserter' /\ FreshlySeen'
    BY <1>2 DEF OneInserter, FreshlySeen, InTransaction, dbVars
  <2>4. QED
    BY Zenon, <1>2, <2>1, <2>2, <2>3
<1>3. ASSUME NEW n \in Nodes, Start(n) \/ IntervalFires(n) \/ Stop(n) PROVE IndexerInv'
  <2>1. /\ UNCHANGED <<envVars, dbVars, loopVars>>
        /\ pc' = pc \/ pc' = [pc EXCEPT ![n] = IF @ = "idle" THEN "load" ELSE @]
        /\ timer' \in [Nodes -> {"null", "set"}]
    BY Zenon, <1>3 DEF Disturbance, Start, IntervalFires, Stop, runCycle, TypeOK
  <2>2. TypeOK'
    BY Zenon, <1>t, <2>1 DEF TypeOK, envVars, dbVars, loopVars
  <2>3. Closed' /\ NothingSkipped' /\ ProjectionLatest' /\ \A e : DoneUpTo(e)' <=> DoneUpTo(e)
    BY Zenon, <2>1, DatabaseSame
  <2>4. \A m \in Nodes : pc'[m] = pc[m] \/ (pc[m] = "idle" /\ pc'[m] = "load")
    BY ZenonT(60), <1>t, <2>1
  <2>5. Progress' /\ OneInserter' /\ FreshlySeen'
    BY Zenon, <2>1, <2>3, <2>4 DEF Progress, OneInserter, FreshlySeen, InLoop, InTransaction, dbVars, loopVars
  <2>6. QED
    BY Zenon, <2>2, <2>3, <2>5
<1>4. ASSUME NEW n \in Nodes, CycleEnds(n), UNCHANGED <<envVars, dbVars>>,
             timer' \in [Nodes -> {"null", "set"}]
      PROVE  IndexerInv'
  <2>1. TypeOK'
    BY <1>4, <1>t DEF CycleEnds, TypeOK, envVars, dbVars
  <2>2. /\ \A m \in Nodes \ {n} : pc'[m] = pc[m] /\ from'[m] = from[m] /\ at'[m] = at[m] /\ seen'[m] = seen[m]
        /\ pc'[n] = "idle"
    BY Zenon, <1>4, <1>t DEF CycleEnds
  <2>3. QED
    BY Zenon, <1>2, <1>4, <2>1, <2>2
<1>5. ASSUME NEW n \in Nodes, LoadCursor(n) PROVE IndexerInv'
  <2>1. /\ from' = [from EXCEPT ![n] = cursor] /\ pc' = [pc EXCEPT ![n] = "fetch"]
        /\ UNCHANGED <<envVars, dbVars, timer, upto, at, seen>>
    BY <1>5 DEF LoadCursor
  <2>2. TypeOK'
    BY Zenon, <1>t, <2>1 DEF TypeOK, envVars, dbVars
  <2>3. DoneUpTo(cursor)
    BY DEF NothingSkipped, DoneUpTo
  <2>4. QED
    BY Zenon, <1>2, <1>t, <2>1, <2>2, <2>3
<1>6. ASSUME NEW n \in Nodes, FetchEvents(n) PROVE IndexerInv'
  <2>1. /\ pc[n] = "fetch"
        /\ at' = [at EXCEPT ![n] = from[n] + 1] /\ pc' = [pc EXCEPT ![n] = "event"]
        /\ UNCHANGED <<envVars, dbVars, timer, from, seen>>
    BY Zenon, <1>6 DEF FetchEvents
  <2>2. upto' \in [Nodes -> 0..Len(Stream)]
    BY <1>6, <1>t, IndexerAssumption DEF FetchEvents
  <2>3. TypeOK'
    <3>1. from[n] + 1 \in 1..(Len(Stream) + 1)
      BY <1>t
    <3>2. QED
      BY Zenon, <1>t, <2>1, <2>2, <3>1 DEF TypeOK, envVars, dbVars
  <2>4. DoneUpTo((from[n] + 1) - 1)
    <3>1. (from[n] + 1) - 1 = from[n]
      BY <1>t
    <3>2. QED
      BY Zenon, <2>1, <3>1 DEF Progress
  <2>5. QED
    BY Zenon, <1>2, <1>t, <2>1, <2>3, <2>4
<1>7. ASSUME NEW n \in Nodes, SkipRecord(n) PROVE IndexerInv'
  <2>1. /\ pc[n] = "event" /\ at[n] <= upto[n] /\ ~ Persistable(at[n])
        /\ at' = [at EXCEPT ![n] = @ + 1] /\ pc' = [pc EXCEPT ![n] = "event"]
        /\ seen' = [seen EXCEPT ![n] = 0]
        /\ UNCHANGED <<envVars, dbVars, timer, from, upto>>
    BY Zenon, <1>7 DEF SkipRecord, MoreEvents, NextEvent
  <2>2. at[n] + 1 \in 1..(Len(Stream) + 1) /\ 0 \in 0..Len(Stream)
    BY <1>t, <2>1
  <2>3. TypeOK'
    BY Zenon, <1>t, <2>1, <2>2 DEF TypeOK, envVars, dbVars
  <2>4. DoneUpTo((at[n] + 1) - 1)
    <3>1. \A f \in Events : f <= (at[n] + 1) - 1 => f <= at[n] - 1 \/ f = at[n]
      BY <1>t DEF Events
    <3>2. DoneUpTo(at[n] - 1)
      BY Zenon, <2>1 DEF Progress, InLoop
    <3>3. QED
      BY Zenon, <2>1, <3>1, <3>2 DEF DoneUpTo
  <2>5. QED
    BY Zenon, <1>2, <1>t, <2>1, <2>3, <2>4
<1>8. ASSUME NEW n \in Nodes, UpsertEvent(n) PROVE IndexerInv'
  <2>1. /\ pc[n] = "event" /\ at[n] <= upto[n] /\ Persistable(at[n])
        /\ pc' = [pc EXCEPT ![n] = "find"]
        /\ UNCHANGED <<envVars, dbVars, timer, loopVars>>
        /\ \A m \in Nodes \ {n} : at[m] = at[n] /\ pc[m] \in {"find", "commit"} => at[n] \in rows
    BY Zenon, <1>8 DEF UpsertEvent, MoreEvents, RowLocked
  <2>2. TypeOK'
    BY Zenon, <1>t, <2>1 DEF TypeOK, envVars, dbVars, loopVars
  <2>3. Closed' /\ NothingSkipped' /\ ProjectionLatest' /\ \A e : DoneUpTo(e)' <=> DoneUpTo(e)
    BY Zenon, <2>1, DatabaseSame
  <2>4. at[n] \in Events
    BY <1>t, <2>1 DEF Events
  <2>5. Progress'
    BY Zenon, <1>t, <2>1, <2>3, <2>4 DEF Progress, InLoop, InTransaction, loopVars
  <2>6. OneInserter'
    <3>1. at' = at /\ rows' = rows /\ \A m \in Nodes \ {n} : pc'[m] = pc[m]
      BY Zenon, <1>t, <2>1 DEF loopVars, dbVars
    <3>2. ASSUME NEW k \in Nodes, NEW m \in Nodes, k # m, at[k] = at[m],
                 pc'[k] \in InTransaction, pc'[m] \in InTransaction
          PROVE  at[m] \in rows
      <4>1. CASE k = n
        BY Zenon, <2>1, <3>1, <3>2, <4>1 DEF InTransaction
      <4>2. CASE m = n
        BY Zenon, <2>1, <3>1, <3>2, <4>2 DEF InTransaction
      <4> QED BY Zenon, <1>t, <3>1, <3>2, <4>1, <4>2 DEF OneInserter
    <3> QED BY Zenon, <3>1, <3>2 DEF OneInserter
  <2>7. FreshlySeen'
    BY Zenon, <1>t, <2>1 DEF FreshlySeen, loopVars, dbVars
  <2>8. QED
    BY Zenon, <2>2, <2>3, <2>5, <2>6, <2>7
<1>9. ASSUME NEW n \in Nodes, FindProjection(n) PROVE IndexerInv'
  <2> DEFINE i == invoiceOf(at[n])
  <2>1. /\ pc[n] = "find" /\ pc' = [pc EXCEPT ![n] = "commit"]
        /\ seen' = [seen EXCEPT ![n] = projection[i]]
        /\ UNCHANGED <<envVars, dbVars, timer, from, upto, at>>
    BY <1>9 DEF FindProjection
  <2>2. at[n] \in Events /\ Persistable(at[n])
    BY <2>1 DEF Progress, InTransaction
  <2>3. i \in Invoices
    BY <2>2, InvoiceType
  <2>4. TypeOK'
    BY Zenon, <1>t, <2>1, <2>3 DEF TypeOK, envVars, dbVars
  <2>5. Closed' /\ NothingSkipped' /\ ProjectionLatest' /\ \A e : DoneUpTo(e)' <=> DoneUpTo(e)
    BY <2>1, DatabaseSame
  <2>6. /\ projection[i] = 0 \/ projection[i] \in rows
        /\ at[n] > projection[i] => at[n] \notin rows
    BY <1>t, <2>2, <2>3 DEF ProjectionLatest, Events
  <2> HIDE DEF i
  <2>7. Progress' /\ OneInserter'
    BY Zenon, <1>t, <2>1, <2>5 DEF Progress, OneInserter, InLoop, InTransaction, dbVars
  <2>8. FreshlySeen'
    BY Zenon, <1>t, <2>1, <2>6 DEF FreshlySeen, dbVars
  <2>9. QED
    BY Zenon, <2>4, <2>5, <2>7, <2>8
<1>10. ASSUME NEW n \in Nodes, Commit(n) PROVE IndexerInv'
  BY <1>10, CommitStep
<1>11. ASSUME NEW n \in Nodes, SaveCursor(n) PROVE IndexerInv'
  <2>1. /\ pc[n] = "event" /\ at[n] > upto[n] /\ CycleEnds(n)
        /\ cursor' = IF upto[n] # from[n] THEN upto[n] ELSE cursor
        /\ UNCHANGED <<envVars, rows, projection, timer>>
    BY <1>11 DEF SaveCursor
  <2>2. TypeOK'
    BY <1>t, <2>1 DEF CycleEnds, TypeOK, envVars
  <2>3. DoneUpTo(upto[n])
    <3>1. DoneUpTo(at[n] - 1)
      BY <2>1 DEF Progress, InLoop
    <3>2. QED
      BY <1>t, <2>1, <3>1 DEF DoneUpTo, Events
  <2>4. NothingSkipped'
    BY <2>1, <2>3 DEF NothingSkipped, DoneUpTo
  <2>5. Closed' /\ ProjectionLatest' /\ \A e : DoneUpTo(e)' <=> DoneUpTo(e)
    BY <2>1 DEF Closed, ProjectionLatest, DoneUpTo
  <2>6. /\ \A m \in Nodes \ {n} : pc'[m] = pc[m] /\ from'[m] = from[m] /\ at'[m] = at[m] /\ seen'[m] = seen[m]
        /\ pc'[n] = "idle"
    BY Zenon, <1>t, <2>1 DEF CycleEnds
  <2>7. Progress' /\ OneInserter' /\ FreshlySeen'
    BY <2>1, <2>5, <2>6 DEF Progress, OneInserter, FreshlySeen, InLoop, InTransaction
  <2>8. QED
    BY Zenon, <2>2, <2>4, <2>5, <2>7
<1>12. ASSUME NEW n \in Nodes, PersistFails(n) \/ CycleFails(n) \/ Crash(n) PROVE IndexerInv'
  <2>1. CycleEnds(n) /\ UNCHANGED <<envVars, dbVars>> /\ timer' \in [Nodes -> {"null", "set"}]
    BY Zenon, <1>12 DEF PersistFails, CycleFails, Crash, TypeOK
  <2>2. QED
    BY <1>4, <2>1
<1>13. QED
  BY ZenonT(60), <1>0, <1>1, <1>3, <1>5, <1>6, <1>7, <1>8, <1>9, <1>10, <1>11, <1>12 DEF Next, CycleStep, Disturbance

\* No step moves a projection back.
LEMMA ProjectionSteps ==
  ASSUME PersistMayFail = FALSE, IndexerInv, [Next]_vars
  PROVE  \A i \in Invoices : projection'[i] >= projection[i]
<1>1. ASSUME NEW n \in Nodes, Commit(n) PROVE \A i \in Invoices : projection'[i] >= projection[i]
  BY <1>1, CommitStep
<1>2. ASSUME projection' = projection PROVE \A i \in Invoices : projection'[i] >= projection[i]
  BY <1>2, LenType DEF IndexerInv, TypeOK
<1>3. (\E n \in Nodes : Commit(n)) \/ projection' = projection
  BY Zenon DEF Next, Publish, Start, IntervalFires, Stop, CalmDown, CycleStep, Disturbance,
     LoadCursor, FetchEvents, SkipRecord,
         UpsertEvent, FindProjection, SaveCursor, PersistFails, CycleFails, Crash, vars, dbVars
<1>4. QED
  BY <1>1, <1>2, <1>3

-----------------------------------------------------------------------------
\* The inductive invariant holds, for any number of processes.
THEOREM IndexerInvariant ==
  ASSUME PersistMayFail = FALSE
  PROVE  Spec => []IndexerInv
<1>1. Init => IndexerInv
  BY IndexerInitial
<1>2. IndexerInv /\ [Next]_vars => IndexerInv'
  BY Zenon, IndexerInductive
<1>3. QED
  BY <1>1, <1>2, PTL DEF Spec

\* The projection is the newest stored event of its invoice, with any number of
\* processes reading it outside their transactions (persistEscrowEvent).
THEOREM ProjectionIsLatest ==
  ASSUME PersistMayFail = FALSE
  PROVE  Spec => []ProjectionLatest
BY IndexerInvariant, PTL DEF IndexerInv

\* The cursor never passes an event that is not stored (runEscrowIndexerCycle).
THEOREM NothingIsSkipped ==
  ASSUME PersistMayFail = FALSE
  PROVE  Spec => []NothingSkipped
BY IndexerInvariant, PTL DEF IndexerInv

\* No step replaces a projection by an older event (shouldReplaceProjection).
THEOREM ProjectionOnlyAdvances ==
  ASSUME PersistMayFail = FALSE
  PROVE  Spec => ProjectionAdvances
<1>1. IndexerInv /\ [Next]_vars => [\A i \in Invoices : projection'[i] >= projection[i]]_vars
  BY Zenon, ProjectionSteps
<1>2. QED
  BY <1>1, IndexerInvariant, PTL DEF Spec, ProjectionAdvances

-----------------------------------------------------------------------------
(* The audit trail.                                                        *)

\* A set of numbers with a bound has a largest one.
LEMMA LargestBelow ==
  ASSUME NEW n \in Nat, NEW S, S \subseteq 0..n, S # {}
  PROVE  \E i \in S : \A j \in S : j <= i
<1> DEFINE T == {n - i : i \in S}
<1>1. \A x, y \in Nat : x < y <=> <<x, y>> \in OpToRel(<, Nat)
  BY Zenon DEF OpToRel
<1>2. IsWellFoundedOn(OpToRel(<, Nat), Nat)
  BY Zenon, NatLessThanWellFounded
<1>3. T \subseteq Nat /\ T # {}
  <2>1. \A i \in S : n - i \in Nat
    OBVIOUS
  <2> QED BY Zenon, <2>1
<1>4. PICK x \in T : \A y \in T : ~(<<y, x>> \in OpToRel(<, Nat))
  BY Zenon, <1>2, <1>3, WFMin
<1>5. \A y \in T : ~(y < x)
  BY Zenon, <1>1, <1>3, <1>4
<1>6. PICK i \in S : x = n - i
  BY Zenon, <1>4
<1>7. \A j \in S : ~(n - j < n - i)
  BY Zenon, <1>5, <1>6
<1> QED BY <1>7

\* Events are finitely many, however they are chosen.
LEMMA EventsFinite ==
  ASSUME IsFiniteSet(events), NEW S, S \subseteq events
  PROVE  IsFiniteSet(S) /\ Cardinality(S) \in Nat
<1>1. IsFiniteSet(S)
  BY FS_Subset
<1> QED BY <1>1, FS_CardinalityType

\* If an event lies behind k newer ones, some event may come right after the first k
\* rows of the query.
LEMMA PlaceTaken ==
  ASSUME stamp \in Nat, IsFiniteSet(events), \A d \in events : d.at \in 0..stamp,
         NEW e \in events, NEW k \in Nat, Cardinality(Newer(e)) >= k
  PROVE  \E f \in events : k + 1 \in Places(f)
<1> DEFINE From(b) == {d \in events : d.at >= b}
           StampedAt(b) == {d \in events : d.at = b}
           B == {b \in 0..stamp : Cardinality(From(b)) > k}
<1>1. \A b : /\ IsFiniteSet(From(b)) /\ Cardinality(From(b)) \in Nat
             /\ IsFiniteSet(StampedAt(b)) /\ Cardinality(StampedAt(b)) \in Nat
  <2>1. \A b : From(b) \subseteq events /\ StampedAt(b) \subseteq events
    OBVIOUS
  <2> HIDE DEF From, StampedAt
  <2> QED BY Zenon, <2>1, EventsFinite
<1>2. e.at \in B
  <2>1. IsFiniteSet(Newer(e)) /\ Cardinality(Newer(e)) \in Nat
    BY EventsFinite DEF Newer
  <2>2. e \notin Newer(e) /\ Newer(e) \cup {e} \subseteq From(e.at)
    BY DEF Newer
  <2>3. Cardinality(Newer(e) \cup {e}) = Cardinality(Newer(e)) + 1
    BY Zenon, <2>1, <2>2, FS_AddElement
  <2>4. Cardinality(Newer(e) \cup {e}) <= Cardinality(From(e.at))
    BY Zenon, <1>1, <2>2, FS_Subset
  <2>5. e.at \in 0..stamp /\ Cardinality(From(e.at)) \in Nat
    BY Zenon, <1>1
  <2> HIDE DEF From
  <2> QED BY <2>1, <2>3, <2>4, <2>5
<1>3. PICK b \in B : \A c \in B : c <= b
  <2>1. B \subseteq 0..stamp /\ B # {}
    BY Zenon, <1>2
  <2> HIDE DEF B
  <2> QED BY Zenon, <2>1, LargestBelow
<1>4. b \in Nat /\ b <= stamp /\ Cardinality(From(b)) > k
  BY <1>3
<1>5. ~(Cardinality(From(b + 1)) > k)
  <2>1. CASE b + 1 <= stamp
    <3>1. b + 1 \in 0..stamp /\ ~(b + 1 <= b)
      BY <1>4, <2>1
    <3>2. b + 1 \notin B
      BY Zenon, <1>3, <3>1
    <3> HIDE DEF From
    <3> QED BY <3>1, <3>2
  <2>2. CASE ~(b + 1 <= stamp)
    <3>1. From(b + 1) = {}
      BY <1>4, <2>2
    <3>2. Cardinality(From(b + 1)) = 0
      BY Zenon, <3>1, FS_EmptySet
    <3> HIDE DEF From
    <3> QED BY <3>2
  <2> QED BY <2>1, <2>2
<1>6. From(b) = From(b + 1) \cup StampedAt(b) /\ From(b + 1) \cap StampedAt(b) = {}
  BY <1>4
<1>7. Cardinality(From(b)) = Cardinality(From(b + 1)) + Cardinality(StampedAt(b))
  <2> HIDE DEF From, StampedAt
  <2>1. Cardinality(From(b + 1) \cap StampedAt(b)) = 0
    BY <1>6, FS_EmptySet
  <2>2. Cardinality(From(b)) = Cardinality(From(b + 1)) + Cardinality(StampedAt(b)) - Cardinality(From(b + 1) \cap StampedAt(b))
    BY <1>1, <1>6, FS_Union
  <2> QED BY <1>1, <2>1, <2>2
<1>8. StampedAt(b) # {}
  <2> HIDE DEF From, StampedAt
  <2>1. Cardinality({}) = 0
    BY Zenon, FS_EmptySet
  <2>2. Cardinality(From(b)) \in Nat /\ Cardinality(From(b + 1)) \in Nat /\ Cardinality(From(b)) > k
    BY Zenon, <1>1, <1>4
  <2>3. Cardinality(StampedAt(b)) # 0
    BY <1>5, <1>7, <2>2
  <2> QED BY Zenon, <2>1, <2>3
<1>9. PICK f \in events : f.at = b
  BY <1>8
<1>10. {d \in events : d.at > f.at} = From(b + 1) /\ {d \in events : d.at = f.at} = StampedAt(b)
  BY <1>4, <1>9
<1>11. Places(f) = (Cardinality(From(b + 1)) + 1)..(Cardinality(From(b + 1)) + Cardinality(StampedAt(b)))
  BY Zenon, <1>10 DEF Places
<1>12. Cardinality(From(b + 1)) \in Nat /\ Cardinality(StampedAt(b)) \in Nat /\ Cardinality(From(b)) \in Nat
  BY Zenon, <1>1
<1>13. k + 1 \in (Cardinality(From(b + 1)) + 1)..(Cardinality(From(b + 1)) + Cardinality(StampedAt(b)))
  <2> HIDE DEF From, StampedAt
  <2> QED BY <1>4, <1>5, <1>7, <1>12
<1> QED BY Zenon, <1>9, <1>11, <1>13

\* A page of the query: it is empty only past the last event, and an event alone with
\* its created_at is on the page its place is on.
LEMMA PageOfPlaces ==
  ASSUME stamp \in Nat, IsFiniteSet(events), \A d \in events : d.at \in 0..stamp,
         NEW e \in events, NEW k \in Nat, Cardinality(Newer(e)) >= k, ~Shared(e),
         NEW taken \in PageRows(k), e \notin taken
  PROVE  taken # {} /\ Cardinality(Newer(e)) >= k + CappedLimit
<1> DEFINE Alike(x) == {d \in taken : d.at = x.at}
           n == Cardinality(Newer(e))
           page == (k + 1)..(k + CappedLimit)
<1>1. CappedLimit \in Nat \ {0} /\ n \in Nat
  <2>1. n \in Nat
    BY EventsFinite DEF Newer
  <2> QED BY <2>1, AuditAssumption DEF CappedLimit
<1>2. taken \subseteq events /\ \A x \in events : Cardinality(Alike(x)) = Cardinality(Places(x) \cap page)
  BY DEF PageRows, PagesBetween
<1>3. ASSUME NEW x \in events, Alike(x) = {} PROVE Places(x) \cap page = {}
  <2>1. Cardinality(Places(x) \cap page) = 0
    <3>1. Cardinality(Alike(x)) = 0
      BY Zenon, <1>3, FS_EmptySet
    <3> HIDE DEF Alike, page
    <3> QED BY Zenon, <1>2, <3>1
  <2>2. IsFiniteSet(page)
    <3>1. k + 1 \in Int /\ k + CappedLimit \in Int
      BY <1>1
    <3> QED BY <3>1, FS_Interval
  <2>3. IsFiniteSet(Places(x) \cap page)
    <3> HIDE DEF page
    <3>1. Places(x) \cap page \subseteq page
      BY Zenon
    <3> QED BY Zenon, <2>2, <3>1, FS_Subset
  <2> HIDE DEF page
  <2> QED BY Zenon, <2>1, <2>3, FS_EmptySet
<1>4. taken # {}
  <2>1. PICK f \in events : k + 1 \in Places(f)
    BY Zenon, PlaceTaken
  <2>2. k + 1 \in page
    BY <1>1
  <2>3. Alike(f) # {}
    <3> HIDE DEF Alike, page
    <3> QED BY Zenon, <1>3, <2>1, <2>2
  <2> QED BY Zenon, <2>3
<1>5. Places(e) = (n + 1)..(n + 1)
  <2>1. {d \in events : d.at = e.at} = {e}
    BY DEF Shared
  <2>2. Cardinality({d \in events : d.at = e.at}) = 1
    BY Zenon, <2>1, FS_Singleton
  <2> QED BY Zenon, <2>2 DEF Places, Newer
<1>6. Alike(e) = {}
  BY <1>2 DEF Shared
<1>7. n + 1 \notin page
  <2>1. n + 1 \in Places(e)
    BY <1>1, <1>5
  <2>2. Places(e) \cap page = {}
    BY Zenon, <1>3, <1>6
  <2> HIDE DEF page, n
  <2> QED BY Zenon, <2>1, <2>2
<1>8. n >= k
  OBVIOUS
<1> HIDE DEF n
<1>9. n >= k + CappedLimit
  BY <1>1, <1>7, <1>8
<1> QED BY <1>4, <1>9 DEF n

\* An empty log, and nobody reads.
LEMMA AuditStart == AuditInit => AuditInv
<1>1. IsFiniteSet({})
  BY FS_EmptySet
<1> QED BY <1>1 DEF AuditInit, AuditInv

\* What a step of a request adds to the inserts under way is stamped by the clock.
LEMMA CaptureStep ==
  ASSUME AuditInv, NEW r \in Mutations, SendOverride(r) \/ JsonOverride(r) \/ SendString(r)
  PROVE  AuditInv'
<1>1. Capture(r, answers[r].body) /\ UNCHANGED <<events, reader>>
  BY DEF SendOverride, JsonOverride, SendString
<1>2. CASE UNCHANGED <<inserts, stamp>>
  BY Zenon, <1>1, <1>2 DEF AuditInv, Newer, Shared
<1>3. CASE CreateAuditLog(r)
  <2>1. PICK x : x.at = stamp' /\ inserts' = inserts \union {x}
    BY Zenon, <1>3 DEF CreateAuditLog
  <2>2. stamp' \in Nat /\ stamp' >= stamp
    BY <1>3 DEF AuditInv, CreateAuditLog
  <2>3. IsFiniteSet(inserts')
    BY <2>1, FS_AddElement DEF AuditInv
  <2>4. \A e \in inserts' \union events' : e.at \in 0..stamp'
    BY <1>1, <2>1, <2>2 DEF AuditInv
  <2>5. \A e : Newer(e)' = Newer(e) /\ (Shared(e)' <=> Shared(e))
    BY <1>1 DEF Newer, Shared
  <2> QED BY Zenon, <1>1, <2>2, <2>3, <2>4, <2>5 DEF AuditInv
<1> QED BY <1>1, <1>2, <1>3 DEF Capture

\* A commit only pushes events to later places.
LEMMA AppendStep ==
  ASSUME AuditInv, NEW x \in inserts, AppendAuditEvent(x)
  PROVE  AuditInv'
<1>1. inserts' = inserts \ {x} /\ events' = events \union {x} /\ UNCHANGED <<stamp, reader>>
  BY DEF AppendAuditEvent
<1>2. IsFiniteSet(inserts') /\ IsFiniteSet(events')
  BY Zenon, <1>1, FS_AddElement, FS_RemoveElement DEF AuditInv
<1>3. \A e \in inserts' \union events' : e.at \in 0..stamp'
  BY <1>1 DEF AuditInv
<1>4. \A e : Shared(e) => Shared(e)'
  BY <1>1 DEF Shared
<1>5. \A e : /\ Cardinality(Newer(e)) \in Nat /\ Cardinality(Newer(e)') \in Nat
             /\ Cardinality(Newer(e)) <= Cardinality(Newer(e)')
  <2> SUFFICES ASSUME NEW e
               PROVE  /\ Cardinality(Newer(e)) \in Nat /\ Cardinality(Newer(e)') \in Nat
                      /\ Cardinality(Newer(e)) <= Cardinality(Newer(e)')
    OBVIOUS
  <2>1. Newer(e) \subseteq Newer(e)' /\ Newer(e)' \subseteq events'
    BY <1>1 DEF Newer
  <2>2. IsFiniteSet(Newer(e)')
    BY <1>2, <2>1, FS_Subset
  <2>3. IsFiniteSet(Newer(e)) /\ Cardinality(Newer(e)) <= Cardinality(Newer(e)')
    BY <2>1, <2>2, FS_Subset
  <2> QED BY Zenon, <2>2, <2>3, FS_CardinalityType
<1>6. \A e : Cardinality(Newer(e)) >= reader.offset => Cardinality(Newer(e)') >= reader.offset
  BY <1>5 DEF AuditInv
<1> QED BY Zenon, <1>1, <1>2, <1>3, <1>4, <1>6 DEF AuditInv

\* An insert that failed is gone.
LEMMA LoseStep ==
  ASSUME AuditInv, NEW x \in inserts, LoseEvent(x)
  PROVE  AuditInv'
<1>1. inserts' = inserts \ {x} /\ UNCHANGED <<stamp, events, reader>>
  BY DEF LoseEvent
<1>2. IsFiniteSet(inserts')
  BY Zenon, <1>1, FS_RemoveElement DEF AuditInv
<1>3. \A e : Newer(e)' = Newer(e) /\ (Shared(e)' <=> Shared(e))
  BY <1>1 DEF Newer, Shared
<1> QED BY Zenon, <1>1, <1>2, <1>3 DEF AuditInv

\* The reader starts, or reads a page.
LEMMA ReaderStep ==
  ASSUME AuditInv, StartReading \/ ReadEvents
  PROVE  AuditInv'
<1>0. /\ UNCHANGED <<stamp, inserts, events>> /\ stamp \in Nat /\ IsFiniteSet(events)
      /\ \A d \in events : d.at \in 0..stamp
  BY Zenon DEF AuditInv, StartReading, ReadEvents
<1>1. \A e : Newer(e)' = Newer(e) /\ (Shared(e)' <=> Shared(e))
  BY Zenon, <1>0 DEF Newer, Shared
<1>2. CASE StartReading
  <2>1. reader' = [at |-> "paging", offset |-> 0, got |-> {}, first |-> events]
    BY <1>2 DEF StartReading
  <2>2. \A e : Cardinality(Newer(e)) \in Nat
    <3>1. \A e : Newer(e) \subseteq events
      BY DEF Newer
    <3> QED BY Zenon, <1>0, <3>1, EventsFinite
  <2>3. reader'.at = "paging" /\ reader'.offset = 0 /\ reader'.first = events
    BY Zenon, <2>1
  <2>4. \A e : Cardinality(Newer(e)') >= reader'.offset
    <3>1. \A e : Cardinality(Newer(e)) >= 0
      BY <2>2
    <3> QED BY Zenon, <1>1, <2>3, <3>1
  <2>5. 0 \in Nat
    OBVIOUS
  <2> QED BY Zenon, <1>0, <2>3, <2>4, <2>5 DEF AuditInv
<1>3. CASE ReadEvents
  <2>1. PICK taken \in PageRows(reader.offset) :
          reader' = [reader EXCEPT !.at = IF taken = {} THEN "done" ELSE "paging",
                                   !.offset = @ + CappedLimit, !.got = @ \union taken]
    BY Zenon, <1>3 DEF ReadEvents
  <2>2. reader.at = "paging" /\ reader.offset \in Nat /\ reader.first \subseteq events
    BY Zenon, <1>3 DEF ReadEvents, AuditInv
  <2>3. CappedLimit \in Nat
    BY AuditAssumption DEF CappedLimit
  <2>4. /\ reader'.at \in {"paging", "done"} /\ reader'.offset = reader.offset + CappedLimit
        /\ reader'.first = reader.first /\ reader'.got = reader.got \union taken
        /\ taken # {} => reader'.at = "paging"
    BY <2>1
  <2>5. ASSUME NEW e \in reader.first, e \notin reader'.got, ~Shared(e)
        PROVE  reader'.at = "paging" /\ Cardinality(Newer(e)) >= reader'.offset
    <3>1. e \in events /\ e \notin taken /\ Cardinality(Newer(e)) >= reader.offset
      BY Zenon, <2>2, <2>4, <2>5 DEF AuditInv
    <3>2. taken # {} /\ Cardinality(Newer(e)) >= reader.offset + CappedLimit
      BY Zenon, <1>0, <2>1, <2>2, <2>5, <3>1, PageOfPlaces
    <3> QED BY <2>4, <3>2
  <2>6. reader'.offset \in Nat /\ reader'.at # "idle"
    BY <2>2, <2>3, <2>4
  <2>7. \A e \in reader'.first : \/ e \in reader'.got \/ Shared(e)'
                                 \/ reader'.at = "paging" /\ Cardinality(Newer(e)') >= reader'.offset
    BY Zenon, <1>1, <2>4, <2>5
  <2> QED BY Zenon, <1>0, <2>2, <2>4, <2>6, <2>7 DEF AuditInv
<1> QED BY <1>2, <1>3

\* Every step keeps the invariant.
LEMMA AuditInductive == AuditInv /\ [AuditNext]_auditVars => AuditInv'
<1> SUFFICES ASSUME AuditInv, [AuditNext]_auditVars PROVE AuditInv'
  BY Zenon
<1>1. CASE UNCHANGED auditVars
  BY <1>1 DEF auditVars, AuditInv, Newer, Shared
<1> QED BY Zenon, <1>1, CaptureStep, AppendStep, LoseStep, ReaderStep DEF AuditNext

\* The inductive invariant of the audit log and its reader.
THEOREM AuditInvariant == AuditSpec => []AuditInv
BY AuditStart, AuditInductive, PTL DEF AuditSpec

\* getAuditLogs() by offset, to the first empty page, meets every event that was there
\* at the start and is alone with its created_at, for any number of requests and any
\* page size, while events commit in any order.
THEOREM TrailIsReadWhole == AuditSpec => []TrailReadWhole
<1>1. AuditInv => TrailReadWhole
  BY DEF AuditInv, TrailReadWhole, Shared
<1> QED BY <1>1, AuditInvariant, PTL

-----------------------------------------------------------------------------
(* Writes to an invoice.                                                   *)

USE DEF Values

\* A row the program can start from, and requests that have not begun.
LEMMA InvoiceStart == InvoiceInit => InvoiceInv
<1> SUFFICES ASSUME InvoiceInit PROVE InvoiceInv
  OBVIOUS
<1>1. row \in [tenant : Tenants \union {"none"}, status : Statuses, deleted : BOOLEAN,
               amount : Values, notes : Values]
  <2>1. CASE row = NoRow
    BY <2>1, InvoiceAssumption DEF NoRow
  <2>2. CASE row \in [tenant : Tenants, status : Statuses, deleted : {FALSE},
                      amount : {"first"}, notes : {"first"}]
    BY Zenon, <2>2
  <2> QED BY Zenon, <2>1, <2>2 DEF InvoiceInit
<1>2. writes \in [Writes -> [at : {"start", "resolved", "read", "write", "ok", "refused", "lost"},
                             tenant : Tenants, plan : Plans, seen : Statuses]]
  BY InvoiceAssumption DEF InvoiceInit
<1>3. \A r \in Writes : writes[r].at = "start"
  BY DEF InvoiceInit
<1> QED
  BY Zenon, <1>1, <1>2, <1>3 DEF InvoiceInit, InvoiceInv, InvoiceTypeOK, Announced, ReadUnlocked,
     TransitionsAudited

\* A request that reads the row takes its status along and keeps its plan.
LEMMA ReadKeeps ==
  ASSUME InvoiceTypeOK, NEW r \in Writes, NEW goal \in {"read", "write"},
         writes' = [writes EXCEPT ![r].at = goal, ![r].seen = row.status]
  PROVE  /\ writes' \in [Writes -> [at : {"start", "resolved", "read", "write", "ok", "refused", "lost"},
                                    tenant : Tenants, plan : Plans, seen : Statuses]]
         /\ writes'[r].at = goal /\ writes'[r].seen = row.status
         /\ \A q \in Writes : writes'[q].plan = writes[q].plan
         /\ \A q \in Writes \ {r} : writes'[q] = writes[q]
<1>1. row.status \in Statuses /\ writes[r] \in [at : {"start", "resolved", "read", "write", "ok", "refused", "lost"},
                                    tenant : Tenants, plan : Plans, seen : Statuses]
  BY DEF InvoiceTypeOK
<1>2. writes'[r] = [writes[r] EXCEPT !.at = goal, !.seen = row.status]
  BY DEF InvoiceTypeOK
<1>3. \A q \in Writes \ {r} : writes'[q] = writes[q]
  BY DEF InvoiceTypeOK
<1>4. DOMAIN writes' = Writes /\ writes' = [q \in Writes |-> writes'[q]]
  BY Zenon DEF InvoiceTypeOK
<1> QED BY Zenon, <1>1, <1>2, <1>3, <1>4 DEF InvoiceTypeOK

\* Such a read preserves the invariant when what it goes on to is in order.
LEMMA ReadStep ==
  ASSUME InvoiceInv, NEW r \in Writes, NEW goal \in {"read", "write"},
         writes' = [writes EXCEPT ![r].at = goal, ![r].seen = row.status],
         UNCHANGED <<row, trail, changed>>,
         goal = "write" => /\ row.status \notin LockedStatuses
                           /\ writes[r].plan.kind = "transition" =>
                                \E e \in trail : e.by = r /\ e.to = writes[r].plan.target
  PROVE  InvoiceInv'
<1>0. InvoiceTypeOK
  BY DEF InvoiceInv
<1>1. /\ writes' \in [Writes -> [at : {"start", "resolved", "read", "write", "ok", "refused", "lost"},
                                 tenant : Tenants, plan : Plans, seen : Statuses]]
      /\ writes'[r].at = goal /\ writes'[r].seen = row.status
      /\ \A q \in Writes : writes'[q].plan = writes[q].plan
      /\ \A q \in Writes \ {r} : writes'[q] = writes[q]
  BY Zenon, <1>0, ReadKeeps
<1>2. InvoiceTypeOK'
  BY Zenon, <1>0, <1>1 DEF InvoiceTypeOK
<1>3. Announced'
  BY <1>1 DEF InvoiceInv, Announced
<1>4. ReadUnlocked'
  BY <1>1 DEF InvoiceInv, ReadUnlocked
<1>5. TransitionsAudited'
  BY <1>0, <1>1 DEF InvoiceInv, InvoiceTypeOK, TransitionsAudited
<1> QED BY Zenon, <1>2, <1>3, <1>4, <1>5 DEF InvoiceInv

\* Answers without a write, and the first reads: the row, the trail and the
\* history stay as they are.
LEMMA FirstSteps ==
  ASSUME InvoiceInv, NEW r \in Writes,
         Refuse400(r) \/ PatchResolves(r) \/ TransitionResolves(r)
  PROVE  InvoiceInv'
<1>1. CASE Refuse400(r)
  BY <1>1 DEF InvoiceInv, InvoiceTypeOK, Announced, ReadUnlocked, TransitionsAudited, Refuse400, Goto
<1>2. CASE PatchResolves(r)
  BY <1>2 DEF InvoiceInv, InvoiceTypeOK, Announced, ReadUnlocked, TransitionsAudited, PatchResolves, Goto
<1>3. CASE TransitionResolves(r)
  BY Zenon, <1>3, ReadStep DEF TransitionResolves
<1> QED BY Zenon, <1>1, <1>2, <1>3

\* createInvoice() inserts the first row.
LEMMA CreateStep ==
  ASSUME InvoiceInv, NEW r \in Writes, CreateInvoice(r)
  PROVE  InvoiceInv'
  BY InvoiceAssumption
  DEF InvoiceInv, InvoiceTypeOK, Announced, ReadUnlocked, TransitionsAudited, CreateInvoice, Goto

\* executeTransition() announces what it lets pass, for the request itself.
LEMMA ExecuteStep ==
  ASSUME InvoiceInv, NEW r \in Writes, ExecuteTransition(r)
  PROVE  InvoiceInv'
<1>1. writes[r].plan.target \in Statuses /\ writes[r].seen \in Statuses
  BY Zenon, InvoiceAssumption DEF InvoiceInv, InvoiceTypeOK, ExecuteTransition
<1>2. \A q \in Writes : writes'[q].plan = writes[q].plan /\ (q # r => writes'[q] = writes[q])
  BY DEF InvoiceInv, InvoiceTypeOK, ExecuteTransition, Goto
<1>3. InvoiceTypeOK'
  BY <1>1 DEF InvoiceInv, InvoiceTypeOK, ExecuteTransition, Goto
<1>4. Announced'
  <2> DEFINE event == [by |-> r, from |-> writes[r].seen, to |-> writes[r].plan.target]
  <2>1. event \in trail' /\ event.by = r /\ event.to = writes[r].plan.target
    BY Zenon DEF ExecuteTransition
  <2> SUFFICES ASSUME NEW q \in Writes, writes'[q].plan.kind = "transition",
                      writes'[q].at \in {"resolved", "write"}
               PROVE  \E e \in trail' : e.by = q /\ e.to = writes'[q].plan.target
    BY DEF Announced
  <2>2. CASE q = r
    BY Zenon, <1>2, <2>1, <2>2
  <2>3. CASE q # r
    BY <1>2, <2>3 DEF InvoiceInv, Announced, ExecuteTransition
  <2> QED BY Zenon, <2>2, <2>3
<1>5. ReadUnlocked'
  BY Zenon DEF InvoiceInv, InvoiceTypeOK, ReadUnlocked, ExecuteTransition, Goto
<1>6. TransitionsAudited'
  BY <1>2 DEF InvoiceInv, InvoiceTypeOK, TransitionsAudited, ExecuteTransition
<1> QED BY Zenon, <1>3, <1>4, <1>5, <1>6 DEF InvoiceInv

\* The checks of updateInvoice() and deleteInvoice() pass an unlocked row only.
LEMMA CheckStep ==
  ASSUME InvoiceInv, NEW r \in Writes, CheckLocked(r) \/ DeleteInvoice(r)
  PROVE  InvoiceInv'
<1>1. row.status \notin LockedStatuses
  BY Zenon DEF CheckLocked, DeleteInvoice, Owned, IsLocked
<1>2. CASE CheckLocked(r)
  <2>1. writes[r].plan.kind = "transition" => \E e \in trail : e.by = r /\ e.to = writes[r].plan.target
    BY Zenon, <1>2 DEF InvoiceInv, Announced, CheckLocked
  <2> QED BY Zenon, <1>1, <1>2, <2>1, ReadStep DEF CheckLocked, ReadStatus
<1>3. CASE DeleteInvoice(r)
  BY Zenon, <1>1, <1>3, ReadStep DEF DeleteInvoice, ReadStatus
<1> QED BY Zenon, <1>2, <1>3

\* What the UPDATE leaves is a row.
LEMMA UpdatedType ==
  ASSUME InvoiceTypeOK, NEW r \in Writes
  PROVE  Updated(r) \in [tenant : Tenants \union {"none"}, status : Statuses, deleted : BOOLEAN,
                         amount : Values, notes : Values]
<1>1. writes[r].plan.kind = "transition" => writes[r].plan.target \in Statuses
  BY DEF InvoiceTypeOK, Plans
<1> QED BY ZenonT(60), <1>1 DEF InvoiceTypeOK, Updated, SoftDeleted

\* The UPDATE of a transition comes after its event.
LEMMA UpdateStep ==
  ASSUME InvoiceInv, NEW r \in Writes, Update(r)
  PROVE  InvoiceInv'
<1>1. InvoiceTypeOK'
  BY UpdatedType DEF InvoiceInv, InvoiceTypeOK, Update, Goto
<1>2. Announced' /\ ReadUnlocked'
  BY DEF InvoiceInv, InvoiceTypeOK, Announced, ReadUnlocked, Update, Goto
<1>3. TransitionsAudited'
  <2>1. \A q \in Writes : writes'[q].plan = writes[q].plan
    BY DEF InvoiceInv, InvoiceTypeOK, Update, Goto
  <2>2. writes[r].plan.kind = "transition" => \E e \in trail : e.by = r /\ e.to = writes[r].plan.target
    BY DEF InvoiceInv, Announced, Update
  <2> QED BY <2>1, <2>2 DEF InvoiceInv, InvoiceTypeOK, TransitionsAudited, Update
<1> QED BY Zenon, <1>1, <1>2, <1>3 DEF InvoiceInv

\* Neither a status set elsewhere nor a crash disturbs it.
LEMMA SurroundingStep ==
  ASSUME InvoiceInv, SetElsewhere \/ InvoiceCrash
  PROVE  InvoiceInv'
<1>1. CASE SetElsewhere
  BY <1>1, InvoiceAssumption
  DEF InvoiceInv, InvoiceTypeOK, Announced, ReadUnlocked, TransitionsAudited, SetElsewhere
<1>2. CASE InvoiceCrash
  BY <1>2 DEF InvoiceInv, InvoiceTypeOK, Announced, ReadUnlocked, TransitionsAudited, InvoiceCrash
<1> QED BY Zenon, <1>1, <1>2

\* The invariant behind the writes of invoiceService.js: a request that is about
\* to issue its UPDATE has read an unlocked status and, if it is a transition,
\* has its event in the trail.
THEOREM InvoiceInvariant == InvoiceSpec => []InvoiceInv
<1>1. InvoiceInit => InvoiceInv
  BY InvoiceStart
<1>2. InvoiceInv /\ [InvoiceNext]_invoiceVars => InvoiceInv'
  <2> SUFFICES ASSUME InvoiceInv, [InvoiceNext]_invoiceVars
               PROVE  InvoiceInv'
    OBVIOUS
  <2>1. CASE InvoiceNext
    BY Zenon, <2>1, FirstSteps, CreateStep, ExecuteStep, CheckStep, UpdateStep, SurroundingStep DEF InvoiceNext
  <2>2. CASE UNCHANGED invoiceVars
    BY <2>2 DEF invoiceVars, InvoiceInv, InvoiceTypeOK, Announced, ReadUnlocked, TransitionsAudited
  <2> QED BY Zenon, <2>1, <2>2
<1> QED BY <1>1, <1>2, PTL DEF InvoiceSpec

\* transitionInvoice() stores no status without its audit event.
THEOREM TransitionsAreAudited == InvoiceSpec => []TransitionsAudited
<1>1. InvoiceInv => TransitionsAudited
  BY DEF InvoiceInv
<1> QED BY <1>1, InvoiceInvariant, PTL

\* A locked invoice changes only by the UPDATE of a request that was overtaken
\* between the check of updateInvoice() or deleteInvoice() and that UPDATE.
THEOREM LockedChangesAreOvertaken == InvoiceSpec => LockedOnlyOvertaken
<1> DEFINE Changes == \/ row'.status \notin LockedStatuses \/ row'.deleted # row.deleted
                      \/ row'.amount # row.amount \/ row'.notes # row.notes
           ByOne == \E r \in Writes : /\ writes[r].at = "write" /\ writes[r].tenant = row.tenant
                                      /\ writes[r].seen \notin LockedStatuses
                                      /\ writes'[r].at = "ok"
<1>1. InvoiceInv /\ [InvoiceNext]_invoiceVars => [IsLocked /\ Changes => ByOne]_invoiceVars
  <2> SUFFICES ASSUME InvoiceInv, InvoiceNext, IsLocked, Changes
               PROVE  ByOne
    OBVIOUS
  <2>1. row' # row
    BY DEF IsLocked
  <2>2. ASSUME SetElsewhere PROVE FALSE
    BY Zenon, <2>2, InvoiceAssumption DEF InvoiceInv, InvoiceTypeOK, SetElsewhere
  <2>3. ASSUME NEW r \in Writes, CreateInvoice(r) PROVE FALSE
    BY <2>3 DEF CreateInvoice, IsLocked
  <2>4. ASSUME NEW r \in Writes, Update(r) PROVE ByOne
    <3>1. Owned(r)
      BY Zenon, <2>1, <2>4 DEF Update
    <3>2. writes[r].at = "write" /\ writes[r].tenant = row.tenant
      BY Zenon, <3>1, <2>4 DEF Update, Owned
    <3>3. writes[r].seen \notin LockedStatuses
      BY <3>2 DEF InvoiceInv, ReadUnlocked
    <3>4. writes'[r].at = "ok"
      BY Zenon, <2>4 DEF InvoiceInv, InvoiceTypeOK, Update, Goto
    <3> QED BY Zenon, <3>2, <3>3, <3>4
  <2> QED
    BY Zenon, <2>1, <2>2, <2>3, <2>4
    DEF InvoiceNext, Refuse400, PatchResolves, TransitionResolves, ExecuteTransition, CheckLocked,
        DeleteInvoice, InvoiceCrash
<1> QED BY <1>1, InvoiceInvariant, PTL DEF InvoiceSpec, LockedOnlyOvertaken

-----------------------------------------------------------------------------
(* Token metadata.                                                         *)

\* An empty cache and nobody waiting.
LEMMA MetaStart == MetaInit => MetaInv
<1> SUFFICES ASSUME MetaInit PROVE MetaInv
  BY Zenon
<1>1. 0 \in Nat /\ 0 <= 0
  OBVIOUS
<1>2. NoCall \in [at : {"new", "waiting", "resolved", "rejected"}, key : Keys \cup {NoMeta},
                  since : Nat, cachedAt : Nat \cup {NoMeta}]
  BY Zenon, <1>1 DEF NoCall
<1>3. MetaTypeOK
  BY Zenon, <1>1, <1>2 DEF MetaInit, MetaTypeOK
<1>4. \A c \in Callers : call[c].since <= clock /\ call[c].at = "new"
  BY Zenon, <1>1 DEF MetaInit, NoCall
<1> QED BY Zenon, <1>3, <1>4 DEF MetaInit, MetaInv, MetadataWithinTtl

\* A new call that does not end with metadata leaves every other call alone.
LEMMA ResultStep ==
  ASSUME MetaInv, NEW c \in Callers, NEW asset \in Assets,
         NEW where \in {"waiting", "resolved", "rejected"}, NEW when \in Nat \cup {NoMeta},
         Result(c, asset, where, when), UNCHANGED clock,
         where = "resolved" => when \in Nat /\ clock <= when + MetaTtl
  PROVE  /\ call' \in [Callers -> [at : {"new", "waiting", "resolved", "rejected"}, key : Keys \cup {NoMeta},
                                   since : Nat, cachedAt : Nat \cup {NoMeta}]]
         /\ \A d \in Callers : call'[d].since <= clock'
         /\ \A d \in Callers : call'[d].at = "resolved" => call'[d].cachedAt \in Nat
         /\ MetadataWithinTtl'
<1>1. asset.key \in Keys
  BY Zenon DEF Keys
<1>2. call'[c] = [at |-> where, key |-> asset.key, since |-> clock, cachedAt |-> when]
  BY Zenon DEF Result, MetaInv, MetaTypeOK
<1>3. \A d \in Callers \ {c} : call'[d] = call[d]
  BY Zenon DEF Result, MetaInv, MetaTypeOK
<1>4. call' \in [Callers -> [at : {"new", "waiting", "resolved", "rejected"}, key : Keys \cup {NoMeta},
                             since : Nat, cachedAt : Nat \cup {NoMeta}]]
  BY Zenon, <1>1 DEF Result, MetaInv, MetaTypeOK
<1>5. /\ call'[c].since <= clock'
      /\ where = "resolved" => call'[c].cachedAt \in Nat /\ call'[c].since <= call'[c].cachedAt + MetaTtl
  <2>1. clock <= clock'
    BY DEF MetaInv, MetaTypeOK
  <2>2. call'[c].since = clock /\ call'[c].cachedAt = when
    BY <1>2
  <2> QED BY Zenon, <2>1, <2>2
<1>6. /\ \A d \in Callers \ {c} : call'[d].since <= clock'
      /\ \A d \in Callers \ {c} : call'[d].at = "resolved" =>
           call'[d].cachedAt \in Nat /\ call'[d].since <= call'[d].cachedAt + MetaTtl
  <2> SUFFICES ASSUME NEW d \in Callers \ {c}
               PROVE  /\ call'[d].since <= clock'
                      /\ call'[d].at = "resolved" =>
                           call'[d].cachedAt \in Nat /\ call'[d].since <= call'[d].cachedAt + MetaTtl
    BY Zenon
  <2>1. call'[d] = call[d] /\ clock' = clock
    BY Zenon, <1>3
  <2>2. /\ call[d].since <= clock
        /\ call[d].at = "resolved" => call[d].cachedAt \in Nat /\ call[d].since <= call[d].cachedAt + MetaTtl
    BY Zenon DEF MetaInv, MetadataWithinTtl
  <2> QED BY Zenon, <2>1, <2>2
<1>7. call'[c].at = where
  BY <1>2
<1> QED
  BY Zenon, <1>4, <1>5, <1>6, <1>7 DEF MetadataWithinTtl

\* validateAsset() and the cache: an entry that answers is within its time.
LEMMA CacheStep ==
  ASSUME MetaInv, NEW c \in Callers, NEW asset \in Assets,
         RefuseAsset(c, asset) \/ CacheHit(c, asset)
  PROVE  MetaInv'
<1>1. asset.key \in Keys
  BY DEF Keys
<1>2. CASE RefuseAsset(c, asset)
  BY Zenon, <1>2, ResultStep DEF RefuseAsset, MetaInv, MetaTypeOK
<1>3. CASE CacheHit(c, asset)
  <2>1. CachedMeta(asset.key) \in Nat /\ clock <= CachedMeta(asset.key) + MetaTtl
    BY Zenon, <1>1, <1>3 DEF CacheHit, CachedMeta, MetaInv, MetaTypeOK
  <2>2. UNCHANGED <<clock, tokenCache, inFlight, fetching>>
    BY Zenon, <1>3 DEF CacheHit
  <2>3. Result(c, asset, "resolved", CachedMeta(asset.key))
    BY Zenon, <1>3 DEF CacheHit
  <2> QED BY Zenon, <2>1, <2>2, <2>3, ResultStep DEF MetaInv, MetaTypeOK
<1> QED BY Zenon, <1>2, <1>3

\* A promise found in the map has not settled, so the caller waits for it.
LEMMA JoinStep ==
  ASSUME MetaInv, NEW c \in Callers, NEW asset \in Assets, Join(c, asset)
  PROVE  MetaInv'
<1>1. asset.key \in Keys /\ asset.key \in fetching /\ inFlight[asset.key] \in Flight
  BY Zenon DEF Keys, Join, MetaInv, MetaTypeOK
<1>2. inFlight[asset.key].cachedAt \in Nat \cup {NoMeta}
  BY Zenon, <1>1 DEF Flight
<1>3. Result(c, asset, "waiting", inFlight[asset.key].cachedAt)
  BY Zenon, <1>1 DEF Join
<1>4. inFlight' \in [Keys -> Flight \cup {NoMeta}] /\ \A k \in Keys \ {asset.key} : inFlight'[k] = inFlight[k]
  BY Zenon, <1>1 DEF Join, Flight, MetaInv, MetaTypeOK
<1>5. UNCHANGED <<clock, tokenCache, fetching>>
  BY DEF Join
<1> QED BY Zenon, <1>1, <1>2, <1>3, <1>4, <1>5, ResultStep DEF MetaInv, MetaTypeOK

\* A caller that finds nothing starts the request and waits.
LEMMA FetchStep ==
  ASSUME MetaInv, NEW c \in Callers, NEW asset \in Assets, Fetch(c, asset)
  PROVE  MetaInv'
<1>1. asset.key \in Keys
  BY Zenon DEF Keys
<1>2. inFlight' \in [Keys -> Flight \cup {NoMeta}] /\ \A k \in Keys \ {asset.key} : inFlight'[k] = inFlight[k]
  BY <1>1 DEF Fetch, Flight, MetaInv, MetaTypeOK
<1>3. Result(c, asset, "waiting", NoMeta) /\ UNCHANGED <<clock, tokenCache>>
      /\ fetching' = fetching \cup {asset.key}
  BY DEF Fetch
<1> QED BY Zenon, <1>1, <1>2, <1>3, ResultStep DEF MetaInv, MetaTypeOK

\* The end of a fetch stamps the entry and answers all who share the promise.
LEMMA FetchEndsStep ==
  ASSUME MetaInv, NEW k \in Keys, FetchEnds(k)
  PROVE  MetaInv'
<1>1. /\ tokenCache' \in [Keys -> [cachedAt : Nat, expiresAt : Nat] \cup {NoMeta}]
      /\ \A j \in Keys : tokenCache'[j] # NoMeta => tokenCache'[j].expiresAt = tokenCache'[j].cachedAt + MetaTtl
  <2>1. Stamped \in [cachedAt : Nat, expiresAt : Nat] /\ Stamped.expiresAt = Stamped.cachedAt + MetaTtl
    BY MetaAssumption DEF Stamped, MetaInv, MetaTypeOK
  <2>2. tokenCache' = [tokenCache EXCEPT ![k] = Stamped]
    BY Zenon DEF FetchEnds
  <2> QED BY Zenon, <2>1, <2>2 DEF MetaInv, MetaTypeOK
<1>2. inFlight' \in [Keys -> Flight \cup {NoMeta}] /\ \A j \in Keys : inFlight'[j] # NoMeta => j \in fetching'
  BY Zenon DEF FetchEnds, MetaInv, MetaTypeOK
<1>3. \A c \in Callers : \/ call'[c] = call[c]
                         \/ call'[c] = [call[c] EXCEPT !.at = "resolved", !.cachedAt = clock]
  BY Zenon DEF FetchEnds
<1> DEFINE CallRecords == [at : {"new", "waiting", "resolved", "rejected"}, key : Keys \cup {NoMeta},
                           since : Nat, cachedAt : Nat \cup {NoMeta}]
<1>4. \A c \in Callers : call[c] \in CallRecords /\ clock \in Nat
  BY Zenon DEF MetaInv, MetaTypeOK
<1>5. \A c \in Callers : /\ call'[c] \in CallRecords
                         /\ call'[c].since = call[c].since
                         /\ \/ call'[c] = call[c]
                            \/ call'[c].at = "resolved" /\ call'[c].cachedAt = clock
  <2> TAKE c \in Callers
  <2>1. CASE call'[c] = call[c]
    BY Zenon, <1>4, <2>1
  <2>2. CASE call'[c] = [call[c] EXCEPT !.at = "resolved", !.cachedAt = clock]
    <3>1. call[c] \in CallRecords /\ clock \in Nat
      BY Zenon, <1>4
    <3> QED BY Zenon, <2>2, <3>1
  <2> QED BY Zenon, <1>3, <2>1, <2>2
<1>6. call' \in [Callers -> CallRecords]
  BY Zenon, <1>5 DEF FetchEnds
<1>7. clock' = clock /\ fetching' \subseteq Keys
  BY Zenon DEF FetchEnds, MetaInv, MetaTypeOK
<1>8. MetadataWithinTtl'
  BY <1>5, MetaAssumption DEF MetaInv, MetaTypeOK, MetadataWithinTtl
<1> QED BY Zenon, <1>1, <1>2, <1>5, <1>6, <1>7, <1>8 DEF MetaInv, MetaTypeOK

\* Invalidation only removes entries, and time only moves on.
LEMMA OtherStep ==
  ASSUME MetaInv, (\E ks \in {{k} : k \in Keys} \cup {Keys} : Invalidate(ks)) \/ MetaTick
  PROVE  MetaInv'
<1>1. ASSUME NEW ks \in {{k} : k \in Keys} \cup {Keys}, Invalidate(ks)
      PROVE  MetaInv'
  BY Zenon, <1>1 DEF Invalidate, MetaInv, MetaTypeOK, MetadataWithinTtl
<1>2. CASE MetaTick
  BY <1>2 DEF MetaTick, MetaInv, MetaTypeOK, MetadataWithinTtl
<1> QED BY Zenon, <1>1, <1>2

\* The invariant of getTokenMetadata(): the finally of the shared request removes
\* its promise, so that what is in the map is still being fetched.
THEOREM MetaInvariant == MetaSpec => []MetaInv
<1>1. MetaInv /\ [MetaNext]_metaVars => MetaInv'
  <2> SUFFICES ASSUME MetaInv, [MetaNext]_metaVars
               PROVE  MetaInv'
    OBVIOUS
  <2>1. ASSUME NEW c \in Callers, NEW asset \in Assets, NEW skipCache \in BOOLEAN,
               GetTokenMetadata(c, asset, skipCache)
        PROVE  MetaInv'
    BY Zenon, <2>1, CacheStep, JoinStep, FetchStep DEF GetTokenMetadata
  <2>2. CASE UNCHANGED metaVars
    BY Zenon, <2>2 DEF metaVars, MetaInv, MetaTypeOK, MetadataWithinTtl
  <2> QED BY Zenon, <2>1, <2>2, FetchEndsStep, OtherStep DEF MetaNext
<1> QED BY <1>1, MetaStart, PTL DEF MetaSpec

\* No caller of getTokenMetadata() is given metadata that was older than the time
\* to live when it asked.
THEOREM MetadataIsFresh == MetaSpec => []MetadataWithinTtl
<1>1. MetaInv => MetadataWithinTtl
  BY DEF MetaInv
<1> QED BY <1>1, MetaInvariant, PTL

=============================================================================

--------------------------- MODULE Reconciliation ---------------------------
(***************************************************************************)
(* Escrow reconciliation (src/jobs/reconcileEscrow.js).  A run pages       *)
(* through the invoices with an escrow, by id, and compares the funded     *)
(* total the database held when the page was read with what the escrow     *)
(* says when the invoice's turn comes.  Its summary is stored at the end.  *)
(* An administrator pages through the stored ones, newest first, with      *)
(* GET /runs (src/routes/reconciliation.js).                               *)
(*                                                                         *)
(* Runs may overlap: each job of the queue starts one.  Meanwhile invoices *)
(* are funded, first on the chain and later in the table, and enter and    *)
(* leave the statuses that are reconciled.                                 *)
(***************************************************************************)
EXTENDS Naturals, FiniteSets, FiniteSetsExt, Sequences, SequencesExt

CONSTANTS
  Runs,          \* jobs 'reconcile_escrow'
  Invoices,      \* invoice ids, ordered as the database orders them
  MaxFunded,     \* bound: amounts funded in all
  PageSize,      \* options.pageSize
  MaxMoves,      \* bound: changes of status
  RunsLimit,     \* limit: runs per page of GET /runs
  Pending        \* a query that has not answered

ASSUME ReconcileAssumption ==
  /\ Invoices \subseteq Nat \ {0} /\ IsFiniteSet(Invoices)
  /\ PageSize \in 1..1000 /\ RunsLimit \in 1..100
  /\ {MaxFunded, MaxMoves} \subseteq Nat /\ Pending \notin Nat

VARIABLES
  reconcilable,   \* invoices in a status of RECONCILABLE_STATUSES, not deleted
  total_funded,   \* escrow_summaries.total_funded
  chain,          \* the funded amount of the escrow's latest event
  run,            \* [Runs -> the state of performReconciliation()]
  stored,         \* reconciliation_runs: the summaries
  moves,          \* bound: changes of status so far
  steady,         \* history: [Runs -> invoices reconcilable since the run began]
  reader          \* the walk through GET /runs: its request and, as history, the
                  \* runs it is owed and has been shown, and whether one was
                  \* stored after the count of a page and before its rows

reconcileVars == <<reconcilable, total_funded, chain, run, stored, moves, steady, reader>>

NewRun == [at |-> "new", lastId |-> 0, rows |-> <<>>, full |-> FALSE, results |-> <<>>,
           reconciledAt |-> 0]

ReconcileInit ==
  /\ reconcilable \in SUBSET Invoices
  /\ total_funded = [i \in Invoices |-> 0]
  /\ chain = [i \in Invoices |-> 0]
  /\ run = [r \in Runs |-> NewRun]
  /\ stored = {}
  /\ moves = 0
  /\ steady = [r \in Runs |-> {}]
  /\ reader = [at |-> "new", page |-> 1, count |-> Pending, rows |-> Pending,
               owed |-> {}, shown |-> {}, torn |-> FALSE]

Below(n, m) == IF n < m THEN n ELSE m

-----------------------------------------------------------------------------
StartRun(r) ==
  /\ run[r].at = "new"
  /\ run' = [run EXCEPT ![r].at = "page"]
  /\ steady' = [steady EXCEPT ![r] = reconcilable]
  /\ UNCHANGED <<reconcilable, total_funded, chain, stored, moves, reader>>

PageAfterInclusive(last) ==
  LET rest == SetToSortSeq({i \in reconcilable : i >= last}, <)
  IN  SubSeq(rest, 1, Below(PageSize, Len(rest)))

PageAfter(last) ==
  LET rest == SetToSortSeq({i \in reconcilable : i > last}, <)
  IN  SubSeq(rest, 1, Below(PageSize, Len(rest)))

\* iterateInvoicesFromDb(): one page, with the totals it holds at that moment.
\* An empty page ends the run; the cursor moves to the last row.
ReadPage(r) ==
  /\ run[r].at = "page"
  /\ LET ids == PageAfter(run[r].lastId)
         rows == [n \in DOMAIN ids |-> [id |-> ids[n], fundedTotal |-> total_funded[ids[n]]]]
     IN  run' = [run EXCEPT ![r] =
           [@ EXCEPT !.at = IF ids = <<>> THEN "summary" ELSE "invoice",
                     !.rows = rows,
                     !.full = Len(ids) = PageSize,
                     !.lastId = IF ids = <<>> THEN @ ELSE Last(ids)]]
  /\ UNCHANGED <<reconcilable, total_funded, chain, stored, moves, steady, reader>>

\* The page query fails: handleReconciliationJob() reports it and the job ends.
PageFails(r) ==
  /\ run[r].at = "page"
  /\ run' = [run EXCEPT ![r].at = "failed"]
  /\ UNCHANGED <<reconcilable, total_funded, chain, stored, moves, steady, reader>>

\* readFundedAmount(), called without an adapter: the amount in the projection, or
\* 0 from the contract's stub when the row cannot be read.
FundedAmounts(i) == {chain[i], 0}

\* What reconcileInvoice() may find; a refused contract call is an error of the
\* one invoice.
Outcomes(row) ==
  {IF amount = row.fundedTotal THEN "match" ELSE "mismatch" : amount \in FundedAmounts(row.id)}
    \cup {"error"}

\* After the last row of a short page the run is complete, after that of a full
\* one the next page is read.
ReconcileInvoice(r) ==
  /\ run[r].at = "invoice"
  /\ \E status \in Outcomes(Head(run[r].rows)) :
       run' = [run EXCEPT ![r] =
         [@ EXCEPT !.results = Append(@, [id |-> Head(run[r].rows).id, status |-> status]),
                   !.rows = Tail(@),
                   !.at = IF Len(run[r].rows) > 1 THEN @
                          ELSE IF run[r].full THEN "page" ELSE "summary"]]
  /\ UNCHANGED <<reconcilable, total_funded, chain, stored, moves, steady, reader>>

With(status, r) == Cardinality({n \in DOMAIN run[r].results : run[r].results[n].status = status})

Summary(r) ==
  [id |-> r, total |-> Len(run[r].results), matches |-> With("match", r),
   mismatches |-> With("mismatch", r), errors |-> With("error", r),
   reconciledAt |-> run[r].reconciledAt]

\* The summary is taken and dated, then stored; a failed INSERT is logged and no more.
\* Two runs may end in the same millisecond.
TakeSummary(r) ==
  /\ run[r].at = "summary"
  /\ LET latest == Max({run[q].reconciledAt : q \in Runs})
     IN  \E date \in {latest, latest + 1} \ {0} :
           run' = [run EXCEPT ![r].at = "persist", ![r].reconciledAt = date]
  /\ UNCHANGED <<reconcilable, total_funded, chain, stored, moves, steady, reader>>

Persist(r) ==
  /\ run[r].at = "persist"
  /\ run' = [run EXCEPT ![r].at = "done"]
  /\ stored' \in {stored \cup {Summary(r)}, stored}
  /\ reader' = [reader EXCEPT !.torn = @ \/ (stored' # stored /\ reader.count # Pending /\ reader.rows = Pending)]
  /\ UNCHANGED <<reconcilable, total_funded, chain, moves, steady>>

-----------------------------------------------------------------------------
(* GET /runs, page after page.                                             *)

ReaderOnly == UNCHANGED <<reconcilable, total_funded, chain, run, stored, moves, steady>>

\* ORDER BY reconciled_at DESC: rows of one date come in any order.
NewestFirst ==
  {rows \in SetToSeqs(stored) :
     \A m, n \in DOMAIN rows : m < n => rows[m].reconciledAt >= rows[n].reconciledAt}

BeginHistory ==
  /\ reader.at = "new"
  /\ reader' = [reader EXCEPT !.at = "queries", !.owed = stored]
  /\ ReaderOnly

\* The count and the page are two queries that run side by side.
CountRuns ==
  /\ reader.at = "queries" /\ reader.count = Pending
  /\ reader' = [reader EXCEPT !.count = Cardinality(stored)]
  /\ ReaderOnly

SelectRuns ==
  /\ reader.at = "queries" /\ reader.rows = Pending
  /\ \E newest \in NewestFirst :
       LET offset == (reader.page - 1) * RunsLimit
       IN  reader' = [reader EXCEPT !.rows = SubSeq(newest, offset + 1, Below(offset + RunsLimit, Len(newest)))]
  /\ ReaderOnly

HasMoreOfWholePages(page, total) == page < total \div RunsLimit

\* totalPages rounds up.
HasMore(page, total) == page < (total + RunsLimit - 1) \div RunsLimit

AnswerRuns ==
  /\ reader.at = "queries" /\ reader.count # Pending /\ reader.rows # Pending
  /\ LET more == HasMore(reader.page, reader.count)
     IN  reader' = [reader EXCEPT !.at = IF more THEN "queries" ELSE "done",
                                  !.page = IF more THEN @ + 1 ELSE @,
                                  !.shown = @ \cup ToSet(reader.rows),
                                  !.count = Pending, !.rows = Pending]
  /\ ReaderOnly

\* Either query fails: next(error), and the walk is over.
RunsFail ==
  /\ reader.at = "queries"
  /\ reader' = [reader EXCEPT !.at = "failed"]
  /\ ReaderOnly

-----------------------------------------------------------------------------
(* What goes on meanwhile.                                                 *)

\* An investor funds the escrow; the table learns of it later.
FundOnChain(i) ==
  /\ MapThenSumSet(LAMBDA j : chain[j], Invoices) < MaxFunded
  /\ chain' = [chain EXCEPT ![i] = @ + 1]
  /\ UNCHANGED <<reconcilable, total_funded, run, stored, moves, steady, reader>>

RecordFunding(i) ==
  /\ total_funded[i] < chain[i]
  /\ total_funded' = [total_funded EXCEPT ![i] = chain[i]]
  /\ UNCHANGED <<reconcilable, chain, run, stored, moves, steady, reader>>

\* An invoice enters or leaves RECONCILABLE_STATUSES, or is deleted.
ChangeStatus(i) ==
  /\ moves < MaxMoves
  /\ reconcilable' = IF i \in reconcilable THEN reconcilable \ {i} ELSE reconcilable \cup {i}
  /\ steady' = [r \in Runs |-> steady[r] \ {i}]
  /\ moves' = moves + 1
  /\ UNCHANGED <<total_funded, chain, run, stored, reader>>

RunNext ==
  \/ \E r \in Runs : \/ StartRun(r) \/ ReadPage(r) \/ PageFails(r)
                     \/ ReconcileInvoice(r) \/ TakeSummary(r) \/ Persist(r)
  \/ \E i \in Invoices : FundOnChain(i) \/ RecordFunding(i) \/ ChangeStatus(i)

HistoryNext == BeginHistory \/ CountRuns \/ SelectRuns \/ AnswerRuns \/ RunsFail

ReconcileNext == RunNext \/ HistoryNext

-----------------------------------------------------------------------------
(* Nothing is missed.  A run that comes to its summary has looked at no    *)
(* invoice twice and at every invoice that was in a reconciled status from *)
(* its start to its end, whatever was funded, added or withdrawn between   *)
(* its pages, and whichever contracts could not be read.  And a walk       *)
(* through GET /runs that ends has shown every run stored before it began, *)
(* also when runs are stored meanwhile and in another order than they are  *)
(* dated in: rows only move towards the pages to come.  Two cases are      *)
(* excepted.  A run stored between the two queries of one page: that       *)
(* page's count then ends the walk too soon.  And runs of the same date,   *)
(* which the query leaves in any order: the others are shown all the same. *)
NothingMissed ==
  /\ \A r \in Runs :
       run[r].at \in {"summary", "persist", "done"} =>
         LET ids == [n \in DOMAIN run[r].results |-> run[r].results[n].id]
         IN  IsInjective(ids) /\ steady[r] \subseteq ToSet(ids)
  /\ reader.at = "done" /\ ~ reader.torn =>
       \A row \in reader.owed :
         (\A other \in stored \ {row} : other.reconciledAt # row.reconciledAt) => row \in reader.shown

=============================================================================

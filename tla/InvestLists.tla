----------------------------- MODULE InvestLists -----------------------------
(***************************************************************************)
(* The lists of open invoices (src/services/investService.js) and the      *)
(* batch of escrow reads behind each page (src/services/escrowBatchRead.js *)
(* with readEscrowState() of src/services/escrowRead.js).                  *)
(*                                                                         *)
(* A client walks through one list, by cursor (listInvestments) or by page *)
(* number (listOpportunities, getOpportunities), while invoices come and   *)
(* go.  Each page is selected, its ids are checked for ownership by a      *)
(* second query, and their escrows are read by a pool of workers under a   *)
(* time-out; a read that timed out is not cancelled.                       *)
(***************************************************************************)
EXTENDS Naturals, FiniteSets, Sequences, SequencesExt

CONSTANTS
  Ids,            \* invoice ids, ordered as the database orders them
  LimitSize,      \* limitSize of a page
  Concurrency,    \* SOROBAN_BATCH_CONCURRENCY
  MaxChanges      \* bound: invoices that come or go during the walk

ASSUME ListAssumption ==
  /\ Ids \subseteq Nat /\ IsFiniteSet(Ids)
  /\ {LimitSize, Concurrency} \subseteq Nat \ {0}
  /\ MaxChanges \in Nat

VARIABLES
  open,        \* the tenant's investable invoices, oldest first
  opened,      \* invoices that came during the walk
  deleted,     \* invoices soft-deleted during the walk
  moved,       \* invoices that went to another status during the walk
  list,        \* which list: "investments", "opportunities" or "plain"
  walkAt,      \* where the client's request is
  position,    \* the cursor, or the rows before the page
  countedRows, \* the count query's answer
  candidates,  \* the rows of the page
  owned,       \* the ids that passed the ownership check
  remaining,   \* remainingIds of the batch
  reading,     \* reads a worker waits for
  late,        \* reads that timed out and still run
  results, errors,   \* what the batch has collected
  listed,      \* the ids of all pages so far
  shifted      \* history: rows moved under the walk in a way it cannot see

batchVars == <<remaining, reading, late, results, errors>>
tableVars == <<open, opened, deleted, moved>>
listVars == <<tableVars, list, walkAt, position, countedRows, candidates, owned,
              batchVars, listed, shifted>>

ListTypeOK ==
  /\ open \in Seq(Ids)
  /\ opened \subseteq Ids /\ deleted \subseteq Ids /\ moved \subseteq Ids
  /\ list \in {"investments", "opportunities", "plain"}
  /\ walkAt \in {"count", "select", "filter", "batch", "answer", "done"}
  /\ {position, countedRows} \subseteq Nat
  /\ {candidates, owned, remaining, results, errors, listed} \subseteq Seq(Ids)
  /\ reading \subseteq Ids /\ late \subseteq Ids
  /\ shifted \in BOOLEAN

ListInit ==
  /\ open \in {s \in UNION {[1..n -> Ids] : n \in 0..Cardinality(Ids)} : IsInjective(s)}
  /\ opened = {} /\ deleted = {} /\ moved = {}
  /\ list \in {"investments", "opportunities", "plain"}
  /\ walkAt = IF list = "investments" THEN "select" ELSE "count"
  /\ position = 0
  /\ countedRows = 0
  /\ candidates = <<>> /\ owned = <<>>
  /\ remaining = <<>> /\ reading = {} /\ late = {}
  /\ results = <<>> /\ errors = <<>>
  /\ listed = <<>>
  /\ shifted = FALSE

Least(n, m) == IF n < m THEN n ELSE m
Upto(s, n) == SubSeq(s, 1, Least(n, Len(s)))

-----------------------------------------------------------------------------
(* The queries of a page.                                                  *)

\* The count of an offset list, a query of its own before the page.
CountRows ==
  /\ walkAt = "count"
  /\ countedRows' = Len(open)
  /\ walkAt' = "select"
  /\ UNCHANGED <<tableVars, list, position, candidates, owned, batchVars, listed, shifted>>

ByCursorInclusive ==
  Upto(SetToSortSeq({i \in ToSet(open) : i >= position}, <), LimitSize)

\* listInvestments(): id > cursor, in the order of the ids.
ByCursor == Upto(SetToSortSeq({i \in ToSet(open) : i > position}, <), LimitSize)

\* The others: newest first, skipping position rows.
ByOffset == Upto(SubSeq(Reverse(open), position + 1, Len(open)), LimitSize)

\* getOpportunities() answers with the rows; the others go on to the escrows.
SelectPage ==
  /\ walkAt = "select"
  /\ candidates' = IF list = "investments" THEN ByCursor ELSE ByOffset
  /\ IF list = "plain"
       THEN walkAt' = "answer" /\ owned' = candidates'
       ELSE walkAt' = "filter" /\ UNCHANGED owned
  /\ UNCHANGED <<tableVars, list, position, countedRows, batchVars, listed, shifted>>

\* filterTenantOwnedInvoiceIds(): the rows not deleted by now, in any status.
FilterOwned ==
  /\ walkAt = "filter"
  /\ owned' = SelectSeq(candidates, LAMBDA i : i \notin deleted)
  /\ shifted' = (shifted \/ owned' # candidates)
  /\ remaining' = owned'
  /\ reading' = {} /\ late' = {}
  /\ results' = <<>> /\ errors' = <<>>
  /\ walkAt' = "batch"
  /\ UNCHANGED <<tableVars, list, position, countedRows, candidates, listed>>

-----------------------------------------------------------------------------
(* batchReadEscrowStates().                                                *)

\* A worker of the pool takes the next id.
TakeId ==
  /\ walkAt = "batch"
  /\ remaining # <<>>
  /\ Cardinality(reading) < Least(Concurrency, Len(owned))
  /\ reading' = reading \cup {Head(remaining)}
  /\ remaining' = Tail(remaining)
  /\ UNCHANGED <<tableVars, list, walkAt, position, countedRows, candidates, owned, late, results, errors,
                 listed, shifted>>

\* readEscrowState() resolves; a hold that cannot be read is reported as held and
\* token metadata that cannot be read as null, so neither makes it fail.
ReadResolves(i) ==
  /\ i \in reading
  /\ reading' = reading \ {i}
  /\ results' = Append(results, i)
  /\ UNCHANGED <<tableVars, list, walkAt, position, countedRows, candidates, owned, remaining, late, errors,
                 listed, shifted>>

\* It throws: an invalid id, or the contract call of the base state failed.
ReadThrows(i) ==
  /\ i \in reading
  /\ reading' = reading \ {i}
  /\ errors' = Append(errors, i)
  /\ UNCHANGED <<tableVars, list, walkAt, position, countedRows, candidates, owned, remaining, late, results,
                 listed, shifted>>

\* withTimeout(): the worker goes on, the read does too.
ReadTimesOut(i) ==
  /\ i \in reading
  /\ reading' = reading \ {i}
  /\ late' = late \cup {i}
  /\ errors' = Append(errors, i)
  /\ UNCHANGED <<tableVars, list, walkAt, position, countedRows, candidates, owned, remaining, results,
                 listed, shifted>>

\* The race is over: what the read comes to is ignored.
LateReadEnds(i) ==
  /\ i \in late
  /\ late' = late \ {i}
  /\ UNCHANGED <<tableVars, list, walkAt, position, countedRows, candidates, owned, remaining, reading, results,
                 errors, listed, shifted>>

\* All workers have ended.
BatchEnds ==
  /\ walkAt = "batch"
  /\ remaining = <<>> /\ reading = {}
  /\ walkAt' = "answer"
  /\ UNCHANGED <<tableVars, list, position, countedRows, candidates, owned, batchVars, listed, shifted>>

-----------------------------------------------------------------------------
(* The page is answered, and the client asks for the next one while there  *)
(* is one: by has_more of the cursor list, by totalPages of the others.    *)

AnswerCursorPage ==
  /\ walkAt = "answer" /\ list = "investments"
  /\ listed' = listed \o owned
  /\ position' = IF owned = <<>> THEN position ELSE Last(owned)
  /\ walkAt' = IF Len(owned) = LimitSize THEN "select" ELSE "done"
  /\ UNCHANGED <<tableVars, list, countedRows, candidates, owned, batchVars, shifted>>

AnswerOffsetPage ==
  /\ walkAt = "answer" /\ list # "investments"
  /\ listed' = listed \o owned
  /\ position' = position + LimitSize
  /\ walkAt' = IF position + LimitSize < countedRows THEN "count" ELSE "done"
  /\ UNCHANGED <<tableVars, list, countedRows, candidates, owned, batchVars, shifted>>

\* Invoices come and go: one is created or becomes investable, one is deleted,
\* one moves on to another status.  Rows shift under a walk by page number.
Changes(i) ==
  /\ walkAt # "done"
  /\ Cardinality(opened) + Cardinality(deleted) + Cardinality(moved) < MaxChanges
  /\ shifted' = (shifted \/ list # "investments")
  /\ \/ /\ i \notin ToSet(open) \cup deleted \cup moved
        /\ open' = Append(open, i)
        /\ opened' = opened \cup {i}
        /\ UNCHANGED <<deleted, moved>>
     \/ /\ i \in ToSet(open)
        /\ open' = SelectSeq(open, LAMBDA j : j # i)
        /\ \/ deleted' = deleted \cup {i} /\ UNCHANGED moved
           \/ moved' = moved \cup {i} /\ UNCHANGED deleted
        /\ UNCHANGED opened
  /\ UNCHANGED <<list, walkAt, position, countedRows, candidates, owned, batchVars, listed>>

ListNext ==
  \/ CountRows \/ SelectPage \/ FilterOwned
  \/ TakeId \/ BatchEnds \/ AnswerCursorPage \/ AnswerOffsetPage
  \/ \E i \in Ids : \/ ReadResolves(i) \/ ReadThrows(i) \/ ReadTimesOut(i)
                    \/ LateReadEnds(i) \/ Changes(i)

ListSpec == ListInit /\ [][ListNext]_listVars

-----------------------------------------------------------------------------
(* A walk through the cursor list shows no invoice twice, however invoices *)
(* come and go; and when it ends, it has shown every invoice that was open *)
(* throughout, unless a row vanished between the query of a page and the   *)
(* ownership check, which shortens the page and so ends the walk.  A walk  *)
(* by page number promises the same only of a table nobody changes.        *)
WalkComplete ==
  /\ list = "investments" \/ ~ shifted => IsInjective(listed)
  /\ walkAt = "done" /\ ~ shifted => ToSet(open) \ opened \subseteq ToSet(listed)

=============================================================================

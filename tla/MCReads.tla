------------------------------- MODULE MCReads -------------------------------
(***************************************************************************)
(* The read side, for TLC: cached escrow summaries, token metadata, the    *)
(* lists of open invoices, reconciliation, the contract's version watch    *)
(* and the footprint cache.  The six share no state, so each behaviour     *)
(* follows one of them while the others rest; the list of reconciliation   *)
(* runs is read while runs without invoices end.                           *)
(***************************************************************************)
EXTENDS EscrowSummaries, TokenMeta, InvestLists, Reconciliation, ContractVersions, FootprintCache

CONSTANTS j1, j2, j3   \* model values

VARIABLE part   \* the part this behaviour is about

AssetsMC == {[key |-> "native", valid |-> TRUE], [key |-> "contract", valid |-> TRUE],
             [key |-> "contract", valid |-> FALSE]}

MCInit ==
  /\ part \in {"summaries", "metadata", "lists", "reconcile", "history", "versions", "footprints"}
  /\ SummaryInit /\ MetaInit /\ ListInit /\ ReconcileInit /\ VersionInit /\ FootInit
  /\ part # "summaries" => ~ cacheable /\ projected = 0
  /\ part # "lists" => open = <<>> /\ list = "plain"
  /\ part # "reconcile" => reconcilable = {}
  /\ part # "versions" => deployed = 3 /\ contractId = "valid"

\* Requests are told apart by nothing else, so they come in the order of their
\* names.
InOrder(ids, begun(_)) == \A i, j \in ids : i < j /\ begun(j) => begun(i)

RunsOrdered ==
  /\ run'[j2].at # "new" => run[j1].at # "new"
  /\ run'[j3].at # "new" => run[j2].at # "new"
\* The dates of runs play a part only where they are listed.
SameDate == \E r, q \in Runs : r # q /\ run[r].reconciledAt = run[q].reconciledAt /\ run[r].reconciledAt > 0
VersionsOrdered == InOrder(Refreshes, LAMBDA r : refresh'[r].at # "none")
SimulationsOrdered ==
  /\ InOrder(Simulations, LAMBDA s : sim'[s].at # "none")
  /\ sim'[1].at = "none" \/ sim'[1].key = "k1"      \* the keys are interchangeable
  /\ \A s \in Simulations : ~sim'[s].useCache => s = 2

MCNext ==
  \/ part = "summaries" /\ SummaryNext /\ UNCHANGED <<part, metaVars, listVars, reconcileVars, versionVars, footVars>>
  \/ part = "metadata" /\ MetaNext /\ UNCHANGED <<part, summaryVars, listVars, reconcileVars, versionVars, footVars>>
  \/ part = "lists" /\ ListNext /\ UNCHANGED <<part, summaryVars, metaVars, reconcileVars, versionVars, footVars>>
  \/ part = "reconcile" /\ RunNext /\ run'[j3] = NewRun /\ ~ SameDate' /\ UNCHANGED <<part, summaryVars, metaVars, listVars, versionVars, footVars>>
  \/ part = "history" /\ ReconcileNext /\ RunsOrdered /\ UNCHANGED <<reconcilable, chain>> /\ UNCHANGED <<part, summaryVars, metaVars, listVars, versionVars, footVars>>
  \/ part = "versions" /\ VersionNext /\ VersionsOrdered /\ UNCHANGED <<part, summaryVars, metaVars, listVars, reconcileVars, footVars>>
  \/ part = "footprints" /\ FootNext /\ SimulationsOrdered /\ UNCHANGED <<part, summaryVars, metaVars, listVars, reconcileVars, versionVars>>

MCSpec == MCInit /\ [][MCNext]_<<part, summaryVars, metaVars, listVars, reconcileVars, versionVars, footVars>>

=============================================================================

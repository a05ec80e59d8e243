------------------------- MODULE MCRemindersBounty -------------------------
(* The maturity reminders and the bounty contract, two independent parts      *)
(* explored in one run.                                                       *)
EXTENDS MaturityReminders, BountyContract, TLC

VARIABLE part

partVars == <<allVars, bountyVars, part>>

\* Two bounties: enough for one to be paid from the funds of the other, and for
\* the second to take the id of the first.
MCIds == 0..1

MCInit ==
  /\ part \in {"reminders", "bounty"}
  /\ ReminderInit /\ BountyInit
  /\ part = "bounty" => \A j, k \in Jobs : invoiceId[j] = invoiceId[k]

MCNext ==
  \/ part = "reminders" /\ ReminderNext /\ UNCHANGED <<part, bountyVars>>
  \/ part = "bounty" /\ BountyNext /\ UNCHANGED <<part, allVars>>

MCSpec == MCInit /\ [][MCNext]_partVars

Symmetry == Permutations(Jobs) \cup Permutations(Invoices)
=============================================================================

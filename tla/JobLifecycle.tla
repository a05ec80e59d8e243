---------------------------- MODULE JobLifecycle ----------------------------
(***************************************************************************)
(* What the job queue and its worker promise a caller, with no queues, no  *)
(* clock and no poll loop.  A job that was accepted waits, runs in one of  *)
(* Slots slots at most MaxTries times, and ends done, or failed when every *)
(* try is used up.  A job may be dropped at any time; dropped while it     *)
(* runs, it keeps its slot until the run is over ("orphan") and its        *)
(* outcome is ignored.                                                     *)
(***************************************************************************)
EXTENDS Integers, FiniteSets

CONSTANTS Jobs, MaxTries, Slots

VARIABLES phase, tries

lifecycleVars == <<phase, tries>>

Busy == {j \in Jobs : phase[j] \in {"running", "orphan"}}

Init ==
  /\ phase = [j \in Jobs |-> "new"]
  /\ tries = [j \in Jobs |-> 0]

Accept(j) ==
  /\ phase[j] = "new"
  /\ phase' = [phase EXCEPT ![j] = "waiting"]
  /\ UNCHANGED tries

Begin(j) ==
  /\ phase[j] = "waiting"
  /\ tries[j] < MaxTries
  /\ Cardinality(Busy) < Slots
  /\ phase' = [phase EXCEPT ![j] = "running"]
  /\ tries' = [tries EXCEPT ![j] = @ + 1]

Complete(j) ==
  /\ phase[j] = "running"
  /\ phase' = [phase EXCEPT ![j] = "done"]
  /\ UNCHANGED tries

Fail(j) ==
  /\ phase[j] = "running"
  /\ phase' = [phase EXCEPT ![j] = IF tries[j] < MaxTries THEN "waiting" ELSE "failed"]
  /\ UNCHANGED tries

Dropped(p) ==
  CASE p = "waiting" -> "dropped"
    [] p = "running" -> "orphan"
    [] OTHER -> p

Drop(S) ==
  /\ phase' = [j \in Jobs |-> IF j \in S THEN Dropped(phase[j]) ELSE phase[j]]
  /\ UNCHANGED tries

OrphanEnds(j) ==
  /\ phase[j] = "orphan"
  /\ phase' = [phase EXCEPT ![j] = "dropped"]
  /\ UNCHANGED tries

Next ==
  \/ \E j \in Jobs :
       Accept(j) \/ Begin(j) \/ Complete(j) \/ Fail(j) \/ OrphanEnds(j)
  \/ \E S \in SUBSET Jobs : Drop(S)

Spec == Init /\ [][Next]_lifecycleVars
=============================================================================

---------------------------- MODULE ReadsProofs -----------------------------
(***************************************************************************)
(* Reads of the chain, for any callers, limits and times to live: calls    *)
(* through retry and breaker, contract versions, simulation footprints and *)
(* escrow summaries.                                                       *)
(*                                                                         *)
(* CallInv adds to the properties of SorobanCall that an OPEN breaker's    *)
(* next attempt lies a whole recovery timeout after it opened, and that    *)
(* openings and starts lie in the past.  VersionInv, FootInv and           *)
(* SummaryInv are the inductive invariants of the caches.                  *)
(***************************************************************************)
EXTENDS SorobanCall, EscrowSummaries, ContractVersions, FootprintCache,
        FiniteSetTheorems, SequenceTheorems, TLAPS

-----------------------------------------------------------------------------
(* Calls through retry and breaker.                                        *)

Rejected == {c \in Calls : phase[c] = "rejected"}

\* Lengths, in order.
LEMMA Through ==
  ASSUME NEW a \in Nat, NEW b \in Nat, NEW c \in Nat, b <= c
  PROVE  (a < b => a < c) /\ (a <= b => a <= c)
OBVIOUS

\* resolveConfig(): the limits are numbers within their caps.
LEMMA ConstantTypes ==
  /\ maxRetries \in Nat
  /\ maxRetries <= 10
  /\ maxElapsedMs \in Nat
BY SorobanAssumption DEF maxRetries, maxElapsedMs, AtMost

\* Whatever the jitter, a back-off never exceeds the configured maximum.
LEMMA BackoffRange ==
  ASSUME NEW n \in 0..9, NEW d \in computeBackoff(n)
  PROVE  d \in Nat /\ d <= MaxDelay
<1> DEFINE exp == AtMost(BaseDelay, 10000) * Pow2[n]
           cap == AtMost(MaxDelay, 60000)
<1>1. Pow2[n] \in Nat
  BY DEF Pow2
<1>2. AtMost(BaseDelay, 10000) \in Nat
  BY SorobanAssumption DEF AtMost
<1>3. exp \in Nat
  BY <1>1, <1>2
<1>4. cap \in Nat /\ cap <= MaxDelay
  BY SorobanAssumption DEF AtMost
<1>5. PICK e \in ((8 * exp + 5) \div 10) .. ((12 * exp + 4) \div 10) : d = AtMost(e, cap)
  BY DEF computeBackoff
<1> HIDE DEF exp, cap
<1>6. e \in Nat
  BY <1>3, <1>5
<1>7. QED
  BY <1>4, <1>5, <1>6, SorobanAssumption DEF AtMost

\* One call more or none more among the rejected.
LEMMA RejectedFacts ==
  ASSUME phase \in [Calls -> Phases], NEW c \in Calls, NEW p \in Phases,
         phase[c] # "rejected", phase' = [phase EXCEPT ![c] = p]
  PROVE  /\ Cardinality(Rejected) \in Nat
         /\ p = "rejected" => Cardinality(Rejected') = Cardinality(Rejected) + 1
         /\ p # "rejected" => Rejected' = Rejected
<1>1. IsFiniteSet(Rejected) /\ Cardinality(Rejected) \in Nat
  BY SorobanAssumption, FS_Subset, FS_CardinalityType DEF Rejected
<1>2. p # "rejected" => Rejected' = Rejected
  BY DEF Rejected
<1>3. ASSUME p = "rejected" PROVE Cardinality(Rejected') = Cardinality(Rejected) + 1
  <2>1. Rejected' = Rejected \cup {c} /\ c \notin Rejected
    BY <1>3 DEF Rejected
  <2>2. QED
    BY Zenon, <1>1, <2>1, FS_AddElement
<1>4. QED
  BY <1>1, <1>2, <1>3

-----------------------------------------------------------------------------
OpenTime ==
  /\ openedAt <= now
  /\ state = "OPEN" => nextAttemptTime >= openedAt + RecoveryTimeout

StartedInThePast == \A c \in Calls : startTime[c] <= now

CallInv ==
  /\ TypeOK
  /\ ClosedBelowThreshold
  /\ HalfOpenAfterRecovery
  /\ OpenTime
  /\ FailuresAreCalls
  /\ StartedInThePast
  /\ BackoffBounded

\* Before the first call the breaker is closed and nothing is counted.
LEMMA CallInitial == Init => CallInv
<1> SUFFICES ASSUME Init PROVE CallInv
  OBVIOUS
<1>1. TypeOK
  BY ConstantTypes DEF Init, BreakerInit, TypeOK, BreakerTypeOK, CircuitBreakerState, Phases
<1>2. FailuresAreCalls
  <2>1. {c \in Calls : phase[c] = "rejected"} = {}
    BY DEF Init
  <2>2. QED
    BY <2>1, FS_EmptySet DEF Init, BreakerInit, FailuresAreCalls
<1>3. QED
  BY <1>1, <1>2, BreakerAssumption
  DEF Init, BreakerInit, CallInv, ClosedBelowThreshold, HalfOpenAfterRecovery, OpenTime,
      StartedInThePast, BackoffBounded

\* What a step does to the breaker, as far as the invariant needs it.
LEMMA BreakerSteps ==
  ASSUME BreakerTypeOK, ClosedBelowThreshold, HalfOpenAfterRecovery, OpenTime, now' = now,
         Admits \/ onSuccess \/ onFailure \/ reset \/ UNCHANGED breakerVars
  PROVE  /\ BreakerTypeOK'
         /\ ClosedBelowThreshold'
         /\ HalfOpenAfterRecovery'
         /\ OpenTime'
<1> USE BreakerAssumption DEF BreakerTypeOK, CircuitBreakerState, ClosedBelowThreshold,
                              HalfOpenAfterRecovery, OpenTime
<1>1. CASE Admits
  BY <1>1 DEF Admits, FailsFast
<1>2. CASE onSuccess
  BY <1>2 DEF onSuccess
<1>3. CASE onFailure
  BY <1>3 DEF onFailure, Trip
<1>4. CASE reset
  BY <1>4 DEF reset
<1>5. CASE UNCHANGED breakerVars
  BY <1>5 DEF breakerVars
<1>6. QED
  BY Zenon, <1>1, <1>2, <1>3, <1>4, <1>5

\* Every step of a call, of the breaker and of the clock keeps the invariant.
LEMMA CallInductive == CallInv /\ [Next]_vars => CallInv'
<1> SUFFICES ASSUME CallInv, [Next]_vars PROVE CallInv'
  OBVIOUS
<1> USE DEF CallInv
<1> USE ConstantTypes, SorobanAssumption
<1>t. /\ BreakerTypeOK
      /\ now \in Nat
      /\ failureCount \in Nat
      /\ phase \in [Calls -> Phases]
      /\ attempt \in [Calls -> 0..maxRetries]
      /\ startTime \in [Calls -> Nat]
      /\ wake \in [Calls -> Nat]
      /\ admittedIn \in [Calls -> CircuitBreakerState \cup {"none"}]
  BY DEF TypeOK, BreakerTypeOK
<1>1. ASSUME NEW c \in Calls, CallRefused(c) PROVE CallInv'
  <2>1. /\ phase[c] = "new" /\ phase' = [phase EXCEPT ![c] = "refused"]
        /\ UNCHANGED <<breakerVars, now, attempt, startTime, wake, admittedIn>>
    BY <1>1 DEF CallRefused
  <2>2. BreakerTypeOK' /\ ClosedBelowThreshold' /\ HalfOpenAfterRecovery' /\ OpenTime'
    BY Zenon, <1>t, <2>1, BreakerSteps
  <2>3. FailuresAreCalls'
    BY Zenon, <1>t, <2>1, RejectedFacts DEF FailuresAreCalls, Rejected, Phases, breakerVars
  <2>4. TypeOK' /\ StartedInThePast' /\ BackoffBounded'
    BY Zenon, <1>t, <2>1, <2>2 DEF TypeOK, Phases, StartedInThePast, BackoffBounded
  <2>5. QED
    BY Zenon, <2>2, <2>3, <2>4
<1>2. ASSUME NEW c \in Calls, CallAdmitted(c) PROVE CallInv'
  <2>1. /\ phase[c] = "new" /\ phase' = [phase EXCEPT ![c] = "rpc"]
        /\ Admits
        /\ startTime' = [startTime EXCEPT ![c] = now]
        /\ admittedIn' = [admittedIn EXCEPT ![c] = state']
        /\ UNCHANGED <<now, attempt, wake>>
    BY <1>2 DEF CallAdmitted
  <2>2. BreakerTypeOK' /\ ClosedBelowThreshold' /\ HalfOpenAfterRecovery' /\ OpenTime'
    BY Zenon, <1>t, <2>1, BreakerSteps
  <2>3. FailuresAreCalls'
    BY Zenon, <1>t, <2>1, RejectedFacts DEF FailuresAreCalls, Rejected, Phases, Admits
  <2>4. StartedInThePast' /\ BackoffBounded'
    BY <1>t, <2>1 DEF StartedInThePast, BackoffBounded
  <2>5. TypeOK'
    BY Zenon, <1>t, <2>1, <2>2 DEF TypeOK, Phases, BreakerTypeOK
  <2>6. QED
    BY Zenon, <2>2, <2>3, <2>4, <2>5
<1>3. ASSUME NEW c \in Calls, NEW how \in {"resolved", "rejected"}, phase[c] = "rpc",
             Returns(c, how),
             \/ how = "resolved" /\ onSuccess
             \/ how = "rejected" /\ onFailure
      PROVE  CallInv'
  <2>1. /\ phase' = [phase EXCEPT ![c] = how]
        /\ attempt' = [attempt EXCEPT ![c] = 0]
        /\ startTime' = [startTime EXCEPT ![c] = 0]
        /\ admittedIn' = [admittedIn EXCEPT ![c] = "none"]
        /\ UNCHANGED <<now, wake>>
    BY <1>3 DEF Returns
  <2>2. BreakerTypeOK' /\ ClosedBelowThreshold' /\ HalfOpenAfterRecovery' /\ OpenTime'
    BY Zenon, <1>t, <1>3, <2>1, BreakerSteps
  <2>3. FailuresAreCalls'
    <3>1. /\ Cardinality(Rejected) \in Nat
          /\ how = "rejected" => Cardinality(Rejected') = Cardinality(Rejected) + 1
          /\ how # "rejected" => Rejected' = Rejected
      BY Zenon, <1>t, <1>3, <2>1, RejectedFacts DEF Phases
    <3>2. failureCount <= Cardinality(Rejected)
      BY DEF FailuresAreCalls, Rejected
    <3>3. failureCount' <= Cardinality(Rejected')
      BY <1>t, <1>3, <3>1, <3>2 DEF onSuccess, onFailure
    <3>4. QED
      BY <3>3 DEF FailuresAreCalls, Rejected
  <2>4. StartedInThePast' /\ BackoffBounded'
    BY <1>t, <1>3, <2>1 DEF StartedInThePast, BackoffBounded
  <2>5. TypeOK'
    BY <1>t, <2>1, <2>2 DEF TypeOK, Phases
  <2>6. QED
    BY Zenon, <2>2, <2>3, <2>4, <2>5
<1>4. ASSUME NEW c \in Calls, RpcResolves(c) PROVE CallInv'
  BY Zenon, <1>3, <1>4 DEF RpcResolves
<1>5. ASSUME NEW c \in Calls, NEW err \in Errors, RpcThrows(c, err) PROVE CallInv'
  BY Zenon, <1>3, <1>5 DEF RpcThrows
<1>6. ASSUME NEW c \in Calls, NEW err \in Errors, RpcBacksOff(c, err) PROVE CallInv'
  <2>1. /\ phase[c] = "rpc" /\ phase' = [phase EXCEPT ![c] = "sleep"]
        /\ attempt[c] # maxRetries /\ ~ (now - startTime[c] >= maxElapsedMs)
        /\ UNCHANGED <<breakerVars, now, attempt, startTime, admittedIn>>
    BY Zenon, <1>6 DEF RpcBacksOff, GivesUp
  <2>2. PICK d \in computeBackoff(attempt[c]) : wake' = [wake EXCEPT ![c] = now + d]
    BY Zenon, <1>6 DEF RpcBacksOff
  <2>3. attempt[c] \in 0..9
    BY <1>t, <2>1
  <2>4. d \in Nat /\ d <= MaxDelay
    BY Zenon, <2>2, <2>3, BackoffRange
  <2>5. BreakerTypeOK' /\ ClosedBelowThreshold' /\ HalfOpenAfterRecovery' /\ OpenTime'
    BY Zenon, <1>t, <2>1, BreakerSteps
  <2>6. FailuresAreCalls'
    BY Zenon, <1>t, <2>1, RejectedFacts DEF FailuresAreCalls, Rejected, Phases, breakerVars
  <2>7. StartedInThePast'
    BY Zenon, <2>1 DEF StartedInThePast
  <2>8. BackoffBounded'
    BY <1>t, <2>1, <2>2, <2>4 DEF BackoffBounded
  <2>9. TypeOK'
    BY <1>t, <2>1, <2>2, <2>4, <2>5 DEF TypeOK, Phases
  <2>10. QED
    BY Zenon, <2>5, <2>6, <2>7, <2>8, <2>9
<1>7. ASSUME NEW c \in Calls, SleepEnds(c) PROVE CallInv'
  <2>1. /\ phase[c] = "sleep" /\ phase' = [phase EXCEPT ![c] = "rpc"]
        /\ attempt' = [attempt EXCEPT ![c] = @ + 1]
        /\ wake' = [wake EXCEPT ![c] = 0]
        /\ UNCHANGED <<breakerVars, now, startTime, admittedIn>>
    BY Zenon, <1>7 DEF SleepEnds
  <2>2. BreakerTypeOK' /\ ClosedBelowThreshold' /\ HalfOpenAfterRecovery' /\ OpenTime'
    BY Zenon, <1>t, <2>1, BreakerSteps
  <2>3. FailuresAreCalls'
    BY Zenon, <1>t, <2>1, RejectedFacts DEF FailuresAreCalls, Rejected, Phases, breakerVars
  <2>4. StartedInThePast' /\ BackoffBounded'
    BY Zenon, <1>t, <2>1 DEF StartedInThePast, BackoffBounded
  <2>5. attempt[c] + 1 \in 0..maxRetries
    BY <1>t, <2>1 DEF BackoffBounded
  <2>6. TypeOK'
    BY Zenon, <1>t, <2>1, <2>2, <2>5 DEF TypeOK, Phases
  <2>7. QED
    BY Zenon, <2>2, <2>3, <2>4, <2>6
<1>8. CASE Reset
  <2>1. reset /\ UNCHANGED <<now, callVars>>
    BY Zenon, <1>8 DEF Reset
  <2>2. BreakerTypeOK' /\ ClosedBelowThreshold' /\ HalfOpenAfterRecovery' /\ OpenTime'
    BY Zenon, <1>t, <2>1, BreakerSteps
  <2>3. FailuresAreCalls'
    <3>1. failureCount' = 0 /\ Rejected' = Rejected
      BY Zenon, <2>1 DEF reset, callVars, Rejected
    <3>2. Cardinality(Rejected) \in Nat
      BY Zenon, FS_Subset, FS_CardinalityType DEF Rejected
    <3>3. QED
      BY <3>1, <3>2 DEF FailuresAreCalls, Rejected
  <2>4. TypeOK' /\ StartedInThePast' /\ BackoffBounded'
    BY Zenon, <1>t, <2>1, <2>2 DEF TypeOK, StartedInThePast, BackoffBounded, callVars
  <2>5. QED
    BY Zenon, <2>2, <2>3, <2>4
<1>9. CASE Tick
  <2>1. now' = now + 1 /\ UNCHANGED <<breakerVars, callVars>>
    BY Zenon, <1>9 DEF Tick
  <2>2. BreakerTypeOK' /\ ClosedBelowThreshold' /\ OpenTime' /\ FailuresAreCalls' /\ BackoffBounded'
    BY <1>t, <2>1
    DEF BreakerTypeOK, ClosedBelowThreshold, OpenTime, FailuresAreCalls, BackoffBounded,
        breakerVars, callVars
  <2>3. HalfOpenAfterRecovery'
    BY <1>t, <2>1, BreakerAssumption DEF HalfOpenAfterRecovery, breakerVars, BreakerTypeOK
  <2>4. TypeOK' /\ StartedInThePast'
    BY <1>t, <2>1, <2>2 DEF TypeOK, StartedInThePast, callVars
  <2>5. QED
    BY Zenon, <2>2, <2>3, <2>4
<1>10. CASE UNCHANGED vars
  BY Zenon, <1>10
  DEF vars, breakerVars, callVars, TypeOK, BreakerTypeOK, ClosedBelowThreshold, HalfOpenAfterRecovery,
      OpenTime, FailuresAreCalls, StartedInThePast, BackoffBounded
<1>11. QED
  BY Zenon, <1>1, <1>2, <1>4, <1>5, <1>6, <1>7, <1>8, <1>9, <1>10 DEF Next, RpcSettles

-----------------------------------------------------------------------------
\* The inductive invariant holds in every reachable state of callSorobanContract().
THEOREM CallInvariant == Spec => []CallInv
BY CallInitial, CallInductive, PTL DEF Spec

\* A CLOSED breaker is below its threshold (onSuccess, onFailure, reset).
THEOREM ClosedIsBelow == Spec => []ClosedBelowThreshold
BY CallInvariant, PTL DEF CallInv

\* HALF_OPEN is reached only a whole recovery timeout after the breaker opened,
\* although calls admitted earlier keep reporting (execute, onFailure).
THEOREM RecoveryWaited == Spec => []HalfOpenAfterRecovery
BY CallInvariant, PTL DEF CallInv

\* The breaker counts calls and not attempts (callSorobanContract).
THEOREM FailuresCounted == Spec => []FailuresAreCalls
BY CallInvariant, PTL DEF CallInv

\* Back-offs stay within the budget plus one maximal delay, whatever the jitter
\* (withRetry, computeBackoff).
THEOREM BackoffIsBounded == Spec => []BackoffBounded
BY CallInvariant, PTL DEF CallInv

\* Results that arrive late never close an OPEN breaker (onSuccess, onFailure).
THEOREM OpenIsHeld == Spec => OpenHolds
<1> DEFINE LeftInTime == state = "OPEN" /\ state' # "OPEN" =>
                     \/ state' = "HALF_OPEN" /\ now >= nextAttemptTime
                     \/ state' = "CLOSED" /\ phase' = phase
<1>1. CallInv /\ [Next]_vars => [LeftInTime]_vars
  <2> SUFFICES ASSUME CallInv, Next, state = "OPEN", state' # "OPEN" PROVE LeftInTime
    BY DEF vars
  <2>t. now \in Nat /\ nextAttemptTime \in Nat
    BY DEF CallInv, TypeOK, BreakerTypeOK
  <2>1. ASSUME NEW c \in Calls, CallAdmitted(c) PROVE LeftInTime
    BY <2>1, <2>t DEF CallAdmitted, Admits, FailsFast
  <2>2. CASE Reset
    BY <2>2 DEF Reset, reset, callVars
  <2>3. ASSUME NEW c \in Calls, CallRefused(c) \/ RpcSettles(c) \/ SleepEnds(c) PROVE FALSE
    BY Zenon, <2>3 DEF CallRefused, RpcSettles, RpcResolves, RpcThrows, RpcBacksOff, SleepEnds,
                onSuccess, onFailure, Trip, breakerVars
  <2>4. CASE Tick
    BY <2>4 DEF Tick, breakerVars
  <2>5. QED
    BY Zenon, <2>1, <2>2, <2>3, <2>4 DEF Next
<1>2. QED
  BY CallInvariant, <1>1, PTL DEF Spec, OpenHolds

-----------------------------------------------------------------------------
(* Contract versions.                                                      *)

\* A position is an onset of a longer history exactly as it was of the shorter.
LEMMA OnsetsOfAppend ==
  ASSUME NEW s \in Seq(Versions), NEW v \in Versions
  PROVE  Onsets(Append(s, v)) =
           Onsets(s) \cup (IF Mismatch(v) /\ (s = <<>> \/ s[Len(s)] # v) THEN {Len(s) + 1} ELSE {})
<1> DEFINE t == Append(s, v)
<1>1. /\ DOMAIN s = 1..Len(s) /\ DOMAIN t = 1..(Len(s) + 1) /\ Len(s) \in Nat
      /\ \A i \in 1..Len(s) : t[i] = s[i]
      /\ t[Len(s) + 1] = v
      /\ s = <<>> <=> Len(s) = 0
  OBVIOUS
<1> HIDE DEF t
<1>2. ASSUME NEW i \in 1..Len(s) PROVE i \in Onsets(t) <=> i \in Onsets(s)
  <2>1. t[i] = s[i] /\ (i # 1 => t[i - 1] = s[i - 1])
    BY <1>1
  <2> QED BY <1>1, <2>1 DEF Onsets
<1>3. Len(s) + 1 \in Onsets(t) <=> Mismatch(v) /\ (s = <<>> \/ s[Len(s)] # v)
  <2>1. (Len(s) + 1) - 1 = Len(s) /\ (Len(s) + 1 = 1 <=> Len(s) = 0) /\ Len(s) + 1 \in 1..(Len(s) + 1)
    BY <1>1
  <2>2. Len(s) # 0 => t[Len(s)] = s[Len(s)]
    BY <1>1
  <2>3. Len(s) + 1 \in Onsets(t) <=>
          Mismatch(t[Len(s) + 1]) /\ (Len(s) + 1 = 1 \/ t[(Len(s) + 1) - 1] # t[Len(s) + 1])
    BY Zenon, <1>1, <2>1 DEF Onsets
  <2> QED BY <1>1, <2>1, <2>2, <2>3
<1>4. Onsets(s) \subseteq 1..Len(s) /\ Onsets(t) \subseteq 1..(Len(s) + 1)
  BY Zenon, <1>1 DEF Onsets
<1> QED BY <1>1, <1>2, <1>3, <1>4 DEF t

\* An alert is raised exactly when the comparison starts a run of mismatches.
LEMMA RaisesAtOnset ==
  ASSUME VersionInv, NEW v \in Versions
  PROVE  Raises(v) <=> Mismatch(v) /\ (compared = <<>> \/ compared[Len(compared)] # v)
<1>1. CASE compared = <<>>
  BY <1>1 DEF VersionInv, Raises
<1>2. CASE compared # <<>>
  <2> DEFINE w == compared[Len(compared)]
  <2>1. alerted = Remembered(w)
    BY <1>2 DEF VersionInv
  <2>2. Signature(v) = Signature(w) <=> v = w
    BY DEF Signature
  <2>3. CASE Mismatch(w)
    BY Zenon, <1>2, <2>1, <2>2, <2>3 DEF Remembered, Raises
  <2>4. CASE ~ Mismatch(w)
    BY Zenon, <1>2, <2>1, <2>4 DEF Remembered, Raises
  <2> QED BY Zenon, <2>3, <2>4
<1> QED BY Zenon, <1>1, <1>2

\* The comparison of one refresh: an alert is pushed exactly when the history grows by
\* an onset.
LEMMA CompareStep ==
  ASSUME VersionInv, NEW r \in Refreshes, RunContractListRefresh(r)
  PROVE  VersionInv'
<1> DEFINE v == refresh[r].saw
           n == Len(compared)
           O == Onsets(compared)
<1>1. v \in Versions /\ compared \in Seq(Versions) /\ alerts \in Seq(Versions)
      /\ n \in Nat /\ compared' = Append(compared, v) /\ compared' # <<>>
      /\ n + 1 = Len(compared') /\ compared'[n + 1] = v
  BY DEF VersionInv, VersionTypeOK, RefreshCalls, RunContractListRefresh
<1>2. VersionTypeOK'
  <2>1. compared' \in Seq(Versions) /\ alerts' \in Seq(Versions)
    BY <1>1 DEF RunContractListRefresh
  <2>2. [refresh[r] EXCEPT !.at = "done", !.answer = "202"] \in RefreshCalls
    BY Zenon DEF VersionInv, VersionTypeOK, RefreshCalls
  <2> QED BY Zenon, <2>1, <2>2 DEF VersionInv, VersionTypeOK, RunContractListRefresh
<1>3. alerted' = Remembered(compared'[Len(compared')])
  BY Zenon, <1>1 DEF RunContractListRefresh
<1>4. O \subseteq 1..n /\ IsFiniteSet(O) /\ Cardinality(O) \in Nat /\ n + 1 \notin O
  <2>1. O \subseteq 1..n
    BY <1>1 DEF Onsets
  <2>2. IsFiniteSet(1..n)
    BY <1>1, FS_Interval
  <2>3. IsFiniteSet(O)
    BY Zenon, <2>1, <2>2, FS_Subset
  <2> QED BY <1>1, <2>1, <2>3, FS_CardinalityType
<1>5. \A i \in O : Cardinality({j \in O : j <= i}) \in 1..Cardinality(O)
  <2> SUFFICES ASSUME NEW i \in O PROVE Cardinality({j \in O : j <= i}) \in 1..Cardinality(O)
    OBVIOUS
  <2> DEFINE P == {j \in O : j <= i}
  <2>1. P \subseteq O /\ i \in P
    BY <1>1, <1>4
  <2>2. IsFiniteSet(P) /\ Cardinality(P) <= Cardinality(O)
    BY Zenon, <1>4, <2>1, FS_Subset
  <2>4. Cardinality(P) \in Nat
    BY Zenon, <2>2, FS_CardinalityType
  <2>3. Cardinality(P) # 0
    BY Zenon, <2>1, <2>2, FS_EmptySet
  <2> QED BY <1>4, <2>2, <2>3, <2>4
<1>6. \A i \in O : compared'[i] = compared[i]
  BY <1>1, <1>4
<1>7. Len(alerts) = Cardinality(O) /\ \A i \in O : alerts[Cardinality({j \in O : j <= i})] = compared[i]
  BY Zenon DEF VersionInv, AlertPerOnset
<1>8. CASE Raises(v)
  <2>1. alerts' = Append(alerts, v) /\ Onsets(compared') = O \cup {n + 1}
    BY <1>1, <1>8, OnsetsOfAppend, RaisesAtOnset DEF RunContractListRefresh
  <2>2. Cardinality(O \cup {n + 1}) = Cardinality(O) + 1
    BY Zenon, <1>4, FS_AddElement
  <2>3. \A i \in O : {j \in O \cup {n + 1} : j <= i} = {j \in O : j <= i}
    BY <1>1, <1>4
  <2>4. {j \in O \cup {n + 1} : j <= n + 1} = O \cup {n + 1}
    BY <1>1, <1>4
  <2>5. Len(alerts') = Cardinality(O) + 1 /\ alerts'[Cardinality(O) + 1] = v
        /\ \A k \in 1..Cardinality(O) : alerts'[k] = alerts[k]
    BY <1>1, <1>7, <2>1
  <2>6. AlertPerOnset'
    <3>1. Len(alerts') = Cardinality(Onsets(compared'))
      BY Zenon, <2>1, <2>2, <2>5
    <3>2. ASSUME NEW i \in O
          PROVE  alerts'[Cardinality({j \in Onsets(compared') : j <= i})] = compared'[i]
      <4> DEFINE k == Cardinality({j \in O : j <= i})
      <4>1. Cardinality({j \in Onsets(compared') : j <= i}) = k
        BY Zenon, <2>1, <2>3
      <4>2. k \in 1..Cardinality(O) /\ alerts[k] = compared[i]
        BY Zenon, <1>5, <1>7
      <4> QED BY Zenon, <1>6, <2>5, <4>1, <4>2
    <3>3. alerts'[Cardinality({j \in Onsets(compared') : j <= n + 1})] = compared'[n + 1]
      BY Zenon, <1>1, <2>1, <2>2, <2>4, <2>5
    <3> QED BY Zenon, <2>1, <3>1, <3>2, <3>3 DEF AlertPerOnset
  <2> QED BY Zenon, <1>1, <1>2, <1>3, <2>6 DEF VersionInv
<1>9. CASE ~ Raises(v)
  <2>0. ~(Mismatch(v) /\ (compared = <<>> \/ compared[Len(compared)] # v))
    BY Zenon, <1>1, <1>9, RaisesAtOnset
  <2>1. alerts' = alerts /\ Onsets(compared') = O
    <3>1. alerts' = alerts
      BY Zenon, <1>1, <1>9 DEF RunContractListRefresh
    <3>2. Onsets(compared') = O
      BY Zenon, <1>1, <2>0, OnsetsOfAppend
    <3> QED BY Zenon, <3>1, <3>2
  <2>2. AlertPerOnset'
    <3>1. \A i \in O : alerts'[Cardinality({j \in Onsets(compared') : j <= i})] = compared'[i]
      BY Zenon, <1>6, <1>7, <2>1
    <3> QED BY Zenon, <1>7, <2>1, <3>1 DEF AlertPerOnset
  <2> QED BY Zenon, <1>1, <1>2, <1>3, <2>2 DEF VersionInv
<1> QED BY Zenon, <1>8, <1>9

\* contractListRefresh.js: one alert for every onset of a mismatch, for any requests,
\* registry and deployments.
THEOREM VersionInvariant == VersionSpec => []VersionInv
<1>0. Onsets(<<>>) = {} /\ Cardinality({}) = 0
  BY FS_EmptySet DEF Onsets
<1>1. VersionInit => VersionInv
  <2> SUFFICES ASSUME VersionInit PROVE VersionInv
    OBVIOUS
  <2>1. VersionTypeOK
    BY DEF VersionInit, VersionTypeOK, RefreshCalls, Fresh, Versions
  <2>2. AlertPerOnset
    BY Zenon, <1>0 DEF VersionInit, AlertPerOnset
  <2> QED BY Zenon, <2>1, <2>2 DEF VersionInit, VersionInv
<1>2. VersionInv /\ [VersionNext]_versionVars => VersionInv'
  <2> SUFFICES ASSUME VersionInv, [VersionNext]_versionVars PROVE VersionInv'
    OBVIOUS
  <2>1. ASSUME NEW r \in Refreshes, NEW does \in {"refresh", "version"}, Requested(r, does)
        PROVE VersionInv'
    <3>1. VersionTypeOK'
      BY Zenon, <2>1 DEF Requested, VersionInv, VersionTypeOK, RefreshCalls, Fresh, Versions
    <3> QED BY Zenon, <2>1, <3>1 DEF Requested, VersionInv, AlertPerOnset
  <2>2. ASSUME NEW r \in Refreshes, ReadVersion(r) \/ ReadFails(r) PROVE VersionInv'
    <3>1. VersionTypeOK'
      BY <2>2 DEF ReadVersion, ReadFails, VersionInv, VersionTypeOK, RefreshCalls, Versions
    <3> QED BY Zenon, <2>2, <3>1 DEF ReadVersion, ReadFails, VersionInv, AlertPerOnset
  <2>3. ASSUME NEW r \in Refreshes, RunContractListRefresh(r) PROVE VersionInv'
    BY <2>3, CompareStep
  <2>4. ASSUME NEW r \in Refreshes, ShowVersion(r) PROVE VersionInv'
    <3>1. PICK status \in {"current", "ahead", "unknown"} : status = CompareVersions(refresh[r].saw).status
      BY DEF CompareVersions
    <3>2. refresh' = [refresh EXCEPT ![r].at = "done", ![r].answer = status]
      BY Zenon, <2>4, <3>1 DEF ShowVersion
    <3>4. [refresh[r] EXCEPT !.at = "done", !.answer = status] \in RefreshCalls
      BY Zenon DEF VersionInv, VersionTypeOK, RefreshCalls
    <3>3. VersionTypeOK'
      BY ZenonT(60), <2>4, <3>2, <3>4 DEF ShowVersion, VersionInv, VersionTypeOK
    <3> QED BY Zenon, <2>4, <3>3 DEF ShowVersion, VersionInv, AlertPerOnset
  <2>5. CASE Deploy
    BY Zenon, <2>5 DEF Deploy, VersionInv, VersionTypeOK, AlertPerOnset
  <2>6. CASE VersionRestart
    <3>1. VersionTypeOK'
      <4>1. compared' \in Seq(Versions) /\ alerts' \in Seq(Versions)
        BY <2>6 DEF VersionRestart
      <4>2. \A r \in Refreshes : [refresh[r] EXCEPT !.at = IF @ = "none" THEN "none" ELSE "done"] \in RefreshCalls
        BY Zenon DEF VersionInv, VersionTypeOK, RefreshCalls
      <4> QED BY Zenon, <2>6, <4>1, <4>2 DEF VersionRestart, VersionInv, VersionTypeOK
    <3> QED BY Zenon, <1>0, <2>6, <3>1 DEF VersionRestart, VersionInv, AlertPerOnset
  <2>7. CASE UNCHANGED versionVars
    BY Zenon, <2>7 DEF versionVars, VersionInv, VersionTypeOK, AlertPerOnset
  <2> QED BY Zenon, <2>1, <2>2, <2>3, <2>4, <2>5, <2>6, <2>7 DEF VersionNext
<1> QED BY <1>1, <1>2, PTL DEF VersionSpec

\* The property of the run, for every value of the constants.
THEOREM AlertsMatchOnsets == VersionSpec => []AlertPerOnset
<1>1. VersionInv => AlertPerOnset
  BY DEF VersionInv
<1> QED BY <1>1, VersionInvariant, PTL

-----------------------------------------------------------------------------
(* Footprints.                                                             *)

\* A sequence without one of its positions.
Deleted(s, i) == SubSeq(s, 1, i - 1) \o SubSeq(s, i + 1, Len(s))

\* What removing one position leaves: the elements before it, and those after it
\* one place further on.
LEMMA DeletedProperties ==
  ASSUME NEW S, NEW s \in Seq(S), NEW i \in 1..Len(s)
  PROVE  /\ Deleted(s, i) \in Seq(S)
         /\ Len(Deleted(s, i)) = Len(s) - 1
         /\ \A j \in 1..(Len(s) - 1) : Deleted(s, i)[j] = IF j < i THEN s[j] ELSE s[j + 1]
<1> DEFINE n == Len(s)
           a == SubSeq(s, 1, i - 1)
           b == SubSeq(s, i + 1, n)
<1>1. n \in Nat /\ i \in Int /\ n \in Int /\ i - 1 \in Int /\ i + 1 \in Int /\ \A j \in 1..n : s[j] \in S
  OBVIOUS
<1>2. a \in Seq(S) /\ Len(a) = i - 1 /\ \A j \in 1..(i - 1) : a[j] = s[j]
  <2>1. /\ a \in Seq(S)
        /\ Len(a) = IF 1 <= i - 1 THEN (i - 1) - 1 + 1 ELSE 0
        /\ \A j \in 1..((i - 1) - 1 + 1) : a[j] = s[1 + j - 1]
    BY <1>1, SubSeqProperties
  <2> QED BY <1>1, <2>1
<1>3. b \in Seq(S) /\ Len(b) = n - i /\ \A j \in 1..(n - i) : b[j] = s[i + j]
  <2>1. /\ b \in Seq(S)
        /\ Len(b) = IF i + 1 <= n THEN n - (i + 1) + 1 ELSE 0
        /\ \A j \in 1..(n - (i + 1) + 1) : b[j] = s[(i + 1) + j - 1]
    BY <1>1, SubSeqProperties
  <2> QED BY <1>1, <2>1
<1> HIDE DEF a, b
<1>4. /\ a \o b \in Seq(S) /\ Len(a \o b) = Len(a) + Len(b)
      /\ \A j \in 1..(Len(a) + Len(b)) : (a \o b)[j] = IF j <= Len(a) THEN a[j] ELSE b[j - Len(a)]
  BY Zenon, <1>2, <1>3, ConcatProperties
<1>5. Deleted(s, i) = a \o b
  BY DEF Deleted, a, b
<1> DEFINE c == a \o b
<1> HIDE DEF n
<1>6. c \in Seq(S) /\ Len(c) = n - 1 /\ \A j \in 1..(n - 1) : c[j] = IF j <= i - 1 THEN a[j] ELSE b[j - (i - 1)]
  <2>1. (i - 1) + (n - i) = n - 1
    BY <1>1
  <2> QED BY Zenon, <1>2, <1>3, <1>4, <2>1
<1> HIDE DEF c
<1>7. ASSUME NEW j \in 1..(n - 1) PROVE c[j] = IF j < i THEN s[j] ELSE s[j + 1]
  <2>1. CASE j < i
    <3>1. j \in 1..(i - 1) /\ j <= i - 1
      BY <1>1, <2>1
    <3> QED BY Zenon, <1>2, <1>6, <2>1, <3>1
  <2>2. CASE ~ (j < i)
    <3>1. ~ (j <= i - 1) /\ j - (i - 1) \in 1..(n - i) /\ i + (j - (i - 1)) = j + 1
      BY <1>1, <2>2
    <3> QED BY Zenon, <1>3, <1>6, <2>2, <3>1
  <2> QED BY Zenon, <2>1, <2>2
<1> QED BY Zenon, <1>5, <1>6, <1>7 DEF n, c

Entries == [key : FootKeys, at : Nat]
\* Entries in the order of the last uses given.
InUseOrder(t, use) == \A i, j \in DOMAIN t : i < j => use[t[i].key] < use[t[j].key]

\* A key stands at most once, and deleting it from the Map leaves the order of the rest.
LEMMA WithoutKey ==
  ASSUME FootInv, NEW k \in FootKeys
  PROVE  /\ Without(k) \in Seq(Entries) /\ InUseOrder(Without(k), lastUse)
         /\ Len(Without(k)) <= Len(footprints)
         /\ Held(k) # {} => Len(Without(k)) < Len(footprints)
         /\ \A i \in DOMAIN Without(k) : Without(k)[i].key # k
<1>1. footprints \in Seq(Entries) /\ Len(footprints) \in Nat /\ DOMAIN footprints = 1..Len(footprints)
  BY DEF FootInv, FootTypeOK, Entries
<1>2. \A i, j \in 1..Len(footprints) : i < j => lastUse[footprints[i].key] < lastUse[footprints[j].key]
  BY Zenon, <1>1 DEF FootInv, LeastRecentFirst
<1>3. \A i \in 1..Len(footprints) : footprints[i].key \in FootKeys /\ lastUse[footprints[i].key] \in Nat
  <2>1. lastUse \in [FootKeys -> Nat]
    BY DEF FootInv, FootTypeOK
  <2>2. \A i \in 1..Len(footprints) : footprints[i] \in Entries
    BY <1>1
  <2>3. \A e \in Entries : e.key \in FootKeys
    BY DEF Entries
  <2> QED BY Zenon, <2>1, <2>2, <2>3
<1>4. CASE Held(k) = {}
  <2>1. Without(k) = footprints
    BY Zenon, <1>4 DEF Without
  <2>2. \A i \in 1..Len(footprints) : footprints[i].key # k
    BY Zenon, <1>1, <1>4 DEF Held
  <2>3. Len(footprints) <= Len(footprints)
    BY <1>1
  <2> QED BY Zenon, <1>1, <1>2, <1>4, <2>1, <2>2, <2>3 DEF InUseOrder
<1>5. CASE Held(k) # {}
  <2> DEFINE p == Place(k)
             w == Deleted(footprints, p)
  <2>1. p \in 1..Len(footprints) /\ footprints[p].key = k
    BY Zenon, <1>1, <1>5 DEF Held, Place
  <2>2. Without(k) = w
    BY Zenon, <1>5 DEF Without, Deleted
  <2>3. /\ w \in Seq(Entries) /\ Len(w) = Len(footprints) - 1
        /\ \A j \in 1..(Len(footprints) - 1) : w[j] = IF j < p THEN footprints[j] ELSE footprints[j + 1]
    BY Zenon, <1>1, <2>1, DeletedProperties
  <2>4. DOMAIN w = 1..(Len(footprints) - 1)
    BY <2>3
  <2> HIDE DEF p, w
  <2>5. InUseOrder(w, lastUse)
    <3> SUFFICES ASSUME NEW i \in 1..(Len(footprints) - 1), NEW j \in 1..(Len(footprints) - 1), i < j
                 PROVE  lastUse[w[i].key] < lastUse[w[j].key]
      BY Zenon, <2>4 DEF InUseOrder
    <3> DEFINE x == IF i < p THEN i ELSE i + 1
               y == IF j < p THEN j ELSE j + 1
    <3>1. x \in 1..Len(footprints) /\ y \in 1..Len(footprints) /\ x < y
      BY <1>1, <2>1
    <3>2. w[i] = footprints[x] /\ w[j] = footprints[y]
      BY Zenon, <2>3
    <3> QED BY Zenon, <1>2, <3>1, <3>2
  <2>6. ASSUME NEW i \in 1..(Len(footprints) - 1) PROVE w[i].key # k
    <3> DEFINE x == IF i < p THEN i ELSE i + 1
    <3>1. x \in 1..Len(footprints) /\ x # p /\ w[i] = footprints[x]
      BY <1>1, <2>1, <2>3
    <3>2. lastUse[footprints[x].key] # lastUse[footprints[p].key]
      <4>1. x < p \/ p < x
        BY <1>1, <2>1, <3>1
      <4> QED BY <1>2, <1>3, <2>1, <3>1, <4>1
    <3> QED BY Zenon, <2>1, <3>1, <3>2
  <2>7. Len(w) <= Len(footprints) /\ Len(w) < Len(footprints)
    BY <1>1, <2>3
  <2> QED BY ZenonT(60), <2>2, <2>3, <2>4, <2>5, <2>6, <2>7
<1> QED BY Zenon, <1>4, <1>5

\* A key put at the back, and used now, comes after everything else.
LEMMA UsedLast ==
  ASSUME FootInv, NEW k \in FootKeys, Touch(k),
         NEW t \in Seq(Entries), InUseOrder(t, lastUse), Len(t) < FootSize,
         \A i \in DOMAIN t : t[i].key # k,
         NEW e \in Entries, e.key = k, footprints' = Append(t, e)
  PROVE  /\ footprints' \in Seq(Entries) /\ uses' \in Nat /\ lastUse' \in [FootKeys -> Nat]
         /\ \A x \in FootKeys : lastUse'[x] <= uses'
         /\ LeastRecentFirst'
<1>1. Len(t) \in Nat /\ DOMAIN t = 1..Len(t) /\ \A i \in 1..Len(t) : t[i] \in Entries /\ t[i].key \in FootKeys
  <2>1. Len(t) \in Nat /\ DOMAIN t = 1..Len(t) /\ \A i \in 1..Len(t) : t[i] \in Entries
    OBVIOUS
  <2>2. \A d \in Entries : d.key \in FootKeys
    BY DEF Entries
  <2> QED BY Zenon, <2>1, <2>2
<1>2. /\ footprints' \in Seq(Entries) /\ Len(footprints') = Len(t) + 1 /\ DOMAIN footprints' = 1..(Len(t) + 1)
      /\ footprints'[Len(t) + 1] = e /\ \A i \in 1..Len(t) : footprints'[i] = t[i]
  BY <1>1
<1>3. /\ uses' = uses + 1 /\ uses \in Nat /\ lastUse \in [FootKeys -> Nat] /\ lastUse' \in [FootKeys -> Nat]
      /\ lastUse'[k] = uses + 1 /\ \A x \in FootKeys \ {k} : lastUse'[x] = lastUse[x]
      /\ \A x \in FootKeys : lastUse[x] <= uses
  <2>1. uses' = uses + 1 /\ lastUse' = [lastUse EXCEPT ![k] = uses + 1]
    BY Zenon DEF Touch
  <2>2. uses \in Nat /\ lastUse \in [FootKeys -> Nat] /\ \A x \in FootKeys : lastUse[x] <= uses
    BY DEF FootInv, FootTypeOK
  <2> QED BY <2>1, <2>2
<1>4. \A i \in 1..Len(t) : lastUse'[t[i].key] = lastUse[t[i].key] /\ lastUse[t[i].key] < lastUse'[k]
  <2> SUFFICES ASSUME NEW i \in 1..Len(t)
               PROVE  lastUse'[t[i].key] = lastUse[t[i].key] /\ lastUse[t[i].key] < lastUse'[k]
    BY Zenon
  <2>1. t[i].key \in FootKeys /\ t[i].key # k
    BY Zenon, <1>1
  <2>2. lastUse[t[i].key] \in Nat /\ lastUse[t[i].key] <= uses
    BY Zenon, <1>3, <2>1
  <2> QED BY <1>3, <2>1, <2>2
<1>5. ASSUME NEW i \in 1..(Len(t) + 1), NEW j \in 1..(Len(t) + 1), i < j
      PROVE  lastUse'[footprints'[i].key] < lastUse'[footprints'[j].key]
  <2>1. i \in 1..Len(t)
    BY <1>1, <1>5
  <2>2. CASE j = Len(t) + 1
    BY Zenon, <1>2, <1>4, <2>1, <2>2
  <2>3. CASE j # Len(t) + 1
    <3>1. j \in 1..Len(t)
      BY <1>1, <2>3
    <3>2. lastUse[t[i].key] < lastUse[t[j].key]
      BY Zenon, <1>1, <1>5, <2>1, <3>1 DEF InUseOrder
    <3> QED BY Zenon, <1>2, <1>4, <2>1, <3>1, <3>2
  <2> QED BY Zenon, <2>2, <2>3
<1>6. Len(footprints') <= FootSize
  BY <1>1, <1>2, FootAssumption
<1>7. LeastRecentFirst'
  BY Zenon, <1>2, <1>5, <1>6 DEF LeastRecentFirst
<1>8. \A x \in FootKeys : lastUse'[x] <= uses'
  <2> SUFFICES ASSUME NEW x \in FootKeys PROVE lastUse'[x] <= uses'
    OBVIOUS
  <2>1. lastUse[x] \in Nat /\ lastUse[x] <= uses
    BY Zenon, <1>3
  <2>2. lastUse'[x] = lastUse[x] \/ lastUse'[x] = uses + 1
    BY Zenon, <1>3
  <2> QED BY <1>3, <2>1, <2>2
<1> QED BY Zenon, <1>2, <1>3, <1>7, <1>8

\* Making room leaves a place free and no entry of the key.
LEMMA RoomMade ==
  ASSUME FootInv, NEW k \in FootKeys
  PROVE  /\ Room(k) \in Seq(Entries) /\ InUseOrder(Room(k), lastUse) /\ Len(Room(k)) < FootSize
         /\ \A i \in DOMAIN Room(k) : Room(k)[i].key # k
<1>1. /\ footprints \in Seq(Entries) /\ Len(footprints) \in Nat /\ DOMAIN footprints = 1..Len(footprints)
      /\ Len(footprints) <= FootSize /\ InUseOrder(footprints, lastUse)
  BY DEF FootInv, FootTypeOK, LeastRecentFirst, Entries, InUseOrder
<1>2. CASE Held(k) # {}
  <2>1. Room(k) = Without(k) /\ Len(Without(k)) \in Nat
    BY <1>2, WithoutKey DEF Room
  <2> QED BY <1>1, <1>2, <2>1, WithoutKey, FootAssumption
<1>3. CASE Held(k) = {} /\ Len(footprints) >= FootSize
  <2> DEFINE t == Tail(footprints)
  <2>1. Room(k) = t
    BY <1>3 DEF Room
  <2>2. footprints # <<>>
    BY <1>1, <1>3, FootAssumption
  <2>3. /\ t \in Seq(Entries) /\ Len(t) = Len(footprints) - 1 /\ DOMAIN t = 1..(Len(footprints) - 1)
        /\ \A i \in 1..(Len(footprints) - 1) : t[i] = footprints[i + 1]
    BY <1>1, <2>2, HeadTailProperties
  <2> HIDE DEF t
  <2>4. ASSUME NEW i \in 1..(Len(footprints) - 1) PROVE t[i].key # k
    <3>1. i + 1 \in 1..Len(footprints)
      BY <1>1
    <3> QED BY Zenon, <1>1, <1>3, <2>3, <3>1 DEF Held
  <2>5. ASSUME NEW i \in 1..(Len(footprints) - 1), NEW j \in 1..(Len(footprints) - 1), i < j
        PROVE  lastUse[t[i].key] < lastUse[t[j].key]
    <3>1. i + 1 \in DOMAIN footprints /\ j + 1 \in DOMAIN footprints /\ i + 1 < j + 1
      BY <1>1, <2>5
    <3> QED BY Zenon, <1>1, <2>3, <3>1 DEF InUseOrder
  <2>6. InUseOrder(t, lastUse)
    BY Zenon, <2>3, <2>5 DEF InUseOrder
  <2>7. Len(t) < FootSize
    BY <1>1, <2>3, FootAssumption
  <2> QED BY ZenonT(60), <2>1, <2>3, <2>4, <2>6, <2>7
<1>4. CASE Held(k) = {} /\ ~ (Len(footprints) >= FootSize)
  BY <1>1, <1>4, FootAssumption DEF Room, Held
<1> QED BY Zenon, <1>2, <1>3, <1>4

\* sorobanSim.js, its footprint cache: for any simulations, keys and size.
THEOREM FootInvariant == FootSpec => []FootInv
<1>1. FootInit => FootInv
  BY FootAssumption DEF FootInit, FootInv, FootTypeOK, NoSim, LeastRecentFirst
<1>2. FootInv /\ [FootNext]_footVars => FootInv'
  <2> SUFFICES ASSUME FootInv, [FootNext]_footVars PROVE FootInv'
    OBVIOUS
  <2> DEFINE Sims == [at : {"none", "cached", "calling", "success", "failure"},
                      key : FootKeys \cup {NoSim.key}, useCache : BOOLEAN]
  <2>0. footprints \in Seq(Entries) /\ sim \in [Simulations -> Sims] /\ instantSim \in Nat
    BY DEF FootInv, FootTypeOK, Entries
  <2>1. ASSUME NEW s \in Simulations, NEW k \in FootKeys, SimulateHit(s, k) PROVE FootInv'
    <3>1. Held(k) # {} /\ Place(k) \in Held(k)
      BY Zenon, <2>1 DEF SimulateHit, LiveEntry, Place
    <3>2. footprints[Place(k)] \in Entries /\ footprints[Place(k)].key = k
      BY <2>0, <3>1 DEF Held
    <3>3. Len(Without(k)) < FootSize
      <4>1. Len(Without(k)) < Len(footprints) /\ Len(footprints) <= FootSize /\ Len(Without(k)) \in Nat
              /\ Len(footprints) \in Nat
        BY <2>0, <3>1, WithoutKey DEF FootInv, LeastRecentFirst
      <4>2. FootSize \in Nat
        BY Zenon, FootAssumption
      <4> QED BY Zenon, <4>1, <4>2, Through
    <3>4. footprints' = Append(Without(k), footprints[Place(k)]) /\ Touch(k)
      BY <2>1 DEF SimulateHit, Promoted
    <3>5. /\ footprints' \in Seq(Entries) /\ uses' \in Nat /\ lastUse' \in [FootKeys -> Nat]
          /\ \A x \in FootKeys : lastUse'[x] <= uses'
          /\ LeastRecentFirst'
      BY Zenon, <3>2, <3>3, <3>4, WithoutKey, UsedLast
    <3>6. sim' \in [Simulations -> Sims] /\ \A q \in Simulations : sim'[q].at = "calling" =>
            sim'[q].key \in FootKeys
      BY Zenon, <2>0, <2>1 DEF SimulateHit, FootInv
    <3> QED BY Zenon, <2>0, <2>1, <3>5, <3>6 DEF SimulateHit, FootInv, FootTypeOK, Entries
  <2>2. ASSUME NEW s \in Simulations, NEW k \in FootKeys, NEW useCache \in BOOLEAN, SimulateMiss(s, k, useCache)
        PROVE  FootInv'
    <3>1. sim' \in [Simulations -> Sims] /\ \A q \in Simulations : sim'[q].at = "calling" =>
            sim'[q].key \in FootKeys
      BY Zenon, <2>0, <2>2 DEF SimulateMiss, FootInv
    <3>2. footprints' \in Seq(Entries) /\ InUseOrder(footprints', lastUse) /\ Len(footprints') <= FootSize
      <4>1. CASE useCache
        <5>1. Len(Without(k)) <= Len(footprints) /\ Len(footprints) <= FootSize
                /\ Len(Without(k)) \in Nat /\ Len(footprints) \in Nat
          BY <2>0, WithoutKey DEF FootInv, LeastRecentFirst
        <5>2. FootSize \in Nat
          BY Zenon, FootAssumption
        <5>3. footprints' = Without(k) /\ Len(Without(k)) <= FootSize
          BY Zenon, <2>2, <4>1, <5>1, <5>2, Through DEF SimulateMiss
        <5> QED BY Zenon, <5>3, WithoutKey
      <4>2. CASE ~ useCache
        BY Zenon, <2>0, <2>2, <4>2 DEF SimulateMiss, FootInv, LeastRecentFirst, InUseOrder
      <4> QED BY Zenon, <4>1, <4>2
    <3> QED BY Zenon, <2>2, <3>1, <3>2 DEF SimulateMiss, FootInv, FootTypeOK, LeastRecentFirst,
               InUseOrder, Entries
  <2>3. ASSUME NEW s \in Simulations, SimulateInvalid(s) \/ SimulationFails(s) PROVE FootInv'
    <3>1. sim' \in [Simulations -> Sims] /\ \A q \in Simulations : sim'[q].at = "calling" =>
            sim'[q].key \in FootKeys
      BY <2>0, <2>3 DEF SimulateInvalid, SimulationFails, FootInv
    <3> QED BY ZenonT(60), <2>3, <3>1 DEF SimulateInvalid, SimulationFails, FootInv, FootTypeOK, LeastRecentFirst
  <2>4. ASSUME NEW s \in Simulations, Simulated(s) PROVE FootInv'
    <3>1. sim' \in [Simulations -> Sims] /\ \A q \in Simulations : sim'[q].at = "calling" =>
            sim'[q].key \in FootKeys
      BY ZenonT(60), <2>0, <2>4 DEF Simulated, FootInv
    <3>2. CASE sim[s].useCache
      <4> DEFINE k == sim[s].key
      <4>1. k \in FootKeys /\ [key |-> k, at |-> instantSim] \in Entries
        BY Zenon, <2>0, <2>4 DEF Simulated, FootInv, Entries
      <4>2. footprints' = Append(Room(k), [key |-> k, at |-> instantSim]) /\ Touch(k)
        BY Zenon, <2>4, <3>2 DEF Simulated, CacheFootprint
      <4> HIDE DEF k
      <4>3. /\ footprints' \in Seq(Entries) /\ uses' \in Nat /\ lastUse' \in [FootKeys -> Nat]
            /\ \A x \in FootKeys : lastUse'[x] <= uses'
            /\ LeastRecentFirst'
        BY Zenon, <4>1, <4>2, RoomMade, UsedLast
      <4> QED BY Zenon, <2>0, <2>4, <3>1, <4>3 DEF Simulated, FootInv, FootTypeOK, Entries
    <3>3. CASE ~ sim[s].useCache
      BY Zenon, <2>4, <3>1, <3>3 DEF Simulated, FootInv, FootTypeOK, LeastRecentFirst
    <3> QED BY Zenon, <3>2, <3>3
  <2>5. CASE SimTick
    BY <2>5 DEF SimTick, FootInv, FootTypeOK, LeastRecentFirst
  <2>6. CASE UNCHANGED footVars
    BY Zenon, <2>6 DEF footVars, FootInv, FootTypeOK, LeastRecentFirst
  <2> QED BY Zenon, <2>1, <2>2, <2>3, <2>4, <2>5, <2>6 DEF FootNext
<1> QED BY <1>1, <1>2, PTL DEF FootSpec

\* The property of the run, for every value of the constants.
THEOREM FootprintsInUseOrder == FootSpec => []LeastRecentFirst
<1>1. FootInv => LeastRecentFirst
  BY Zenon DEF FootInv
<1> QED BY <1>1, FootInvariant, PTL

-----------------------------------------------------------------------------
(* Escrow summaries.                                                       *)

\* No entry, nobody served.
LEMMA SummaryStart == SummaryInit => SummaryInv
  BY SummaryAssumption
  DEF SummaryInit, BreakerInit, SummaryInv, SummaryTypeOK, BreakerTypeOK, CircuitBreakerState,
      StaleOnlyWithinTtl, NoEntry

\* Whatever the breaker of the cache does, it stays a breaker.
LEMMA BreakerStaysTyped ==
  ASSUME BreakerTypeOK, now' = now, Admits \/ onSuccess \/ onFailure \/ UNCHANGED breakerVars
  PROVE  BreakerTypeOK'
  BY BreakerAssumption
  DEF BreakerTypeOK, CircuitBreakerState, Admits, onSuccess, onFailure, Trip, breakerVars

\* A step of one request that leaves Redis and the projection alone.
LEMMA QuietRead ==
  ASSUME SummaryInv, NEW r \in Readers, NEW where \in {"get", "project", "live", "hold", "save", "set", "done", "failed"},
         BreakerTypeOK', ReadGoes(r, where),
         UNCHANGED <<now, cacheable, projected, entry, staleAt>>,
         summary' \in [Readers -> Summaries \cup {None}], deadline' \in [Readers -> Nat],
         \A q \in Readers \ {r} : summary'[q] = summary[q],
         where \in {"hold", "save"} => summary'[r] \in Summaries,
         sent' \in [Readers -> [summary : Summaries, cachedLedger : Nat \cup {None}] \cup {None}],
         lag' \in [Readers -> Nat], \A q \in Readers : lag'[q] < CacheTtl
  PROVE  SummaryInv'
<1>1. /\ readAt' \in [Readers -> {"new", "get", "project", "live", "hold", "save", "set", "done", "failed"}]
      /\ readAt'[r] = where
      /\ \A q \in Readers \ {r} : readAt'[q] = readAt[q]
  BY Zenon DEF ReadGoes, SummaryInv, SummaryTypeOK
<1> QED BY Zenon, <1>1 DEF SummaryInv, SummaryTypeOK, StaleOnlyWithinTtl

\* Every step of getEscrowSummary() keeps the invariant: a cached summary is served
\* only before its time to live ends, which is counted from when it went stale or later.
LEMMA ReadSteps ==
  ASSUME SummaryInv, NEW r \in Readers, ReadStep(r)
  PROVE  SummaryInv'
<1> USE SummaryAssumption
<1>0. /\ BreakerTypeOK /\ now \in Nat
      /\ summary \in [Readers -> Summaries \cup {None}] /\ deadline \in [Readers -> Nat]
      /\ sent \in [Readers -> [summary : Summaries, cachedLedger : Nat \cup {None}] \cup {None}]
      /\ lag \in [Readers -> Nat] /\ \A q \in Readers : lag[q] < CacheTtl
      /\ projected \in 0..MaxLedger
  BY Zenon DEF SummaryInv, SummaryTypeOK, BreakerTypeOK, StaleOnlyWithinTtl
<1>1. CASE Unmapped(r) \/ StartUncached(r) \/ LiveRefused(r) \/ SaveSkipped(r)
  BY Zenon, <1>0, <1>1, BreakerStaysTyped, QuietRead DEF Unmapped, StartUncached, LiveRefused, SaveSkipped
<1>2. CASE StartGet(r)
  <2>1. now + OpTimeout \in Nat
    BY <1>0
  <2>2. deadline' \in [Readers -> Nat]
    BY Zenon, <1>0, <1>2, <2>1 DEF StartGet
  <2>3. BreakerTypeOK'
    BY Zenon, <1>0, <1>2, BreakerStaysTyped DEF StartGet
  <2> QED BY Zenon, <1>0, <1>2, <2>2, <2>3, QuietRead DEF StartGet
<1>3. CASE GetAnswered(r)
  <2>1. BreakerTypeOK'
    BY Zenon, <1>0, <1>3, BreakerStaysTyped DEF GetAnswered
  <2>2. CASE entry.summary # None /\ now < entry.expires /\ ~ GapExceeded(None, entry.cachedLedger)
    <3>1. entry.summary \in Summaries
      BY Zenon, <2>2 DEF SummaryInv, SummaryTypeOK
    <3>2. /\ summary' = [summary EXCEPT ![r] = entry.summary]
          /\ lag' = [lag EXCEPT ![r] = IF entry.summary.ledger # projected THEN now - staleAt ELSE 0]
          /\ ReadGoes(r, "done")
          /\ UNCHANGED <<now, cacheable, projected, entry, deadline, sent, staleAt>>
      BY Zenon, <1>3, <2>2 DEF GetAnswered
    <3>3. lag'[r] \in Nat /\ lag'[r] < CacheTtl
      BY <1>0, <2>2, <3>2 DEF SummaryInv, SummaryTypeOK, BreakerTypeOK
    <3> QED BY Zenon, <1>0, <2>1, <3>1, <3>2, <3>3, QuietRead
  <2>3. CASE ~(entry.summary # None /\ now < entry.expires /\ ~ GapExceeded(None, entry.cachedLedger))
    BY Zenon, <1>0, <1>3, <2>1, <2>3, QuietRead DEF GetAnswered
  <2> QED BY Zenon, <2>2, <2>3
<1>4. CASE GetFails(r)
  BY Zenon, <1>0, <1>4, BreakerStaysTyped, QuietRead DEF GetFails
<1>5. CASE ReadProjection(r) \/ ReadLive(r)
  <2>1. PICK s \in Summaries, where \in {"live", "hold", "save"} :
           summary' = [summary EXCEPT ![r] = s] /\ ReadGoes(r, where)
    <3>1. \A l \in {projected, 0} : [ledger |-> l, hold |-> "absent"] \in Summaries
      BY <1>0 DEF Summaries
    <3> QED BY Zenon, <1>5, <3>1 DEF ReadProjection, ReadLive, ReadsProjection
  <2> QED BY Zenon, <1>0, <1>5, <2>1, BreakerStaysTyped, QuietRead DEF ReadProjection, ReadLive
<1>6. CASE ReadHold(r)
  <2>1. PICK hold \in {"no", "yes"} : summary' = [summary EXCEPT ![r].hold = hold]
    BY Zenon, <1>6 DEF ReadHold
  <2>2. summary[r] \in Summaries
    BY Zenon, <1>6 DEF ReadHold, SummaryInv
  <2>3. [summary[r] EXCEPT !.hold = hold] \in Summaries
    BY Zenon, <2>2 DEF Summaries
  <2> QED BY Zenon, <1>0, <1>6, <2>1, <2>3, BreakerStaysTyped, QuietRead DEF ReadHold
<1>7. CASE StartSet(r)
  <2>1. summary[r] \in Summaries
    BY Zenon, <1>7 DEF StartSet, SummaryInv
  <2>2. [summary |-> summary[r],
         cachedLedger |-> IF summary[r].hold = "absent" THEN summary[r].ledger ELSE None]
          \in [summary : Summaries, cachedLedger : Nat \cup {None}]
    BY <2>1 DEF Summaries
  <2>3. now + OpTimeout \in Nat
    BY <1>0
  <2>4. deadline' \in [Readers -> Nat]
    BY Zenon, <1>0, <1>7, <2>3 DEF StartSet
  <2>5. sent' \in [Readers -> [summary : Summaries, cachedLedger : Nat \cup {None}] \cup {None}]
    BY Zenon, <1>0, <1>7, <2>2 DEF StartSet
  <2>6. BreakerTypeOK'
    BY Zenon, <1>0, <1>7, BreakerStaysTyped DEF StartSet
  <2> QED BY Zenon, <1>0, <1>7, <2>4, <2>5, <2>6, QuietRead DEF StartSet
<1>8. CASE SetAnswered(r) \/ SetFails(r)
  BY Zenon, <1>0, <1>8, BreakerStaysTyped, QuietRead DEF SetAnswered, SetFails
<1> QED BY ZenonT(60), <1>1, <1>2, <1>3, <1>4, <1>5, <1>6, <1>7, <1>8 DEF ReadStep

\* A SET that reaches Redis: the summary is the latest, or outdated from now on.
LEMMA LandStep ==
  ASSUME SummaryInv, NEW r \in Readers, Land(r)
  PROVE  SummaryInv'
<1>1. sent[r] \in [summary : Summaries, cachedLedger : Nat \cup {None}]
  BY Zenon DEF Land, SummaryInv, SummaryTypeOK
<1>2. /\ entry' = [summary |-> sent[r].summary, cachedLedger |-> sent[r].cachedLedger, expires |-> now + CacheTtl]
      /\ entry' \in [summary : Summaries \cup {None}, cachedLedger : Nat \cup {None}, expires : Nat]
  <2>1. now + CacheTtl \in Nat
    BY SummaryAssumption DEF SummaryInv, SummaryTypeOK, BreakerTypeOK
  <2> QED BY Zenon, <1>1, <2>1 DEF Land, Lands
<1>3. sent' \in [Readers -> [summary : Summaries, cachedLedger : Nat \cup {None}] \cup {None}]
  BY Zenon DEF Land, SummaryInv, SummaryTypeOK
<1>4. BreakerTypeOK'
  BY Zenon, BreakerStaysTyped DEF Land, SummaryInv, SummaryTypeOK
<1>5. now \in Nat /\ staleAt \in Nat /\ staleAt <= now /\ CacheTtl \in Nat
  BY Zenon, SummaryAssumption DEF SummaryInv, SummaryTypeOK, BreakerTypeOK
<1>6. /\ now' = now /\ projected' = projected
      /\ staleAt' = IF sent[r].summary.ledger # projected THEN now ELSE staleAt
      /\ entry'.summary = sent[r].summary /\ entry'.expires = now + CacheTtl
  BY Zenon, <1>2 DEF Land
<1>7. staleAt' \in Nat /\ staleAt' <= now' /\ entry'.expires <= now' + CacheTtl
  BY <1>5, <1>6
<1>8. \/ entry'.summary.ledger = projected'
      \/ entry'.expires <= staleAt' + CacheTtl
  BY <1>5, <1>6
<1>9. SummaryTypeOK'
  BY Zenon, <1>2, <1>3, <1>4, <1>7 DEF Land, SummaryInv, SummaryTypeOK
<1> QED BY Zenon, <1>7, <1>8, <1>9 DEF Land, SummaryInv, StaleOnlyWithinTtl

\* The cache of escrowRead.js never serves an outdated summary a time to live after
\* it became outdated, for any readers, time-outs and breaker.
THEOREM SummaryInvariant == SummarySpec => []SummaryInv
<1>1. SummaryInv /\ [SummaryNext]_summaryVars => SummaryInv'
  <2> SUFFICES ASSUME SummaryInv, [SummaryNext]_summaryVars PROVE SummaryInv'
    BY Zenon
  <2> USE SummaryAssumption
  <2>1. ASSUME NEW r \in Readers, ReadStep(r) PROVE SummaryInv'
    BY Zenon, <2>1, ReadSteps
  <2>2. ASSUME NEW r \in Readers, Land(r) PROVE SummaryInv'
    BY Zenon, <2>2, LandStep
  <2>3. ASSUME NEW r \in Readers, Lose(r) PROVE SummaryInv'
    <3>1. BreakerTypeOK'
      BY Zenon, <2>3, BreakerStaysTyped DEF Lose, SummaryInv, SummaryTypeOK
    <3> QED BY Zenon, <2>3, <3>1 DEF Lose, SummaryInv, SummaryTypeOK, StaleOnlyWithinTtl
  <2>4. CASE Project
    BY <2>4 DEF Project, SummaryInv, SummaryTypeOK, BreakerTypeOK, StaleOnlyWithinTtl, requestVars, breakerVars
  <2>5. CASE SummaryTick
    BY <2>5 DEF SummaryTick, SummaryInv, SummaryTypeOK, BreakerTypeOK, StaleOnlyWithinTtl,
       requestVars, breakerVars
  <2>6. CASE UNCHANGED summaryVars
    BY Zenon, <2>6 DEF summaryVars, SummaryInv, SummaryTypeOK, BreakerTypeOK, StaleOnlyWithinTtl,
       requestVars, breakerVars
  <2> QED BY Zenon, <2>1, <2>2, <2>3, <2>4, <2>5, <2>6 DEF SummaryNext
<1> QED BY SummaryStart, <1>1, PTL DEF SummarySpec

\* The property of the run, for every value of the constants.
THEOREM SummariesAreFresh == SummarySpec => []StaleOnlyWithinTtl
<1>1. SummaryInv => StaleOnlyWithinTtl
  BY Zenon DEF SummaryInv
<1> QED BY <1>1, SummaryInvariant, PTL

=============================================================================

----------------------------- MODULE SorobanCall -----------------------------
(***************************************************************************)
(* Contract calls (src/services/soroban.js): callSorobanContract() runs    *)
(* withRetry() inside the one shared CircuitBreaker of the process.  The   *)
(* calls of Calls overlap freely: a call gives up the event loop while the *)
(* RPC is under way and while it sleeps between attempts.                  *)
(*                                                                         *)
(* The RPC server is external: an attempt resolves or throws an error of   *)
(* Errors at any time.  Time moves in the unit of the delays.              *)
(***************************************************************************)
EXTENDS CircuitBreaker, FiniteSets

CONSTANTS
  Calls,        \* calls of callSorobanContract
  Errors,       \* errors an RPC attempt may throw: [code, status, message]
  MaxRetries, BaseDelay, MaxDelay, MaxElapsed,   \* SOROBAN_RETRY_CONFIG
  Horizon       \* bound: an RPC attempt lets the clock run up to here

ASSUME SorobanAssumption ==
  /\ {MaxRetries, BaseDelay, MaxDelay, MaxElapsed, Horizon} \subseteq Nat
  /\ IsFiniteSet(Calls)

VARIABLES
  phase,        \* [Calls -> Phases]
  attempt,      \* the loop variable of withRetry
  startTime,    \* startTime of withRetry
  wake,         \* when sleep() ends, for a call in phase "sleep"
  admittedIn    \* history: the breaker's state when execute() admitted the call

callVars == <<phase, attempt, startTime, wake, admittedIn>>
vars == <<breakerVars, now, callVars>>

Phases == {"new", "rpc", "sleep", "resolved", "rejected", "refused"}

InFlight == {"rpc", "sleep"}

AtMost(x, cap) == IF x < cap THEN x ELSE cap

maxRetries == AtMost(MaxRetries, 10)
maxElapsedMs == AtMost(MaxElapsed, 120000)

Init ==
  /\ BreakerInit
  /\ phase = [c \in Calls |-> "new"]
  /\ attempt = [c \in Calls |-> 0]
  /\ startTime = [c \in Calls |-> 0]
  /\ wake = [c \in Calls |-> 0]
  /\ admittedIn = [c \in Calls |-> "none"]

-----------------------------------------------------------------------------
(* The error classifier and the back-off.                                  *)

\* classifySorobanError(err).retryable: a transport code first, then the HTTP
\* status, then a phrase of the message.
isRetryable(err) ==
  \/ err.code \in {"ETIMEDOUT", "ECONNRESET", "ECONNREFUSED"}
  \/ err.status \in {429, 502, 503, 504}
  \/ err.message \in {"rate limit", "service unavailable", "bad gateway",
                      "gateway timeout", "timeout", "network"}

\* 2 ** attempt, for the attempts the hard cap of ten retries leaves.
Pow2 == [n \in 0..9 |-> <<1, 2, 4, 8, 16, 32, 64, 128, 256, 512>>[n + 1]]

\* The delays computeBackoff() may return: 20% jitter either way, rounded.
computeBackoff(n) ==
  LET exp == AtMost(BaseDelay, 10000) * Pow2[n]
      cap == AtMost(MaxDelay, 60000)
  IN  {AtMost(d, cap) : d \in ((8 * exp + 5) \div 10) .. ((12 * exp + 4) \div 10)}

-----------------------------------------------------------------------------
(* callSorobanContract().                                                  *)

\* Refused by the breaker, with the error CIRCUIT_OPEN.
CallRefused(c) ==
  /\ phase[c] = "new"
  /\ FailsFast
  /\ phase' = [phase EXCEPT ![c] = "refused"]
  /\ UNCHANGED <<breakerVars, now, attempt, startTime, wake, admittedIn>>

\* Admitted: withRetry() makes its first attempt.
CallAdmitted(c) ==
  /\ phase[c] = "new"
  /\ Admits
  /\ phase' = [phase EXCEPT ![c] = "rpc"]
  /\ startTime' = [startTime EXCEPT ![c] = now]
  /\ admittedIn' = [admittedIn EXCEPT ![c] = state']
  /\ UNCHANGED <<now, attempt, wake>>

\* The call is over and its local variables are gone.
Returns(c, how) ==
  /\ phase' = [phase EXCEPT ![c] = how]
  /\ attempt' = [attempt EXCEPT ![c] = 0]
  /\ startTime' = [startTime EXCEPT ![c] = 0]
  /\ admittedIn' = [admittedIn EXCEPT ![c] = "none"]
  /\ UNCHANGED <<now, wake>>

RpcResolves(c) ==
  /\ phase[c] = "rpc"
  /\ Returns(c, "resolved")
  /\ onSuccess

\* withRetry() rethrows err instead of sleeping.
GivesUp(c, err) ==
  \/ attempt[c] = maxRetries
  \/ ~ isRetryable(err)
  \/ now - startTime[c] >= maxElapsedMs

\* The attempt throws and the call with it: one failure for the breaker.
RpcThrows(c, err) ==
  /\ phase[c] = "rpc"
  /\ GivesUp(c, err)
  /\ Returns(c, "rejected")
  /\ onFailure

\* The attempt throws and withRetry() sleeps; the breaker hears nothing.
RpcBacksOff(c, err) ==
  /\ phase[c] = "rpc"
  /\ ~ GivesUp(c, err)
  /\ \E d \in computeBackoff(attempt[c]) : wake' = [wake EXCEPT ![c] = now + d]
  /\ phase' = [phase EXCEPT ![c] = "sleep"]
  /\ UNCHANGED <<breakerVars, now, attempt, startTime, admittedIn>>

SleepEndsNever(c) ==
  /\ phase[c] = "sleep"
  /\ now > wake[c] + MaxDelay
  /\ phase' = [phase EXCEPT ![c] = "rpc"]
  /\ attempt' = [attempt EXCEPT ![c] = @ + 1]
  /\ wake' = [wake EXCEPT ![c] = 0]
  /\ UNCHANGED <<breakerVars, now, startTime, admittedIn>>

\* sleep() is over: the next turn of the loop, with no look at the clock.
SleepEnds(c) ==
  /\ phase[c] = "sleep"
  /\ now >= wake[c]
  /\ phase' = [phase EXCEPT ![c] = "rpc"]
  /\ attempt' = [attempt EXCEPT ![c] = @ + 1]
  /\ wake' = [wake EXCEPT ![c] = 0]
  /\ UNCHANGED <<breakerVars, now, startTime, admittedIn>>

-----------------------------------------------------------------------------
\* An operator's reset().
Reset ==
  /\ reset
  /\ UNCHANGED <<now, callVars>>

\* The clock moves while something waits for it.
Tick ==
  /\ \/ FailsFast
     \/ \E c \in Calls : phase[c] = "sleep" /\ now < wake[c]
     \/ now < Horizon /\ \E c \in Calls : phase[c] = "rpc"
  /\ now' = now + 1
  /\ UNCHANGED <<breakerVars, callVars>>

RpcSettles(c) == RpcResolves(c) \/ \E err \in Errors : RpcThrows(c, err) \/ RpcBacksOff(c, err)

Next ==
  \/ \E c \in Calls : CallRefused(c) \/ CallAdmitted(c) \/ RpcSettles(c) \/ SleepEnds(c)
  \/ Reset
  \/ Tick

Spec == Init /\ [][Next]_vars

\* The event loop runs expired timers, time passes, and every RPC attempt ends.
\* The last is an assumption on the operation passed in: withRetry() sets no
\* timeout of its own on an attempt.
Fairness ==
  /\ WF_vars(Tick)
  /\ \A c \in Calls : WF_vars(SleepEnds(c)) /\ WF_vars(RpcSettles(c))

FairSpec == Spec /\ Fairness

-----------------------------------------------------------------------------
\* The breaker and the calls keep their types; withRetry() never counts past
\* maxRetries.
TypeOK ==
  /\ BreakerTypeOK
  /\ phase \in [Calls -> Phases]
  /\ attempt \in [Calls -> 0..maxRetries]
  /\ startTime \in [Calls -> Nat]
  /\ wake \in [Calls -> Nat]
  /\ admittedIn \in [Calls -> CircuitBreakerState \cup {"none"}]

\* A CLOSED breaker has seen fewer failures in a row than its threshold, however
\* the results of overlapping calls and reset() interleave (onSuccess, onFailure,
\* reset).
ClosedBelowThreshold == state = "CLOSED" => failureCount < FailureThreshold

\* A breaker that opened lets nothing through for the whole recovery timeout:
\* it is HALF_OPEN only that long after the failure that opened it, although
\* calls admitted before keep reporting (execute, onFailure).
HalfOpenAfterRecovery == state = "HALF_OPEN" => now >= openedAt + RecoveryTimeout

\* The late success of a call admitted before the circuit opened does not close
\* it: OPEN is left by a new call once the time has come, or by reset().
OpenHolds ==
  [][state = "OPEN" /\ state' # "OPEN" =>
       \/ state' = "HALF_OPEN" /\ now >= nextAttemptTime
       \/ state' = "CLOSED" /\ phase' = phase]_vars

\* A call counts once for the breaker however often withRetry() tried: the count
\* never exceeds the calls that were rejected (callSorobanContract nests the
\* retries inside execute()).
FailuresAreCalls == failureCount <= Cardinality({c \in Calls : phase[c] = "rejected"})

\* No back-off carries a call further than one maximal delay beyond the elapsed
\* budget, and only calls with an attempt left back off (withRetry).
BackoffBounded ==
  \A c \in Calls : phase[c] = "sleep" =>
    /\ attempt[c] < maxRetries
    /\ wake[c] < startTime[c] + maxElapsedMs + MaxDelay

\* Every call that was admitted ends, resolved or rejected (withRetry).
CallsReturn == \A c \in Calls : phase[c] \in InFlight ~> phase[c] \in {"resolved", "rejected"}
=============================================================================

--------------------------- MODULE CircuitBreaker ---------------------------
(***************************************************************************)
(* The CircuitBreaker class (src/utils/circuitBreaker.js): the state of    *)
(* one breaker and what each of its methods does to it.  Modules that      *)
(* route calls through a breaker extend this one.                          *)
(***************************************************************************)
EXTENDS Naturals

CONSTANTS
  FailureThreshold,    \* this.failureThreshold
  RecoveryTimeout      \* this.recoveryTimeout

ASSUME BreakerAssumption ==
  /\ FailureThreshold \in Nat \ {0}
  /\ RecoveryTimeout \in Nat \ {0}

VARIABLES
  state,             \* this.state
  failureCount,      \* this.failureCount
  nextAttemptTime,   \* this.nextAttemptTime
  now,               \* Date.now()
  openedAt           \* history: when the breaker last became OPEN

breakerVars == <<state, failureCount, nextAttemptTime, openedAt>>

CircuitBreakerState == {"CLOSED", "OPEN", "HALF_OPEN"}

BreakerTypeOK ==
  /\ state \in CircuitBreakerState
  /\ failureCount \in Nat
  /\ nextAttemptTime \in Nat
  /\ now \in Nat
  /\ openedAt \in Nat

BreakerInit ==
  /\ state = "CLOSED"
  /\ failureCount = 0
  /\ nextAttemptTime = 0
  /\ now = 0
  /\ openedAt = 0

-----------------------------------------------------------------------------
reset ==
  /\ state' = "CLOSED"
  /\ failureCount' = 0
  /\ nextAttemptTime' = now
  /\ UNCHANGED openedAt

\* execute() refuses: the circuit is OPEN and its time has not come.
FailsFast ==
  /\ state = "OPEN"
  /\ now < nextAttemptTime

\* execute() goes on to the operation; an OPEN circuit becomes HALF_OPEN.
Admits ==
  /\ ~ FailsFast
  /\ state' = IF state = "OPEN" THEN "HALF_OPEN" ELSE state
  /\ UNCHANGED <<failureCount, nextAttemptTime, openedAt>>

onSuccess ==
  /\ failureCount' = 0
  /\ state' = IF state = "HALF_OPEN" THEN "CLOSED" ELSE state
  /\ UNCHANGED <<nextAttemptTime, openedAt>>

\* The breaker trips (or, already OPEN, postpones the next attempt).
Trip ==
  /\ state' = "OPEN"
  /\ nextAttemptTime' = now + RecoveryTimeout
  /\ openedAt' = IF state = "OPEN" THEN openedAt ELSE now

onFailureForgetsTime ==
  /\ failureCount' = failureCount + 1
  /\ IF state = "HALF_OPEN" \/ failureCount + 1 >= FailureThreshold
       THEN /\ state' = "OPEN"
            /\ openedAt' = IF state = "OPEN" THEN openedAt ELSE now
            /\ UNCHANGED nextAttemptTime
       ELSE UNCHANGED <<state, nextAttemptTime, openedAt>>

\* Also runs while the circuit is OPEN, for calls admitted earlier.
onFailure ==
  /\ failureCount' = failureCount + 1
  /\ IF state = "HALF_OPEN" \/ failureCount + 1 >= FailureThreshold
       THEN Trip
       ELSE UNCHANGED <<state, nextAttemptTime, openedAt>>

=============================================================================

---------------------------- MODULE CircuitBreaker ----------------------------
(***************************************************************************)
(* One circuit of CircuitBreakerService (src/src/jobs/circuit-breaker      *)
(* .service.ts).  Circuits share nothing, so one is enough.                *)
(*                                                                         *)
(* `execute' reads the circuit before it awaits the guarded operation and  *)
(* updates it when the operation settles: a call is a Start and, any       *)
(* number of steps of other calls later, a Succeed or a Fail.  A call that *)
(* is refused changes nothing and is not an action.                        *)
(*                                                                         *)
(* Timestamps are kept as ages.  `sinceFailure' is now - lastFailureTime,  *)
(* and saturates one past the period it is compared with; `retryIn' is     *)
(* nextAttemptTime - now, and stays at 0 once the deadline has passed.     *)
(* `successes' and `lastSuccessTime' are left out: no decision reads them  *)
(* (the clean-up of `successes' compares a time set in the same call).     *)
(***************************************************************************)
EXTENDS Integers

CONSTANTS
    Callers,            \* calls of execute that may be under way together
    FailureThreshold,   \* config.failureThreshold
    RecoveryTimeout,    \* config.recoveryTimeout, in ticks
    MonitoringPeriod,   \* config.monitoringPeriod, in ticks
    FailureCap,         \* bound: failures are counted up to here
    MaxForced           \* bound: forceOpen calls of the operator

ASSUME CircuitAssumption ==
    /\ FailureThreshold \in Nat \ {0}
    /\ RecoveryTimeout \in Nat
    /\ MonitoringPeriod \in Nat
    /\ FailureCap \in Nat /\ FailureCap >= FailureThreshold
    /\ MaxForced \in Nat

VARIABLES
    state,          \* circuit.state
    failures,       \* circuit.failures
    sinceFailure,   \* age of circuit.lastFailureTime, or Unset
    retryIn,        \* time left until circuit.nextAttemptTime, or Unset
    calls,          \* calls[c]: Idle, or the state c was admitted in
    sinceOpened,    \* history: age of the last time the circuit was opened
    forced          \* history: forceOpen calls so far

circuitVars == <<state, failures, sinceFailure, retryIn, calls, sinceOpened, forced>>

CircuitState == {"CLOSED", "OPEN", "HALF_OPEN"}
Unset == -1
Idle == "idle"

CircuitType ==
    /\ state \in CircuitState
    /\ failures \in 0..FailureCap
    /\ sinceFailure \in {Unset} \cup (0..(MonitoringPeriod + 1))
    /\ retryIn \in {Unset} \cup (0..RecoveryTimeout)
    /\ calls \in [Callers -> {Idle, "CLOSED", "HALF_OPEN"}]
    /\ sinceOpened \in 0..RecoveryTimeout
    /\ forced \in 0..MaxForced

-----------------------------------------------------------------------------
\* The circuit as registerCircuit leaves it.
Registered ==
    /\ state = "CLOSED"
    /\ failures = 0
    /\ sinceFailure = Unset
    /\ retryIn = Unset

CircuitInit ==
    /\ Registered
    /\ calls = [c \in Callers |-> Idle]
    /\ sinceOpened = 0
    /\ forced = 0

\* Mutant: the comparison with the deadline is the wrong way round.
AttemptResetBeforeDeadline ==
    /\ state = "OPEN"
    /\ retryIn # 0

ShouldAttemptReset ==
    /\ state = "OPEN"
    /\ retryIn \in {Unset, 0}

\* Mutant: a call is let through whatever the state of the circuit.
StartUnchecked(c) ==
    /\ calls[c] = Idle
    /\ calls' = [calls EXCEPT ![c] = state]
    /\ UNCHANGED <<state, failures, sinceFailure, retryIn, sinceOpened, forced>>

\* execute up to `await operation()': any call is let through a CLOSED or a
\* HALF_OPEN circuit, and the first call after the deadline half-opens it.
Start(c) ==
    /\ calls[c] = Idle
    /\ \/ state # "OPEN" /\ UNCHANGED state
       \/ ShouldAttemptReset /\ state' = "HALF_OPEN"
    /\ calls' = [calls EXCEPT ![c] = state']
    /\ UNCHANGED <<failures, sinceFailure, retryIn, sinceOpened, forced>>

\* cleanupOldData, on the failure count n.
CleanedUp(n) == IF sinceFailure > MonitoringPeriod THEN 0 ELSE n

\* Mutant: closing a half-open circuit keeps the failures that opened it.
SucceedKeepsFailures(c) ==
    /\ calls[c] # Idle
    /\ state' = IF state = "HALF_OPEN" THEN "CLOSED" ELSE state
    /\ failures' = CleanedUp(failures)
    /\ calls' = [calls EXCEPT ![c] = Idle]
    /\ UNCHANGED <<sinceFailure, retryIn, sinceOpened, forced>>

\* The operation of call c resolves: onSuccess.  It looks at the state the
\* circuit is in now, whatever it was when c was admitted.
Succeed(c) ==
    /\ calls[c] # Idle
    /\ IF state = "HALF_OPEN"
         THEN state' = "CLOSED" /\ failures' = CleanedUp(0)
         ELSE UNCHANGED state /\ failures' = CleanedUp(failures)
    /\ calls' = [calls EXCEPT ![c] = Idle]
    /\ UNCHANGED <<sinceFailure, retryIn, sinceOpened, forced>>

CountFailure == IF failures < FailureCap THEN failures + 1 ELSE failures

\* Mutant: a circuit that opens again keeps its old, expired deadline.
FailKeepsDeadline(c) ==
    /\ calls[c] # Idle
    /\ failures' = CountFailure
    /\ sinceFailure' = 0
    /\ IF failures' >= FailureThreshold
         THEN /\ state' = "OPEN"
              /\ retryIn' = IF retryIn = Unset THEN RecoveryTimeout ELSE retryIn
              /\ sinceOpened' = 0
         ELSE UNCHANGED <<state, retryIn, sinceOpened>>
    /\ calls' = [calls EXCEPT ![c] = Idle]
    /\ UNCHANGED forced

\* The operation of call c rejects: onFailure.
Fail(c) ==
    /\ calls[c] # Idle
    /\ failures' = CountFailure
    /\ sinceFailure' = 0
    /\ IF failures' >= FailureThreshold
         THEN state' = "OPEN" /\ retryIn' = RecoveryTimeout /\ sinceOpened' = 0
         ELSE UNCHANGED <<state, retryIn, sinceOpened>>
    /\ calls' = [calls EXCEPT ![c] = Idle]
    /\ UNCHANGED forced

Erase ==
    /\ state' = "CLOSED"
    /\ failures' = 0
    /\ sinceFailure' = Unset
    /\ retryIn' = Unset
    /\ UNCHANGED <<sinceOpened, forced>>

\* reset: the calls under way go on.  (A public method, as forceOpen is; src
\* calls neither outside the tests.)
Reset == Erase /\ UNCHANGED calls

\* forceOpen: the failure count is left alone.
ForceOpen ==
    /\ forced < MaxForced
    /\ forced' = forced + 1
    /\ state' = "OPEN"
    /\ sinceFailure' = 0
    /\ retryIn' = RecoveryTimeout
    /\ sinceOpened' = 0
    /\ UNCHANGED <<failures, calls>>

\* The process restarts: the circuit is registered again, calls are lost.
CircuitRestart == Erase /\ calls' = [c \in Callers |-> Idle]

OlderUpTo(age, cap) == IF age = Unset \/ age = cap THEN age ELSE age + 1

CircuitTick ==
    /\ sinceFailure' = OlderUpTo(sinceFailure, MonitoringPeriod + 1)
    /\ retryIn' = IF retryIn > 0 THEN retryIn - 1 ELSE retryIn
    /\ sinceOpened' = OlderUpTo(sinceOpened, RecoveryTimeout)
    /\ UNCHANGED <<state, failures, calls, forced>>

CircuitNext ==
    \/ \E c \in Callers : Start(c) \/ Succeed(c) \/ Fail(c)
    \/ Reset
    \/ ForceOpen
    \/ CircuitRestart
    \/ CircuitTick

CircuitSpec == CircuitInit /\ [][CircuitNext]_circuitVars

-----------------------------------------------------------------------------
\* Failures that would open the circuit never lie in wait in a closed one:
\* whichever calls overlap, recovery forgets the failures that opened it, so
\* one new failure does not open it again by itself.
ClosedBelowThreshold == state = "CLOSED" => failures < FailureThreshold

\* An open circuit has a deadline no earlier than a full recovery timeout
\* after it last opened.
OpenHasDeadline ==
    state = "OPEN" => /\ retryIn # Unset
                      /\ sinceOpened + retryIn >= RecoveryTimeout

\* execute never probes before the recovery timeout has passed since the
\* circuit last opened, also when it was a half-open circuit that opened.
RecoveryTimeRespected ==
    [][state = "OPEN" /\ state' = "HALF_OPEN" => sinceOpened >= RecoveryTimeout]_circuitVars

\* A result that arrives late, from a call admitted before the circuit
\* opened, does not close it: an open circuit closes at once only when its
\* history is erased (reset, restart).
LateSuccessDoesNotClose ==
    [][state = "OPEN" /\ state' = "CLOSED" => Registered']_circuitVars

Promise == INSTANCE CircuitPromise WITH
    phase <- state,
    running <- {c \in Callers : calls[c] # Idle},
    openFor <- sinceOpened,
    blank <- failures = 0 /\ sinceFailure = Unset /\ retryIn = Unset

\* execute, onSuccess, onFailure, reset and forceOpen keep what CircuitPromise
\* says, however their calls overlap: a circuit is entered while it is closed
\* or probed, probed no sooner than a recovery timeout after it last opened,
\* and not closed by the late success of a call from before it opened.
KeepsPromise == Promise!Spec

\* No open circuit is forgotten: it is probed in the end.
NotStuckOpen == []<>(state # "OPEN")
=============================================================================

------------------------ MODULE CircuitBreaker_proofs ------------------------
(* The safety properties of CircuitBreaker, for all thresholds and periods  *)
(* and any set of callers.                                                  *)
EXTENDS CircuitBreaker, TLAPS

\* Every variable keeps its type: the ages and the counter never pass their
\* bounds, and a call is only ever admitted by a circuit that is not open.
THEOREM TypeCorrect == CircuitSpec => []CircuitType
<1> USE CircuitAssumption DEF CircuitType, CircuitState, Unset, Idle
<1>1. CircuitInit => CircuitType
  BY DEF CircuitInit, Registered
<1>2. CircuitType /\ [CircuitNext]_circuitVars => CircuitType'
  <2> SUFFICES ASSUME CircuitType, [CircuitNext]_circuitVars PROVE CircuitType'
    OBVIOUS
  <2>1. ASSUME NEW c \in Callers, Start(c) PROVE CircuitType'
    BY <2>1 DEF Start, ShouldAttemptReset
  <2>2. ASSUME NEW c \in Callers, Succeed(c) PROVE CircuitType'
    BY <2>2 DEF Succeed, CleanedUp
  <2>3. ASSUME NEW c \in Callers, Fail(c) PROVE CircuitType'
    BY <2>3 DEF Fail, CountFailure
  <2>4. CASE Reset
    BY <2>4 DEF Reset, Erase
  <2>5. CASE ForceOpen
    BY <2>5 DEF ForceOpen
  <2>6. CASE CircuitRestart
    BY <2>6 DEF CircuitRestart, Erase
  <2>7. CASE CircuitTick
    BY <2>7 DEF CircuitTick, OlderUpTo
  <2>8. CASE UNCHANGED circuitVars
    BY <2>8 DEF circuitVars
  <2> QED
    BY <2>1, <2>2, <2>3, <2>4, <2>5, <2>6, <2>7, <2>8 DEF CircuitNext
<1> QED
  BY <1>1, <1>2, PTL DEF CircuitSpec

\* A closed circuit has counted fewer failures than open it.  The property is
\* inductive once the variables are typed: the only step into CLOSED that is
\* not an erasure is the success of a half-open circuit, which zeroes them.
THEOREM ClosedBelow == CircuitSpec => []ClosedBelowThreshold
<1> USE CircuitAssumption DEF ClosedBelowThreshold
<1>1. CircuitInit => ClosedBelowThreshold
  BY DEF CircuitInit, Registered
<1>2. CircuitType /\ ClosedBelowThreshold /\ [CircuitNext]_circuitVars => ClosedBelowThreshold'
  <2> SUFFICES ASSUME CircuitType, ClosedBelowThreshold, [CircuitNext]_circuitVars
               PROVE  ClosedBelowThreshold'
    OBVIOUS
  <2>1. ASSUME NEW c \in Callers, Start(c) PROVE ClosedBelowThreshold'
    BY <2>1 DEF Start
  <2>2. ASSUME NEW c \in Callers, Succeed(c) PROVE ClosedBelowThreshold'
    BY <2>2 DEF Succeed, CleanedUp
  <2>3. ASSUME NEW c \in Callers, Fail(c) PROVE ClosedBelowThreshold'
    BY <2>3 DEF Fail, CountFailure, CircuitType
  <2>4. CASE Reset \/ CircuitRestart
    BY <2>4 DEF Reset, CircuitRestart, Erase
  <2>5. CASE ForceOpen
    BY <2>5 DEF ForceOpen
  <2>6. CASE CircuitTick \/ UNCHANGED circuitVars
    BY <2>6 DEF CircuitTick, circuitVars
  <2> QED
    BY <2>1, <2>2, <2>3, <2>4, <2>5, <2>6 DEF CircuitNext
<1> QED
  BY <1>1, <1>2, TypeCorrect, PTL DEF CircuitSpec

\* An open circuit always has a deadline, a full recovery timeout after it
\* last opened: every step into OPEN sets both clocks, and CircuitTick moves them
\* together.
THEOREM DeadlineKept == CircuitSpec => []OpenHasDeadline
<1> USE CircuitAssumption DEF OpenHasDeadline, Unset
<1>1. CircuitInit => OpenHasDeadline
  BY DEF CircuitInit, Registered
<1>2. CircuitType /\ OpenHasDeadline /\ [CircuitNext]_circuitVars => OpenHasDeadline'
  <2> SUFFICES ASSUME CircuitType, OpenHasDeadline, [CircuitNext]_circuitVars
               PROVE  OpenHasDeadline'
    OBVIOUS
  <2>1. ASSUME NEW c \in Callers, Start(c) PROVE OpenHasDeadline'
    BY <2>1 DEF Start
  <2>2. ASSUME NEW c \in Callers, Succeed(c) PROVE OpenHasDeadline'
    BY <2>2 DEF Succeed
  <2>3. ASSUME NEW c \in Callers, Fail(c) PROVE OpenHasDeadline'
    BY <2>3 DEF Fail
  <2>4. CASE Reset \/ CircuitRestart
    BY <2>4 DEF Reset, CircuitRestart, Erase
  <2>5. CASE ForceOpen
    BY <2>5 DEF ForceOpen
  <2>6. CASE CircuitTick
    BY <2>6 DEF CircuitTick, OlderUpTo, CircuitType
  <2>7. CASE UNCHANGED circuitVars
    BY <2>7 DEF circuitVars
  <2> QED
    BY <2>1, <2>2, <2>3, <2>4, <2>5, <2>6, <2>7 DEF CircuitNext
<1> QED
  BY <1>1, <1>2, TypeCorrect, PTL DEF CircuitSpec

\* No probe is let through before the recovery timeout has run out.
THEOREM RecoveryRespected == CircuitSpec => RecoveryTimeRespected
<1>1. /\ CircuitType /\ OpenHasDeadline /\ [CircuitNext]_circuitVars
      /\ state = "OPEN" /\ state' = "HALF_OPEN"
      => sinceOpened >= RecoveryTimeout
  <2> SUFFICES ASSUME CircuitType, OpenHasDeadline, [CircuitNext]_circuitVars,
                      state = "OPEN", state' = "HALF_OPEN"
               PROVE  sinceOpened >= RecoveryTimeout
    OBVIOUS
  <2>1. PICK c \in Callers : Start(c)
    BY DEF CircuitNext, circuitVars, Succeed, Fail, Reset, CircuitRestart, Erase, ForceOpen, CircuitTick
  <2>2. retryIn \in {Unset, 0}
    BY <2>1 DEF Start, ShouldAttemptReset
  <2> QED
    BY <2>2, CircuitAssumption DEF OpenHasDeadline, CircuitType
<1> QED
  BY <1>1, TypeCorrect, DeadlineKept, PTL DEF CircuitSpec, RecoveryTimeRespected

\* The success of a call admitted before the circuit opened leaves it open.
THEOREM LateSuccessHarmless == CircuitSpec => LateSuccessDoesNotClose
<1>1. [CircuitNext]_circuitVars /\ state = "OPEN" /\ state' = "CLOSED" => Registered'
  BY DEF CircuitNext, circuitVars, Start, Succeed, Fail, Reset, CircuitRestart, Erase, ForceOpen,
         CircuitTick, Registered
<1> QED
  BY <1>1, PTL DEF CircuitSpec, LateSuccessDoesNotClose

\* Failures are counted with the time of the last one.
FailuresDated == sinceFailure = Unset => failures = 0

LEMMA Dated == CircuitSpec => []FailuresDated
<1> USE DEF FailuresDated, Unset
<1>1. CircuitInit => FailuresDated
  BY DEF CircuitInit, Registered
<1>2. CircuitType /\ FailuresDated /\ [CircuitNext]_circuitVars => FailuresDated'
  <2> SUFFICES ASSUME CircuitType, FailuresDated, [CircuitNext]_circuitVars PROVE FailuresDated'
    OBVIOUS
  <2>1. ASSUME NEW c \in Callers, Succeed(c) PROVE FailuresDated'
    BY <2>1, CircuitAssumption DEF Succeed, CleanedUp
  <2>2. CASE CircuitTick
    BY <2>2, CircuitAssumption DEF CircuitTick, OlderUpTo, CircuitType
  <2>3. CASE UNCHANGED circuitVars
    BY <2>3 DEF circuitVars
  <2> QED
    BY <2>1, <2>2, <2>3
    DEF CircuitNext, Start, Fail, Reset, CircuitRestart, Erase, ForceOpen
<1> QED
  BY <1>1, <1>2, TypeCorrect, PTL DEF CircuitSpec

\* The circuit implements CircuitPromise: each of its steps is a step of the
\* promise or leaves it alone.  That a probe is not too early is where the
\* deadline is needed.
THEOREM PromiseKept == CircuitSpec => KeepsPromise
<1> USE CircuitAssumption DEF Unset, Idle
<1>1. CircuitInit => Promise!Init
  BY DEF CircuitInit, Registered, Promise!Init
<1>2. CircuitType /\ OpenHasDeadline /\ FailuresDated /\ [CircuitNext]_circuitVars
      => [Promise!Next]_(Promise!vars)
  <2> SUFFICES ASSUME CircuitType, OpenHasDeadline, FailuresDated, [CircuitNext]_circuitVars
               PROVE  [Promise!Next]_(Promise!vars)
    OBVIOUS
  <2> USE DEF CircuitType, Promise!Next
  <2>1. ASSUME NEW c \in Callers, Start(c) PROVE Promise!Admit(c)
    BY <2>1 DEF Start, ShouldAttemptReset, OpenHasDeadline, CircuitState, Promise!Admit
  <2>2. ASSUME NEW c \in Callers, Succeed(c) PROVE Promise!Settle(c)
    BY <2>2 DEF Succeed, CleanedUp, FailuresDated, CircuitState, Promise!Settle
  <2>3. ASSUME NEW c \in Callers, Fail(c) PROVE Promise!Settle(c)
    BY <2>3 DEF Fail, CountFailure, CircuitState, Promise!Settle, Promise!Open
  <2>4. CASE Reset \/ CircuitRestart
    BY <2>4 DEF Reset, CircuitRestart, Erase, Promise!Erase
  <2>5. CASE ForceOpen
    BY <2>5 DEF ForceOpen, Promise!Force, Promise!Open
  <2>6. CASE CircuitTick
    BY <2>6 DEF CircuitTick, OlderUpTo, Promise!Pass
  <2>7. CASE UNCHANGED circuitVars
    BY <2>7 DEF circuitVars, Promise!vars
  <2> QED
    BY <2>1, <2>2, <2>3, <2>4, <2>5, <2>6, <2>7 DEF CircuitNext
<1> QED
  BY <1>1, <1>2, TypeCorrect, DeadlineKept, Dated, PTL DEF CircuitSpec, KeepsPromise, Promise!Spec
=============================================================================

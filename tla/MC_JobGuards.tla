----------------------------- MODULE MC_JobGuards -----------------------------
(***************************************************************************)
(* What guards the work of the job engine: a circuit and the flapping      *)
(* statistics.  Neither reads the other's state, so each is explored by    *)
(* itself, with the other where it starts.                                 *)
(*                                                                         *)
(* Two calls of the circuit overlap, and two failures open it.  One site   *)
(* is enough, sites share nothing: it has a window of three ticks and      *)
(* three incidents per window, one fewer than what would escalate (in the  *)
(* code, 10 minutes, three and five).                                      *)
(***************************************************************************)
EXTENDS CircuitBreaker, FlappingPrevention

VARIABLE explored

GuardsInit ==
    /\ explored \in {"circuit", "flapping"}
    /\ CircuitInit /\ FlappingInit

GuardsNext ==
    \/ explored = "circuit" /\ CircuitNext /\ UNCHANGED <<flappingVars, explored>>
    \/ explored = "flapping" /\ FlappingNext /\ UNCHANGED <<circuitVars, explored>>

(* Time passes.  The queue goes on bringing calls to the circuit, and a     *)
(* guarded operation settles, as each has a time limit of its own.          *)
GuardsFairness ==
    /\ WF_circuitVars(explored = "circuit" /\ CircuitTick)
    /\ \A c \in Callers :
         /\ WF_circuitVars(explored = "circuit" /\ Start(c))
         /\ WF_circuitVars(explored = "circuit" /\ (Succeed(c) \/ Fail(c)))
    /\ WF_flappingVars(explored = "flapping" /\ FlappingTick)

GuardsSpec ==
    /\ GuardsInit
    /\ [][GuardsNext]_<<circuitVars, flappingVars, explored>>
    /\ GuardsFairness

(* The fields of the circuit and of the statistics keep their ranges.       *)
GuardsType == CircuitType /\ FlappingType
=============================================================================

------------------------- MODULE MC_IncidentPipeline -------------------------
(* One incident and everything that can go wrong with its jobs, three times *)
(* over.  Besides the state NEW that createIncident submits, the first job  *)
(* may hold a state for which processIncident behaves differently: one that *)
(* counts fix attempts, one that has conditions on its way on.              *)
EXTENDS IncidentPipeline, TLC

AnyEntry ==
    {[state |-> "NEW", verified |-> "unknown"],
     [state |-> "FIX_ATTEMPT", verified |-> "unknown"],
     [state |-> "VERIFY", verified |-> "passed"]}

NewOnly == {[state |-> "NEW", verified |-> "unknown"]}

Symmetry == Permutations(Workers)
=============================================================================

------------------------------ MODULE MC_Records ------------------------------
(***************************************************************************)
(* The records that the system keeps: the incidents with their timelines,  *)
(* the evidence and its anonymization, the purges, and the schedules that  *)
(* begin purges.  They share the database and call one another nowhere     *)
(* but where the modules say so; each is explored by itself, with the      *)
(* others where they start.                                                *)
(***************************************************************************)
EXTENDS IncidentRecords, Anonymization, PurgeSchedules

VARIABLE explored

recordsVars == <<recordVars, anonymizationVars, scheduleVars, explored>>

\* Bound: two disturbances while the schedules run, one among direct purges.
RecordsInit ==
    /\ RecordInit /\ AnonymizationInit /\ PurgeInit /\ ScheduleInit
    /\ explored \in {"incident", "evidence", "purges", "schedules"}
    /\ purgeClock = [today |-> FirstDay,
                     disturbances |-> IF explored = "purges" THEN MaxDisturbances - 1 ELSE 0,
                     created |-> Cardinality(policies)]
    /\ explored # "schedules" => policies = {}
    /\ explored # "evidence" => \A row \in private["servers"] : row.age < 2

RecordsNext ==
    \/ /\ explored = "incident" /\ RecordNext
       /\ UNCHANGED <<anonymizationVars, scheduleVars, explored>>
    \/ /\ explored = "evidence" /\ AnonymizationNext
       /\ UNCHANGED <<recordVars, scheduleVars, explored>>
    \/ /\ explored = "purges" /\ PurgeNext
       /\ UNCHANGED <<schedules, callers, daily, retention, begun>>
       /\ UNCHANGED <<recordVars, anonymizationVars, explored>>
    \/ /\ explored = "schedules" /\ ScheduleNext
       /\ UNCHANGED <<recordVars, anonymizationVars, explored>>

RecordsSpec == RecordsInit /\ [][RecordsNext]_recordsVars

CallsAreAlike == Permutations(PurgeCalls) \cup Permutations(RecordCalls)

(* The calls on an incident, the collections, the anonymization, the purges *)
(* and the schedules are always in one of their steps, with the bookkeeping *)
(* of that step: a policy is within the hard cap of 1 to 7 days and stays   *)
(* while purge_audit refers to it (retention.service.ts:26-30, :133-150,    *)
(* :212-219), and the runs of a schedule are counted once each              *)
(* (scheduled-purge-manager.service.ts:238-296).                            *)
RecordsType == RecordType /\ AnonymizationType /\ PurgeType /\ ScheduleType
=============================================================================

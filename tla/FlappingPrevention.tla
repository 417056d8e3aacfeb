-------------------------- MODULE FlappingPrevention --------------------------
(***************************************************************************)
(* FlappingPreventionService as the job engine uses it: JobsService        *)
(* .createIncident asks and then records without awaiting anything between *)
(* (one step), IncidentProcessorService asks again when it processes an    *)
(* incident and reports how a state ended, and the operator and the        *)
(* maintenance use the other public methods.  The statistics live in the   *)
(* memory of the process.                                                  *)
(***************************************************************************)
EXTENDS FlappingStats

CONSTANTS
    Sites,
    MaxOpen     \* bound: incidents of a site created and not yet resolved

ASSUME OpenAssumption == MaxOpen \in Nat

VARIABLES
    knownSites,    \* the keys of flappingData
    stats,      \* flappingData; FreshStats for a site that is not a key
    open        \* environment: incidents created and not yet reported on

flappingVars == <<knownSites, stats, open>>

FlappingType ==
    /\ knownSites \subseteq Sites
    /\ stats \in [Sites -> StatsType]
    /\ \A s \in Sites : stats[s].cooldown \in NoTime..Window
    /\ open \in [Sites -> 0..MaxOpen]

FlappingInit ==
    /\ knownSites = {}
    /\ stats = [s \in Sites |-> FreshStats]
    /\ open = [s \in Sites |-> 0]

\* Mutant: an incident is recorded before the check, blocked or not.
CreateRecordsFirst(s) ==
    /\ stats[s].count <= EscalationThreshold
    /\ open[s] < MaxOpen
    /\ knownSites' = knownSites \cup {s}
    /\ stats' = [stats EXCEPT ![s] = Checked(Recorded(stats[s]))]
    /\ open' = [open EXCEPT ![s] = IF Allowed(stats[s]) THEN @ + 1 ELSE @]

\* JobsService.createIncident up to its first await.
CreateIncident(s) ==
    /\ knownSites' = knownSites \cup {s}
    /\ IF Allowed(stats[s])
         THEN /\ open[s] < MaxOpen
              /\ stats' = [stats EXCEPT ![s] = Recorded(Checked(stats[s]))]
              /\ open' = [open EXCEPT ![s] = @ + 1]
         ELSE /\ stats' = [stats EXCEPT ![s] = Checked(stats[s])]
              /\ UNCHANGED open

\* processIncident asks whether the site is flapping, about an incident that
\* was recorded before.
CheckProcessing(s) ==
    /\ open[s] > 0
    /\ knownSites' = knownSites \cup {s}
    /\ stats' = [stats EXCEPT ![s] = Checked(stats[s])]
    /\ UNCHANGED open

\* processIncident reports the end of a state; an incident is reported on as
\* often as its job runs, and may or may not be reported on again.
RecordResolution(s, successful) ==
    /\ open[s] > 0
    /\ stats' = IF s \in knownSites
                  THEN [stats EXCEPT ![s] = Resolved(stats[s], successful)]
                  ELSE stats
    /\ open' \in {open, [open EXCEPT ![s] = @ - 1]}
    /\ UNCHANGED knownSites

ClearCooldown(s) ==
    /\ s \in knownSites
    /\ stats' = [stats EXCEPT ![s] = CooldownCleared(stats[s])]
    /\ UNCHANGED <<knownSites, open>>

ResetSite(s) ==
    /\ s \in knownSites
    /\ knownSites' = knownSites \ {s}
    /\ stats' = [stats EXCEPT ![s] = FreshStats]
    /\ UNCHANGED open

PerformMaintenance ==
    LET kept == {s \in knownSites : ~Forgettable(CleanUp(stats[s]))}
    IN  /\ knownSites' = kept
        /\ stats' = [s \in Sites |-> IF s \in kept THEN CleanUp(stats[s]) ELSE FreshStats]
        /\ UNCHANGED open

\* The process restarts; the queue keeps the incidents.
FlappingRestart ==
    /\ knownSites' = {}
    /\ stats' = [s \in Sites |-> FreshStats]
    /\ UNCHANGED open

FlappingTick ==
    /\ stats' = [s \in Sites |-> IF s \in knownSites THEN Aged(stats[s]) ELSE stats[s]]
    /\ UNCHANGED <<knownSites, open>>

FlappingNext ==
    \/ \E s \in Sites :
         \/ CreateIncident(s)
         \/ CheckProcessing(s)
         \/ \E successful \in BOOLEAN : RecordResolution(s, successful)
         \/ ClearCooldown(s)
         \/ ResetSite(s)
    \/ PerformMaintenance
    \/ FlappingRestart
    \/ FlappingTick

FlappingSpec == FlappingInit /\ [][FlappingNext]_flappingVars

-----------------------------------------------------------------------------
\* No more incidents are counted than the configuration admits, whatever
\* the order of creations, resolutions and window slides (the clean-up can
\* raise a count of 0 to 1, but never past the maximum).
CountBounded == \A s \in Sites : stats[s].count <= MaxIncidentsPerWindow

\* A cooldown holds to its end, also when the window slides and resets the
\* count and isFlapping under it: until then no incident is created.
CooldownHolds ==
    [][\A s \in Sites : open'[s] > open[s] => ~InCooldown(stats[s])]_flappingVars

\* shouldEscalate stays down when escalationThreshold exceeds
\* maxIncidentsPerWindow, as it does by default (5 and 3): creation stops at
\* the maximum, so the count never reaches the threshold.
NoEscalationAboveMaximum ==
    EscalationThreshold > MaxIncidentsPerWindow
        => \A s \in Sites : ~stats[s].shouldEscalate

\* performMaintenance never forgets a site, however long it has been quiet:
\* the clean-up it begins with moves the last incident of a quiet site to
\* the present, so no site is ever old enough.
MaintenanceForgetsNobody == \A s \in knownSites : ~Forgettable(CleanUp(stats[s]))

\* A cooldown ends, however often the site is asked about meanwhile.
CooldownEnds == \A s \in Sites : InCooldown(stats[s]) ~> ~InCooldown(stats[s])
=============================================================================

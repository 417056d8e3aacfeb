---------------------------- MODULE PurgeSchedules ----------------------------
(***************************************************************************)
(* What begins purges without an operator at hand: the schedules of        *)
(* ScheduledPurgeManagerService, the cron handlers of ScheduledJobsService *)
(* and the jobs of the data-retention queue (src/src/retention,            *)
(* src/src/jobs).  The schedules and their histories are in memory; each   *)
(* caller waits for the purge that it began, in a slot of PurgeCalls.      *)
(*                                                                         *)
(* The daily handler answers an empty or a failed purge with the automatic *)
(* purge of the policies, a failure of that with a second one when the     *)
(* first was not after a failure, and the last failure with a cleanup job. *)
(***************************************************************************)
EXTENDS DataPurge

CONSTANTS
    HistoryLimit,   \* 100
    CriticalVolume, \* CRITICAL_VOLUME_THRESHOLD
    JobAttempts,    \* `attempts' of getDefaultJobOptions, that of the queue overridden
    MaxCalls        \* bound: what the operators and the clock begin

ASSUME ScheduleAssumption ==
    HistoryLimit \in Nat \ {0} /\ CriticalVolume \in Nat /\ JobAttempts \in Nat \ {0} /\ MaxCalls \in Nat

VARIABLES
    schedules,  \* id -> its configuration, its numbers and its history
    callers,    \* purge -> who waits for it
    daily,      \* how far handleDailyDataPurge is
    retention,  \* the data-retention queue
    begun       \* how often something was begun

scheduleVars == <<purgeVars, schedules, callers, daily, retention, begun>>

ScheduleRequest(days, max, scope) ==
    [Dto EXCEPT !.days = days, !.max = max, !.scope = scope, !.user = "none"]
Schedule(active, request) ==
    [active |-> active, request |-> request, executions |-> 0, failures |-> 0, history |-> <<>>]

(* initializeDefaultSchedules.                                              *)
DefaultSchedules ==
    [id \in {"daily-purge", "weekly-anonymization", "emergency-cleanup"} |->
        CASE id = "daily-purge" -> Schedule(TRUE, ScheduleRequest(3, 0, "all"))
          [] id = "weekly-anonymization" -> Schedule(TRUE, ScheduleRequest(5, 0, "anonymization"))
          [] OTHER -> Schedule(FALSE, ScheduleRequest(1, 2, "all"))]

NoJob == [kind |-> "none", request |-> Dto, attempts |-> 0]

ScheduleInit ==
    /\ schedules = DefaultSchedules
    /\ callers = [c \in PurgeCalls |-> "nobody"]
    /\ daily = "idle"
    /\ retention = [waiting |-> <<>>, active |-> NoJob, failed |-> 0, paused |-> FALSE]
    /\ begun = 0

Begins == begun < MaxCalls /\ begun' = begun + 1
ForCaller(c, caller) == callers[c] = "nobody" /\ callers' = [callers EXCEPT ![c] = caller]

(* The purge that a caller waited for is over, and its slot free again.     *)
SlotFreed(c, caller) ==
    /\ callers[c] = caller /\ purges[c].step = "over"
    /\ callers' = [callers EXCEPT ![c] = "nobody"]
    /\ purges' = [purges EXCEPT ![c] = NoPurge]
    /\ UNCHANGED <<stored, policies, purgeAudits>>
PurgeOver(c, caller) == SlotFreed(c, caller) /\ UNCHANGED purgeClock
FailedPurge(c) == purges[c].told = "failed"

-----------------------------------------------------------------------------
(* Retention days of 0 are looked at by no check, and every run of such a   *)
(* schedule fails.                                                          *)
ValidateScheduleConfig(days) == days = 0 \/ ValidateRetentionDays(days)

(* createSchedule: a schedule of the operator's.                            *)
CreateSchedule ==
    /\ Begins /\ "custom" \notin DOMAIN schedules
    /\ \E days \in {0, 2, 9}, max \in {0, 1} :
       /\ ValidateScheduleConfig(days)
       /\ schedules' = [id \in DOMAIN schedules \cup {"custom"} |->
                            IF id = "custom" THEN Schedule(TRUE, ScheduleRequest(days, max, "evidence"))
                            ELSE schedules[id]]
    /\ UNCHANGED <<purgeVars, callers, daily, retention>>

EnableEmergencyCleanup ==
    /\ Begins /\ ~schedules["emergency-cleanup"].active
    /\ schedules' = [schedules EXCEPT !["emergency-cleanup"].active = TRUE]
    /\ UNCHANGED <<purgeVars, callers, daily, retention>>

DisableEmergencyCleanup ==
    /\ Begins /\ schedules["emergency-cleanup"].active
    /\ schedules' = [schedules EXCEPT !["emergency-cleanup"].active = FALSE]
    /\ UNCHANGED <<purgeVars, callers, daily, retention>>

(* executeScheduledPurge; the active schedules are run on a route, and no   *)
(* cron but the two of the defaults runs any.                               *)
ExecuteScheduledPurge(c, id) ==
    /\ schedules[id].active
    /\ BeginManualPurge(c, schedules[id].request)

OperatorExecutesSchedule(c) ==
    \E id \in DOMAIN schedules \ {"weekly-anonymization"} :
        /\ Begins /\ ForCaller(c, id)
        /\ ExecuteScheduledPurge(c, id)
        /\ UNCHANGED <<schedules, daily, retention>>

\* Mutant: the history is never cut.
WholeOf(history) == history
LastOf(history) ==
    SubSeq(history, 1 + (IF Len(history) > HistoryLimit THEN Len(history) - HistoryLimit ELSE 0),
           Len(history))

(* Only a success cuts the history to its last entries.                     *)
Executed(schedule, success) ==
    IF success
    THEN [schedule EXCEPT !.executions = @ + 1, !.history = LastOf(Append(@, TRUE))]
    ELSE [schedule EXCEPT !.failures = @ + 1, !.history = Append(@, FALSE)]

ScheduledPurgeOver(c) ==
    \E id \in DOMAIN schedules :
        /\ PurgeOver(c, id)
        /\ schedules' = [schedules EXCEPT ![id] = Executed(@, ~FailedPurge(c))]
        /\ UNCHANGED <<daily, retention, begun>>

(* The weekly anonymization, which Anonymization follows, by its cron or by *)
(* the route; after a failure the cron anonymizes without the schedule.     *)
HandleWeeklyDataAnonymization ==
    /\ Begins
    /\ \E success \in BOOLEAN :
          schedules' = [schedules EXCEPT !["weekly-anonymization"] = Executed(@, success)]
    /\ UNCHANGED <<purgeVars, callers, daily, retention>>

-----------------------------------------------------------------------------
HandleDailyDataPurge(c) ==
    /\ daily = "idle" /\ Begins /\ ForCaller(c, "daily")
    /\ daily' = "scheduled"
    /\ ExecuteScheduledPurge(c, "daily-purge")
    /\ UNCHANGED <<schedules, retention>>

DailyPurgeOver(c) ==
    /\ daily = "scheduled" /\ PurgeOver(c, "daily")
    /\ schedules' = [schedules EXCEPT !["daily-purge"] = Executed(@, ~FailedPurge(c))]
    /\ daily' = IF FailedPurge(c) THEN "failed" ELSE IF purges[c].total = 0 THEN "empty" ELSE "idle"
    /\ UNCHANGED <<retention, begun>>

BeginFallback(c) ==
    /\ daily \in {"empty", "failed"} /\ \A d \in PurgeCalls : callers[d] # "daily"
    /\ ForCaller(c, "daily") /\ BeginAutomaticPurge(c)
    /\ UNCHANGED <<schedules, daily, retention, begun>>

Enqueue(job) == [retention EXCEPT !.waiting = Append(@, job)]
CleanupJob == [NoJob EXCEPT !.kind = "cleanup"]

FallbackOver(c) ==
    /\ daily \in {"empty", "failed"} /\ PurgeOver(c, "daily")
    /\ daily' = IF FailedPurge(c) /\ daily = "empty" THEN "failed" ELSE "idle"
    /\ retention' = IF FailedPurge(c) /\ daily = "failed" THEN Enqueue(CleanupJob) ELSE retention
    /\ UNCHANGED <<schedules, begun>>

-----------------------------------------------------------------------------
EmergencyRequest(table, user) == [Dto EXCEPT !.days = 1, !.table = table, !.user = user]

(* monitorDataGrowth: the records of purges are counted.                    *)
CriticalAlert == Cardinality(purgeAudits) > CriticalVolume

(* executeEmergencyPurge, of an operator; and of the hourly monitoring,     *)
(* which asks for purge_audit, as "system", and so for what is refused.     *)
ExecuteEmergencyPurge(c) ==
    /\ ForCaller(c, "emergency")
    /\ \/ Begins /\ BeginManualPurge(c, EmergencyRequest("evidence", "admin"))
       \/ /\ Begins /\ CriticalAlert
          /\ BeginManualPurge(c, EmergencyRequest("purge_audit", "deleted"))
    /\ UNCHANGED <<schedules, daily, retention>>

EmergencyPurgeOver(c) ==
    /\ PurgeOver(c, "emergency")
    /\ UNCHANGED <<schedules, daily, retention, begun>>

-----------------------------------------------------------------------------
(* scheduleDataPurge computes the cutoff when the job is added.             *)
ScheduleDataPurge ==
    /\ Begins
    /\ retention' = Enqueue([NoJob EXCEPT !.kind = "purge",
                                 !.request = [Dto EXCEPT !.user = "none", !.table = "evidence",
                                                         !.cutoff = purgeClock.today - 3]])
    /\ UNCHANGED <<purgeVars, schedules, callers, daily>>

ScheduleArtifactCleanup ==
    /\ Begins /\ retention' = Enqueue(CleanupJob)
    /\ UNCHANGED <<purgeVars, schedules, callers, daily>>

PauseQueue ==
    /\ Begins /\ ~retention.paused
    /\ retention' = [retention EXCEPT !.paused = TRUE]
    /\ UNCHANGED <<purgeVars, schedules, callers, daily>>

Resume == retention' = [retention EXCEPT !.paused = FALSE]

ResumeQueue ==
    /\ retention.paused /\ Resume
    /\ UNCHANGED <<purgeVars, schedules, callers, daily, begun>>

(* handleCircuitBreakerReset: the jobs of a paused queue do not count as    *)
(* waiting, and a queue that an operator paused is resumed like any other.  *)
HandleCircuitBreakerReset ==
    /\ retention.active = NoJob /\ retention.failed > 0
    /\ retention.paused \/ retention.waiting = <<>>
    /\ Resume
    /\ UNCHANGED <<purgeVars, schedules, callers, daily, begun>>

(* processJob of the worker, one job at a time; a cleanup job is the        *)
(* automatic purge, whatever days it names.                                 *)
ProcessJob(c) ==
    LET job == Head(retention.waiting) IN
    /\ ~retention.paused /\ retention.active = NoJob /\ retention.waiting # <<>>
    /\ retention' = [retention EXCEPT !.waiting = Tail(@), !.active = job]
    /\ ForCaller(c, "job")
    /\ IF job.kind = "purge" THEN BeginManualPurge(c, job.request) ELSE BeginAutomaticPurge(c)
    /\ UNCHANGED <<schedules, daily, begun>>

\* A job that fails is tried again, from its beginning.
JobFailed ==
    LET job == [retention.active EXCEPT !.attempts = @ + 1]
        rest == [retention EXCEPT !.active = NoJob]
    IN IF job.attempts < JobAttempts THEN [rest EXCEPT !.waiting = Append(@, job)]
       ELSE [rest EXCEPT !.failed = @ + 1]

(* updateProgress may fail after the purge, and the job with it; before it, *)
(* that is a purge refused at once.                                         *)
JobOver(c) ==
    /\ \/ /\ PurgeOver(c, "job")
          /\ retention' = IF FailedPurge(c) THEN JobFailed ELSE [retention EXCEPT !.active = NoJob]
       \/ /\ SlotFreed(c, "job") /\ ~FailedPurge(c) /\ Disturbance(0)
          /\ retention' = JobFailed
    /\ UNCHANGED <<schedules, daily, begun>>

ScheduleNext ==
    \/ Midnight /\ UNCHANGED <<schedules, callers, daily, retention, begun>>
    \/ CreateSchedule \/ EnableEmergencyCleanup \/ DisableEmergencyCleanup
    \/ HandleWeeklyDataAnonymization
    \/ ScheduleDataPurge \/ ScheduleArtifactCleanup
    \/ PauseQueue \/ ResumeQueue \/ HandleCircuitBreakerReset
    \/ \E c \in PurgeCalls :
          \/ OperatorExecutesSchedule(c) \/ ScheduledPurgeOver(c)
          \/ HandleDailyDataPurge(c) \/ DailyPurgeOver(c) \/ BeginFallback(c) \/ FallbackOver(c)
          \/ ExecuteEmergencyPurge(c) \/ EmergencyPurgeOver(c)
          \/ ProcessJob(c) \/ JobOver(c)
          \/ PurgeStep(c) /\ UNCHANGED <<schedules, callers, daily, retention, begun>>

(* Each run of a schedule is counted once, and the history is of the last   *)
(* of them, longer than its limit only by failures since a success.         *)
ScheduleType ==
    /\ daily \in {"idle", "scheduled", "empty", "failed"}
    /\ (daily = "scheduled") => \E c \in PurgeCalls : callers[c] = "daily"
    /\ retention.active # NoJob <=> \E c \in PurgeCalls : callers[c] = "job"
    /\ retention.active.attempts < JobAttempts
    /\ \A id \in DOMAIN schedules :
          LET s == schedules[id]
              runs == s.executions + s.failures
          IN /\ Len(s.history) <= runs
             /\ runs <= HistoryLimit => Len(s.history) = runs
             /\ Len(s.history) > HistoryLimit => ~s.history[Len(s.history)]
             /\ s.failures = 0 => ToSet(s.history) \subseteq {TRUE}
=============================================================================

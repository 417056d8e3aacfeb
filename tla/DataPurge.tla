------------------------------ MODULE DataPurge ------------------------------
(***************************************************************************)
(* PurgeService, PurgeValidationService and RetentionService               *)
(* (src/src/retention): the deletion of what is older than the retention.  *)
(*                                                                         *)
(* A purge goes table by table, with no transaction over the tables; one   *)
(* that fails is a result of 0 and the purge a success.  Deleting an       *)
(* incident deletes every row of it, by the cascade of the schema.  Purges *)
(* by operators, of schedules and of the policies overlap.                 *)
(*                                                                         *)
(* The tables command_executions, backup_artifacts, file_changes and       *)
(* verification_results are handled line for line as evidence is, which    *)
(* stands for them.  Nothing is written to the tables while they are       *)
(* purged; a day is the unit of time.                                      *)
(***************************************************************************)
EXTENDS Naturals, Sequences, FiniteSets, SequencesExt, FiniteSetsExt

CONSTANTS
    PurgeCalls,      \* concurrent purges
    MaxDisturbances  \* bound: what happens beside them, which is that a day passes,
                     \* a policy changes, or the database refuses a statement

ASSUME PurgeAssumption == MaxDisturbances \in Nat

VARIABLES
    stored,      \* the rows of the tables
    policies,    \* retention_policies
    purgeAudits, \* purge_audit
    purges,      \* call -> how far it is
    purgeClock   \* the day, what the bound counts, and the last id of a policy

purgeVars == <<stored, policies, purgeAudits, purges, purgeClock>>

Row(table, incident, day) == [table |-> table, of |-> incident, day |-> day]
\* An old incident that is still worked on, a new one, and one in between.
FirstRows ==
    {Row("incidents", 1, 1), Row("incidents", 2, 8), Row("incidents", 3, 6),
     Row("incident_events", 1, 9), Row("incident_events", 3, 7),
     Row("evidence", 1, 2), Row("evidence", 2, 8),
     Row("audit_events", 0, 2), Row("audit_events", 0, 9)}
FirstDay == 10

(* The day is 0 when no cutoff date is given; the user is "deleted" when no *)
(* row of users has its id any more.                                        *)
Dto == [days |-> 3, cutoff |-> 0, scope |-> "all", table |-> "", max |-> 0, ids |-> {},
        dry |-> FALSE, user |-> "admin"]
PurgeRequests ==
    {[Dto EXCEPT !.scope = "audit", !.days = days] : days \in {1, 8}}
        \cup {[Dto EXCEPT !.max = 2, !.scope = "incidents", !.ids = ids] : ids \in {{}, {2, 3}, {4}}}
        \cup {[Dto EXCEPT !.ids = {3}], [Dto EXCEPT !.ids = {3}, !.dry = TRUE, !.scope = "incidents"]}
        \cup {[Dto EXCEPT !.cutoff = 5, !.max = 1], [Dto EXCEPT !.cutoff = 12, !.scope = "evidence"],
              [Dto EXCEPT !.table = "incident_events", !.dry = TRUE, !.max = 1],
              [Dto EXCEPT !.table = "purge_audit"], [Dto EXCEPT !.user = "deleted", !.scope = "evidence"]}

AllTables == <<"incidents", "incident_events", "evidence", "audit_events">>

NoPurge ==
    [step |-> "idle", by |-> "operator", dto |-> Dto, cutoff |-> 0, todo |-> <<>>, picked |-> {},
     policy |-> 0, policies |-> {}, counts |-> <<>>, refused |-> {}, total |-> 0, told |-> "nothing",
     began |-> 0, estimate |-> [made |-> FALSE]]

\* The clock starts at FirstDay, with what the bound leaves of disturbances.
PurgeInit ==
    /\ stored = FirstRows /\ purgeAudits = {}
    /\ policies \in {{}, {[id |-> 1, name |-> "default-retention", days |-> 3, appliesTo |-> "all",
                         active |-> TRUE],
                        [id |-> 2, name |-> "short", days |-> 1, appliesTo |-> "evidence",
                         active |-> TRUE]}}
    /\ purges = [c \in PurgeCalls |-> NoPurge]

Later(days, disturbed, created) ==
    [today |-> purgeClock.today + days, disturbances |-> purgeClock.disturbances + disturbed,
     created |-> purgeClock.created + created]

Disturbance(days) ==
    /\ purgeClock.disturbances < MaxDisturbances
    /\ purgeClock' = Later(days, 1, 0)

Midnight ==
    /\ Disturbance(1)
    /\ UNCHANGED <<stored, policies, purgeAudits, purges>>

-----------------------------------------------------------------------------
(* The hard cap.                                                            *)
ValidateRetentionDays(days) == days \in 1..7

Named(name) == {policy \in policies : policy.name = name}

NewPolicy(fields) ==
    [id |-> purgeClock.created + 1, name |-> fields.name, days |-> fields.days,
     appliesTo |-> fields.appliesTo, active |-> fields.active]

PolicyFields == [name : {"default-retention", "short"}, days : {1, 8}, appliesTo : {"all", "evidence"},
                 active : {TRUE}]

PolicyChanges(set) ==
    /\ Disturbance(0)
    /\ policies' = set
    /\ UNCHANGED <<stored, purgeAudits, purges>>

(* What is refused, by the hard cap or for the name, changes nothing.       *)
CreateRetentionPolicy ==
    \E fields \in PolicyFields :
        /\ ValidateRetentionDays(fields.days) /\ Named(fields.name) = {}
        /\ purgeClock.disturbances < MaxDisturbances /\ purgeClock' = Later(0, 1, 1)
        /\ policies' = policies \cup {NewPolicy(fields)}
        /\ UNCHANGED <<stored, purgeAudits, purges>>

UpdateRetentionPolicy ==
    \E policy \in policies :
        \/ \E days \in {1, 8} :
              /\ ValidateRetentionDays(days)
              /\ PolicyChanges((policies \ {policy}) \cup {[policy EXCEPT !.days = days]})
        \/ PolicyChanges((policies \ {policy}) \cup {[policy EXCEPT !.active = FALSE]})

(* The database keeps a policy that a record of purge_audit refers to.      *)
DeleteRetentionPolicy ==
    \E policy \in policies :
        /\ \A audit \in purgeAudits : audit.policy # policy.id
        /\ PolicyChanges(policies \ {policy})

(* The default applies to all tables and is active, for the automatic purge *)
(* too.                                                                     *)
DefaultPolicy == [name |-> "default-retention", days |-> 3, appliesTo |-> "all", active |-> TRUE]

GetActiveRetentionPolicies == {policy \in policies : policy.active}

(* getTablesForPolicy: the audit events are no policy's.                    *)
GetTablesForPolicy(appliesTo) ==
    IF appliesTo = "evidence" THEN <<"evidence">>
    ELSE <<"incidents", "incident_events", "evidence">>

-----------------------------------------------------------------------------
GetTablesForPurgeScope(dto) ==
    IF dto.table # "" THEN <<dto.table>>
    ELSE CASE dto.scope = "incidents" -> <<"incidents", "incident_events">>
           [] dto.scope = "evidence" -> <<"evidence">>
           [] dto.scope = "audit" -> <<"audit_events">>
           [] OTHER -> AllTables

\* Mutant: the analysis, like the policies, leaves out the audit events.
AnalysisWithoutAudit(dto) == SelectSeq(GetTablesForPurgeScope(dto), LAMBDA t : t # "audit_events")

GetTablesForAnalysis(dto) == GetTablesForPurgeScope(dto)

CutoffOf(dto) ==
    IF dto.cutoff # 0 THEN dto.cutoff
    ELSE IF purgeClock.today > dto.days THEN purgeClock.today - dto.days ELSE 0

ValidatePurgeOperation(dto) ==
    /\ ValidateRetentionDays(dto.days)
    /\ \A i \in dto.ids : \E row \in stored : row.table = "incidents" /\ row.of = i
    /\ dto.table \in ToSet(AllTables) \cup {""}

\* Mutant: evidence is kept for as long as its incident.
ExpiredAndLoose(table, cutoff) ==
    {row \in stored : /\ row.table = table /\ row.day < cutoff
                      /\ table = "evidence" => \A i \in stored : i.table = "incidents" => i.of # row.of}

ExpiredIn(table, cutoff) == {row \in stored : row.table = table /\ row.day < cutoff}

\* Mutant: naming the incidents replaces the cutoff.
AnyOfIncidents(table, cutoff, ids) ==
    {row \in stored : row.table = table /\ IF ids = {} THEN row.day < cutoff ELSE row.of \in ids}

(* With a limit, and for the estimate, the incidents of the request count.  *)
ExpiredOfIncidents(table, cutoff, ids) ==
    {row \in ExpiredIn(table, cutoff) : ids = {} \/ table = "audit_events" \/ row.of \in ids}

Smaller(m, n) == IF m < n THEN m ELSE n

(* The sum of numbers by table, as so many pairs of a table and a number up *)
(* to its own.                                                              *)
TotalOf(counts) == Cardinality(UNION {{table} \X (1..counts[table]) : table \in DOMAIN counts})
Counted(counts, table, n) ==
    [t \in DOMAIN counts \cup {table} |-> IF t = table THEN n ELSE counts[t]]

Active(c) == [purges[c] EXCEPT !.todo = Tail(@)]
At(c, step) == purges[c].step = step /\ purges[c].todo # <<>>
HeadTable(c) == Head(purges[c].todo)
Moves(c, p) == purges' = [purges EXCEPT ![c] = p]

-----------------------------------------------------------------------------
(* PurgeValidationService: the same checks, one more, and a count of every  *)
(* table.                                                                   *)
ValidateBasicParameters(dto) == ValidatePurgeOperation(dto) /\ dto.cutoff <= purgeClock.today

BeginEstimate(c, dto) ==
    /\ purges[c].step = "idle"
    /\ Moves(c, [NoPurge EXCEPT
           !.step = "estimating", !.dto = dto, !.cutoff = CutoffOf(dto),
           !.todo = GetTablesForAnalysis(dto),
           !.estimate = [made |-> FALSE, valid |-> ValidateBasicParameters(dto),
                         on |-> purgeClock.today, current |-> {}, impact |-> <<>>, blind |-> FALSE]])
    /\ UNCHANGED <<stored, policies, purgeAudits, purgeClock>>

(* analyzeTableImpact: all the rows are counted, and then those to delete.  *)
CountTable(c) ==
    /\ At(c, "estimating") /\ purges[c].estimate.current = {}
    /\ LET current == Cardinality({row \in stored : row.table = HeadTable(c)})
       IN Moves(c, [purges[c] EXCEPT !.estimate.current = {current}])
    /\ UNCHANGED <<stored, policies, purgeAudits, purgeClock>>

AnalyzeTableImpact(c, table, current) ==
    LET p == purges[c]
        doomed == Cardinality(ExpiredOfIncidents(table, p.cutoff, p.dto.ids))
    IN [current |-> current,
        doomed |-> IF p.dto.max # 0 THEN Smaller(doomed, p.dto.max) ELSE doomed]

RecordsToDelete(impact) == TotalOf([table \in DOMAIN impact |-> impact[table].doomed])

(* assessRiskLevel, with the shares of the tables; so few rows reach none   *)
(* of the numbers of thousands.                                             *)
SomeTableLosesMoreThan(percent, impact) ==
    \E table \in DOMAIN impact : 100 * impact[table].doomed > percent * impact[table].current
AssessRiskLevel(dto, impact) ==
    IF SomeTableLosesMoreThan(80, impact) THEN "CRITICAL"
    ELSE IF SomeTableLosesMoreThan(50, impact) THEN "HIGH"
    ELSE IF SomeTableLosesMoreThan(25, impact) \/ dto.days <= 2 THEN "MEDIUM"
    ELSE "LOW"
RequiresConfirmation(risk, impact) ==
    risk \in {"HIGH", "CRITICAL"} \/ SomeTableLosesMoreThan(50, impact)

Estimated(c, entry, blind) ==
    LET estimate == [purges[c].estimate EXCEPT
                       !.current = {}, !.impact = Counted(@, HeadTable(c), entry), !.blind = @ \/ blind]
    IN Moves(c, [Active(c) EXCEPT !.estimate = estimate])

(* A table that cannot be counted is one of which nothing will be deleted.  *)
EstimateTable(c) ==
    /\ At(c, "estimating")
    /\ \/ /\ \E n \in purges[c].estimate.current :
                Estimated(c, AnalyzeTableImpact(c, HeadTable(c), n), FALSE)
          /\ UNCHANGED purgeClock
       \/ Disturbance(0) /\ Estimated(c, [current |-> 0, doomed |-> 0], TRUE)
    /\ UNCHANGED <<stored, policies, purgeAudits>>

TellEstimate(c) ==
    /\ purges[c].step = "estimating" /\ purges[c].todo = <<>>
    /\ LET e == purges[c].estimate
           risk == AssessRiskLevel(purges[c].dto, e.impact)
       IN Moves(c, [NoPurge EXCEPT !.step = "estimated", !.dto = purges[c].dto,
                        !.estimate = [made |-> TRUE, valid |-> e.valid, on |-> e.on,
                                      blind |-> e.blind, records |-> RecordsToDelete(e.impact),
                                      risk |-> risk,
                                      confirm |-> RequiresConfirmation(risk, e.impact)]])
    /\ UNCHANGED <<stored, policies, purgeAudits, purgeClock>>

-----------------------------------------------------------------------------
(* executeManualPurge, whether it was estimated before or not: the risk and *)
(* the confirmation of the estimate bind nobody.                            *)
BeginManualPurge(c, dto) ==
    /\ purges[c].step = "idle" \/ (purges[c].step = "estimated" /\ purges[c].dto = dto)
    /\ LET begun == [NoPurge EXCEPT !.dto = dto, !.estimate = purges[c].estimate,
                                    !.began = purgeClock.today]
       IN Moves(c, IF ValidatePurgeOperation(dto)
                   THEN [begun EXCEPT !.step = "policy", !.cutoff = CutoffOf(dto)]
                   ELSE [begun EXCEPT !.step = "over", !.told = "failed"])
    /\ UNCHANGED <<stored, policies, purgeAudits, purgeClock>>

WithPolicy(p, id) ==
    [p EXCEPT !.step = "tables", !.todo = GetTablesForPurgeScope(p.dto), !.policy = id]
WithoutPolicy(p) == [p EXCEPT !.step = "over", !.told = "failed"]

(* getOrCreateDefaultRetentionPolicy: found by its name, or created, unless *)
(* another has created it meanwhile.  What follows the creation may fail.   *)
TakeDefaultPolicy(c) ==
    /\ purges[c].step = "policy"
    /\ \/ /\ \E policy \in Named("default-retention") : Moves(c, WithPolicy(purges[c], policy.id))
          /\ UNCHANGED purgeClock
       \/ /\ Named("default-retention") = {}
          /\ Moves(c, [purges[c] EXCEPT !.step = "creating"]) /\ UNCHANGED purgeClock
       \/ Disturbance(0) /\ Moves(c, WithoutPolicy(purges[c]))
    /\ UNCHANGED <<stored, policies, purgeAudits>>

CreateDefaultPolicy(c) ==
    LET new == NewPolicy(DefaultPolicy) IN
    /\ purges[c].step = "creating"
    /\ \/ /\ Named("default-retention") = {} /\ policies' = policies \cup {new}
          /\ \/ Moves(c, WithPolicy(purges[c], new.id)) /\ purgeClock' = Later(0, 0, 1)
             \/ /\ purgeClock.disturbances < MaxDisturbances /\ purgeClock' = Later(0, 1, 1)
                /\ Moves(c, WithoutPolicy(purges[c]))
       \/ /\ \/ Named("default-retention") # {} /\ UNCHANGED purgeClock
             \/ Disturbance(0)
          /\ Moves(c, WithoutPolicy(purges[c])) /\ UNCHANGED policies
    /\ UNCHANGED <<stored, purgeAudits>>

Deleted(c, n) == [Active(c) EXCEPT !.counts = Counted(@, HeadTable(c), n), !.picked = {}]

(* What a deletion takes with it: the rows of the incidents among it.       *)
WithTheirRows(rows) ==
    rows \cup {row \in stored : row.of # 0 /\ \E i \in rows : i.table = "incidents" /\ i.of = row.of}

(* purgeTableData: everything older than the cutoff, the incidents that the *)
(* request names or not.                                                    *)
PurgeTableData(c) ==
    LET rows == ExpiredIn(HeadTable(c), purges[c].cutoff) IN
    /\ At(c, "tables") /\ purges[c].dto.max = 0
    /\ stored' = IF purges[c].dto.dry THEN stored ELSE stored \ WithTheirRows(rows)
    /\ Moves(c, Deleted(c, Cardinality(rows)))
    /\ UNCHANGED <<policies, purgeAudits, purgeClock>>

(* With a limit: the oldest are found, and then deleted by their ids.       *)
PickOldest(c) ==
    LET p == purges[c]
        found == ExpiredOfIncidents(HeadTable(c), p.cutoff, p.dto.ids)
        n == Smaller(p.dto.max, Cardinality(found))
    IN /\ At(c, "tables") /\ p.dto.max # 0 /\ p.picked = {}
       /\ \E oldest \in kSubset(n, found) :
             /\ \A r \in oldest, s \in found \ oldest : r.day <= s.day
             /\ Moves(c, IF p.dto.dry \/ n = 0 THEN Deleted(c, n) ELSE [p EXCEPT !.picked = oldest])
       /\ UNCHANGED <<stored, policies, purgeAudits, purgeClock>>

DeletePicked(c) ==
    LET rows == purges[c].picked \cap stored IN
    /\ At(c, "tables") /\ purges[c].picked # {}
    /\ stored' = stored \ WithTheirRows(rows)
    /\ Moves(c, Deleted(c, Cardinality(rows)))
    /\ UNCHANGED <<policies, purgeAudits, purgeClock>>

TableRefused(c) ==
    /\ At(c, "tables") /\ Disturbance(0)
    /\ Moves(c, [Deleted(c, 0) EXCEPT !.refused = @ \cup {HeadTable(c)}])
    /\ UNCHANGED <<stored, policies, purgeAudits>>

(* The records of purge_audit are written one by one.  They need the policy *)
(* that was found, and the user, and are let go where they miss one: a      *)
(* purge by nobody is by "system", which is no user.                        *)
PurgeAudited(p, n) ==
    IF p.dto.dry \/ p.dto.user # "admin" \/ \A policy \in policies : policy.id # p.policy THEN {}
    ELSE LET tables == GetTablesForPurgeScope(p.dto)
         IN {[policy |-> p.policy, table |-> tables[i], purged |-> p.counts[tables[i]]] : i \in 1..n}

(* A record that is refused ends the records.  The audit event needs the    *)
(* user, if there is one, and the failure to write it is the failure of a   *)
(* purge that was carried out.                                              *)
FinishManualPurge(c) ==
    LET p == purges[c]
        all == Len(GetTablesForPurgeScope(p.dto))
    IN /\ p.step = "tables" /\ p.todo = <<>> /\ p.by = "operator"
       /\ \E n \in 0..all, refused \in BOOLEAN :
             /\ purgeAudits' = purgeAudits \cup PurgeAudited(p, n)
             /\ IF refused \/ n < all THEN Disturbance(0) ELSE UNCHANGED purgeClock
             /\ Moves(c, [NoPurge EXCEPT
                    !.step = "over", !.dto = p.dto, !.began = p.began, !.estimate = p.estimate,
                    !.total = TotalOf(p.counts),
                    !.told = IF refused \/ p.dto.user = "deleted" THEN "failed" ELSE "done"])
       /\ UNCHANGED <<stored, policies>>

-----------------------------------------------------------------------------
(* executeAutomaticPurge: the active policies, the newest first, as they    *)
(* were when it began.                                                      *)
BeginAutomaticPurge(c) ==
    /\ purges[c].step = "idle"
    /\ \/ /\ Moves(c, [NoPurge EXCEPT !.step = "policies", !.by = "policies",
                                      !.policies = GetActiveRetentionPolicies])
          /\ UNCHANGED purgeClock
       \/ /\ Disturbance(0)
          /\ Moves(c, [NoPurge EXCEPT !.step = "over", !.by = "policies", !.told = "failed"])
    /\ UNCHANGED <<stored, policies, purgeAudits>>

ExecutePolicyPurge(c) ==
    /\ purges[c].step = "policies"
    /\ \E policy \in purges[c].policies :
          LET dto == [Dto EXCEPT !.days = policy.days, !.user = "none"] IN
          /\ \A other \in purges[c].policies : other.id <= policy.id
          /\ Moves(c, [purges[c] EXCEPT
                 !.step = "tables", !.policies = @ \ {policy}, !.dto = dto, !.cutoff = CutoffOf(dto),
                 !.began = purgeClock.today, !.counts = <<>>, !.refused = {},
                 !.todo = GetTablesForPolicy(policy.appliesTo)])
    /\ UNCHANGED <<stored, policies, purgeAudits, purgeClock>>

(* createPurgeAuditRecord writes as "system", and so nothing.               *)
FinishPolicyPurge(c) ==
    /\ purges[c].step = "tables" /\ purges[c].todo = <<>> /\ purges[c].by = "policies"
    /\ Moves(c, [purges[c] EXCEPT !.step = "policies", !.total = @ + TotalOf(purges[c].counts)])
    /\ UNCHANGED <<stored, policies, purgeAudits, purgeClock>>

FinishAutomaticPurge(c) ==
    /\ purges[c].step = "policies" /\ purges[c].policies = {}
    /\ Moves(c, [NoPurge EXCEPT !.step = "over", !.by = "policies", !.total = purges[c].total,
                                !.told = "done"])
    /\ UNCHANGED <<stored, policies, purgeAudits, purgeClock>>

PurgeStep(c) ==
    \/ CountTable(c) \/ EstimateTable(c) \/ TellEstimate(c)
    \/ TakeDefaultPolicy(c) \/ CreateDefaultPolicy(c) \/ PurgeTableData(c) \/ PickOldest(c) \/ DeletePicked(c)
    \/ TableRefused(c) \/ FinishManualPurge(c)
    \/ ExecutePolicyPurge(c) \/ FinishPolicyPurge(c) \/ FinishAutomaticPurge(c)

PurgeNext ==
    \/ Midnight
    \/ CreateRetentionPolicy \/ UpdateRetentionPolicy \/ DeleteRetentionPolicy
    \/ \E c \in PurgeCalls :
          \/ \E dto \in PurgeRequests : BeginEstimate(c, dto) \/ BeginManualPurge(c, dto)
          \/ BeginAutomaticPurge(c)
          \/ PurgeStep(c)
-----------------------------------------------------------------------------
PurgeType ==
    /\ stored \subseteq FirstRows
    /\ \A p, q \in policies : p.name = q.name \/ p.id = q.id => p = q
    /\ \A policy \in policies : ValidateRetentionDays(policy.days)
    /\ \A audit \in purgeAudits :
          /\ audit.table \in ToSet(AllTables)
          /\ \E policy \in policies : policy.id = audit.policy
    /\ \A policy \in policies : policy.id <= purgeClock.created
    /\ \A c \in PurgeCalls :
          /\ purges[c].step \in {"idle", "estimating", "estimated", "policy", "creating", "tables",
                               "policies", "over"}
          /\ ToSet(purges[c].todo) \cap DOMAIN purges[c].counts = {}
          /\ purges[c].picked \subseteq FirstRows
          /\ Cardinality(purges[c].picked) <= purges[c].dto.max
          /\ (purges[c].step = "over") <=> (purges[c].told # "nothing")

(* What a purge under way was asked to delete: the rows older than its      *)
(* cutoff of the tables of its scope, and of the incidents that it names    *)
(* when it has a limit.                                                     *)
AskedToDelete(p, row) ==
    /\ p.step = "tables" /\ ~p.dto.dry
    /\ row.table \in ToSet(GetTablesForPurgeScope(p.dto))
    /\ p.by = "policies" => row.table # "audit_events"
    /\ row.day < IF p.dto.cutoff # 0 THEN p.dto.cutoff ELSE p.began - p.dto.days
    /\ p.dto.max # 0 /\ p.dto.ids # {} /\ row.table # "audit_events" => row.of \in p.dto.ids

(* However purges overlap, no step deletes a row that none of those under   *)
(* way was asked to delete: a dry run deletes nothing, a row younger than   *)
(* the retention goes only with an incident that is older, and only with    *)
(* a purge of incidents, and the audit events go only when they are asked   *)
(* for.                                                                     *)
PurgeStaysInScope ==
    [][\A row \in stored \ stored' : \E c \in PurgeCalls :
          \/ AskedToDelete(purges[c], row)
          \/ /\ row.of # 0
             /\ \E i \in stored : i.table = "incidents" /\ i.of = row.of
                                  /\ AskedToDelete(purges[c], i)]_purgeVars

(* A purge without a limit that has been through its tables has left        *)
(* nothing older than its cutoff in any of them but those that were         *)
(* refused, whatever ran beside it (executePolicyPurge,                     *)
(* executeManualPurge).                                                     *)
PurgeLeavesNoneExpired ==
    \A c \in PurgeCalls :
        LET p == purges[c] IN
        p.step = "tables" /\ p.todo = <<>> /\ ~p.dto.dry /\ p.dto.max = 0 =>
            \A row \in stored :
                row.table \in DOMAIN p.counts \ p.refused =>
                    row.day >= IF p.dto.cutoff # 0 THEN p.dto.cutoff ELSE p.began - p.dto.days

(* A purge counts no more deletions than its estimate foretold, when the    *)
(* estimate was valid and blind to no table, when it was made on the same   *)
(* day or the cutoff was given, and when the incidents that the request     *)
(* names are not disregarded, as they are without a limit.                  *)
ToldWithinEstimate ==
    \A c \in PurgeCalls :
        LET p == purges[c] IN
        /\ p.step = "over" /\ p.estimate.made /\ p.estimate.valid /\ ~p.estimate.blind
        /\ p.dto.cutoff # 0 \/ p.began = p.estimate.on
        /\ p.dto.ids = {} \/ p.dto.max # 0
        => p.total <= p.estimate.records
=============================================================================

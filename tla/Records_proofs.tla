---------------------------- MODULE Records_proofs ----------------------------
(***************************************************************************)
(* Proofs about DataPurge and PurgeSchedules, for any number of purges     *)
(* that overlap, of days that pass and of statements that are refused;     *)
(* about EvidenceCollection and Anonymization, for any number of           *)
(* collections, deletions and faults; about IncidentRecords, for any       *)
(* number of updates that overlap and of events that the database refuses; *)
(* and about MC_Records, where the incidents, the evidence, the purges and *)
(* their schedules are together.                                           *)
(*                                                                         *)
(* A purge keeps, from its first step to its last, the cutoff that it was  *)
(* asked for, the tables of its scope that are left, and the rows that it  *)
(* picked from the first of them.                                          *)
(*                                                                         *)
(* An estimate stands for numbers by table; as rows only go, neither what  *)
(* a purge has counted of a table nor what it will is above its number.    *)
(*                                                                         *)
(* No collection ever uses the id of a row again, so that the row that the *)
(* anonymization writes is the one it has read; and a text that it writes  *)
(* is the one that was signed, or that one without what is personal.       *)
(*                                                                         *)
(* What a call still owes the timeline, what the timeline tells and what   *)
(* was lost to a refused statement make up, between them, every fact that  *)
(* the incident ever had.                                                  *)
(***************************************************************************)
EXTENDS MC_Records, SequenceTheorems, FiniteSetTheorems, TLAPS

Tables == {"incidents", "incident_events", "evidence", "audit_events"}
Swept == Tables \cup {"purge_audit"}

PurgeDtos ==
    [days : Nat, cutoff : Nat, scope : {"all", "audit", "incidents", "evidence", "anonymization"},
     table : Swept \cup {""}, max : Nat, ids : SUBSET Nat, dry : BOOLEAN,
     user : {"admin", "deleted", "none"}]

(* What is older than this, the purge was asked to delete.                  *)
Limit(p) == IF p.dto.cutoff # 0 THEN p.dto.cutoff ELSE p.began - p.dto.days

NoTwice(todo) == \A i, j \in 1..Len(todo) : i # j => todo[i] # todo[j]

Whole(p) ==
    p = [step |-> p.step, by |-> p.by, dto |-> p.dto, cutoff |-> p.cutoff, todo |-> p.todo,
         picked |-> p.picked, policy |-> p.policy, policies |-> p.policies, counts |-> p.counts,
         refused |-> p.refused, total |-> p.total, told |-> p.told, began |-> p.began,
         estimate |-> p.estimate]

PurgeShape(p) ==
    /\ Whole(p)
    /\ p.step \in {"idle", "estimating", "estimated", "policy", "creating", "tables", "policies", "over"}
    /\ p.by \in {"operator", "policies"} /\ p.dto \in PurgeDtos /\ p.cutoff \in Nat /\ p.began \in Nat
    /\ p.todo \in Seq(Swept) /\ NoTwice(p.todo)
    /\ ToSet(p.todo) \cap DOMAIN p.counts = {} /\ DOMAIN p.counts \subseteq Swept
    /\ \A policy \in p.policies : policy.days \in Nat
    /\ p.step = "over" <=> p.told # "nothing"
    /\ Cardinality(p.picked) <= p.dto.max

AskedKept(p) ==
    /\ p.step \in {"policy", "creating"} => p.by = "operator" /\ p.counts = <<>>
    /\ p.step \in {"policy", "creating", "tables"} =>
          p.dto.table # "purge_audit" /\ p.cutoff = IF Limit(p) > 0 THEN Limit(p) ELSE 0
    /\ p.step = "tables" => ToSet(p.todo) \subseteq ToSet(GetTablesForPurgeScope(p.dto))
    /\ p.step = "tables" => DOMAIN p.counts \subseteq Tables
    /\ p.by = "policies" /\ p.step = "tables" => "audit_events" \notin ToSet(p.todo)

PickedKept(p) ==
    /\ p.picked \subseteq FirstRows
    /\ p.picked # {} => p.step = "tables" /\ p.todo # <<>> /\ ~p.dto.dry /\ p.dto.max # 0
    /\ \A row \in p.picked :
          /\ row.table = Head(p.todo) /\ row.day < p.cutoff
          /\ p.dto.ids = {} \/ row.table = "audit_events" \/ row.of \in p.dto.ids

LeavesNone(p, rows) ==
    p.step = "tables" /\ ~p.dto.dry /\ p.dto.max = 0 =>
        \A row \in rows : row.table \in DOMAIN p.counts \ p.refused => row.day >= p.cutoff

PurgeKept(p, rows) == PurgeShape(p) /\ AskedKept(p) /\ PickedKept(p) /\ LeavesNone(p, rows)

PurgesKept ==
    /\ stored \subseteq FirstRows
    /\ purgeClock.today \in Nat /\ purgeClock.today >= FirstDay
    /\ purges = [c \in PurgeCalls |-> purges[c]]
    /\ \A c \in PurgeCalls : PurgeKept(purges[c], stored)

PolicyRow(policy) ==
    /\ policy = [id |-> policy.id, name |-> policy.name, days |-> policy.days,
                 appliesTo |-> policy.appliesTo, active |-> policy.active]
    /\ policy.id \in Nat /\ policy.days \in 1..7

(* The last id that was given makes the next of them new.                   *)
PoliciesKept ==
    /\ \A policy \in policies : PolicyRow(policy)
    /\ purgeClock.created \in Nat /\ \A policy \in policies : policy.id <= purgeClock.created
    /\ \A p, q \in policies : p.name = q.name \/ p.id = q.id => p = q
    /\ \A audit \in purgeAudits :
          audit.table \in Tables /\ \E policy \in policies : policy.id = audit.policy

PurgeInv == PurgesKept /\ PoliciesKept

(***************************************************************************)
(* The requests, the tables and the rows                                   *)
(***************************************************************************)

LEMMA TheTables == ToSet(AllTables) = Tables /\ AllTables \in Seq(Tables)
BY DEF ToSet, AllTables, Tables

LEMMA TheRows == \A row \in FirstRows : row.day \in Nat
BY DEF FirstRows, Row

LEMMA HeadAndTail ==
    ASSUME NEW S, NEW todo \in Seq(S), todo # <<>>, NoTwice(todo)
    PROVE  /\ Head(todo) \in S /\ Tail(todo) \in Seq(S) /\ NoTwice(Tail(todo))
           /\ Head(todo) \in ToSet(todo) /\ Head(todo) \notin ToSet(Tail(todo))
           /\ ToSet(Tail(todo)) \subseteq ToSet(todo)
<1>1. PICK len \in Nat, tail \in Seq(S) :
         /\ tail = Tail(todo) /\ len = Len(tail) /\ Len(todo) = len + 1 /\ Head(todo) = todo[1]
         /\ Head(todo) \in S
         /\ \A i \in 1..len : tail[i] = todo[i + 1]
  <2>1. /\ Len(todo) \in Nat \ {0} /\ Tail(todo) \in Seq(S) /\ Len(Tail(todo)) = Len(todo) - 1
        /\ Head(todo) = todo[1]
    OBVIOUS
  <2>2. Head(todo) \in S
    BY <2>1
  <2>3. \A i \in 1..(Len(todo) - 1) : Tail(todo)[i] = todo[i + 1]
    OBVIOUS
  <2>4. PICK n \in Nat \ {0} : n = Len(todo)
    BY <2>1
  <2>5. PICK len \in Nat : len = n - 1
    BY <2>4
  <2>6. PICK tail \in Seq(S) : tail = Tail(todo)
    BY <2>1
  <2>7. Len(tail) = len /\ Len(todo) = len + 1 /\ \A i \in 1..len : tail[i] = todo[i + 1]
    BY <2>1, <2>3, <2>4, <2>5, <2>6
  <2> QED
    BY <2>1, <2>2, <2>6, <2>7
<1>2. ToSet(tail) = {tail[i] : i \in 1..len} /\ ToSet(todo) = {todo[i] : i \in 1..(len + 1)}
  <2>1. DOMAIN tail = 1..len /\ DOMAIN todo = 1..(len + 1)
    BY <1>1
  <2> QED
    BY <2>1 DEF ToSet
<1>3. \A i \in 1..len : i + 1 \in 1..(len + 1) /\ i + 1 # 1
  BY <1>1
<1>4. 1 \in 1..(len + 1)
  BY <1>1
<1>5. ToSet(tail) \subseteq ToSet(todo) /\ Head(todo) \in ToSet(todo)
  BY <1>1, <1>2, <1>3, <1>4
<1>6. Head(todo) \notin ToSet(tail)
  BY <1>1, <1>2, <1>3, <1>4 DEF NoTwice
<1>7. NoTwice(tail)
  <2> SUFFICES ASSUME NEW i \in 1..len, NEW j \in 1..len, i # j PROVE tail[i] # tail[j]
    BY <1>1 DEF NoTwice
  <2>1. i + 1 \in 1..(len + 1) /\ j + 1 \in 1..(len + 1) /\ i + 1 # j + 1
    OBVIOUS
  <2> QED
    BY <1>1, <2>1 DEF NoTwice
<1> QED
  BY <1>1, <1>5, <1>6, <1>7

LEMMA TheScope ==
    ASSUME NEW dto \in PurgeDtos
    PROVE  /\ GetTablesForPurgeScope(dto) \in Seq(Swept) /\ NoTwice(GetTablesForPurgeScope(dto))
           /\ dto.table # "purge_audit" => ToSet(GetTablesForPurgeScope(dto)) \subseteq Tables
           /\ dto.table = "" /\ dto.scope = "all" => GetTablesForPurgeScope(dto) = AllTables
<1>1. dto.table \in Swept \cup {""} /\ dto.scope \in {"all", "audit", "incidents", "evidence", "anonymization"}
  BY DEF PurgeDtos
<1>2. ASSUME NEW t \in Swept
      PROVE  <<t>> \in Seq(Swept) /\ NoTwice(<<t>>) /\ ToSet(<<t>>) = {t}
  BY DEF NoTwice, ToSet
<1>3. /\ AllTables \in Seq(Swept) /\ NoTwice(AllTables) /\ ToSet(AllTables) = Tables
      /\ <<"incidents", "incident_events">> \in Seq(Swept) /\ NoTwice(<<"incidents", "incident_events">>)
      /\ ToSet(<<"incidents", "incident_events">>) \subseteq Tables
  BY DEF AllTables, Swept, Tables, NoTwice, ToSet
<1>4. "evidence" \in Tables /\ "audit_events" \in Tables /\ Tables \subseteq Swept
  BY DEF Tables, Swept
<1>5. CASE dto.table # ""
  <2>1. PICK t \in Swept : t = dto.table
    BY <1>1, <1>5
  <2>2. GetTablesForPurgeScope(dto) = <<t>>
    BY <1>5, <2>1 DEF GetTablesForPurgeScope
  <2>3. t # "purge_audit" => t \in Tables
    BY DEF Swept
  <2> QED
    BY <1>2, <1>5, <2>1, <2>2, <2>3
<1>6. CASE dto.table = "" /\ dto.scope \in {"evidence", "audit"}
  BY <1>2, <1>4, <1>6 DEF GetTablesForPurgeScope
<1>7. CASE dto.table = "" /\ dto.scope \in {"all", "incidents", "anonymization"}
  BY <1>3, <1>7 DEF GetTablesForPurgeScope
<1> QED
  BY <1>1, <1>5, <1>6, <1>7

LEMMA TheRequests == Dto \in PurgeDtos /\ PurgeRequests \subseteq PurgeDtos
<1>1. Dto \in PurgeDtos
  BY DEF Dto, PurgeDtos, Swept, Tables
<1>3. /\ 1 \in Nat /\ 2 \in Nat /\ 5 \in Nat /\ 8 \in Nat /\ 12 \in Nat
      /\ {} \in SUBSET Nat /\ {3} \in SUBSET Nat /\ {2, 3} \in SUBSET Nat /\ {4} \in SUBSET Nat
  OBVIOUS
<1>4. ASSUME NEW days \in {1, 8} PROVE [Dto EXCEPT !.scope = "audit", !.days = days] \in PurgeDtos
  BY <1>1, <1>3 DEF PurgeDtos
<1>5. ASSUME NEW ids \in {{}, {2, 3}, {4}}
      PROVE  [Dto EXCEPT !.max = 2, !.scope = "incidents", !.ids = ids] \in PurgeDtos
  <2>1. ids \in SUBSET Nat
    BY <1>3
  <2> QED
    BY <1>1, <1>3, <2>1 DEF PurgeDtos
<1>6. /\ [Dto EXCEPT !.ids = {3}] \in PurgeDtos
      /\ [Dto EXCEPT !.ids = {3}, !.dry = TRUE, !.scope = "incidents"] \in PurgeDtos
      /\ [Dto EXCEPT !.cutoff = 5, !.max = 1] \in PurgeDtos
      /\ [Dto EXCEPT !.cutoff = 12, !.scope = "evidence"] \in PurgeDtos
  BY <1>1, <1>3 DEF PurgeDtos
<1>7. /\ [Dto EXCEPT !.table = "incident_events", !.dry = TRUE, !.max = 1] \in PurgeDtos
      /\ [Dto EXCEPT !.table = "purge_audit"] \in PurgeDtos
      /\ [Dto EXCEPT !.user = "deleted", !.scope = "evidence"] \in PurgeDtos
  BY <1>1, <1>3 DEF PurgeDtos, Swept, Tables
<1> QED
  BY <1>1, <1>4, <1>5, <1>6, <1>7 DEF PurgeRequests

(* The cutoff of a purge that begins is the limit of what it deletes.       *)
LEMMA TheCutoff ==
    ASSUME PurgesKept, NEW dto \in PurgeDtos
    PROVE  /\ CutoffOf(dto) \in Nat
           /\ \A p : p.dto = dto /\ p.began = purgeClock.today =>
                 CutoffOf(dto) = IF Limit(p) > 0 THEN Limit(p) ELSE 0
<1>1. dto.cutoff \in Nat /\ dto.days \in Nat /\ purgeClock.today \in Nat
  BY DEF PurgesKept, PurgeDtos
<1>2. CutoffOf(dto) \in Nat
  BY <1>1 DEF CutoffOf
<1>3. ASSUME NEW p, p.dto = dto, p.began = purgeClock.today
      PROVE  CutoffOf(dto) = IF Limit(p) > 0 THEN Limit(p) ELSE 0
  BY <1>1, <1>3 DEF CutoffOf, Limit
<1> QED
  BY <1>2, <1>3

(***************************************************************************)
(* The steps of one purge                                                  *)
(***************************************************************************)

LEMMA CountedTables ==
    ASSUME NEW counts, NEW table, NEW n
    PROVE  DOMAIN Counted(counts, table, n) = DOMAIN counts \cup {table}
BY DEF Counted

(* What a purge is before it begins.                                        *)
Unbegun(none) ==
    NoPurge = [step |-> "idle", by |-> "operator", dto |-> Dto, cutoff |-> 0, todo |-> <<>>,
               picked |-> {}, policy |-> 0, policies |-> {}, counts |-> <<>>, refused |-> {},
               total |-> 0, told |-> "nothing", began |-> 0, estimate |-> none]

LEMMA NothingBegun == \E none : Unbegun(none)
BY DEF NoPurge, Unbegun

(* A purge that has been through no table: it has picked and counted nothing. *)
Fresh(u) ==
    /\ Whole(u) /\ u.by \in {"operator", "policies"} /\ u.dto \in PurgeDtos
    /\ u.cutoff \in Nat /\ u.began \in Nat
    /\ u.step \in {"idle", "estimating", "estimated", "policy", "policies", "over"}
    /\ u.todo = <<>> \/ (u.todo \in Seq(Swept) /\ NoTwice(u.todo))
    /\ \A policy \in u.policies : policy.days \in Nat
    /\ u.picked = {} /\ u.counts = <<>> /\ (u.step = "over" <=> u.told # "nothing")
    /\ u.step = "policy" =>
          /\ u.by = "operator" /\ u.dto.table # "purge_audit"
          /\ u.cutoff = IF Limit(u) > 0 THEN Limit(u) ELSE 0

LEMMA FreshKept ==
    ASSUME NEW rows, NEW u, Fresh(u)
    PROVE  PurgeKept(u, rows)
<1>1. DOMAIN <<>> = {}
  OBVIOUS
<1>2. Cardinality({}) = 0
  BY FS_EmptySet
<1>3. u.dto.max \in Nat
  BY DEF PurgeDtos, Fresh
<1>4. u.todo \in Seq(Swept) /\ NoTwice(u.todo)
  <2>1. <<>> \in Seq(Swept) /\ NoTwice(<<>>)
    BY DEF NoTwice
  <2> QED
    BY <2>1 DEF Fresh
<1>5. PurgeShape(u)
  BY <1>1, <1>2, <1>3, <1>4 DEF PurgeShape, Fresh
<1>6. AskedKept(u) /\ PickedKept(u) /\ LeavesNone(u, rows)
  BY DEF AskedKept, PickedKept, LeavesNone, Fresh
<1> QED
  BY <1>5, <1>6 DEF PurgeKept

(* One purge moves to u, and rows may go.                                   *)
LEMMA OnePurgeMoves ==
    ASSUME PurgesKept, NEW c \in PurgeCalls, NEW u, Moves(c, u), stored' \subseteq stored,
           PurgeKept(u, stored'),
           \/ UNCHANGED purgeClock
           \/ \E days \in {0, 1} : Disturbance(days)
           \/ purgeClock'.today = purgeClock.today
    PROVE  PurgesKept' /\ purges'[c] = u
<1>1. /\ purges' = [d \in PurgeCalls |-> purges'[d]]
      /\ purges'[c] = u /\ \A d \in PurgeCalls : d # c => purges'[d] = purges[d]
  BY DEF PurgesKept, Moves
<1>2. purgeClock'.today \in Nat /\ purgeClock'.today >= FirstDay
  <2>1. CASE UNCHANGED purgeClock
    BY <2>1 DEF PurgesKept
  <2>2. ASSUME NEW days \in {0, 1}, Disturbance(days) PROVE <1>2
    <3>1. purgeClock'.today = purgeClock.today + days
      BY <2>2 DEF Disturbance, Later
    <3> QED
      BY <3>1 DEF PurgesKept, FirstDay
  <2>3. CASE purgeClock'.today = purgeClock.today
    BY <2>3 DEF PurgesKept
  <2> QED
    BY <2>1, <2>2, <2>3
<1>3. \A d \in PurgeCalls : PurgeKept(purges'[d], stored')
  <2> SUFFICES ASSUME NEW d \in PurgeCalls, d # c PROVE PurgeKept(purges[d], stored')
    BY <1>1
  <2>1. PurgeKept(purges[d], stored)
    BY DEF PurgesKept
  <2>2. LeavesNone(purges[d], stored')
    BY <2>1 DEF PurgeKept, LeavesNone
  <2> QED
    BY <2>1, <2>2 DEF PurgeKept
<1> QED
  BY <1>1, <1>2, <1>3 DEF PurgesKept

(* A table is over: it is counted, and the next one is at the head.         *)
TableDone(p, u, n) ==
    /\ Whole(u) /\ u.step = p.step /\ u.by = p.by /\ u.dto = p.dto /\ u.cutoff = p.cutoff
    /\ u.todo = Tail(p.todo) /\ u.picked = {} /\ u.counts = Counted(p.counts, Head(p.todo), n)
    /\ u.policies = p.policies /\ u.told = p.told /\ u.began = p.began

LEMMA DeletedIsDone ==
    ASSUME PurgesKept, NEW c \in PurgeCalls, NEW n
    PROVE  TableDone(purges[c], Deleted(c, n), n) /\ Deleted(c, n).refused = purges[c].refused
<1>1. Whole(purges[c])
  BY DEF PurgesKept, PurgeKept, PurgeShape
<1>2. PICK a : a = Active(c)
  OBVIOUS
<1>3. /\ Whole(a) /\ a.step = purges[c].step /\ a.by = purges[c].by /\ a.dto = purges[c].dto
      /\ a.cutoff = purges[c].cutoff /\ a.todo = Tail(purges[c].todo) /\ a.counts = purges[c].counts
      /\ a.policies = purges[c].policies /\ a.told = purges[c].told /\ a.began = purges[c].began
      /\ a.refused = purges[c].refused
  BY <1>1, <1>2 DEF Whole, Active
<1>4. PICK counts : counts = Counted(purges[c].counts, Head(purges[c].todo), n)
  OBVIOUS
<1>5. PICK u : u = [a EXCEPT !.counts = counts, !.picked = {}]
  OBVIOUS
<1>6. u = Deleted(c, n)
  BY <1>2, <1>3, <1>4, <1>5 DEF Deleted, HeadTable
<1>7. TableDone(purges[c], u, n) /\ u.refused = purges[c].refused
  BY <1>3, <1>4, <1>5 DEF TableDone, Whole
<1> QED
  BY <1>6, <1>7

LEMMA TableOver ==
    ASSUME NEW p, NEW rows, NEW left, left \subseteq rows, rows \subseteq FirstRows, PurgeKept(p, rows),
           p.step = "tables", p.todo # <<>>, NEW n, NEW u, TableDone(p, u, n),
           \/ u.refused = p.refused \cup {Head(p.todo)}
           \/ /\ u.refused = p.refused
              /\ ~p.dto.dry /\ p.dto.max = 0 =>
                    \A row \in left : row.table = Head(p.todo) => row.day >= p.cutoff
    PROVE  PurgeKept(u, left)
<1>1. /\ PurgeShape(p) /\ AskedKept(p) /\ LeavesNone(p, rows)
      /\ p.dto \in PurgeDtos /\ p.cutoff \in Nat /\ p.dto.max \in Nat
  BY DEF PurgeKept, PurgeShape, PurgeDtos
<1>2. PICK todo \in Seq(Swept) : todo = p.todo /\ todo # <<>> /\ NoTwice(todo)
  BY <1>1 DEF PurgeShape
<1>3. PICK table \in Swept, tail \in Seq(Swept) :
         /\ table = Head(p.todo) /\ tail = Tail(p.todo) /\ NoTwice(tail) /\ table \in ToSet(p.todo)
         /\ table \notin ToSet(tail) /\ ToSet(tail) \subseteq ToSet(p.todo)
  BY <1>2, HeadAndTail
<1>4. PICK counts : counts = Counted(p.counts, table, n) /\ DOMAIN counts = DOMAIN p.counts \cup {table}
  <2>1. DOMAIN Counted(p.counts, table, n) = DOMAIN p.counts \cup {table}
    BY CountedTables
  <2>2. PICK counts : counts = Counted(p.counts, table, n)
    OBVIOUS
  <2> QED
    BY <2>1, <2>2
<1>5. /\ Whole(u) /\ u.step = p.step /\ u.by = p.by /\ u.dto = p.dto /\ u.cutoff = p.cutoff
      /\ u.todo = tail /\ u.picked = {} /\ u.policies = p.policies /\ u.counts = counts
      /\ u.told = p.told /\ u.began = p.began
  BY <1>3, <1>4 DEF TableDone
<1>6. Cardinality({}) = 0
  BY FS_EmptySet
<1>7. PurgeShape(u)
  BY <1>1, <1>3, <1>4, <1>5, <1>6 DEF PurgeShape
<1>8. table \in Tables
  <2>1. p.dto.table # "purge_audit" /\ table \in ToSet(GetTablesForPurgeScope(p.dto))
    BY <1>1, <1>3 DEF AskedKept
  <2> QED
    BY <1>1, <2>1, TheScope
<1>9. AskedKept(u)
  BY <1>1, <1>3, <1>4, <1>5, <1>8 DEF AskedKept, Limit
<1>10. PickedKept(u)
  BY <1>5 DEF PickedKept
<1>11. LeavesNone(u, left)
  BY <1>1, <1>3, <1>4, <1>5 DEF LeavesNone
<1> QED
  BY <1>7, <1>9, <1>10, <1>11 DEF PurgeKept

LEMMA EstimatesKeep ==
    ASSUME PurgesKept, NEW c \in PurgeCalls,
           \/ \E dto \in PurgeDtos : BeginEstimate(c, dto)
           \/ CountTable(c) \/ EstimateTable(c) \/ TellEstimate(c)
    PROVE  PurgesKept' /\ stored' = stored
<1> DEFINE p == purges[c]
<1>0. PICK none : Unbegun(none)
  BY NothingBegun
<1>1. /\ PurgeKept(p, stored) /\ PurgeShape(p) /\ p.dto \in PurgeDtos /\ p.cutoff \in Nat
      /\ p.todo \in Seq(Swept) /\ NoTwice(p.todo) /\ p.by \in {"operator", "policies"}
  BY DEF PurgesKept, PurgeKept, PurgeShape
<1>2. ASSUME NEW dto \in PurgeDtos, BeginEstimate(c, dto) PROVE PurgesKept' /\ stored' = stored
  <2>1. PICK e : Moves(c, [NoPurge EXCEPT !.step = "estimating", !.dto = dto, !.cutoff = CutoffOf(dto),
                                          !.todo = GetTablesForAnalysis(dto), !.estimate = e])
                 /\ UNCHANGED <<stored, purgeClock>>
    BY <1>2 DEF BeginEstimate
  <2>2. PICK cutoff \in Nat, todo \in Seq(Swept) :
           cutoff = CutoffOf(dto) /\ todo = GetTablesForAnalysis(dto) /\ NoTwice(todo)
    BY TheCutoff, TheScope DEF GetTablesForAnalysis
  <2>3. PICK u : u = [NoPurge EXCEPT !.step = "estimating", !.dto = dto, !.cutoff = cutoff,
                                     !.todo = todo, !.estimate = e]
    OBVIOUS
  <2>4. Moves(c, u)
    BY <2>1, <2>2, <2>3
  <2>5. /\ Whole(u) /\ u.step = "estimating" /\ u.by = "operator" /\ u.dto = dto /\ u.cutoff = cutoff
        /\ u.todo = todo /\ u.picked = {} /\ u.policies = {} /\ u.counts = <<>> /\ u.told = "nothing"
        /\ u.began = 0
    BY <1>0, <2>3 DEF Unbegun, Whole
  <2>6. PurgeKept(u, stored')
    <3>1. Fresh(u)
      BY <2>2, <2>5 DEF Fresh
    <3> QED
      BY <3>1, FreshKept
  <2> QED
    BY <2>1, <2>4, <2>6, OnePurgeMoves
<1>3. ASSUME EstimateTable(c) PROVE PurgesKept' /\ stored' = stored
  <2>1. PICK e : Moves(c, [Active(c) EXCEPT !.estimate = e])
    <3>1. \E entry, blind : Estimated(c, entry, blind)
      BY <1>3 DEF EstimateTable
    <3> QED
      BY <3>1 DEF Estimated
  <2>2. /\ p.step = "estimating" /\ p.todo # <<>> /\ stored' = stored
        /\ UNCHANGED purgeClock \/ Disturbance(0)
    BY <1>3 DEF EstimateTable, At
  <2>3. PICK tail \in Seq(Swept) : tail = Tail(p.todo) /\ NoTwice(tail) /\ ToSet(tail) \subseteq ToSet(p.todo)
    BY <1>1, <2>2, HeadAndTail
  <2>4. PICK u : u = [p EXCEPT !.todo = tail, !.estimate = e]
    OBVIOUS
  <2>5. Moves(c, u)
    BY <2>1, <2>3, <2>4 DEF Active
  <2>6. /\ Whole(u)
        /\ u.step = p.step /\ u.by = p.by /\ u.dto = p.dto /\ u.cutoff = p.cutoff /\ u.todo = tail
        /\ u.picked = p.picked /\ u.policies = p.policies /\ u.counts = p.counts /\ u.refused = p.refused
        /\ u.told = p.told /\ u.began = p.began
    BY <1>1, <2>4 DEF PurgeShape, Whole
  <2>7. PurgeKept(u, stored')
    <3>1. p.picked = {}
      BY <1>1, <2>2 DEF PurgeKept, PickedKept
    <3>2. PurgeShape(u)
      BY <1>1, <2>3, <2>6 DEF PurgeShape
    <3>3. AskedKept(u) /\ PickedKept(u) /\ LeavesNone(u, stored')
      BY <2>2, <2>6, <3>1 DEF AskedKept, PickedKept, LeavesNone
    <3> QED
      BY <3>2, <3>3 DEF PurgeKept
  <2> QED
    BY <2>2, <2>5, <2>7, OnePurgeMoves
<1>4. ASSUME TellEstimate(c) PROVE PurgesKept' /\ stored' = stored
  <2>1. PICK e : Moves(c, [NoPurge EXCEPT !.step = "estimated", !.dto = p.dto, !.estimate = e])
    BY <1>4 DEF TellEstimate
  <2>2. UNCHANGED <<stored, purgeClock>>
    BY <1>4 DEF TellEstimate
  <2>3. PICK dto \in PurgeDtos : dto = p.dto
    BY <1>1
  <2>4. PICK u : u = [NoPurge EXCEPT !.step = "estimated", !.dto = dto, !.estimate = e]
    OBVIOUS
  <2>5. Moves(c, u)
    BY <2>1, <2>3, <2>4
  <2>6. /\ Whole(u) /\ u.step = "estimated" /\ u.by = "operator" /\ u.dto = dto /\ u.cutoff = 0
        /\ u.todo = <<>> /\ u.picked = {} /\ u.policies = {} /\ u.counts = <<>> /\ u.told = "nothing"
        /\ u.began = 0
    BY <1>0, <2>4 DEF Unbegun, Whole
  <2>7. PurgeKept(u, stored')
    <3>1. Fresh(u)
      BY <2>6 DEF Fresh
    <3> QED
      BY <3>1, FreshKept
  <2> QED
    BY <2>2, <2>5, <2>7, OnePurgeMoves
<1>5. ASSUME CountTable(c) PROVE PurgesKept' /\ stored' = stored
  <2>1. PICK current : Moves(c, [p EXCEPT !.estimate.current = {current}])
    BY <1>5 DEF CountTable
  <2>2. /\ p.step = "estimating" /\ UNCHANGED <<stored, purgeClock>>
    BY <1>5 DEF CountTable, At
  <2>3. PICK e : e = [p.estimate EXCEPT !.current = {current}]
    OBVIOUS
  <2>4. PICK u : u = [p EXCEPT !.estimate = e]
    OBVIOUS
  <2>5. Moves(c, u)
    BY <2>1, <2>3, <2>4
  <2>6. /\ Whole(u)
        /\ u.step = p.step /\ u.by = p.by /\ u.dto = p.dto /\ u.cutoff = p.cutoff /\ u.todo = p.todo
        /\ u.picked = p.picked /\ u.policies = p.policies /\ u.counts = p.counts /\ u.refused = p.refused
        /\ u.told = p.told /\ u.began = p.began
    BY <1>1, <2>4 DEF PurgeShape, Whole
  <2>7. PurgeKept(u, stored')
    <3>1. p.picked = {}
      BY <1>1, <2>2 DEF PurgeKept, PickedKept
    <3>2. PurgeShape(u)
      BY <1>1, <2>6 DEF PurgeShape
    <3>3. AskedKept(u) /\ PickedKept(u) /\ LeavesNone(u, stored')
      BY <2>2, <2>6, <3>1 DEF AskedKept, PickedKept, LeavesNone
    <3> QED
      BY <3>2, <3>3 DEF PurgeKept
  <2> QED
    BY <2>2, <2>5, <2>7, OnePurgeMoves
<1> QED
  BY <1>2, <1>3, <1>4, <1>5

(* A purge that begins, that is over, or whose slot is freed.               *)
LEMMA BeginningsKeep ==
    ASSUME PurgesKept, PoliciesKept, NEW c \in PurgeCalls,
           \/ \E dto \in PurgeDtos : BeginManualPurge(c, dto)
           \/ FinishManualPurge(c) \/ BeginAutomaticPurge(c) \/ FinishAutomaticPurge(c)
           \/ Moves(c, NoPurge) /\ stored' = stored /\ (UNCHANGED purgeClock \/ Disturbance(0))
    PROVE  PurgesKept' /\ stored' = stored
<1> DEFINE p == purges[c]
<1>0. PICK none : Unbegun(none)
  BY NothingBegun
<1>1. /\ PurgeKept(p, stored) /\ PurgeShape(p) /\ p.dto \in PurgeDtos /\ p.began \in Nat
      /\ purgeClock.today \in Nat /\ Dto \in PurgeDtos
  BY TheRequests DEF PurgesKept, PurgeKept, PurgeShape
<1>2. ASSUME NEW dto \in PurgeDtos, BeginManualPurge(c, dto) PROVE PurgesKept' /\ stored' = stored
  <2>1. UNCHANGED <<stored, purgeClock>>
    BY <1>2 DEF BeginManualPurge
  <2>2. PICK asked : asked = [NoPurge EXCEPT !.dto = dto, !.estimate = p.estimate,
                                             !.began = purgeClock.today]
    OBVIOUS
  <2>3. /\ Whole(asked) /\ asked.by = "operator" /\ asked.dto = dto /\ asked.cutoff = 0
        /\ asked.todo = <<>> /\ asked.picked = {} /\ asked.policies = {} /\ asked.counts = <<>>
        /\ asked.told = "nothing" /\ asked.began = purgeClock.today
    BY <1>0, <2>2 DEF Unbegun, Whole
  <2>4. CASE /\ ValidatePurgeOperation(dto)
             /\ Moves(c, [asked EXCEPT !.step = "policy", !.cutoff = CutoffOf(dto)])
    <3>1. PICK cutoff \in Nat : /\ cutoff = CutoffOf(dto)
                                /\ \A q : q.dto = dto /\ q.began = purgeClock.today =>
                                      cutoff = IF Limit(q) > 0 THEN Limit(q) ELSE 0
      BY TheCutoff
    <3>2. PICK u : u = [asked EXCEPT !.step = "policy", !.cutoff = cutoff]
      OBVIOUS
    <3>3. Moves(c, u)
      BY <2>4, <3>1, <3>2
    <3>4. /\ Whole(u) /\ u.step = "policy" /\ u.by = "operator" /\ u.dto = dto /\ u.cutoff = cutoff
          /\ u.todo = <<>> /\ u.picked = {} /\ u.policies = {} /\ u.counts = <<>>
          /\ u.told = "nothing" /\ u.began = purgeClock.today
      BY <2>3, <3>2 DEF Whole
    <3>5. dto.table # "purge_audit"
      BY <2>4, TheTables DEF ValidatePurgeOperation, Tables
    <3>6. cutoff = IF Limit(u) > 0 THEN Limit(u) ELSE 0
      BY <3>1, <3>4
    <3>7. PurgeKept(u, stored')
      <4>1. Fresh(u)
        BY <1>1, <3>4, <3>5, <3>6 DEF Fresh
      <4> QED
        BY <4>1, FreshKept
    <3> QED
      BY <2>1, <3>3, <3>7, OnePurgeMoves
  <2>5. CASE Moves(c, [asked EXCEPT !.step = "over", !.told = "failed"])
    <3>1. PICK u : u = [asked EXCEPT !.step = "over", !.told = "failed"]
      OBVIOUS
    <3>2. /\ Whole(u) /\ u.step = "over" /\ u.by = "operator" /\ u.dto = dto /\ u.cutoff = 0
          /\ u.todo = <<>> /\ u.picked = {} /\ u.policies = {} /\ u.counts = <<>>
          /\ u.told = "failed" /\ u.began = purgeClock.today
      BY <2>3, <3>1 DEF Whole
    <3>3. PurgeKept(u, stored')
      <4>1. Fresh(u)
        BY <1>1, <3>2 DEF Fresh
      <4> QED
        BY <4>1, FreshKept
    <3> QED
      BY <2>1, <2>5, <3>1, <3>3, OnePurgeMoves
  <2> QED
    BY <1>2, <2>2, <2>4, <2>5 DEF BeginManualPurge
<1>3. ASSUME FinishManualPurge(c) PROVE PurgesKept' /\ stored' = stored
  <2>1. PICK refused \in BOOLEAN :
           /\ Moves(c, [NoPurge EXCEPT !.step = "over", !.dto = p.dto, !.began = p.began,
                                       !.estimate = p.estimate, !.total = TotalOf(p.counts),
                                       !.told = IF refused \/ p.dto.user = "deleted"
                                                THEN "failed" ELSE "done"])
           /\ UNCHANGED purgeClock \/ Disturbance(0)
    BY <1>3 DEF FinishManualPurge
  <2>2. PICK told \in {"failed", "done"} :
           told = IF refused \/ p.dto.user = "deleted" THEN "failed" ELSE "done"
    OBVIOUS
  <2>3. PICK total : total = TotalOf(p.counts)
    OBVIOUS
  <2>4. PICK u : u = [NoPurge EXCEPT !.step = "over", !.dto = p.dto, !.began = p.began,
                                     !.estimate = p.estimate, !.total = total, !.told = told]
    OBVIOUS
  <2>5. Moves(c, u) /\ (UNCHANGED purgeClock \/ Disturbance(0))
    BY <2>1, <2>2, <2>3, <2>4
  <2>6. stored' = stored
    BY <1>3 DEF FinishManualPurge
  <2>7. /\ Whole(u) /\ u.step = "over" /\ u.by = "operator" /\ u.dto = p.dto /\ u.cutoff = 0
        /\ u.todo = <<>> /\ u.picked = {} /\ u.policies = {} /\ u.counts = <<>>
        /\ u.told = told /\ u.began = p.began
    BY <1>0, <2>4 DEF Unbegun, Whole
  <2>8. PurgeKept(u, stored')
    <3>1. Fresh(u)
      BY <1>1, <2>7 DEF Fresh
    <3> QED
      BY <3>1, FreshKept
  <2> QED
    BY <2>5, <2>6, <2>8, OnePurgeMoves
<1>4. ASSUME BeginAutomaticPurge(c) PROVE PurgesKept' /\ stored' = stored
  <2>1. stored' = stored
    BY <1>4 DEF BeginAutomaticPurge
  <2>2. CASE /\ Moves(c, [NoPurge EXCEPT !.step = "policies", !.by = "policies",
                                         !.policies = GetActiveRetentionPolicies])
             /\ UNCHANGED purgeClock
    <3>1. \A policy \in GetActiveRetentionPolicies : policy.days \in Nat
      BY DEF PoliciesKept, PolicyRow, GetActiveRetentionPolicies
    <3>2. PICK u : u = [NoPurge EXCEPT !.step = "policies", !.by = "policies",
                                       !.policies = GetActiveRetentionPolicies]
      OBVIOUS
    <3>3. /\ Whole(u) /\ u.step = "policies" /\ u.by = "policies" /\ u.dto = Dto /\ u.cutoff = 0
          /\ u.todo = <<>> /\ u.picked = {} /\ u.policies = GetActiveRetentionPolicies
          /\ u.counts = <<>> /\ u.told = "nothing" /\ u.began = 0
      BY <1>0, <3>2 DEF Unbegun, Whole
    <3>4. PurgeKept(u, stored')
      <4>1. Fresh(u)
        BY <1>1, <3>1, <3>3 DEF Fresh
      <4> QED
        BY <4>1, FreshKept
    <3> QED
      BY <2>1, <2>2, <3>2, <3>4, OnePurgeMoves
  <2>3. CASE /\ Disturbance(0)
             /\ Moves(c, [NoPurge EXCEPT !.step = "over", !.by = "policies", !.told = "failed"])
    <3>1. PICK u : u = [NoPurge EXCEPT !.step = "over", !.by = "policies", !.told = "failed"]
      OBVIOUS
    <3>2. /\ Whole(u) /\ u.step = "over" /\ u.by = "policies" /\ u.dto = Dto /\ u.cutoff = 0
          /\ u.todo = <<>> /\ u.picked = {} /\ u.policies = {} /\ u.counts = <<>>
          /\ u.told = "failed" /\ u.began = 0
      BY <1>0, <3>1 DEF Unbegun, Whole
    <3>3. PurgeKept(u, stored')
      <4>1. Fresh(u)
        BY <1>1, <3>2 DEF Fresh
      <4> QED
        BY <4>1, FreshKept
    <3> QED
      BY <2>1, <2>3, <3>1, <3>3, OnePurgeMoves
  <2> QED
    BY <1>4, <2>2, <2>3 DEF BeginAutomaticPurge
<1>5. ASSUME FinishAutomaticPurge(c) PROVE PurgesKept' /\ stored' = stored
  <2>1. PICK u : u = [NoPurge EXCEPT !.step = "over", !.by = "policies", !.total = p.total,
                                     !.told = "done"]
    OBVIOUS
  <2>2. Moves(c, u) /\ UNCHANGED <<stored, purgeClock>>
    BY <1>5, <2>1 DEF FinishAutomaticPurge
  <2>3. /\ Whole(u) /\ u.step = "over" /\ u.by = "policies" /\ u.dto = Dto /\ u.cutoff = 0
        /\ u.todo = <<>> /\ u.picked = {} /\ u.policies = {} /\ u.counts = <<>>
        /\ u.told = "done" /\ u.began = 0
    BY <1>0, <2>1 DEF Unbegun, Whole
  <2>4. PurgeKept(u, stored')
    <3>1. Fresh(u)
      BY <1>1, <2>3 DEF Fresh
    <3> QED
      BY <3>1, FreshKept
  <2> QED
    BY <2>2, <2>4, OnePurgeMoves
<1>6. ASSUME Moves(c, NoPurge), stored' = stored, UNCHANGED purgeClock \/ Disturbance(0)
      PROVE  PurgesKept' /\ stored' = stored
  <2>1. /\ Whole(NoPurge) /\ NoPurge.step = "idle" /\ NoPurge.by = "operator" /\ NoPurge.dto = Dto
        /\ NoPurge.cutoff = 0 /\ NoPurge.todo = <<>> /\ NoPurge.picked = {} /\ NoPurge.policies = {}
        /\ NoPurge.counts = <<>> /\ NoPurge.told = "nothing" /\ NoPurge.began = 0
    BY <1>0 DEF Unbegun, Whole
  <2>2. PurgeKept(NoPurge, stored')
    <3>1. Fresh(NoPurge)
      BY <1>1, <2>1 DEF Fresh
    <3> QED
      BY <3>1, FreshKept
  <2> QED
    BY <1>6, <2>2, OnePurgeMoves
<1> QED
  BY <1>2, <1>3, <1>4, <1>5, <1>6

(***************************************************************************)
(* The tables of a purge                                                   *)
(***************************************************************************)

LEMMA RowsAreFinite == IsFiniteSet(FirstRows)
<1>1. ASSUME NEW S, IsFiniteSet(S), NEW x PROVE IsFiniteSet(S \cup {x})
  BY <1>1, FS_AddElement
<1>2. IsFiniteSet({})
  BY FS_EmptySet
<1>3. ASSUME NEW a, NEW b, NEW x, NEW d PROVE IsFiniteSet({a, b, x, d})
  <2>1. IsFiniteSet({} \cup {a})
    BY <1>1, <1>2
  <2>2. IsFiniteSet(({} \cup {a}) \cup {b})
    BY <1>1, <2>1
  <2>3. IsFiniteSet((({} \cup {a}) \cup {b}) \cup {x})
    BY <1>1, <2>2
  <2>4. IsFiniteSet(((({} \cup {a}) \cup {b}) \cup {x}) \cup {d})
    BY <1>1, <2>3
  <2>5. {a, b, x, d} = ((({} \cup {a}) \cup {b}) \cup {x}) \cup {d}
    OBVIOUS
  <2> QED
    BY <2>4, <2>5
<1>4. ASSUME NEW S, IsFiniteSet(S), NEW T, IsFiniteSet(T) PROVE IsFiniteSet(S \cup T)
  BY <1>4, FS_Union
<1>5. ASSUME NEW a1, NEW a2, NEW a3, NEW a4, NEW a5, NEW a6, NEW a7, NEW a8, NEW a9
      PROVE  IsFiniteSet({a1, a2, a3, a4, a5, a6, a7, a8, a9})
  <2>1. IsFiniteSet({a1, a2, a3, a4}) /\ IsFiniteSet({a5, a6, a7, a8})
    BY <1>3
  <2>2. IsFiniteSet({a1, a2, a3, a4} \cup {a5, a6, a7, a8})
    BY <1>4, <2>1
  <2>3. IsFiniteSet(({a1, a2, a3, a4} \cup {a5, a6, a7, a8}) \cup {a9})
    BY <1>1, <2>2
  <2>4. {a1, a2, a3, a4, a5, a6, a7, a8, a9}
           = ({a1, a2, a3, a4} \cup {a5, a6, a7, a8}) \cup {a9}
    OBVIOUS
  <2> QED
    BY <2>3, <2>4
<1> QED
  BY <1>5 DEF FirstRows

(* A table that is swept, and the rows that are picked from one.            *)
LEMMA SweepsKeep ==
    ASSUME PurgesKept, NEW c \in PurgeCalls,
           PurgeTableData(c) \/ PickOldest(c) \/ DeletePicked(c) \/ TableRefused(c)
    PROVE  PurgesKept'
<1> DEFINE p == purges[c]
<1>1. /\ PurgeKept(p, stored) /\ PurgeShape(p) /\ AskedKept(p) /\ PickedKept(p) /\ Whole(p)
      /\ p.dto \in PurgeDtos /\ p.cutoff \in Nat /\ p.dto.max \in Nat /\ stored \subseteq FirstRows
  BY DEF PurgesKept, PurgeKept, PurgeShape, PurgeDtos
<1>2. ASSUME PurgeTableData(c) PROVE PurgesKept'
  <2>1. PICK n : Moves(c, Deleted(c, n))
    BY <1>2 DEF PurgeTableData
  <2>2. /\ p.step = "tables" /\ p.todo # <<>> /\ UNCHANGED purgeClock
        /\ stored' = IF p.dto.dry THEN stored
                     ELSE stored \ WithTheirRows(ExpiredIn(Head(p.todo), p.cutoff))
    BY <1>2 DEF PurgeTableData, At, HeadTable
  <2>3. stored' \subseteq stored
    BY <2>2
  <2>4. ~p.dto.dry => \A row \in stored' : row.table = Head(p.todo) => row.day >= p.cutoff
    <3> SUFFICES ASSUME ~p.dto.dry, NEW row \in stored', row.table = Head(p.todo)
                 PROVE  row.day >= p.cutoff
      OBVIOUS
    <3>1. row \in stored /\ row \notin ExpiredIn(Head(p.todo), p.cutoff)
      BY <2>2 DEF WithTheirRows
    <3>2. row.day \in Nat /\ ~(row.day < p.cutoff)
      BY <1>1, <3>1, TheRows DEF ExpiredIn
    <3> QED
      BY <1>1, <3>2
  <2>5. TableDone(p, Deleted(c, n), n) /\ Deleted(c, n).refused = p.refused
    BY DeletedIsDone
  <2>6. PurgeKept(Deleted(c, n), stored')
    BY <1>1, <2>2, <2>3, <2>4, <2>5, TableOver
  <2> QED
    BY <2>1, <2>2, <2>3, <2>6, OnePurgeMoves
<1>3. ASSUME PickOldest(c) PROVE PurgesKept'
  <2>1. PICK n, oldest :
           /\ n = Smaller(p.dto.max, Cardinality(ExpiredOfIncidents(Head(p.todo), p.cutoff, p.dto.ids)))
           /\ oldest \in kSubset(n, ExpiredOfIncidents(Head(p.todo), p.cutoff, p.dto.ids))
           /\ Moves(c, IF p.dto.dry \/ n = 0 THEN Deleted(c, n) ELSE [p EXCEPT !.picked = oldest])
    BY <1>3 DEF PickOldest, HeadTable
  <2>2. /\ p.step = "tables" /\ p.todo # <<>> /\ p.dto.max # 0 /\ UNCHANGED <<stored, purgeClock>>
    BY <1>3 DEF PickOldest, At
  <2>3. CASE p.dto.dry \/ n = 0
    <3>1. TableDone(p, Deleted(c, n), n) /\ Deleted(c, n).refused = p.refused
      BY DeletedIsDone
    <3>2. PurgeKept(Deleted(c, n), stored')
      BY <1>1, <2>2, <3>1, TableOver
    <3> QED
      BY <2>1, <2>2, <2>3, <3>2, OnePurgeMoves
  <2>4. CASE ~(p.dto.dry \/ n = 0)
    <3>1. oldest \subseteq ExpiredOfIncidents(Head(p.todo), p.cutoff, p.dto.ids) /\ Cardinality(oldest) = n
      BY <2>1 DEF kSubset
    <3>2. n <= p.dto.max
      <4>1. ExpiredOfIncidents(Head(p.todo), p.cutoff, p.dto.ids) \subseteq FirstRows
        BY <1>1 DEF ExpiredOfIncidents, ExpiredIn
      <4>2. Cardinality(ExpiredOfIncidents(Head(p.todo), p.cutoff, p.dto.ids)) \in Nat
        BY <4>1, RowsAreFinite, FS_Subset, FS_CardinalityType
      <4> QED
        BY <1>1, <2>1, <4>2 DEF Smaller
    <3>3. PICK u : u = [p EXCEPT !.picked = oldest]
      OBVIOUS
    <3>4. /\ Whole(u) /\ u.step = p.step /\ u.by = p.by /\ u.dto = p.dto /\ u.cutoff = p.cutoff
          /\ u.todo = p.todo /\ u.picked = oldest /\ u.counts = p.counts /\ u.refused = p.refused
          /\ u.policies = p.policies /\ u.told = p.told /\ u.began = p.began
      BY <1>1, <3>3 DEF Whole
    <3>5. PurgeShape(u)
      BY <1>1, <3>1, <3>2, <3>4 DEF PurgeShape
    <3>6. AskedKept(u) /\ LeavesNone(u, stored')
      BY <1>1, <2>2, <3>4 DEF AskedKept, Limit, LeavesNone, PurgeKept
    <3>7. PickedKept(u)
      BY <1>1, <2>2, <2>4, <3>1, <3>4 DEF PickedKept, ExpiredOfIncidents, ExpiredIn
    <3>8. PurgeKept(u, stored')
      BY <3>5, <3>6, <3>7 DEF PurgeKept
    <3> QED
      BY <2>1, <2>2, <2>4, <3>3, <3>8, OnePurgeMoves
  <2> QED
    BY <2>3, <2>4
<1>4. ASSUME DeletePicked(c) PROVE PurgesKept'
  <2>1. PICK n : Moves(c, Deleted(c, n))
    BY <1>4 DEF DeletePicked
  <2>2. /\ p.step = "tables" /\ p.todo # <<>> /\ p.picked # {} /\ UNCHANGED purgeClock
        /\ stored' \subseteq stored
    BY <1>4 DEF DeletePicked, At
  <2>3. p.dto.max # 0
    BY <1>1, <2>2 DEF PickedKept
  <2>4. TableDone(p, Deleted(c, n), n) /\ Deleted(c, n).refused = p.refused
    BY DeletedIsDone
  <2>5. PurgeKept(Deleted(c, n), stored')
    BY <1>1, <2>2, <2>3, <2>4, TableOver
  <2> QED
    BY <2>1, <2>2, <2>5, OnePurgeMoves
<1>5. ASSUME TableRefused(c) PROVE PurgesKept'
  <2>1. /\ p.step = "tables" /\ p.todo # <<>> /\ Disturbance(0) /\ stored' = stored
        /\ Moves(c, [Deleted(c, 0) EXCEPT !.refused = @ \cup {Head(p.todo)}])
    BY <1>5 DEF TableRefused, At, HeadTable
  <2>2. TableDone(p, Deleted(c, 0), 0) /\ Deleted(c, 0).refused = p.refused
    BY DeletedIsDone
  <2>3. PICK done : done = Deleted(c, 0)
    OBVIOUS
  <2>4. PICK u : u = [done EXCEPT !.refused = p.refused \cup {Head(p.todo)}]
    OBVIOUS
  <2>5. Moves(c, u)
    BY <2>1, <2>2, <2>3, <2>4
  <2>6. TableDone(p, u, 0) /\ u.refused = p.refused \cup {Head(p.todo)}
    BY <2>2, <2>3, <2>4 DEF TableDone, Whole
  <2>7. PurgeKept(u, stored')
    BY <1>1, <2>1, <2>6, TableOver
  <2> QED
    BY <2>1, <2>5, <2>7, OnePurgeMoves
<1> QED
  BY <1>2, <1>3, <1>4, <1>5

(* A purge that comes to its tables, and one of the policies that leaves    *)
(* them.                                                                    *)
LEMMA TurnsKeep ==
    ASSUME PurgesKept, NEW c \in PurgeCalls,
           \/ TakeDefaultPolicy(c) \/ CreateDefaultPolicy(c)
           \/ ExecutePolicyPurge(c) \/ FinishPolicyPurge(c)
    PROVE  PurgesKept' /\ stored' = stored
<1> DEFINE p == purges[c]
<1>1. /\ PurgeKept(p, stored) /\ PurgeShape(p) /\ AskedKept(p) /\ PickedKept(p) /\ Whole(p)
      /\ p.dto \in PurgeDtos /\ p.cutoff \in Nat /\ purgeClock.today \in Nat
  BY DEF PurgesKept, PurgeKept, PurgeShape
<1>2. ASSUME TakeDefaultPolicy(c) \/ CreateDefaultPolicy(c) PROVE PurgesKept' /\ stored' = stored
  <2>1. /\ p.step \in {"policy", "creating"} /\ stored' = stored
        /\ \/ UNCHANGED purgeClock \/ Disturbance(0)
           \/ purgeClock' = Later(0, 0, 1) \/ purgeClock' = Later(0, 1, 1)
        /\ \/ \E id : Moves(c, WithPolicy(p, id))
           \/ Moves(c, [p EXCEPT !.step = "creating"])
           \/ Moves(c, WithoutPolicy(p))
    BY <1>2 DEF TakeDefaultPolicy, CreateDefaultPolicy
  <2>a. UNCHANGED purgeClock \/ Disturbance(0) \/ purgeClock'.today = purgeClock.today
    BY <1>1, <2>1 DEF Later
  <2>6. p.counts = <<>> /\ DOMAIN <<>> = {} /\ p.by = "operator" /\ p.picked = {} /\ p.told = "nothing"
    BY <1>1, <2>1 DEF AskedKept, PickedKept, PurgeShape
  <2>b. ASSUME NEW id, Moves(c, WithPolicy(p, id)) PROVE PurgesKept'
    <3>2. PICK todo \in Seq(Swept) : todo = GetTablesForPurgeScope(p.dto) /\ NoTwice(todo)
      BY <1>1, TheScope
    <3>3. PICK u : u = [p EXCEPT !.step = "tables", !.todo = todo, !.policy = id]
      OBVIOUS
    <3>4. Moves(c, u)
      BY <2>b, <3>2, <3>3 DEF WithPolicy
    <3>5. /\ Whole(u) /\ u.step = "tables" /\ u.by = p.by /\ u.dto = p.dto /\ u.cutoff = p.cutoff
          /\ u.todo = todo /\ u.picked = p.picked /\ u.counts = p.counts /\ u.refused = p.refused
          /\ u.policies = p.policies /\ u.told = p.told /\ u.began = p.began
      BY <1>1, <3>3 DEF Whole
    <3>7. PurgeShape(u)
      BY <1>1, <2>1, <2>6, <3>2, <3>5 DEF PurgeShape
    <3>8. AskedKept(u)
      BY <1>1, <2>1, <2>6, <3>2, <3>5 DEF AskedKept, Limit
    <3>9. PickedKept(u) /\ LeavesNone(u, stored')
      BY <2>6, <3>5 DEF PickedKept, LeavesNone
    <3>10. PurgeKept(u, stored')
      BY <3>7, <3>8, <3>9 DEF PurgeKept
    <3> QED
      BY <2>1, <2>a, <3>4, <3>10, OnePurgeMoves
  <2>c. ASSUME NEW step \in {"creating", "over"}, NEW told, told # "nothing" <=> step = "over",
               Moves(c, [p EXCEPT !.step = step, !.told = told])
        PROVE  PurgesKept'
    <3>3. PICK u : u = [p EXCEPT !.step = step, !.told = told]
      OBVIOUS
    <3>5. /\ Whole(u) /\ u.step = step /\ u.by = p.by /\ u.dto = p.dto /\ u.cutoff = p.cutoff
          /\ u.todo = p.todo /\ u.picked = p.picked /\ u.counts = p.counts /\ u.refused = p.refused
          /\ u.policies = p.policies /\ u.told = told /\ u.began = p.began
      BY <1>1, <3>3 DEF Whole
    <3>7. PurgeShape(u)
      BY <1>1, <2>1, <2>6, <2>c, <3>5 DEF PurgeShape
    <3>8. AskedKept(u)
      BY <1>1, <2>1, <2>6, <3>5 DEF AskedKept, Limit
    <3>9. PickedKept(u) /\ LeavesNone(u, stored')
      BY <2>6, <3>5 DEF PickedKept, LeavesNone
    <3>10. PurgeKept(u, stored')
      BY <3>7, <3>8, <3>9 DEF PurgeKept
    <3> QED
      BY <2>1, <2>a, <2>c, <3>3, <3>10, OnePurgeMoves
  <2>d. CASE Moves(c, [p EXCEPT !.step = "creating"])
    <3>1. [p EXCEPT !.step = "creating"] = [p EXCEPT !.step = "creating", !.told = "nothing"]
      BY <1>1, <2>6 DEF Whole
    <3> QED
      BY <2>1, <2>c, <2>d, <3>1
  <2>e. CASE Moves(c, WithoutPolicy(p))
    BY <2>1, <2>c, <2>e DEF WithoutPolicy
  <2> QED
    BY <2>1, <2>b, <2>d, <2>e
<1>3. ASSUME ExecutePolicyPurge(c) PROVE PurgesKept' /\ stored' = stored
  <2>1. p.step = "policies" /\ UNCHANGED <<stored, purgeClock>>
    BY <1>3 DEF ExecutePolicyPurge
  <2>a. PICK policy \in p.policies :
           Moves(c, [p EXCEPT
              !.step = "tables", !.policies = p.policies \ {policy},
              !.dto = [Dto EXCEPT !.days = policy.days, !.user = "none"],
              !.cutoff = CutoffOf([Dto EXCEPT !.days = policy.days, !.user = "none"]),
              !.began = purgeClock.today, !.counts = <<>>, !.refused = {},
              !.todo = GetTablesForPolicy(policy.appliesTo)])
    BY <1>3 DEF ExecutePolicyPurge
  <2>b. PICK dto : dto = [Dto EXCEPT !.days = policy.days, !.user = "none"]
    OBVIOUS
  <2>2. Moves(c, [p EXCEPT
                    !.step = "tables", !.policies = p.policies \ {policy}, !.dto = dto,
                    !.cutoff = CutoffOf(dto), !.began = purgeClock.today, !.counts = <<>>, !.refused = {},
                    !.todo = GetTablesForPolicy(policy.appliesTo)])
    BY <2>a, <2>b
  <2>3. dto \in PurgeDtos /\ dto.table = "" /\ dto.scope = "all" /\ dto.max = 0
    <3>1. policy.days \in Nat
      BY <1>1, <2>a DEF PurgeShape
    <3> QED
      BY <2>b, <3>1 DEF Dto, PurgeDtos
  <2>4. PICK cutoff \in Nat : /\ cutoff = CutoffOf(dto)
                              /\ \A q : q.dto = dto /\ q.began = purgeClock.today =>
                                    cutoff = IF Limit(q) > 0 THEN Limit(q) ELSE 0
    BY <2>3, TheCutoff
  <2>5. PICK todo \in Seq(Swept) : /\ todo = GetTablesForPolicy(policy.appliesTo) /\ NoTwice(todo)
                                   /\ ToSet(todo) \subseteq Tables \ {"audit_events"}
    <3>1. /\ <<"evidence">> \in Seq(Swept) /\ NoTwice(<<"evidence">>)
          /\ ToSet(<<"evidence">>) \subseteq Tables \ {"audit_events"}
      BY DEF Swept, Tables, NoTwice, ToSet
    <3>2. /\ <<"incidents", "incident_events", "evidence">> \in Seq(Swept)
          /\ NoTwice(<<"incidents", "incident_events", "evidence">>)
          /\ ToSet(<<"incidents", "incident_events", "evidence">>) \subseteq Tables \ {"audit_events"}
      BY DEF Swept, Tables, NoTwice, ToSet
    <3> QED
      BY <3>1, <3>2 DEF GetTablesForPolicy
  <2>6. PICK plans : plans = p.policies \ {policy}
    OBVIOUS
  <2>7. PICK u : u = [p EXCEPT !.step = "tables", !.policies = plans, !.dto = dto, !.cutoff = cutoff,
                               !.began = purgeClock.today, !.counts = <<>>, !.refused = {},
                               !.todo = todo]
    OBVIOUS
  <2>8. Moves(c, u)
    BY <2>2, <2>4, <2>5, <2>6, <2>7
  <2>9. /\ Whole(u) /\ u.step = "tables" /\ u.by = p.by /\ u.dto = dto /\ u.cutoff = cutoff
        /\ u.todo = todo /\ u.picked = p.picked /\ u.counts = <<>> /\ u.refused = {}
        /\ u.policies = plans /\ u.told = p.told /\ u.began = purgeClock.today
    BY <1>1, <2>7 DEF Whole
  <2>10. DOMAIN <<>> = {} /\ p.picked = {}
    BY <1>1, <2>1 DEF PickedKept
  <2>11. Cardinality({}) = 0
    BY FS_EmptySet
  <2>12. PurgeShape(u)
    <3>1. Cardinality(u.picked) <= u.dto.max
      <4>1. u.picked = {}
        BY <2>9, <2>10
      <4>2. Cardinality(u.picked) = 0
        BY <4>1, <2>11
      <4>3. u.dto.max = 0
        BY <2>3, <2>9
      <4> QED
        BY <4>2, <4>3
    <3>2. ToSet(u.todo) \cap DOMAIN u.counts = {} /\ DOMAIN u.counts \subseteq Swept
      BY <2>9, <2>10
    <3>3. \A plan \in u.policies : plan.days \in Nat
      BY <1>1, <2>6, <2>9 DEF PurgeShape
    <3>4. u.step = "over" <=> u.told # "nothing"
      BY <1>1, <2>1, <2>9 DEF PurgeShape
    <3>5. u.dto \in PurgeDtos /\ u.todo \in Seq(Swept) /\ NoTwice(u.todo) /\ u.by \in {"operator", "policies"}
      BY <1>1, <2>3, <2>5, <2>9 DEF PurgeShape
    <3> QED
      BY <1>1, <2>9, <3>1, <3>2, <3>3, <3>4, <3>5 DEF PurgeShape
  <2>13. AskedKept(u)
    <3>1. ToSet(todo) \subseteq ToSet(GetTablesForPurgeScope(dto))
      BY <2>3, <2>5, TheScope, TheTables
    <3>2. cutoff = IF Limit(u) > 0 THEN Limit(u) ELSE 0
      BY <2>4, <2>9
    <3> QED
      BY <2>3, <2>5, <2>9, <2>10, <3>1, <3>2 DEF AskedKept
  <2>14. PickedKept(u) /\ LeavesNone(u, stored')
    BY <2>9, <2>10 DEF PickedKept, LeavesNone
  <2>15. PurgeKept(u, stored')
    BY <2>12, <2>13, <2>14 DEF PurgeKept
  <2> QED
    BY <2>1, <2>8, <2>15, OnePurgeMoves
<1>4. ASSUME FinishPolicyPurge(c) PROVE PurgesKept' /\ stored' = stored
  <2>1. PICK total : Moves(c, [p EXCEPT !.step = "policies", !.total = total])
    BY <1>4 DEF FinishPolicyPurge
  <2>2. p.step = "tables" /\ p.todo = <<>> /\ UNCHANGED <<stored, purgeClock>>
    BY <1>4 DEF FinishPolicyPurge
  <2>3. PICK u : u = [p EXCEPT !.step = "policies", !.total = total]
    OBVIOUS
  <2>4. /\ Whole(u) /\ u.step = "policies" /\ u.by = p.by /\ u.dto = p.dto /\ u.cutoff = p.cutoff
        /\ u.todo = p.todo /\ u.picked = p.picked /\ u.counts = p.counts /\ u.refused = p.refused
        /\ u.policies = p.policies /\ u.told = p.told /\ u.began = p.began
    BY <1>1, <2>3 DEF Whole
  <2>5. p.picked = {}
    BY <1>1, <2>2 DEF PickedKept
  <2>6. PurgeShape(u)
    BY <1>1, <2>2, <2>4 DEF PurgeShape
  <2>7. AskedKept(u) /\ PickedKept(u) /\ LeavesNone(u, stored')
    BY <2>4, <2>5 DEF AskedKept, PickedKept, LeavesNone
  <2>8. PurgeKept(u, stored')
    BY <2>6, <2>7 DEF PurgeKept
  <2> QED
    BY <2>1, <2>2, <2>3, <2>8, OnePurgeMoves
<1> QED
  BY <1>2, <1>3, <1>4

(***************************************************************************)
(* The deletions                                                           *)
(***************************************************************************)

(* Some purge under way was asked to delete the row, or an incident of the  *)
(* row's.                                                                   *)
Accounted(row) ==
    \E c \in PurgeCalls :
        \/ AskedToDelete(purges[c], row)
        \/ /\ row.of # 0
           /\ \E i \in stored : i.table = "incidents" /\ i.of = row.of
                                /\ AskedToDelete(purges[c], i)

LEMMA SweepsAreAsked ==
    ASSUME PurgesKept, NEW c \in PurgeCalls, PurgeTableData(c) \/ DeletePicked(c)
    PROVE  \A row \in stored \ stored' : Accounted(row)
<1> DEFINE p == purges[c]
<1>1. /\ PurgeShape(p) /\ AskedKept(p) /\ PickedKept(p) /\ p.cutoff \in Nat
      /\ stored \subseteq FirstRows
  BY DEF PurgesKept, PurgeKept, PurgeShape
<1>2. p.step = "tables" /\ p.todo # <<>>
  BY DEF PurgeTableData, DeletePicked, At
<1>3. Head(p.todo) \in ToSet(p.todo)
  BY <1>1, <1>2, HeadAndTail DEF PurgeShape
<1>4. PICK rows : /\ stored \ stored' \subseteq WithTheirRows(rows) /\ rows \subseteq stored
                  /\ ~p.dto.dry \/ stored \ stored' = {}
                  /\ \A row \in rows : /\ row.table = Head(p.todo) /\ row.day < p.cutoff
                                        /\ \/ p.dto.max = 0 \/ p.dto.ids = {}
                                           \/ row.table = "audit_events" \/ row.of \in p.dto.ids
  <2>1. CASE PurgeTableData(c)
    <3>1. PICK rows : rows = ExpiredIn(Head(p.todo), p.cutoff)
      OBVIOUS
    <3>2. /\ p.dto.max = 0
          /\ stored' = IF p.dto.dry THEN stored ELSE stored \ WithTheirRows(rows)
      BY <2>1, <3>1 DEF PurgeTableData, HeadTable
    <3>3. /\ rows \subseteq stored
          /\ \A row \in rows : row.table = Head(p.todo) /\ row.day < p.cutoff
      BY <3>1 DEF ExpiredIn
    <3>4. stored \ stored' \subseteq WithTheirRows(rows) /\ (~p.dto.dry \/ stored \ stored' = {})
      BY <3>2
    <3> QED
      BY <3>2, <3>3, <3>4
  <2>2. CASE DeletePicked(c)
    <3>1. p.picked # {} /\ stored' = stored \ WithTheirRows(p.picked \cap stored)
      BY <2>2 DEF DeletePicked
    <3> QED
      BY <1>1, <3>1 DEF PickedKept
  <2> QED
    BY <2>1, <2>2
<1>5. ASSUME NEW row \in rows, rows \subseteq stored, ~p.dto.dry PROVE AskedToDelete(p, row)
  <2>1. row.table = Head(p.todo) /\ row.day < p.cutoff /\ row.day \in Nat
    BY <1>1, <1>4, <1>5, TheRows
  <2>2. p.cutoff = Limit(p)
    BY <1>1, <1>2, <2>1 DEF AskedKept
  <2>3. row.day < IF p.dto.cutoff # 0 THEN p.dto.cutoff ELSE p.began - p.dto.days
    BY <2>1, <2>2 DEF Limit
  <2>4. row.table \in ToSet(GetTablesForPurgeScope(p.dto)) /\ (p.by = "policies" => row.table # "audit_events")
    BY <1>1, <1>2, <1>3, <2>1 DEF AskedKept
  <2> QED
    BY <1>2, <1>4, <1>5, <2>3, <2>4 DEF AskedToDelete
<1>6. ASSUME NEW row \in stored \ stored' PROVE Accounted(row)
  <2>1. row \in WithTheirRows(rows) /\ rows \subseteq stored /\ ~p.dto.dry
    BY <1>4, <1>6
  <2>2. CASE row \in rows
    BY <1>5, <2>1, <2>2 DEF Accounted
  <2>3. CASE row.of # 0 /\ \E i \in rows : i.table = "incidents" /\ i.of = row.of
    BY <1>5, <2>1, <2>3 DEF Accounted
  <2> QED
    BY <2>1, <2>2, <2>3 DEF WithTheirRows
<1> QED
  BY <1>6

(***************************************************************************)
(* The policies                                                            *)
(***************************************************************************)

LEMMA ThePolicy ==
    ASSUME PoliciesKept, NEW fields, fields.days \in 1..7
    PROVE  /\ PolicyRow(NewPolicy(fields)) /\ NewPolicy(fields).name = fields.name
           /\ NewPolicy(fields).id = purgeClock.created + 1
           /\ \A policy \in policies : policy.id <= NewPolicy(fields).id /\ policy.id # NewPolicy(fields).id
<1>1. purgeClock.created \in Nat /\ \A policy \in policies : policy.id \in Nat /\ policy.id <= purgeClock.created
  BY DEF PoliciesKept, PolicyRow
<1>5. PICK id \in Nat : id = purgeClock.created + 1
  BY <1>1
<1>6. PICK u : u = [id |-> id, name |-> fields.name, days |-> fields.days,
                    appliesTo |-> fields.appliesTo, active |-> fields.active]
  OBVIOUS
<1>7. u = NewPolicy(fields)
  BY <1>5, <1>6 DEF NewPolicy
<1>8. PolicyRow(u) /\ u.name = fields.name /\ u.id = id
  BY <1>6 DEF PolicyRow
<1>9. \A policy \in policies : policy.id <= id /\ policy.id # id
  BY <1>1, <1>5
<1> QED
  BY <1>5, <1>7, <1>8, <1>9

(* A policy of a new name, in the place of none.                            *)
LEMMA PolicyAdded ==
    ASSUME PoliciesKept, NEW fields, fields.days \in 1..7, Named(fields.name) = {},
           policies' = policies \cup {NewPolicy(fields)}, UNCHANGED purgeAudits,
           purgeClock' = Later(0, 0, 1) \/ purgeClock' = Later(0, 1, 1)
    PROVE  PoliciesKept'
<1>1. PICK u : u = NewPolicy(fields)
  OBVIOUS
<1>2. /\ PolicyRow(u) /\ u.name = fields.name /\ u.id \in Nat /\ u.id = purgeClock.created + 1
      /\ \A policy \in policies : policy.id <= u.id /\ policy.id # u.id /\ policy.name # u.name
  BY <1>1, ThePolicy DEF Named, PolicyRow
<1>3. policies' = policies \cup {u}
  BY <1>1
<1>4. purgeClock'.created \in Nat /\ \A policy \in policies' : policy.id <= purgeClock'.created
  <2>1. \A policy \in policies' : policy.id <= u.id
    BY <1>2, <1>3
  <2>2. purgeClock'.created = u.id
    BY <1>2 DEF Later
  <2> QED
    BY <1>2, <2>1, <2>2
<1>5. \A policy \in policies' : PolicyRow(policy)
  BY <1>2, <1>3 DEF PoliciesKept
<1>6. ASSUME NEW p \in policies', NEW q \in policies', p.name = q.name \/ p.id = q.id PROVE p = q
  BY <1>2, <1>3, <1>6 DEF PoliciesKept
<1> QED
  BY <1>3, <1>4, <1>5, <1>6 DEF PoliciesKept

(* Nothing was created.                                                     *)
LEMMA NoneCreated ==
    ASSUME PoliciesKept, UNCHANGED purgeClock \/ \E days \in {0, 1} : Disturbance(days)
    PROVE  purgeClock'.created = purgeClock.created
<1>1. purgeClock.created \in Nat
  BY DEF PoliciesKept
<1>2. ASSUME NEW days \in {0, 1}, Disturbance(days) PROVE purgeClock'.created = purgeClock.created
  BY <1>1, <1>2 DEF Disturbance, Later
<1> QED
  BY <1>2

(* One policy changes, but for its id and its name.                         *)
LEMMA PolicyChanged ==
    ASSUME PoliciesKept, NEW policy \in policies, NEW u, PolicyRow(u), u.id = policy.id,
           u.name = policy.name, policies' = (policies \ {policy}) \cup {u}, UNCHANGED purgeAudits,
           Disturbance(0)
    PROVE  PoliciesKept'
<1>1. \A p \in policies' : PolicyRow(p) /\ \E was \in policies : was.id = p.id
  BY DEF PoliciesKept
<1>2. purgeClock'.created \in Nat /\ \A p \in policies' : p.id <= purgeClock'.created
  BY <1>1, NoneCreated DEF PoliciesKept
<1>3. ASSUME NEW p \in policies', NEW q \in policies', p.name = q.name \/ p.id = q.id PROVE p = q
  BY <1>3 DEF PoliciesKept
<1>4. ASSUME NEW audit \in purgeAudits'
      PROVE  audit.table \in Tables /\ \E p \in policies' : p.id = audit.policy
  BY <1>4 DEF PoliciesKept
<1> QED
  BY <1>1, <1>2, <1>3, <1>4 DEF PoliciesKept

LEMMA PolicyStepsKeep ==
    ASSUME PurgeInv, CreateRetentionPolicy \/ UpdateRetentionPolicy \/ DeleteRetentionPolicy
    PROVE  PoliciesKept'
<1>1. PoliciesKept
  BY DEF PurgeInv
<1>2. ASSUME NEW fields \in PolicyFields, ValidateRetentionDays(fields.days), Named(fields.name) = {},
             policies' = policies \cup {NewPolicy(fields)}, UNCHANGED purgeAudits,
             purgeClock' = Later(0, 1, 1)
      PROVE  PoliciesKept'
  <2>1. fields.days \in 1..7
    BY <1>2 DEF ValidateRetentionDays
  <2> QED
    BY <1>1, <1>2, <2>1, PolicyAdded
<1>3. ASSUME NEW policy \in policies, NEW days \in {1, 8}, ValidateRetentionDays(days),
             PolicyChanges((policies \ {policy}) \cup {[policy EXCEPT !.days = days]})
      PROVE  PoliciesKept'
  <2>1. PICK u : u = [policy EXCEPT !.days = days]
    OBVIOUS
  <2>2. PolicyRow(u) /\ u.id = policy.id /\ u.name = policy.name
    BY <1>1, <1>3, <2>1 DEF PoliciesKept, PolicyRow, ValidateRetentionDays
  <2>3. UNCHANGED purgeAudits /\ policies' = (policies \ {policy}) \cup {u} /\ Disturbance(0)
    BY <1>3, <2>1 DEF PolicyChanges
  <2> QED
    BY <1>1, <2>2, <2>3, PolicyChanged
<1>4. ASSUME NEW policy \in policies,
             PolicyChanges((policies \ {policy}) \cup {[policy EXCEPT !.active = FALSE]})
      PROVE  PoliciesKept'
  <2>0. PICK inactive : inactive = FALSE
    OBVIOUS
  <2>a. PICK u : u = [policy EXCEPT !.active = inactive]
    OBVIOUS
  <2>1. u = [policy EXCEPT !.active = FALSE]
    BY <2>0, <2>a
  <2>2. PolicyRow(u) /\ u.id = policy.id /\ u.name = policy.name
    BY <1>1, <2>a DEF PoliciesKept, PolicyRow
  <2>3. UNCHANGED purgeAudits /\ policies' = (policies \ {policy}) \cup {u} /\ Disturbance(0)
    BY <1>4, <2>1 DEF PolicyChanges
  <2> QED
    BY <1>1, <2>2, <2>3, PolicyChanged
<1>5. ASSUME NEW policy \in policies, \A audit \in purgeAudits : audit.policy # policy.id,
             PolicyChanges(policies \ {policy})
      PROVE  PoliciesKept'
  <2>1. UNCHANGED purgeAudits /\ policies' = policies \ {policy} /\ Disturbance(0)
    BY <1>5 DEF PolicyChanges
  <2>2. purgeClock'.created = purgeClock.created
    BY <1>1, <2>1, NoneCreated
  <2> QED
    BY <1>1, <1>5, <2>1, <2>2 DEF PoliciesKept
<1> QED
  BY <1>2, <1>3, <1>4, <1>5 DEF CreateRetentionPolicy, UpdateRetentionPolicy, DeleteRetentionPolicy

LEMMA UnchangedPolicies ==
    ASSUME PurgeInv, UNCHANGED <<policies, purgeAudits>>,
           UNCHANGED purgeClock \/ \E days \in {0, 1} : Disturbance(days)
    PROVE  PoliciesKept'
<1>1. PoliciesKept /\ purgeClock'.created = purgeClock.created
  BY NoneCreated DEF PurgeInv
<1> QED
  BY <1>1 DEF PoliciesKept

(* A record is of a policy that is there, and of a table that was swept.    *)
LEMMA PurgesKeepPolicies ==
    ASSUME PurgeInv, NEW c \in PurgeCalls,
           TakeDefaultPolicy(c) \/ CreateDefaultPolicy(c) \/ FinishManualPurge(c)
    PROVE  PoliciesKept'
<1>1. PoliciesKept
  BY DEF PurgeInv
<1>2. CASE TakeDefaultPolicy(c)
  <2>1. UNCHANGED <<policies, purgeAudits>> /\ (UNCHANGED purgeClock \/ Disturbance(0))
    BY <1>2 DEF TakeDefaultPolicy
  <2> QED
    BY <2>1, UnchangedPolicies
<1>3. CASE CreateDefaultPolicy(c)
  <2>1. CASE UNCHANGED policies /\ (UNCHANGED purgeClock \/ Disturbance(0))
    <3>1. UNCHANGED <<policies, purgeAudits>>
      BY <1>3, <2>1 DEF CreateDefaultPolicy
    <3> QED
      BY <2>1, <3>1, UnchangedPolicies
  <2>2. CASE /\ Named("default-retention") = {} /\ policies' = policies \cup {NewPolicy(DefaultPolicy)}
             /\ purgeClock' = Later(0, 0, 1) \/ purgeClock' = Later(0, 1, 1)
    <3>1. PICK fields : fields = DefaultPolicy
      OBVIOUS
    <3>2. fields.days \in 1..7 /\ fields.name = "default-retention"
      BY <3>1 DEF DefaultPolicy
    <3>3. UNCHANGED purgeAudits
      BY <1>3 DEF CreateDefaultPolicy
    <3> QED
      BY <1>1, <2>2, <3>1, <3>2, <3>3, PolicyAdded
  <2> QED
    BY <1>3, <2>1, <2>2 DEF CreateDefaultPolicy
<1>4. CASE FinishManualPurge(c)
  <2> DEFINE p == purges[c]
  <2>1. PICK n \in 0..Len(GetTablesForPurgeScope(p.dto)) :
           /\ p.step = "tables" /\ UNCHANGED policies
           /\ purgeAudits' = purgeAudits \cup PurgeAudited(p, n)
           /\ UNCHANGED purgeClock \/ Disturbance(0)
    BY <1>4 DEF FinishManualPurge
  <2>2. p.dto.table # "purge_audit" /\ p.dto \in PurgeDtos
    BY <2>1 DEF PurgeInv, PurgesKept, PurgeKept, AskedKept, PurgeShape
  <2>a. PICK tables \in Seq(Swept) : tables = GetTablesForPurgeScope(p.dto) /\ ToSet(tables) \subseteq Tables
    BY <2>2, TheScope
  <2>3. ASSUME NEW audit \in PurgeAudited(p, n)
        PROVE  audit.table \in Tables /\ \E policy \in policies : policy.id = audit.policy
    <3>1. PICK i \in 1..n : audit.policy = p.policy /\ audit.table = tables[i]
      BY <2>3, <2>a DEF PurgeAudited
    <3>2. \E policy \in policies : policy.id = p.policy
      BY <2>3 DEF PurgeAudited
    <3>3. i \in DOMAIN tables
      BY <2>1, <2>a
    <3>4. tables[i] \in Tables
      BY <2>a, <3>3 DEF ToSet
    <3> QED
      BY <3>1, <3>2, <3>4
  <2>4. purgeClock'.created = purgeClock.created
    BY <1>1, <2>1, NoneCreated
  <2> QED
    BY <1>1, <2>1, <2>3, <2>4 DEF PoliciesKept
<1> QED
  BY <1>2, <1>3, <1>4

(***************************************************************************)
(* The purges, as the operators begin them                                 *)
(***************************************************************************)

(* The clock at the beginning: the last id is that of a policy, or above.   *)
ClockSet ==
    \E n \in Int, last \in Nat :
        /\ purgeClock = [today |-> FirstDay, disturbances |-> n, created |-> last]
        /\ \A policy \in policies : policy.id <= last

LEMMA PurgeInitially ==
    ASSUME PurgeInit, ClockSet
    PROVE  PurgeInv
<1>1. /\ purgeClock.today \in Nat /\ purgeClock.today >= FirstDay
      /\ purgeClock.created \in Nat /\ \A policy \in policies : policy.id <= purgeClock.created
  BY DEF FirstDay, ClockSet
<1>2. PurgeKept(NoPurge, stored)
  <2>1. PICK none : Unbegun(none)
    BY NothingBegun
  <2>2. /\ Whole(NoPurge) /\ NoPurge.step = "idle" /\ NoPurge.by = "operator" /\ NoPurge.dto = Dto
        /\ NoPurge.cutoff = 0 /\ NoPurge.todo = <<>> /\ NoPurge.picked = {} /\ NoPurge.policies = {}
        /\ NoPurge.counts = <<>> /\ NoPurge.told = "nothing" /\ NoPurge.began = 0
    BY <2>1 DEF Unbegun, Whole
  <2>3. Fresh(NoPurge)
    BY <2>2, TheRequests DEF Fresh
  <2> QED
    BY <2>3, FreshKept
<1>3. PurgesKept
  <2>1. stored \subseteq FirstRows /\ purges = [c \in PurgeCalls |-> NoPurge]
    BY DEF PurgeInit
  <2> QED
    BY <1>1, <1>2, <2>1 DEF PurgesKept
<1>4. PoliciesKept
  <2> DEFINE first == [id |-> 1, name |-> "default-retention", days |-> 3, appliesTo |-> "all",
                       active |-> TRUE]
             second == [id |-> 2, name |-> "short", days |-> 1, appliesTo |-> "evidence",
                        active |-> TRUE]
  <2>1. PolicyRow(first) /\ first.id = 1 /\ first.name = "default-retention"
    BY DEF PolicyRow
  <2>2. PolicyRow(second) /\ second.id = 2 /\ second.name = "short"
    BY DEF PolicyRow
  <2>3. (policies = {} \/ policies = {first, second}) /\ purgeAudits = {}
    BY DEF PurgeInit
  <2> HIDE DEF first, second
  <2> QED
    BY <1>1, <2>1, <2>2, <2>3 DEF PoliciesKept
<1> QED
  BY <1>3, <1>4 DEF PurgeInv

LEMMA PurgeStepKeeps ==
    ASSUME PurgeInv, NEW c \in PurgeCalls, PurgeStep(c)
    PROVE  PurgeInv' /\ \A row \in stored \ stored' : Accounted(row)
<1>1. PurgesKept /\ PoliciesKept
  BY DEF PurgeInv
<1>2. CASE CountTable(c) \/ EstimateTable(c) \/ TellEstimate(c)
  <2>1. UNCHANGED <<policies, purgeAudits>> /\ (UNCHANGED purgeClock \/ Disturbance(0))
    BY <1>2 DEF CountTable, EstimateTable, TellEstimate
  <2> QED
    BY <1>1, <1>2, <2>1, EstimatesKeep, UnchangedPolicies DEF PurgeInv
<1>3. CASE TakeDefaultPolicy(c) \/ CreateDefaultPolicy(c)
  BY <1>1, <1>3, TurnsKeep, PurgesKeepPolicies DEF PurgeInv
<1>4. CASE PurgeTableData(c) \/ DeletePicked(c)
  <2>1. UNCHANGED <<policies, purgeAudits>> /\ (UNCHANGED purgeClock \/ Disturbance(0))
    BY <1>4 DEF PurgeTableData, DeletePicked
  <2> QED
    BY <1>1, <1>4, <2>1, SweepsKeep, SweepsAreAsked, UnchangedPolicies DEF PurgeInv
<1>5. CASE PickOldest(c) \/ TableRefused(c)
  <2>1. stored' = stored /\ UNCHANGED <<policies, purgeAudits>> /\ (UNCHANGED purgeClock \/ Disturbance(0))
    BY <1>5 DEF PickOldest, TableRefused
  <2> QED
    BY <1>1, <1>5, <2>1, SweepsKeep, UnchangedPolicies DEF PurgeInv
<1>6. CASE FinishManualPurge(c)
  BY <1>1, <1>6, BeginningsKeep, PurgesKeepPolicies DEF PurgeInv
<1>7. CASE ExecutePolicyPurge(c) \/ FinishPolicyPurge(c)
  <2>1. UNCHANGED <<policies, purgeAudits>> /\ (UNCHANGED purgeClock \/ Disturbance(0))
    BY <1>7 DEF ExecutePolicyPurge, FinishPolicyPurge
  <2> QED
    BY <1>1, <1>7, <2>1, TurnsKeep, UnchangedPolicies DEF PurgeInv
<1>8. CASE FinishAutomaticPurge(c)
  <2>1. UNCHANGED <<policies, purgeAudits>> /\ (UNCHANGED purgeClock \/ Disturbance(0))
    BY <1>8 DEF FinishAutomaticPurge
  <2> QED
    BY <1>1, <1>8, <2>1, BeginningsKeep, UnchangedPolicies DEF PurgeInv
<1> QED
  BY <1>2, <1>3, <1>4, <1>5, <1>6, <1>7, <1>8 DEF PurgeStep

(* Whoever begins a purge, and whoever waited for it.                       *)
LEMMA PurgeBeginKeeps ==
    ASSUME PurgeInv, NEW c \in PurgeCalls,
           \/ \E dto \in PurgeDtos : BeginEstimate(c, dto) \/ BeginManualPurge(c, dto)
           \/ BeginAutomaticPurge(c)
           \/ /\ Moves(c, NoPurge) /\ UNCHANGED <<stored, policies, purgeAudits>>
              /\ UNCHANGED purgeClock \/ Disturbance(0)
    PROVE  PurgeInv' /\ stored' = stored
<1>1. PurgesKept /\ PoliciesKept
  BY DEF PurgeInv
<1>2. CASE \E dto \in PurgeDtos : BeginEstimate(c, dto)
  <2>1. UNCHANGED <<policies, purgeAudits>> /\ (UNCHANGED purgeClock \/ Disturbance(0))
    BY <1>2 DEF BeginEstimate
  <2> QED
    BY <1>1, <1>2, <2>1, EstimatesKeep, UnchangedPolicies DEF PurgeInv
<1>3. CASE \E dto \in PurgeDtos : BeginManualPurge(c, dto)
  <2>1. UNCHANGED <<policies, purgeAudits>> /\ (UNCHANGED purgeClock \/ Disturbance(0))
    BY <1>3 DEF BeginManualPurge
  <2> QED
    BY <1>1, <1>3, <2>1, BeginningsKeep, UnchangedPolicies DEF PurgeInv
<1>4. CASE BeginAutomaticPurge(c)
  <2>1. UNCHANGED <<policies, purgeAudits>> /\ (UNCHANGED purgeClock \/ Disturbance(0))
    BY <1>4 DEF BeginAutomaticPurge
  <2> QED
    BY <1>1, <1>4, <2>1, BeginningsKeep, UnchangedPolicies DEF PurgeInv
<1>5. CASE /\ Moves(c, NoPurge) /\ UNCHANGED <<stored, policies, purgeAudits>>
           /\ UNCHANGED purgeClock \/ Disturbance(0)
  <2>1. stored' = stored /\ UNCHANGED <<policies, purgeAudits>>
    BY <1>5
  <2> QED
    BY <1>1, <1>5, <2>1, BeginningsKeep, UnchangedPolicies DEF PurgeInv
<1> QED
  BY <1>2, <1>3, <1>4, <1>5

LEMMA DaysKeep ==
    ASSUME PurgeInv, UNCHANGED <<stored, purges>>,
           \/ UNCHANGED purgeClock
           \/ \E days \in {0, 1} : Disturbance(days)
           \/ purgeClock'.today = purgeClock.today
    PROVE  PurgesKept' /\ stored' = stored
<1>1. PurgesKept
  BY DEF PurgeInv
<1>2. purgeClock'.today \in Nat /\ purgeClock'.today >= FirstDay
  <2>1. CASE UNCHANGED purgeClock
    BY <1>1, <2>1 DEF PurgesKept
  <2>2. ASSUME NEW days \in {0, 1}, Disturbance(days) PROVE <1>2
    <3>1. purgeClock'.today = purgeClock.today + days
      BY <2>2 DEF Disturbance, Later
    <3> QED
      BY <1>1, <3>1 DEF PurgesKept, FirstDay
  <2>3. CASE purgeClock'.today = purgeClock.today
    BY <1>1, <2>3 DEF PurgesKept
  <2> QED
    BY <2>1, <2>2, <2>3
<1> QED
  BY <1>1, <1>2 DEF PurgesKept

LEMMA BesideKeeps ==
    ASSUME PurgeInv,
           Midnight \/ CreateRetentionPolicy \/ UpdateRetentionPolicy \/ DeleteRetentionPolicy
    PROVE  PurgeInv' /\ stored' = stored
<1>1. CASE Midnight
  <2>1. UNCHANGED <<stored, purges>> /\ UNCHANGED <<policies, purgeAudits>> /\ Disturbance(1)
    BY <1>1 DEF Midnight
  <2> QED
    BY <2>1, DaysKeep, UnchangedPolicies DEF PurgeInv
<1>2. CASE CreateRetentionPolicy \/ UpdateRetentionPolicy \/ DeleteRetentionPolicy
  <2>1. UNCHANGED <<stored, purges>> /\ (Disturbance(0) \/ purgeClock' = Later(0, 1, 1))
    BY <1>2 DEF CreateRetentionPolicy, UpdateRetentionPolicy, DeleteRetentionPolicy, PolicyChanges
  <2>2. Disturbance(0) \/ purgeClock'.today = purgeClock.today
    BY <2>1 DEF Later, PurgeInv, PurgesKept
  <2> QED
    BY <1>2, <2>1, <2>2, DaysKeep, PolicyStepsKeep DEF PurgeInv
<1> QED
  BY <1>1, <1>2

PurgeScopeKept == \A row \in stored \ stored' : Accounted(row)

LEMMA PurgeNextKeeps ==
    PurgeInv /\ [PurgeNext]_purgeVars => PurgeInv' /\ PurgeScopeKept
<1> SUFFICES ASSUME PurgeInv, [PurgeNext]_purgeVars PROVE PurgeInv' /\ PurgeScopeKept
  OBVIOUS
<1>1. CASE UNCHANGED purgeVars
  <2>1. UNCHANGED <<stored, purges>> /\ UNCHANGED <<policies, purgeAudits>> /\ UNCHANGED purgeClock
    BY <1>1 DEF purgeVars
  <2> QED
    BY <2>1, DaysKeep, UnchangedPolicies DEF PurgeInv, PurgeScopeKept
<1>2. CASE Midnight \/ CreateRetentionPolicy \/ UpdateRetentionPolicy \/ DeleteRetentionPolicy
  BY <1>2, BesideKeeps DEF PurgeScopeKept
<1>3. ASSUME NEW c \in PurgeCalls, NEW dto \in PurgeRequests,
             BeginEstimate(c, dto) \/ BeginManualPurge(c, dto)
      PROVE  PurgeInv' /\ PurgeScopeKept
  <2>1. dto \in PurgeDtos
    BY TheRequests
  <2> QED
    BY <1>3, <2>1, PurgeBeginKeeps DEF PurgeScopeKept
<1>4. ASSUME NEW c \in PurgeCalls, BeginAutomaticPurge(c) PROVE PurgeInv' /\ PurgeScopeKept
  BY <1>4, PurgeBeginKeeps DEF PurgeScopeKept
<1>5. ASSUME NEW c \in PurgeCalls, PurgeStep(c) PROVE PurgeInv' /\ PurgeScopeKept
  BY <1>5, PurgeStepKeeps DEF PurgeScopeKept
<1> QED
  BY <1>1, <1>2, <1>3, <1>4, <1>5 DEF PurgeNext

LEMMA PurgeInvIsEnough == PurgeInv => PurgeType /\ PurgeLeavesNoneExpired
<1> SUFFICES ASSUME PurgeInv PROVE PurgeType /\ PurgeLeavesNoneExpired
  OBVIOUS
<1>1. stored \subseteq FirstRows /\ \A c \in PurgeCalls : PurgeKept(purges[c], stored)
  BY DEF PurgeInv, PurgesKept
<1>2. /\ \A p, q \in policies : p.name = q.name \/ p.id = q.id => p = q
      /\ \A policy \in policies : ValidateRetentionDays(policy.days) /\ policy.id <= purgeClock.created
      /\ \A audit \in purgeAudits :
            audit.table \in ToSet(AllTables) /\ \E policy \in policies : policy.id = audit.policy
  BY TheTables DEF PurgeInv, PoliciesKept, PolicyRow, ValidateRetentionDays
<1>3. PurgeType
  BY <1>1, <1>2 DEF PurgeType, PurgeKept, PurgeShape, PickedKept
<1>4. ASSUME NEW c \in PurgeCalls, purges[c].step = "tables", ~purges[c].dto.dry,
             purges[c].dto.max = 0, NEW row \in stored,
             row.table \in DOMAIN purges[c].counts \ purges[c].refused
      PROVE  row.day >= IF purges[c].dto.cutoff # 0 THEN purges[c].dto.cutoff
                        ELSE purges[c].began - purges[c].dto.days
  <2> DEFINE p == purges[c]
  <2>1. /\ row.day >= p.cutoff /\ row.day \in Nat /\ p.cutoff \in Nat
        /\ p.cutoff = IF Limit(p) > 0 THEN Limit(p) ELSE 0
    BY <1>1, <1>4, TheRows DEF PurgeKept, PurgeShape, AskedKept, LeavesNone
  <2>2. Limit(p) \in Int
    <3>1. p.dto \in PurgeDtos /\ p.began \in Nat
      BY <1>1 DEF PurgeKept, PurgeShape
    <3>2. p.dto.cutoff \in Nat /\ p.dto.days \in Nat
      BY <3>1 DEF PurgeDtos
    <3> QED
      BY <3>1, <3>2 DEF Limit
  <2>3. row.day >= Limit(p)
    BY <2>1, <2>2
  <2> QED
    BY <2>3 DEF Limit
<1> QED
  BY <1>3, <1>4 DEF PurgeLeavesNoneExpired

PurgeSpec ==
    /\ PurgeInit /\ ClockSet
    /\ [][PurgeNext]_purgeVars

LEMMA PurgesBegin == PurgeInit /\ ClockSet => PurgeInv
BY PurgeInitially

(* The purges, the policies and their records are as they are described for *)
(* any number of purges that overlap, of days and of disturbances.          *)
THEOREM PurgeTypeCorrect == PurgeSpec => []PurgeType
BY PurgesBegin, PurgeNextKeeps, PurgeInvIsEnough, PTL DEF PurgeSpec

(* However many purges overlap, one without a limit leaves nothing that is  *)
(* older than its cutoff in a table it has been through                     *)
(* (purge.service.ts:112-267).                                              *)
THEOREM PurgesLeaveNoneExpired == PurgeSpec => []PurgeLeavesNoneExpired
BY PurgesBegin, PurgeNextKeeps, PurgeInvIsEnough, PTL DEF PurgeSpec

(* No step deletes a row that no purge under way was asked to delete, nor   *)
(* an incident of whose none was.                                           *)
THEOREM PurgesStayInScope == PurgeSpec => PurgeStaysInScope
<1>1. PurgeInv /\ [PurgeNext]_purgeVars => [PurgeScopeKept]_purgeVars
  BY PurgeNextKeeps
<1> QED
  BY <1>1, PurgesBegin, PurgeNextKeeps, PTL DEF PurgeSpec, PurgeStaysInScope, PurgeScopeKept, Accounted

(***************************************************************************)
(* The history of a schedule                                               *)
(***************************************************************************)

LEMMA ToSetOfAppended ==
    ASSUME NEW S, NEW h \in Seq(S), NEW x \in S
    PROVE  /\ Append(h, x) \in Seq(S) /\ Len(Append(h, x)) = Len(h) + 1
           /\ Append(h, x)[Len(h) + 1] = x /\ ToSet(Append(h, x)) \subseteq ToSet(h) \cup {x}
<1>1. PICK n \in Nat : n = Len(h) /\ DOMAIN h = 1..n
  OBVIOUS
<1>a. /\ Append(h, x) \in Seq(S) /\ Len(Append(h, x)) = Len(h) + 1 /\ Append(h, x)[Len(h) + 1] = x
      /\ \A i \in 1..Len(h) : Append(h, x)[i] = h[i]
  OBVIOUS
<1>b. PICK longer \in Seq(S) : longer = Append(h, x)
  BY <1>a
<1>2. longer = Append(h, x) /\ Len(longer) = n + 1 /\ longer[n + 1] = x
  BY <1>1, <1>a, <1>b
<1>3. \A i \in 1..n : longer[i] = h[i]
  BY <1>1, <1>a, <1>b
<1>4. DOMAIN longer = 1..(n + 1)
  BY <1>2
<1>5. ToSet(longer) \subseteq ToSet(h) \cup {x}
  <2> SUFFICES ASSUME NEW i \in 1..(n + 1) PROVE longer[i] \in ToSet(h) \cup {x}
    BY <1>4 DEF ToSet
  <2>1. i \in 1..n \/ i = n + 1
    OBVIOUS
  <2> QED
    BY <1>1, <1>2, <1>3, <2>1 DEF ToSet
<1> QED
  BY <1>1, <1>2, <1>5

LEMMA LastOfHistory ==
    ASSUME NEW S, NEW h \in Seq(S)
    PROVE  /\ LastOf(h) \in Seq(S) /\ ToSet(LastOf(h)) \subseteq ToSet(h)
           /\ Len(LastOf(h)) = IF Len(h) > HistoryLimit THEN HistoryLimit ELSE Len(h)
<1>1. HistoryLimit \in Nat \ {0}
  BY ScheduleAssumption
<1>2. PICK n \in Nat : n = Len(h) /\ DOMAIN h = 1..n
  OBVIOUS
<1>3. PICK m \in Nat : m = (IF n > HistoryLimit THEN n - HistoryLimit ELSE 0) /\ m <= n
  <2>1. (IF n > HistoryLimit THEN n - HistoryLimit ELSE 0) \in Nat
    BY <1>1
  <2>2. PICK m \in Nat : m = IF n > HistoryLimit THEN n - HistoryLimit ELSE 0
    BY <2>1
  <2>3. m <= n
    BY <1>1, <2>2
  <2> QED
    BY <2>2, <2>3
<1>4. LastOf(h) = SubSeq(h, 1 + m, n)
  BY <1>2, <1>3 DEF LastOf
<1>5. PICK first \in Int : first = 1 + m /\ 1 <= first
  BY <1>3
<1>6. /\ SubSeq(h, first, n) \in Seq(S)
      /\ Len(SubSeq(h, first, n)) = IF first <= n THEN n - first + 1 ELSE 0
      /\ \A i \in 1..(n - first + 1) : SubSeq(h, first, n)[i] = h[first + i - 1]
  <2>1. \A i \in first..n : h[i] \in S
    BY <1>2, <1>5
  <2> QED
    BY <2>1, SubSeqProperties
<1>7. PICK last \in Seq(S) : last = LastOf(h) /\ Len(last) = n - m
                             /\ \A i \in 1..(n - m) : last[i] = h[m + i]
  <2>1. PICK last \in Seq(S) : last = SubSeq(h, first, n)
    BY <1>6
  <2>2. Len(last) = n - m
    <3>1. Len(last) = IF first <= n THEN n - first + 1 ELSE 0
      BY <1>6, <2>1
    <3>2. m <= n /\ first = 1 + m
      BY <1>3, <1>5
    <3>3. (IF first <= n THEN n - first + 1 ELSE 0) = n - m
      BY <3>2
    <3> QED
      BY <3>1, <3>3
  <2>3. \A i \in 1..(n - m) : last[i] = h[m + i]
    <3> SUFFICES ASSUME NEW i \in 1..(n - m) PROVE last[i] = h[m + i]
      OBVIOUS
    <3>1. i \in 1..(n - first + 1) /\ first + i - 1 = m + i
      BY <1>3, <1>5
    <3> QED
      BY <1>6, <2>1, <3>1
  <2> QED
    BY <1>4, <1>5, <2>1, <2>2, <2>3
<1>8. ToSet(last) \subseteq ToSet(h)
  <2>a. DOMAIN last = 1..(n - m)
    BY <1>7
  <2> SUFFICES ASSUME NEW i \in 1..(n - m) PROVE last[i] \in ToSet(h)
    BY <2>a DEF ToSet
  <2>1. m + i \in 1..n
    BY <1>3
  <2> QED
    BY <1>2, <1>7, <2>1 DEF ToSet
<1>9. Len(last) = IF n > HistoryLimit THEN HistoryLimit ELSE n
  BY <1>1, <1>3, <1>7
<1> QED
  BY <1>2, <1>7, <1>8, <1>9

WholeSchedule(s) ==
    s = [active |-> s.active, request |-> s.request, executions |-> s.executions,
         failures |-> s.failures, history |-> s.history]

ScheduleKept(s) ==
    /\ WholeSchedule(s) /\ s.request \in PurgeDtos
    /\ s.executions \in Nat /\ s.failures \in Nat /\ s.history \in Seq(BOOLEAN)
    /\ Len(s.history) <= s.executions + s.failures
    /\ s.executions + s.failures <= HistoryLimit => Len(s.history) = s.executions + s.failures
    /\ Len(s.history) > HistoryLimit => ~s.history[Len(s.history)]
    /\ s.failures = 0 => ToSet(s.history) \subseteq {TRUE}

LEMMA ExecutedKept ==
    ASSUME NEW s, ScheduleKept(s), NEW success \in BOOLEAN
    PROVE  ScheduleKept(Executed(s, success))
<1>1. HistoryLimit \in Nat \ {0}
  BY ScheduleAssumption
<1>2. PICK n \in Nat, ran \in Nat, lost \in Nat :
         n = Len(s.history) /\ ran = s.executions /\ lost = s.failures
  BY DEF ScheduleKept
<1>3. s.history \in Seq(BOOLEAN)
  BY DEF ScheduleKept
<1>4. CASE success
  <2>1. PICK yes : yes = TRUE
    OBVIOUS
  <2>2. PICK longer \in Seq(BOOLEAN) : /\ longer = Append(s.history, yes) /\ Len(longer) = n + 1
                                      /\ ToSet(longer) \subseteq ToSet(s.history) \cup {yes}
    <3>1. PICK h \in Seq(BOOLEAN) : h = s.history
      BY <1>3
    <3>2. yes \in BOOLEAN
      BY <2>1
    <3>3. /\ Append(h, yes) \in Seq(BOOLEAN) /\ Len(Append(h, yes)) = Len(h) + 1
          /\ ToSet(Append(h, yes)) \subseteq ToSet(h) \cup {yes}
      BY <3>2, ToSetOfAppended
    <3> QED
      BY <1>2, <3>1, <3>3
  <2>3. PICK last \in Seq(BOOLEAN) : /\ last = LastOf(longer) /\ ToSet(last) \subseteq ToSet(longer)
                                    /\ Len(last) = IF n + 1 > HistoryLimit THEN HistoryLimit ELSE n + 1
    BY <2>2, LastOfHistory
  <2>4. PICK more \in Nat : more = ran + 1
    OBVIOUS
  <2>5. PICK u : u = [s EXCEPT !.executions = more, !.history = last]
    OBVIOUS
  <2>6. u = Executed(s, success)
    BY <1>2, <1>4, <2>1, <2>2, <2>3, <2>4, <2>5 DEF Executed
  <2>7. /\ WholeSchedule(u) /\ u.request = s.request /\ u.executions = more /\ u.failures = lost
        /\ u.history = last
    BY <1>2, <2>5 DEF ScheduleKept, WholeSchedule
  <2>8. /\ Len(last) <= more + lost
        /\ more + lost <= HistoryLimit => Len(last) = more + lost
        /\ ~(Len(last) > HistoryLimit)
    <3>1. n <= ran + lost /\ (ran + lost <= HistoryLimit => n = ran + lost)
      BY <1>2 DEF ScheduleKept
    <3> QED
      BY <1>1, <2>3, <2>4, <3>1
  <2>9. lost = 0 => ToSet(last) \subseteq {TRUE}
    BY <1>2, <2>1, <2>2, <2>3 DEF ScheduleKept
  <2>10. u.request \in PurgeDtos
    BY <2>7 DEF ScheduleKept
  <2>11. ScheduleKept(u)
    BY <2>7, <2>8, <2>9, <2>10 DEF ScheduleKept
  <2> QED
    BY <2>6, <2>11
<1>5. CASE ~success
  <2>1. PICK no : no = FALSE
    OBVIOUS
  <2>2. PICK longer \in Seq(BOOLEAN) : longer = Append(s.history, no) /\ Len(longer) = n + 1
                                      /\ longer[n + 1] = no
    BY <1>2, <1>3, <2>1, ToSetOfAppended
  <2>4. PICK more \in Nat : more = lost + 1
    OBVIOUS
  <2>5. PICK u : u = [s EXCEPT !.failures = more, !.history = longer]
    OBVIOUS
  <2>6. u = Executed(s, success)
    BY <1>2, <1>5, <2>1, <2>2, <2>4, <2>5 DEF Executed
  <2>7. /\ WholeSchedule(u) /\ u.request = s.request /\ u.executions = ran /\ u.failures = more
        /\ u.history = longer
    BY <1>2, <2>5 DEF ScheduleKept, WholeSchedule
  <2>8. /\ Len(longer) <= ran + more
        /\ ran + more <= HistoryLimit => Len(longer) = ran + more
    <3>1. n <= ran + lost /\ (ran + lost <= HistoryLimit => n = ran + lost)
      BY <1>2 DEF ScheduleKept
    <3> QED
      BY <1>1, <2>2, <2>4, <3>1
  <2>9. ~longer[Len(longer)] /\ more # 0
    BY <2>1, <2>2, <2>4
  <2>10. u.request \in PurgeDtos
    BY <2>7 DEF ScheduleKept
  <2>11. ScheduleKept(u)
    BY <2>7, <2>8, <2>9, <2>10 DEF ScheduleKept
  <2> QED
    BY <2>6, <2>11
<1> QED
  BY <1>4, <1>5

(***************************************************************************)
(* The schedules, who waits for a purge, and the queue                     *)
(***************************************************************************)

ScheduleIds == {"daily-purge", "weekly-anonymization", "emergency-cleanup", "custom"}

SchedulesKept ==
    /\ schedules = [id \in DOMAIN schedules |-> schedules[id]] /\ DOMAIN schedules \subseteq ScheduleIds
    /\ ScheduleIds \ {"custom"} \subseteq DOMAIN schedules
    /\ \A id \in DOMAIN schedules : ScheduleKept(schedules[id])

Jobs == [kind : {"none", "purge", "cleanup"}, request : PurgeDtos, attempts : Nat]
QueuedJobs == {job \in Jobs : job.kind # "none" /\ job.attempts < JobAttempts}

RetentionKept ==
    /\ retention = [waiting |-> retention.waiting, active |-> retention.active,
                    failed |-> retention.failed, paused |-> retention.paused]
    /\ retention.waiting \in Seq(QueuedJobs) /\ retention.active \in QueuedJobs \cup {NoJob}

(* One purge at a time is a job's, and it is the job that is active.        *)
CallersKept ==
    /\ callers = [c \in PurgeCalls |-> callers[c]]
    /\ retention.active # NoJob <=> \E c \in PurgeCalls : callers[c] = "job"
    /\ \A c, d \in PurgeCalls : callers[c] = "job" /\ callers[d] = "job" => c = d
    /\ daily \in {"idle", "scheduled", "empty", "failed"}
    /\ daily = "scheduled" => \E c \in PurgeCalls : callers[c] = "daily"

ScheduleInv == PurgeInv /\ SchedulesKept /\ RetentionKept /\ CallersKept

LEMMA OneScheduleMoves ==
    ASSUME SchedulesKept, NEW id, NEW s, ScheduleKept(s), schedules' = [schedules EXCEPT ![id] = s]
    PROVE  SchedulesKept'
<1>1. DOMAIN schedules' = DOMAIN schedules /\ schedules' = [i \in DOMAIN schedules |-> schedules'[i]]
  BY DEF SchedulesKept
<1>2. \A i \in DOMAIN schedules : schedules'[i] = s \/ schedules'[i] = schedules[i]
  BY DEF SchedulesKept
<1> QED
  BY <1>1, <1>2 DEF SchedulesKept

LEMMA ScheduleExecuted ==
    ASSUME SchedulesKept, NEW id \in DOMAIN schedules, NEW success \in BOOLEAN,
           schedules' = [schedules EXCEPT ![id] = Executed(schedules[id], success)]
    PROVE  SchedulesKept'
<1>1. ScheduleKept(Executed(schedules[id], success))
  BY ExecutedKept DEF SchedulesKept
<1> QED
  BY <1>1, OneScheduleMoves

LEMMA CallerComes ==
    ASSUME CallersKept, NEW c \in PurgeCalls, NEW caller, ForCaller(c, caller), caller # "job",
           retention'.active = retention.active,
           daily' = daily \/ (daily' = "scheduled" /\ caller = "daily")
    PROVE  CallersKept'
<1>1. /\ callers[c] = "nobody" /\ callers' = [d \in PurgeCalls |-> callers'[d]]
      /\ callers'[c] = caller /\ \A d \in PurgeCalls : d # c => callers'[d] = callers[d]
  BY DEF ForCaller, CallersKept
<1>2. \A d \in PurgeCalls : callers'[d] = "job" <=> callers[d] = "job"
  BY <1>1
<1>3. \A d \in PurgeCalls : callers[d] = "daily" => callers'[d] = "daily"
  BY <1>1
<1> QED
  BY <1>1, <1>2, <1>3 DEF CallersKept

LEMMA CallerGoes ==
    ASSUME CallersKept, NEW c \in PurgeCalls, NEW caller, callers[c] = caller, caller # "job",
           callers' = [callers EXCEPT ![c] = "nobody"], retention'.active = retention.active,
           daily' \in {"idle", "empty", "failed"} \/ (daily' = daily /\ caller # "daily")
    PROVE  CallersKept'
<1>1. /\ callers' = [d \in PurgeCalls |-> callers'[d]] /\ callers'[c] = "nobody"
      /\ \A d \in PurgeCalls : d # c => callers'[d] = callers[d]
  BY DEF CallersKept
<1>2. \A d \in PurgeCalls : callers'[d] = "job" <=> callers[d] = "job"
  BY <1>1
<1>3. caller # "daily" => \A d \in PurgeCalls : callers[d] = "daily" => callers'[d] = "daily"
  BY <1>1
<1> QED
  BY <1>1, <1>2, <1>3 DEF CallersKept

(* A slot is free again, and the rest of the purges as it was.              *)
LEMMA SlotIsFree ==
    ASSUME PurgeInv, NEW c \in PurgeCalls, NEW caller,
           PurgeOver(c, caller) \/ (SlotFreed(c, caller) /\ Disturbance(0))
    PROVE  PurgeInv' /\ stored' = stored
<1>1. /\ Moves(c, NoPurge) /\ UNCHANGED <<stored, policies, purgeAudits>>
      /\ UNCHANGED purgeClock \/ Disturbance(0)
  BY DEF PurgeOver, SlotFreed, Moves
<1> QED
  BY <1>1, PurgeBeginKeeps

(***************************************************************************)
(* The steps of the schedules                                              *)
(***************************************************************************)

LEMMA ScheduleRequests ==
    ASSUME NEW days \in Nat, NEW max \in Nat,
           NEW scope \in {"all", "audit", "incidents", "evidence", "anonymization"}
    PROVE  ScheduleRequest(days, max, scope) \in PurgeDtos
BY TheRequests DEF ScheduleRequest, PurgeDtos

LEMMA NewScheduleKept ==
    ASSUME NEW active, NEW request \in PurgeDtos
    PROVE  ScheduleKept(Schedule(active, request))
<1>1. /\ WholeSchedule(Schedule(active, request)) /\ Schedule(active, request).request = request
      /\ Schedule(active, request).executions = 0 /\ Schedule(active, request).failures = 0
      /\ Schedule(active, request).history = <<>>
  BY DEF Schedule, WholeSchedule
<1>2. <<>> \in Seq(BOOLEAN) /\ Len(<<>>) = 0 /\ ToSet(<<>>) = {}
  BY DEF ToSet
<1>3. HistoryLimit \in Nat \ {0}
  BY ScheduleAssumption
<1>4. PICK h \in Seq(BOOLEAN) : h = <<>> /\ Len(h) = 0 /\ ToSet(h) = {}
  BY <1>2
<1>5. PICK s : s = Schedule(active, request)
  OBVIOUS
<1>6. /\ WholeSchedule(s) /\ s.request \in PurgeDtos /\ s.executions = 0 /\ s.failures = 0
      /\ s.history = h
  BY <1>1, <1>4, <1>5
<1>7. ~(Len(h) > HistoryLimit) /\ Len(h) = 0 + 0 /\ Len(h) <= 0 + 0
  BY <1>3, <1>4
<1>8. ScheduleKept(s)
  <2>1. WholeSchedule(s) /\ s.request \in PurgeDtos /\ s.history \in Seq(BOOLEAN)
    BY <1>6
  <2>2. s.executions \in Nat /\ s.failures \in Nat /\ Len(s.history) = s.executions + s.failures
    BY <1>6, <1>7
  <2>3. ~(Len(s.history) > HistoryLimit) /\ ToSet(s.history) \subseteq {TRUE}
    BY <1>4, <1>6, <1>7
  <2>4. Len(s.history) <= s.executions + s.failures
    BY <2>2
  <2> QED
    BY <2>1, <2>2, <2>3, <2>4 DEF ScheduleKept
<1> QED
  BY <1>5, <1>8

LEMMA SwitchedScheduleKept ==
    ASSUME NEW s, ScheduleKept(s), NEW active
    PROVE  ScheduleKept([s EXCEPT !.active = active])
<1>1. PICK u : u = [s EXCEPT !.active = active]
  OBVIOUS
<1>2. /\ WholeSchedule(u) /\ u.request = s.request /\ u.executions = s.executions
      /\ u.failures = s.failures /\ u.history = s.history
  BY <1>1 DEF ScheduleKept, WholeSchedule
<1>3. ScheduleKept(u)
  BY <1>2 DEF ScheduleKept
<1> QED
  BY <1>1, <1>3

LEMMA ScheduleInitially ==
    ASSUME PurgeInit, ClockSet, ScheduleInit
    PROVE  ScheduleInv
<1>1. PurgeInv
  BY PurgeInitially
<1>2. SchedulesKept
  <2>1. /\ ScheduleKept(Schedule(TRUE, ScheduleRequest(3, 0, "all")))
        /\ ScheduleKept(Schedule(TRUE, ScheduleRequest(5, 0, "anonymization")))
        /\ ScheduleKept(Schedule(FALSE, ScheduleRequest(1, 2, "all")))
    BY ScheduleRequests, NewScheduleKept
  <2>2. PICK daily1, weekly, emergency :
           /\ daily1 = Schedule(TRUE, ScheduleRequest(3, 0, "all"))
           /\ weekly = Schedule(TRUE, ScheduleRequest(5, 0, "anonymization"))
           /\ emergency = Schedule(FALSE, ScheduleRequest(1, 2, "all"))
    OBVIOUS
  <2>3. schedules = [id \in {"daily-purge", "weekly-anonymization", "emergency-cleanup"} |->
                        CASE id = "daily-purge" -> daily1
                          [] id = "weekly-anonymization" -> weekly
                          [] OTHER -> emergency]
    BY <2>2 DEF ScheduleInit, DefaultSchedules
  <2>4. /\ DOMAIN schedules = {"daily-purge", "weekly-anonymization", "emergency-cleanup"}
        /\ schedules["daily-purge"] = daily1 /\ schedules["weekly-anonymization"] = weekly
        /\ schedules["emergency-cleanup"] = emergency
        /\ schedules = [id \in DOMAIN schedules |-> schedules[id]]
    BY <2>3
  <2> QED
    BY <2>1, <2>2, <2>4 DEF SchedulesKept, ScheduleIds
<1>3. RetentionKept
  <2>1. PICK paused : paused = FALSE
    OBVIOUS
  <2>2. retention = [waiting |-> <<>>, active |-> NoJob, failed |-> 0, paused |-> paused]
    BY <2>1 DEF ScheduleInit
  <2>3. <<>> \in Seq(QueuedJobs)
    OBVIOUS
  <2> QED
    BY <2>2, <2>3 DEF RetentionKept
<1>4. CallersKept
  <2>1. /\ callers = [c \in PurgeCalls |-> "nobody"] /\ daily = "idle" /\ retention.active = NoJob
    BY DEF ScheduleInit
  <2> QED
    BY <2>1 DEF CallersKept
<1> QED
  BY <1>1, <1>2, <1>3, <1>4 DEF ScheduleInv

LEMMA PurgeVarsStay ==
    ASSUME PurgeInv, UNCHANGED purgeVars
    PROVE  PurgeInv' /\ stored' = stored
<1>1. UNCHANGED <<stored, purges>> /\ UNCHANGED <<policies, purgeAudits>> /\ UNCHANGED purgeClock
  BY DEF purgeVars
<1> QED
  BY <1>1, DaysKeep, UnchangedPolicies DEF PurgeInv

(* What changes only the schedules.                                         *)
LEMMA SchedulesChange ==
    ASSUME ScheduleInv,
           \/ CreateSchedule \/ EnableEmergencyCleanup \/ DisableEmergencyCleanup
           \/ HandleWeeklyDataAnonymization
    PROVE  ScheduleInv' /\ stored' = stored
<1>1. PurgeInv /\ SchedulesKept /\ RetentionKept /\ CallersKept
  BY DEF ScheduleInv
<1>2. UNCHANGED purgeVars /\ UNCHANGED <<callers, daily, retention>>
  BY DEF CreateSchedule, EnableEmergencyCleanup, DisableEmergencyCleanup, HandleWeeklyDataAnonymization
<1>3. SchedulesKept'
  <2>1. ASSUME NEW days \in {0, 2, 9}, NEW max \in {0, 1},
               schedules' = [id \in DOMAIN schedules \cup {"custom"} |->
                               IF id = "custom" THEN Schedule(TRUE, ScheduleRequest(days, max, "evidence"))
                               ELSE schedules[id]]
        PROVE  SchedulesKept'
    <3>1. PICK s : s = Schedule(TRUE, ScheduleRequest(days, max, "evidence")) /\ ScheduleKept(s)
      <4>1. days \in Nat /\ max \in Nat
        OBVIOUS
      <4> QED
        BY <4>1, ScheduleRequests, NewScheduleKept
    <3>2. schedules' = [id \in DOMAIN schedules \cup {"custom"} |->
                           IF id = "custom" THEN s ELSE schedules[id]]
      BY <2>1, <3>1
    <3> QED
      BY <1>1, <3>1, <3>2 DEF SchedulesKept, ScheduleIds
  <2>2. ASSUME NEW active, schedules' = [schedules EXCEPT !["emergency-cleanup"].active = active]
        PROVE  SchedulesKept'
    <3>1. PICK s : s = [schedules["emergency-cleanup"] EXCEPT !.active = active] /\ ScheduleKept(s)
      BY <1>1, SwitchedScheduleKept DEF SchedulesKept, ScheduleIds
    <3>2. schedules' = [schedules EXCEPT !["emergency-cleanup"] = s]
      BY <2>2, <3>1
    <3> QED
      BY <1>1, <3>1, <3>2, OneScheduleMoves
  <2>3. ASSUME NEW success \in BOOLEAN,
               schedules' = [schedules EXCEPT !["weekly-anonymization"]
                                = Executed(schedules["weekly-anonymization"], success)]
        PROVE  SchedulesKept'
    <3>1. "weekly-anonymization" \in DOMAIN schedules
      BY <1>1 DEF SchedulesKept, ScheduleIds
    <3> QED
      BY <1>1, <2>3, <3>1, ScheduleExecuted
  <2> QED
    BY <2>1, <2>2, <2>3
       DEF CreateSchedule, EnableEmergencyCleanup, DisableEmergencyCleanup, HandleWeeklyDataAnonymization
<1>4. RetentionKept' /\ CallersKept'
  BY <1>1, <1>2 DEF RetentionKept, CallersKept
<1> QED
  BY <1>1, <1>2, <1>3, <1>4, PurgeVarsStay DEF ScheduleInv

LEMMA NewJobs ==
    ASSUME NEW kind \in {"purge", "cleanup"}, NEW request \in PurgeDtos, NEW job,
           \/ job = [NoJob EXCEPT !.kind = kind, !.request = request]
           \/ job = [NoJob EXCEPT !.kind = kind]
    PROVE  job \in QueuedJobs
<1>1. 0 < JobAttempts
  BY ScheduleAssumption
<1>2. NoJob \in Jobs /\ NoJob.attempts = 0
  BY TheRequests DEF NoJob, Jobs
<1>3. job \in Jobs /\ job.kind = kind /\ job.attempts = 0
  BY <1>2 DEF Jobs
<1> QED
  BY <1>1, <1>3 DEF QueuedJobs

LEMMA Enqueued ==
    ASSUME RetentionKept, NEW job \in QueuedJobs, NEW r, r = [retention EXCEPT !.waiting = Append(@, job)]
    PROVE  /\ r = [waiting |-> r.waiting, active |-> r.active, failed |-> r.failed, paused |-> r.paused]
           /\ r.waiting \in Seq(QueuedJobs) /\ r.active = retention.active
<1>1. PICK waiting \in Seq(QueuedJobs) : waiting = Append(retention.waiting, job)
  BY DEF RetentionKept
<1>2. r = [retention EXCEPT !.waiting = waiting]
  BY <1>1
<1> QED
  BY <1>2 DEF RetentionKept

(* What changes only the queue.                                             *)
LEMMA QueueChanges ==
    ASSUME ScheduleInv,
           \/ ScheduleDataPurge \/ ScheduleArtifactCleanup
           \/ PauseQueue \/ ResumeQueue \/ HandleCircuitBreakerReset
    PROVE  ScheduleInv' /\ stored' = stored
<1>1. PurgeInv /\ SchedulesKept /\ RetentionKept /\ CallersKept
  BY DEF ScheduleInv
<1>2. UNCHANGED purgeVars /\ UNCHANGED <<schedules, callers, daily>>
  BY DEF ScheduleDataPurge, ScheduleArtifactCleanup, PauseQueue, ResumeQueue, HandleCircuitBreakerReset
<1>3. RetentionKept' /\ retention'.active = retention.active
  <2>1. CASE ScheduleDataPurge
    <3>1. purgeClock.today \in Nat /\ purgeClock.today >= 10
      BY <1>1 DEF PurgeInv, PurgesKept, FirstDay
    <3>2. PICK cutoff \in Nat : cutoff = purgeClock.today - 3
      BY <3>1
    <3>3. PICK request \in PurgeDtos :
             request = [Dto EXCEPT !.user = "none", !.table = "evidence", !.cutoff = cutoff]
      BY TheRequests DEF PurgeDtos, Swept, Tables
    <3>4. PICK job : job = [NoJob EXCEPT !.kind = "purge", !.request = request]
      OBVIOUS
    <3>5. job \in QueuedJobs
      BY <3>4, NewJobs
    <3>6. retention' = Enqueue(job)
      BY <2>1, <3>2, <3>3, <3>4 DEF ScheduleDataPurge
    <3>7. retention' = [retention EXCEPT !.waiting = Append(@, job)]
      BY <3>6 DEF Enqueue
    <3> QED
      BY <1>1, <3>5, <3>7, Enqueued DEF RetentionKept
  <2>2. CASE ScheduleArtifactCleanup
    <3>a. PICK job : job = CleanupJob
      OBVIOUS
    <3>b. job \in QueuedJobs
      BY <3>a, NewJobs, TheRequests DEF CleanupJob
    <3>2. retention' = [retention EXCEPT !.waiting = Append(@, job)]
      BY <2>2, <3>a DEF ScheduleArtifactCleanup, Enqueue
    <3> QED
      BY <1>1, <3>2, <3>b, Enqueued DEF RetentionKept
  <2>3. CASE PauseQueue \/ ResumeQueue \/ HandleCircuitBreakerReset
    <3>1. PICK paused : retention' = [retention EXCEPT !.paused = paused]
      BY <2>3 DEF PauseQueue, ResumeQueue, HandleCircuitBreakerReset, Resume
    <3> QED
      BY <1>1, <3>1 DEF RetentionKept
  <2> QED
    BY <2>1, <2>2, <2>3
<1>4. SchedulesKept' /\ CallersKept'
  BY <1>1, <1>2, <1>3 DEF SchedulesKept, CallersKept
<1> QED
  BY <1>1, <1>2, <1>3, <1>4, PurgeVarsStay DEF ScheduleInv

(* Who waits for the purge of a schedule, of the daily run, or of an        *)
(* emergency.                                                               *)
LEMMA WaitersKeep ==
    ASSUME ScheduleInv, NEW c \in PurgeCalls,
           \/ OperatorExecutesSchedule(c) \/ HandleDailyDataPurge(c) \/ BeginFallback(c)
           \/ ExecuteEmergencyPurge(c)
    PROVE  ScheduleInv' /\ stored' = stored
<1>1. PurgeInv /\ SchedulesKept /\ RetentionKept /\ CallersKept
  BY DEF ScheduleInv
<1>2. UNCHANGED <<schedules, retention>>
  BY DEF OperatorExecutesSchedule, HandleDailyDataPurge, BeginFallback, ExecuteEmergencyPurge
<1>3. /\ (\E dto \in PurgeDtos : BeginManualPurge(c, dto)) \/ BeginAutomaticPurge(c)
      /\ \E caller :
            /\ ForCaller(c, caller) /\ caller # "job"
            /\ daily' = daily \/ (daily' = "scheduled" /\ caller = "daily")
  <2> DEFINE Waits ==
                \E caller :
                   /\ ForCaller(c, caller) /\ caller # "job"
                   /\ daily' = daily \/ (daily' = "scheduled" /\ caller = "daily")
             Starts == (\E dto \in PurgeDtos : BeginManualPurge(c, dto)) \/ BeginAutomaticPurge(c)
  <2> SUFFICES Waits /\ Starts
    OBVIOUS
  <2>1. CASE OperatorExecutesSchedule(c)
    <3>1. PICK id \in DOMAIN schedules :
             ForCaller(c, id) /\ BeginManualPurge(c, schedules[id].request) /\ daily' = daily
      BY <2>1 DEF OperatorExecutesSchedule, ExecuteScheduledPurge
    <3>2. id # "job" /\ schedules[id].request \in PurgeDtos
      BY <1>1 DEF SchedulesKept, ScheduleIds, ScheduleKept
    <3> QED
      BY <3>1, <3>2
  <2>2. CASE HandleDailyDataPurge(c)
    <3>1. /\ ForCaller(c, "daily") /\ daily' = "scheduled"
          /\ schedules["daily-purge"].active
          /\ BeginManualPurge(c, schedules["daily-purge"].request)
      BY <2>2 DEF HandleDailyDataPurge, ExecuteScheduledPurge
    <3>2. schedules["daily-purge"].request \in PurgeDtos
      BY <1>1 DEF SchedulesKept, ScheduleKept, ScheduleIds
    <3> QED
      BY <3>1, <3>2
  <2>3. CASE BeginFallback(c)
    BY <2>3 DEF BeginFallback
  <2>4. CASE ExecuteEmergencyPurge(c)
    <3>1. /\ ForCaller(c, "emergency") /\ daily' = daily
          /\ \/ BeginManualPurge(c, EmergencyRequest("evidence", "admin"))
             \/ BeginManualPurge(c, EmergencyRequest("purge_audit", "deleted"))
      BY <2>4 DEF ExecuteEmergencyPurge
    <3>2. /\ EmergencyRequest("evidence", "admin") \in PurgeDtos
          /\ EmergencyRequest("purge_audit", "deleted") \in PurgeDtos
      BY TheRequests DEF EmergencyRequest, PurgeDtos, Swept, Tables
    <3> QED
      BY <3>1, <3>2
  <2> QED
    BY <2>1, <2>2, <2>3, <2>4
<1>4. PurgeInv' /\ stored' = stored
  BY <1>1, <1>3, PurgeBeginKeeps
<1>5. CallersKept'
  BY <1>1, <1>2, <1>3, CallerComes
<1>6. SchedulesKept' /\ RetentionKept'
  BY <1>1, <1>2 DEF SchedulesKept, RetentionKept
<1> QED
  BY <1>4, <1>5, <1>6 DEF ScheduleInv

LEMMA WaitersGo ==
    ASSUME ScheduleInv, NEW c \in PurgeCalls,
           ScheduledPurgeOver(c) \/ DailyPurgeOver(c) \/ FallbackOver(c) \/ EmergencyPurgeOver(c)
    PROVE  ScheduleInv' /\ stored' = stored
<1>1. PurgeInv /\ SchedulesKept /\ RetentionKept /\ CallersKept
  BY DEF ScheduleInv
<1>2. CASE ScheduledPurgeOver(c)
  <2>1. PICK id \in DOMAIN schedules :
           /\ PurgeOver(c, id) /\ UNCHANGED <<daily, retention>>
           /\ schedules' = [schedules EXCEPT ![id] = Executed(schedules[id], ~FailedPurge(c))]
    BY <1>2 DEF ScheduledPurgeOver
  <2>2. id # "job" /\ id # "daily"
    BY <1>1 DEF SchedulesKept, ScheduleIds
  <2>3. (~FailedPurge(c)) \in BOOLEAN
    BY DEF FailedPurge
  <2>4. SchedulesKept'
    BY <1>1, <2>1, <2>3, ScheduleExecuted
  <2>5. callers[c] = id /\ callers' = [callers EXCEPT ![c] = "nobody"]
    BY <2>1 DEF PurgeOver, SlotFreed
  <2>6. CallersKept' /\ RetentionKept'
    BY <1>1, <2>1, <2>2, <2>5, CallerGoes DEF RetentionKept
  <2> QED
    BY <1>1, <2>1, <2>4, <2>6, SlotIsFree DEF ScheduleInv
<1>3. CASE DailyPurgeOver(c)
  <2>1. /\ PurgeOver(c, "daily") /\ UNCHANGED retention /\ daily' \in {"idle", "empty", "failed"}
        /\ schedules' = [schedules EXCEPT !["daily-purge"]
                            = Executed(schedules["daily-purge"], ~FailedPurge(c))]
    BY <1>3 DEF DailyPurgeOver
  <2>3. (~FailedPurge(c)) \in BOOLEAN
    BY DEF FailedPurge
  <2>4. SchedulesKept'
    <3>1. "daily-purge" \in DOMAIN schedules
      BY <1>1 DEF SchedulesKept, ScheduleIds
    <3> QED
      BY <1>1, <2>1, <2>3, <3>1, ScheduleExecuted
  <2>5. callers[c] = "daily" /\ callers' = [callers EXCEPT ![c] = "nobody"]
    BY <2>1 DEF PurgeOver, SlotFreed
  <2>6. CallersKept' /\ RetentionKept'
    BY <1>1, <2>1, <2>5, CallerGoes DEF RetentionKept
  <2> QED
    BY <1>1, <2>1, <2>4, <2>6, SlotIsFree DEF ScheduleInv
<1>4. CASE FallbackOver(c)
  <2>1. /\ PurgeOver(c, "daily") /\ UNCHANGED schedules /\ daily' \in {"idle", "empty", "failed"}
        /\ retention' = Enqueue(CleanupJob) \/ retention' = retention
    BY <1>4 DEF FallbackOver
  <2>2. RetentionKept' /\ retention'.active = retention.active
    <3>1. CASE retention' = Enqueue(CleanupJob)
      <4>1. PICK job : job = CleanupJob
        OBVIOUS
      <4>2. job \in QueuedJobs
        BY <4>1, NewJobs, TheRequests DEF CleanupJob
      <4>3. retention' = [retention EXCEPT !.waiting = Append(@, job)]
        BY <3>1, <4>1 DEF Enqueue
      <4> QED
        BY <1>1, <4>2, <4>3, Enqueued DEF RetentionKept
    <3> QED
      BY <1>1, <2>1, <3>1 DEF RetentionKept
  <2>5. callers[c] = "daily" /\ callers' = [callers EXCEPT ![c] = "nobody"]
    BY <2>1 DEF PurgeOver, SlotFreed
  <2>6. CallersKept' /\ SchedulesKept'
    BY <1>1, <2>1, <2>2, <2>5, CallerGoes DEF SchedulesKept
  <2> QED
    BY <1>1, <2>1, <2>2, <2>6, SlotIsFree DEF ScheduleInv
<1>5. CASE EmergencyPurgeOver(c)
  <2>1. PurgeOver(c, "emergency") /\ UNCHANGED <<schedules, daily, retention>>
    BY <1>5 DEF EmergencyPurgeOver
  <2>5. callers[c] = "emergency" /\ callers' = [callers EXCEPT ![c] = "nobody"]
    BY <2>1 DEF PurgeOver, SlotFreed
  <2>6. CallersKept' /\ SchedulesKept' /\ RetentionKept'
    BY <1>1, <2>1, <2>5, CallerGoes DEF SchedulesKept, RetentionKept
  <2> QED
    BY <1>1, <2>1, <2>6, SlotIsFree DEF ScheduleInv
<1> QED
  BY <1>2, <1>3, <1>4, <1>5

(* The worker: a job becomes active with the purge that it begins, and is   *)
(* over with it.                                                            *)
LEMMA JobsKeep ==
    ASSUME ScheduleInv, NEW c \in PurgeCalls, ProcessJob(c) \/ JobOver(c)
    PROVE  ScheduleInv' /\ stored' = stored
<1>1. PurgeInv /\ SchedulesKept /\ RetentionKept /\ CallersKept
  BY DEF ScheduleInv
<1>2. UNCHANGED <<schedules, daily>>
  BY DEF ProcessJob, JobOver
<1>3. SchedulesKept'
  BY <1>1, <1>2 DEF SchedulesKept
<1>4. NoJob \notin QueuedJobs
  BY DEF NoJob, QueuedJobs
<1>5. CASE ProcessJob(c)
  <2>1. PICK waiting \in Seq(QueuedJobs) : waiting = retention.waiting /\ waiting # <<>>
    BY <1>1, <1>5 DEF ProcessJob, RetentionKept
  <2>a. Head(waiting) \in QueuedJobs /\ Tail(waiting) \in Seq(QueuedJobs)
    BY <2>1
  <2>2. PICK job \in QueuedJobs, rest \in Seq(QueuedJobs) : job = Head(waiting) /\ rest = Tail(waiting)
    BY <2>a
  <2>3. /\ retention.active = NoJob /\ ForCaller(c, "job")
        /\ retention' = [retention EXCEPT !.waiting = rest, !.active = job]
        /\ BeginManualPurge(c, job.request) \/ BeginAutomaticPurge(c)
    BY <1>5, <2>1, <2>2 DEF ProcessJob
  <2>4. RetentionKept' /\ retention'.active = job
    BY <1>1, <2>3 DEF RetentionKept
  <2>5. job.request \in PurgeDtos
    BY DEF QueuedJobs, Jobs
  <2>6. /\ callers[c] = "nobody" /\ callers' = [d \in PurgeCalls |-> callers'[d]]
        /\ callers'[c] = "job" /\ \A d \in PurgeCalls : d # c => callers'[d] = callers[d]
        /\ \A d \in PurgeCalls : callers[d] # "job"
    BY <1>1, <2>3 DEF ForCaller, CallersKept
  <2>7. CallersKept'
    BY <1>1, <1>2, <1>4, <2>4, <2>6 DEF CallersKept
  <2> QED
    BY <1>1, <1>3, <2>3, <2>4, <2>5, <2>7, PurgeBeginKeeps DEF ScheduleInv
<1>6. CASE JobOver(c)
  <2>1. /\ PurgeOver(c, "job") \/ (SlotFreed(c, "job") /\ Disturbance(0))
        /\ callers[c] = "job" /\ callers' = [callers EXCEPT ![c] = "nobody"]
    BY <1>6 DEF JobOver, PurgeOver, SlotFreed
  <2>2. retention.active \in QueuedJobs
    BY <1>1, <2>1 DEF CallersKept, RetentionKept
  <2>3. PICK job : job = [retention.active EXCEPT !.attempts = retention.active.attempts + 1]
    OBVIOUS
  <2>4. PICK rest : rest = [retention EXCEPT !.active = NoJob]
    OBVIOUS
  <2>5. \/ retention' = rest
        \/ job.attempts < JobAttempts /\ retention' = [rest EXCEPT !.waiting = Append(rest.waiting, job)]
        \/ retention' = [rest EXCEPT !.failed = rest.failed + 1]
    BY <1>6, <2>3, <2>4 DEF JobOver, JobFailed
  <2>6. /\ rest = [waiting |-> rest.waiting, active |-> rest.active, failed |-> rest.failed,
                   paused |-> rest.paused]
        /\ rest.waiting \in Seq(QueuedJobs) /\ rest.active = NoJob
    BY <1>1, <2>4 DEF RetentionKept
  <2>7. RetentionKept' /\ retention'.active = NoJob
    <3>1. CASE job.attempts < JobAttempts /\ retention' = [rest EXCEPT !.waiting = Append(rest.waiting, job)]
      <4>1. PICK more \in Nat : more = retention.active.attempts + 1
        BY <2>2 DEF QueuedJobs, Jobs
      <4>2. job \in Jobs /\ job.kind # "none"
        BY <2>2, <2>3, <4>1 DEF QueuedJobs, Jobs
      <4>3. job \in QueuedJobs
        BY <3>1, <4>2 DEF QueuedJobs
      <4>a. Append(rest.waiting, job) \in Seq(QueuedJobs)
        BY <2>6, <4>3
      <4>4. PICK waiting \in Seq(QueuedJobs) : waiting = Append(rest.waiting, job)
        BY <4>a
      <4>5. retention' = [rest EXCEPT !.waiting = waiting]
        BY <3>1, <4>4
      <4> QED
        BY <2>6, <4>5 DEF RetentionKept
    <3>2. CASE retention' = rest
      BY <2>6, <3>2 DEF RetentionKept
    <3>3. CASE retention' = [rest EXCEPT !.failed = rest.failed + 1]
      <4>1. PICK failed : failed = rest.failed + 1
        OBVIOUS
      <4>2. retention' = [rest EXCEPT !.failed = failed]
        BY <3>3, <4>1
      <4> QED
        BY <2>6, <4>2 DEF RetentionKept
    <3> QED
      BY <2>5, <3>1, <3>2, <3>3
  <2>8. /\ callers' = [d \in PurgeCalls |-> callers'[d]] /\ callers'[c] = "nobody"
        /\ \A d \in PurgeCalls : d # c => callers'[d] = callers[d] /\ callers[d] # "job"
    BY <1>1, <2>1 DEF CallersKept
  <2>9. CallersKept'
    <3>1. \A d \in PurgeCalls : callers'[d] # "job"
      BY <2>8
    <3>2. \A d \in PurgeCalls : callers[d] = "daily" => callers'[d] = "daily"
      BY <2>1, <2>8
    <3> QED
      BY <1>1, <1>2, <2>7, <2>8, <3>1, <3>2 DEF CallersKept
  <2> QED
    BY <1>1, <1>3, <2>1, <2>7, <2>9, SlotIsFree DEF ScheduleInv
<1> QED
  BY <1>5, <1>6

LEMMA ScheduleNextKeeps ==
    ScheduleInv /\ [ScheduleNext]_scheduleVars => ScheduleInv' /\ PurgeScopeKept
<1> SUFFICES ASSUME ScheduleInv, [ScheduleNext]_scheduleVars PROVE ScheduleInv' /\ PurgeScopeKept
  OBVIOUS
<1>1. PurgeInv /\ SchedulesKept /\ RetentionKept /\ CallersKept
  BY DEF ScheduleInv
<1>2. ASSUME UNCHANGED <<schedules, callers, daily, retention>> PROVE SchedulesKept' /\ RetentionKept' /\ CallersKept'
  BY <1>1, <1>2 DEF SchedulesKept, RetentionKept, CallersKept
<1>3. CASE UNCHANGED scheduleVars
  <2>1. UNCHANGED purgeVars /\ UNCHANGED <<schedules, callers, daily, retention>>
    BY <1>3 DEF scheduleVars
  <2> QED
    BY <1>1, <1>2, <2>1, PurgeVarsStay DEF ScheduleInv, PurgeScopeKept
<1>4. CASE Midnight /\ UNCHANGED <<schedules, callers, daily, retention, begun>>
  BY <1>1, <1>2, <1>4, BesideKeeps DEF ScheduleInv, PurgeScopeKept
<1>5. CASE \/ CreateSchedule \/ EnableEmergencyCleanup \/ DisableEmergencyCleanup
           \/ HandleWeeklyDataAnonymization
  BY <1>5, SchedulesChange DEF PurgeScopeKept
<1>6. CASE \/ ScheduleDataPurge \/ ScheduleArtifactCleanup
           \/ PauseQueue \/ ResumeQueue \/ HandleCircuitBreakerReset
  BY <1>6, QueueChanges DEF PurgeScopeKept
<1>7. ASSUME NEW c \in PurgeCalls,
             \/ OperatorExecutesSchedule(c) \/ ScheduledPurgeOver(c)
             \/ HandleDailyDataPurge(c) \/ DailyPurgeOver(c) \/ BeginFallback(c) \/ FallbackOver(c)
             \/ ExecuteEmergencyPurge(c) \/ EmergencyPurgeOver(c)
             \/ ProcessJob(c) \/ JobOver(c)
      PROVE  ScheduleInv' /\ PurgeScopeKept
  BY <1>7, WaitersKeep, WaitersGo, JobsKeep DEF PurgeScopeKept
<1>8. ASSUME NEW c \in PurgeCalls,
             PurgeStep(c) /\ UNCHANGED <<schedules, callers, daily, retention, begun>>
      PROVE  ScheduleInv' /\ PurgeScopeKept
  BY <1>1, <1>2, <1>8, PurgeStepKeeps DEF ScheduleInv, PurgeScopeKept
<1> QED
  BY <1>3, <1>4, <1>5, <1>6, <1>7, <1>8 DEF ScheduleNext

LEMMA ScheduleInvIsEnough == ScheduleInv => PurgeType /\ ScheduleType /\ PurgeLeavesNoneExpired
<1> SUFFICES ASSUME ScheduleInv PROVE ScheduleType /\ PurgeInv
  BY PurgeInvIsEnough
<1>1. PurgeInv /\ SchedulesKept /\ RetentionKept /\ CallersKept
  BY DEF ScheduleInv
<1>2. retention.active.attempts < JobAttempts
  <2>1. NoJob.attempts = 0 /\ 0 < JobAttempts
    BY ScheduleAssumption DEF NoJob
  <2> QED
    BY <1>1, <2>1 DEF RetentionKept, QueuedJobs
<1>3. ScheduleType
  BY <1>1, <1>2 DEF ScheduleType, CallersKept, SchedulesKept, ScheduleKept
<1> QED
  BY <1>1, <1>3

ScheduleSpec ==
    /\ PurgeInit /\ ScheduleInit /\ ClockSet
    /\ [][ScheduleNext]_scheduleVars

LEMMA SchedulesBegin == PurgeInit /\ ScheduleInit /\ ClockSet => ScheduleInv
BY ScheduleInitially

(* The schedules, the queue and those who wait for a purge are as they are  *)
(* described; one job at a time has a purge.                                *)
THEOREM ScheduleTypeCorrect == ScheduleSpec => []ScheduleType
BY SchedulesBegin, ScheduleNextKeeps, ScheduleInvIsEnough, PTL DEF ScheduleSpec

(* A purge that a schedule, a cron handler or a job begins leaves no row    *)
(* older than its cutoff either, and keeps to what it was asked.            *)
THEOREM ScheduledPurgesLeaveNoneExpired == ScheduleSpec => []PurgeLeavesNoneExpired
BY SchedulesBegin, ScheduleNextKeeps, ScheduleInvIsEnough, PTL DEF ScheduleSpec

-----------------------------------------------------------------------------
Parts == {"system", "wordpress", "logs", "command"}
Ids == Collections \X Nat \X Int

CollectionCall ==
    [step : {"idle", "ready", "gathering", "storing", "over", "failed"}, plan : Seq(Parts),
     full : BOOLEAN, paths : Int, linked : BOOLEAN, text : Texts, told : SUBSET Ids,
     missed : SUBSET Ids, left : Nat]

(* The commands come last, so that a connection they leave is the last one  *)
(* that the collection leaves.                                              *)
CommandLast(plan) == \A i \in 1..(Len(plan) - 1) : plan[i] # "command"

CallKept(u, faults) ==
    /\ u \in CollectionCall
    /\ u.step = "idle" => u.told = {}
    /\ u.step \in {"ready", "gathering", "storing"} => u.plan # <<>> /\ u.left <= faults
    /\ u.linked => u.step \in {"gathering", "storing"}
    /\ u.step = "storing" /\ u.linked => Head(u.plan) \in {"logs", "command"}
    /\ CommandLast(u.plan)

(* An id that the collection has used, and will not use again.              *)
Spent(u, id) ==
    \/ u.step \in {"over", "failed"}
    \/ u.step \in {"ready", "gathering", "storing"} /\ id[2] > Len(u.plan)
    \/ u.step \in {"gathering", "storing"} /\ id[2] = Len(u.plan) /\ id[3] > u.paths

Used(id) == id \in Ids /\ Spent(collects[id[1]], id)

EvidenceRow(row) ==
    /\ row = [id |-> row.id, content |-> row.content, signature |-> row.signature, old |-> row.old]
    /\ row.content \in [zipped : BOOLEAN, text : Texts] /\ row.signature \in Texts /\ row.old \in BOOLEAN

GenuineRow(row) ==
    \/ row.content.text = row.signature
    \/ row.old /\ row.content.text = [row.signature EXCEPT !.personal = FALSE]

SceneKept == scene \in [there : BOOLEAN, deleted : SUBSET Ids, faults : Nat]

CallsKept ==
    /\ collects = [c \in Collections |-> collects[c]]
    /\ \A c \in Collections :
          /\ CallKept(collects[c], scene.faults)
          /\ collects[c].left <= scene.faults + (IF scene.there THEN 0 ELSE 1)

RowsKept ==
    /\ \A row \in evidence : EvidenceRow(row) /\ GenuineRow(row) /\ Used(row.id)
    /\ \A one, other \in evidence : one.id = other.id => one = other
    /\ ~scene.there => evidence = {}

ToldKept ==
    scene.there =>
        \A c \in Collections : collects[c].told \subseteq {row.id : row \in evidence} \cup scene.deleted

EvidenceInv == SceneKept /\ CallsKept /\ RowsKept /\ ToldKept

(* A log file that failed used up its id, and there is no row of it.        *)
MissedKept ==
    \A c \in Collections : \A id \in collects[c].missed :
        Used(id) /\ \A row \in evidence : row.id # id

(* What the anonymization has read is of the row that has the id now.       *)
ReadingKept ==
    \A read \in anon.reading :
        /\ EvidenceRow(read) /\ GenuineRow(read) /\ Used(read.id) /\ read.old
        /\ \A row \in evidence : row.id = read.id => row.old /\ row.signature = read.signature

AnonKept ==
    /\ \A table \in DOMAIN private : private[table] \subseteq PrivateRows
    /\ DOMAIN private = {"audit_events", "command_executions", "user_sessions", "servers"}
    /\ anon.step \in {"idle", "tables", "rewriting", "over"}
    /\ anon.reading # {} => anon.step = "rewriting"
    /\ anon = [step |-> anon.step, todo |-> anon.todo, reading |-> anon.reading,
               counted |-> anon.counted, total |-> anon.total, credentials |-> anon.credentials,
               personalData |-> anon.personalData, dry |-> anon.dry]

AnonInv == EvidenceInv /\ AnonKept /\ ReadingKept /\ MissedKept

(***************************************************************************)
(* Collections                                                             *)
(***************************************************************************)

LEMMA TailOfPlan ==
    ASSUME NEW plan \in Seq(Parts), plan # <<>>
    PROVE  /\ Tail(plan) \in Seq(Parts) /\ Len(Tail(plan)) = Len(plan) - 1 /\ Len(plan) \in Nat \ {0}
           /\ CommandLast(plan) => CommandLast(Tail(plan))
           /\ CommandLast(plan) /\ Head(plan) = "command" => Len(plan) = 1
           /\ Len(plan) > 1 => Tail(plan) # <<>>
<1>1. /\ Tail(plan) \in Seq(Parts) /\ Len(Tail(plan)) = Len(plan) - 1 /\ Len(plan) \in Nat \ {0}
      /\ Head(plan) = plan[1]
  OBVIOUS
<1>a. Len(plan) > 1 => Tail(plan) # <<>>
  <2>1. PICK t \in Seq(Parts) : t = Tail(plan) /\ Len(t) = Len(plan) - 1
    BY <1>1
  <2> QED
    BY <1>1, <2>1, EmptySeq
<1>2. \A i \in 1..(Len(plan) - 1) : Tail(plan)[i] = plan[i + 1]
  OBVIOUS
<1>3. ASSUME CommandLast(plan) PROVE CommandLast(Tail(plan))
  <2> SUFFICES ASSUME NEW i \in 1..(Len(plan) - 2) PROVE Tail(plan)[i] # "command"
    BY <1>1 DEF CommandLast
  <2>1. i + 1 \in 1..(Len(plan) - 1) /\ i \in 1..(Len(plan) - 1)
    BY <1>1
  <2> QED
    BY <1>2, <1>3, <2>1 DEF CommandLast
<1>4. ASSUME CommandLast(plan), Head(plan) = "command" PROVE Len(plan) = 1
  <2>1. CASE Len(plan) > 1
    <3>1. 1 \in 1..(Len(plan) - 1)
      BY <1>1, <2>1
    <3> QED
      BY <1>1, <1>4, <3>1 DEF CommandLast
  <2> QED
    BY <1>1, <2>1
<1> QED
  BY <1>1, <1>a, <1>3, <1>4

Outgrows(old, u) == \A id \in Ids : Spent(old, id) => Spent(u, id)

(* A part that is over spends its ids.                                      *)
LEMMA NextPartKept ==
    ASSUME NEW faults \in Nat, NEW old \in CollectionCall, old.plan # <<>>, CommandLast(old.plan),
           old.step \in {"ready", "gathering", "storing"}, NEW u, u = NextPart(old),
           Len(old.plan) > 1 => old.left <= faults
    PROVE  /\ CallKept(u, faults) /\ Outgrows(old, u)
           /\ u.told = old.told /\ u.left = old.left
           /\ \A id \in Ids : id[2] = Len(old.plan) => Spent(u, id)
<1>1. old.plan \in Seq(Parts)
  BY DEF CollectionCall
<1>2. PICK plan \in Seq(Parts), len \in Nat \ {0} :
         plan = Tail(old.plan) /\ len = Len(old.plan) /\ Len(plan) = len - 1 /\ CommandLast(plan)
         /\ (len > 1 => plan # <<>>)
  BY <1>1, TailOfPlan
<1>3. PICK step \in {"ready", "over"} : step = IF len > 1 THEN "ready" ELSE "over"
  OBVIOUS
<1>4. u = [old EXCEPT !.step = step, !.plan = plan, !.linked = FALSE]
  BY <1>2, <1>3 DEF NextPart
<1>5. /\ u \in CollectionCall /\ u.step = step /\ u.plan = plan /\ u.linked = FALSE
      /\ u.told = old.told /\ u.left = old.left /\ u.paths = old.paths
  BY <1>4 DEF CollectionCall
<1>6. CallKept(u, faults)
  BY <1>2, <1>3, <1>5 DEF CallKept
<1>7. \A id \in Ids : id[2] >= len => Spent(u, id)
  <2>1. \A id \in Ids : id[2] \in Nat
    BY DEF Ids
  <2> QED
    BY <1>2, <1>3, <1>5, <2>1 DEF Spent
<1>8. Outgrows(old, u)
  <2> SUFFICES ASSUME NEW id \in Ids, Spent(old, id) PROVE id[2] >= len
    BY <1>7 DEF Outgrows
  <2>1. id[2] \in Nat
    BY DEF Ids
  <2> QED
    BY <1>2, <2>1 DEF Spent
<1>9. \A id \in Ids : id[2] = len => id[2] >= len
  BY <1>2 DEF Ids
<1> QED
  BY <1>2, <1>5, <1>6, <1>7, <1>8, <1>9

(* A part that fails leaves at most one connection more, and one beyond the *)
(* faults only when it is the last.                                         *)
LEMMA PartFailsKept ==
    ASSUME NEW faults \in Nat, NEW more \in {0, 1}, NEW old, CallKept(old, faults),
           old.step \in {"ready", "gathering", "storing"}, NEW u, u = PartFails(old),
           old.linked /\ more = 0 => Head(old.plan) = "command"
    PROVE  /\ CallKept(u, faults + more) /\ Outgrows(old, u)
           /\ u.told = old.told /\ u.left <= faults + 1
           /\ more = 1 \/ ~old.linked => u.left <= faults + more
<1>1. /\ old \in CollectionCall /\ old.plan # <<>> /\ old.left <= faults /\ old.left \in Nat
      /\ CommandLast(old.plan) /\ old.plan \in Seq(Parts) /\ Len(old.plan) \in Nat
  BY DEF CallKept, CollectionCall
<1>2. PICK n \in Nat : n = IF old.linked THEN old.left + 1 ELSE old.left
  BY <1>1
<1>3. PICK w : w = [old EXCEPT !.left = n]
  OBVIOUS
<1>4. /\ w \in CollectionCall /\ w.plan = old.plan /\ w.step = old.step /\ w.told = old.told
      /\ w.left = n /\ w.linked = old.linked /\ w.paths = old.paths
  BY <1>3 DEF CallKept, CollectionCall
<1>5. u = IF old.full THEN NextPart(w) ELSE [w EXCEPT !.step = "failed", !.linked = FALSE]
  BY <1>2, <1>3 DEF PartFails
<1>6. /\ n <= faults + 1
      /\ more = 1 \/ ~old.linked => n <= faults + more
      /\ faults + more \in Nat
  BY <1>1, <1>2
<1>7. Outgrows(old, w) /\ Outgrows(w, old)
  BY <1>4 DEF Outgrows, Spent
<1>8. CASE u = NextPart(w)
  <2>1. Len(w.plan) > 1 => w.left <= faults + more
    <3>1. CASE old.linked /\ more = 0
      <4>1. PICK plan \in Seq(Parts) : plan = old.plan /\ plan # <<>> /\ Head(plan) = "command" /\ CommandLast(plan)
        BY <1>1, <3>1
      <4>2. Len(plan) = 1
        BY <4>1, TailOfPlan
      <4> QED
        BY <1>4, <4>1, <4>2
    <3>2. CASE ~old.linked
      BY <1>1, <1>2, <1>4, <3>2
    <3>3. CASE more = 1
      BY <1>4, <1>6, <3>3
    <3> QED
      BY <3>1, <3>2, <3>3
  <2>2. CallKept(u, faults + more) /\ Outgrows(w, u) /\ u.told = w.told /\ u.left = w.left
    BY <1>1, <1>4, <1>6, <1>8, <2>1, NextPartKept
  <2> QED
    BY <1>4, <1>6, <1>7, <2>2 DEF Outgrows
<1>9. CASE u = [w EXCEPT !.step = "failed", !.linked = FALSE]
  <2>1. u \in CollectionCall /\ u.step = "failed" /\ u.linked = FALSE /\ u.told = w.told /\ u.left = n
        /\ u.plan = w.plan
    BY <1>4, <1>9 DEF CollectionCall
  <2> QED
    BY <1>1, <1>4, <1>6, <2>1 DEF CallKept, Outgrows, Spent
<1> QED
  BY <1>5, <1>8, <1>9

(* One collection moves to u, and uses up ids only.                         *)
LEMMA OneCollectionMoves ==
    ASSUME SceneKept, CallsKept, NEW c \in Collections, NEW u, collects' = [collects EXCEPT ![c] = u],
           Outgrows(collects[c], u), CallKept(u, scene'.faults),
           u.left <= scene'.faults + (IF scene'.there THEN 0 ELSE 1),
           scene'.faults \in Nat, scene.faults <= scene'.faults, scene'.there = scene.there
    PROVE  /\ CallsKept' /\ \A id : Used(id) => Used(id)'
           /\ collects'[c] = u /\ \A d \in Collections : d # c => collects'[d] = collects[d]
<1>1. /\ collects' = [d \in Collections |-> collects'[d]]
      /\ collects'[c] = u /\ \A d \in Collections : d # c => collects'[d] = collects[d]
  BY DEF CallsKept
<1>2. \A d \in Collections : collects[d] \in CollectionCall /\ collects[d].left \in Nat
  BY DEF CallsKept, CallKept, CollectionCall
<1>3. \A d \in Collections : CallKept(collects[d], scene'.faults)
  BY <1>2 DEF SceneKept, CallsKept, CallKept
<1>4. PICK extra \in {0, 1} : extra = IF scene.there THEN 0 ELSE 1
  OBVIOUS
<1>5. \A d \in Collections : collects[d].left <= scene'.faults + extra
  BY <1>2, <1>4 DEF SceneKept, CallsKept
<1>6. \A id : Used(id) => Used(id)'
  <2> SUFFICES ASSUME NEW id, Used(id) PROVE Used(id)'
    OBVIOUS
  <2>1. id \in Ids /\ Spent(collects[id[1]], id) /\ id[1] \in Collections
    BY DEF Used, Ids
  <2>2. Spent(collects'[id[1]], id)
    BY <1>1, <2>1 DEF Outgrows
  <2> QED
    BY <2>1, <2>2 DEF Used, Spent
<1> QED
  BY <1>1, <1>3, <1>4, <1>5, <1>6 DEF CallsKept

LEMMA TheIdIsNew ==
    ASSUME EvidenceInv, NEW c \in Collections, collects[c].step = "storing"
    PROVE  /\ IdOf(c) \in Ids /\ IdOf(c)[1] = c /\ IdOf(c)[2] = Len(collects[c].plan)
           /\ IdOf(c)[3] = collects[c].paths
           /\ ~Used(IdOf(c))
<1>1. collects[c] \in CollectionCall
  BY DEF EvidenceInv, CallsKept, CallKept
<1>2. Len(collects[c].plan) \in Nat /\ collects[c].paths \in Int
  BY <1>1 DEF CollectionCall
<1> QED
  BY <1>2 DEF IdOf, Ids, Used, Spent

(* What stays of the rows, and of what was told, when no row is touched.    *)
LEMMA NoRowTouched ==
    ASSUME EvidenceInv, evidence' = evidence, \A id : Used(id) => Used(id)',
           scene'.there = scene.there, scene'.deleted = scene.deleted,
           \A c \in Collections : collects'[c].told = collects[c].told
    PROVE  RowsKept' /\ ToldKept'
BY DEF EvidenceInv, RowsKept, ToldKept, EvidenceRow, GenuineRow

(* A collection that gathers, or fails to.                                  *)
LEMMA OnlyTheCollection ==
    ASSUME EvidenceInv, NEW c \in Collections, NEW u, collects' = [collects EXCEPT ![c] = u],
           Outgrows(collects[c], u), CallKept(u, scene'.faults), u.told = collects[c].told,
           u.left <= scene'.faults + (IF scene'.there THEN 0 ELSE 1), evidence' = evidence,
           UNCHANGED scene \/ Failed
    PROVE  EvidenceInv' /\ \A id : Used(id) => Used(id)'
<1>1. /\ SceneKept' /\ scene.faults <= scene'.faults /\ scene'.faults \in Nat
      /\ scene'.there = scene.there /\ scene'.deleted = scene.deleted
  <2>1. CASE UNCHANGED scene
    BY <2>1 DEF EvidenceInv, SceneKept
  <2>2. CASE Failed
    <3>1. PICK n \in Nat : n = scene.faults + 1
      BY DEF EvidenceInv, SceneKept
    <3>2. scene' = [scene EXCEPT !.faults = n]
      BY <2>2, <3>1 DEF Failed
    <3> QED
      BY <3>1, <3>2 DEF EvidenceInv, SceneKept
  <2> QED
    BY <2>1, <2>2
<1>2. /\ CallsKept' /\ \A id : Used(id) => Used(id)'
      /\ \A d \in Collections : collects'[d].told = collects[d].told
  BY <1>1, OneCollectionMoves DEF EvidenceInv
<1>3. RowsKept' /\ ToldKept'
  BY <1>1, <1>2, NoRowTouched
<1> QED
  BY <1>1, <1>2, <1>3 DEF EvidenceInv

LEMMA CollectionStepsKeep ==
    ASSUME EvidenceInv, NEW c \in Collections,
           \/ \E plan \in Plans : BeginCollection(c, plan)
           \/ ConnectForPart(c) \/ GatherLogFile(c) \/ FinishLogFiles(c) \/ CaptureCommandOutput(c)
           \/ CollectSystemDiagnostics(c) \/ CollectWordPressDiagnostics(c)
    PROVE  EvidenceInv' /\ (\A id : Used(id) => Used(id)')
<1> DEFINE old == collects[c]
           extra == IF scene.there THEN 0 ELSE 1
<1>1. /\ CallKept(old, scene.faults) /\ scene.faults \in Nat /\ old.left <= scene.faults + extra
      /\ old \in CollectionCall /\ old.plan \in Seq(Parts) /\ old.left \in Nat /\ old.paths \in Int
      /\ collects = [d \in Collections |-> collects[d]]
      /\ extra \in {0, 1}
  BY DEF EvidenceInv, SceneKept, CallsKept, CallKept, CollectionCall
<1>2. ASSUME NEW plan \in Plans, BeginCollection(c, plan)
      PROVE  EvidenceInv' /\ \A id : Used(id) => Used(id)'
  <2>1. PICK u : u = [NoCollection EXCEPT !.step = "ready", !.plan = plan, !.full = Len(plan) > 1]
    OBVIOUS
  <2>2. plan \in Seq(Parts) /\ plan # <<>> /\ CommandLast(plan)
    <3>1. ASSUME NEW part \in Parts PROVE <<part>> \in Seq(Parts) /\ <<part>> # <<>> /\ CommandLast(<<part>>)
      BY DEF CommandLast
    <3>2. Full \in Seq(Parts) /\ Full # <<>> /\ CommandLast(Full)
      BY DEF Full, Parts, CommandLast
    <3> QED
      BY <3>1, <3>2 DEF Plans, Parts
  <2>3. CallKept(u, scene.faults) /\ u.told = {} /\ u.left = 0
    <3>1. NoText \in Texts
      BY DEF NoText, Texts
    <3>2. PICK full : full \in BOOLEAN /\ full = (Len(plan) > 1)
      <4>1. (Len(plan) > 1) \in BOOLEAN
        OBVIOUS
      <4> QED
        BY <4>1, Zenon
    <3>3. u = [step |-> "ready", plan |-> plan, full |-> full, paths |-> 0, linked |-> FALSE,
               text |-> NoText, told |-> {}, missed |-> {}, left |-> 0]
      <4>1. u = [NoCollection EXCEPT !.step = "ready", !.plan = plan, !.full = full]
        BY <2>1, <3>2, Zenon
      <4> QED
        BY <4>1 DEF NoCollection
    <3>4. u \in CollectionCall
      BY <2>2, <3>1, <3>2, <3>3 DEF CollectionCall
    <3> QED
      BY <1>1, <2>2, <3>3, <3>4 DEF CallKept
  <2>4. Outgrows(old, u)
    BY <1>2 DEF Outgrows, Spent, BeginCollection
  <2>5. u.told = old.told
    BY <1>1, <1>2, <2>3 DEF BeginCollection, CallKept
  <2>6. collects' = [collects EXCEPT ![c] = u] /\ UNCHANGED <<evidence, scene>>
    BY <1>2, <2>1 DEF BeginCollection
  <2> QED
    BY <1>1, <2>3, <2>4, <2>5, <2>6, OnlyTheCollection
<1>3. ASSUME ConnectForPart(c)
      PROVE  EvidenceInv' /\ \A id : Used(id) => Used(id)'
  <2>1. old.step = "ready" /\ evidence' = evidence /\ ~old.linked
    BY <1>1, <1>3 DEF ConnectForPart, CallKept
  <2>2. CASE /\ UNCHANGED scene
             /\ collects' = [collects EXCEPT ![c].step = "gathering", ![c].linked = TRUE,
                                             ![c].paths = LogPaths]
    <3>a. PICK paths \in Int : paths = LogPaths
      BY DEF LogPaths
    <3>1. PICK u : u = [old EXCEPT !.step = "gathering", !.linked = TRUE, !.paths = paths]
      OBVIOUS
    <3>2. collects' = [collects EXCEPT ![c] = u]
      BY <1>1, <2>2, <3>a, <3>1
    <3>3. /\ u \in CollectionCall /\ u.step = "gathering" /\ u.plan = old.plan /\ u.told = old.told
          /\ u.left = old.left
      BY <1>1, <3>1 DEF CollectionCall
    <3>4. CallKept(u, scene.faults) /\ Outgrows(old, u)
      BY <1>1, <2>1, <3>3 DEF CallKept, Outgrows, Spent
    <3> QED
      BY <1>1, <2>1, <2>2, <3>2, <3>3, <3>4, OnlyTheCollection
  <2>3. CASE (UNCHANGED scene \/ Failed) /\ collects' = [collects EXCEPT ![c] = PartFails(@)]
    <3>1. PICK u : u = PartFails(old)
      OBVIOUS
    <3>2. collects' = [collects EXCEPT ![c] = u]
      BY <2>3, <3>1
    <3>3. PICK more \in {0, 1} : scene'.faults = scene.faults + more /\ scene'.there = scene.there
      BY <2>3 DEF Failed, EvidenceInv, SceneKept
    <3>4. CallKept(u, scene'.faults) /\ Outgrows(old, u) /\ u.told = old.told /\ u.left <= scene'.faults
      BY <1>1, <2>1, <3>1, <3>3, PartFailsKept
    <3>5. u.left <= scene'.faults + (IF scene'.there THEN 0 ELSE 1)
      <4>1. u.left \in Nat
        BY <3>4 DEF CallKept, CollectionCall
      <4> QED
        BY <1>1, <3>3, <3>4, <4>1
    <3> QED
      BY <2>1, <2>3, <3>2, <3>4, <3>5, OnlyTheCollection
  <2> QED
    BY <1>3, <2>2, <2>3 DEF ConnectForPart
<1>4. ASSUME NEW text \in Texts, old.step = "gathering", UNCHANGED <<evidence, scene>>,
             NEW u, collects' = [collects EXCEPT ![c] = u],
             \/ /\ Head(old.plan) \in {"logs", "command"}
                /\ u = [old EXCEPT !.step = "storing", !.text = text]
             \/ u = [old EXCEPT !.step = "storing", !.text = text, !.linked = FALSE]
      PROVE  EvidenceInv' /\ \A id : Used(id) => Used(id)'
  <2>1. /\ u \in CollectionCall /\ u.step = "storing" /\ u.plan = old.plan /\ u.told = old.told
        /\ u.left = old.left /\ u.paths = old.paths
        /\ u.linked => u.linked = old.linked /\ Head(old.plan) \in {"logs", "command"}
    BY <1>1, <1>4 DEF CollectionCall
  <2>2. CallKept(u, scene.faults) /\ Outgrows(old, u)
    BY <1>1, <1>4, <2>1 DEF CallKept, Outgrows, Spent
  <2> QED
    BY <1>1, <1>4, <2>1, <2>2, OnlyTheCollection
<1>5. ASSUME NEW n \in Int, NEW m \in SUBSET Ids, old.step = "gathering", UNCHANGED <<evidence, scene>>, n < old.paths,
             NEW u, collects' = [collects EXCEPT ![c] = u], 
             u = [old EXCEPT !.step = "gathering", !.paths = n, !.missed = m]
      PROVE  EvidenceInv' /\ \A id : Used(id) => Used(id)'
  <2>1. /\ u \in CollectionCall /\ u.step = "gathering" /\ u.plan = old.plan /\ u.told = old.told
        /\ u.left = old.left /\ u.paths = n
    BY <1>1, <1>5 DEF CollectionCall
  <2>2. CallKept(u, scene.faults) /\ Outgrows(old, u)
    <3>1. \A id \in Ids : id[3] \in Int
      BY DEF Ids
    <3> QED
      BY <1>1, <1>5, <2>1, <3>1 DEF CallKept, Outgrows, Spent
  <2> QED
    BY <1>1, <1>5, <2>1, <2>2, OnlyTheCollection
<1>6. \A part \in Parts : Gathers(part) \subseteq Texts
  BY DEF Gathers, Texts, Parts
<1>7. ASSUME GatherLogFile(c)
      PROVE  EvidenceInv' /\ \A id : Used(id) => Used(id)'
  <2>1. old.step = "gathering" /\ UNCHANGED <<evidence, scene>> /\ Head(old.plan) = "logs"
    BY <1>7 DEF GatherLogFile
  <2>2. CASE \E text \in Gathers("logs") : collects' = Gathered(c, text)
    <3>1. PICK text \in Texts : collects' = Gathered(c, text)
      BY <1>6, <2>2 DEF Parts
    <3>2. PICK u : u = [old EXCEPT !.step = "storing", !.text = text]
      OBVIOUS
    <3>3. collects' = [collects EXCEPT ![c] = u]
      BY <1>1, <3>1, <3>2 DEF Gathered
    <3> QED
      BY <1>4, <2>1, <3>2, <3>3
  <2>3. CASE collects' = LogFileMissed(c)
    <3>0. IdOf(c) \in Ids /\ old.missed \in SUBSET Ids
      BY <1>1 DEF IdOf, Ids, CollectionCall
    <3>n. PICK n \in Int : n = old.paths - 1
      BY <1>1
    <3>m. PICK m \in SUBSET Ids : m = old.missed \cup {IdOf(c)}
      BY <3>0
    <3>1. n = old.paths - 1 /\ m = old.missed \cup {IdOf(c)}
      BY <3>n, <3>m
    <3>2. PICK u : u = [old EXCEPT !.step = "gathering", !.paths = n, !.missed = m]
      OBVIOUS
    <3>a. LogFileMissed(c) = [collects EXCEPT ![c] = [collects[c] EXCEPT !.step = "gathering",
                                !.paths = collects[c].paths - 1,
                                !.missed = collects[c].missed \cup {IdOf(c)}]]
      BY Zenon DEF LogFileMissed
    <3>b. LogFileMissed(c) = [collects EXCEPT ![c] = u]
      BY <3>1, <3>2, <3>a, Zenon
    <3>3. collects' = [collects EXCEPT ![c] = u] /\ n < old.paths
      BY <1>1, <2>3, <3>1, <3>b
    <3> QED
      BY <1>5, <2>1, <3>2, <3>3
  <2> QED
    BY <1>7, <2>2, <2>3 DEF GatherLogFile
<1>8. ASSUME FinishLogFiles(c)
      PROVE  EvidenceInv' /\ \A id : Used(id) => Used(id)'
  <2>1. /\ old.step = "gathering" /\ UNCHANGED <<evidence, scene>>
        /\ collects' = [collects EXCEPT ![c] = NextPart(@)]
    BY <1>8 DEF FinishLogFiles
  <2>2. old.plan # <<>> /\ CommandLast(old.plan) /\ old.left <= scene.faults
    BY <1>1, <2>1 DEF CallKept
  <2>3. PICK u : u = NextPart(old)
    OBVIOUS
  <2>4. CallKept(u, scene.faults) /\ Outgrows(old, u) /\ u.told = old.told /\ u.left = old.left
    BY <1>1, <2>1, <2>2, <2>3, NextPartKept
  <2>5. collects' = [collects EXCEPT ![c] = u]
    BY <2>1, <2>3
  <2> QED
    BY <1>1, <2>1, <2>4, <2>5, OnlyTheCollection
<1>9. ASSUME CaptureCommandOutput(c)
      PROVE  EvidenceInv' /\ \A id : Used(id) => Used(id)'
  <2>1. old.step = "gathering" /\ UNCHANGED evidence /\ Head(old.plan) = "command"
    BY <1>9 DEF CaptureCommandOutput
  <2>2. CASE (\E text \in Gathers("command") : collects' = Gathered(c, text)) /\ UNCHANGED scene
    <3>1. PICK text \in Texts : collects' = Gathered(c, text)
      BY <1>6, <2>2 DEF Parts
    <3>2. PICK u : u = [old EXCEPT !.step = "storing", !.text = text]
      OBVIOUS
    <3>3. collects' = [collects EXCEPT ![c] = u]
      BY <1>1, <3>1, <3>2 DEF Gathered
    <3> QED
      BY <1>4, <2>1, <2>2, <3>2, <3>3
  <2>3. CASE Failed /\ collects' = [collects EXCEPT ![c] = PartFails(@)]
    <3>1. PICK u : u = PartFails(old)
      OBVIOUS
    <3>2. collects' = [collects EXCEPT ![c] = u]
      BY <2>3, <3>1
    <3>3. scene'.faults = scene.faults + 1 /\ scene'.there = scene.there
      BY <2>3 DEF Failed, EvidenceInv, SceneKept
    <3>4. CallKept(u, scene'.faults) /\ Outgrows(old, u) /\ u.told = old.told /\ u.left <= scene'.faults
      BY <1>1, <2>1, <3>1, <3>3, PartFailsKept
    <3>5. u.left <= scene'.faults + (IF scene'.there THEN 0 ELSE 1)
      <4>1. u.left \in Nat
        BY <3>4 DEF CallKept, CollectionCall
      <4> QED
        BY <1>1, <3>3, <3>4, <4>1
    <3> QED
      BY <2>1, <2>3, <3>2, <3>4, <3>5, OnlyTheCollection
  <2> QED
    BY <1>9, <2>2, <2>3 DEF CaptureCommandOutput
<1>10. ASSUME CollectSystemDiagnostics(c) \/ CollectWordPressDiagnostics(c)
       PROVE  EvidenceInv' /\ \A id : Used(id) => Used(id)'
  <2>1. PICK text \in Texts : /\ old.step = "gathering" /\ UNCHANGED <<evidence, scene>>
                              /\ collects' = [Gathered(c, text) EXCEPT ![c].linked = FALSE]
    BY <1>6, <1>10 DEF CollectSystemDiagnostics, CollectWordPressDiagnostics, Parts
  <2>2. PICK u : u = [old EXCEPT !.step = "storing", !.text = text, !.linked = FALSE]
    OBVIOUS
  <2>3. collects' = [collects EXCEPT ![c] = u]
    BY <1>1, <2>1, <2>2 DEF Gathered
  <2> QED
    BY <1>4, <2>1, <2>2, <2>3
<1> QED
  BY <1>2, <1>3, <1>7, <1>8, <1>9, <1>10

LEMMA StoringKeeps ==
    ASSUME EvidenceInv, NEW c \in Collections, StoreGathered(c)
    PROVE  /\ EvidenceInv' /\ (\A id : Used(id) => Used(id)')
           /\ \A row \in evidence' : row \in evidence \/ ~Used(row.id)
<1> DEFINE old == collects[c]
           extra == IF scene.there THEN 0 ELSE 1
<1>1. /\ CallKept(old, scene.faults) /\ scene.faults \in Nat /\ old.left <= scene.faults + extra
      /\ old \in CollectionCall /\ old.plan \in Seq(Parts) /\ old.left \in Nat /\ old.paths \in Int
      /\ old.step = "storing" /\ old.plan # <<>> /\ CommandLast(old.plan) /\ old.left <= scene.faults
      /\ old.text \in Texts /\ old.told \subseteq Ids
      /\ collects = [d \in Collections |-> collects[d]]
      /\ extra \in {0, 1}
  BY DEF EvidenceInv, SceneKept, CallsKept, CallKept, CollectionCall, StoreGathered
<1>2. PICK id : /\ id = IdOf(c) /\ id \in Ids /\ ~Used(id) /\ id[1] = c
                /\ id[2] = Len(old.plan) /\ id[3] = old.paths
  BY <1>1, TheIdIsNew
<1>3. PICK n \in Int : n = old.paths - 1
  BY <1>1
<1>4. PICK next : next = [old EXCEPT !.step = "gathering", !.paths = n]
  OBVIOUS
<1>5. /\ next \in CollectionCall /\ next.step = "gathering" /\ next.plan = old.plan
      /\ next.told = old.told /\ next.left = old.left /\ next.paths = n /\ next.linked = old.linked
  BY <1>1, <1>4 DEF CollectionCall
<1>6. CallKept(next, scene.faults) /\ Outgrows(old, next) /\ Spent(next, id)
  <2>1. \A i \in Ids : i[3] \in Int
    BY DEF Ids
  <2> QED
    BY <1>1, <1>2, <1>3, <1>5, <2>1 DEF CallKept, Outgrows, Spent
<1>7. PICK over : over = NextPart(old)
  OBVIOUS
<1>8. CallKept(over, scene.faults) /\ Outgrows(old, over) /\ Spent(over, id) /\ over.told = old.told
      /\ over.left = old.left
  BY <1>1, <1>2, <1>7, NextPartKept
<1>9. CASE /\ StoreEvidence(id, old.text)
           /\ \E w \in {next, over} : collects' = [collects EXCEPT ![c] = [w EXCEPT !.told = @ \cup {id}]]
  <2>1. PICK w \in {next, over} : collects' = [collects EXCEPT ![c] = [w EXCEPT !.told = w.told \cup {id}]]
    BY <1>9
  <2>2. PICK u : u = [w EXCEPT !.told = w.told \cup {id}]
    OBVIOUS
  <2>3. w \in CollectionCall /\ w.told = old.told /\ w.left = old.left /\ CallKept(w, scene.faults)
        /\ Outgrows(old, w) /\ Spent(w, id)
    BY <1>1, <1>5, <1>6, <1>8 DEF CallKept
  <2>4. PICK told \in SUBSET Ids : told = old.told \cup {id}
    BY <1>1, <1>2
  <2>5. /\ u \in CollectionCall /\ u.step = w.step /\ u.plan = w.plan /\ u.told = told /\ u.left = old.left
        /\ u.paths = w.paths /\ u.linked = w.linked
    BY <2>2, <2>3, <2>4 DEF CollectionCall
  <2>6. CallKept(u, scene.faults) /\ Outgrows(old, u) /\ Spent(u, id)
    <3>1. w.step # "idle"
      BY <1>1, <1>5, <1>7, <2>1 DEF NextPart, CollectionCall
    <3> QED
      BY <1>1, <2>3, <2>5, <3>1 DEF CallKept, Outgrows, Spent
  <2>7. collects' = [collects EXCEPT ![c] = u]
    BY <2>1, <2>2
  <2>8. UNCHANGED scene /\ scene.there /\ evidence' = evidence \cup {RowOf(id, old.text)}
    BY <1>9 DEF StoreEvidence
  <2>9. /\ CallsKept' /\ (\A i : Used(i) => Used(i)')
        /\ collects'[c] = u /\ \A d \in Collections : d # c => collects'[d] = collects[d]
    <3>1. /\ CallKept(u, scene'.faults) /\ scene'.faults = scene.faults /\ scene'.there = scene.there
          /\ u.left <= scene'.faults + (IF scene'.there THEN 0 ELSE 1)
      BY <1>1, <2>5, <2>6, <2>8
    <3>2. SceneKept /\ CallsKept /\ scene'.faults \in Nat /\ scene.faults <= scene'.faults
      BY <1>1, <3>1 DEF EvidenceInv
    <3> QED
      BY <2>6, <2>7, <3>1, <3>2, OneCollectionMoves
  <2>10. PICK row : row = RowOf(id, old.text)
    OBVIOUS
  <2>11. EvidenceRow(row) /\ GenuineRow(row) /\ row.id = id
    <3>1. PICK long \in BOOLEAN : long = old.text.long
      BY <1>1 DEF Texts
    <3>2. row = [id |-> id, content |-> [zipped |-> long, text |-> old.text],
                 signature |-> old.text, old |-> FALSE]
      BY <2>10, <3>1 DEF RowOf, Stored, GenerateSignature
    <3> QED
      BY <1>1, <3>2 DEF EvidenceRow, GenuineRow
  <2>12. Used(id)'
    BY <1>2, <2>6, <2>9 DEF Used, Spent
  <2>13. \A r \in evidence : r.id # id
    BY <1>2 DEF EvidenceInv, RowsKept
  <2>14. RowsKept'
    <3>1. \A r \in evidence' : EvidenceRow(r) /\ GenuineRow(r) /\ Used(r.id)'
      BY <2>8, <2>9, <2>10, <2>11, <2>12 DEF EvidenceInv, RowsKept
    <3>2. \A one, other \in evidence' : one.id = other.id => one = other
      BY <2>8, <2>10, <2>11, <2>13 DEF EvidenceInv, RowsKept
    <3>3. (\A r \in evidence : EvidenceRow(r) /\ GenuineRow(r) /\ Used(r.id))'
      BY <3>1 DEF EvidenceRow, GenuineRow
    <3> QED
      BY <2>8, <3>2, <3>3 DEF RowsKept
  <2>15. ToldKept'
    <3> SUFFICES ASSUME NEW d \in Collections
                 PROVE  collects'[d].told \subseteq {r.id : r \in evidence'} \cup scene'.deleted
      BY DEF ToldKept
    <3>1. collects[d].told \subseteq {r.id : r \in evidence} \cup scene.deleted
      BY <2>8 DEF EvidenceInv, ToldKept
    <3>2. collects'[d].told \subseteq collects[d].told \cup {id}
      BY <2>4, <2>5, <2>9
    <3>3. id \in {r.id : r \in evidence'}
      BY <2>8, <2>10, <2>11
    <3> QED
      BY <2>8, <3>1, <3>2, <3>3
  <2>16. SceneKept'
    BY <2>8 DEF EvidenceInv, SceneKept
  <2> QED
    BY <1>2, <2>8, <2>9, <2>10, <2>11, <2>14, <2>15, <2>16 DEF EvidenceInv
<1>m. PICK m \in SUBSET Ids : m = old.missed \cup {id}
  BY <1>1, <1>2 DEF CollectionCall
<1>s. PICK short : short = [old EXCEPT !.step = "gathering", !.paths = n, !.missed = m]
  OBVIOUS
<1>t. LogFileMissed(c) = [collects EXCEPT ![c] = short]
  BY <1>1, <1>2, <1>3, <1>m, <1>s DEF LogFileMissed
<1>u. /\ short \in CollectionCall /\ short.step = "gathering" /\ short.plan = old.plan
      /\ short.told = old.told /\ short.left = old.left /\ short.paths = n /\ short.linked = old.linked
  BY <1>1, <1>s DEF CollectionCall
<1>v. CallKept(short, scene.faults) /\ Outgrows(old, short)
  <2>1. \A i \in Ids : i[3] \in Int
    BY DEF Ids
  <2> QED
    BY <1>1, <1>3, <1>u, <2>1 DEF CallKept, Outgrows, Spent
<1>10. CASE StoreFails /\ collects' = [collects EXCEPT ![c] = short]
  <2>1. (UNCHANGED scene \/ Failed) /\ evidence' = evidence
    BY <1>10 DEF StoreFails
  <2>2. PICK more \in {0, 1} : /\ scene'.faults = scene.faults + more /\ scene'.there = scene.there
    BY <2>1 DEF Failed, EvidenceInv, SceneKept
  <2>3. CallKept(short, scene'.faults) /\ short.left <= scene'.faults + (IF scene'.there THEN 0 ELSE 1)
    BY <1>1, <1>u, <1>v, <2>2 DEF CallKept
  <2>4. EvidenceInv' /\ (\A i : Used(i) => Used(i)')
    BY <1>u, <1>v, <1>10, <2>1, <2>3, OnlyTheCollection
  <2> QED
    BY <2>1, <2>4
<1>11. CASE StoreFails /\ collects' = [collects EXCEPT ![c] = PartFails(old)] /\ Head(old.plan) # "logs"
  <2>1. ((UNCHANGED scene /\ ~scene.there) \/ Failed) /\ evidence' = evidence
    BY <1>11 DEF StoreFails
  <2>2. PICK more \in {0, 1} : /\ scene'.faults = scene.faults + more /\ scene'.there = scene.there
                               /\ more = 0 => ~scene.there
    BY <2>1 DEF Failed, EvidenceInv, SceneKept
  <2>3. old.linked => Head(old.plan) = "command"
    BY <1>1, <1>11 DEF CallKept
  <2>4. PICK u : u = PartFails(old)
    OBVIOUS
  <2>5. /\ CallKept(u, scene'.faults) /\ Outgrows(old, u) /\ u.told = old.told /\ u.left <= scene.faults + 1
        /\ more = 1 \/ ~old.linked => u.left <= scene'.faults
    BY <1>1, <2>2, <2>3, <2>4, PartFailsKept
  <2>6. u.left <= scene'.faults + (IF scene'.there THEN 0 ELSE 1)
    <3>1. u.left \in Nat
      BY <2>5 DEF CallKept, CollectionCall
    <3> QED
      BY <1>1, <2>2, <2>5, <3>1
  <2>7. collects' = [collects EXCEPT ![c] = u] /\ (UNCHANGED scene \/ Failed)
    BY <1>11, <2>1, <2>4
  <2>8. EvidenceInv' /\ (\A i : Used(i) => Used(i)')
    BY <2>1, <2>5, <2>6, <2>7, OnlyTheCollection
  <2> QED
    BY <2>1, <2>8
<1>12. \/ /\ StoreEvidence(id, old.text)
          /\ \E w \in {next, over} : collects' = [collects EXCEPT ![c] = [w EXCEPT !.told = @ \cup {id}]]
       \/ StoreFails /\ collects' = [collects EXCEPT ![c] = short]
       \/ StoreFails /\ collects' = [collects EXCEPT ![c] = PartFails(old)] /\ Head(old.plan) # "logs"
  <2>1. CASE Head(old.plan) = "logs"
    BY <1>2, <1>3, <1>4, <1>t, <2>1 DEF StoreGathered
  <2>2. CASE Head(old.plan) # "logs"
    BY <1>2, <1>7, <2>2 DEF StoreGathered
  <2> QED
    BY <2>1, <2>2
<1> QED
  BY <1>9, <1>10, <1>11, <1>12

(* What has been read stays what it was while the rows only go, or come new. *)
LEMMA ReadingStays ==
    ASSUME ReadingKept, anon'.reading \subseteq anon.reading, \A id : Used(id) => Used(id)',
           \A row \in evidence' : row \in evidence \/ ~Used(row.id)
    PROVE  ReadingKept'
<1> SUFFICES ASSUME NEW read \in anon'.reading
             PROVE  /\ EvidenceRow(read) /\ GenuineRow(read) /\ Used(read.id)' /\ read.old
                    /\ \A row \in evidence' : row.id = read.id => row.old /\ row.signature = read.signature
  BY DEF ReadingKept, EvidenceRow, GenuineRow
<1>1. /\ EvidenceRow(read) /\ GenuineRow(read) /\ Used(read.id) /\ read.old
      /\ \A row \in evidence : row.id = read.id => row.old /\ row.signature = read.signature
  BY DEF ReadingKept
<1> QED
  BY <1>1

LEMMA DeletingKeeps ==
    ASSUME EvidenceInv, (\E row \in evidence : DeleteEvidence(row.id)) \/ IncidentGone
    PROVE  EvidenceInv' /\ (\A id : Used(id) => Used(id)') /\ evidence' \subseteq evidence
<1> DEFINE Less == /\ evidence' \subseteq evidence /\ collects' = collects /\ scene'.faults = scene.faults
                   /\ SceneKept'
                   /\ ~scene'.there => evidence' = {}
                   /\ ~scene.there => ~scene'.there
<1>1. Less
  <2>1. ASSUME NEW row \in evidence, DeleteEvidence(row.id) PROVE Less
    <3>1. row.id \in Ids
      BY DEF EvidenceInv, RowsKept, Used
    <3>2. PICK deleted \in SUBSET Ids : deleted = scene.deleted \cup {row.id}
      BY <3>1 DEF EvidenceInv, SceneKept
    <3>3. scene' = [scene EXCEPT !.deleted = deleted]
      BY <2>1, <3>2 DEF DeleteEvidence
    <3> QED
      BY <2>1, <3>3 DEF DeleteEvidence, EvidenceInv, SceneKept, RowsKept
  <2>2. CASE IncidentGone
    BY <2>2 DEF IncidentGone, EvidenceInv, SceneKept
  <2> QED
    BY <2>1, <2>2
<1>2. \A id : Used(id)' <=> Used(id)
  BY <1>1 DEF Used
<1>3. CallsKept'
  <2> SUFFICES ASSUME NEW c \in Collections
               PROVE  collects[c].left <= scene'.faults + (IF scene'.there THEN 0 ELSE 1)
    BY <1>1 DEF EvidenceInv, CallsKept
  <2>1. collects[c].left \in Nat /\ scene.faults \in Nat
    BY DEF EvidenceInv, SceneKept, CallsKept, CallKept, CollectionCall
  <2>2. collects[c].left <= scene.faults + (IF scene.there THEN 0 ELSE 1)
    BY DEF EvidenceInv, CallsKept
  <2> QED
    BY <1>1, <2>1, <2>2
<1>4. RowsKept'
  BY <1>1, <1>2 DEF EvidenceInv, RowsKept, EvidenceRow, GenuineRow
<1>5. ToldKept'
  <2>1. ASSUME NEW row \in evidence, DeleteEvidence(row.id), NEW c \in Collections, scene'.there
        PROVE  collects'[c].told \subseteq {r.id : r \in evidence'} \cup scene'.deleted
    <3>1. evidence' = {r \in evidence : r.id # row.id} /\ scene' = [scene EXCEPT !.deleted = @ \cup {row.id}]
      BY <2>1 DEF DeleteEvidence
    <3>2. scene'.deleted = scene.deleted \cup {row.id} /\ scene'.there = scene.there
      BY <3>1 DEF EvidenceInv, SceneKept
    <3>3. collects[c].told \subseteq {r.id : r \in evidence} \cup scene.deleted
      BY <2>1, <3>2 DEF EvidenceInv, ToldKept
    <3> QED
      BY <1>1, <3>1, <3>2, <3>3
  <2>2. IncidentGone => ~scene'.there
    BY DEF IncidentGone, EvidenceInv, SceneKept
  <2> QED
    BY <2>1, <2>2 DEF ToldKept
<1> QED
  BY <1>1, <1>2, <1>3, <1>4, <1>5 DEF EvidenceInv

(* The parts that leave the failed log files alone.                         *)
LEMMA PartsMissNothing ==
    ASSUME NEW old \in CollectionCall
    PROVE  NextPart(old).missed = old.missed /\ PartFails(old).missed = old.missed
<1>1. \A w \in CollectionCall : NextPart(w).missed = w.missed
  BY DEF NextPart, CollectionCall
<1>2. old.left + 1 \in Nat
  BY DEF CollectionCall
<1>3. PICK n \in Nat : n = IF old.linked THEN old.left + 1 ELSE old.left
  BY <1>2 DEF CollectionCall
<1>4. PICK w : w = [old EXCEPT !.left = n]
  OBVIOUS
<1>5. w \in CollectionCall /\ w.missed = old.missed
  BY <1>3, <1>4 DEF CollectionCall
<1>6. PartFails(old) = IF old.full THEN NextPart(w)
                       ELSE [w EXCEPT !.step = "failed", !.linked = FALSE]
  BY <1>3, <1>4 DEF PartFails
<1>7. [w EXCEPT !.step = "failed", !.linked = FALSE].missed = w.missed
  BY <1>5 DEF CollectionCall
<1> QED
  BY <1>1, <1>5, <1>6, <1>7

(* What is missed anew has an id that was not used, and no row is written.  *)
LEMMA MissedGrows ==
    ASSUME EvidenceInv, NEW c \in Collections, CollectionNext, NEW id \in collects'[c].missed
    PROVE  \/ id \in collects[c].missed
           \/ ~Used(id) /\ id \in Ids /\ id[1] = c /\ Spent(collects'[c], id) /\ evidence' = evidence
<1>1. \A d \in Collections : collects[d] \in CollectionCall
  BY DEF EvidenceInv, CallsKept, CallKept
<1>2. collects = [d \in Collections |-> collects[d]]
  BY DEF EvidenceInv, CallsKept
<1> DEFINE Same == collects'[c].missed = collects[c].missed
<1>3. ASSUME NEW d \in Collections, NEW plan \in Plans, BeginCollection(d, plan)
      PROVE  collects'[c].missed \subseteq collects[c].missed
  <2>1. PICK u : u = [NoCollection EXCEPT !.step = "ready", !.plan = plan, !.full = Len(plan) > 1]
    OBVIOUS
  <2>2. u.missed = {}
    BY <2>1 DEF NoCollection
  <2>3. collects' = [collects EXCEPT ![d] = u]
    BY <1>3, <2>1 DEF BeginCollection
  <2> QED
    BY <1>2, <2>2, <2>3
<1>4. ASSUME NEW d \in Collections, NEW u, collects' = [collects EXCEPT ![d] = u],
             u.missed = collects[d].missed
      PROVE  Same
  BY <1>2, <1>4
<1>5. ASSUME NEW d \in Collections, collects' = LogFileMissed(d), evidence' = evidence,
             collects[d].step \in {"gathering", "storing"}
      PROVE  \/ id \in collects[c].missed
             \/ ~Used(id) /\ id \in Ids /\ id[1] = c /\ Spent(collects'[c], id)
  <2>1. IdOf(d) \in Ids /\ IdOf(d)[1] = d /\ IdOf(d)[2] = Len(collects[d].plan)
        /\ IdOf(d)[3] = collects[d].paths /\ collects[d].paths \in Int
    BY <1>1 DEF IdOf, Ids, CollectionCall
  <2>n. PICK n \in Int : n = collects[d].paths - 1
    BY <2>1
  <2>m. PICK m : m = collects[d].missed \cup {IdOf(d)}
    OBVIOUS
  <2>2. n = collects[d].paths - 1 /\ m = collects[d].missed \cup {IdOf(d)}
    BY <2>n, <2>m
  <2>3. PICK u : u = [collects[d] EXCEPT !.step = "gathering", !.paths = n, !.missed = m]
    OBVIOUS
  <2>a. LogFileMissed(d) = [collects EXCEPT ![d] = [collects[d] EXCEPT !.step = "gathering",
                              !.paths = collects[d].paths - 1,
                              !.missed = collects[d].missed \cup {IdOf(d)}]]
    BY Zenon DEF LogFileMissed
  <2>4. collects' = [collects EXCEPT ![d] = u]
    BY <1>5, <2>2, <2>3, <2>a, Zenon
  <2>5. u.step = "gathering" /\ u.paths = n /\ u.missed = m /\ u.plan = collects[d].plan
    BY <1>1, <2>3 DEF CollectionCall
  <2>6. Spent(u, IdOf(d)) /\ ~Spent(collects[d], IdOf(d))
    <3>1. /\ Len(collects[d].plan) \in Nat /\ n < collects[d].paths
      BY <1>1, <2>1, <2>2 DEF CollectionCall
    <3> QED
      BY <1>1, <1>5, <2>1, <2>2, <2>5, <3>1 DEF Spent, CollectionCall
  <2>7. CASE c # d
    BY <1>2, <2>4, <2>7
  <2>8. CASE c = d
    <3>1. collects'[c] = u
      BY <1>2, <2>4, <2>8
    <3>2. id \in collects[c].missed \/ id = IdOf(c)
      BY <2>2, <2>5, <2>8, <3>1
    <3> QED
      BY <2>1, <2>6, <2>8, <3>1, <3>2 DEF Used
  <2> QED
    BY <2>7, <2>8
<1>6. ASSUME NEW d \in Collections, NEW text PROVE Gathered(d, text)[c].missed = collects[c].missed
  <2>1. PICK u : u = [collects[d] EXCEPT !.step = "storing", !.text = text]
    OBVIOUS
  <2>2. Gathered(d, text) = [collects EXCEPT ![d] = u]
    BY <1>2, <2>1 DEF Gathered
  <2>3. u.missed = collects[d].missed
    BY <1>1, <2>1 DEF CollectionCall
  <2> QED
    BY <1>2, <2>2, <2>3
<1>7. ASSUME NEW d \in Collections, ConnectForPart(d) PROVE Same
  <2>1. CASE collects' = [collects EXCEPT ![d].step = "gathering", ![d].linked = TRUE,
                                          ![d].paths = LogPaths]
    <3>1. PICK u : u = [collects[d] EXCEPT !.step = "gathering", !.linked = TRUE, !.paths = LogPaths]
      OBVIOUS
    <3>2. collects' = [collects EXCEPT ![d] = u] /\ u.missed = collects[d].missed
      BY <1>1, <1>2, <2>1, <3>1 DEF CollectionCall
    <3> QED
      BY <1>4, <3>2
  <2>2. CASE collects' = [collects EXCEPT ![d] = PartFails(@)]
    BY <1>1, <1>4, <2>2, PartsMissNothing
  <2> QED
    BY <1>7, <2>1, <2>2 DEF ConnectForPart
<1>8. ASSUME NEW d \in Collections, GatherLogFile(d)
      PROVE  Same \/ (collects' = LogFileMissed(d) /\ evidence' = evidence
                         /\ collects[d].step \in {"gathering", "storing"})
  BY <1>6, <1>8 DEF GatherLogFile
<1>9. ASSUME NEW d \in Collections, FinishLogFiles(d) PROVE Same
  BY <1>1, <1>4, <1>9, PartsMissNothing DEF FinishLogFiles
<1>10. ASSUME NEW d \in Collections, CaptureCommandOutput(d) PROVE Same
  BY <1>1, <1>4, <1>6, <1>10, PartsMissNothing DEF CaptureCommandOutput
<1>11. ASSUME NEW d \in Collections, CollectSystemDiagnostics(d) \/ CollectWordPressDiagnostics(d)
       PROVE  Same
  <2>1. PICK text : collects' = [Gathered(d, text) EXCEPT ![d].linked = FALSE]
    BY <1>11 DEF CollectSystemDiagnostics, CollectWordPressDiagnostics
  <2>2. PICK u : u = [collects[d] EXCEPT !.step = "storing", !.text = text, !.linked = FALSE]
    OBVIOUS
  <2>3. collects' = [collects EXCEPT ![d] = u]
    BY <1>1, <1>2, <2>1, <2>2 DEF Gathered
  <2>4. u.missed = collects[d].missed
    BY <1>1, <2>2 DEF CollectionCall
  <2> QED
    BY <1>4, <2>3, <2>4
<1>12. ASSUME NEW d \in Collections, StoreGathered(d)
       PROVE  Same \/ (collects' = LogFileMissed(d) /\ evidence' = evidence
                          /\ collects[d].step \in {"gathering", "storing"})
  <2> DEFINE call == collects[d]
             next == [call EXCEPT !.step = "gathering", !.paths = @ - 1]
  <2>2. CASE /\ evidence' = evidence
             /\ collects' = LogFileMissed(d)
    BY <1>12, <2>2 DEF StoreGathered
  <2>3. CASE collects' = [collects EXCEPT ![d] = PartFails(call)]
    BY <1>1, <1>4, <2>3, PartsMissNothing
  <2>4. CASE \E w \in {next, NextPart(call)} :
                collects' = [collects EXCEPT ![d] = [w EXCEPT !.told = @ \cup {IdOf(d)}]]
    <3>1. PICK w \in {next, NextPart(call)} :
             collects' = [collects EXCEPT ![d] = [w EXCEPT !.told = w.told \cup {IdOf(d)}]]
      BY <2>4
    <3>2. w.missed = call.missed
      BY <1>1, <3>1, PartsMissNothing DEF CollectionCall
    <3>3. [w EXCEPT !.told = w.told \cup {IdOf(d)}].missed = w.missed
      OBVIOUS
    <3> QED
      BY <1>4, <3>1, <3>2, <3>3
  <2>5. \/ evidence' = evidence /\ collects' = LogFileMissed(d)
        \/ collects' = [collects EXCEPT ![d] = PartFails(call)]
        \/ \E w \in {next, NextPart(call)} :
               collects' = [collects EXCEPT ![d] = [w EXCEPT !.told = @ \cup {IdOf(d)}]]
    <3>1. CASE Head(call.plan) = "logs"
      BY <1>12, <3>1 DEF StoreGathered, StoreFails
    <3>2. CASE Head(call.plan) # "logs"
      BY <1>12, <3>2 DEF StoreGathered, StoreFails
    <3> QED
      BY <3>1, <3>2
  <2> QED
    BY <2>2, <2>3, <2>4, <2>5
<1>13. ASSUME (\E row \in evidence : DeleteEvidence(row.id)) \/ IncidentGone PROVE Same
  BY <1>13 DEF DeleteEvidence, IncidentGone
<1> QED
  BY <1>3, <1>5, <1>7, <1>8, <1>9, <1>10, <1>11, <1>12, <1>13 DEF CollectionNext

(* While the rows only go, or come with ids that were not used.             *)
LEMMA MissedStays ==
    ASSUME MissedKept, collects' = collects, \A row \in evidence' : \E was \in evidence : was.id = row.id
    PROVE  MissedKept'
<1>1. \A id : Used(id)' <=> Used(id)
  BY DEF Used
<1> QED
  BY <1>1 DEF MissedKept

LEMMA CollectionsKeepAll ==
    ASSUME AnonInv, CollectionNext, UNCHANGED <<private, anon>>
    PROVE  AnonInv'
<1> DEFINE Kept == /\ EvidenceInv' /\ (\A id : Used(id) => Used(id)')
                   /\ \A row \in evidence' : row \in evidence \/ ~Used(row.id)
<1>1. Kept
  <2>1. ASSUME NEW c \in Collections,
               \/ \E plan \in Plans : BeginCollection(c, plan)
               \/ ConnectForPart(c) \/ GatherLogFile(c) \/ FinishLogFiles(c) \/ CaptureCommandOutput(c)
               \/ CollectSystemDiagnostics(c) \/ CollectWordPressDiagnostics(c)
        PROVE  Kept
    <3>1. evidence' = evidence
      BY <2>1 DEF BeginCollection, ConnectForPart, GatherLogFile, FinishLogFiles, CaptureCommandOutput,
                  CollectSystemDiagnostics, CollectWordPressDiagnostics
    <3> QED
      BY <2>1, <3>1, CollectionStepsKeep DEF AnonInv
  <2>2. ASSUME NEW c \in Collections, StoreGathered(c) PROVE Kept
    BY <2>2, StoringKeeps DEF AnonInv
  <2>3. CASE (\E row \in evidence : DeleteEvidence(row.id)) \/ IncidentGone
    BY <2>3, DeletingKeeps DEF AnonInv
  <2> QED
    BY <2>1, <2>2, <2>3 DEF CollectionNext
<1>2. AnonKept' /\ anon' = anon
  BY DEF AnonInv, AnonKept
<1>3. ReadingKept'
  BY <1>1, <1>2, ReadingStays DEF AnonInv
<1>4. MissedKept'
  <2> SUFFICES ASSUME NEW c \in Collections, NEW id \in collects'[c].missed
               PROVE  Used(id)' /\ \A row \in evidence' : row.id # id
    BY DEF MissedKept
  <2>1. CASE id \in collects[c].missed
    <3>1. Used(id) /\ \A row \in evidence : row.id # id
      BY <2>1 DEF AnonInv, MissedKept
    <3> QED
      BY <1>1, <3>1
  <2>2. CASE ~Used(id) /\ id \in Ids /\ id[1] = c /\ Spent(collects'[c], id) /\ evidence' = evidence
    <3>1. \A row \in evidence : Used(row.id)
      BY DEF AnonInv, EvidenceInv, RowsKept
    <3>2. Used(id)'
      BY <2>2 DEF Used, Spent
    <3> QED
      BY <2>2, <3>1, <3>2
  <2> QED
    BY <2>1, <2>2, MissedGrows DEF AnonInv
<1> QED
  BY <1>1, <1>2, <1>3, <1>4 DEF AnonInv

(***************************************************************************)
(* Anonymization                                                           *)
(***************************************************************************)

(* A step of the anonymization that leaves the evidence alone.              *)
LEMMA EvidenceLeftAlone ==
    ASSUME AnonInv, AnonKept', UNCHANGED evidenceVars, ReadingKept'
    PROVE  AnonInv'
<1>1. \A id : Used(id)' <=> Used(id)
  BY DEF Used, evidenceVars
<1>2. EvidenceInv'
  BY <1>1 DEF AnonInv, EvidenceInv, SceneKept, CallsKept, RowsKept, ToldKept, EvidenceRow, GenuineRow, evidenceVars
<1>3. MissedKept'
  BY MissedStays DEF AnonInv, evidenceVars
<1> QED
  BY <1>2, <1>3 DEF AnonInv

(* The same for what is read: nothing more than before.                     *)
LEMMA ReadingOnlyLess ==
    ASSUME AnonInv, AnonKept', UNCHANGED evidenceVars, anon'.reading \subseteq anon.reading
    PROVE  AnonInv'
<1>1. \A id : Used(id) => Used(id)'
  BY DEF Used, evidenceVars
<1>2. ReadingKept'
  BY <1>1, ReadingStays DEF AnonInv, evidenceVars
<1> QED
  BY <1>2, EvidenceLeftAlone

LEMMA ResultKept ==
    ASSUME AnonKept, anon.step \in {"tables", "rewriting"}, NEW n, anon' = Result(anon, n),
           \A table \in DOMAIN private' : private'[table] \subseteq PrivateRows,
           DOMAIN private' = DOMAIN private
    PROVE  AnonKept' /\ anon'.reading = {}
<1>1. PICK total, todo : total = anon.total + n /\ todo = Tail(anon.todo)
  OBVIOUS
<1>2. anon' = [anon EXCEPT !.step = "tables", !.todo = todo, !.reading = {}, !.counted = 0, !.total = total]
  BY <1>1 DEF Result
<1>3. anon' = [step |-> "tables", todo |-> todo, reading |-> {}, counted |-> 0, total |-> total,
               credentials |-> anon.credentials, personalData |-> anon.personalData, dry |-> anon.dry]
  BY <1>2 DEF AnonKept
<1> QED
  BY <1>3 DEF AnonKept

LEMMA RewrittenKept ==
    ASSUME AnonKept, NEW table \in DOMAIN private, NEW rows, private' = Rewritten(table, rows)
    PROVE  /\ \A t \in DOMAIN private' : private'[t] \subseteq PrivateRows
           /\ DOMAIN private' = DOMAIN private
<1> DEFINE clean == {[row EXCEPT !.raw = row.raw /\ row \notin rows] : row \in private[table]}
<1>1. ASSUME NEW row \in private[table] PROVE [row EXCEPT !.raw = row.raw /\ row \notin rows] \in PrivateRows
  <2>1. row \in PrivateRows
    BY DEF AnonKept
  <2> DEFINE raw == row.raw /\ row \notin rows
  <2>2. raw \in BOOLEAN
    OBVIOUS
  <2> HIDE DEF raw
  <2>3. [row EXCEPT !.raw = raw] \in PrivateRows
    BY <2>1, <2>2 DEF PrivateRows
  <2> QED
    BY <2>3 DEF raw
<1>2. clean \subseteq PrivateRows
  BY <1>1, Zenon
<1>3. private' = [private EXCEPT ![table] = clean]
  BY Zenon DEF Rewritten
<1> HIDE DEF clean
<1> QED
  BY <1>2, <1>3 DEF AnonKept

LEMMA TablesKeep ==
    ASSUME AnonInv,
           \/ ExecuteAnonymization \/ CountRecordsToAnonymize \/ AnonymizeAuditEvents
           \/ AnonymizeCommandExecutions \/ AnonymizeUserSessions \/ AnonymizeServers
           \/ EvidenceRewritten \/ FinishAnonymization
    PROVE  AnonInv'
<1>1. AnonKept
  BY DEF AnonInv
<1>2. ASSUME ExecuteAnonymization PROVE AnonKept' /\ UNCHANGED evidenceVars /\ anon'.reading = anon.reading
  <2>1. PICK dry, credentials, personalData \in BOOLEAN, todo \in {AnonymizedTables, <<"evidence">>} :
           anon' = [anon EXCEPT !.step = "tables", !.todo = todo, !.credentials = credentials,
                                !.personalData = personalData, !.dry = dry]
    BY <1>2 DEF ExecuteAnonymization
  <2>2. anon' = [step |-> "tables", todo |-> todo, reading |-> anon.reading, counted |-> anon.counted,
                 total |-> anon.total, credentials |-> credentials, personalData |-> personalData, dry |-> dry]
    BY <1>1, <2>1 DEF AnonKept
  <2>3. anon.reading = {}
    BY <1>1, <1>2 DEF AnonKept, ExecuteAnonymization
  <2> QED
    BY <1>1, <1>2, <2>2, <2>3 DEF AnonKept, ExecuteAnonymization
<1>3. ASSUME FinishAnonymization PROVE AnonKept' /\ UNCHANGED evidenceVars /\ anon'.reading = anon.reading
  <2>1. anon' = [anon EXCEPT !.step = "over"] /\ anon.reading = {}
    BY <1>1, <1>3 DEF FinishAnonymization, AnonKept
  <2>2. anon' = [step |-> "over", todo |-> anon.todo, reading |-> anon.reading, counted |-> anon.counted,
                 total |-> anon.total, credentials |-> anon.credentials, personalData |-> anon.personalData,
                 dry |-> anon.dry]
    BY <1>1, <2>1 DEF AnonKept
  <2> QED
    BY <1>1, <1>3, <2>1, <2>2 DEF AnonKept, FinishAnonymization
<1>4. ASSUME NEW n, anon' = Result(anon, n), anon.step \in {"tables", "rewriting"}, UNCHANGED evidenceVars,
             \/ private' = private
             \/ \E table \in DOMAIN private : \E rows : private' = Rewritten(table, rows)
      PROVE  AnonInv'
  <2>1. /\ \A t \in DOMAIN private' : private'[t] \subseteq PrivateRows
        /\ DOMAIN private' = DOMAIN private
    <3>1. CASE private' = private
      BY <1>1, <3>1 DEF AnonKept
    <3>2. CASE \E table \in DOMAIN private : \E rows : private' = Rewritten(table, rows)
      BY <1>1, <3>2, RewrittenKept
    <3> QED
      BY <1>4, <3>1, <3>2
  <2>2. AnonKept' /\ anon'.reading \subseteq anon.reading
    BY <1>1, <1>4, <2>1, ResultKept
  <2> QED
    BY <1>4, <2>2, ReadingOnlyLess
<1>5. CASE CountRecordsToAnonymize
  <2>1. PICK n : anon' = Result(anon, n) /\ anon.step = "tables" /\ UNCHANGED <<evidenceVars, private>>
    BY <1>5 DEF CountRecordsToAnonymize
  <2> QED
    BY <1>4, <2>1
<1>6. CASE EvidenceRewritten
  <2>1. anon' = Result(anon, anon.counted) /\ anon.step = "rewriting" /\ UNCHANGED <<evidenceVars, private>>
    BY <1>6 DEF EvidenceRewritten
  <2> QED
    BY <1>4, <2>1
<1>7. CASE \/ AnonymizeAuditEvents \/ AnonymizeCommandExecutions \/ AnonymizeUserSessions \/ AnonymizeServers
  <2>1. /\ anon.step = "tables" /\ UNCHANGED evidenceVars
        /\ \E n : anon' = Result(anon, n)
        /\ \E table \in {"audit_events", "command_executions", "user_sessions", "servers"} :
              \E rows : private' = Rewritten(table, rows)
    <3>1. CASE AnonymizeAuditEvents
      BY <3>1 DEF AnonymizeAuditEvents, AtTable
    <3>2. CASE AnonymizeCommandExecutions
      BY <3>2 DEF AnonymizeCommandExecutions, AtTable
    <3>3. CASE AnonymizeUserSessions
      BY <3>3 DEF AnonymizeUserSessions, AtTable
    <3>4. CASE AnonymizeServers
      BY <3>4 DEF AnonymizeServers, AtTable
    <3> QED
      BY <1>7, <3>1, <3>2, <3>3, <3>4
  <2>2. \E table \in DOMAIN private : \E rows : private' = Rewritten(table, rows)
    BY <1>1, <2>1 DEF AnonKept
  <2> QED
    BY <1>4, <2>1, <2>2
<1>8. CASE ExecuteAnonymization \/ FinishAnonymization
  <2>1. AnonKept' /\ UNCHANGED evidenceVars /\ anon'.reading \subseteq anon.reading
    BY <1>2, <1>3, <1>8
  <2> QED
    BY <2>1, ReadingOnlyLess
<1> QED
  BY <1>5, <1>6, <1>7, <1>8

(* The days that pass make every row old, and change nothing else.          *)
LEMMA DaysPassKeeps ==
    ASSUME AnonInv, DaysPass
    PROVE  AnonInv'
<1>1. /\ evidence' = {[row EXCEPT !.old = TRUE] : row \in evidence}
      /\ UNCHANGED <<collects, scene, private, anon>>
  BY DEF DaysPass
<1>2. ASSUME NEW row \in evidence, NEW aged, aged = [row EXCEPT !.old = TRUE]
      PROVE  /\ EvidenceRow(aged) /\ GenuineRow(aged) /\ aged.id = row.id /\ aged.old
             /\ aged.signature = row.signature
  <2>1. EvidenceRow(row) /\ GenuineRow(row)
    BY DEF AnonInv, EvidenceInv, RowsKept
  <2>2. aged = [row EXCEPT !.old = TRUE]
    BY <1>2
  <2>3. aged = [id |-> row.id, content |-> row.content, signature |-> row.signature, old |-> TRUE]
    BY <2>1, <2>2 DEF EvidenceRow
  <2>4. /\ EvidenceRow(aged) /\ GenuineRow(aged) /\ aged.id = row.id /\ aged.old
        /\ aged.signature = row.signature
    BY <2>1, <2>3 DEF EvidenceRow, GenuineRow
  <2> QED
    BY <2>2, <2>4
<1>a. \A aged \in evidence' : \E row \in evidence :
         /\ EvidenceRow(aged) /\ GenuineRow(aged) /\ aged.id = row.id /\ aged.old
         /\ aged.signature = row.signature /\ aged = [row EXCEPT !.old = TRUE]
  <2> SUFFICES ASSUME NEW aged, NEW row \in evidence, aged = [row EXCEPT !.old = TRUE]
               PROVE  /\ EvidenceRow(aged) /\ GenuineRow(aged) /\ aged.id = row.id /\ aged.old
                      /\ aged.signature = row.signature
    BY <1>1
  <2> QED
    BY <1>2
<1>3. \A id : Used(id)' <=> Used(id)
  BY <1>1 DEF Used
<1>4. RowsKept'
  <2>1. \A row \in evidence' : EvidenceRow(row) /\ GenuineRow(row) /\ Used(row.id)
    BY <1>a DEF AnonInv, EvidenceInv, RowsKept
  <2>2. (\A row \in evidence : EvidenceRow(row) /\ GenuineRow(row) /\ Used(row.id))'
    BY <1>3, <2>1 DEF EvidenceRow, GenuineRow
  <2>3. \A one, other \in evidence' : one.id = other.id => one = other
    <3>1. \A one, other \in evidence : one.id = other.id => one = other
      BY DEF AnonInv, EvidenceInv, RowsKept
    <3> SUFFICES ASSUME NEW one \in evidence', NEW other \in evidence', one.id = other.id
                 PROVE  one = other
      OBVIOUS
    <3>2. PICK was \in evidence : one.id = was.id /\ one = [was EXCEPT !.old = TRUE]
      BY <1>a
    <3>3. PICK were \in evidence : other.id = were.id /\ other = [were EXCEPT !.old = TRUE]
      BY <1>a
    <3> QED
      BY <3>1, <3>2, <3>3
  <2> QED
    BY <1>1, <2>2, <2>3 DEF RowsKept, AnonInv, EvidenceInv
<1>5. {row.id : row \in evidence} \subseteq {row.id : row \in evidence'}
  <2> SUFFICES ASSUME NEW row \in evidence PROVE \E aged \in evidence' : aged.id = row.id
    OBVIOUS
  <2>1. PICK aged \in evidence' : aged = [row EXCEPT !.old = TRUE]
    BY <1>1
  <2> QED
    BY <1>2, <2>1
<1>6. SceneKept' /\ CallsKept' /\ ToldKept'
  BY <1>1, <1>5 DEF AnonInv, EvidenceInv, SceneKept, CallsKept, ToldKept
<1>7. ReadingKept'
  <2> SUFFICES ASSUME NEW read \in anon.reading
               PROVE  /\ EvidenceRow(read) /\ GenuineRow(read) /\ Used(read.id)' /\ read.old
                      /\ \A row \in evidence' : row.id = read.id => row.old /\ row.signature = read.signature
    BY <1>1 DEF ReadingKept, EvidenceRow, GenuineRow
  <2>1. /\ EvidenceRow(read) /\ GenuineRow(read) /\ Used(read.id) /\ read.old
        /\ \A row \in evidence : row.id = read.id => row.old /\ row.signature = read.signature
    BY DEF AnonInv, ReadingKept
  <2> QED
    BY <1>a, <1>3, <2>1
<1>8. AnonKept'
  BY <1>1 DEF AnonInv, AnonKept
<1>9. MissedKept'
  BY <1>1, <1>a, MissedStays DEF AnonInv
<1> QED
  BY <1>4, <1>6, <1>7, <1>8, <1>9 DEF AnonInv, EvidenceInv

LEMMA ReadingKeeps ==
    ASSUME AnonInv, ReadEvidence
    PROVE  AnonInv'
<1>1. /\ anon' = [anon EXCEPT !.step = "rewriting", !.reading = OldRows("evidence")]
      /\ UNCHANGED <<evidenceVars, private>>
  BY DEF ReadEvidence
<1>2. OldRows("evidence") = {row \in evidence : row.old}
  BY DEF OldRows
<1>a. PICK rows : rows = {row \in evidence : row.old}
  OBVIOUS
<1>3. anon' = [step |-> "rewriting", todo |-> anon.todo, reading |-> rows,
               counted |-> anon.counted, total |-> anon.total, credentials |-> anon.credentials,
               personalData |-> anon.personalData, dry |-> anon.dry]
  BY <1>1, <1>2, <1>a DEF AnonInv, AnonKept
<1>4. AnonKept'
  BY <1>1, <1>3 DEF AnonInv, AnonKept
<1>5. \A id : Used(id)' <=> Used(id)
  BY <1>1 DEF Used, evidenceVars
<1>6. ReadingKept'
  <2>1. anon'.reading = {row \in evidence : row.old} /\ evidence' = evidence
    <3>1. evidence' = evidence
      BY <1>1 DEF evidenceVars
    <3>2. anon'.reading = rows
      BY <1>3
    <3> QED
      BY <1>a, <3>1, <3>2
  <2>2. ASSUME NEW read \in evidence, read.old
        PROVE  /\ EvidenceRow(read) /\ GenuineRow(read) /\ Used(read.id)' /\ read.old
               /\ \A row \in evidence : row.id = read.id => row.old /\ row.signature = read.signature
    BY <1>5, <2>2 DEF AnonInv, EvidenceInv, RowsKept
  <2> SUFFICES ASSUME NEW read \in anon'.reading
               PROVE  /\ EvidenceRow(read) /\ GenuineRow(read) /\ Used(read.id)' /\ read.old
                      /\ \A row \in evidence' : row.id = read.id => row.old /\ row.signature = read.signature
    BY DEF ReadingKept, EvidenceRow, GenuineRow
  <2> QED
    BY <2>1, <2>2
<1> QED
  BY <1>1, <1>4, <1>6, EvidenceLeftAlone

(* What is written is what was read, without what is personal or with it.   *)
LEMMA ContentIsGenuine ==
    ASSUME NEW read, EvidenceRow(read), GenuineRow(read), read.old, NEW row, EvidenceRow(row), row.old,
           row.signature = read.signature, NEW u, u = [row EXCEPT !.content = AnonymizedContent(read.content)]
    PROVE  EvidenceRow(u) /\ GenuineRow(u) /\ u.id = row.id /\ u.old /\ u.signature = row.signature
<1>1. PICK content : content = AnonymizedContent(read.content)
  OBVIOUS
<1>a. PICK old, id, signature : old = row.old /\ id = row.id /\ signature = row.signature
  OBVIOUS
<1>2. u = [id |-> id, content |-> content, signature |-> signature, old |-> old]
  BY <1>1, <1>a DEF EvidenceRow
<1>3. /\ content \in [zipped : BOOLEAN, text : Texts]
      /\ \/ content.text = read.content.text
         \/ content.text = [read.content.text EXCEPT !.personal = FALSE]
  <2>1. PICK text \in Texts, zipped \in BOOLEAN : read.content = [zipped |-> zipped, text |-> text]
    BY DEF EvidenceRow
  <2>2. PICK bare \in Texts : bare = [text EXCEPT !.personal = FALSE]
    BY DEF Texts
  <2>3. CASE content = read.content
    BY <2>1, <2>3
  <2>a. PICK was : was = read.content
    OBVIOUS
  <2>b. [was EXCEPT !.text.personal = FALSE] = [zipped |-> zipped, text |-> bare]
    <3>1. was = [zipped |-> zipped, text |-> text]
      BY <2>1, <2>a
    <3>2. [was EXCEPT !.text.personal = FALSE] = [was EXCEPT !.text = [was.text EXCEPT !.personal = FALSE]]
      OBVIOUS
    <3>3. [was EXCEPT !.text.personal = FALSE] = [was EXCEPT !.text = bare]
      BY <2>2, <3>1, <3>2
    <3> QED
      BY <3>1, <3>3
  <2>4. CASE content = [zipped |-> zipped, text |-> bare]
    BY <2>1, <2>2, <2>4
  <2> QED
    BY <1>1, <2>1, <2>3, <2>4, <2>a, <2>b DEF AnonymizedContent
<1>4. \/ content.text = row.signature
      \/ content.text = [row.signature EXCEPT !.personal = FALSE]
  <2>a. PICK signed \in Texts : signed = read.signature
    BY DEF EvidenceRow
  <2>b. PICK bare : bare = [signed EXCEPT !.personal = FALSE]
    OBVIOUS
  <2>1. signed = read.signature /\ bare = [signed EXCEPT !.personal = FALSE]
    BY <2>a, <2>b
  <2>2. [bare EXCEPT !.personal = FALSE] = bare
    BY <2>1 DEF Texts
  <2>3. read.content.text \in {signed, bare}
    BY <2>1 DEF GenuineRow
  <2>4. content.text \in {signed, bare}
    BY <1>3, <2>1, <2>2, <2>3
  <2> QED
    BY <2>1, <2>4
<1>b. /\ u = [id |-> u.id, content |-> u.content, signature |-> u.signature, old |-> u.old]
      /\ u.id = id /\ u.content = content /\ u.signature = signature /\ u.old = old
  <2>1. u.id = id
    BY <1>2
  <2>2. u.content = content
    BY <1>2
  <2>3. u.signature = signature
    BY <1>2
  <2>4. u.old = old
    BY <1>2
  <2> QED
    BY <1>2, <2>1, <2>2, <2>3, <2>4
<1>5. /\ u = [id |-> u.id, content |-> u.content, signature |-> u.signature, old |-> u.old]
      /\ u.id = row.id /\ u.content = content /\ u.signature = row.signature /\ u.old = row.old
  BY <1>a, <1>b
<1>6. EvidenceRow(u)
  BY <1>3, <1>5 DEF EvidenceRow
<1>7. GenuineRow(u)
  BY <1>4, <1>5 DEF GenuineRow
<1> QED
  BY <1>5, <1>6, <1>7

LEMMA RewritingKeeps ==
    ASSUME AnonInv, RewriteEvidence
    PROVE  AnonInv'
<1>1. PICK read \in anon.reading :
          \/ /\ evidence' = {IF row.id = read.id
                             THEN [row EXCEPT !.content = AnonymizedContent(read.content)]
                             ELSE row : row \in evidence}
             /\ anon' = [anon EXCEPT !.reading = @ \ {read}, !.counted = @ + 1]
          \/ anon' = Result(anon, 0) /\ UNCHANGED evidence
  BY DEF RewriteEvidence
<1>2. UNCHANGED <<collects, scene, private>> /\ anon.step = "rewriting" /\ AnonKept
  BY DEF RewriteEvidence, AnonInv
<1>3. CASE anon' = Result(anon, 0) /\ UNCHANGED evidence
  <2>1. AnonKept' /\ anon'.reading = {}
    BY <1>2, <1>3, ResultKept DEF AnonKept
  <2> QED
    BY <1>2, <1>3, <2>1, ReadingOnlyLess DEF evidenceVars
<1>4. CASE /\ evidence' = {IF row.id = read.id
                           THEN [row EXCEPT !.content = AnonymizedContent(read.content)]
                           ELSE row : row \in evidence}
           /\ anon' = [anon EXCEPT !.reading = @ \ {read}, !.counted = @ + 1]
  <2>1. PICK reading, counted : reading = anon.reading \ {read} /\ counted = anon.counted + 1
    OBVIOUS
  <2>2. anon' = [step |-> "rewriting", todo |-> anon.todo, reading |-> reading,
                 counted |-> counted, total |-> anon.total, credentials |-> anon.credentials,
                 personalData |-> anon.personalData, dry |-> anon.dry]
    <3>1. anon' = [anon EXCEPT !.reading = reading, !.counted = counted]
      BY <1>4, <2>1
    <3> QED
      BY <1>2, <3>1 DEF AnonKept
  <2>3. AnonKept'
    BY <1>2, <2>2 DEF AnonKept
  <2>4. /\ EvidenceRow(read) /\ GenuineRow(read) /\ read.old
        /\ \A row \in evidence : row.id = read.id => row.old /\ row.signature = read.signature
    BY DEF AnonInv, ReadingKept
  <2>5. \A row \in evidence : EvidenceRow(row) /\ GenuineRow(row) /\ Used(row.id)
    BY DEF AnonInv, EvidenceInv, RowsKept
  <2>6. \A row \in evidence' :
           /\ EvidenceRow(row) /\ GenuineRow(row)
           /\ \E was \in evidence : /\ was.id = row.id /\ row.old = was.old /\ row.signature = was.signature
                                    /\ row = IF was.id = read.id
                                             THEN [was EXCEPT !.content = AnonymizedContent(read.content)]
                                             ELSE was
    <3> SUFFICES ASSUME NEW was \in evidence, NEW row,
                        row = IF was.id = read.id
                              THEN [was EXCEPT !.content = AnonymizedContent(read.content)] ELSE was
                 PROVE  /\ EvidenceRow(row) /\ GenuineRow(row)
                        /\ was.id = row.id /\ row.old = was.old /\ row.signature = was.signature
      BY <1>4
    <3>1. CASE was.id = read.id
      <4>1. row = [was EXCEPT !.content = AnonymizedContent(read.content)]
        BY <3>1
      <4>2. EvidenceRow(was) /\ was.old /\ was.signature = read.signature
        BY <2>4, <2>5, <3>1
      <4>3. EvidenceRow(row) /\ GenuineRow(row) /\ row.id = was.id /\ row.old /\ row.signature = was.signature
        BY <2>4, <4>1, <4>2, ContentIsGenuine
      <4>4. row.old = was.old
        BY <4>2, <4>3 DEF EvidenceRow
      <4> QED
        BY <4>3, <4>4
    <3>2. CASE was.id # read.id
      BY <2>5, <3>2
    <3> QED
      BY <3>1, <3>2
  <2>7. \A id : Used(id)' <=> Used(id)
    BY <1>2 DEF Used
  <2>8. RowsKept'
    <3>1. (\A row \in evidence : EvidenceRow(row) /\ GenuineRow(row) /\ Used(row.id))'
      BY <2>5, <2>6, <2>7 DEF EvidenceRow, GenuineRow
    <3>2. \A one, other \in evidence' : one.id = other.id => one = other
      <4>1. \A one, other \in evidence : one.id = other.id => one = other
        BY DEF AnonInv, EvidenceInv, RowsKept
      <4> QED
        BY <2>6, <4>1
    <3>3. ~scene'.there => evidence' = {}
      BY <1>2, <1>4 DEF AnonInv, EvidenceInv, RowsKept
    <3> QED
      BY <3>1, <3>2, <3>3 DEF RowsKept
  <2>9. SceneKept' /\ CallsKept' /\ ToldKept'
    <3>1. {row.id : row \in evidence} \subseteq {row.id : row \in evidence'}
      <4> SUFFICES ASSUME NEW was \in evidence PROVE \E row \in evidence' : row.id = was.id
        OBVIOUS
      <4>1. PICK row \in evidence' : row = IF was.id = read.id
                                           THEN [was EXCEPT !.content = AnonymizedContent(read.content)] ELSE was
        BY <1>4
      <4>2. row.id = was.id
        BY <2>5, <4>1 DEF EvidenceRow
      <4> QED
        BY <4>2
    <3> QED
      BY <1>2, <3>1 DEF AnonInv, EvidenceInv, SceneKept, CallsKept, ToldKept
  <2>10. ReadingKept'
    <3> SUFFICES ASSUME NEW r \in anon.reading
                 PROVE  /\ EvidenceRow(r) /\ GenuineRow(r) /\ Used(r.id)' /\ r.old
                        /\ \A row \in evidence' : row.id = r.id => row.old /\ row.signature = r.signature
      BY <2>1, <2>2 DEF ReadingKept, EvidenceRow, GenuineRow
    <3>1. /\ EvidenceRow(r) /\ GenuineRow(r) /\ Used(r.id) /\ r.old
          /\ \A row \in evidence : row.id = r.id => row.old /\ row.signature = r.signature
      BY DEF AnonInv, ReadingKept
    <3> QED
      BY <2>6, <2>7, <3>1
  <2>11. MissedKept'
    BY <1>2, <2>6, MissedStays DEF AnonInv
  <2> QED
    BY <2>3, <2>8, <2>9, <2>10, <2>11 DEF AnonInv, EvidenceInv
<1> QED
  BY <1>1, <1>3, <1>4

LEMMA AnonymizationStarts == AnonymizationInit => AnonInv
<1> SUFFICES ASSUME AnonymizationInit PROVE AnonInv
  OBVIOUS
<1>1. NoCollection \in CollectionCall /\ NoText \in Texts
  <2>1. NoText \in Texts
    BY DEF NoText, Texts
  <2> QED
    BY <2>1 DEF NoCollection, CollectionCall
<1>2. CallKept(NoCollection, 0)
  BY <1>1 DEF CallKept, NoCollection, CommandLast
<1>3. SceneKept /\ CallsKept /\ RowsKept /\ ToldKept /\ MissedKept
  <2>1. scene = [there |-> TRUE, deleted |-> {}, faults |-> 0]
    BY DEF AnonymizationInit, EvidenceInit
  <2>2. SceneKept /\ scene.faults = 0 /\ scene.deleted = {} /\ scene.there
    BY <2>1 DEF SceneKept
  <2>3. evidence = {} /\ collects = [c \in Collections |-> NoCollection]
    BY DEF AnonymizationInit, EvidenceInit
  <2>4. NoCollection.left = 0 /\ NoCollection.told = {} /\ NoCollection.missed = {}
    BY DEF NoCollection
  <2> QED
    BY <1>2, <2>2, <2>3, <2>4 DEF CallsKept, RowsKept, ToldKept, MissedKept
<1>4. anon = [step |-> "idle", todo |-> <<>>, reading |-> {}, counted |-> 0, total |-> 0,
              credentials |-> TRUE, personalData |-> TRUE, dry |-> FALSE]
  BY DEF AnonymizationInit, PrivateInit
<1>5. /\ DOMAIN private = {"audit_events", "command_executions", "user_sessions", "servers"}
      /\ \A table \in DOMAIN private : private[table] \subseteq PrivateRows
  <2>1. PICK age \in 1..2 :
          private = [table \in {"audit_events", "command_executions", "user_sessions", "servers"} |->
                        {[id |-> 1, age |-> age, raw |-> TRUE],
                         [id |-> 2, age |-> IF table = "user_sessions" THEN age - 1 ELSE 0, raw |-> TRUE]}]
    BY DEF AnonymizationInit, PrivateInit
  <2>2. ASSUME NEW a \in 0..2, NEW i \in 1..2 PROVE [id |-> i, age |-> a, raw |-> TRUE] \in PrivateRows
    BY DEF PrivateRows
  <2>3. age \in 0..2 /\ age - 1 \in 0..2 /\ 0 \in 0..2 /\ 1 \in 1..2 /\ 2 \in 1..2
    OBVIOUS
  <2> QED
    BY <2>1, <2>2, <2>3
<1>6. AnonKept /\ ReadingKept
  BY <1>4, <1>5 DEF AnonKept, ReadingKept
<1> QED
  BY <1>3, <1>6 DEF AnonInv, EvidenceInv

LEMMA AnonymizationStep == AnonInv /\ [AnonymizationNext]_anonymizationVars => AnonInv'
<1> SUFFICES ASSUME AnonInv, [AnonymizationNext]_anonymizationVars PROVE AnonInv'
  OBVIOUS
<1>1. CASE UNCHANGED anonymizationVars
  <2>1. AnonKept' /\ UNCHANGED evidenceVars /\ anon' = anon
    BY <1>1 DEF anonymizationVars, AnonInv, AnonKept
  <2> QED
    BY <2>1, ReadingOnlyLess
<1>2. CASE AnonymizationNext
  BY <1>2, CollectionsKeepAll, TablesKeep, DaysPassKeeps, ReadingKeeps, RewritingKeeps DEF AnonymizationNext
<1> QED
  BY <1>1, <1>2

LEMMA AnonymizationMeans == AnonInv => AnonymizationType /\ EvidenceGenuine
<1> SUFFICES ASSUME AnonInv PROVE AnonymizationType /\ EvidenceGenuine
  OBVIOUS
<1>1. EvidenceType
  BY DEF AnonInv, EvidenceInv, CallsKept, CallKept, CollectionCall, RowsKept, EvidenceRow, EvidenceType
<1>2. AnonymizationType
  BY <1>1 DEF AnonInv, AnonKept, AnonymizationType
<1>3. EvidenceGenuine
  BY DEF AnonInv, EvidenceInv, RowsKept, ToldKept, MissedKept, GenuineRow, EvidenceGenuine,
         GenerateSignature, GetEvidenceById, TotalEvidenceItems
<1> QED
  BY <1>2, <1>3

AnonymizationSpec == AnonymizationInit /\ [][AnonymizationNext]_anonymizationVars

(* The collections, the rows and the anonymization have their types, no two *)
(* rows have one id, and the collections leave no more connections open     *)
(* than were lost (evidence.service.ts, anonymization.service.ts).          *)
THEOREM AnonymizationTypeCorrect == AnonymizationSpec => []AnonymizationType
BY AnonymizationStarts, AnonymizationStep, AnonymizationMeans, PTL DEF AnonymizationSpec

(* Whatever is collected, deleted, purged and anonymized, and in whatever   *)
(* order, a row holds the text it was signed for, or the row is old and     *)
(* holds that text without what is personal; what a collection told its     *)
(* caller is there; and of what its total counts beyond that there is no row*)
(* (evidence.service.ts:571, anonymization.service.ts:357).                 *)
THEOREM EvidenceStaysGenuine == AnonymizationSpec => []EvidenceGenuine
BY AnonymizationStarts, AnonymizationStep, AnonymizationMeans, PTL DEF AnonymizationSpec

-----------------------------------------------------------------------------
AllRequests == Requests \cup {EscalationRequest}

(* What an event can tell, and the events there can be.                     *)
Tellable ==
    ({"state"} \X RecordStates) \cup ({"attempts", "maximum"} \X (0..2))
        \cup ({"resolved", "escalated", "deleted"} \X {TRUE})
EventTypes ==
    {"INCIDENT_CREATED", "STATE_TRANSITION", "FIX_ATTEMPT_INCREMENT", "MAX_ATTEMPTS_REACHED",
     "INCIDENT_RESOLVED", "INCIDENT_ESCALATED", "INCIDENT_DELETED"}
Events == [type : EventTypes, tells : Tellable]

UpdateCall ==
    [step : {"idle", "escalating", "writing", "recording", "deleting", "done", "failed"},
     request : AllRequests \cup {<<>>}, seen : RowType, owed : Seq(Events), ticket : RowType]

(* A call owes events only while it records them, and a row that it read    *)
(* before its write had no facts but those the incident ever had.           *)
CallSound(u, facts) ==
    /\ u \in UpdateCall
    /\ u.step # "recording" => u.owed = <<>>
    /\ u.step = "writing" => u.request \in AllRequests /\ Facts(u.seen) \subseteq facts

RecordInv ==
    /\ record \in RowType
    /\ timeline \in Seq(Events)
    /\ ~record.there => timeline = <<>>
    /\ past \in [facts : SUBSET Tellable, lost : SUBSET Tellable, faults : Nat, calls : Nat]
    /\ record.there => Facts(record) \subseteq past.facts
    /\ updates = [c \in RecordCalls |-> updates[c]]
    /\ \A c \in RecordCalls : CallSound(updates[c], past.facts)
    /\ TimelineExplains

LEMMA ToSetOfNone == ToSet(<<>>) = {} /\ \A e : ToSet(<<e>>) = {e}
BY DEF ToSet

LEMMA ToSetOfAppend ==
    ASSUME NEW S, NEW s \in Seq(S), NEW e \in S
    PROVE  ToSet(Append(s, e)) = ToSet(s) \cup {e}
<1>1. Append(s, e) \in Seq(S) /\ Len(Append(s, e)) = Len(s) + 1
  OBVIOUS
<1>2. DOMAIN s = 1..Len(s) /\ DOMAIN Append(s, e) = 1..(Len(s) + 1) /\ Len(s) \in Nat
  BY <1>1
<1>3. \A i \in 1..Len(s) : Append(s, e)[i] = s[i] /\ i \in 1..(Len(s) + 1)
  OBVIOUS
<1>4. Append(s, e)[Len(s) + 1] = e /\ Len(s) + 1 \in 1..(Len(s) + 1)
  OBVIOUS
<1>5. \A i \in 1..(Len(s) + 1) : i \in 1..Len(s) \/ i = Len(s) + 1
  BY <1>2
<1> QED
  BY <1>2, <1>3, <1>4, <1>5 DEF ToSet

LEMMA ToSetOfConcat ==
    ASSUME NEW S, NEW s \in Seq(S), NEW t \in Seq(S)
    PROVE  s \o t \in Seq(S) /\ ToSet(s \o t) = ToSet(s) \cup ToSet(t)
<1>1. /\ DOMAIN s = 1..Len(s) /\ DOMAIN t = 1..Len(t) /\ Len(s) \in Nat /\ Len(t) \in Nat
      /\ DOMAIN (s \o t) = 1..(Len(s) + Len(t))
  OBVIOUS
<1>2. \A i \in 1..Len(s) : (s \o t)[i] = s[i] /\ i \in 1..(Len(s) + Len(t))
  OBVIOUS
<1>3. \A i \in 1..Len(t) : (s \o t)[Len(s) + i] = t[i] /\ Len(s) + i \in 1..(Len(s) + Len(t))
  OBVIOUS
<1>4. \A i \in 1..(Len(s) + Len(t)) :
         i \in 1..Len(s) \/ \E k \in 1..Len(t) : i = Len(s) + k
  <2> TAKE i \in 1..(Len(s) + Len(t))
  <2>1. CASE i > Len(s)
    <3>1. i - Len(s) \in 1..Len(t) /\ i = Len(s) + (i - Len(s))
      BY <2>1, <1>1
    <3> QED
      BY <3>1
  <2> QED
    BY <2>1, <1>1
<1>5. ToSet(s) \subseteq ToSet(s \o t)
  BY <1>1, <1>2 DEF ToSet
<1>6. ToSet(t) \subseteq ToSet(s \o t)
  BY <1>1, <1>3 DEF ToSet
<1>7. ASSUME NEW i \in 1..(Len(s) + Len(t)) PROVE (s \o t)[i] \in ToSet(s) \cup ToSet(t)
  <2>1. CASE i \in 1..Len(s)
    <3>1. (s \o t)[i] = s[i] /\ i \in DOMAIN s
      BY <1>1, <1>2, <2>1
    <3> QED
      BY <3>1 DEF ToSet
  <2>2. ASSUME NEW k \in 1..Len(t), i = Len(s) + k PROVE (s \o t)[i] \in ToSet(t)
    <3>1. (s \o t)[i] = t[k] /\ k \in DOMAIN t
      BY <1>1, <1>3, <2>2
    <3> QED
      BY <3>1 DEF ToSet
  <2> QED
    BY <1>4, <2>1, <2>2
<1>8. ToSet(s \o t) \subseteq ToSet(s) \cup ToSet(t)
  BY <1>1, <1>7 DEF ToSet
<1> QED
  BY <1>5, <1>6, <1>8

LEMMA ToSetOfTail ==
    ASSUME NEW S, NEW s \in Seq(S), s # <<>>
    PROVE  /\ Head(s) \in S /\ Tail(s) \in Seq(S)
           /\ ToSet(s) = ToSet(Tail(s)) \cup {Head(s)}
<1>1. /\ Len(s) \in Nat \ {0} /\ DOMAIN s = 1..Len(s) /\ Head(s) = s[1] /\ Tail(s) \in Seq(S)
      /\ DOMAIN Tail(s) = 1..(Len(s) - 1)
  OBVIOUS
<1>2. \A i \in 1..(Len(s) - 1) : Tail(s)[i] = s[i + 1] /\ i + 1 \in 1..Len(s)
  BY <1>1
<1>3. \A i \in 1..Len(s) : i = 1 \/ (i - 1 \in 1..(Len(s) - 1) /\ Tail(s)[i - 1] = s[i])
  BY <1>1
<1>4. ToSet(Tail(s)) \cup {Head(s)} \subseteq ToSet(s)
  BY <1>1, <1>2 DEF ToSet
<1>5. ToSet(s) \subseteq ToSet(Tail(s)) \cup {Head(s)}
  BY <1>1, <1>3 DEF ToSet
<1> QED
  BY <1>1, <1>4, <1>5

(* What a request can ask for.                                              *)
LEMMA RequestColumns ==
    ASSUME NEW q \in AllRequests
    PROVE  /\ "there" \notin DOMAIN q
           /\ "state" \in DOMAIN q => q.state \in RecordStates
           /\ "attempts" \in DOMAIN q => q.attempts \in 1..2
           /\ "maximum" \in DOMAIN q => q.maximum \in 1..2
           /\ "resolved" \in DOMAIN q => q.resolved = TRUE
           /\ "escalated" \in DOMAIN q => q.escalated = TRUE
<1>1. CASE q \in [state : {"NEW", "FIX_ATTEMPTS"}]
  BY <1>1 DEF RecordStates
<1>2. CASE q \in [attempts : 1..2]
  BY <1>2
<1>3. CASE q \in [maximum : {1}]
  BY <1>3
<1>4. CASE q \in [attempts : {2}, maximum : {2}]
  BY <1>4
<1>5. CASE q \in [state : {"FIXED"}, resolved : {TRUE}]
  BY <1>5 DEF RecordStates
<1>6. CASE q = EscalationRequest
  BY <1>6 DEF EscalationRequest, RecordStates
<1> QED
  BY <1>1, <1>2, <1>3, <1>4, <1>5, <1>6 DEF AllRequests, Requests

LEMMA UpdatedRow ==
    ASSUME NEW row \in RowType, NEW q \in AllRequests
    PROVE  /\ Updated(row, q) \in RowType
           /\ Updated(row, q).there = row.there
           /\ \A column \in {"state", "attempts", "maximum", "resolved", "escalated"} :
                 Updated(row, q)[column] = IF column \in DOMAIN q THEN q[column] ELSE row[column]
<1>1. DOMAIN row = {"there", "state", "attempts", "maximum", "resolved", "escalated"}
  BY DEF RowType
<1>2. \A column \in DOMAIN row :
         Updated(row, q)[column] = IF column \in DOMAIN q THEN q[column] ELSE row[column]
  BY DEF Updated
<1>3. /\ Updated(row, q).there = row.there
      /\ \A column \in {"state", "attempts", "maximum", "resolved", "escalated"} :
            Updated(row, q)[column] = IF column \in DOMAIN q THEN q[column] ELSE row[column]
  BY <1>1, <1>2, RequestColumns
<1>4. row.there \in BOOLEAN /\ row.resolved \in BOOLEAN /\ row.escalated \in BOOLEAN
  BY DEF RowType
<1>5. /\ Updated(row, q).there \in BOOLEAN /\ Updated(row, q).resolved \in BOOLEAN
      /\ Updated(row, q).escalated \in BOOLEAN
  <2>1. /\ Updated(row, q).resolved = row.resolved \/ Updated(row, q).resolved = TRUE
        /\ Updated(row, q).escalated = row.escalated \/ Updated(row, q).escalated = TRUE
    BY <1>3, RequestColumns
  <2> QED
    BY <1>3, <1>4, <2>1
<1>6. Updated(row, q).state \in RecordStates
  BY <1>3, RequestColumns DEF RowType
<1>7. Updated(row, q).attempts \in 0..2 /\ Updated(row, q).maximum \in 1..2
  <2>1. row.attempts \in 0..2 /\ row.maximum \in 1..2
    BY DEF RowType
  <2>2. \A n \in 1..2 : n \in 0..2
    OBVIOUS
  <2>3. Updated(row, q).attempts = IF "attempts" \in DOMAIN q THEN q.attempts ELSE row.attempts
    BY <1>3
  <2>4. Updated(row, q).maximum = IF "maximum" \in DOMAIN q THEN q.maximum ELSE row.maximum
    BY <1>3
  <2> QED
    BY <2>1, <2>2, <2>3, <2>4, RequestColumns
<1>8. Updated(row, q) = [there |-> Updated(row, q).there, state |-> Updated(row, q).state,
                         attempts |-> Updated(row, q).attempts, maximum |-> Updated(row, q).maximum,
                         resolved |-> Updated(row, q).resolved, escalated |-> Updated(row, q).escalated]
  BY <1>1 DEF Updated
<1>9. Updated(row, q) \in RowType
  BY <1>5, <1>6, <1>7, <1>8 DEF RowType
<1> QED
  BY <1>3, <1>9

LEMMA FactsOfRow ==
    ASSUME NEW row \in RowType
    PROVE  /\ <<"state", row.state>> \in Facts(row)
           /\ row.attempts # 0 => <<"attempts", row.attempts>> \in Facts(row)
           /\ row.resolved => <<"resolved", TRUE>> \in Facts(row)
           /\ row.escalated => <<"escalated", TRUE>> \in Facts(row)
           /\ \A fact \in Facts(row) :
                 \/ fact = <<"state", row.state>>
                 \/ row.attempts # 0 /\ fact = <<"attempts", row.attempts>>
                 \/ row.resolved /\ fact = <<"resolved", TRUE>>
                 \/ row.escalated /\ fact = <<"escalated", TRUE>>
BY DEF Facts

LEMMA FactsAreTellable ==
    ASSUME NEW row \in RowType
    PROVE  Facts(row) \subseteq Tellable
<1>1. row.state \in RecordStates /\ row.attempts \in 0..2
  BY DEF RowType
<1>2. /\ <<"state", row.state>> \in Tellable /\ <<"attempts", row.attempts>> \in Tellable
      /\ <<"resolved", TRUE>> \in Tellable /\ <<"escalated", TRUE>> \in Tellable
  BY <1>1 DEF Tellable
<1> QED
  BY <1>2, FactsOfRow

(* What update owes is an event for all that it changed of what it read.    *)
LEMMA OwedIsEnough ==
    ASSUME NEW row \in RowType, NEW seen \in RowType, NEW q \in AllRequests
    PROVE  LET owed == EventsOwed(q, seen, Updated(row, q))
           IN  /\ owed \in Seq(Events)
               /\ \A fact \in Facts(Updated(row, q)) :
                     \/ fact \in Facts(row) \cup Facts(seen)
                     \/ \E event \in ToSet(owed) : event.tells = fact
                     \/ fact[1] = "attempts" /\ seen.attempts # 0 /\ seen.attempts > fact[2]
<1> DEFINE new == Updated(row, q)
           asked(column) == column \in DOMAIN q
           raised == asked("attempts") /\ q.attempts > seen.attempts
           a1 == Event("STATE_TRANSITION", <<"state", new.state>>)
           a2 == Event("FIX_ATTEMPT_INCREMENT", <<"attempts", new.attempts>>)
           a3 == Event("MAX_ATTEMPTS_REACHED", <<"maximum", new.maximum>>)
           f4 == <<"resolved", TRUE>>
           f5 == <<"escalated", TRUE>>
           a4 == Event("INCIDENT_RESOLVED", f4)
           a5 == Event("INCIDENT_ESCALATED", f5)
           e1 == IF asked("state") /\ q.state # seen.state THEN <<a1>> ELSE <<>>
           e2 == IF raised THEN <<a2>> ELSE <<>>
           e3 == IF raised /\ q.attempts >= new.maximum THEN <<a3>> ELSE <<>>
           h4 == asked("resolved") /\ ~seen.resolved
           h5 == asked("escalated") /\ ~seen.escalated
           e4 == IF h4 THEN <<a4>> ELSE <<>>
           e5 == IF h5 THEN <<a5>> ELSE <<>>
           owed == e1 \o e2 \o e3 \o e4 \o e5
<1>1. EventsOwed(q, seen, new) = owed
  BY DEF EventsOwed
<1>2. /\ new = Updated(row, q) /\ new \in RowType
      /\ \A column \in {"state", "attempts", "maximum", "resolved", "escalated"} :
            new[column] = IF column \in DOMAIN q THEN q[column] ELSE row[column]
  BY UpdatedRow
<1>3. /\ <<"state", new.state>> \in Tellable /\ <<"attempts", new.attempts>> \in Tellable
      /\ <<"maximum", new.maximum>> \in Tellable
      /\ f4 \in Tellable /\ f5 \in Tellable
  <2>1. new.state \in RecordStates /\ new.attempts \in 0..2 /\ new.maximum \in 0..2
    BY UpdatedRow DEF RowType
  <2> QED
    BY <2>1 DEF Tellable
<1>4. /\ a1 \in Events /\ a1.tells = <<"state", new.state>>
      /\ a2 \in Events /\ a2.tells = <<"attempts", new.attempts>>
      /\ a3 \in Events
      /\ a4 \in Events /\ a4.tells = f4
      /\ a5 \in Events /\ a5.tells = f5
  <2>1. \A type \in EventTypes, tells \in Tellable :
           Event(type, tells) \in Events /\ Event(type, tells).tells = tells
    BY DEF Event, Events
  <2>2. /\ "STATE_TRANSITION" \in EventTypes /\ "FIX_ATTEMPT_INCREMENT" \in EventTypes
        /\ "MAX_ATTEMPTS_REACHED" \in EventTypes /\ "INCIDENT_RESOLVED" \in EventTypes
        /\ "INCIDENT_ESCALATED" \in EventTypes
    BY DEF EventTypes
  <2> HIDE DEF new, f4, f5
  <2> QED
    BY <1>3, <2>1, <2>2
<1>5. /\ e1 \in Seq(Events)
      /\ asked("state") /\ q.state # seen.state =>
            \E event \in ToSet(e1) : event.tells = <<"state", new.state>>
  <2> HIDE DEF new, asked, a1
  <2> QED
    BY <1>4, ToSetOfNone
<1>6. /\ e2 \in Seq(Events)
      /\ raised => \E event \in ToSet(e2) : event.tells = <<"attempts", new.attempts>>
  <2> HIDE DEF new, raised, a2
  <2> QED
    BY <1>4, ToSetOfNone
<1>7. e3 \in Seq(Events)
  <2> HIDE DEF new, raised, a3
  <2> QED
    BY <1>4, ToSetOfNone
<1>8. /\ e4 \in Seq(Events)
      /\ h4 => \E event \in ToSet(e4) : event.tells = f4
  <2> HIDE DEF h4, a4, f4
  <2> QED
    BY <1>4, ToSetOfNone
<1>9. /\ e5 \in Seq(Events)
      /\ h5 => \E event \in ToSet(e5) : event.tells = f5
  <2> HIDE DEF h5, a5, f5
  <2> QED
    BY <1>4, ToSetOfNone
<1>10. /\ owed \in Seq(Events)
       /\ ToSet(owed) = ToSet(e1) \cup ToSet(e2) \cup ToSet(e3) \cup ToSet(e4) \cup ToSet(e5)
  <2> HIDE DEF e1, e2, e3, e4, e5
  <2>1. PICK s2 \in Seq(Events) : s2 = e1 \o e2 /\ ToSet(s2) = ToSet(e1) \cup ToSet(e2)
    BY <1>5, <1>6, ToSetOfConcat
  <2>2. PICK s3 \in Seq(Events) : s3 = s2 \o e3 /\ ToSet(s3) = ToSet(s2) \cup ToSet(e3)
    BY <1>7, ToSetOfConcat
  <2>3. PICK s4 \in Seq(Events) : s4 = s3 \o e4 /\ ToSet(s4) = ToSet(s3) \cup ToSet(e4)
    BY <1>8, ToSetOfConcat
  <2>4. s4 \o e5 \in Seq(Events) /\ ToSet(s4 \o e5) = ToSet(s4) \cup ToSet(e5)
    BY <1>9, ToSetOfConcat
  <2>5. owed = s4 \o e5
    BY <2>1, <2>2, <2>3
  <2> HIDE DEF owed
  <2> QED
    BY <2>1, <2>2, <2>3, <2>4, <2>5
<1>11. ASSUME NEW fact \in Facts(new)
       PROVE  \/ fact \in Facts(row) \cup Facts(seen)
              \/ \E event \in ToSet(owed) : event.tells = fact
              \/ fact[1] = "attempts" /\ seen.attempts # 0 /\ seen.attempts > fact[2]
  <2> HIDE DEF e1, e2, e3, e4, e5, owed, new
  <2>1. CASE fact = <<"state", new.state>>
    BY <1>2, <2>1, <1>5, <1>10, FactsOfRow
  <2>2. CASE new.attempts # 0 /\ fact = <<"attempts", new.attempts>>
    <3>1. CASE ~asked("attempts")
      BY <1>2, <2>2, <3>1, FactsOfRow
    <3>2. CASE raised
      BY <2>2, <3>2, <1>6, <1>10
    <3>3. CASE asked("attempts") /\ ~raised
      <4>1. /\ new.attempts = q.attempts /\ q.attempts \in 1..2 /\ seen.attempts \in 0..2
            /\ fact[1] = "attempts" /\ fact[2] = new.attempts
        BY <1>2, <2>2, <3>3, RequestColumns DEF RowType
      <4>2. seen.attempts = new.attempts \/ (seen.attempts > fact[2] /\ seen.attempts # 0)
        BY <4>1, <3>3
      <4>3. CASE seen.attempts = new.attempts
        BY <2>2, <4>3, FactsOfRow
      <4> QED
        BY <4>1, <4>2, <4>3
    <3> QED
      BY <3>1, <3>2, <3>3
  <2>3. CASE new.resolved /\ fact = f4
    BY <1>2, <2>3, <1>8, <1>10, FactsOfRow
  <2>4. CASE new.escalated /\ fact = f5
    BY <1>2, <2>4, <1>9, <1>10, FactsOfRow
  <2> QED
    BY <1>2, <2>1, <2>2, <2>3, <2>4, FactsOfRow
<1> QED
  BY <1>1, <1>10, <1>11

(***************************************************************************)
(* The steps                                                               *)
(***************************************************************************)

(* What is explained once stays so: facts and losses are only ever added,   *)
(* and so are events.                                                       *)
Explained(fact) ==
    \/ Lowered(fact)
    \/ fact \in TicketTimeline \cup past.lost
    \/ \E c \in RecordCalls : \E event \in ToSet(updates[c].owed) : event.tells = fact

LEMMA TicketTimelineTells ==
    record.there => \A fact : fact \in TicketTimeline <=> \E event \in ToSet(timeline) : event.tells = fact
BY DEF TicketTimeline, FindOne

LEMMA RecordInitially == RecordInit => RecordInv
<1> SUFFICES ASSUME RecordInit PROVE RecordInv
  OBVIOUS
<1>1. NoRow \in RowType
  BY DEF NoRow, RowType, RecordStates
<1>2. NoUpdate \in UpdateCall /\ NoUpdate.step = "idle" /\ NoUpdate.owed = <<>>
  <2>1. <<>> \in Seq(Events)
    OBVIOUS
  <2> HIDE DEF NoRow
  <2> QED
    BY <1>1, <2>1 DEF NoUpdate, UpdateCall
<1>3. ~record.there /\ past \in [facts : SUBSET Tellable, lost : SUBSET Tellable, faults : Nat, calls : Nat]
  BY DEF RecordInit, NoRow
<1>4. \A c \in RecordCalls : CallSound(updates[c], past.facts)
  <2> HIDE DEF NoUpdate
  <2> QED
    BY <1>2 DEF RecordInit, CallSound
<1> QED
  BY <1>1, <1>3, <1>4 DEF RecordInit, RecordInv, TimelineExplains

(* One call moves to u, the others stay.                                    *)
LEMMA OneCallMoves ==
    ASSUME RecordInv, NEW c \in RecordCalls, NEW u, updates' = [updates EXCEPT ![c] = u],
           past.facts \subseteq past'.facts, CallSound(u, past'.facts)
    PROVE  /\ updates' = [d \in RecordCalls |-> updates'[d]]
           /\ \A d \in RecordCalls : CallSound(updates'[d], past'.facts)
           /\ updates'[c] = u /\ \A d \in RecordCalls : d # c => updates'[d] = updates[d]
<1>1. updates = [d \in RecordCalls |-> updates[d]]
  BY DEF RecordInv
<1>2. /\ updates' = [d \in RecordCalls |-> updates'[d]]
      /\ updates'[c] = u /\ \A d \in RecordCalls : d # c => updates'[d] = updates[d]
  BY <1>1
<1>3. \A d \in RecordCalls : CallSound(updates[d], past'.facts)
  BY DEF RecordInv, CallSound
<1> QED
  BY <1>2, <1>3

LEMMA StillExplained ==
    ASSUME RecordInv, record.there, record'.there, past.facts \subseteq past'.facts,
           past.lost \subseteq past'.lost, ToSet(timeline) \subseteq ToSet(timeline'),
           \A c \in RecordCalls : \A event \in ToSet(updates[c].owed) :
              \/ event \in ToSet(timeline')
              \/ event.tells \in past'.lost
              \/ \E d \in RecordCalls : event \in ToSet(updates'[d].owed)
    PROVE  \A fact \in past.facts : Explained(fact)'
<1> SUFFICES ASSUME NEW fact \in past.facts PROVE Explained(fact)'
  OBVIOUS
<1>1. Explained(fact)
  BY DEF RecordInv, TimelineExplains, Explained
<1>2. \A f : f \in TicketTimeline' <=> \E event \in ToSet(timeline') : event.tells = f
  BY DEF TicketTimeline, FindOne
<1>3. CASE Lowered(fact)
  BY <1>3 DEF Lowered, Explained
<1>4. CASE fact \in TicketTimeline
  BY <1>2, <1>4, TicketTimelineTells DEF Explained
<1>5. CASE fact \in past.lost
  BY <1>5 DEF Explained
<1>6. CASE \E c \in RecordCalls : \E event \in ToSet(updates[c].owed) : event.tells = fact
  BY <1>2, <1>6 DEF Explained
<1> QED
  BY <1>1, <1>3, <1>4, <1>5, <1>6 DEF Explained

(* The parts of RecordInv, put together again.                              *)
LEMMA RecordTogether ==
    ASSUME record' \in RowType, timeline' \in Seq(Events), ~record'.there => timeline' = <<>>,
           past' \in [facts : SUBSET Tellable, lost : SUBSET Tellable, faults : Nat, calls : Nat],
           record'.there => Facts(record)' \subseteq past'.facts,
           updates' = [d \in RecordCalls |-> updates'[d]],
           \A d \in RecordCalls : CallSound(updates'[d], past'.facts),
           record'.there => \A fact \in past'.facts : Explained(fact)'
    PROVE  RecordInv'
BY DEF RecordInv, TimelineExplains, Explained

(* A step of a call that owes nothing, and writes no row and no event.      *)
LEMMA OnlyTheCall ==
    ASSUME RecordInv, NEW c \in RecordCalls, NEW u, updates[c].owed = <<>>,
           updates' = [updates EXCEPT ![c] = u], UNCHANGED <<record, timeline>>,
           past'.facts = past.facts, past'.lost = past.lost,
           past' \in [facts : SUBSET Tellable, lost : SUBSET Tellable, faults : Nat, calls : Nat],
           CallSound(u, past.facts)
    PROVE  RecordInv'
<1>1. /\ updates' = [d \in RecordCalls |-> updates'[d]]
      /\ \A d \in RecordCalls : CallSound(updates'[d], past'.facts)
      /\ \A d \in RecordCalls : d # c => updates'[d] = updates[d]
  BY OneCallMoves
<1>2. ASSUME record.there PROVE \A fact \in past.facts : Explained(fact)'
  <2>1. \A d \in RecordCalls : \A event \in ToSet(updates[d].owed) :
           \E e \in RecordCalls : event \in ToSet(updates'[e].owed)
    BY <1>1, ToSetOfNone
  <2> QED
    BY <1>2, <2>1, StillExplained
<1>3. /\ record' \in RowType /\ timeline' \in Seq(Events) /\ (~record'.there => timeline' = <<>>)
      /\ record'.there => Facts(record)' \subseteq past'.facts
  BY DEF RecordInv, Facts
<1> QED
  BY <1>1, <1>2, <1>3, RecordTogether

Escalates(u, row) == u = [NoUpdate EXCEPT !.step = "escalating", !.ticket = row]

LEMMA FreshCallsAreSound ==
    ASSUME NEW facts
    PROVE  /\ CallSound(NoUpdate, facts)
           /\ CallSound(OverWith("done"), facts) /\ CallSound(OverWith("failed"), facts)
           /\ \A row \in RowType : \A u : Escalates(u, row) => CallSound(u, facts)
<1>1. NoRow \in RowType
  BY DEF NoRow, RowType, RecordStates
<1>2. <<>> \in Seq(Events)
  OBVIOUS
<1>3. NoUpdate \in UpdateCall /\ NoUpdate.step = "idle" /\ NoUpdate.owed = <<>>
  <2> HIDE DEF NoRow
  <2> QED
    BY <1>1, <1>2 DEF NoUpdate, UpdateCall
<1> HIDE DEF NoUpdate
<1> QED
  BY <1>3 DEF CallSound, OverWith, UpdateCall, Escalates

Records(old, u, owed) ==
    \/ u = [old EXCEPT !.step = "recording", !.owed = owed]
    \/ old.step = "recording" /\ u = [old EXCEPT !.owed = owed]

LEMMA RecordingIsSound ==
    ASSUME NEW facts, NEW old, CallSound(old, facts), NEW owed \in Seq(Events), NEW u,
           Records(old, u, owed)
    PROVE  CallSound(u, facts) /\ u.owed = owed
BY DEF CallSound, UpdateCall, Records

Reads(old, u, facts) ==
    \E q \in AllRequests, row \in RowType :
        Facts(row) \subseteq facts /\ u = [old EXCEPT !.step = "writing", !.request = q, !.seen = row]
Steps(old, u) ==
    \E step \in {"deleting", "done", "failed"} : u = [old EXCEPT !.step = step]

LEMMA QuietStepIsSound ==
    ASSUME NEW facts, NEW old, CallSound(old, facts), old.owed = <<>>, NEW u,
           Reads(old, u, facts) \/ Steps(old, u)
    PROVE  CallSound(u, facts)
BY DEF CallSound, UpdateCall, Reads, Steps

LEMMA CreateIncidentKeeps ==
    ASSUME RecordInv, NEW c \in RecordCalls, CreateIncident(c)
    PROVE  RecordInv'
<1> DEFINE event == Event("INCIDENT_CREATED", <<"state", "NEW">>)
<1>1. record' \in RowType /\ record'.there /\ Facts(record') = {<<"state", "NEW">>}
  <2>1. record' = [there |-> TRUE, state |-> "NEW", attempts |-> 0, maximum |-> 2,
                   resolved |-> FALSE, escalated |-> FALSE]
    BY DEF CreateIncident, NoRow
  <2> QED
    BY <2>1 DEF RowType, RecordStates, Facts
<1>2. <<event>> \in Seq(Events) /\ ToSet(<<event>>) = {event} /\ event.tells = <<"state", "NEW">>
  <2>1. <<"state", "NEW">> \in Tellable
    BY DEF Tellable, RecordStates
  <2>2. event \in Events /\ event.tells = <<"state", "NEW">>
    BY <2>1 DEF Event, Events, EventTypes
  <2> HIDE DEF event
  <2> QED
    BY <2>2, ToSetOfNone
<1>3. PICK u : u = [updates[c] EXCEPT !.step = "recording", !.owed = <<event>>]
  OBVIOUS
<1>4. /\ past' \in [facts : SUBSET Tellable, lost : SUBSET Tellable, faults : Nat, calls : Nat]
      /\ past'.facts = {<<"state", "NEW">>} /\ past.facts = {} /\ timeline' = timeline
  <2>1. <<"state", "NEW">> \in Tellable
    BY DEF Tellable, RecordStates
  <2> QED
    BY <1>1, <2>1 DEF CreateIncident, RecordInv
<1>5. u.owed = <<event>> /\ CallSound(u, past'.facts)
  <2>1. CallSound(updates[c], past.facts)
    BY DEF RecordInv
  <2>2. CallSound(updates[c], past'.facts)
    BY <2>1, <1>4 DEF CallSound
  <2>3. PICK owed \in Seq(Events) : owed = <<event>>
    BY <1>2
  <2>4. Records(updates[c], u, owed)
    BY <1>3, <2>3 DEF Records
  <2> HIDE DEF event
  <2> QED
    BY <2>2, <2>3, <2>4, RecordingIsSound
<1>6. updates' = [updates EXCEPT ![c] = u]
  <2> HIDE DEF event
  <2>1. updates' = [updates EXCEPT ![c].step = "recording", ![c].owed = <<event>>]
    BY DEF CreateIncident, event
  <2> QED
    BY <2>1, <1>3 DEF RecordInv
<1>7. /\ updates' = [d \in RecordCalls |-> updates'[d]]
      /\ \A d \in RecordCalls : CallSound(updates'[d], past'.facts)
      /\ updates'[c] = u
  BY <1>4, <1>5, <1>6, OneCallMoves
<1>8. \A fact \in past'.facts : Explained(fact)'
  BY <1>2, <1>4, <1>5, <1>7 DEF Explained
<1> HIDE DEF event
<1> QED
  BY <1>1, <1>4, <1>7, <1>8, RecordTogether DEF RecordInv

LEMMA ReadForUpdateKeeps ==
    ASSUME RecordInv, NEW c \in RecordCalls, NEW q \in AllRequests, ReadForUpdate(c, q)
    PROVE  RecordInv'
<1>1. /\ CallSound(updates[c], past.facts) /\ updates[c].owed = <<>>
      /\ past \in [facts : SUBSET Tellable, lost : SUBSET Tellable, faults : Nat, calls : Nat]
      /\ record \in RowType /\ (record.there => Facts(record) \subseteq past.facts)
  BY DEF RecordInv, CallSound, ReadForUpdate
<1>2. \E u : /\ updates' = [updates EXCEPT ![c] = u]
             /\ \/ u = OverWith("failed")
                \/ /\ record.there
                   /\ u = [updates[c] EXCEPT !.step = "writing", !.request = q, !.seen = record]
  BY DEF ReadForUpdate, RecordInv
<1>3. PICK u : /\ updates' = [updates EXCEPT ![c] = u]
               /\ \/ u = OverWith("failed")
                  \/ /\ record.there
                     /\ u = [updates[c] EXCEPT !.step = "writing", !.request = q, !.seen = record]
  BY <1>2
<1>4. CallSound(u, past.facts)
  <2>1. CASE u = OverWith("failed")
    BY <2>1, FreshCallsAreSound
  <2>2. CASE record.there /\ u = [updates[c] EXCEPT !.step = "writing", !.request = q, !.seen = record]
    <3>1. Reads(updates[c], u, past.facts)
      BY <1>1, <2>2 DEF Reads
    <3> QED
      BY <1>1, <3>1, QuietStepIsSound
  <2> QED
    BY <1>3, <2>1, <2>2
<1>5. UNCHANGED <<record, timeline, past>>
  BY DEF ReadForUpdate
<1> QED
  BY <1>1, <1>3, <1>4, <1>5, OnlyTheCall

LEMMA WriteUpdateKeeps ==
    ASSUME RecordInv, NEW c \in RecordCalls, WriteUpdate(c)
    PROVE  RecordInv'
<1>1. /\ CallSound(updates[c], past.facts) /\ updates[c].owed = <<>>
      /\ updates[c].request \in AllRequests /\ Facts(updates[c].seen) \subseteq past.facts
      /\ updates[c].seen \in RowType /\ record \in RowType
      /\ (record.there => Facts(record) \subseteq past.facts)
      /\ past \in [facts : SUBSET Tellable, lost : SUBSET Tellable, faults : Nat, calls : Nat]
  BY DEF RecordInv, CallSound, WriteUpdate, UpdateCall
<1>2. CASE ~record.there /\ updates' = [updates EXCEPT ![c] = OverWith("failed")] /\ UNCHANGED <<record, past>>
  <2>1. CallSound(OverWith("failed"), past.facts) /\ UNCHANGED timeline
    BY FreshCallsAreSound DEF WriteUpdate
  <2> QED
    BY <1>1, <1>2, <2>1, OnlyTheCall
<1>3. CASE /\ record.there
           /\ record' = Updated(record, updates[c].request)
           /\ past' = [past EXCEPT !.facts = @ \cup Facts(record')]
           /\ updates' = [updates EXCEPT
                            ![c].step = "recording",
                            ![c].owed = EventsOwed(updates[c].request, updates[c].seen, record')]
  <2>1. PICK owed : owed = EventsOwed(updates[c].request, updates[c].seen, record')
    OBVIOUS
  <2>2. /\ owed \in Seq(Events)
        /\ \A fact \in Facts(record') :
              \/ fact \in Facts(record) \cup Facts(updates[c].seen)
              \/ \E event \in ToSet(owed) : event.tells = fact
              \/ fact[1] = "attempts" /\ updates[c].seen.attempts # 0 /\ updates[c].seen.attempts > fact[2]
    BY <1>1, <1>3, <2>1, OwedIsEnough
  <2>3. record' \in RowType /\ record'.there
    BY <1>1, <1>3, UpdatedRow
  <2>4. /\ past' \in [facts : SUBSET Tellable, lost : SUBSET Tellable, faults : Nat, calls : Nat]
        /\ past'.facts = past.facts \cup Facts(record') /\ past'.lost = past.lost
    BY <1>1, <1>3, <2>3, FactsAreTellable
  <2>5. PICK u : u = [updates[c] EXCEPT !.step = "recording", !.owed = owed]
    OBVIOUS
  <2>6. u.owed = owed /\ CallSound(u, past'.facts)
    <3>1. CallSound(updates[c], past'.facts)
      BY <1>1, <2>4 DEF CallSound
    <3>2. Records(updates[c], u, owed)
      BY <2>5 DEF Records
    <3> QED
      BY <3>1, <3>2, <2>2, RecordingIsSound
  <2>7. updates' = [updates EXCEPT ![c] = u]
    BY <1>3, <2>1, <2>5 DEF RecordInv
  <2>8. /\ updates' = [d \in RecordCalls |-> updates'[d]]
        /\ \A d \in RecordCalls : CallSound(updates'[d], past'.facts)
        /\ updates'[c] = u /\ \A d \in RecordCalls : d # c => updates'[d] = updates[d]
    BY <2>4, <2>6, <2>7, OneCallMoves
  <2>9. timeline' = timeline /\ timeline \in Seq(Events)
    BY DEF WriteUpdate, RecordInv
  <2>10. \A fact \in past.facts : Explained(fact)'
    <3>1. \A d \in RecordCalls : \A event \in ToSet(updates[d].owed) :
             \E e \in RecordCalls : event \in ToSet(updates'[e].owed)
      BY <1>1, <2>8, ToSetOfNone
    <3> QED
      BY <1>3, <2>3, <2>4, <2>9, <3>1, StillExplained
  <2>11. \A fact \in Facts(record') : Explained(fact)'
    <3> SUFFICES ASSUME NEW fact \in Facts(record') PROVE Explained(fact)'
      OBVIOUS
    <3>1. CASE fact \in past.facts
      BY <3>1, <2>10
    <3>2. CASE \E event \in ToSet(owed) : event.tells = fact
      BY <3>2, <2>6, <2>8 DEF Explained
    <3>3. CASE fact[1] = "attempts" /\ updates[c].seen.attempts # 0 /\ updates[c].seen.attempts > fact[2]
      <4>1. <<"attempts", updates[c].seen.attempts>> \in past'.facts
        BY <1>1, <2>4, <3>3, FactsOfRow
      <4> QED
        BY <3>3, <4>1 DEF Explained, Lowered
    <3> QED
      BY <1>1, <1>3, <2>2, <3>1, <3>2, <3>3
  <2> QED
    BY <2>3, <2>4, <2>8, <2>9, <2>10, <2>11, RecordTogether
<1> QED
  BY <1>2, <1>3 DEF WriteUpdate

LEMMA RecordEventKeeps ==
    ASSUME RecordInv, NEW c \in RecordCalls, RecordEvent(c)
    PROVE  RecordInv'
<1>1. /\ CallSound(updates[c], past.facts) /\ updates[c].owed \in Seq(Events) /\ updates[c].owed # <<>>
      /\ updates[c].step = "recording" /\ record' = record /\ record \in RowType
      /\ (record.there => Facts(record) \subseteq past.facts) /\ timeline \in Seq(Events)
      /\ past \in [facts : SUBSET Tellable, lost : SUBSET Tellable, faults : Nat, calls : Nat]
  BY DEF RecordInv, CallSound, RecordEvent, UpdateCall
<1>a. PICK owed \in Seq(Events) : owed = updates[c].owed /\ owed # <<>>
  BY <1>1
<1>2. PICK head \in Events, tail \in Seq(Events) :
         head = Head(owed) /\ tail = Tail(owed) /\ ToSet(owed) = ToSet(tail) \cup {head}
  BY <1>a, ToSetOfTail
<1>3. CASE CreateEvent(head) /\ updates' = [updates EXCEPT ![c].owed = tail]
  <2>1. PICK u : u = [updates[c] EXCEPT !.owed = tail]
    OBVIOUS
  <2>2. u.owed = tail /\ CallSound(u, past'.facts) /\ past' = past /\ record.there
    <3>1. Records(updates[c], u, tail)
      BY <1>1, <2>1 DEF Records
    <3>2. past' = past /\ record.there
      BY <1>3 DEF CreateEvent
    <3>3. tail \in Seq(Events)
      BY <1>2
    <3>4. CallSound(u, past.facts) /\ u.owed = tail
      BY <1>1, <3>1, <3>3, RecordingIsSound
    <3> QED
      BY <3>2, <3>4
  <2>3. /\ updates' = [d \in RecordCalls |-> updates'[d]]
        /\ \A d \in RecordCalls : CallSound(updates'[d], past'.facts)
        /\ updates'[c] = u /\ \A d \in RecordCalls : d # c => updates'[d] = updates[d]
    <3>1. updates' = [updates EXCEPT ![c] = u]
      BY <1>3, <2>1 DEF RecordInv
    <3> QED
      BY <2>2, <3>1, OneCallMoves
  <2>4. timeline' \in Seq(Events) /\ ToSet(timeline') = ToSet(timeline) \cup {head}
    BY <1>1, <1>3, ToSetOfAppend DEF CreateEvent
  <2>5. \A d \in RecordCalls : \A event \in ToSet(updates[d].owed) :
           \/ event \in ToSet(timeline')
           \/ \E e \in RecordCalls : event \in ToSet(updates'[e].owed)
    BY <1>a, <1>2, <2>2, <2>3, <2>4
  <2>6. \A fact \in past.facts : Explained(fact)'
    BY <1>1, <2>2, <2>4, <2>5, StillExplained
  <2> QED
    BY <1>1, <2>2, <2>3, <2>4, <2>6, RecordTogether DEF Facts
<1>4. CASE EventsLost(owed) /\ updates' = [updates EXCEPT ![c] = OverWith("failed")]
  <2>1. /\ past'.facts = past.facts /\ timeline' = timeline
        /\ past'.lost = past.lost \cup {event.tells : event \in ToSet(owed)}
        /\ past' \in [facts : SUBSET Tellable, lost : SUBSET Tellable, faults : Nat, calls : Nat]
    <3>1. {event.tells : event \in ToSet(owed)} \subseteq Tellable
      <4>1. \A event \in ToSet(owed) : event \in Events
        BY DEF ToSet
      <4> QED
        BY <4>1 DEF Events
    <3>2. PICK n \in Nat : n = IF record.there THEN past.faults + 1 ELSE past.faults
      BY <1>1
    <3>3. past' = [past EXCEPT !.lost = past.lost \cup {event.tells : event \in ToSet(owed)}, !.faults = n]
      BY <1>4, <3>2, <1>1 DEF EventsLost
    <3> HIDE DEF Tellable
    <3> QED
      BY <1>1, <1>4, <3>1, <3>3 DEF EventsLost
  <2>2. CallSound(OverWith("failed"), past'.facts)
    BY FreshCallsAreSound
  <2>3. /\ updates' = [d \in RecordCalls |-> updates'[d]]
        /\ \A d \in RecordCalls : CallSound(updates'[d], past'.facts)
        /\ \A d \in RecordCalls : d # c => updates'[d] = updates[d]
    BY <1>4, <2>1, <2>2, OneCallMoves
  <2>4. \A d \in RecordCalls : \A event \in ToSet(updates[d].owed) :
           \/ event.tells \in past'.lost
           \/ \E e \in RecordCalls : event \in ToSet(updates'[e].owed)
    BY <1>a, <2>1, <2>3
  <2>5. record.there => \A fact \in past.facts : Explained(fact)'
    BY <1>1, <2>1, <2>4, StillExplained
  <2>6. ~record'.there => timeline' = <<>>
    BY <1>1, <2>1 DEF RecordInv
  <2> QED
    BY <1>1, <2>1, <2>3, <2>5, <2>6, RecordTogether DEF Facts
<1> QED
  BY <1>a, <1>2, <1>3, <1>4 DEF RecordEvent

LEMMA OtherStepsKeep ==
    ASSUME RecordInv, NEW c \in RecordCalls
    PROVE  /\ FinishUpdate(c) => RecordInv'
           /\ EscalateIncident(c) => RecordInv'
           /\ ReuseCall(c) => RecordInv'
<1>1. /\ CallSound(updates[c], past.facts) /\ record \in RowType
      /\ past \in [facts : SUBSET Tellable, lost : SUBSET Tellable, faults : Nat, calls : Nat]
  BY DEF RecordInv
<1>2. ASSUME FinishUpdate(c) PROVE RecordInv'
  <2>1. CallSound(OverWith("done"), past.facts)
    BY FreshCallsAreSound
  <2>2. /\ updates' = [updates EXCEPT ![c] = OverWith("done")] /\ updates[c].owed = <<>>
        /\ UNCHANGED <<record, timeline, past>>
    BY <1>2 DEF FinishUpdate
  <2> QED
    BY <1>1, <2>1, <2>2, OnlyTheCall
<1>3. ASSUME EscalateIncident(c) PROVE RecordInv'
  <2>1. PICK u : /\ Escalates(u, record) \/ u = OverWith("failed")
                 /\ updates' = [updates EXCEPT ![c] = u]
    BY <1>3 DEF EscalateIncident, Escalates
  <2>2. CallSound(u, past.facts)
    BY <1>1, <2>1, FreshCallsAreSound
  <2>3. updates[c].owed = <<>> /\ UNCHANGED <<record, timeline, past>>
    BY <1>1, <1>3 DEF EscalateIncident, CallSound
  <2> QED
    BY <1>1, <2>1, <2>2, <2>3, OnlyTheCall
<1>4. ASSUME ReuseCall(c) PROVE RecordInv'
  <2>1. CallSound(NoUpdate, past.facts)
    BY FreshCallsAreSound
  <2>2. updates' = [updates EXCEPT ![c] = NoUpdate] /\ updates[c].owed = <<>> /\ UNCHANGED <<record, timeline>>
    BY <1>1, <1>4 DEF ReuseCall, CallSound
  <2>3. /\ past' \in [facts : SUBSET Tellable, lost : SUBSET Tellable, faults : Nat, calls : Nat]
        /\ past'.facts = past.facts /\ past'.lost = past.lost
    <3> HIDE DEF Tellable
    <3> QED
      BY <1>1, <1>4 DEF ReuseCall
  <2> QED
    BY <2>1, <2>2, <2>3, OnlyTheCall
<1> QED
  BY <1>2, <1>3, <1>4

LEMMA RemoveIncidentKeeps ==
    ASSUME RecordInv, NEW c \in RecordCalls, RemoveIncident(c)
    PROVE  RecordInv'
<1>1. /\ CallSound(updates[c], past.facts) /\ updates[c].owed = <<>> /\ record.there /\ record' = record
      /\ timeline \in Seq(Events) /\ record \in RowType /\ Facts(record) \subseteq past.facts
      /\ past \in [facts : SUBSET Tellable, lost : SUBSET Tellable, faults : Nat, calls : Nat]
  BY DEF RecordInv, CallSound, RemoveIncident
<1>2. CASE /\ CreateEvent(Event("INCIDENT_DELETED", <<"deleted", TRUE>>))
           /\ updates' = [updates EXCEPT ![c].step = "deleting"]
  <2>1. PICK event \in Events : event = Event("INCIDENT_DELETED", <<"deleted", TRUE>>)
    <3>1. <<"deleted", TRUE>> \in Tellable
      BY DEF Tellable
    <3> QED
      BY <3>1 DEF Event, Events, EventTypes
  <2>2. timeline' \in Seq(Events) /\ ToSet(timeline') = ToSet(timeline) \cup {event} /\ past' = past
    BY <1>1, <1>2, <2>1, ToSetOfAppend DEF CreateEvent
  <2>3. PICK u : u = [updates[c] EXCEPT !.step = "deleting"]
    OBVIOUS
  <2>4. CallSound(u, past.facts)
    <3>1. Steps(updates[c], u)
      BY <2>3 DEF Steps
    <3> QED
      BY <1>1, <3>1, QuietStepIsSound
  <2>5. /\ updates' = [d \in RecordCalls |-> updates'[d]]
        /\ \A d \in RecordCalls : CallSound(updates'[d], past'.facts)
        /\ \A d \in RecordCalls : d # c => updates'[d] = updates[d]
    <3>1. updates' = [updates EXCEPT ![c] = u]
      BY <1>2, <2>3 DEF RecordInv
    <3> QED
      BY <2>2, <2>4, <3>1, OneCallMoves
  <2>6. \A d \in RecordCalls : \A e \in ToSet(updates[d].owed) :
           \E f \in RecordCalls : e \in ToSet(updates'[f].owed)
    BY <1>1, <2>5, ToSetOfNone
  <2>7. \A fact \in past.facts : Explained(fact)'
    BY <1>1, <2>2, <2>6, StillExplained
  <2> QED
    BY <1>1, <2>2, <2>5, <2>7, RecordTogether DEF Facts
<1>3. CASE EventsLost(<<>>) /\ updates' = [updates EXCEPT ![c].step = "failed"]
  <2>1. PICK u : u = [updates[c] EXCEPT !.step = "failed"]
    OBVIOUS
  <2>2. CallSound(u, past.facts)
    <3>1. Steps(updates[c], u)
      BY <2>1 DEF Steps
    <3> QED
      BY <1>1, <3>1, QuietStepIsSound
  <2>3. updates' = [updates EXCEPT ![c] = u]
    BY <1>3, <2>1 DEF RecordInv
  <2>4. /\ past' \in [facts : SUBSET Tellable, lost : SUBSET Tellable, faults : Nat, calls : Nat]
        /\ past'.facts = past.facts /\ past'.lost = past.lost /\ timeline' = timeline
    <3>1. {event.tells : event \in ToSet(<<>>)} = {}
      BY ToSetOfNone
    <3>2. PICK n \in Nat : n = past.faults + 1
      BY <1>1
    <3>3. past' = [past EXCEPT !.lost = past.lost, !.faults = n] /\ timeline' = timeline
      BY <1>1, <1>3, <3>1, <3>2 DEF EventsLost
    <3> HIDE DEF Tellable
    <3> QED
      BY <1>1, <3>3
  <2> QED
    BY <1>1, <2>2, <2>3, <2>4, OnlyTheCall
<1> QED
  BY <1>2, <1>3 DEF RemoveIncident

LEMMA DeleteIncidentKeeps ==
    ASSUME RecordInv, NEW c \in RecordCalls, DeleteIncident(c)
    PROVE  RecordInv'
<1>1. /\ CallSound(updates[c], past.facts) /\ updates[c].owed = <<>> /\ past' = past
      /\ past \in [facts : SUBSET Tellable, lost : SUBSET Tellable, faults : Nat, calls : Nat]
  BY DEF RecordInv, CallSound, DeleteIncident
<1>2. record' \in RowType /\ ~record'.there /\ timeline' = <<>>
  <2>1. NoRow \in RowType /\ ~NoRow.there
    BY DEF NoRow, RowType, RecordStates
  <2> QED
    BY <2>1 DEF RecordInv, DeleteIncident
<1>3. PICK step \in {"done", "failed"} : updates' = [updates EXCEPT ![c].step = step]
  BY DEF DeleteIncident
<1>4. PICK u : u = [updates[c] EXCEPT !.step = step]
  OBVIOUS
<1>5. CallSound(u, past.facts)
  <2>1. Steps(updates[c], u)
    BY <1>4 DEF Steps
  <2> QED
    BY <1>1, <2>1, QuietStepIsSound
<1>6. /\ updates' = [d \in RecordCalls |-> updates'[d]]
      /\ \A d \in RecordCalls : CallSound(updates'[d], past'.facts)
  <2>1. updates' = [updates EXCEPT ![c] = u]
    BY <1>3, <1>4 DEF RecordInv
  <2> QED
    BY <1>1, <1>5, <2>1, OneCallMoves
<1>7. timeline' \in Seq(Events)
  BY <1>2
<1> QED
  BY <1>1, <1>2, <1>6, <1>7, RecordTogether

LEMMA RecordStep == RecordInv /\ [RecordNext]_recordVars => RecordInv'
<1> SUFFICES ASSUME RecordInv, [RecordNext]_recordVars PROVE RecordInv'
  OBVIOUS
<1>1. ASSUME NEW c \in RecordCalls, NEW q \in Requests \cup {EscalationRequest}, ReadForUpdate(c, q)
      PROVE  RecordInv'
  BY <1>1, ReadForUpdateKeeps DEF AllRequests
<1>2. CASE UNCHANGED recordVars
  BY <1>2 DEF recordVars, RecordInv, CallSound, Facts, TimelineExplains, TicketTimeline, FindOne, Lowered
<1> QED
  BY <1>1, <1>2, CreateIncidentKeeps, WriteUpdateKeeps, RecordEventKeeps, OtherStepsKeep,
     RemoveIncidentKeeps, DeleteIncidentKeeps DEF RecordNext

LEMMA RecordInvIsEnough == RecordInv => RecordType /\ TimelineExplains
<1> SUFFICES ASSUME RecordInv PROVE RecordType
  BY DEF RecordInv
<1>1. \A c \in RecordCalls : updates[c] \in UpdateCall /\ (updates[c].step # "recording" => updates[c].owed = <<>>)
  BY DEF RecordInv, CallSound
<1> QED
  BY <1>1 DEF RecordInv, RecordType, UpdateCall


(* An update, an escalation and a removal are always in one of their steps, *)
(* with a row of the table in hand, for any number of concurrent calls.     *)
THEOREM RecordTypeCorrect == RecordSpec => []RecordType
BY RecordInitially, RecordStep, RecordInvIsEnough, PTL DEF RecordSpec

(* The timeline explains the incident, however many updates overlap and     *)
(* however often the database refuses an event: update compares with a row  *)
(* that another call has overwritten since (incidents.service.ts:283-454),  *)
(* but what it does not tell for that reason was a fact already.            *)
THEOREM TimelineExplainsTheIncident == RecordSpec => []TimelineExplains
BY RecordInitially, RecordStep, RecordInvIsEnough, PTL DEF RecordSpec

(***************************************************************************)
(* What an estimate foretells                                              *)
(***************************************************************************)

(* The cutoff of a request made on a day, the most that such a purge        *)
(* deletes of a table with these rows, and what it has in common with its   *)
(* estimate.                                                                *)
CutoffOn(dto, day) ==
    IF dto.cutoff # 0 THEN dto.cutoff ELSE IF day > dto.days THEN day - dto.days ELSE 0
MeantOf(dto, cutoff, rows, table) ==
    {row \in rows : /\ row.table = table /\ row.day < cutoff
                    /\ dto.ids = {} \/ table = "audit_events" \/ row.of \in dto.ids}
MostOf(dto, cutoff, rows, table) ==
    IF dto.max # 0 THEN Smaller(Cardinality(MeantOf(dto, cutoff, rows, table)), dto.max)
    ELSE Cardinality(MeantOf(dto, cutoff, rows, table))
LikeForetold(p) ==
    /\ p.dto.cutoff # 0 \/ p.began = p.estimate.on
    /\ p.dto.ids = {} \/ p.dto.max # 0

(* While it is made, it knows every table that it has been through.         *)
Counting(p, rows) ==
    /\ p.estimate = [made |-> FALSE, valid |-> p.estimate.valid, on |-> p.estimate.on,
                     current |-> p.estimate.current,
                     impact |-> p.estimate.impact, blind |-> p.estimate.blind]
    /\ p.cutoff = CutoffOn(p.dto, p.estimate.on)
    /\ DOMAIN p.estimate.impact \subseteq Swept
    /\ ToSet(GetTablesForPurgeScope(p.dto)) \subseteq ToSet(p.todo) \cup DOMAIN p.estimate.impact
    /\ \A t \in DOMAIN p.estimate.impact :
          /\ p.estimate.impact[t].doomed \in Nat
          /\ ~p.estimate.blind => MostOf(p.dto, p.cutoff, rows, t) <= p.estimate.impact[t].doomed

(* Once it is made, it stands for numbers by table that none of those       *)
(* counted so far is above, nor what is left to delete.                     *)
WithinNumbers(p, rows, f) ==
    /\ p.step = "estimated" =>
          \A t \in ToSet(GetTablesForPurgeScope(p.dto)) :
              MostOf(p.dto, CutoffOn(p.dto, p.estimate.on), rows, t) <= f[t]
    /\ p.step \in {"policy", "creating"} /\ LikeForetold(p) =>
          \A t \in ToSet(GetTablesForPurgeScope(p.dto)) : MostOf(p.dto, p.cutoff, rows, t) <= f[t]
    /\ p.step = "tables" /\ LikeForetold(p) =>
          /\ \A t \in ToSet(p.todo) : MostOf(p.dto, p.cutoff, rows, t) <= f[t]
          /\ \A t \in DOMAIN p.counts : p.counts[t] \in Nat /\ p.counts[t] <= f[t]
Foretold(p, rows) ==
    \E f \in [Swept -> Nat] : TotalOf(f) <= p.estimate.records /\ WithinNumbers(p, rows, f)

ForetoldSound(p, rows) ==
    /\ p.estimate.made \in BOOLEAN
    /\ p.step \in {"idle", "estimating", "policies"} \/ p.by = "policies" => ~p.estimate.made
    /\ p.step = "estimating" => Counting(p, rows)
    /\ p.estimate.made /\ ~p.estimate.blind =>
          /\ p.estimate.records \in Nat
          /\ p.step # "over" => Foretold(p, rows)
          /\ p.step \in {"policy", "creating"} => p.total = 0
          /\ p.step = "over" /\ LikeForetold(p) => p.total <= p.estimate.records

ForetoldKept == \A c \in PurgeCalls : ForetoldSound(purges[c], stored)

(* The pairs that stand for numbers by table.                               *)
Pairs(counts) == UNION {{table} \X (1..counts[table]) : table \in DOMAIN counts}

LEMMA PairsAreFinite ==
    ASSUME NEW f \in [Swept -> Nat]
    PROVE  IsFiniteSet(Pairs(f))
<1> DEFINE Of(t) == {t} \X (1..f[t])
<1>1. \A t \in Swept : IsFiniteSet(Of(t))
  <2> SUFFICES ASSUME NEW t \in Swept PROVE IsFiniteSet(Of(t))
    OBVIOUS
  <2>1. PICK n \in Nat : n = f[t]
    OBVIOUS
  <2>2. IsFiniteSet(1..n)
    <3>1. 1 \in Int /\ n \in Int
      OBVIOUS
    <3> QED
      BY <3>1, FS_Interval
  <2>3. IsFiniteSet({t})
    BY FS_Singleton
  <2>4. IsFiniteSet({t} \X (1..n))
    BY <2>2, <2>3, FS_Product
  <2> QED
    BY <2>1, <2>4
<1>2. Swept = {"incidents", "incident_events", "evidence", "audit_events", "purge_audit"}
  BY DEF Swept, Tables
<1> HIDE DEF Of
<1>3. ASSUME NEW S, IsFiniteSet(S), NEW T, IsFiniteSet(T) PROVE IsFiniteSet(S \cup T)
  BY <1>3, FS_Union
<1>4. IsFiniteSet(Of("incidents") \cup Of("incident_events"))
  BY <1>1, <1>2, <1>3
<1>5. IsFiniteSet(Of("evidence") \cup Of("audit_events"))
  BY <1>1, <1>2, <1>3
<1>6. IsFiniteSet((Of("incidents") \cup Of("incident_events")) \cup (Of("evidence") \cup Of("audit_events")))
  BY <1>3, <1>4, <1>5
<1>7. IsFiniteSet(((Of("incidents") \cup Of("incident_events")) \cup (Of("evidence") \cup Of("audit_events")))
                  \cup Of("purge_audit"))
  BY <1>1, <1>2, <1>3, <1>6
<1>8. Pairs(f) = ((Of("incidents") \cup Of("incident_events")) \cup (Of("evidence") \cup Of("audit_events")))
                 \cup Of("purge_audit")
  <2>1. DOMAIN f = Swept
    OBVIOUS
  <2>2. Pairs(f) = UNION {Of(t) : t \in Swept}
    BY <2>1 DEF Pairs, Of
  <2> QED
    BY <1>2, <2>2
<1> QED
  BY <1>7, <1>8

(* Numbers that are not above others do not sum up to more.                 *)
LEMMA TotalsGrow ==
    ASSUME NEW f \in [Swept -> Nat], NEW counts, DOMAIN counts \subseteq Swept,
           \A t \in DOMAIN counts : counts[t] \in Nat /\ counts[t] <= f[t]
    PROVE  /\ TotalOf(counts) \in Nat /\ TotalOf(f) \in Nat
           /\ TotalOf(counts) <= TotalOf(f)
<1>1. IsFiniteSet(Pairs(f))
  BY PairsAreFinite
<1>2. Pairs(counts) \subseteq Pairs(f)
  <2>1. \A t \in DOMAIN counts : 1..counts[t] \subseteq 1..f[t]
    OBVIOUS
  <2>2. \A t \in DOMAIN counts : t \in DOMAIN f
    OBVIOUS
  <2> QED
    BY <2>1, <2>2 DEF Pairs
<1>3. /\ IsFiniteSet(Pairs(counts)) /\ Cardinality(Pairs(counts)) <= Cardinality(Pairs(f))
  BY <1>1, <1>2, FS_Subset
<1>4. Cardinality(Pairs(counts)) \in Nat /\ Cardinality(Pairs(f)) \in Nat
  BY <1>1, <1>3, FS_CardinalityType
<1>5. TotalOf(counts) = Cardinality(Pairs(counts)) /\ TotalOf(f) = Cardinality(Pairs(f))
  BY DEF TotalOf, Pairs
<1> QED
  BY <1>3, <1>4, <1>5

(* The numbers that an analysis of the tables stands for.                   *)
LEMMA TheNumbers ==
    ASSUME NEW impact, DOMAIN impact \subseteq Swept,
           \A t \in DOMAIN impact : impact[t].doomed \in Nat
    PROVE  /\ RecordsToDelete(impact) \in Nat
           /\ \E f \in [Swept -> Nat] :
                 /\ TotalOf(f) = RecordsToDelete(impact)
                 /\ \A t \in DOMAIN impact : f[t] = impact[t].doomed
<1>1. PICK doomed : doomed = [t \in DOMAIN impact |-> impact[t].doomed]
  OBVIOUS
<1>2. PICK f : f = [t \in Swept |-> IF t \in DOMAIN impact THEN impact[t].doomed ELSE 0]
  OBVIOUS
<1>3. f \in [Swept -> Nat] /\ \A t \in DOMAIN impact : f[t] = impact[t].doomed
  BY <1>2
<1>4. /\ DOMAIN doomed = DOMAIN impact /\ \A t \in DOMAIN impact : doomed[t] = f[t]
  BY <1>1, <1>3
<1>5. Pairs(f) = Pairs(doomed)
  <2>1. Pairs(doomed) \subseteq Pairs(f)
    BY <1>3, <1>4 DEF Pairs
  <2>2. Pairs(f) \subseteq Pairs(doomed)
    <3> SUFFICES ASSUME NEW t \in Swept, NEW x \in {t} \X (1..f[t]) PROVE x \in Pairs(doomed)
      BY <1>3 DEF Pairs
    <3>1. t \in DOMAIN impact
      <4>1. CASE t \notin DOMAIN impact
        <5>1. f[t] = 0
          BY <1>2, <4>1
        <5>2. 1..f[t] = {}
          BY <5>1
        <5> QED
          BY <5>2
      <4> QED
        BY <4>1
    <3> QED
      BY <1>4, <3>1 DEF Pairs
  <2> QED
    BY <2>1, <2>2
<1>6. TotalOf(f) = TotalOf(doomed)
  BY <1>5 DEF TotalOf, Pairs
<1>7. TotalOf(f) \in Nat
  BY <1>3, TotalsGrow
<1>8. RecordsToDelete(impact) = TotalOf(doomed)
  BY <1>1 DEF RecordsToDelete
<1> QED
  BY <1>3, <1>6, <1>7, <1>8

(* Rows that go leave no more to delete.                                    *)
LEMMA FewerAreMeant ==
    ASSUME NEW dto \in PurgeDtos, NEW cutoff, NEW table, NEW rows, NEW left,
           left \subseteq rows, rows \subseteq FirstRows
    PROVE  /\ MostOf(dto, cutoff, rows, table) \in Nat /\ MostOf(dto, cutoff, left, table) \in Nat
           /\ MostOf(dto, cutoff, left, table) <= MostOf(dto, cutoff, rows, table)
<1>1. PICK all, some : all = MeantOf(dto, cutoff, rows, table) /\ some = MeantOf(dto, cutoff, left, table)
  OBVIOUS
<1>2. some \subseteq all /\ all \subseteq FirstRows
  BY <1>1 DEF MeantOf
<1>3. IsFiniteSet(all)
  BY <1>2, RowsAreFinite, FS_Subset
<1>4. IsFiniteSet(some) /\ Cardinality(some) <= Cardinality(all)
  BY <1>2, <1>3, FS_Subset
<1>5. PICK m \in Nat, n \in Nat : m = Cardinality(some) /\ n = Cardinality(all) /\ m <= n
  BY <1>3, <1>4, FS_CardinalityType
<1>6. dto.max \in Nat
  BY DEF PurgeDtos
<1>7. /\ MostOf(dto, cutoff, left, table) = IF dto.max # 0 THEN Smaller(m, dto.max) ELSE m
      /\ MostOf(dto, cutoff, rows, table) = IF dto.max # 0 THEN Smaller(n, dto.max) ELSE n
  BY <1>1, <1>5 DEF MostOf
<1> QED
  BY <1>5, <1>6, <1>7 DEF Smaller

LEMMA ForetoldStays ==
    ASSUME NEW p, PurgeShape(p), NEW rows, NEW left, left \subseteq rows, rows \subseteq FirstRows,
           ForetoldSound(p, rows)
    PROVE  ForetoldSound(p, left)
<1>0. /\ p.dto \in PurgeDtos /\ ToSet(p.todo) \subseteq Swept
      /\ ToSet(GetTablesForPurgeScope(p.dto)) \subseteq Swept
  <2>1. p.dto \in PurgeDtos /\ p.todo \in Seq(Swept)
    BY DEF PurgeShape
  <2>2. GetTablesForPurgeScope(p.dto) \in Seq(Swept)
    BY <2>1, TheScope
  <2>3. \A todo \in Seq(Swept) : ToSet(todo) \subseteq Swept
    BY DEF ToSet
  <2> QED
    BY <2>1, <2>2, <2>3
<1>1. \A cutoff, t : /\ MostOf(p.dto, cutoff, rows, t) \in Nat /\ MostOf(p.dto, cutoff, left, t) \in Nat
                     /\ MostOf(p.dto, cutoff, left, t) <= MostOf(p.dto, cutoff, rows, t)
  BY <1>0, FewerAreMeant
<1>2. ASSUME NEW n \in Nat, NEW cutoff, NEW t, MostOf(p.dto, cutoff, rows, t) <= n
      PROVE  MostOf(p.dto, cutoff, left, t) <= n
  BY <1>1, <1>2
<1>3. ASSUME Counting(p, rows) PROVE Counting(p, left)
  BY <1>2, <1>3 DEF Counting
<1>4. ASSUME Foretold(p, rows) PROVE Foretold(p, left)
  <2>1. PICK f \in [Swept -> Nat] : TotalOf(f) <= p.estimate.records /\ WithinNumbers(p, rows, f)
    BY <1>4 DEF Foretold
  <2>2. WithinNumbers(p, left, f)
    <3>1. ASSUME NEW dto, dto = p.dto, NEW cutoff, NEW t \in Swept, MostOf(dto, cutoff, rows, t) <= f[t]
          PROVE  MostOf(dto, cutoff, left, t) <= f[t]
      BY <1>2, <3>1
    <3> QED
      BY <1>0, <2>1, <3>1 DEF WithinNumbers
  <2> QED
    BY <2>1, <2>2 DEF Foretold
<1> QED
  BY <1>3, <1>4 DEF ForetoldSound

LEMMA OneForetoldMoves ==
    ASSUME PurgesKept, ForetoldKept, NEW c \in PurgeCalls, NEW u, Moves(c, u), stored' \subseteq stored,
           ForetoldSound(u, stored')
    PROVE  ForetoldKept'
<1>1. /\ purges'[c] = u /\ \A d \in PurgeCalls : d # c => purges'[d] = purges[d]
      /\ stored \subseteq FirstRows
  BY DEF PurgesKept, Moves
<1> SUFFICES ASSUME NEW d \in PurgeCalls, d # c PROVE ForetoldSound(purges[d], stored')
  BY <1>1 DEF ForetoldKept
<1>2. PurgeShape(purges[d]) /\ ForetoldSound(purges[d], stored)
  BY DEF PurgesKept, PurgeKept, ForetoldKept
<1> QED
  BY <1>1, <1>2, ForetoldStays

LEMMA UnmadeSound ==
    ASSUME NEW u, NEW rows, u.estimate.made = FALSE, u.step # "estimating"
    PROVE  ForetoldSound(u, rows)
BY DEF ForetoldSound

LEMMA NothingForetold == Unbegun([made |-> FALSE])
BY DEF NoPurge, Unbegun

LEMMA HeadOrTail ==
    ASSUME NEW S, NEW todo \in Seq(S), todo # <<>>
    PROVE  ToSet(todo) \subseteq {Head(todo)} \cup ToSet(Tail(todo))
<1> SUFFICES ASSUME NEW i \in DOMAIN todo, i # 1 PROVE todo[i] \in ToSet(Tail(todo))
  BY DEF ToSet
<1>1. PICK len \in Nat : len = Len(todo)
  OBVIOUS
<1>2. i \in 1..len /\ i - 1 \in 1..(len - 1)
  BY <1>1
<1>3. Len(Tail(todo)) = len - 1 /\ Tail(todo) \in Seq(S)
  BY <1>1
<1>4. Tail(todo)[i - 1] = todo[i]
  BY <1>1, <1>2, <1>3
<1>5. i - 1 \in DOMAIN Tail(todo)
  BY <1>2, <1>3
<1> QED
  BY <1>4, <1>5 DEF ToSet

LEMMA EstimatesForetell ==
    ASSUME PurgesKept, ForetoldKept, NEW c \in PurgeCalls,
           \/ \E dto \in PurgeDtos : BeginEstimate(c, dto)
           \/ CountTable(c) \/ EstimateTable(c) \/ TellEstimate(c)
    PROVE  ForetoldKept'
<1> DEFINE p == purges[c]
<1>1. /\ PurgeShape(p) /\ Whole(p) /\ ForetoldSound(p, stored) /\ p.dto \in PurgeDtos
      /\ stored \subseteq FirstRows /\ p.todo \in Seq(Swept)
  BY DEF PurgesKept, PurgeKept, PurgeShape, ForetoldKept
<1>2. ASSUME NEW dto \in PurgeDtos, BeginEstimate(c, dto) PROVE ForetoldKept'
  <2>1. PICK e : /\ e = [made |-> FALSE, valid |-> ValidateBasicParameters(dto),
                         on |-> purgeClock.today, current |-> {}, impact |-> <<>>, blind |-> FALSE]
                 /\ Moves(c, [NoPurge EXCEPT !.step = "estimating", !.dto = dto, !.cutoff = CutoffOf(dto),
                                             !.todo = GetTablesForAnalysis(dto), !.estimate = e])
                 /\ stored' = stored
    BY <1>2 DEF BeginEstimate
  <2>2. PICK cutoff, todo : cutoff = CutoffOf(dto) /\ todo = GetTablesForPurgeScope(dto)
    OBVIOUS
  <2>3. PICK u : u = [NoPurge EXCEPT !.step = "estimating", !.dto = dto, !.cutoff = cutoff,
                                     !.todo = todo, !.estimate = e]
    OBVIOUS
  <2>4. Moves(c, u)
    BY <2>1, <2>2, <2>3 DEF GetTablesForAnalysis
  <2>5. u.step = "estimating" /\ u.dto = dto /\ u.cutoff = cutoff /\ u.todo = todo /\ u.estimate = e
    BY <2>3, NothingForetold DEF Unbegun
  <2>6. e.made = FALSE /\ e.on = purgeClock.today /\ e.impact = <<>> /\ DOMAIN <<>> = {}
    BY <2>1
  <2>7. cutoff = CutoffOn(dto, e.on)
    BY <2>2, <2>6 DEF CutoffOf, CutoffOn
  <2>8. e = [made |-> FALSE, valid |-> e.valid, on |-> e.on, current |-> e.current,
             impact |-> e.impact, blind |-> e.blind]
    BY <2>1
  <2>9. Counting(u, stored')
    BY <2>2, <2>5, <2>6, <2>7, <2>8 DEF Counting
  <2>10. ForetoldSound(u, stored')
    BY <2>5, <2>6, <2>9 DEF ForetoldSound
  <2> QED
    BY <2>1, <2>4, <2>10, OneForetoldMoves
<1>3. ASSUME EstimateTable(c) PROVE ForetoldKept'
  <2>a. PICK table, entry, refused :
           /\ table = Head(p.todo) /\ refused \in BOOLEAN /\ Estimated(c, entry, refused)
           /\ \/ refused /\ entry = [current |-> 0, doomed |-> 0]
              \/ ~refused /\ \E n : entry = AnalyzeTableImpact(c, table, n)
    BY <1>3 DEF EstimateTable, HeadTable
  <2>b. PICK e : e = p.estimate
    OBVIOUS
  <2>c. PICK impact, blind : impact = Counted(e.impact, table, entry) /\ blind = (e.blind \/ refused)
    BY Zenon
  <2>d. PICK d : d = [e EXCEPT !.current = {}, !.impact = impact, !.blind = blind]
    OBVIOUS
  <2>1. Moves(c, [Active(c) EXCEPT !.estimate = d])
    <3>1. Moves(c, [Active(c) EXCEPT !.estimate =
                      [e EXCEPT !.current = {}, !.impact = Counted(@, table, entry), !.blind = @ \/ refused]])
      BY <2>a, <2>b, Zenon DEF Estimated, HeadTable
    <3> QED
      BY <2>c, <2>d, <3>1, Zenon
  <2>2. p.step = "estimating" /\ p.todo # <<>> /\ stored' = stored
    BY <1>3 DEF EstimateTable, At
  <2>3. Counting(p, stored)
    BY <1>1, <2>2 DEF ForetoldSound
  <2>6. e = [made |-> FALSE, valid |-> e.valid, on |-> e.on, current |-> e.current,
             impact |-> e.impact, blind |-> e.blind]
    BY <2>b, <2>3 DEF Counting
  <2>e. PICK v, o, k, i, b : e = [made |-> FALSE, valid |-> v, on |-> o, current |-> k, impact |-> i, blind |-> b]
    BY <2>6
  <2>f. d = [made |-> FALSE, valid |-> v, on |-> o, current |-> {}, impact |-> impact, blind |-> blind]
    BY <2>d, <2>e
  <2>7. /\ d = [made |-> FALSE, valid |-> d.valid, on |-> d.on, current |-> d.current,
                impact |-> d.impact, blind |-> d.blind]
        /\ d.made = FALSE /\ d.on = e.on /\ d.impact = impact /\ d.blind = blind
    BY <2>e, <2>f
  <2>8. PICK tail : tail = Tail(p.todo)
    OBVIOUS
  <2>9. PICK u : u = [p EXCEPT !.todo = tail, !.estimate = d]
    OBVIOUS
  <2>10. Moves(c, u)
    BY <2>1, <2>8, <2>9 DEF Active
  <2>11. /\ u.step = "estimating" /\ u.dto = p.dto /\ u.cutoff = p.cutoff /\ u.todo = tail
         /\ u.estimate = d
    BY <1>1, <2>2, <2>9 DEF Whole
  <2>12. table \in Swept /\ ToSet(p.todo) \subseteq {table} \cup ToSet(tail)
    BY <1>1, <2>a, <2>2, <2>8, HeadOrTail
  <2>13. /\ DOMAIN impact = DOMAIN e.impact \cup {table} /\ impact[table] = entry
         /\ \A t \in DOMAIN e.impact : t # table => impact[t] = e.impact[t]
    BY <2>c DEF Counted
  <2>14. entry.doomed \in Nat /\ (~refused => MostOf(p.dto, p.cutoff, stored, table) <= entry.doomed)
    <3>1. MostOf(p.dto, p.cutoff, stored, table) \in Nat
      BY <1>1, FewerAreMeant
    <3>2. CASE refused
      BY <2>a, <3>2
    <3>3. CASE ~refused
      <4>1. entry.doomed = MostOf(p.dto, p.cutoff, stored, table)
        <5>1. ExpiredOfIncidents(table, p.cutoff, p.dto.ids) = MeantOf(p.dto, p.cutoff, stored, table)
          BY DEF ExpiredOfIncidents, ExpiredIn, MeantOf
        <5> QED
          BY <2>a, <3>3, <5>1 DEF AnalyzeTableImpact, MostOf
      <4> QED
        BY <3>1, <4>1
    <3> QED
      BY <3>2, <3>3
  <2>15. Counting(u, stored')
    <3>1. DOMAIN impact \subseteq Swept /\ u.cutoff = CutoffOn(u.dto, d.on)
      BY <2>b, <2>3, <2>7, <2>11, <2>12, <2>13 DEF Counting
    <3>2. ToSet(GetTablesForPurgeScope(u.dto)) \subseteq ToSet(tail) \cup DOMAIN impact
      BY <2>b, <2>3, <2>11, <2>12, <2>13 DEF Counting
    <3>3. ASSUME NEW t \in DOMAIN impact
          PROVE  /\ impact[t].doomed \in Nat
                 /\ ~blind => MostOf(p.dto, p.cutoff, stored, t) <= impact[t].doomed
      <4>1. ~blind => ~e.blind /\ ~refused
        BY <2>c
      <4>2. CASE t = table
        BY <2>13, <2>14, <4>1, <4>2
      <4>3. CASE t # table
        <5>1. t \in DOMAIN e.impact /\ impact[t] = e.impact[t]
          BY <2>13, <4>3
        <5> QED
          BY <2>b, <2>3, <4>1, <5>1 DEF Counting
      <4> QED
        BY <4>2, <4>3
    <3> QED
      BY <2>2, <2>7, <2>11, <3>1, <3>2, <3>3 DEF Counting
  <2>16. ForetoldSound(u, stored')
    BY <2>7, <2>11, <2>15 DEF ForetoldSound
  <2> QED
    BY <2>2, <2>10, <2>16, OneForetoldMoves
<1>4. ASSUME TellEstimate(c) PROVE ForetoldKept'
  <2>1. PICK e, d :
           /\ e = p.estimate /\ d.made = TRUE /\ d.on = e.on /\ d.blind = e.blind
           /\ d.records = RecordsToDelete(e.impact)
           /\ Moves(c, [NoPurge EXCEPT !.step = "estimated", !.dto = p.dto, !.estimate = d])
    <3>1. PICK d : /\ d = [made |-> TRUE, valid |-> p.estimate.valid, on |-> p.estimate.on,
                           blind |-> p.estimate.blind, records |-> RecordsToDelete(p.estimate.impact),
                           risk |-> AssessRiskLevel(p.dto, p.estimate.impact),
                           confirm |-> RequiresConfirmation(AssessRiskLevel(p.dto, p.estimate.impact),
                                                            p.estimate.impact)]
                   /\ Moves(c, [NoPurge EXCEPT !.step = "estimated", !.dto = p.dto, !.estimate = d])
      BY <1>4 DEF TellEstimate
    <3>2. /\ d.made = TRUE /\ d.on = p.estimate.on /\ d.blind = p.estimate.blind
          /\ d.records = RecordsToDelete(p.estimate.impact)
      BY <3>1
    <3> QED
      BY <3>1, <3>2
  <2>2. p.step = "estimating" /\ p.todo = <<>> /\ stored' = stored
    BY <1>4 DEF TellEstimate
  <2>3. Counting(p, stored)
    BY <1>1, <2>2 DEF ForetoldSound
  <2>4. PICK u : u = [NoPurge EXCEPT !.step = "estimated", !.dto = p.dto, !.estimate = d]
    OBVIOUS
  <2>5. Moves(c, u)
    BY <2>1, <2>4
  <2>6. u.step = "estimated" /\ u.by = "operator" /\ u.dto = p.dto /\ u.estimate = d
    BY <2>4, NothingForetold DEF Unbegun
  <2>7. PICK f \in [Swept -> Nat] :
           TotalOf(f) = d.records /\ \A t \in DOMAIN e.impact : f[t] = e.impact[t].doomed
    BY <2>1, <2>3, TheNumbers DEF Counting
  <2>8. d.records \in Nat
    BY <2>1, <2>3, TheNumbers DEF Counting
  <2>9. ToSet(GetTablesForPurgeScope(p.dto)) \subseteq DOMAIN e.impact
    <3>1. ToSet(<<>>) = {}
      BY DEF ToSet
    <3> QED
      BY <2>1, <2>2, <2>3, <3>1 DEF Counting
  <2>10. ~d.blind => WithinNumbers(u, stored', f)
    BY <2>1, <2>2, <2>3, <2>6, <2>7, <2>9 DEF WithinNumbers, Counting
  <2>11. ~d.blind => Foretold(u, stored')
    BY <2>6, <2>7, <2>8, <2>10 DEF Foretold
  <2>12. ForetoldSound(u, stored')
    BY <2>1, <2>6, <2>8, <2>11 DEF ForetoldSound
  <2> QED
    BY <2>2, <2>5, <2>12, OneForetoldMoves
<1>5. CASE CountTable(c)
  <2>1. PICK e, current : e = p.estimate /\ Moves(c, [p EXCEPT !.estimate.current = {current}])
    BY <1>5 DEF CountTable
  <2>2. p.step = "estimating" /\ stored' = stored
    BY <1>5 DEF CountTable, At
  <2>3. Counting(p, stored)
    BY <1>1, <2>2 DEF ForetoldSound
  <2>4. PICK d : d = [e EXCEPT !.current = {current}]
    OBVIOUS
  <2>5. PICK v, o, k, i, b : e = [made |-> FALSE, valid |-> v, on |-> o, current |-> k, impact |-> i, blind |-> b]
    BY <2>1, <2>3 DEF Counting
  <2>6. d = [made |-> FALSE, valid |-> v, on |-> o, current |-> {current}, impact |-> i, blind |-> b]
    BY <2>4, <2>5
  <2>7. /\ d = [made |-> FALSE, valid |-> d.valid, on |-> d.on, current |-> d.current,
                impact |-> d.impact, blind |-> d.blind]
        /\ d.made = FALSE /\ d.on = e.on /\ d.impact = e.impact /\ d.blind = e.blind
    BY <2>5, <2>6
  <2>8. PICK u : u = [p EXCEPT !.estimate = d]
    OBVIOUS
  <2>9. Moves(c, u)
    BY <2>1, <2>4, <2>8
  <2>10. /\ u.step = "estimating" /\ u.dto = p.dto /\ u.cutoff = p.cutoff /\ u.todo = p.todo
         /\ u.estimate = d
    BY <1>1, <2>2, <2>8 DEF Whole
  <2>11. Counting(u, stored')
    BY <2>1, <2>2, <2>3, <2>7, <2>10 DEF Counting
  <2>12. ForetoldSound(u, stored')
    BY <2>7, <2>10, <2>11 DEF ForetoldSound
  <2> QED
    BY <2>2, <2>9, <2>12, OneForetoldMoves
<1> QED
  BY <1>2, <1>3, <1>4, <1>5

(* A table is over, with no more deleted than its estimate foretold.        *)
LEMMA ForetoldTable ==
    ASSUME NEW p, PurgeShape(p), NEW rows, NEW left, left \subseteq rows, rows \subseteq FirstRows,
           ForetoldSound(p, rows), p.step = "tables", p.todo # <<>>, NEW n \in Nat,
           LikeForetold(p) => n <= MostOf(p.dto, p.cutoff, rows, Head(p.todo)),
           NEW u, TableDone(p, u, n), u.estimate = p.estimate
    PROVE  ForetoldSound(u, left)
<1>1. /\ p.dto \in PurgeDtos /\ p.todo \in Seq(Swept) /\ DOMAIN p.counts \subseteq Swept
  BY DEF PurgeShape
<1>2. PICK table, tail : /\ table = Head(p.todo) /\ tail = Tail(p.todo) /\ table \in Swept
                         /\ table \in ToSet(p.todo) /\ ToSet(tail) \subseteq ToSet(p.todo)
                         /\ ToSet(p.todo) \subseteq Swept
  <2>1. PICK todo \in Seq(Swept) : todo = p.todo /\ todo # <<>> /\ NoTwice(todo)
    BY <1>1 DEF PurgeShape
  <2>2. ToSet(todo) \subseteq Swept
    BY DEF ToSet
  <2> QED
    BY <2>1, <2>2, HeadAndTail
<1>3. /\ u.step = "tables" /\ u.by = p.by /\ u.dto = p.dto /\ u.cutoff = p.cutoff /\ u.todo = tail
      /\ u.counts = Counted(p.counts, table, n) /\ u.began = p.began
  BY <1>2 DEF TableDone
<1>4. LikeForetold(u) <=> LikeForetold(p)
  BY <1>3 DEF LikeForetold
<1>5. ASSUME p.estimate.made, ~p.estimate.blind PROVE p.estimate.records \in Nat /\ Foretold(u, left)
  <2>1. PICK f \in [Swept -> Nat] : TotalOf(f) <= p.estimate.records /\ WithinNumbers(p, rows, f)
    BY <1>5 DEF ForetoldSound, Foretold
  <2>2. ASSUME LikeForetold(p), NEW t \in ToSet(tail) PROVE MostOf(p.dto, p.cutoff, left, t) <= f[t]
    <3>1. MostOf(p.dto, p.cutoff, rows, t) <= f[t] /\ t \in Swept
      BY <1>2, <2>1, <2>2 DEF WithinNumbers
    <3>2. /\ MostOf(p.dto, p.cutoff, rows, t) \in Nat /\ MostOf(p.dto, p.cutoff, left, t) \in Nat
          /\ MostOf(p.dto, p.cutoff, left, t) <= MostOf(p.dto, p.cutoff, rows, t)
      BY <1>1, FewerAreMeant
    <3> QED
      BY <3>1, <3>2
  <2>3. ASSUME LikeForetold(p), NEW t \in DOMAIN u.counts PROVE u.counts[t] \in Nat /\ u.counts[t] <= f[t]
    <3>1. CASE t = table
      <4>1. u.counts[t] = n
        BY <1>3, <2>3, <3>1 DEF Counted
      <4>2. MostOf(p.dto, p.cutoff, rows, table) <= f[table] /\ n <= MostOf(p.dto, p.cutoff, rows, table)
        BY <1>2, <2>1, <2>3 DEF WithinNumbers
      <4>3. MostOf(p.dto, p.cutoff, rows, table) \in Nat
        BY <1>1, FewerAreMeant
      <4> QED
        BY <1>2, <3>1, <4>1, <4>2, <4>3
    <3>2. CASE t # table
      <4>1. t \in DOMAIN p.counts /\ u.counts[t] = p.counts[t]
        BY <1>3, <2>3, <3>2 DEF Counted
      <4> QED
        BY <2>1, <2>3, <4>1 DEF WithinNumbers
    <3> QED
      BY <3>1, <3>2
  <2>4. WithinNumbers(u, left, f)
    BY <1>3, <1>4, <2>2, <2>3 DEF WithinNumbers
  <2>5. Foretold(u, left)
    BY <2>1, <2>4 DEF Foretold
  <2> QED
    BY <1>5, <2>5 DEF ForetoldSound
<1> QED
  BY <1>3, <1>5 DEF ForetoldSound

LEMMA DeletedIsForetold ==
    ASSUME PurgesKept, NEW c \in PurgeCalls, NEW n
    PROVE  Deleted(c, n).estimate = purges[c].estimate
<1>1. Whole(purges[c])
  BY DEF PurgesKept, PurgeKept, PurgeShape
<1>2. PICK a : a = Active(c)
  OBVIOUS
<1>3. Whole(a) /\ a.estimate = purges[c].estimate /\ a.counts = purges[c].counts
  BY <1>1, <1>2 DEF Whole, Active
<1>4. PICK counts : counts = Counted(purges[c].counts, Head(purges[c].todo), n)
  OBVIOUS
<1>5. PICK u : u = [a EXCEPT !.counts = counts, !.picked = {}]
  OBVIOUS
<1>6. u = Deleted(c, n)
  BY <1>2, <1>3, <1>4, <1>5 DEF Deleted, HeadTable
<1>7. u.estimate = a.estimate
  BY <1>3, <1>5 DEF Whole
<1> QED
  BY <1>3, <1>6, <1>7

LEMMA SweepsForetell ==
    ASSUME PurgesKept, ForetoldKept, NEW c \in PurgeCalls,
           PurgeTableData(c) \/ PickOldest(c) \/ DeletePicked(c) \/ TableRefused(c)
    PROVE  ForetoldKept'
<1> DEFINE p == purges[c]
<1>1. /\ PurgeShape(p) /\ PickedKept(p) /\ Whole(p) /\ ForetoldSound(p, stored)
      /\ p.dto \in PurgeDtos /\ stored \subseteq FirstRows
  BY DEF PurgesKept, PurgeKept, PurgeShape, ForetoldKept
<1>2. PICK max \in Nat : max = p.dto.max
  BY <1>1 DEF PurgeDtos
<1>3. PICK table, cutoff, ids : table = Head(p.todo) /\ cutoff = p.cutoff /\ ids = p.dto.ids
  OBVIOUS
<1>4. PICK meant : /\ meant = MeantOf(p.dto, cutoff, stored, table)
                   /\ meant = ExpiredOfIncidents(table, cutoff, ids)
  BY <1>3 DEF MeantOf, ExpiredOfIncidents, ExpiredIn
<1>5. IsFiniteSet(meant)
  <2>1. meant \subseteq FirstRows
    BY <1>1, <1>4 DEF MeantOf
  <2> QED
    BY <2>1, RowsAreFinite, FS_Subset
<1>6. PICK m \in Nat : m = Cardinality(meant)
  BY <1>5, FS_CardinalityType
<1>7. MostOf(p.dto, cutoff, stored, table) = IF max # 0 THEN Smaller(m, max) ELSE m
  BY <1>2, <1>4, <1>6 DEF MostOf
<1>8. ASSUME At(c, "tables"), NEW n \in Nat, Moves(c, Deleted(c, n)), stored' \subseteq stored,
             LikeForetold(p) => n <= MostOf(p.dto, cutoff, stored, table)
      PROVE  ForetoldKept'
  <2>1. p.step = "tables" /\ p.todo # <<>>
    BY <1>8 DEF At
  <2>2. TableDone(p, Deleted(c, n), n) /\ Deleted(c, n).estimate = p.estimate
    BY DeletedIsDone, DeletedIsForetold
  <2>3. ForetoldSound(Deleted(c, n), stored')
    BY <1>1, <1>3, <1>8, <2>1, <2>2, ForetoldTable
  <2> QED
    BY <1>8, <2>3, OneForetoldMoves
<1>9. CASE PurgeTableData(c)
  <2>1. PICK rows : /\ rows = ExpiredIn(table, cutoff) /\ Moves(c, Deleted(c, Cardinality(rows)))
                    /\ At(c, "tables") /\ max = 0 /\ stored' \subseteq stored
    BY <1>2, <1>3, <1>9 DEF PurgeTableData, HeadTable
  <2>2. Cardinality(rows) \in Nat
    <3>1. rows \subseteq FirstRows
      BY <1>1, <2>1 DEF ExpiredIn
    <3> QED
      BY <3>1, RowsAreFinite, FS_Subset, FS_CardinalityType
  <2>3. LikeForetold(p) => Cardinality(rows) = m
    <3>1. LikeForetold(p) => ids = {}
      BY <1>2, <1>3, <2>1 DEF LikeForetold
    <3>2. ids = {} => rows = meant
      BY <1>4, <2>1 DEF ExpiredOfIncidents
    <3> QED
      BY <1>6, <3>1, <3>2
  <2> QED
    BY <1>7, <1>8, <2>1, <2>2, <2>3
<1>10. CASE PickOldest(c)
  <2>1. PICK n, oldest : /\ n = Smaller(max, m) /\ At(c, "tables") /\ max # 0 /\ stored' = stored
                         /\ Moves(c, IF p.dto.dry \/ n = 0 THEN Deleted(c, n) ELSE [p EXCEPT !.picked = oldest])
    BY <1>2, <1>3, <1>4, <1>6, <1>10 DEF PickOldest, HeadTable
  <2>2. n \in Nat /\ n <= MostOf(p.dto, cutoff, stored, table)
    BY <1>7, <2>1 DEF Smaller
  <2>3. CASE p.dto.dry \/ n = 0
    BY <1>8, <2>1, <2>2, <2>3
  <2>4. CASE ~(p.dto.dry \/ n = 0)
    <3>1. PICK u : u = [p EXCEPT !.picked = oldest]
      OBVIOUS
    <3>2. Moves(c, u)
      BY <2>1, <2>4, <3>1
    <3>3. /\ u.step = p.step /\ u.by = p.by /\ u.dto = p.dto /\ u.cutoff = p.cutoff /\ u.todo = p.todo
          /\ u.counts = p.counts /\ u.began = p.began /\ u.estimate = p.estimate /\ u.total = p.total
      BY <1>1, <3>1 DEF Whole
    <3>4. ForetoldSound(u, stored')
      BY <1>1, <2>1, <3>3 DEF ForetoldSound, Foretold, WithinNumbers, LikeForetold, Counting
    <3> QED
      BY <2>1, <3>2, <3>4, OneForetoldMoves
  <2> QED
    BY <2>3, <2>4
<1>11. CASE DeletePicked(c)
  <2>1. PICK rows : /\ rows = p.picked \cap stored /\ Moves(c, Deleted(c, Cardinality(rows)))
                    /\ At(c, "tables") /\ p.picked # {} /\ stored' \subseteq stored
    BY <1>11 DEF DeletePicked
  <2>2. max # 0
    BY <1>1, <1>2, <2>1 DEF PickedKept
  <2>3. rows \subseteq meant
    BY <1>1, <1>3, <1>4, <2>1 DEF PickedKept, MeantOf
  <2>4. PICK n \in Nat : n = Cardinality(rows) /\ n <= m
    BY <1>5, <1>6, <2>3, FS_Subset, FS_CardinalityType
  <2>5. n <= max
    <3>1. IsFiniteSet(p.picked) /\ rows \subseteq p.picked
      BY <1>1, <2>1, RowsAreFinite, FS_Subset DEF PickedKept
    <3>2. PICK k \in Nat : k = Cardinality(p.picked) /\ n <= k
      BY <2>4, <3>1, FS_Subset, FS_CardinalityType
    <3>3. k <= max
      BY <1>1, <1>2, <3>2 DEF PurgeShape
    <3> QED
      BY <3>2, <3>3
  <2>6. n <= MostOf(p.dto, cutoff, stored, table)
    BY <1>7, <2>2, <2>4, <2>5 DEF Smaller
  <2> QED
    BY <1>8, <2>1, <2>4, <2>6
<1>12. CASE TableRefused(c)
  <2>1. /\ At(c, "tables") /\ stored' = stored /\ p.step = "tables" /\ p.todo # <<>>
        /\ Moves(c, [Deleted(c, 0) EXCEPT !.refused = @ \cup {table}])
    BY <1>3, <1>12 DEF TableRefused, At, HeadTable
  <2>2. TableDone(p, Deleted(c, 0), 0) /\ Deleted(c, 0).estimate = p.estimate
    BY DeletedIsDone, DeletedIsForetold
  <2>3. PICK done, refused : done = Deleted(c, 0) /\ refused = done.refused \cup {table}
    OBVIOUS
  <2>4. PICK u : u = [done EXCEPT !.refused = refused]
    OBVIOUS
  <2>5. Moves(c, u)
    BY <2>1, <2>3, <2>4
  <2>6. TableDone(p, u, 0) /\ u.estimate = p.estimate
    BY <2>2, <2>3, <2>4 DEF TableDone, Whole
  <2>7. MostOf(p.dto, cutoff, stored, table) \in Nat
    BY <1>7, <1>2 DEF Smaller
  <2>8. ForetoldSound(u, stored')
    BY <1>1, <1>3, <2>1, <2>6, <2>7, ForetoldTable
  <2> QED
    BY <2>1, <2>5, <2>8, OneForetoldMoves
<1> QED
  BY <1>9, <1>10, <1>11, <1>12

(* A purge begins, with the estimate that was made for it or without one,   *)
(* comes to its tables, and tells what it has deleted.                      *)
LEMMA ManualPurgesForetell ==
    ASSUME PurgesKept, ForetoldKept, NEW c \in PurgeCalls,
           \/ \E dto \in PurgeDtos : BeginManualPurge(c, dto)
           \/ TakeDefaultPolicy(c) \/ CreateDefaultPolicy(c) \/ FinishManualPurge(c)
    PROVE  ForetoldKept'
<1> DEFINE p == purges[c]
<1>1. /\ PurgeShape(p) /\ AskedKept(p) /\ Whole(p) /\ ForetoldSound(p, stored)
      /\ p.dto \in PurgeDtos /\ stored \subseteq FirstRows /\ DOMAIN p.counts \subseteq Swept
      /\ p.estimate.made \in BOOLEAN
  BY DEF PurgesKept, PurgeKept, PurgeShape, ForetoldKept, ForetoldSound
<1>2. ASSUME NEW dto \in PurgeDtos, BeginManualPurge(c, dto) PROVE ForetoldKept'
  <2>1. stored' = stored /\ (p.step = "idle" \/ (p.step = "estimated" /\ p.dto = dto))
    BY <1>2 DEF BeginManualPurge
  <2>2. PICK asked : asked = [NoPurge EXCEPT !.dto = dto, !.estimate = p.estimate,
                                             !.began = purgeClock.today]
    OBVIOUS
  <2>3. /\ Whole(asked) /\ asked.by = "operator" /\ asked.dto = dto /\ asked.counts = <<>>
        /\ asked.total = 0 /\ asked.began = purgeClock.today /\ asked.estimate = p.estimate
    BY <2>2, NothingForetold DEF Unbegun, Whole
  <2>4. PICK u : /\ Moves(c, u) /\ u.by = "operator" /\ u.dto = dto /\ u.total = 0
                 /\ u.began = purgeClock.today /\ u.estimate = p.estimate
                 /\ \/ u.step = "policy" /\ u.cutoff = CutoffOn(dto, purgeClock.today)
                    \/ u.step = "over"
    <3>1. CASE ValidatePurgeOperation(dto)
      <4>1. PICK cutoff : cutoff = CutoffOf(dto) /\ cutoff = CutoffOn(dto, purgeClock.today)
        BY DEF CutoffOf, CutoffOn
      <4>2. PICK u : u = [asked EXCEPT !.step = "policy", !.cutoff = cutoff]
        OBVIOUS
      <4>3. Moves(c, u)
        BY <1>2, <2>2, <3>1, <4>1, <4>2 DEF BeginManualPurge
      <4>4. /\ u.step = "policy" /\ u.cutoff = cutoff /\ u.by = asked.by /\ u.dto = asked.dto
            /\ u.total = asked.total /\ u.began = asked.began /\ u.estimate = asked.estimate
        BY <2>3, <4>2 DEF Whole
      <4> QED
        BY <2>3, <4>1, <4>3, <4>4
    <3>2. CASE ~ValidatePurgeOperation(dto)
      <4>1. PICK u : u = [asked EXCEPT !.step = "over", !.told = "failed"]
        OBVIOUS
      <4>2. Moves(c, u)
        BY <1>2, <2>2, <3>2, <4>1 DEF BeginManualPurge
      <4>3. /\ u.step = "over" /\ u.by = asked.by /\ u.dto = asked.dto
            /\ u.total = asked.total /\ u.began = asked.began /\ u.estimate = asked.estimate
        BY <2>3, <4>1 DEF Whole
      <4> QED
        BY <2>3, <4>2, <4>3
    <3> QED
      BY <3>1, <3>2
  <2>5. CASE ~p.estimate.made
    <3>1. ForetoldSound(u, stored')
      BY <1>1, <2>4, <2>5, UnmadeSound
    <3> QED
      BY <2>1, <2>4, <3>1, OneForetoldMoves
  <2>6. CASE p.estimate.made
    <3>1. p.step = "estimated" /\ p.dto = dto
      BY <1>1, <2>1, <2>6 DEF ForetoldSound
    <3>2. ASSUME ~p.estimate.blind
          PROVE  /\ p.estimate.records \in Nat /\ 0 <= p.estimate.records
                 /\ u.step = "policy" => Foretold(u, stored')
      <4>1. PICK f \in [Swept -> Nat] : TotalOf(f) <= p.estimate.records /\ WithinNumbers(p, stored, f)
        BY <1>1, <2>6, <3>1, <3>2 DEF ForetoldSound, Foretold
      <4>2. LikeForetold(u) /\ u.step = "policy" => u.cutoff = CutoffOn(dto, p.estimate.on)
        BY <2>4 DEF LikeForetold, CutoffOn
      <4>3. u.step = "policy" => WithinNumbers(u, stored', f)
        BY <2>1, <2>4, <3>1, <4>1, <4>2 DEF WithinNumbers
      <4>4. p.estimate.records \in Nat
        BY <1>1, <2>6, <3>2 DEF ForetoldSound
      <4> QED
        BY <2>4, <4>1, <4>3, <4>4 DEF Foretold
    <3>3. ForetoldSound(u, stored')
      BY <1>1, <2>4, <3>2 DEF ForetoldSound
    <3> QED
      BY <2>1, <2>4, <3>3, OneForetoldMoves
  <2> QED
    BY <1>1, <2>5, <2>6
<1>3. CASE TakeDefaultPolicy(c) \/ CreateDefaultPolicy(c)
  <2>1. /\ p.step \in {"policy", "creating"} /\ stored' = stored
        /\ \/ \E id : Moves(c, WithPolicy(p, id))
           \/ Moves(c, [p EXCEPT !.step = "creating"])
           \/ Moves(c, WithoutPolicy(p))
    BY <1>3 DEF TakeDefaultPolicy, CreateDefaultPolicy
  <2>2. p.counts = <<>> /\ DOMAIN <<>> = {}
    BY <1>1, <2>1 DEF AskedKept
  <2>3. ASSUME NEW u, Moves(c, u), u.by = p.by, u.dto = p.dto, u.cutoff = p.cutoff,
               u.counts = p.counts, u.began = p.began, u.estimate = p.estimate, u.total = p.total,
               \/ u.step = "tables" /\ u.todo = GetTablesForPurgeScope(p.dto)
               \/ u.step \in {"creating", "over"}
        PROVE  ForetoldKept'
    <3>1. ASSUME p.estimate.made, ~p.estimate.blind
          PROVE  p.estimate.records \in Nat /\ p.total = 0 /\ Foretold(u, stored')
      <4>1. PICK f \in [Swept -> Nat] : TotalOf(f) <= p.estimate.records /\ WithinNumbers(p, stored, f)
        BY <1>1, <2>1, <3>1 DEF ForetoldSound, Foretold
      <4>2. LikeForetold(u) <=> LikeForetold(p)
        BY <2>3 DEF LikeForetold
      <4>3. WithinNumbers(u, stored', f)
        BY <2>1, <2>2, <2>3, <4>1, <4>2 DEF WithinNumbers
      <4> QED
        BY <1>1, <2>1, <2>3, <3>1, <4>1, <4>3 DEF Foretold, ForetoldSound
    <3>2. ForetoldSound(u, stored')
      BY <1>1, <2>1, <2>3, <3>1 DEF ForetoldSound
    <3> QED
      BY <2>1, <2>3, <3>2, OneForetoldMoves
  <2>4. ASSUME NEW id, Moves(c, WithPolicy(p, id)) PROVE ForetoldKept'
    <3>1. PICK todo : todo = GetTablesForPurgeScope(p.dto)
      OBVIOUS
    <3>2. PICK u : u = [p EXCEPT !.step = "tables", !.todo = todo, !.policy = id]
      OBVIOUS
    <3>3. Moves(c, u)
      BY <2>4, <3>1, <3>2 DEF WithPolicy
    <3>4. /\ u.step = "tables" /\ u.by = p.by /\ u.dto = p.dto /\ u.cutoff = p.cutoff /\ u.todo = todo
          /\ u.counts = p.counts /\ u.began = p.began /\ u.estimate = p.estimate /\ u.total = p.total
      BY <1>1, <3>2 DEF Whole
    <3> QED
      BY <2>3, <3>1, <3>3, <3>4
  <2>5. CASE Moves(c, [p EXCEPT !.step = "creating"])
    <3>1. PICK u : u = [p EXCEPT !.step = "creating"]
      OBVIOUS
    <3>2. /\ u.step = "creating" /\ u.by = p.by /\ u.dto = p.dto /\ u.cutoff = p.cutoff
          /\ u.counts = p.counts /\ u.began = p.began /\ u.estimate = p.estimate /\ u.total = p.total
      BY <1>1, <3>1 DEF Whole
    <3> QED
      BY <2>3, <2>5, <3>1, <3>2
  <2>6. CASE Moves(c, WithoutPolicy(p))
    <3>1. PICK u : u = [p EXCEPT !.step = "over", !.told = "failed"]
      OBVIOUS
    <3>2. /\ u.step = "over" /\ u.by = p.by /\ u.dto = p.dto /\ u.cutoff = p.cutoff
          /\ u.counts = p.counts /\ u.began = p.began /\ u.estimate = p.estimate /\ u.total = p.total
      BY <1>1, <3>1 DEF Whole
    <3> QED
      BY <2>3, <2>6, <3>1, <3>2 DEF WithoutPolicy
  <2> QED
    BY <2>1, <2>4, <2>5, <2>6
<1>4. CASE FinishManualPurge(c)
  <2>1. PICK told : Moves(c, [NoPurge EXCEPT
                       !.step = "over", !.dto = p.dto, !.began = p.began, !.estimate = p.estimate,
                       !.total = TotalOf(p.counts), !.told = told])
    BY <1>4 DEF FinishManualPurge
  <2>2. p.step = "tables" /\ p.by = "operator" /\ stored' = stored
    BY <1>4 DEF FinishManualPurge
  <2>3. PICK total : total = TotalOf(p.counts)
    OBVIOUS
  <2>4. PICK u : u = [NoPurge EXCEPT !.step = "over", !.dto = p.dto, !.began = p.began,
                                     !.estimate = p.estimate, !.total = total, !.told = told]
    OBVIOUS
  <2>5. Moves(c, u)
    BY <2>1, <2>3, <2>4
  <2>6. /\ u.step = "over" /\ u.by = "operator" /\ u.dto = p.dto /\ u.total = total
        /\ u.began = p.began /\ u.estimate = p.estimate
    BY <2>4, NothingForetold DEF Unbegun
  <2>7. ASSUME p.estimate.made, ~p.estimate.blind
        PROVE  p.estimate.records \in Nat /\ (LikeForetold(p) => total <= p.estimate.records)
    <3>1. p.estimate.records \in Nat
      BY <1>1, <2>7 DEF ForetoldSound
    <3>2. PICK f \in [Swept -> Nat] : TotalOf(f) <= p.estimate.records /\ WithinNumbers(p, stored, f)
      BY <1>1, <2>2, <2>7 DEF ForetoldSound, Foretold
    <3>3. ASSUME LikeForetold(p) PROVE total <= p.estimate.records
      <4>1. \A t \in DOMAIN p.counts : p.counts[t] \in Nat /\ p.counts[t] <= f[t]
        BY <2>2, <3>2, <3>3 DEF WithinNumbers
      <4>2. TotalOf(p.counts) \in Nat /\ TotalOf(f) \in Nat /\ TotalOf(p.counts) <= TotalOf(f)
        BY <1>1, <4>1, TotalsGrow
      <4> QED
        BY <2>3, <3>1, <3>2, <4>2
    <3> QED
      BY <3>1, <3>3
  <2>8. LikeForetold(u) <=> LikeForetold(p)
    BY <2>6 DEF LikeForetold
  <2>9. ForetoldSound(u, stored')
    BY <1>1, <2>6, <2>7, <2>8 DEF ForetoldSound
  <2> QED
    BY <2>2, <2>5, <2>9, OneForetoldMoves
<1> QED
  BY <1>2, <1>3, <1>4

(* A purge of the policies has no estimate, nor one that nobody asked for.  *)
LEMMA PolicyPurgesForetell ==
    ASSUME PurgesKept, ForetoldKept, NEW c \in PurgeCalls,
           \/ BeginAutomaticPurge(c) \/ ExecutePolicyPurge(c) \/ FinishPolicyPurge(c)
           \/ FinishAutomaticPurge(c) \/ (Moves(c, NoPurge) /\ stored' = stored)
    PROVE  ForetoldKept'
<1> DEFINE p == purges[c]
<1>1. Whole(p) /\ ForetoldSound(p, stored) /\ p.estimate.made \in BOOLEAN
  BY DEF PurgesKept, PurgeKept, PurgeShape, ForetoldKept, ForetoldSound
<1>2. stored' = stored
  BY DEF BeginAutomaticPurge, ExecutePolicyPurge, FinishPolicyPurge, FinishAutomaticPurge
<1>3. ASSUME NEW u, Moves(c, u), u.estimate.made = FALSE, u.step # "estimating" PROVE ForetoldKept'
  <2>1. ForetoldSound(u, stored')
    BY <1>3, UnmadeSound
  <2> QED
    BY <1>2, <1>3, <2>1, OneForetoldMoves
<1>4. CASE BeginAutomaticPurge(c)
  <2>1. PICK plans : plans = GetActiveRetentionPolicies
    OBVIOUS
  <2>2. CASE Moves(c, [NoPurge EXCEPT !.step = "policies", !.by = "policies", !.policies = plans])
    <3>1. PICK u : u = [NoPurge EXCEPT !.step = "policies", !.by = "policies", !.policies = plans]
      OBVIOUS
    <3>2. u.estimate.made = FALSE /\ u.step # "estimating"
      BY <3>1, NothingForetold DEF Unbegun
    <3> QED
      BY <1>3, <2>2, <3>1, <3>2
  <2>3. CASE Moves(c, [NoPurge EXCEPT !.step = "over", !.by = "policies", !.told = "failed"])
    <3>1. PICK u : u = [NoPurge EXCEPT !.step = "over", !.by = "policies", !.told = "failed"]
      OBVIOUS
    <3>2. u.estimate.made = FALSE /\ u.step # "estimating"
      BY <3>1, NothingForetold DEF Unbegun
    <3> QED
      BY <1>3, <2>3, <3>1, <3>2
  <2> QED
    BY <1>4, <2>1, <2>2, <2>3 DEF BeginAutomaticPurge
<1>5. CASE ExecutePolicyPurge(c)
  <2>1. PICK rest, dto, cutoff, began, todo :
           Moves(c, [p EXCEPT !.step = "tables", !.policies = rest, !.dto = dto, !.cutoff = cutoff,
                              !.began = began, !.counts = <<>>, !.refused = {}, !.todo = todo])
    BY <1>5 DEF ExecutePolicyPurge
  <2>2. p.step = "policies"
    BY <1>5 DEF ExecutePolicyPurge
  <2>3. PICK u : u = [p EXCEPT !.step = "tables", !.policies = rest, !.dto = dto, !.cutoff = cutoff,
                               !.began = began, !.counts = <<>>, !.refused = {}, !.todo = todo]
    OBVIOUS
  <2>4. u.estimate = p.estimate /\ u.step = "tables"
    BY <1>1, <2>3 DEF Whole
  <2>5. p.estimate.made = FALSE
    BY <1>1, <2>2 DEF ForetoldSound
  <2> QED
    BY <1>3, <2>1, <2>3, <2>4, <2>5
<1>6. CASE FinishPolicyPurge(c)
  <2>1. PICK total : Moves(c, [p EXCEPT !.step = "policies", !.total = total])
    BY <1>6 DEF FinishPolicyPurge
  <2>2. p.by = "policies"
    BY <1>6 DEF FinishPolicyPurge
  <2>3. PICK u : u = [p EXCEPT !.step = "policies", !.total = total]
    OBVIOUS
  <2>4. u.estimate = p.estimate /\ u.step = "policies"
    BY <1>1, <2>3 DEF Whole
  <2>5. p.estimate.made = FALSE
    BY <1>1, <2>2 DEF ForetoldSound
  <2> QED
    BY <1>3, <2>1, <2>3, <2>4, <2>5
<1>7. CASE FinishAutomaticPurge(c)
  <2>1. PICK total : total = p.total
    OBVIOUS
  <2>2. PICK u : u = [NoPurge EXCEPT !.step = "over", !.by = "policies", !.total = total, !.told = "done"]
    OBVIOUS
  <2>3. Moves(c, u)
    BY <1>7, <2>1, <2>2 DEF FinishAutomaticPurge
  <2>4. u.estimate.made = FALSE /\ u.step # "estimating"
    BY <2>2, NothingForetold DEF Unbegun
  <2> QED
    BY <1>3, <2>3, <2>4
<1>8. CASE Moves(c, NoPurge)
  <2>1. NoPurge.estimate.made = FALSE /\ NoPurge.step # "estimating"
    BY NothingForetold DEF Unbegun
  <2> QED
    BY <1>3, <1>8, <2>1
<1> QED
  BY <1>4, <1>5, <1>6, <1>7, <1>8

LEMMA ForetoldBeside ==
    ASSUME ForetoldKept, UNCHANGED <<stored, purges>>
    PROVE  ForetoldKept'
<1>1. stored' = stored /\ \A c \in PurgeCalls : purges'[c] = purges[c]
  OBVIOUS
<1> QED
  BY <1>1 DEF ForetoldKept

LEMMA PurgeStepForetells ==
    ASSUME PurgesKept, ForetoldKept, NEW c \in PurgeCalls, PurgeStep(c)
    PROVE  ForetoldKept'
BY EstimatesForetell, SweepsForetell, ManualPurgesForetell, PolicyPurgesForetell DEF PurgeStep

LEMMA PurgeNextForetells ==
    ASSUME PurgesKept, ForetoldKept, [PurgeNext]_purgeVars
    PROVE  ForetoldKept'
<1>1. CASE \/ UNCHANGED purgeVars \/ Midnight
           \/ CreateRetentionPolicy \/ UpdateRetentionPolicy \/ DeleteRetentionPolicy
  <2>1. UNCHANGED <<stored, purges>>
    BY <1>1 DEF purgeVars, Midnight, CreateRetentionPolicy, UpdateRetentionPolicy,
                DeleteRetentionPolicy, PolicyChanges
  <2> QED
    BY <2>1, ForetoldBeside
<1>2. ASSUME NEW c \in PurgeCalls, NEW dto \in PurgeRequests,
             BeginEstimate(c, dto) \/ BeginManualPurge(c, dto)
      PROVE  ForetoldKept'
  BY <1>2, TheRequests, EstimatesForetell, ManualPurgesForetell
<1>3. ASSUME NEW c \in PurgeCalls, BeginAutomaticPurge(c) \/ PurgeStep(c) PROVE ForetoldKept'
  BY <1>3, PolicyPurgesForetell, PurgeStepForetells
<1> QED
  BY <1>1, <1>2, <1>3 DEF PurgeNext

(* Whoever waits for a purge begins one, or frees its slot, as a purge that *)
(* nobody waits for.                                                        *)
LEMMA WaitersForetell ==
    ASSUME ScheduleInv, ForetoldKept, NEW c \in PurgeCalls,
           \/ OperatorExecutesSchedule(c) \/ ScheduledPurgeOver(c)
           \/ HandleDailyDataPurge(c) \/ DailyPurgeOver(c) \/ BeginFallback(c) \/ FallbackOver(c)
           \/ ExecuteEmergencyPurge(c) \/ EmergencyPurgeOver(c)
           \/ ProcessJob(c) \/ JobOver(c)
    PROVE  ForetoldKept'
<1>1. PurgesKept /\ SchedulesKept /\ RetentionKept
  BY DEF ScheduleInv, PurgeInv
<1>2. ASSUME NEW dto \in PurgeDtos, BeginManualPurge(c, dto) PROVE ForetoldKept'
  BY <1>1, <1>2, ManualPurgesForetell
<1>3. ASSUME BeginAutomaticPurge(c) PROVE ForetoldKept'
  BY <1>1, <1>3, PolicyPurgesForetell
<1>4. ASSUME NEW caller, SlotFreed(c, caller) PROVE ForetoldKept'
  <2>1. Moves(c, NoPurge) /\ stored' = stored
    BY <1>4 DEF SlotFreed, Moves
  <2> QED
    BY <1>1, <2>1, PolicyPurgesForetell
<1>5. CASE OperatorExecutesSchedule(c)
  <2>1. PICK id \in DOMAIN schedules : BeginManualPurge(c, schedules[id].request)
    BY <1>5 DEF OperatorExecutesSchedule, ExecuteScheduledPurge
  <2>2. schedules[id].request \in PurgeDtos
    BY <1>1 DEF SchedulesKept, ScheduleKept
  <2> QED
    BY <1>2, <2>1, <2>2
<1>6. CASE HandleDailyDataPurge(c)
  <2>1. BeginManualPurge(c, schedules["daily-purge"].request)
    BY <1>6 DEF HandleDailyDataPurge, ExecuteScheduledPurge
  <2>2. schedules["daily-purge"].request \in PurgeDtos
    BY <1>1 DEF SchedulesKept, ScheduleKept, ScheduleIds
  <2> QED
    BY <1>2, <2>1, <2>2
<1>7. CASE BeginFallback(c)
  BY <1>3, <1>7 DEF BeginFallback
<1>8. CASE ExecuteEmergencyPurge(c)
  <2>1. \/ BeginManualPurge(c, EmergencyRequest("evidence", "admin"))
        \/ BeginManualPurge(c, EmergencyRequest("purge_audit", "deleted"))
    BY <1>8 DEF ExecuteEmergencyPurge
  <2>2. /\ EmergencyRequest("evidence", "admin") \in PurgeDtos
        /\ EmergencyRequest("purge_audit", "deleted") \in PurgeDtos
    BY TheRequests DEF EmergencyRequest, PurgeDtos, Swept, Tables
  <2> QED
    BY <1>2, <2>1, <2>2
<1>9. CASE ProcessJob(c)
  <2>1. PICK job : /\ retention.waiting # <<>> /\ job = Head(retention.waiting)
                   /\ BeginManualPurge(c, job.request) \/ BeginAutomaticPurge(c)
    BY <1>9 DEF ProcessJob
  <2>2. job \in QueuedJobs
    BY <1>1, <2>1 DEF RetentionKept
  <2>3. job.request \in PurgeDtos
    BY <2>2 DEF QueuedJobs, Jobs
  <2> QED
    BY <1>2, <1>3, <2>1, <2>3
<1>10. CASE ScheduledPurgeOver(c) \/ DailyPurgeOver(c) \/ FallbackOver(c) \/ EmergencyPurgeOver(c) \/ JobOver(c)
  <2>1. \E caller : SlotFreed(c, caller)
    BY <1>10 DEF PurgeOver, ScheduledPurgeOver, DailyPurgeOver, FallbackOver, EmergencyPurgeOver, JobOver
  <2> QED
    BY <1>4, <2>1
<1> QED
  BY <1>5, <1>6, <1>7, <1>8, <1>9, <1>10

LEMMA ScheduleNextForetells ==
    ASSUME ScheduleInv, ForetoldKept, [ScheduleNext]_scheduleVars
    PROVE  ForetoldKept'
<1>1. PurgesKept
  BY DEF ScheduleInv, PurgeInv
<1>2. CASE UNCHANGED scheduleVars \/ Midnight
  <2>1. UNCHANGED <<stored, purges>>
    BY <1>2 DEF scheduleVars, purgeVars, Midnight
  <2> QED
    BY <2>1, ForetoldBeside
<1>3. CASE \/ CreateSchedule \/ EnableEmergencyCleanup \/ DisableEmergencyCleanup
           \/ HandleWeeklyDataAnonymization
  <2>1. UNCHANGED <<stored, purges>>
    BY <1>3 DEF CreateSchedule, EnableEmergencyCleanup, DisableEmergencyCleanup,
                HandleWeeklyDataAnonymization, purgeVars
  <2> QED
    BY <2>1, ForetoldBeside
<1>4. CASE \/ ScheduleDataPurge \/ ScheduleArtifactCleanup
           \/ PauseQueue \/ ResumeQueue \/ HandleCircuitBreakerReset
  <2>1. UNCHANGED <<stored, purges>>
    BY <1>4 DEF ScheduleDataPurge, ScheduleArtifactCleanup, PauseQueue, ResumeQueue,
                HandleCircuitBreakerReset, purgeVars
  <2> QED
    BY <2>1, ForetoldBeside
<1>5. ASSUME NEW c \in PurgeCalls, PurgeStep(c) PROVE ForetoldKept'
  BY <1>1, <1>5, PurgeStepForetells
<1> QED
  BY <1>2, <1>3, <1>4, <1>5, WaitersForetell DEF ScheduleNext

LEMMA NothingForetoldYet == PurgeInit => ForetoldKept
<1> SUFFICES ASSUME PurgeInit, NEW c \in PurgeCalls PROVE ForetoldSound(purges[c], stored)
  BY DEF ForetoldKept
<1>1. purges[c] = NoPurge
  BY DEF PurgeInit
<1>2. NoPurge.estimate.made = FALSE /\ NoPurge.step # "estimating"
  BY NothingForetold DEF Unbegun
<1> QED
  BY <1>1, <1>2, UnmadeSound

LEMMA ForetoldIsEnough == ForetoldKept => ToldWithinEstimate
<1> SUFFICES ASSUME ForetoldKept, NEW c \in PurgeCalls,
                    purges[c].step = "over", purges[c].estimate.made, ~purges[c].estimate.blind,
                    LikeForetold(purges[c])
             PROVE  purges[c].total <= purges[c].estimate.records
  BY DEF ToldWithinEstimate, LikeForetold
<1> QED
  BY DEF ForetoldKept, ForetoldSound

(***************************************************************************)
(* The records together                                                    *)
(***************************************************************************)
RecordsInv == RecordInv /\ AnonInv /\ ScheduleInv

LEMMA RecordsStart == RecordsInit => RecordsInv
<1> SUFFICES ASSUME RecordsInit PROVE RecordsInv
  OBVIOUS
<1>1. RecordInit /\ AnonymizationInit /\ PurgeInit /\ ScheduleInit
  BY DEF RecordsInit
<1>2. ClockSet
  <2>1. PICK n \in Int : purgeClock = [today |-> FirstDay, disturbances |-> n,
                                     created |-> Cardinality(policies)]
    <3>1. MaxDisturbances - 1 \in Int
      BY PurgeAssumption
    <3> QED
      BY <3>1 DEF RecordsInit
  <2>2. Cardinality(policies) \in Nat /\ \A policy \in policies : policy.id <= Cardinality(policies)
    <3>a. PICK first, second :
             /\ first = [id |-> 1, name |-> "default-retention", days |-> 3, appliesTo |-> "all",
                         active |-> TRUE]
             /\ second = [id |-> 2, name |-> "short", days |-> 1, appliesTo |-> "evidence",
                          active |-> TRUE]
      OBVIOUS
    <3>b. policies = {} \/ policies = {first, second}
      BY <1>1, <3>a DEF PurgeInit
    <3>1. /\ policies = {} \/ policies = {first} \cup {second}
          /\ first.id = 1 /\ second.id = 2 /\ second \notin {first}
      BY <3>a, <3>b
    <3>2. IsFiniteSet({first}) /\ Cardinality({first}) = 1 /\ Cardinality({}) = 0
      BY FS_Singleton, FS_EmptySet
    <3>3. Cardinality({first} \cup {second}) = 2
      <4>1. Cardinality({first} \cup {second}) = Cardinality({first}) + 1
        BY <3>1, <3>2, FS_AddElement
      <4> QED
        BY <3>2, <4>1
    <3> QED
      BY <3>1, <3>2, <3>3
  <2> QED
    BY <2>1, <2>2 DEF ClockSet
<1> QED
  BY <1>1, <1>2, RecordInitially, AnonymizationStarts, SchedulesBegin DEF RecordsInv

LEMMA PurgesBesideSchedules ==
    ASSUME ScheduleInv, PurgeNext, UNCHANGED <<schedules, callers, daily, retention, begun>>
    PROVE  ScheduleInv' /\ PurgeScopeKept
<1>1. PurgeInv' /\ PurgeScopeKept
  BY PurgeNextKeeps DEF ScheduleInv
<1>2. SchedulesKept' /\ RetentionKept' /\ CallersKept'
  BY DEF ScheduleInv, SchedulesKept, RetentionKept, CallersKept
<1> QED
  BY <1>1, <1>2 DEF ScheduleInv

LEMMA RecordsStep == RecordsInv /\ [RecordsNext]_recordsVars => RecordsInv' /\ PurgeScopeKept
<1> SUFFICES ASSUME RecordsInv, [RecordsNext]_recordsVars PROVE RecordsInv' /\ PurgeScopeKept
  OBVIOUS
<1>1. RecordInv /\ AnonInv /\ ScheduleInv
  BY DEF RecordsInv
<1>2. [RecordNext]_recordVars
  BY DEF RecordsNext, recordsVars
<1>3. [AnonymizationNext]_anonymizationVars
  BY DEF RecordsNext, recordsVars
<1>4. \/ [ScheduleNext]_scheduleVars
      \/ PurgeNext /\ UNCHANGED <<schedules, callers, daily, retention, begun>>
  BY DEF RecordsNext, recordsVars
<1>5. RecordInv'
  BY <1>1, <1>2, RecordStep
<1>6. AnonInv'
  BY <1>1, <1>3, AnonymizationStep
<1>7. ScheduleInv' /\ PurgeScopeKept
  BY <1>1, <1>4, ScheduleNextKeeps, PurgesBesideSchedules
<1> QED
  BY <1>5, <1>6, <1>7 DEF RecordsInv

LEMMA RecordsMean ==
    RecordsInv => RecordsType /\ TimelineExplains /\ EvidenceGenuine /\ PurgeLeavesNoneExpired
BY RecordInvIsEnough, AnonymizationMeans, ScheduleInvIsEnough DEF RecordsInv, RecordsType

(* Every record is as it is described.                                      *)
THEOREM RecordsTypeCorrect == RecordsSpec => []RecordsType
BY RecordsStart, RecordsStep, RecordsMean, PTL DEF RecordsSpec

(* The timeline explains the incident, the evidence is genuine and no purge *)
(* leaves an expired row behind, for any number of calls, of collections,   *)
(* of purges and of days.                                                   *)
THEOREM RecordsSafe == RecordsSpec => [](TimelineExplains /\ EvidenceGenuine /\ PurgeLeavesNoneExpired)
BY RecordsStart, RecordsStep, RecordsMean, PTL DEF RecordsSpec

(* No step deletes a row that no purge under way was asked to delete, nor   *)
(* an incident of whose none was, whoever begins the purges.                *)
THEOREM RecordsPurgedInScope == RecordsSpec => PurgeStaysInScope
<1>1. RecordsInv /\ [RecordsNext]_recordsVars => [PurgeScopeKept]_purgeVars
  BY RecordsStep
<1> QED
  BY <1>1, RecordsStart, RecordsStep, PTL DEF RecordsSpec, PurgeStaysInScope, PurgeScopeKept, Accounted

(* The purges tell no more than was foretold, beside all that is kept.      *)
RecordsForetold == RecordsInv /\ ForetoldKept

LEMMA RecordsStartForetold == RecordsInit => RecordsForetold
BY RecordsStart, NothingForetoldYet DEF RecordsForetold, RecordsInit

LEMMA RecordsStayForetold == RecordsForetold /\ [RecordsNext]_recordsVars => RecordsForetold'
<1> SUFFICES ASSUME RecordsInv, ForetoldKept, [RecordsNext]_recordsVars PROVE ForetoldKept'
  BY RecordsStep DEF RecordsForetold
<1>1. ScheduleInv /\ PurgesKept
  BY DEF RecordsInv, ScheduleInv, PurgeInv
<1>2. \/ [ScheduleNext]_scheduleVars \/ PurgeNext
  BY DEF RecordsNext, recordsVars
<1> QED
  BY <1>1, <1>2, ScheduleNextForetells, PurgeNextForetells

LEMMA ForetoldMeans == RecordsForetold => ToldWithinEstimate
BY ForetoldIsEnough DEF RecordsForetold

(* However purges overlap and whoever begins them, a purge counts no more   *)
(* deletions (purge.service.ts:112-121) than its estimate foretold          *)
(* (purge-validation.service.ts:50-85), when the estimate saw every table,  *)
(* and the cutoff and the incidents that it counted are those of the purge. *)
THEOREM PurgesToldWithinEstimate == RecordsSpec => []ToldWithinEstimate
BY RecordsStartForetold, RecordsStayForetold, ForetoldMeans, PTL DEF RecordsSpec
=============================================================================

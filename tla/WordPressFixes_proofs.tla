------------------------ MODULE WordPressFixes_proofs ------------------------
(***************************************************************************)
(* Proofs about WordPressFixes, for any number of faults: what a playbook  *)
(* changes its plan can put back, and a rollback that reports success has  *)
(* put it back.                                                            *)
(*                                                                         *)
(* FixSound is the invariant.  Before a method of a playbook every file is *)
(* as it was found, or covered: the plan holds a copy of it, or nobody     *)
(* knows what a failed command left there.  Every copy in the plan is of   *)
(* what the playbook found, but where two steps of one order are for the   *)
(* same file.  Stage says what each method relies on of those before it,   *)
(* and Rolling what a rollback has still to do.                            *)
(*                                                                         *)
(* The lemmas go from the commands to the edits with a step of the plan    *)
(* (Goes), from there to the methods and to the beginning of each playbook *)
(* (...Sound), and from them to the actions (...Keeps).                    *)
(***************************************************************************)
EXTENDS WordPressFixes, FiniteSetTheorems, SequenceTheorems, TLAPS

-----------------------------------------------------------------------------
(* The parts of a run.                                                      *)
Fields ==
    {"site", "before", "topics", "maxTier", "books", "book", "todo", "facts", "changed", "steps",
     "verdict", "applied", "unknown", "faults", "phase"}
(* The marks that damages, edits and switches leave.                        *)
Marks ==
    {"absent", "torn", "invalid", "corrupt", "stylesheet", "cleaned", "memory_limit",
     "max_execution_time", "reset", "rewrite", "basic", "upload_limits", "timeouts", "official",
     "repaired", "defaults", "optimized", "options", "twentyone", "twentytwo",
     "seo", "popup", "slider", "gallery", "wp-forms"}
Contents == SUBSET Marks
Tier3Books == {"conflict", "deactivation", "themeswitch", "themerollback"}
PlanSteps ==
    [kind : {"restore", "reactivate", "nothing", "broken"}, target : Targets,
     content : Contents, order : 0..9]

RunShape(s) ==
    /\ DOMAIN s = Fields
    /\ s.site \in [Targets -> Contents] /\ s.before \in [Targets -> Contents]
    /\ s.maxTier \in 1..3 /\ s.books \in Seq(Playbooks) /\ s.book \in Playbooks \cup {"none"}
    /\ s.changed \in BOOLEAN /\ s.steps \in Seq(PlanSteps)
    /\ s.applied \subseteq Playbooks /\ s.unknown \subseteq Targets
    /\ s.faults \in 0..MaxFaults

(* What needs no step: a target that nobody knows of, or that was not there. *)
Excused(s, t) == t \in s.unknown \/ s.before[t] = Absent
Restores(s, t) ==
    \E i \in DOMAIN s.steps :
        s.steps[i].kind = "restore" /\ s.steps[i].target = t /\ s.steps[i].content = s.before[t]
Covered(s, t) == Excused(s, t) \/ Restores(s, t)
Untouched(s) == \A t \in Restorable : s.site[t] = s.before[t]

(* Two steps of the plan for one target with one order.                     *)
Twice(s, t) ==
    \E i, j \in DOMAIN s.steps :
        i # j /\ s.steps[i].target = t /\ s.steps[j].target = t /\ s.steps[i].order = s.steps[j].order

Files == Restorable \ {"active_plugins"}

FilesPlanned(s) ==
    \A t \in Files :
        \/ Covered(s, t) \/ s.site[t] = s.before[t]
        \/ s.book = "themerollback" /\ t = "theme" /\ s.steps = <<>>
(* A plugin that is off has a step that switches it on.                     *)
Reactivates(s, p) ==
    \E i \in DOMAIN s.steps : s.steps[i].kind = "reactivate" /\ p \in s.steps[i].content
PluginsPlanned(s) ==
    /\ s.before["active_plugins"] = {}
    /\ \/ "active_plugins" \in s.unknown
       \/ \A p \in s.site["active_plugins"] :
             Reactivates(s, p) \/ (s.book = "deactivation" /\ p \in Essential)
(* Every copy is of what the playbook found, but for two steps of an order. *)
CopiesTrue(s) ==
    \A i \in DOMAIN s.steps :
        /\ s.steps[i].kind = "reactivate" => s.steps[i].target = "active_plugins"
        /\ s.steps[i].kind = "restore" =>
             /\ s.steps[i].target \in Files
             /\ \/ s.steps[i].content = s.before[s.steps[i].target]
                \/ Excused(s, s.steps[i].target)
                \/ Twice(s, s.steps[i].target)
(* Where a playbook edits files, each file has an order of its own.         *)
EditOrder(book, t) ==
    IF book = "memory" THEN (IF t = "php.ini" THEN 1 ELSE IF t = ".htaccess" THEN 2 ELSE 3) ELSE 1
OrdersFixed(s) ==
    s.book \in {"memory", "errorlog", "webserver"} =>
        \A i \in DOMAIN s.steps : s.steps[i].order = EditOrder(s.book, s.steps[i].target)
Alone(s) ==
    /\ s.book \in Tier3Books => s.books = <<>>
    /\ s.book \notin Tier3Books => s.site["active_plugins"] = {}

Plan(s) ==
    /\ FilesPlanned(s) /\ PluginsPlanned(s) /\ CopiesTrue(s) /\ OrdersFixed(s) /\ Alone(s)

(* The methods of each playbook, and those after which it has returned.     *)
MethodsOf(book) ==
    CASE book = "disk" -> {"cleanTemporaryFiles", "cleanOldLogFiles", "cleanWordPressCache",
                           "cleanPackageCache", "finalDiskUsage"}
      [] book = "memory" -> {"updatePhpIni", "updateHtaccess", "updateWpConfig",
                             "restartPhpService", "verifyMemoryLimit"}
      [] book = "errorlog" -> {"fixExecutionTimeLimit", "fixFilePermissions", "cleanupErrorLogs"}
      [] book = "webserver" -> {"fixHtaccessIssues", "fixUploadLimits", "fixTimeoutSettings",
                                "fixDirectoryPermissions", "restartWebServer"}
      [] book = "core" -> {"restoreCoreFiles", "verifyCoreFiles"}
      [] book = "wpconfig" -> {"backupWpConfig", "writeWpConfig"}
      [] book = "tables" -> {"createDatabaseBackup", "checkTableStatus", "repairCorruptedTables",
                             "optimizeTables", "repairWordPressOptions"}
      [] book = "conflict" -> {"deactivateProblematicPlugins"}
      [] book = "deactivation" -> {"deactivatePluginsByPriority", "selectiveReactivation"}
      [] book = "themeswitch" -> {"switchToTheme", "switchToAlternative"}
      [] book = "themerollback" -> {"restoreThemeFromBackup", "rollbackToDefaultTheme"}
      [] OTHER -> {}
Enders ==
    {"finalDiskUsage", "verifyMemoryLimit", "cleanupErrorLogs", "restartWebServer",
     "restoreCoreFiles", "verifyCoreFiles", "writeWpConfig", "repairWordPressOptions",
     "deactivateProblematicPlugins", "selectiveReactivation", "switchToTheme",
     "switchToAlternative", "restoreThemeFromBackup", "rollbackToDefaultTheme"}

(* What is still to be done ends with a method that returns; the database   *)
(* is copied first, and then looked at.                                     *)
TodoFine(s) ==
    /\ s.todo \in Seq(MethodsOf(s.book)) /\ s.todo # <<>>
    /\ s.todo[Len(s.todo)] \in Enders
    /\ \A k \in DOMAIN s.todo : k > 1 =>
         /\ s.todo[k] \notin {"createDatabaseBackup", "backupWpConfig", "deactivatePluginsByPriority"}
         /\ s.todo[k] = "checkTableStatus" => s.todo[k - 1] = "createDatabaseBackup"

(* What a method relies on.                                                 *)
Stage(s, m) ==
    /\ m = "createDatabaseBackup" => Untouched(s)
    /\ m = "checkTableStatus" => Untouched(s) /\ Covered(s, "database")
    /\ m \in {"repairCorruptedTables", "optimizeTables", "repairWordPressOptions"} =>
         Covered(s, "database")
    /\ m = "backupWpConfig" =>
         /\ s.site["wp-config.php"] = s.before["wp-config.php"]
         /\ "exists" \in s.facts \/ Covered(s, "wp-config.php")
    /\ m = "writeWpConfig" => Covered(s, "wp-config.php")
    /\ m = "restoreCoreFiles" =>
         /\ s.facts \subseteq CoreFiles /\ s.facts # {}
         /\ \A f \in s.facts : s.site[f] = s.before[f]
    /\ m = "switchToTheme" => Untouched(s) /\ Covered(s, "theme")
    /\ m = "switchToAlternative" => Covered(s, "theme")
    /\ m = "restoreThemeFromBackup" => Untouched(s)
    /\ m = "rollbackToDefaultTheme" => s.steps = <<>>
    /\ m = "deactivateProblematicPlugins" =>
         s.facts \subseteq {"seo", "slider"} /\ Len(s.steps) + Cardinality(s.facts) <= 3
    /\ m = "deactivatePluginsByPriority" =>
         s.facts \subseteq Plugins \ Essential /\ Len(s.steps) + Cardinality(s.facts) <= 4

Running(s) == TodoFine(s) /\ Stage(s, Head(s.todo))

(* The full restore that cannot work is in the plan of plugin-deactivation. *)
HasBroken(steps) == \E i \in DOMAIN steps : steps[i].kind = "broken"
Returned(s) == s.book = "deactivation" => s.steps = <<>> \/ HasBroken(s.steps)

(* While a plan is carried out, what is not as it was has a step to come.   *)
ToCome(s, left) ==
    /\ \A t \in Files :
         \/ Excused(s, t) \/ Twice(s, t) \/ s.site[t] = s.before[t]
         \/ \E i \in DOMAIN left : left[i].kind = "restore" /\ left[i].target = t
    /\ s.book = "deactivation" => HasBroken(left)
    /\ \/ s.book = "deactivation" \/ "active_plugins" \in s.unknown
       \/ \A p \in s.site["active_plugins"] :
             \E i \in DOMAIN left : left[i].kind = "reactivate" /\ p \in left[i].content
Rolling(s) ==
    /\ s.todo \in Seq(PlanSteps) /\ s.todo # <<>>
    /\ \A i \in DOMAIN s.todo : \E j \in DOMAIN s.steps : s.steps[j] = s.todo[i]
    /\ CopiesTrue(s) /\ s.before["active_plugins"] = {} /\ ToCome(s, s.todo)
Over(s) ==
    s.verdict = "rolled back" =>
        \A t \in Restorable : s.site[t] = s.before[t] \/ Excused(s, t) \/ Twice(s, t)

FixSound(s) ==
    /\ RunShape(s)
    /\ s.phase \in {"choosing", "deciding", "applying", "running", "returned", "rolling", "over"}
    /\ \/ s.verdict \in {"none", "success", "failure"}
       \/ s.phase = "over" /\ s.verdict \in {"rolled back", "not rolled back"}
    /\ s.phase \in {"choosing", "deciding", "applying", "running", "returned"} => Plan(s)
    /\ s.phase = "choosing" => s.book = "none" /\ s.books = <<>>
    /\ s.phase = "applying" => Untouched(s) /\ s.steps = <<>> /\ s.unknown = {} /\ s.book \in Playbooks
    /\ s.phase = "running" => Running(s)
    /\ s.phase = "returned" => Returned(s) /\ s.book \in Playbooks
    /\ s.phase = "rolling" => Rolling(s)
    /\ s.phase = "over" => Over(s)

-----------------------------------------------------------------------------
(* What commands leave of a run.                                            *)

(* Nothing but the number of faults differs.                                *)
Like(s, r) == RunShape(r) /\ \A x \in Fields \ {"faults"} : r[x] = s[x]

(* Only the target t may differ, or be one that nobody knows of.            *)
Touched(s, r, t) ==
    /\ RunShape(r)
    /\ \A x \in Fields \ {"site", "faults", "unknown"} : r[x] = s[x]
    /\ \A u \in Targets \ {t} : r.site[u] = s.site[u]
    /\ r.unknown \in {s.unknown, s.unknown \cup {t}}

(* A command that worked has left the content, and one that failed nothing, *)
(* or nobody knows what.                                                    *)
Worked(s, c, t, content) ==
    /\ c.ok \in BOOLEAN /\ Touched(s, c.run, t)
    /\ c.ok => c.run.site[t] = content /\ c.run.unknown = s.unknown
    /\ ~c.ok => t \in c.run.unknown \/ c.run.site[t] = s.site[t]

LEMMA FaultLike ==
    ASSUME NEW s, RunShape(s), NEW f \in Fault(s)
    PROVE  Like(s, f)
<1>1. f = [s EXCEPT !.faults = @ + 1] /\ \E x \in 1..(MaxFaults - s.faults) : x = 1
  BY DEF Fault
<1>2. s.faults + 1 \in 0..MaxFaults
  BY <1>1, FaultsAssumption DEF RunShape, FaultsAssumption
<1>3. /\ DOMAIN f = Fields
      /\ f.faults = s.faults + 1
      /\ \A x \in Fields \ {"faults"} : f[x] = s[x]
  BY <1>1 DEF RunShape, Fields
<1> QED
  BY <1>2, <1>3 DEF Like, RunShape, Fields

LEMMA LikeItself ==
    ASSUME NEW s, RunShape(s)
    PROVE  Like(s, s)
BY DEF Like

LEMMA LikeLike ==
    ASSUME NEW s, NEW r, NEW q, Like(s, r), Like(r, q)
    PROVE  Like(s, q)
BY DEF Like

LEMMA LookLike ==
    ASSUME NEW s, RunShape(s), NEW c \in Look(s)
    PROVE  c.ok \in BOOLEAN /\ Like(s, c.run) /\ (c.ok => c.run = s)
<1>1. CASE c = [ok |-> TRUE, run |-> s]
  BY <1>1, LikeItself
<1>2. CASE \E f \in Fault(s) : c = [ok |-> FALSE, run |-> f]
  BY <1>2, FaultLike
<1> QED
  BY <1>1, <1>2 DEF Look, Ran, Failed

LEMMA ScriptLike ==
    ASSUME NEW s, RunShape(s), NEW c \in Script(s)
    PROVE  c.ok \in BOOLEAN /\ Like(s, c.run)
<1>1. CASE c \in Look(s)
  BY <1>1, LookLike
<1>2. CASE c = [ok |-> FALSE, run |-> s]
  BY <1>2, LikeItself
<1> QED
  BY <1>1, <1>2 DEF Script

LEMMA AskedLike ==
    ASSUME NEW s, RunShape(s), NEW A, NEW u, NEW c \in Asked(s, A, u)
    PROVE  Like(s, c.run) /\ (c.answer \in A \/ c.answer = u)
<1>1. CASE \E a \in A : c = [answer |-> a, run |-> s]
  BY <1>1, LikeItself
<1>2. CASE \E f \in Fault(s) : c = [answer |-> u, run |-> f]
  BY <1>2, FaultLike
<1> QED
  BY <1>1, <1>2 DEF Asked

LEMMA LikeTouched ==
    ASSUME NEW s, RunShape(s), NEW r, Like(s, r), NEW t
    PROVE  Touched(s, r, t) /\ r.site = s.site /\ r.unknown = s.unknown
BY DEF Like, Touched, RunShape, Fields

LEMMA PutShape ==
    ASSUME NEW s, RunShape(s), NEW t \in Targets, NEW content \in Contents
    PROVE  /\ Touched(s, Put(s, t, content), t)
           /\ Put(s, t, content).site[t] = content
           /\ Put(s, t, content).unknown = s.unknown
<1> DEFINE r == Put(s, t, content)
<1>1. /\ DOMAIN r = Fields
      /\ r.site = [s.site EXCEPT ![t] = content]
      /\ \A x \in Fields \ {"site"} : r[x] = s[x]
  BY DEF RunShape, Fields, Put
<1> HIDE DEF r
<1>2. /\ r.site \in [Targets -> Contents]
      /\ r.site[t] = content
      /\ \A u \in Targets \ {t} : r.site[u] = s.site[u]
  BY <1>1 DEF RunShape
<1>3. RunShape(r) /\ r.unknown = s.unknown
  BY <1>1, <1>2 DEF RunShape, Fields
<1>4. \A x \in Fields \ {"site", "faults", "unknown"} : r[x] = s[x]
  BY <1>1
<1>5. Touched(s, r, t)
  BY <1>2, <1>3, <1>4 DEF Touched
<1> QED
  BY <1>2, <1>3, <1>5 DEF r

LEMMA DarkShape ==
    ASSUME NEW s, RunShape(s), NEW t \in Targets
    PROVE  /\ Touched(s, InTheDark(s, t), t)
           /\ InTheDark(s, t).site = s.site
           /\ t \in InTheDark(s, t).unknown
<1> DEFINE r == InTheDark(s, t)
<1>1. /\ DOMAIN r = Fields
      /\ r.unknown = s.unknown \cup {t}
      /\ \A x \in Fields \ {"unknown"} : r[x] = s[x]
  BY DEF RunShape, Fields, InTheDark
<1> HIDE DEF r
<1>2. RunShape(r) /\ r.site = s.site
  BY <1>1 DEF RunShape, Fields
<1>3. \A x \in Fields \ {"site", "faults", "unknown"} : r[x] = s[x]
  BY <1>1
<1>4. Touched(s, r, t)
  BY <1>1, <1>2, <1>3 DEF Touched
<1> QED
  BY <1>1, <1>2, <1>4 DEF r

LEMMA TouchedTwice ==
    ASSUME NEW s, NEW r, NEW q, NEW t, Touched(s, r, t), Touched(r, q, t)
    PROVE  Touched(s, q, t)
<1>1. \A x \in Fields \ {"site", "faults", "unknown"} : q[x] = s[x]
  BY DEF Touched
<1>2. \A u \in Targets \ {t} : q.site[u] = s.site[u]
  BY DEF Touched
<1>3. q.unknown \in {s.unknown, s.unknown \cup {t}}
  BY DEF Touched
<1> QED
  BY <1>1, <1>2, <1>3 DEF Touched

LEMMA PutUnknownShape ==
    ASSUME NEW s, RunShape(s), NEW t \in Targets, NEW content \in Contents,
           NEW r \in PutUnknown(s, t, content)
    PROVE  Touched(s, r, t) /\ t \in r.unknown
<1>1. PICK f \in Fault(s) : r = InTheDark(Put(f, t, content), t)
  BY DEF PutUnknown
<1>2. RunShape(f) /\ Touched(s, f, t)
  BY FaultLike, LikeTouched DEF Like
<1>3. PICK q : q = Put(f, t, content)
  OBVIOUS
<1>4. Touched(f, q, t) /\ RunShape(q)
  BY <1>2, <1>3, PutShape DEF Touched
<1>5. Touched(q, r, t) /\ t \in r.unknown
  BY <1>1, <1>3, <1>4, DarkShape
<1> QED
  BY <1>2, <1>4, <1>5, TouchedTwice

LEMMA CommandWorks ==
    ASSUME NEW s, RunShape(s), NEW t \in Targets, NEW content \in Contents,
           NEW c \in Command(s, t, content)
    PROVE  Worked(s, c, t, content)
<1>1. CASE c = [ok |-> TRUE, run |-> Put(s, t, content)]
  <2>1. c.ok = TRUE /\ c.run = Put(s, t, content)
    BY <1>1
  <2>2. Touched(s, c.run, t) /\ c.run.site[t] = content /\ c.run.unknown = s.unknown
    BY <2>1, PutShape
  <2> QED
    BY <2>1, <2>2 DEF Worked
<1>2. CASE \E f \in Fault(s) : c = [ok |-> FALSE, run |-> f]
  <2>1. c.ok = FALSE /\ c.run \in Fault(s)
    BY <1>2
  <2>2. Touched(s, c.run, t) /\ c.run.site = s.site
    BY <2>1, FaultLike, LikeTouched
  <2> QED
    BY <2>1, <2>2 DEF Worked
<1>3. CASE \E f \in PutUnknown(s, t, content) : c = [ok |-> FALSE, run |-> f]
  <2>1. c.ok = FALSE /\ c.run \in PutUnknown(s, t, content)
    BY <1>3
  <2>2. Touched(s, c.run, t) /\ t \in c.run.unknown
    BY <2>1, PutUnknownShape
  <2> QED
    BY <2>1, <2>2 DEF Worked
<1> QED
  BY <1>1, <1>2, <1>3 DEF Command, Ran, Failed

LEMMA BackupLike ==
    ASSUME NEW s, RunShape(s), NEW t, NEW c \in CreateBackup(s, t)
    PROVE  c.ok \in BOOLEAN /\ Like(s, c.run) /\ (c.ok => Exists(s, t))
<1>1. CASE Exists(s, t)
  BY <1>1, LookLike DEF CreateBackup
<1>2. CASE ~Exists(s, t)
  <2>1. c = [ok |-> FALSE, run |-> s]
    BY <1>2 DEF CreateBackup
  <2> QED
    BY <2>1, LikeItself
<1> QED
  BY <1>1, <1>2

LEMMA WriteWorks ==
    ASSUME NEW s, RunShape(s), NEW t \in Targets, NEW content \in Contents,
           NEW c \in WriteFileWithBackup(s, t, content)
    PROVE  Worked(s, c, t, content)
<1>1. PICK b \in CreateBackup(s, t) :
        \/ ~b.ok /\ c = b
        \/ c \in Command(b.run, t, content)
        \/ \E f \in PutUnknown(b.run, t, Torn) : c = [ok |-> FALSE, run |-> f]
  BY DEF WriteFileWithBackup
<1>2. Like(s, b.run) /\ b.ok \in BOOLEAN
  BY BackupLike
<1>3. /\ RunShape(b.run) /\ Touched(s, b.run, t)
      /\ b.run.site = s.site /\ b.run.unknown = s.unknown
  BY <1>2, LikeTouched DEF Like
<1>4. CASE ~b.ok /\ c = b
  BY <1>2, <1>3, <1>4 DEF Worked
<1>5. CASE c \in Command(b.run, t, content)
  <2>1. Worked(b.run, c, t, content)
    BY <1>3, <1>5, CommandWorks
  <2>2. Touched(s, c.run, t)
    BY <1>3, <2>1, TouchedTwice DEF Worked
  <2> QED
    BY <1>3, <2>1, <2>2 DEF Worked
<1>6. CASE \E f \in PutUnknown(b.run, t, Torn) : c = [ok |-> FALSE, run |-> f]
  <2>1. c.ok = FALSE /\ c.run \in PutUnknown(b.run, t, Torn)
    BY <1>6
  <2>2. Torn \in Contents
    BY DEF Torn, Contents, Marks
  <2>3. Touched(b.run, c.run, t) /\ t \in c.run.unknown
    BY <1>3, <2>1, <2>2, PutUnknownShape
  <2>4. Touched(s, c.run, t)
    BY <1>3, <2>3, TouchedTwice
  <2> QED
    BY <2>1, <2>3, <2>4 DEF Worked
<1> QED
  BY <1>1, <1>4, <1>5, <1>6

-----------------------------------------------------------------------------
(* What keeps a plan.                                                       *)

(* What the next methods rely on stays.                                     *)
Goes(s, r) ==
    /\ RunShape(r) /\ Plan(r)
    /\ r.phase = s.phase /\ r.todo = s.todo /\ r.facts = s.facts /\ r.book = s.book
    /\ r.verdict = s.verdict /\ r.before = s.before
    /\ \A t \in Targets : Covered(s, t) => Covered(r, t)

LEMMA PlanParts ==
    ASSUME NEW s, NEW r, Plan(s),
           r.site = s.site, r.before = s.before, r.books = s.books, r.book = s.book,
           r.steps = s.steps, r.unknown = s.unknown
    PROVE  Plan(r) /\ \A t : Covered(s, t) => Covered(r, t)
<1>1. \A t : /\ Excused(r, t) <=> Excused(s, t)
             /\ Restores(r, t) <=> Restores(s, t)
             /\ Twice(r, t) <=> Twice(s, t)
             /\ Reactivates(r, t) <=> Reactivates(s, t)
  BY DEF Excused, Restores, Twice, Reactivates
<1>2. \A t : Covered(r, t) <=> Covered(s, t)
  BY <1>1 DEF Covered
<1>3. FilesPlanned(r)
  BY <1>2 DEF FilesPlanned, Plan
<1>4. PluginsPlanned(r)
  BY <1>1 DEF PluginsPlanned, Plan
<1>5. CopiesTrue(r)
  BY <1>1 DEF CopiesTrue, Plan
<1>6. OrdersFixed(r) /\ Alone(r)
  BY DEF OrdersFixed, Alone, Plan
<1> QED
  BY <1>2, <1>3, <1>4, <1>5, <1>6 DEF Plan

LEMMA LikeGoes ==
    ASSUME NEW s, RunShape(s), Plan(s), NEW r, Like(s, r)
    PROVE  Goes(s, r) /\ RunShape(r) /\ Plan(r) /\ r.site = s.site /\ r.steps = s.steps
             /\ r.unknown = s.unknown /\ r.changed = s.changed
<1>1. /\ r.site = s.site /\ r.before = s.before /\ r.books = s.books /\ r.book = s.book
      /\ r.steps = s.steps /\ r.unknown = s.unknown /\ r.phase = s.phase /\ r.todo = s.todo
      /\ r.facts = s.facts /\ r.verdict = s.verdict /\ r.changed = s.changed
      /\ RunShape(r)
  BY DEF Like, Fields
<1>2. Plan(r) /\ \A t : Covered(s, t) => Covered(r, t)
  BY <1>1, PlanParts
<1> QED
  BY <1>1, <1>2 DEF Goes

LEMMA GoesOn ==
    ASSUME NEW s, NEW r, NEW q, Goes(s, r), Goes(r, q)
    PROVE  Goes(s, q)
BY DEF Goes

LEMMA GoesItself ==
    ASSUME NEW s, RunShape(s), Plan(s)
    PROVE  Goes(s, s)
BY DEF Goes

LEMMA ChangedGoes ==
    ASSUME NEW s, RunShape(s), Plan(s), NEW b \in BOOLEAN
    PROVE  /\ Goes(s, Changed(s))
           /\ Changed(s).changed = TRUE /\ Changed(s).site = s.site /\ Changed(s).steps = s.steps
           /\ Changed(s).unknown = s.unknown
<1> DEFINE r == Changed(s)
<1>1. DOMAIN r = Fields /\ r.changed = TRUE /\ \A x \in Fields \ {"changed"} : r[x] = s[x]
  BY DEF Changed, RunShape, Fields
<1> HIDE DEF r
<1>2. /\ r.site = s.site /\ r.before = s.before /\ r.books = s.books /\ r.book = s.book
      /\ r.steps = s.steps /\ r.unknown = s.unknown /\ r.phase = s.phase /\ r.todo = s.todo
      /\ r.facts = s.facts /\ r.verdict = s.verdict
  BY <1>1 DEF Fields
<1>3. RunShape(r)
  BY <1>1 DEF RunShape, Fields
<1>4. Plan(r) /\ \A t : Covered(s, t) => Covered(r, t)
  BY <1>2, PlanParts
<1>5. Goes(s, r)
  BY <1>2, <1>3, <1>4 DEF Goes
<1> QED
  BY <1>1, <1>2, <1>5 DEF r

(* A change that needs no step more than there is.                          *)
LEMMA TouchedGoes ==
    ASSUME NEW s, RunShape(s), Plan(s), NEW t \in Targets, NEW r, Touched(s, r, t),
           \/ t \in r.unknown \/ r.site[t] = s.site[t]
           \/ t \notin Restorable
           \/ t \in Files /\ Covered(s, t)
           \/ s.book = "themerollback" /\ t = "theme" /\ s.steps = <<>>,
           t # "active_plugins" \/ s.book \in Tier3Books
    PROVE  Goes(s, r)
<1>1. /\ r.before = s.before /\ r.books = s.books /\ r.book = s.book
      /\ r.steps = s.steps /\ r.phase = s.phase /\ r.todo = s.todo
      /\ r.facts = s.facts /\ r.verdict = s.verdict
      /\ s.unknown \subseteq r.unknown
      /\ \A u \in Targets \ {t} : r.site[u] = s.site[u]
      /\ RunShape(r)
  BY DEF Touched, Fields
<1>2. \A u : /\ Excused(s, u) => Excused(r, u)
             /\ Restores(r, u) <=> Restores(s, u)
             /\ Twice(r, u) <=> Twice(s, u)
             /\ Reactivates(r, u) <=> Reactivates(s, u)
  BY <1>1 DEF Excused, Restores, Twice, Reactivates
<1>3. \A u : Covered(s, u) => Covered(r, u)
  BY <1>2 DEF Covered
<1>4. Files \subseteq Targets /\ Files \subseteq Restorable /\ "active_plugins" \in Targets
        /\ "active_plugins" \in Restorable /\ "active_plugins" \notin Files
  BY DEF Files, Targets, Restorable
<1>5. FilesPlanned(r)
  <2> SUFFICES ASSUME NEW u \in Files
               PROVE  \/ Covered(r, u) \/ r.site[u] = r.before[u]
                      \/ r.book = "themerollback" /\ u = "theme" /\ r.steps = <<>>
    BY DEF FilesPlanned
  <2>1. \/ Covered(s, u) \/ s.site[u] = s.before[u]
        \/ s.book = "themerollback" /\ u = "theme" /\ s.steps = <<>>
    BY DEF FilesPlanned, Plan
  <2>2. CASE r.site[u] = s.site[u]
    BY <1>1, <1>3, <2>1, <2>2
  <2>3. CASE u = t
    <3>1. u \in Restorable
      BY <1>4
    <3>2. CASE t \in r.unknown
      BY <2>3, <3>2 DEF Covered, Excused
    <3> QED
      BY <1>1, <1>3, <2>2, <2>3, <3>1, <3>2
  <2> QED
    BY <1>1, <1>4, <2>2, <2>3
<1>6. PluginsPlanned(r)
  <2>1. PluginsPlanned(s)
    BY DEF Plan
  <2>2. CASE "active_plugins" \in r.unknown
    BY <1>1, <2>1, <2>2 DEF PluginsPlanned
  <2>3. CASE r.site["active_plugins"] = s.site["active_plugins"]
    BY <1>1, <1>2, <2>1, <2>3 DEF PluginsPlanned
  <2> QED
    BY <1>1, <1>4, <2>2, <2>3
<1>7. CopiesTrue(r)
  BY <1>1, <1>2 DEF CopiesTrue, Plan
<1>8. OrdersFixed(r) /\ Alone(r)
  <2>1. s.book \notin Tier3Books => r.site["active_plugins"] = s.site["active_plugins"]
    BY <1>1, <1>4
  <2> QED
    BY <1>1, <2>1 DEF OrdersFixed, Alone, Plan
<1> QED
  BY <1>1, <1>3, <1>5, <1>6, <1>7, <1>8 DEF Goes, Plan

(* A step at the end of the plan.                                           *)
LEMMA OneMore ==
    ASSUME NEW s, RunShape(s), NEW st \in PlanSteps, NEW r,
           r.steps = Append(s.steps, st), r.before = s.before, r.unknown = s.unknown
    PROVE  /\ \A t : Covered(s, t) => Covered(r, t)
           /\ \A t : Twice(s, t) => Twice(r, t)
           /\ \A p : Reactivates(s, p) => Reactivates(r, p)
           /\ \E i \in DOMAIN r.steps : r.steps[i] = st /\ i \notin DOMAIN s.steps
           /\ \A i \in DOMAIN s.steps : i \in DOMAIN r.steps /\ r.steps[i] = s.steps[i]
           /\ \A i \in DOMAIN r.steps : r.steps[i] = st \/ (i \in DOMAIN s.steps /\ r.steps[i] = s.steps[i])
           /\ r.steps \in Seq(PlanSteps) /\ Len(r.steps) = Len(s.steps) + 1
<1>1. s.steps \in Seq(PlanSteps)
  BY DEF RunShape
<1>2. PICK n \in Nat : n = Len(s.steps) /\ DOMAIN s.steps = 1..n
  BY <1>1, LenProperties
<1>3. /\ r.steps \in Seq(PlanSteps)
      /\ Len(r.steps) = n + 1 /\ DOMAIN r.steps = 1..(n + 1)
      /\ \A i \in 1..n : r.steps[i] = s.steps[i]
      /\ r.steps[n + 1] = st
  BY <1>1, <1>2, AppendProperties
<1>4. \A i \in DOMAIN s.steps : i \in DOMAIN r.steps /\ r.steps[i] = s.steps[i]
  BY <1>2, <1>3
<1>5. \A i \in 1..(n + 1) : i = n + 1 \/ i \in 1..n
  BY <1>2
<1>6. \A i \in DOMAIN r.steps : r.steps[i] = st \/ (i \in DOMAIN s.steps /\ r.steps[i] = s.steps[i])
  BY <1>2, <1>3, <1>5
<1>7. n + 1 \in DOMAIN r.steps /\ n + 1 \notin DOMAIN s.steps
  BY <1>2, <1>3
<1>8. \A t : Restores(s, t) => Restores(r, t)
  BY <1>4 DEF Restores
<1>9. \A t : Covered(s, t) => Covered(r, t)
  BY <1>8 DEF Covered, Excused
<1>10. \A t : Twice(s, t) => Twice(r, t)
  BY <1>4 DEF Twice
<1>11. \A p : Reactivates(s, p) => Reactivates(r, p)
  BY <1>4 DEF Reactivates
<1> QED
  BY <1>2, <1>3, <1>4, <1>6, <1>7, <1>9, <1>10, <1>11

-----------------------------------------------------------------------------
(* Steps that the plan gets.                                                *)
LEMMA PlanMore ==
    ASSUME NEW s, RunShape(s), Plan(s), NEW st \in PlanSteps, NEW r,
           r.steps = Append(s.steps, st), r.before = s.before, r.unknown = s.unknown,
           r.book = s.book, r.books = s.books,
           \A u \in Files : \/ Covered(r, u)
                            \/ r.site[u] = s.site[u] /\ (s.site[u] = s.before[u] \/ s.book # "themerollback"),
           \A p \in r.site["active_plugins"] : p \in s.site["active_plugins"] \/ Reactivates(r, p),
           st.kind = "reactivate" => st.target = "active_plugins",
           st.kind = "restore" =>
             /\ st.target \in Files
             /\ st.content = s.before[st.target] \/ Excused(s, st.target) \/ Twice(r, st.target),
           s.book \in {"memory", "errorlog", "webserver"} =>
             st.order = EditOrder(s.book, st.target),
           s.book \notin Tier3Books => r.site["active_plugins"] = {}
    PROVE  Plan(r) /\ \A t : Covered(s, t) => Covered(r, t)
<1>1. /\ \A t : Covered(s, t) => Covered(r, t)
      /\ \A t : Twice(s, t) => Twice(r, t)
      /\ \A p : Reactivates(s, p) => Reactivates(r, p)
      /\ \A i \in DOMAIN r.steps :
            r.steps[i] = st \/ (i \in DOMAIN s.steps /\ r.steps[i] = s.steps[i])
  BY OneMore
<1>2. \A t : Excused(r, t) <=> Excused(s, t)
  BY DEF Excused
<1>3. FilesPlanned(r)
  <2> SUFFICES ASSUME NEW u \in Files
               PROVE  Covered(r, u) \/ r.site[u] = r.before[u]
                        \/ (r.book = "themerollback" /\ u = "theme" /\ r.steps = <<>>)
    BY DEF FilesPlanned
  <2>1. Covered(s, u) \/ s.site[u] = s.before[u] \/ s.book = "themerollback"
    BY DEF FilesPlanned, Plan
  <2> QED
    BY <1>1, <2>1
<1>4. PluginsPlanned(r)
  <2>1. /\ s.before["active_plugins"] = {}
        /\ \/ "active_plugins" \in s.unknown
           \/ \A p \in s.site["active_plugins"] :
                 Reactivates(s, p) \/ (s.book = "deactivation" /\ p \in Essential)
    BY DEF Plan, PluginsPlanned
  <2> QED
    BY <1>1, <2>1 DEF PluginsPlanned
<1>5. CopiesTrue(r)
  <2> SUFFICES ASSUME NEW i \in DOMAIN r.steps
               PROVE  /\ r.steps[i].kind = "reactivate" => r.steps[i].target = "active_plugins"
                      /\ r.steps[i].kind = "restore" =>
                           /\ r.steps[i].target \in Files
                           /\ \/ r.steps[i].content = r.before[r.steps[i].target]
                              \/ Excused(r, r.steps[i].target)
                              \/ Twice(r, r.steps[i].target)
    BY DEF CopiesTrue
  <2>1. CASE r.steps[i] = st
    BY <1>2, <2>1
  <2>2. CASE i \in DOMAIN s.steps /\ r.steps[i] = s.steps[i]
    <3>1. /\ s.steps[i].kind = "reactivate" => s.steps[i].target = "active_plugins"
          /\ s.steps[i].kind = "restore" =>
               /\ s.steps[i].target \in Files
               /\ \/ s.steps[i].content = s.before[s.steps[i].target]
                  \/ Excused(s, s.steps[i].target)
                  \/ Twice(s, s.steps[i].target)
      BY <2>2 DEF Plan, CopiesTrue
    <3> QED
      BY <1>1, <1>2, <2>2, <3>1
  <2> QED
    BY <1>1, <2>1, <2>2
<1>6. OrdersFixed(r)
  <2> SUFFICES ASSUME s.book \in {"memory", "errorlog", "webserver"}, NEW i \in DOMAIN r.steps
               PROVE  r.steps[i].order = EditOrder(s.book, r.steps[i].target)
    BY DEF OrdersFixed
  <2>1. \A k \in DOMAIN s.steps : s.steps[k].order = EditOrder(s.book, s.steps[k].target)
    BY DEF Plan, OrdersFixed
  <2> QED
    BY <1>1, <2>1
<1>7. Alone(r)
  BY DEF Plan, Alone
<1> QED
  BY <1>1, <1>3, <1>4, <1>5, <1>6, <1>7 DEF Plan

LEMMA FilesAre ==
    /\ Files \subseteq Targets /\ Files \subseteq Restorable /\ Restorable \subseteq Targets
    /\ "active_plugins" \in Restorable /\ "active_plugins" \notin Files
    /\ Restorable = Files \cup {"active_plugins"}
    /\ Absent \in Contents /\ Torn \in Contents /\ {} \in Contents
BY DEF Files, Targets, Restorable, Absent, Torn, Contents, Marks

LEMMA WithStep ==
    ASSUME NEW s, RunShape(s), NEW st \in PlanSteps, NEW r,
           r = [s EXCEPT !.steps = Append(@, st)]
    PROVE  /\ RunShape(r)
           /\ r.steps = Append(s.steps, st)
           /\ \A x \in Fields \ {"steps"} : r[x] = s[x]
<1>2. /\ DOMAIN r = Fields /\ r.steps = Append(s.steps, st)
      /\ \A x \in Fields \ {"steps"} : r[x] = s[x]
  BY DEF RunShape, Fields
<1>3. r.steps \in Seq(PlanSteps)
  <2>1. s.steps \in Seq(PlanSteps)
    BY DEF RunShape
  <2> QED
    BY <1>2, <2>1, AppendProperties
<1>4. RunShape(r)
  BY <1>2, <1>3 DEF RunShape, Fields
<1> QED
  BY <1>2, <1>4

(* A copy put down before the target is changed.                            *)
LEMMA AddStepGoes ==
    ASSUME NEW s, RunShape(s), Plan(s), NEW t \in Files, NEW order \in 0..9,
           s.site[t] = s.before[t], s.book \notin {"memory", "errorlog", "webserver", "themerollback"},
           NEW content, content = s.site[t]
    PROVE  /\ Goes(s, AddStep(s, t, content, order))
           /\ Covered(AddStep(s, t, content, order), t)
           /\ AddStep(s, t, content, order).site = s.site
           /\ AddStep(s, t, content, order).unknown = s.unknown
<1> DEFINE st == [kind |-> "restore", target |-> t, content |-> content, order |-> order]
<1>a. t \in Targets /\ content \in Contents
  BY FilesAre DEF RunShape
<1>b. PICK r : r = AddStep(s, t, content, order)
  OBVIOUS
<1>c. /\ r = [s EXCEPT !.steps = Append(@, st)] /\ st \in PlanSteps
      /\ st.kind = "restore" /\ st.target = t /\ st.content = content /\ st.order = order
  BY <1>a, <1>b DEF AddStep, AddCommand, PlanSteps
<1> HIDE DEF st
<1>1. /\ RunShape(r) /\ r.steps = Append(s.steps, st) /\ st \in PlanSteps
      /\ \A x \in Fields \ {"steps"} : r[x] = s[x]
  BY <1>a, <1>c, WithStep
<1>2. /\ r.site = s.site /\ r.before = s.before /\ r.books = s.books /\ r.book = s.book
      /\ r.unknown = s.unknown /\ r.phase = s.phase /\ r.todo = s.todo
      /\ r.facts = s.facts /\ r.verdict = s.verdict
  BY <1>1 DEF Fields
<1>3. /\ st.kind = "restore" /\ st.target = t /\ st.content = s.before[t]
  BY <1>c
<1>4. \E i \in DOMAIN r.steps : r.steps[i] = st
  BY <1>1, <1>2, OneMore
<1>5. Covered(r, t)
  BY <1>2, <1>3, <1>4 DEF Covered, Restores
<1>6. s.book \notin Tier3Books => r.site["active_plugins"] = {}
  BY <1>2 DEF Plan, Alone
<1>7. Plan(r) /\ \A u : Covered(s, u) => Covered(r, u)
  BY <1>1, <1>2, <1>3, <1>6, PlanMore
<1> QED
  BY <1>b, <1>1, <1>2, <1>5, <1>7 DEF Goes

(* A file that is edited and gets a step.                                   *)
LEMMA EditPlan ==
    ASSUME NEW s, RunShape(s), Plan(s), NEW t \in Files, NEW order \in 0..9,
           s.book \in {"memory", "errorlog", "webserver"}, order = EditOrder(s.book, t),
           NEW q, RunShape(q), \A x \in Fields \ {"site", "faults", "changed"} : q[x] = s[x],
           \A u \in Targets \ {t} : q.site[u] = s.site[u]
    PROVE  Goes(s, AddStep(q, t, s.site[t], order))
<1> DEFINE st == [kind |-> "restore", target |-> t, content |-> s.site[t], order |-> order]
<1>a. t \in Targets /\ s.site[t] \in Contents /\ RunShape(q) /\ t # "active_plugins"
  BY FilesAre DEF RunShape
<1>b. PICK r : r = AddStep(q, t, s.site[t], order)
  OBVIOUS
<1>c. /\ r = [q EXCEPT !.steps = Append(@, st)] /\ st \in PlanSteps
      /\ st.kind = "restore" /\ st.target = t /\ st.content = s.site[t] /\ st.order = order
  BY <1>a, <1>b DEF AddStep, AddCommand, PlanSteps
<1> HIDE DEF st
<1>1. /\ RunShape(r) /\ r.steps = Append(q.steps, st) /\ st \in PlanSteps
      /\ \A x \in Fields \ {"steps"} : r[x] = q[x]
  BY <1>a, <1>c, WithStep
<1>2. /\ r.before = s.before /\ r.books = s.books /\ r.book = s.book /\ q.steps = s.steps
      /\ r.unknown = s.unknown /\ r.phase = s.phase /\ r.todo = s.todo
      /\ r.facts = s.facts /\ r.verdict = s.verdict
      /\ \A u \in Targets \ {t} : r.site[u] = s.site[u]
  BY <1>1 DEF Fields
<1>3. /\ st.kind = "restore" /\ st.target = t /\ st.content = s.site[t] /\ st.order = order
  BY <1>c
<1>4. /\ \E i \in DOMAIN r.steps : r.steps[i] = st /\ i \notin DOMAIN s.steps
      /\ \A i \in DOMAIN s.steps : i \in DOMAIN r.steps /\ r.steps[i] = s.steps[i]
      /\ \A u : Covered(s, u) => Covered(r, u)
  BY <1>1, <1>2, OneMore
<1>5. Covered(s, t) \/ s.site[t] = s.before[t]
  BY DEF Plan, FilesPlanned
<1>6. Covered(r, t)
  BY <1>2, <1>3, <1>4, <1>5 DEF Covered, Restores
<1>7. s.site[t] = s.before[t] \/ Excused(s, t) \/ Twice(r, t)
  <2> SUFFICES ASSUME Restores(s, t) PROVE Twice(r, t)
    BY <1>5 DEF Covered
  <2>1. PICK i \in DOMAIN s.steps : s.steps[i].target = t
    BY DEF Restores
  <2>2. s.steps[i].order = order
    BY <2>1 DEF Plan, OrdersFixed
  <2>3. PICK j \in DOMAIN r.steps : r.steps[j] = st /\ j \notin DOMAIN s.steps
    BY <1>4
  <2>4. i \in DOMAIN r.steps /\ r.steps[i] = s.steps[i] /\ i # j
    BY <1>4, <2>3
  <2> QED
    BY <1>3, <2>1, <2>2, <2>3, <2>4 DEF Twice
<1>8. s.site["active_plugins"] = {} /\ r.site["active_plugins"] = s.site["active_plugins"]
  BY <1>2, <1>a, FilesAre DEF Plan, Alone, Tier3Books
<1>9. \A u \in Files : \/ Covered(r, u)
                       \/ r.site[u] = s.site[u] /\ (s.site[u] = s.before[u] \/ s.book # "themerollback")
  BY <1>2, <1>6, FilesAre
<1>10. r.steps = Append(s.steps, st)
  BY <1>1, <1>2
<1>11. Plan(r) /\ \A u : Covered(s, u) => Covered(r, u)
  BY <1>1, <1>2, <1>3, <1>7, <1>8, <1>9, <1>10, PlanMore
<1> QED
  BY <1>b, <1>1, <1>2, <1>11 DEF Goes

LEMMA ChangedShape ==
    ASSUME NEW s, RunShape(s)
    PROVE  RunShape(Changed(s)) /\ \A x \in Fields \ {"changed"} : Changed(s)[x] = s[x]
<1> DEFINE r == Changed(s)
<1>1. /\ DOMAIN r = Fields /\ r.changed = TRUE
      /\ \A x \in Fields \ {"changed"} : r[x] = s[x]
  BY DEF Changed, RunShape, Fields
<1> HIDE DEF r
<1>2. RunShape(r)
  BY <1>1 DEF RunShape, Fields
<1> QED
  BY <1>1, <1>2 DEF r

LEMMA EditFileGoes ==
    ASSUME NEW s, RunShape(s), Plan(s), NEW t \in Files, NEW order \in 0..9,
           s.book \in {"memory", "errorlog", "webserver"}, order = EditOrder(s.book, t),
           NEW mark \in Marks, NEW r \in EditFile(s, t, mark, order)
    PROVE  Goes(s, r)
<1>1. CASE ~Exists(s, t)
  BY <1>1, GoesItself DEF EditFile
<1>2. CASE Exists(s, t)
  <2>1. PICK read \in Look(s) :
          \/ ~read.ok /\ r = read.run
          \/ /\ read.ok
             /\ \E w \in WriteFileWithBackup(read.run, t, s.site[t] \cup {mark}) :
                   \/ w.ok /\ r = AddStep(Changed(w.run), t, s.site[t], order)
                   \/ ~w.ok /\ r = w.run
    BY <1>2 DEF EditFile
  <2>2. CASE ~read.ok /\ r = read.run
    BY <2>2, LookLike, LikeGoes
  <2>3. CASE read.ok
    <3>1. read.run = s
      BY <2>3, LookLike
    <3>2. PICK w \in WriteFileWithBackup(s, t, s.site[t] \cup {mark}) :
             \/ w.ok /\ r = AddStep(Changed(w.run), t, s.site[t], order)
             \/ ~w.ok /\ r = w.run
      BY <2>1, <2>3, <3>1
    <3>a. t \in Targets /\ t # "active_plugins" /\ s.site[t] \cup {mark} \in Contents
      BY FilesAre DEF RunShape, Contents
    <3>b. Worked(s, w, t, s.site[t] \cup {mark})
      BY <3>2, <3>a, WriteWorks
    <3>3. Touched(s, w.run, t) /\ (w.ok => w.run.unknown = s.unknown)
            /\ (~w.ok => t \in w.run.unknown \/ w.run.site[t] = s.site[t])
      BY <3>b DEF Worked
    <3>4. CASE ~w.ok /\ r = w.run
      BY <3>3, <3>4, <3>a, TouchedGoes
    <3>5. CASE w.ok /\ r = AddStep(Changed(w.run), t, s.site[t], order)
      <4>1. PICK q : q = Changed(w.run)
        OBVIOUS
      <4>2. /\ RunShape(w.run) /\ \A x \in Fields \ {"site", "faults"} : w.run[x] = s[x]
            /\ \A u \in Targets \ {t} : w.run.site[u] = s.site[u]
        BY <3>3, <3>5 DEF Touched
      <4>3. RunShape(q) /\ \A x \in Fields \ {"changed"} : q[x] = w.run[x]
        BY <4>1, <4>2, ChangedShape
      <4>4. /\ \A x \in Fields \ {"site", "faults", "changed"} : q[x] = s[x]
            /\ \A u \in Targets \ {t} : q.site[u] = s.site[u]
        BY <4>2, <4>3 DEF Fields
      <4> QED
        BY <3>5, <4>1, <4>3, <4>4, EditPlan
    <3> QED
      BY <3>2, <3>4, <3>5
  <2> QED
    BY <2>1, <2>2, <2>3
<1> QED
  BY <1>1, <1>2

-----------------------------------------------------------------------------
(* How a method or apply ends.                                              *)
LEMMA ReturnShape ==
    ASSUME NEW s, RunShape(s), NEW success, NEW applied \in BOOLEAN,
           s.book \in Playbooks, NEW r, r = Return(s, success, applied)
    PROVE  /\ RunShape(r) /\ r.verdict \in {"success", "failure"} /\ r.phase = "returned"
           /\ \A x \in Fields \ {"verdict", "applied", "facts", "changed", "todo", "phase"} : r[x] = s[x]
<1>1. PICK a : a = IF applied THEN s.applied \cup {s.book} ELSE s.applied
  OBVIOUS
<1>2. a \subseteq Playbooks
  BY <1>1 DEF RunShape
<1>3. /\ DOMAIN r = Fields /\ r.verdict \in {"success", "failure"} /\ r.phase = "returned"
      /\ r.applied = a /\ r.changed = applied
      /\ \A x \in Fields \ {"verdict", "applied", "facts", "changed", "todo", "phase"} : r[x] = s[x]
  BY <1>1 DEF Return, RunShape, Fields
<1>4. RunShape(r)
  BY <1>2, <1>3 DEF RunShape, Fields
<1> QED
  BY <1>3, <1>4

LEMMA ReturnSound ==
    ASSUME NEW s, RunShape(s), Plan(s), Returned(s), s.book \in Playbooks,
           NEW success, NEW applied \in BOOLEAN, NEW r, r = Return(s, success, applied)
    PROVE  FixSound(r)
<1>1. /\ RunShape(r) /\ r.verdict \in {"success", "failure"} /\ r.phase = "returned"
      /\ \A x \in Fields \ {"verdict", "applied", "facts", "changed", "todo", "phase"} : r[x] = s[x]
  BY ReturnShape
<1>2. /\ r.site = s.site /\ r.before = s.before /\ r.books = s.books /\ r.book = s.book
      /\ r.steps = s.steps /\ r.unknown = s.unknown
  BY <1>1 DEF Fields
<1>3. Plan(r)
  BY <1>2, PlanParts
<1>4. Returned(r)
  BY <1>2 DEF Returned
<1> QED
  BY <1>1, <1>2, <1>3, <1>4 DEF FixSound

(* No plan is handed over, and none is needed.                              *)
LEMMA EmptySound ==
    ASSUME NEW s, RunShape(s), Plan(s), s.book \in Playbooks,
           \A t \in Restorable : s.site[t] = s.before[t] \/ Excused(s, t),
           NEW success, NEW applied \in BOOLEAN,
           NEW r, r = [Return(s, success, applied) EXCEPT !.steps = <<>>]
    PROVE  FixSound(r)
<1>1. PICK q : q = Return(s, success, applied)
  OBVIOUS
<1>2. /\ RunShape(q) /\ q.verdict \in {"success", "failure"} /\ q.phase = "returned"
      /\ \A x \in Fields \ {"verdict", "applied", "facts", "changed", "todo", "phase"} : q[x] = s[x]
  BY <1>1, ReturnShape
<1>3. r.steps = <<>> /\ DOMAIN r = Fields /\ \A x \in Fields \ {"steps"} : r[x] = q[x]
  BY <1>1, <1>2 DEF RunShape, Fields
<1>4. /\ r.site = s.site /\ r.before = s.before /\ r.books = s.books /\ r.book = s.book
      /\ r.unknown = s.unknown /\ r.phase = "returned" /\ r.verdict \in {"success", "failure"}
  BY <1>2, <1>3 DEF Fields
<1>5. <<>> \in Seq(PlanSteps)
  OBVIOUS
<1>6. RunShape(r)
  BY <1>2, <1>3, <1>5 DEF RunShape, Fields
<1>7. \A t : Excused(r, t) <=> Excused(s, t)
  BY <1>4 DEF Excused
<1>8. FilesPlanned(r)
  BY <1>4, <1>7, FilesAre DEF FilesPlanned, Covered
<1>9. PluginsPlanned(r)
  <2>1. s.before["active_plugins"] = {}
    BY DEF Plan, PluginsPlanned
  <2>2. {} # Absent
    BY DEF Absent
  <2> QED
    BY <1>4, <2>1, <2>2, FilesAre DEF PluginsPlanned, Excused
<1>10. DOMAIN r.steps = {}
  BY <1>3
<1>11. CopiesTrue(r) /\ OrdersFixed(r)
  BY <1>10 DEF CopiesTrue, OrdersFixed
<1>12. Alone(r)
  BY <1>4 DEF Plan, Alone
<1>13. Returned(r)
  BY <1>3 DEF Returned
<1>14. r.book \in Playbooks
  BY <1>4
<1> QED
  BY <1>4, <1>6, <1>8, <1>9, <1>11, <1>12, <1>13, <1>14 DEF FixSound, Plan

LEMMA CaughtSound ==
    ASSUME NEW s, RunShape(s), Plan(s), s.book \in Playbooks,
           \A t \in Restorable : s.site[t] = s.before[t] \/ Excused(s, t),
           NEW r, r = Caught(s)
    PROVE  FixSound(r)
BY EmptySound DEF Caught

(* The methods that are still to run.                                       *)
LEMMA RunningSound ==
    ASSUME NEW r, RunShape(r), Plan(r), r.phase = "running",
           r.verdict \in {"none", "success", "failure"}, Running(r)
    PROVE  FixSound(r)
BY DEF FixSound

LEMMA TodoSound ==
    ASSUME NEW s, RunShape(s), Plan(s), s.phase = "running",
           s.verdict \in {"none", "success", "failure"},
           NEW r, DOMAIN r = Fields, \A x \in Fields \ {"todo", "facts"} : r[x] = s[x]
    PROVE  /\ \A t : Covered(s, t) => Covered(r, t)
           /\ RunShape(r) /\ Plan(r)
           /\ Running(r) => FixSound(r)
<1>2. /\ r.site = s.site /\ r.before = s.before /\ r.books = s.books /\ r.book = s.book
      /\ r.steps = s.steps /\ r.unknown = s.unknown /\ r.phase = "running" /\ r.verdict = s.verdict
  BY DEF Fields
<1>3. RunShape(r)
  BY DEF RunShape, Fields
<1>4. Plan(r) /\ \A t : Covered(s, t) => Covered(r, t)
  BY <1>2, PlanParts
<1> QED
  BY <1>2, <1>3, <1>4, RunningSound

LEMMA GotoShape ==
    ASSUME NEW s, RunShape(s), NEW methods, NEW r, r = Goto(s, methods)
    PROVE  /\ DOMAIN r = Fields /\ r.todo = methods /\ r.facts = s.facts
           /\ \A x \in Fields \ {"todo", "facts"} : r[x] = s[x]
BY DEF Goto, RunShape, Fields

(* What a method m finds.                                                   *)
AtWork(p, s, m) ==
    /\ FixSound(p) /\ p.phase = "running" /\ m = Head(p.todo)
    /\ s = [p EXCEPT !.todo = Tail(@)]

LEMMA BookOf ==
    ASSUME NEW b \in Playbooks \cup {"none"}, NEW m \in MethodsOf(b)
    PROVE  /\ b = "disk" <=> m \in {"cleanTemporaryFiles", "cleanOldLogFiles", "cleanWordPressCache",
                                    "cleanPackageCache", "finalDiskUsage"}
           /\ b = "memory" <=> m \in {"updatePhpIni", "updateHtaccess", "updateWpConfig",
                                      "restartPhpService", "verifyMemoryLimit"}
           /\ b = "errorlog" <=> m \in {"fixExecutionTimeLimit", "fixFilePermissions", "cleanupErrorLogs"}
           /\ b = "webserver" <=> m \in {"fixHtaccessIssues", "fixUploadLimits", "fixTimeoutSettings",
                                         "fixDirectoryPermissions", "restartWebServer"}
           /\ b = "core" <=> m \in {"restoreCoreFiles", "verifyCoreFiles"}
           /\ b = "wpconfig" <=> m \in {"backupWpConfig", "writeWpConfig"}
           /\ b = "tables" <=> m \in {"createDatabaseBackup", "checkTableStatus",
                                      "repairCorruptedTables", "optimizeTables",
                                      "repairWordPressOptions"}
           /\ b = "conflict" <=> m \in {"deactivateProblematicPlugins"}
           /\ b = "deactivation" <=> m \in {"deactivatePluginsByPriority", "selectiveReactivation"}
           /\ b = "themeswitch" <=> m \in {"switchToTheme", "switchToAlternative"}
           /\ b = "themerollback" <=> m \in {"restoreThemeFromBackup", "rollbackToDefaultTheme"}
           /\ b # "none"
BY DEF MethodsOf

LEMMA AtWorkHas ==
    ASSUME NEW p, NEW s, NEW m, AtWork(p, s, m)
    PROVE  /\ RunShape(s) /\ Plan(s) /\ s.phase = "running"
           /\ s.verdict \in {"none", "success", "failure"}
           /\ m \in MethodsOf(s.book) /\ Stage(s, m)
           /\ s.book # "none" /\ s.book \in Playbooks /\ s.book = p.book
           /\ s.todo = Tail(p.todo)
<1>1. /\ DOMAIN s = Fields /\ s.todo = Tail(p.todo)
      /\ \A x \in Fields \ {"todo"} : s[x] = p[x]
  BY DEF AtWork, FixSound, RunShape, Fields
<1>2. /\ s.site = p.site /\ s.before = p.before /\ s.books = p.books /\ s.book = p.book
      /\ s.steps = p.steps /\ s.unknown = p.unknown /\ s.phase = p.phase /\ s.verdict = p.verdict
      /\ s.facts = p.facts
  BY <1>1 DEF Fields
<1>3. RunShape(p) /\ Plan(p) /\ Running(p) /\ p.phase = "running"
  BY DEF AtWork, FixSound
<1>4. RunShape(s)
  BY <1>1, <1>3 DEF RunShape, Fields
<1>5. Plan(s) /\ \A t : Covered(p, t) => Covered(s, t)
  BY <1>2, <1>3, PlanParts
<1>6. m \in MethodsOf(p.book)
  <2>1. p.todo \in Seq(MethodsOf(p.book)) /\ p.todo # <<>>
    BY <1>3 DEF Running, TodoFine
  <2>2. Head(p.todo) \in MethodsOf(p.book)
    BY <2>1
  <2> QED
    BY <2>2 DEF AtWork
<1>7. Stage(s, m)
  <2>1. Stage(p, m)
    BY <1>3 DEF Running, AtWork
  <2>2. Untouched(p) => Untouched(s)
    BY <1>2 DEF Untouched
  <2> QED
    BY <1>2, <1>5, <2>1, <2>2 DEF Stage
<1>8. s.book # "none" /\ s.book \in Playbooks
  <2>1. s.book \in Playbooks \cup {"none"} /\ m \in MethodsOf(s.book)
    BY <1>2, <1>4, <1>6 DEF RunShape
  <2> QED
    BY <2>1, BookOf
<1>9. s.verdict \in {"none", "success", "failure"}
  BY <1>2 DEF AtWork, FixSound
<1> QED
  BY <1>1, <1>2, <1>3, <1>4, <1>5, <1>6, <1>7, <1>8, <1>9

(* After a method that does not return comes the next.                      *)
LEMMA NextMethod ==
    ASSUME NEW p, NEW s, NEW m, AtWork(p, s, m), m \notin Enders,
           NEW r, RunShape(r), Plan(r), r.phase = "running", r.todo = s.todo, r.book = s.book,
           r.verdict = s.verdict,
           s.book = "tables" => Covered(r, "database"),
           m = "createDatabaseBackup" => Untouched(r),
           s.book = "wpconfig" => Covered(r, "wp-config.php"),
           s.book \notin {"core", "conflict", "themeswitch", "themerollback"}
    PROVE  FixSound(r)
<1>1. TodoFine(p) /\ s.book = p.book /\ s.todo = Tail(p.todo) /\ m = Head(p.todo)
        /\ s.verdict \in {"none", "success", "failure"} /\ s.book \in Playbooks
  <2>1. s.book = p.book /\ s.todo = Tail(p.todo) /\ s.verdict \in {"none", "success", "failure"}
          /\ s.book \in Playbooks
    BY AtWorkHas
  <2>2. TodoFine(p) /\ m = Head(p.todo)
    BY DEF AtWork, FixSound, Running
  <2> QED
    BY <2>1, <2>2
<1>2. PICK M : M = MethodsOf(s.book)
  OBVIOUS
<1>3. /\ p.todo \in Seq(M) /\ p.todo # <<>> /\ p.todo[Len(p.todo)] \in Enders
      /\ \A k \in DOMAIN p.todo : k > 1 =>
           /\ p.todo[k] \notin {"createDatabaseBackup", "backupWpConfig", "deactivatePluginsByPriority"}
           /\ p.todo[k] = "checkTableStatus" => p.todo[k - 1] = "createDatabaseBackup"
  BY <1>1, <1>2 DEF TodoFine
<1>4. PICK n : n = Len(p.todo)
  OBVIOUS
<1>5. n \in Nat /\ n > 0 /\ DOMAIN p.todo = 1..n /\ m = p.todo[1] /\ \A k \in 1..n : p.todo[k] \in M
  BY <1>1, <1>3, <1>4, LenProperties, EmptySeq
<1>6. n > 1
  BY <1>3, <1>4, <1>5
<1>7. /\ s.todo \in Seq(M) /\ Len(s.todo) = n - 1
      /\ \A k \in 1..(n - 1) : s.todo[k] = p.todo[k + 1]
  BY <1>1, <1>3, <1>4, HeadTailProperties
<1>8. DOMAIN s.todo = 1..(n - 1) /\ s.todo # <<>> /\ Head(s.todo) = p.todo[2]
  BY <1>6, <1>7, <1>5
<1>9. s.todo[Len(s.todo)] \in Enders
  BY <1>3, <1>4, <1>6, <1>7, <1>5
<1>10. \A k \in DOMAIN s.todo : k > 1 =>
         /\ s.todo[k] \notin {"createDatabaseBackup", "backupWpConfig", "deactivatePluginsByPriority"}
         /\ s.todo[k] = "checkTableStatus" => s.todo[k - 1] = "createDatabaseBackup"
  <2> SUFFICES ASSUME NEW k \in DOMAIN s.todo, k > 1
               PROVE  /\ s.todo[k] \notin {"createDatabaseBackup", "backupWpConfig", "deactivatePluginsByPriority"}
                      /\ s.todo[k] = "checkTableStatus" => s.todo[k - 1] = "createDatabaseBackup"
    OBVIOUS
  <2>1. k \in 1..(n - 1) /\ (k + 1) \in DOMAIN p.todo /\ k + 1 > 1 /\ (k - 1) \in 1..(n - 1)
          /\ (k - 1) + 1 = k
    BY <1>5, <1>8
  <2>2. s.todo[k] = p.todo[k + 1] /\ s.todo[k - 1] = p.todo[k]
    BY <1>5, <1>7, <2>1
  <2>3. /\ p.todo[k + 1] \notin {"createDatabaseBackup", "backupWpConfig", "deactivatePluginsByPriority"}
        /\ p.todo[k + 1] = "checkTableStatus" => p.todo[(k + 1) - 1] = "createDatabaseBackup"
    BY <1>3, <2>1
  <2>4. (k + 1) - 1 = k
    BY <1>5, <2>1
  <2> QED
    BY <2>2, <2>3, <2>4
<1>11. TodoFine(r)
  BY <1>2, <1>7, <1>8, <1>9, <1>10 DEF TodoFine
<1>12. PICK next : next = Head(r.todo)
  OBVIOUS
<1>13. /\ next \in M /\ next \notin {"createDatabaseBackup", "backupWpConfig", "deactivatePluginsByPriority"}
       /\ next = "checkTableStatus" => m = "createDatabaseBackup"
  <2>1. 2 \in DOMAIN p.todo /\ 2 \in 1..n /\ 2 > 1 /\ 2 - 1 = 1
    BY <1>5, <1>6
  <2>2. /\ p.todo[2] \notin {"createDatabaseBackup", "backupWpConfig", "deactivatePluginsByPriority"}
        /\ p.todo[2] = "checkTableStatus" => p.todo[2 - 1] = "createDatabaseBackup"
    BY <1>3, <2>1
  <2> QED
    BY <1>5, <1>8, <1>12, <2>1, <2>2
<1>14. Stage(r, next)
  <2>1. s.book \in Playbooks \cup {"none"} /\ next \in MethodsOf(s.book)
    BY <1>1, <1>2, <1>13
  <2>2. /\ next \in {"checkTableStatus", "repairCorruptedTables", "optimizeTables",
                     "repairWordPressOptions"} => s.book = "tables"
        /\ next = "writeWpConfig" => s.book = "wpconfig"
    BY <2>1, BookOf
  <2>3. /\ next # "restoreCoreFiles" /\ next # "switchToTheme" /\ next # "switchToAlternative"
        /\ next # "restoreThemeFromBackup" /\ next # "rollbackToDefaultTheme"
        /\ next # "deactivateProblematicPlugins"
    BY <2>1, BookOf
  <2> QED
    BY <1>13, <2>2, <2>3 DEF Stage
<1> QED
  BY <1>1, <1>11, <1>12, <1>14, RunningSound DEF Running

-----------------------------------------------------------------------------
(* The playbooks of tier 1.                                                 *)
LEMMA ForGoodGoes ==
    ASSUME NEW s, RunShape(s), Plan(s), NEW t \in Targets,
           t \notin Restorable \/ (t \in Files /\ Covered(s, t)),
           NEW mark \in Marks, NEW r \in ChangeForGood(s, t, mark)
    PROVE  Goes(s, r)
<1>1. PICK c \in Command(s, t, s.site[t] \cup {mark}) :
        (c.ok /\ r = Changed(c.run)) \/ (~c.ok /\ r = c.run)
  BY DEF ChangeForGood
<1>2. s.site[t] \cup {mark} \in Contents /\ t # "active_plugins"
  BY FilesAre DEF RunShape, Contents
<1>3. Touched(s, c.run, t)
  BY <1>1, <1>2, CommandWorks DEF Worked
<1>4. Goes(s, c.run)
  BY <1>2, <1>3, TouchedGoes
<1>5. RunShape(c.run) /\ Plan(c.run)
  BY <1>4 DEF Goes
<1>6. Goes(c.run, Changed(c.run))
  BY <1>5, ChangedGoes
<1> QED
  BY <1>1, <1>4, <1>6, GoesOn

LEMMA GoesNext ==
    ASSUME NEW p, NEW s, NEW m, AtWork(p, s, m), m \notin Enders, NEW r, Goes(s, r),
           s.book \in {"disk", "memory", "errorlog", "webserver"}
    PROVE  FixSound(r)
<1>1. /\ RunShape(r) /\ Plan(r) /\ r.phase = "running" /\ r.todo = s.todo /\ r.book = s.book
      /\ r.verdict = s.verdict
  BY AtWorkHas DEF Goes
<1>2. m # "createDatabaseBackup"
  BY AtWorkHas, BookOf
<1> QED
  BY <1>1, <1>2, NextMethod

LEMMA GoesReturn ==
    ASSUME NEW s, RunShape(s), Plan(s), s.book \in Playbooks, s.book # "deactivation",
           NEW q, Goes(s, q) \/ Like(s, q), NEW success, NEW applied \in BOOLEAN, NEW r, r = Return(q, success, applied)
    PROVE  FixSound(r)
<1>1. Goes(s, q)
  BY LikeGoes
<1>2. RunShape(q) /\ Plan(q) /\ q.book = s.book
  BY <1>1 DEF Goes
<1>3. Returned(q)
  BY <1>2 DEF Returned
<1> QED
  BY <1>2, <1>3, ReturnSound

LEMMA MarksAre ==
    /\ {"cleaned", "memory_limit", "max_execution_time", "reset", "rewrite", "basic",
        "upload_limits", "timeouts"} \subseteq Marks
    /\ {"logs", "caches", "permissions"} \subseteq Targets \ Restorable
    /\ {"php.ini", ".htaccess", "wp-config.php"} \subseteq Files
    /\ EditOrder("memory", "php.ini") = 1 /\ EditOrder("memory", ".htaccess") = 2
    /\ EditOrder("memory", "wp-config.php") = 3
    /\ \A t : EditOrder("errorlog", t) = 1 /\ EditOrder("webserver", t) = 1
<1>1. {"cleaned", "memory_limit", "max_execution_time", "reset", "rewrite", "basic",
        "upload_limits", "timeouts"} \subseteq Marks
  BY DEF Marks
<1>2. {"logs", "caches", "permissions"} \subseteq Targets \ Restorable
  BY DEF Targets, Restorable, CoreFiles
<1>3. {"php.ini", ".htaccess", "wp-config.php"} \subseteq Files
  BY DEF Files, Restorable
<1>4. /\ EditOrder("memory", "php.ini") = 1 /\ EditOrder("memory", ".htaccess") = 2
      /\ EditOrder("memory", "wp-config.php") = 3
      /\ \A t : EditOrder("errorlog", t) = 1 /\ EditOrder("webserver", t) = 1
  BY DEF EditOrder
<1> QED
  BY <1>1, <1>2, <1>3, <1>4

LEMMA FixHtaccessGoes ==
    ASSUME NEW s, RunShape(s), Plan(s), s.book = "webserver", NEW r \in FixHtaccessIssues(s)
    PROVE  Goes(s, r)
<1>1. \/ r = s
      \/ r \in EditFile(s, ".htaccess", "rewrite", 1)
      \/ \E f \in Fault(s) : \E w \in WriteFileWithBackup(InTheDark(f, ".htaccess"), ".htaccess", {"basic"}) :
            r = Changed(w.run) \/ r = w.run
  BY DEF FixHtaccessIssues
<1>2. CASE r = s
  BY <1>2, GoesItself
<1>3. CASE r \in EditFile(s, ".htaccess", "rewrite", 1)
  BY <1>3, EditFileGoes, MarksAre
<1>4. CASE \E f \in Fault(s) : \E w \in WriteFileWithBackup(InTheDark(f, ".htaccess"), ".htaccess", {"basic"}) :
            r = Changed(w.run) \/ r = w.run
  <2>1. PICK f \in Fault(s) : \E w \in WriteFileWithBackup(InTheDark(f, ".htaccess"), ".htaccess", {"basic"}) :
            r = Changed(w.run) \/ r = w.run
    BY <1>4
  <2>2. PICK d : d = InTheDark(f, ".htaccess")
    OBVIOUS
  <2>3. PICK w \in WriteFileWithBackup(d, ".htaccess", {"basic"}) : r = Changed(w.run) \/ r = w.run
    BY <2>1, <2>2
  <2>4. RunShape(f) /\ Plan(f) /\ Goes(s, f)
    BY FaultLike, LikeGoes
  <2>5. ".htaccess" \in Targets /\ ".htaccess" # "active_plugins" /\ {"basic"} \in Contents
    BY MarksAre, FilesAre DEF Contents
  <2>6. Touched(f, d, ".htaccess") /\ ".htaccess" \in d.unknown
    BY <2>2, <2>4, <2>5, DarkShape
  <2>7. Goes(f, d)
    BY <2>4, <2>5, <2>6, TouchedGoes
  <2>8. RunShape(d) /\ Plan(d)
    BY <2>7 DEF Goes
  <2>9. Touched(d, w.run, ".htaccess")
    BY <2>3, <2>5, <2>8, WriteWorks DEF Worked
  <2>10. ".htaccess" \in w.run.unknown
    BY <2>6, <2>9 DEF Touched
  <2>11. Goes(d, w.run)
    BY <2>5, <2>8, <2>9, <2>10, TouchedGoes
  <2>12. Goes(w.run, Changed(w.run))
    BY <2>11, ChangedGoes DEF Goes
  <2> QED
    BY <2>3, <2>4, <2>7, <2>11, <2>12, GoesOn
<1> QED
  BY <1>1, <1>2, <1>3, <1>4

(* The methods of tier 1 that do not return.                                *)
LEMMA Tier1Goes ==
    ASSUME NEW p, NEW s, NEW m \in Tier1Methods \ Enders, AtWork(p, s, m), NEW r \in Tier1Method(m, s)
    PROVE  Goes(s, r)
<1>1. RunShape(s) /\ Plan(s) /\ s.book \in Playbooks \cup {"none"} /\ m \in MethodsOf(s.book)
  BY AtWorkHas
<1>2. \A t \in {"logs", "caches", "permissions"} : \A mark \in {"cleaned", "reset"} :
        \A q \in ChangeForGood(s, t, mark) : Goes(s, q)
  <2> SUFFICES ASSUME NEW t \in {"logs", "caches", "permissions"}, NEW mark \in {"cleaned", "reset"},
                      NEW q \in ChangeForGood(s, t, mark)
               PROVE  Goes(s, q)
    OBVIOUS
  <2>1. t \in Targets /\ t \notin Restorable /\ mark \in Marks
    BY MarksAre
  <2> QED
    BY <1>1, <2>1, ForGoodGoes
<1>3. Goes(s, s) /\ Goes(s, Changed(s))
  BY <1>1, GoesItself, ChangedGoes
<1>4. \A f \in Fault(s) : Goes(s, f)
  BY <1>1, FaultLike, LikeGoes
<1>5. CASE m = "cleanTemporaryFiles"
  BY <1>2, <1>3, <1>5 DEF Tier1Method, CleanTemporaryFiles
<1>6. CASE m = "cleanOldLogFiles"
  BY <1>2, <1>3, <1>6 DEF Tier1Method, CleanOldLogFiles
<1>7. CASE m = "cleanWordPressCache"
  BY <1>3, <1>4, <1>7 DEF Tier1Method, CleanWordPressCache
<1>8. CASE m = "cleanPackageCache"
  BY <1>2, <1>8 DEF Tier1Method, CleanPackageCache
<1>9. CASE m = "updatePhpIni"
  <2>1. s.book = "memory"
    BY <1>1, <1>9, BookOf
  <2>2. r \in EditFile(s, "php.ini", "memory_limit", 1)
    BY <1>9 DEF Tier1Method, UpdatePhpIni
  <2> QED
    BY <1>1, <2>1, <2>2, EditFileGoes, MarksAre
<1>10. CASE m = "updateHtaccess"
  <2>1. s.book = "memory"
    BY <1>1, <1>10, BookOf
  <2>2. r \in EditFile(s, ".htaccess", "memory_limit", 2)
    BY <1>10 DEF Tier1Method, UpdateHtaccess
  <2> QED
    BY <1>1, <2>1, <2>2, EditFileGoes, MarksAre
<1>11. CASE m = "updateWpConfig"
  <2>1. s.book = "memory"
    BY <1>1, <1>11, BookOf
  <2>2. r \in EditFile(s, "wp-config.php", "memory_limit", 3)
    BY <1>11 DEF Tier1Method, UpdateWpConfig
  <2> QED
    BY <1>1, <2>1, <2>2, EditFileGoes, MarksAre
<1>12. CASE m = "restartPhpService"
  BY <1>3, <1>4, <1>12 DEF Tier1Method, RestartPhpService
<1>13. CASE m = "fixExecutionTimeLimit"
  <2>1. s.book = "errorlog"
    BY <1>1, <1>13, BookOf
  <2>2. r \in EditFile(s, "wp-config.php", "max_execution_time", 1)
    BY <1>13 DEF Tier1Method, FixExecutionTimeLimit
  <2> QED
    BY <1>1, <2>1, <2>2, EditFileGoes, MarksAre
<1>14. CASE m = "fixFilePermissions"
  BY <1>2, <1>14 DEF Tier1Method, FixFilePermissions
<1>15. CASE m = "fixHtaccessIssues"
  <2>1. s.book = "webserver"
    BY <1>1, <1>15, BookOf
  <2> QED
    BY <1>1, <1>15, <2>1, FixHtaccessGoes DEF Tier1Method
<1>16. CASE m = "fixUploadLimits"
  <2>1. s.book = "webserver"
    BY <1>1, <1>16, BookOf
  <2>2. r = s \/ r \in EditFile(s, "wp-config.php", "upload_limits", 1)
    BY <1>16 DEF Tier1Method, FixUploadLimits
  <2> QED
    BY <1>1, <1>3, <2>1, <2>2, EditFileGoes, MarksAre
<1>17. CASE m = "fixTimeoutSettings"
  <2>1. s.book = "webserver"
    BY <1>1, <1>17, BookOf
  <2>2. r = s \/ r \in EditFile(s, "wp-config.php", "timeouts", 1)
    BY <1>17 DEF Tier1Method, FixTimeoutSettings
  <2> QED
    BY <1>1, <1>3, <2>1, <2>2, EditFileGoes, MarksAre
<1>18. CASE m = "fixDirectoryPermissions"
  BY <1>2, <1>3, <1>18 DEF Tier1Method, FixDirectoryPermissions
<1> QED
  BY <1>5, <1>6, <1>7, <1>8, <1>9, <1>10, <1>11, <1>12, <1>13, <1>14, <1>15, <1>16, <1>17, <1>18
     DEF Tier1Methods, Enders

LEMMA Tier1Sound ==
    ASSUME NEW p, NEW s, NEW m \in Tier1Methods, AtWork(p, s, m), NEW r \in Tier1Method(m, s)
    PROVE  FixSound(r)
<1>1. /\ RunShape(s) /\ Plan(s) /\ s.book \in Playbooks \cup {"none"} /\ m \in MethodsOf(s.book)
      /\ s.book \in Playbooks
  BY AtWorkHas
<1>2. s.book \in {"disk", "memory", "errorlog", "webserver"}
  BY <1>1, BookOf DEF Tier1Methods
<1>3. CASE m \notin Enders
  BY <1>2, <1>3, Tier1Goes, GoesNext
<1>4. s.changed \in BOOLEAN /\ Goes(s, s)
  BY <1>1, GoesItself DEF RunShape
<1>5. CASE m = "finalDiskUsage"
  <2>1. PICK d \in CheckDiskUsage(s), success \in BOOLEAN : r = Return(d.run, success, s.changed)
    BY <1>5 DEF Tier1Method, FinalDiskUsage
  <2>2. Like(s, d.run)
    BY <1>1, AskedLike DEF CheckDiskUsage
  <2> QED
    BY <1>1, <1>2, <1>4, <2>1, <2>2, GoesReturn
<1>6. CASE m = "verifyMemoryLimit"
  <2>1. PICK q \in {s} \cup Fault(s) : \E success : r = Return(q, success, s.changed)
    BY <1>6 DEF Tier1Method, VerifyMemoryLimit
  <2>2. Goes(s, q) \/ Like(s, q)
    BY <1>1, <1>4, FaultLike
  <2> QED
    BY <1>1, <1>2, <1>4, <2>1, <2>2, GoesReturn
<1>7. CASE m = "cleanupErrorLogs"
  <2>1. PICK t \in ChangeForGood(s, "logs", "cleaned") \cup {s} : r = Return(t, t.changed, t.changed)
    BY <1>7 DEF Tier1Method, CleanupErrorLogs
  <2>2. Goes(s, t)
    <3>1. "logs" \in Targets /\ "logs" \notin Restorable /\ "cleaned" \in Marks
      BY MarksAre
    <3> QED
      BY <1>1, <1>4, <2>1, <3>1, ForGoodGoes
  <2>3. t.changed \in BOOLEAN
    BY <2>2 DEF Goes, RunShape
  <2> QED
    BY <1>1, <1>2, <2>1, <2>2, <2>3, GoesReturn
<1>8. CASE m = "restartWebServer"
  <2>1. PICK q \in {s} \cup Fault(s) : r = Return(q, s.changed, s.changed)
    BY <1>8 DEF Tier1Method, RestartWebServer
  <2>2. Goes(s, q) \/ Like(s, q)
    BY <1>1, <1>4, FaultLike
  <2> QED
    BY <1>1, <1>2, <1>4, <2>1, <2>2, GoesReturn
<1> QED
  BY <1>3, <1>5, <1>6, <1>7, <1>8 DEF Tier1Methods, Enders

-----------------------------------------------------------------------------
(* A playbook that begins.                                                  *)
Starts(s) ==
    /\ RunShape(s) /\ Plan(s) /\ s.phase = "running" /\ s.book \in Playbooks
    /\ s.verdict \in {"none", "success", "failure"}
    /\ Untouched(s) /\ s.steps = <<>>

LEMMA LikeStarts ==
    ASSUME NEW s, Starts(s), NEW q, Like(s, q)
    PROVE  Starts(q) /\ q.book = s.book /\ q.site = s.site /\ q.before = s.before
             /\ q.unknown = s.unknown
<1>1. /\ q.site = s.site /\ q.before = s.before /\ q.book = s.book /\ q.steps = s.steps
      /\ q.phase = s.phase /\ q.verdict = s.verdict /\ q.unknown = s.unknown
  BY DEF Like, Fields
<1>2. RunShape(q) /\ Plan(q)
  BY LikeGoes DEF Starts
<1> QED
  BY <1>1, <1>2 DEF Starts, Untouched

LEMMA StartsReturn ==
    ASSUME NEW s, Starts(s), NEW success, NEW applied \in BOOLEAN, NEW r,
           r = Return(s, success, applied)
    PROVE  FixSound(r)
BY ReturnSound DEF Starts, Returned

LEMMA StartsCaught ==
    ASSUME NEW s, Starts(s), NEW r, r = Caught(s)
    PROVE  FixSound(r)
BY CaughtSound DEF Starts, Untouched

LEMMA LearnStarts ==
    ASSUME NEW s, Starts(s), NEW fact
    PROVE  Starts(Learn(s, fact)) /\ Learn(s, fact).book = s.book
<1> DEFINE r == Learn(s, fact)
<1>1. DOMAIN r = Fields /\ \A x \in Fields \ {"facts"} : r[x] = s[x]
  BY DEF Learn, Starts, RunShape, Fields
<1> HIDE DEF r
<1>2. /\ r.site = s.site /\ r.before = s.before /\ r.books = s.books /\ r.book = s.book
      /\ r.steps = s.steps /\ r.unknown = s.unknown /\ r.phase = s.phase /\ r.verdict = s.verdict
  BY <1>1 DEF Fields
<1>3. RunShape(r)
  BY <1>1 DEF RunShape, Starts, Fields
<1>4. Plan(r)
  BY <1>2, PlanParts DEF Starts
<1> QED
  BY <1>2, <1>3, <1>4 DEF Starts, Untouched, r

LEMMA EndsWith ==
    ASSUME NEW M, NEW left \in Seq(M), NEW right \in Seq(M), right # <<>>,
           right[Len(right)] \in Enders
    PROVE  /\ left \o right \in Seq(M) /\ left \o right # <<>>
           /\ (left \o right)[Len(left \o right)] \in Enders
<1>1. PICK a, b : a = Len(left) /\ b = Len(right)
  OBVIOUS
<1>2. a \in Nat /\ b \in Nat /\ b > 0
  BY <1>1, LenProperties, EmptySeq
<1>3. PICK all : all = left \o right
  OBVIOUS
<1>4. /\ all \in Seq(M) /\ Len(all) = a + b
      /\ \A i \in 1..(a + b) : all[i] = IF i <= a THEN left[i] ELSE right[i - a]
  BY <1>1, <1>3, ConcatProperties
<1>5. (a + b) \in 1..(a + b) /\ ~(a + b <= a) /\ (a + b) - a = b
  BY <1>2
<1>6. all[a + b] = right[b]
  BY <1>4, <1>5
<1>7. all # <<>>
  BY <1>2, <1>4
<1> QED
  BY <1>1, <1>3, <1>4, <1>6, <1>7

LEMMA GotoTier1 ==
    ASSUME NEW s, Starts(s), s.book \in {"disk", "memory", "errorlog", "webserver"},
           NEW M, M = MethodsOf(s.book), NEW methods \in Seq(M), methods # <<>>,
           methods[Len(methods)] \in Enders, NEW r, r = Goto(s, methods)
    PROVE  FixSound(r)
<1>1. /\ r.todo = methods /\ \A x \in Fields \ {"todo", "facts"} : r[x] = s[x]
      /\ (Running(r) => FixSound(r))
  <2>1. /\ RunShape(s) /\ Plan(s) /\ s.phase = "running" /\ s.verdict \in {"none", "success", "failure"}
    BY DEF Starts
  <2>2. DOMAIN r = Fields /\ r.todo = methods /\ \A x \in Fields \ {"todo", "facts"} : r[x] = s[x]
    BY <2>1, GotoShape
  <2> QED
    BY <2>1, <2>2, TodoSound
<1>2. r.book = s.book /\ s.book \in Playbooks \cup {"none"}
  BY <1>1 DEF Fields, Starts
<1>3. \A k \in DOMAIN methods : methods[k] \in M
  BY LenProperties
<1>4. \A m \in M : /\ m \notin {"createDatabaseBackup", "backupWpConfig", "deactivatePluginsByPriority"}
                   /\ m # "checkTableStatus"
  BY <1>2, BookOf
<1>5. TodoFine(r)
  BY <1>1, <1>2, <1>3, <1>4 DEF TodoFine
<1>6. Head(methods) \in M
  OBVIOUS
<1>7. PICK m : m = Head(methods) /\ m \in MethodsOf(s.book)
  BY <1>6
<1>8. Stage(r, m)
  <2>1. /\ m \notin {"createDatabaseBackup", "checkTableStatus", "repairCorruptedTables",
                     "optimizeTables", "repairWordPressOptions", "backupWpConfig", "writeWpConfig"}
        /\ m # "restoreCoreFiles" /\ m # "switchToTheme" /\ m # "switchToAlternative"
        /\ m # "restoreThemeFromBackup" /\ m # "rollbackToDefaultTheme"
        /\ m # "deactivateProblematicPlugins" /\ m # "deactivatePluginsByPriority"
    BY <1>2, <1>7, BookOf
  <2> QED
    BY <2>1 DEF Stage
<1> QED
  BY <1>1, <1>5, <1>7, <1>8 DEF Running

LEMMA DiskSound ==
    ASSUME NEW s, Starts(s), s.book = "disk", NEW r \in DiskApply(s)
    PROVE  FixSound(r)
<1> DEFINE ms == <<"cleanTemporaryFiles", "cleanOldLogFiles", "cleanWordPressCache",
                   "cleanPackageCache", "finalDiskUsage">>
<1>1. PICK d \in CheckDiskUsage(s) : r = Goto(Learn(d.run, d.answer), ms)
  BY DEF DiskApply
<1>2. PICK q : q = Learn(d.run, d.answer)
  OBVIOUS
<1>3. Like(s, d.run)
  BY AskedLike DEF CheckDiskUsage, Starts
<1>4. Starts(q) /\ q.book = "disk"
  BY <1>2, <1>3, LikeStarts, LearnStarts
<1>5. MethodsOf("disk") = {"cleanTemporaryFiles", "cleanOldLogFiles", "cleanWordPressCache",
                           "cleanPackageCache", "finalDiskUsage"}
  BY DEF MethodsOf
<1>6. ms \in Seq(MethodsOf("disk")) /\ ms # <<>>
  BY <1>5
<1>7. ms[Len(ms)] \in Enders
  BY DEF Enders
<1> HIDE DEF ms
<1> QED
  BY <1>1, <1>2, <1>4, <1>6, <1>7, GotoTier1

LEMMA MemorySound ==
    ASSUME NEW s, Starts(s), s.book = "memory", NEW r \in MemoryApply(s)
    PROVE  FixSound(r)
<1> DEFINE rest == <<"updateHtaccess", "updateWpConfig", "restartPhpService", "verifyMemoryLimit">>
<1>1. PICK c \in GetPhpConfiguration(s), ini \in {<<"updatePhpIni">>, <<>>} :
        \/ r = Return(c.run, FALSE, FALSE)
        \/ r = Goto(Learn(c.run, "limit is small"), ini \o rest)
        \/ r = Goto(c.run, ini \o rest)
  BY DEF MemoryApply
<1>2. Like(s, c.run)
  <2>1. \/ c \in Asked(s, [limit : Limits, ini : BOOLEAN], [limit |-> -1, ini |-> FALSE])
        \/ \E f \in Fault(s) : c.run = f
    BY DEF GetPhpConfiguration
  <2> QED
    BY <2>1, AskedLike, FaultLike DEF Starts
<1>3. PICK l : l = Learn(c.run, "limit is small")
  OBVIOUS
<1>4. Starts(c.run) /\ Starts(l) /\ c.run.book = "memory" /\ l.book = "memory"
  <2>1. Starts(c.run) /\ c.run.book = "memory"
    BY <1>2, LikeStarts
  <2> QED
    BY <1>3, <2>1, LearnStarts
<1>5. MethodsOf("memory") = {"updatePhpIni", "updateHtaccess", "updateWpConfig",
                             "restartPhpService", "verifyMemoryLimit"}
  BY DEF MethodsOf
<1>6. rest \in Seq(MethodsOf("memory")) /\ rest # <<>> /\ ini \in Seq(MethodsOf("memory"))
  <2>1. rest \in Seq(MethodsOf("memory")) /\ rest # <<>>
    BY <1>5
  <2>2. <<"updatePhpIni">> \in Seq(MethodsOf("memory")) /\ <<>> \in Seq(MethodsOf("memory"))
    BY <1>5
  <2> QED
    BY <2>1, <2>2
<1>7. rest[Len(rest)] \in Enders
  BY DEF Enders
<1> HIDE DEF rest
<1>8. PICK ms : ms = ini \o rest
  OBVIOUS
<1>9. ms \in Seq(MethodsOf("memory")) /\ ms # <<>> /\ ms[Len(ms)] \in Enders
  BY <1>6, <1>7, <1>8, EndsWith
<1>10. CASE r = Return(c.run, FALSE, FALSE)
  BY <1>4, <1>10, StartsReturn
<1>11. CASE r = Goto(l, ms)
  BY <1>4, <1>9, <1>11, GotoTier1
<1>12. CASE r = Goto(c.run, ms)
  BY <1>4, <1>9, <1>12, GotoTier1
<1> QED
  BY <1>1, <1>3, <1>8, <1>10, <1>11, <1>12

LEMMA ErrorLogSound ==
    ASSUME NEW s, Starts(s), s.book = "errorlog", NEW r \in ErrorLogApply(s)
    PROVE  FixSound(r)
<1> DEFINE F(asked) == {ErrorFixes[a] : a \in asked \cap DOMAIN ErrorFixes}
<1>1. \/ r = Return(s, FALSE, FALSE) \/ r = Return(s, TRUE, FALSE)
      \/ \E asked : r \in ApplyErrorFixes(s, asked)
  <2>1. PICK a \in AnalyzeErrorLogs(s) :
          r \in CASE ~a.logs -> {Return(s, FALSE, FALSE)}
                  [] a.logs /\ a.asked = {} -> {Return(s, TRUE, FALSE)}
                  [] OTHER -> ApplyErrorFixes(s, a.asked)
    BY DEF ErrorLogApply
  <2> QED
    BY <2>1
<1>2. CASE r = Return(s, FALSE, FALSE) \/ r = Return(s, TRUE, FALSE)
  BY <1>2, StartsReturn
<1>3. CASE \E asked : r \in ApplyErrorFixes(s, asked)
  <2>1. PICK asked : r \in ApplyErrorFixes(s, asked)
    BY <1>3
  <2>2. PICK fixes \in SetToSeqs(F(asked)) : r = Goto(s, fixes \o <<"cleanupErrorLogs">>)
    BY <2>1 DEF ApplyErrorFixes
  <2>3. MethodsOf("errorlog") = {"fixExecutionTimeLimit", "fixFilePermissions", "cleanupErrorLogs"}
    BY DEF MethodsOf
  <2>4. F(asked) \subseteq {"fixExecutionTimeLimit", "fixFilePermissions"}
    BY DEF ErrorFixes
  <2>5. IsFiniteSet({"fixExecutionTimeLimit", "fixFilePermissions"})
    <3>1. {"fixExecutionTimeLimit", "fixFilePermissions"} = {"fixExecutionTimeLimit"} \cup {"fixFilePermissions"}
      OBVIOUS
    <3>2. IsFiniteSet({"fixExecutionTimeLimit"}) /\ IsFiniteSet({"fixFilePermissions"})
      BY FS_Singleton
    <3>3. \A S, T : IsFiniteSet(S) /\ IsFiniteSet(T) => IsFiniteSet(S \cup T)
      BY FS_Union
    <3> QED
      BY <3>1, <3>2, <3>3
  <2>6. IsFiniteSet(F(asked)) /\ Cardinality(F(asked)) \in Nat
    BY <2>4, <2>5, FS_Subset, FS_CardinalityType
  <2>7. fixes \in [1..Cardinality(F(asked)) -> F(asked)]
    BY <2>2 DEF SetToSeqs
  <2> HIDE DEF F
  <2>8. fixes \in Seq(F(asked))
    BY <2>6, <2>7
  <2>9. fixes \in Seq(MethodsOf("errorlog"))
    BY <2>3, <2>4, <2>8
  <2>10. <<"cleanupErrorLogs">> \in Seq(MethodsOf("errorlog")) /\ <<"cleanupErrorLogs">> # <<>>
    BY <2>3
  <2>11. <<"cleanupErrorLogs">>[Len(<<"cleanupErrorLogs">>)] \in Enders
    BY DEF Enders
  <2>12. PICK ms : ms = fixes \o <<"cleanupErrorLogs">>
    OBVIOUS
  <2>13. ms \in Seq(MethodsOf("errorlog")) /\ ms # <<>> /\ ms[Len(ms)] \in Enders
    BY <2>9, <2>10, <2>11, <2>12, EndsWith
  <2> QED
    BY <2>2, <2>12, <2>13, GotoTier1
<1> QED
  BY <1>1, <1>2, <1>3

LEMMA WebServerSound ==
    ASSUME NEW s, Starts(s), s.book = "webserver", NEW r \in WebServerApply(s)
    PROVE  FixSound(r)
<1> DEFINE rest == <<"fixUploadLimits", "fixTimeoutSettings", "fixDirectoryPermissions",
                     "restartWebServer">>
<1>1. PICK d \in DetectWebServer(s) :
        \/ r = Return(d.run, FALSE, FALSE)
        \/ r = Goto(d.run, <<"fixHtaccessIssues">> \o rest)
        \/ r = Goto(d.run, rest)
  BY DEF WebServerApply
<1>2. Like(s, d.run)
  BY AskedLike DEF DetectWebServer, Starts
<1>3. Starts(d.run) /\ d.run.book = "webserver"
  BY <1>2, LikeStarts
<1>4. MethodsOf("webserver") = {"fixHtaccessIssues", "fixUploadLimits", "fixTimeoutSettings",
                                "fixDirectoryPermissions", "restartWebServer"}
  BY DEF MethodsOf
<1>5. rest \in Seq(MethodsOf("webserver")) /\ rest # <<>>
        /\ <<"fixHtaccessIssues">> \in Seq(MethodsOf("webserver"))
  BY <1>4
<1>6. rest[Len(rest)] \in Enders
  BY DEF Enders
<1> HIDE DEF rest
<1>7. PICK ms : ms = <<"fixHtaccessIssues">> \o rest
  OBVIOUS
<1>8. ms \in Seq(MethodsOf("webserver")) /\ ms # <<>> /\ ms[Len(ms)] \in Enders
  BY <1>5, <1>6, <1>7, EndsWith
<1>9. CASE r = Return(d.run, FALSE, FALSE)
  BY <1>3, <1>9, StartsReturn
<1>10. CASE r = Goto(d.run, ms)
  BY <1>3, <1>8, <1>10, GotoTier1
<1>11. CASE r = Goto(d.run, rest)
  BY <1>3, <1>5, <1>6, <1>11, GotoTier1
<1> QED
  BY <1>1, <1>7, <1>9, <1>10, <1>11

LEMMA Tier1ApplySound ==
    ASSUME NEW s, Starts(s), s.book \in {"disk", "memory", "errorlog", "webserver", "database"},
           NEW r \in Tier1Apply(s)
    PROVE  FixSound(r)
<1>1. CASE s.book = "disk"
  BY <1>1, DiskSound DEF Tier1Apply
<1>2. CASE s.book = "memory"
  BY <1>2, MemorySound DEF Tier1Apply
<1>3. CASE s.book = "errorlog"
  BY <1>3, ErrorLogSound DEF Tier1Apply
<1>4. CASE s.book = "webserver"
  BY <1>4, WebServerSound DEF Tier1Apply
<1>5. CASE s.book = "database"
  <2>1. PICK e \in ExtractDatabaseConfig(s) : r = Caught(e.run) \/ r = Return(e.run, FALSE, FALSE)
    BY <1>5 DEF Tier1Apply, DatabaseApply
  <2>2. PICK A : e \in Asked(s, A, "no file")
    BY <2>1 DEF ExtractDatabaseConfig
  <2>3. Like(s, e.run)
    BY <2>2, AskedLike DEF Starts
  <2>4. Starts(e.run)
    BY <2>3, LikeStarts
  <2> QED
    BY <2>1, <2>4, StartsReturn, StartsCaught
<1> QED
  BY <1>1, <1>2, <1>3, <1>4, <1>5

-----------------------------------------------------------------------------
(* The playbooks of tier 2.                                                 *)
LEMMA LoopHas ==
    ASSUME NEW s, FixSound(s), s.phase = "running", NEW m, m = Head(s.todo)
    PROVE  /\ RunShape(s) /\ Plan(s) /\ s.verdict \in {"none", "success", "failure"}
           /\ m \in MethodsOf(s.book) /\ Stage(s, m) /\ TodoFine(s)
           /\ s.book # "none" /\ s.book \in Playbooks /\ s.book \in Playbooks \cup {"none"}
<1>1. RunShape(s) /\ Plan(s) /\ Running(s) /\ s.verdict \in {"none", "success", "failure"}
  BY DEF FixSound
<1>2. m \in MethodsOf(s.book)
  <2>1. s.todo \in Seq(MethodsOf(s.book)) /\ s.todo # <<>>
    BY <1>1 DEF Running, TodoFine
  <2> QED
    BY <2>1
<1>3. Stage(s, m) /\ TodoFine(s)
  BY <1>1 DEF Running
<1>4. s.book \in Playbooks \cup {"none"}
  BY <1>1 DEF RunShape
<1>5. s.book # "none"
  BY <1>2, <1>4, BookOf
<1> QED
  BY <1>1, <1>2, <1>3, <1>4, <1>5

LEMMA OneTodo ==
    ASSUME NEW r, NEW m, r.todo = <<m>>, m \in MethodsOf(r.book), m \in Enders
    PROVE  TodoFine(r) /\ Head(r.todo) = m
<1>1. <<m>> \in Seq(MethodsOf(r.book)) /\ <<m>> # <<>> /\ Len(<<m>>) = 1 /\ <<m>>[1] = m
        /\ DOMAIN <<m>> = {1} /\ Head(<<m>>) = m
  OBVIOUS
<1>2. TodoFine(r)
  BY <1>1 DEF TodoFine
<1> QED
  BY <1>1, <1>2

LEMMA DarkGoes ==
    ASSUME NEW s, RunShape(s), Plan(s), NEW t \in Files
    PROVE  Goes(s, InTheDark(s, t)) /\ Covered(InTheDark(s, t), t)
             /\ InTheDark(s, t).site = s.site
<1>1. t \in Targets /\ t # "active_plugins"
  BY FilesAre
<1>2. /\ Touched(s, InTheDark(s, t), t) /\ InTheDark(s, t).site = s.site
      /\ t \in InTheDark(s, t).unknown
  BY <1>1, DarkShape
<1> QED
  BY <1>1, <1>2, TouchedGoes DEF Covered, Excused

LEMMA CoreFilesAre ==
    /\ CoreFiles \subseteq Files /\ IsFiniteSet(CoreFiles)
    /\ \A S : S \subseteq CoreFiles => IsFiniteSet(S) /\ Cardinality(S) \in 0..9
    /\ "wp-config.php" \in Files /\ "database" \in Files /\ "theme" \in Files
    /\ "wp-config.php" \in Restorable /\ "database" \in Restorable /\ "theme" \in Restorable
<1>1. CoreFiles \subseteq Files
  BY DEF CoreFiles, Files, Restorable
<1>2. IsFiniteSet(CoreFiles) /\ Cardinality(CoreFiles) <= 2
  <2>1. CoreFiles = {"index.php"} \cup {"wp-load.php"}
    BY DEF CoreFiles
  <2>2. IsFiniteSet({"index.php"}) /\ IsFiniteSet({"wp-load.php"})
    BY FS_Singleton
  <2>3. Cardinality({"index.php"}) = 1 /\ Cardinality({"wp-load.php"}) = 1
    BY FS_Singleton
  <2>4. \A S, T : IsFiniteSet(S) /\ IsFiniteSet(T) =>
          IsFiniteSet(S \cup T) /\ Cardinality(S \cup T) = Cardinality(S) + Cardinality(T) - Cardinality(S \cap T)
    BY FS_Union
  <2>5. Cardinality({"index.php"} \cap {"wp-load.php"}) \in Nat
    BY <2>2, FS_Intersection, FS_CardinalityType
  <2> QED
    BY <2>1, <2>2, <2>3, <2>4, <2>5
<1>3. \A S : S \subseteq CoreFiles => IsFiniteSet(S) /\ Cardinality(S) \in 0..9
  <2> SUFFICES ASSUME NEW S, S \subseteq CoreFiles
               PROVE  IsFiniteSet(S) /\ Cardinality(S) \in 0..9
    OBVIOUS
  <2>1. IsFiniteSet(S) /\ Cardinality(S) <= Cardinality(CoreFiles)
    BY <1>2, FS_Subset
  <2>2. Cardinality(S) \in Nat /\ Cardinality(CoreFiles) \in Nat
    BY <1>2, <2>1, FS_CardinalityType
  <2> QED
    BY <1>2, <2>1, <2>2
<1>4. /\ "wp-config.php" \in Files /\ "database" \in Files /\ "theme" \in Files
      /\ "wp-config.php" \in Restorable /\ "database" \in Restorable /\ "theme" \in Restorable
  BY DEF Files, Restorable
<1> QED
  BY <1>1, <1>2, <1>3, <1>4

LEMMA StartsGoto ==
    ASSUME NEW s, Starts(s), NEW r, DOMAIN r = Fields,
           \A x \in Fields \ {"todo", "facts"} : r[x] = s[x],
           TodoFine(r), Stage(r, Head(r.todo))
    PROVE  FixSound(r)
BY TodoSound DEF Starts, Running

LEMMA CoreApplySound ==
    ASSUME NEW s, Starts(s), s.book = "core", NEW r \in CoreApply(s)
    PROVE  FixSound(r)
<1>1. \/ \E v \in DetectWordPressVersion(s) : r = Return(v.run, FALSE, FALSE)
      \/ \E v \in DetectWordPressVersion(s) : \E c \in CheckCoreFileIntegrity(v.run) :
           \/ r = Return(c.run, TRUE, FALSE)
           \/ /\ c.answer # {}
              /\ \E d \in DownloadWordPressCore(c.run) :
                   \/ r = Return(d.run, FALSE, FALSE)
                   \/ r = Goto([d.run EXCEPT !.facts = c.answer], <<"restoreCoreFiles">>)
  <2> DEFINE restore(damaged, d) ==
               IF d.ok THEN Goto([d.run EXCEPT !.facts = damaged], <<"restoreCoreFiles">>)
               ELSE Return(d.run, FALSE, FALSE)
             checked(c) == IF c.answer = {} THEN {Return(c.run, TRUE, FALSE)}
                           ELSE {restore(c.answer, d) : d \in DownloadWordPressCore(c.run)}
  <2>1. r \in UNION {IF v.answer THEN UNION {checked(c) : c \in CheckCoreFileIntegrity(v.run)}
                     ELSE {Return(v.run, FALSE, FALSE)} : v \in DetectWordPressVersion(s)}
    BY DEF CoreApply
  <2>2. \A d : \A D : restore(D, d) \in {Return(d.run, FALSE, FALSE),
                                        Goto([d.run EXCEPT !.facts = D], <<"restoreCoreFiles">>)}
    OBVIOUS
  <2> HIDE DEF restore
  <2>3. \A c : \A q \in checked(c) :
          \/ q = Return(c.run, TRUE, FALSE)
          \/ c.answer # {} /\ \E d \in DownloadWordPressCore(c.run) : q = restore(c.answer, d)
    OBVIOUS
  <2> HIDE DEF checked
  <2>a. PICK v \in DetectWordPressVersion(s) :
          r \in IF v.answer THEN UNION {checked(c) : c \in CheckCoreFileIntegrity(v.run)}
               ELSE {Return(v.run, FALSE, FALSE)}
    BY <2>1
  <2>4. \/ r = Return(v.run, FALSE, FALSE)
        \/ \E c \in CheckCoreFileIntegrity(v.run) : r \in checked(c)
    BY <2>a
  <2>5. ASSUME NEW c \in CheckCoreFileIntegrity(v.run), r \in checked(c)
        PROVE  \/ r = Return(c.run, TRUE, FALSE)
               \/ /\ c.answer # {}
                  /\ \E d \in DownloadWordPressCore(c.run) :
                       \/ r = Return(d.run, FALSE, FALSE)
                       \/ r = Goto([d.run EXCEPT !.facts = c.answer], <<"restoreCoreFiles">>)
    <3>1. CASE r = Return(c.run, TRUE, FALSE)
      BY <3>1
    <3>2. CASE c.answer # {} /\ \E d \in DownloadWordPressCore(c.run) : r = restore(c.answer, d)
      <4>1. PICK d \in DownloadWordPressCore(c.run) : r = restore(c.answer, d)
        BY <3>2
      <4>2. r = Return(d.run, FALSE, FALSE) \/ r = Goto([d.run EXCEPT !.facts = c.answer], <<"restoreCoreFiles">>)
        BY <2>2, <4>1
      <4> QED
        BY <3>2, <4>2
    <3> QED
      BY <2>3, <2>5, <3>1, <3>2
  <2> QED
    BY <2>4, <2>5
<1>2. \A v \in DetectWordPressVersion(s) : Starts(v.run) /\ v.run.book = "core"
  <2> SUFFICES ASSUME NEW v \in DetectWordPressVersion(s)
               PROVE  Starts(v.run) /\ v.run.book = "core"
    OBVIOUS
  <2>1. Like(s, v.run)
    BY AskedLike DEF DetectWordPressVersion, Starts
  <2> QED
    BY <2>1, LikeStarts
<1>3. CASE \E v \in DetectWordPressVersion(s) : r = Return(v.run, FALSE, FALSE)
  BY <1>2, <1>3, StartsReturn
<1>4. ASSUME NEW v \in DetectWordPressVersion(s), NEW c \in CheckCoreFileIntegrity(v.run),
             \/ r = Return(c.run, TRUE, FALSE)
             \/ /\ c.answer # {}
                /\ \E d \in DownloadWordPressCore(c.run) :
                     \/ r = Return(d.run, FALSE, FALSE)
                     \/ r = Goto([d.run EXCEPT !.facts = c.answer], <<"restoreCoreFiles">>)
      PROVE  FixSound(r)
  <2>1. PICK u : u = v.run
    OBVIOUS
  <2>2. Starts(u) /\ u.book = "core"
    BY <1>2, <1>4, <2>1
  <2>3. Like(u, c.run) /\ c.answer \subseteq CoreFiles
    <3>0. PICK D : D = {f \in CoreFiles : u.site[f] \in {Absent, Torn, {"corrupt"}}}
      OBVIOUS
    <3>1. PICK f \in CoreFiles : c \in Asked(u, {D}, D \cup {f})
      BY <1>4, <2>1, <3>0 DEF CheckCoreFileIntegrity
    <3>2. Like(u, c.run) /\ (c.answer \in {D} \/ c.answer = D \cup {f}) /\ D \subseteq CoreFiles
      BY <2>2, <3>0, <3>1, AskedLike DEF Starts
    <3> QED
      BY <3>1, <3>2
  <2>4. Starts(c.run) /\ c.run.book = "core"
    BY <2>2, <2>3, LikeStarts
  <2>5. CASE r = Return(c.run, TRUE, FALSE)
    BY <2>4, <2>5, StartsReturn
  <2>6. ASSUME NEW d \in DownloadWordPressCore(c.run), c.answer # {},
               \/ r = Return(d.run, FALSE, FALSE)
               \/ r = Goto([d.run EXCEPT !.facts = c.answer], <<"restoreCoreFiles">>)
        PROVE  FixSound(r)
    <3>1. Like(c.run, d.run)
      BY <2>4, <2>6, ScriptLike DEF DownloadWordPressCore, Starts
    <3>2. PICK e : e = d.run
      OBVIOUS
    <3>3. Starts(e) /\ e.book = "core"
      BY <2>4, <3>1, <3>2, LikeStarts
    <3>4. CASE r = Return(e, FALSE, FALSE)
      BY <3>3, <3>4, StartsReturn
    <3>5. CASE r = Goto([e EXCEPT !.facts = c.answer], <<"restoreCoreFiles">>)
      <4>1. /\ DOMAIN r = Fields /\ r.todo = <<"restoreCoreFiles">> /\ r.facts = c.answer
            /\ \A x \in Fields \ {"todo", "facts"} : r[x] = e[x]
        BY <3>3, <3>5 DEF Goto, Starts, RunShape, Fields
      <4>2. r.book = "core" /\ r.site = e.site /\ r.before = e.before
        BY <3>3, <4>1 DEF Fields
      <4>3. "restoreCoreFiles" \in MethodsOf("core") /\ "restoreCoreFiles" \in Enders
        BY DEF MethodsOf, Enders
      <4>4. TodoFine(r) /\ Head(r.todo) = "restoreCoreFiles"
        BY <4>1, <4>2, <4>3, OneTodo
      <4>5. \A f \in CoreFiles : r.site[f] = r.before[f]
        BY <3>3, <4>2, CoreFilesAre, FilesAre DEF Starts, Untouched
      <4>6. Stage(r, "restoreCoreFiles")
        BY <2>3, <2>6, <4>1, <4>5 DEF Stage
      <4> QED
        BY <3>3, <4>1, <4>4, <4>6, StartsGoto
    <3> QED
      BY <2>6, <3>2, <3>4, <3>5
  <2> QED
    BY <1>4, <2>5, <2>6
<1> QED
  BY <1>1, <1>3, <1>4

(* The copy of a core file, or none that is needed or known of.             *)
LEMMA CopiedFirstGoes ==
    ASSUME NEW s, RunShape(s), Plan(s), s.book = "core", NEW f \in CoreFiles,
           s.site[f] = s.before[f], NEW t \in CopiedFirst(s, f)
    PROVE  Goes(s, t) /\ Covered(t, f) /\ t.site = s.site
<1> DEFINE order == Cardinality({g \in CoreFiles : s.site[g] = {"official"}})
<1>1. PICK b \in CreateBackup(s, f) :
        t = IF b.ok THEN AddStep(b.run, f, s.site[f], order)
            ELSE IF Exists(s, f) THEN InTheDark(b.run, f) ELSE b.run
  BY DEF CopiedFirst
<1>2. order \in 0..9
  BY CoreFilesAre
<1> HIDE DEF order
<1>3. PICK q : q = b.run
  OBVIOUS
<1>4. Like(s, q)
  BY <1>3, BackupLike
<1>5. Goes(s, q) /\ RunShape(q) /\ Plan(q) /\ q.site = s.site /\ q.unknown = s.unknown
  BY <1>4, LikeGoes
<1>6. q.before = s.before /\ q.book = s.book
  BY <1>5 DEF Goes
<1>7. f \in Files
  BY CoreFilesAre
<1>8. CASE b.ok
  <2>1. t = AddStep(q, f, s.site[f], order)
    BY <1>1, <1>3, <1>8
  <2>2. PICK content : content = s.site[f]
    OBVIOUS
  <2>3. q.site[f] = q.before[f] /\ content = q.site[f] /\ t = AddStep(q, f, content, order)
          /\ q.book \notin {"memory", "errorlog", "webserver", "themerollback"}
    BY <1>5, <1>6, <2>1, <2>2
  <2>4. Goes(q, t) /\ Covered(t, f) /\ t.site = q.site
    BY <1>2, <1>5, <1>7, <2>3, AddStepGoes
  <2> QED
    BY <1>5, <2>4, GoesOn
<1>9. CASE ~b.ok /\ Exists(s, f)
  <2>1. t = InTheDark(q, f)
    BY <1>1, <1>3, <1>9
  <2>2. Goes(q, t) /\ Covered(t, f) /\ t.site = q.site
    BY <1>5, <1>7, <2>1, DarkGoes
  <2> QED
    BY <1>5, <2>2, GoesOn
<1>10. CASE ~b.ok /\ ~Exists(s, f)
  <2>1. t = q
    BY <1>1, <1>3, <1>10
  <2>2. Covered(q, f)
    BY <1>6, <1>10 DEF Exists, Covered, Excused
  <2> QED
    BY <1>5, <2>1, <2>2
<1> QED
  BY <1>8, <1>9, <1>10

LEMMA RestoreCoreSound ==
    ASSUME NEW s, FixSound(s), s.phase = "running", Head(s.todo) = "restoreCoreFiles",
           NEW r \in RestoreCoreFiles(s)
    PROVE  FixSound(r)
<1> DEFINE f == CHOOSE g \in s.facts : TRUE
           todo == IF s.facts = {f} THEN <<"verifyCoreFiles">> ELSE <<"restoreCoreFiles">>
           rest(t) == [t EXCEPT !.facts = @ \ {f}, !.todo = todo]
<1>2. PICK t \in CopiedFirst(s, f) : \E c \in Command(t, f, {"official"}) :
        r = Changed(rest(c.run)) \/ r = rest(c.run)
  <2>1. r \in UNION {{IF c.ok THEN Changed(rest(c.run)) ELSE rest(c.run) :
                         c \in Command(t, f, {"official"})} : t \in CopiedFirst(s, f)}
    BY DEF RestoreCoreFiles
  <2> HIDE DEF rest, f
  <2> QED
    BY <2>1
<1>1. s.facts # {} => f \in s.facts
  OBVIOUS
<1> HIDE DEF f
<1>3. PICK c \in Command(t, f, {"official"}) : r = Changed(rest(c.run)) \/ r = rest(c.run)
  BY <1>2
<1>4. /\ RunShape(s) /\ Plan(s) /\ s.verdict \in {"none", "success", "failure"}
      /\ "restoreCoreFiles" \in MethodsOf(s.book) /\ Stage(s, "restoreCoreFiles")
      /\ s.book \in Playbooks \cup {"none"}
  BY LoopHas
<1>5. s.book = "core"
  BY <1>4, BookOf
<1>6. s.facts \subseteq CoreFiles /\ s.facts # {} /\ \A g \in s.facts : s.site[g] = s.before[g]
  BY <1>4 DEF Stage
<1>7. f \in s.facts /\ f \in CoreFiles /\ f \in Files /\ f \in Targets /\ f # "active_plugins"
  BY <1>1, <1>6, CoreFilesAre, FilesAre
<1>8. Goes(s, t) /\ Covered(t, f) /\ t.site = s.site
  BY <1>2, <1>4, <1>5, <1>6, <1>7, CopiedFirstGoes
<1>9. PICK q : q = c.run
  OBVIOUS
<1>10. RunShape(t) /\ Plan(t)
  BY <1>8 DEF Goes
<1>11. {"official"} \in Contents
  BY DEF Contents, Marks
<1>12. Touched(t, q, f)
  BY <1>3, <1>7, <1>9, <1>10, <1>11, CommandWorks DEF Worked
<1>13. Goes(t, q)
  BY <1>7, <1>8, <1>10, <1>12, TouchedGoes
<1>14. Goes(s, q)
  BY <1>8, <1>13, GoesOn
<1>15. \A g \in Targets \ {f} : q.site[g] = s.site[g]
  BY <1>8, <1>12 DEF Touched
<1>16. PICK w : w = rest(q)
  OBVIOUS
<1>17. RunShape(q) /\ Plan(q) /\ q.facts = s.facts /\ q.before = s.before /\ q.book = "core"
         /\ q.phase = "running" /\ q.verdict = s.verdict
  BY <1>5, <1>14 DEF Goes
<1>18. /\ DOMAIN w = Fields /\ w.facts = s.facts \ {f} /\ w.todo = todo
       /\ \A x \in Fields \ {"todo", "facts"} : w[x] = q[x]
  BY <1>16, <1>17 DEF RunShape, Fields
<1> HIDE DEF rest, todo
<1>19. RunShape(w) /\ Plan(w)
  BY <1>4, <1>17, <1>18, TodoSound
<1>20. PICK ch : ch = Changed(w)
  OBVIOUS
<1>21. Goes(w, ch) /\ ch.site = w.site
  BY <1>19, <1>20, ChangedGoes
<1>22. w.book = "core" /\ w.before = s.before /\ w.site = q.site /\ w.phase = "running"
         /\ w.verdict = s.verdict
  BY <1>17, <1>18 DEF Fields
<1>23. r = w \/ r = ch
  BY <1>3, <1>9, <1>16, <1>20
<1>24. /\ RunShape(r) /\ Plan(r) /\ r.site = q.site /\ r.before = s.before /\ r.book = "core"
       /\ r.facts = s.facts \ {f} /\ r.todo = todo /\ r.phase = "running"
       /\ r.verdict \in {"none", "success", "failure"}
  BY <1>4, <1>18, <1>19, <1>21, <1>22, <1>23 DEF Goes
<1>25. /\ "restoreCoreFiles" \in MethodsOf("core") /\ "restoreCoreFiles" \in Enders
       /\ "verifyCoreFiles" \in MethodsOf("core") /\ "verifyCoreFiles" \in Enders
  BY DEF MethodsOf, Enders
<1>26. CASE s.facts = {f}
  <2>1. r.todo = <<"verifyCoreFiles">>
    BY <1>24, <1>26 DEF todo
  <2>2. TodoFine(r) /\ Head(r.todo) = "verifyCoreFiles"
    BY <1>24, <1>25, <2>1, OneTodo
  <2>3. Stage(r, "verifyCoreFiles")
    BY DEF Stage
  <2> QED
    BY <1>24, <2>2, <2>3, RunningSound DEF Running
<1>27. CASE s.facts # {f}
  <2>1. r.todo = <<"restoreCoreFiles">>
    BY <1>24, <1>27 DEF todo
  <2>2. TodoFine(r) /\ Head(r.todo) = "restoreCoreFiles"
    BY <1>24, <1>25, <2>1, OneTodo
  <2>3. r.facts \subseteq CoreFiles /\ r.facts # {}
    BY <1>6, <1>7, <1>24, <1>27
  <2>4. \A g \in r.facts : r.site[g] = r.before[g]
    <3> SUFFICES ASSUME NEW g \in r.facts PROVE r.site[g] = r.before[g]
      OBVIOUS
    <3>1. g \in s.facts /\ g # f /\ g \in Targets
      BY <1>6, <1>24, CoreFilesAre, FilesAre
    <3> QED
      BY <1>6, <1>15, <1>24, <3>1
  <2>5. Stage(r, "restoreCoreFiles")
    BY <2>3, <2>4 DEF Stage
  <2> QED
    BY <1>24, <2>2, <2>5, RunningSound DEF Running
<1> QED
  BY <1>26, <1>27

LEMMA VerifyCoreSound ==
    ASSUME NEW p, NEW s, AtWork(p, s, "verifyCoreFiles"), NEW r \in VerifyCoreFiles(s)
    PROVE  FixSound(r)
<1>1. /\ RunShape(s) /\ Plan(s) /\ s.book \in Playbooks /\ "verifyCoreFiles" \in MethodsOf(s.book)
  BY AtWorkHas
<1>2. s.book # "deactivation" /\ s.changed \in BOOLEAN
  BY <1>1, BookOf DEF RunShape
<1>3. PICK c \in CheckCoreFilesExist(s) : \E success : r = Return(c.run, success, s.changed)
  BY DEF VerifyCoreFiles
<1>4. Like(s, c.run)
  BY <1>1, AskedLike DEF CheckCoreFilesExist
<1> QED
  BY <1>1, <1>2, <1>3, <1>4, GoesReturn

(* The two methods of wp-config-validation, from a run with facts of its own.*)
LEMMA RepairSound ==
    ASSUME NEW s, Starts(s), s.book = "wpconfig", NEW facts,
           "exists" \in facts \/ Covered(s, "wp-config.php"),
           NEW r, r = Goto([s EXCEPT !.facts = facts], <<"backupWpConfig", "writeWpConfig">>)
    PROVE  FixSound(r)
<1>1. /\ DOMAIN r = Fields /\ r.todo = <<"backupWpConfig", "writeWpConfig">> /\ r.facts = facts
      /\ \A x \in Fields \ {"todo", "facts"} : r[x] = s[x]
  BY DEF Goto, Starts, RunShape, Fields
<1>2. r.book = "wpconfig" /\ r.site = s.site /\ r.before = s.before
  BY <1>1 DEF Fields
<1>3. \A t : Covered(s, t) => Covered(r, t)
  BY <1>1, TodoSound DEF Starts
<1>4. MethodsOf("wpconfig") = {"backupWpConfig", "writeWpConfig"} /\ "writeWpConfig" \in Enders
  BY DEF MethodsOf, Enders
<1> DEFINE ms == <<"backupWpConfig", "writeWpConfig">>
<1>5. /\ ms \in Seq({"backupWpConfig", "writeWpConfig"}) /\ ms # <<>> /\ Len(ms) = 2
      /\ ms[2] = "writeWpConfig" /\ Head(ms) = "backupWpConfig"
      /\ \A k \in DOMAIN ms : k > 1 => ms[k] = "writeWpConfig"
  OBVIOUS
<1> HIDE DEF ms
<1>6. r.todo = ms
  BY <1>1 DEF ms
<1>7. TodoFine(r)
  BY <1>2, <1>4, <1>5, <1>6 DEF TodoFine
<1>8. r.site["wp-config.php"] = r.before["wp-config.php"]
  BY <1>2, CoreFilesAre DEF Starts, Untouched
<1>9. Stage(r, "backupWpConfig")
  BY <1>1, <1>3, <1>8 DEF Stage
<1> QED
  BY <1>1, <1>5, <1>6, <1>7, <1>9, StartsGoto

LEMMA DarkStarts ==
    ASSUME NEW s, Starts(s), NEW t \in Files
    PROVE  Starts(InTheDark(s, t)) /\ Covered(InTheDark(s, t), t) /\ InTheDark(s, t).book = s.book
<1>1. /\ Goes(s, InTheDark(s, t)) /\ Covered(InTheDark(s, t), t) /\ InTheDark(s, t).site = s.site
      /\ t \in Targets
  BY DarkGoes, FilesAre DEF Starts
<1>2. InTheDark(s, t).steps = s.steps
  BY DEF InTheDark, Starts, RunShape, Fields
<1> QED
  BY <1>1, <1>2 DEF Starts, Untouched, Goes

LEMMA ConfigApplySound ==
    ASSUME NEW s, Starts(s), s.book = "wpconfig", NEW r \in ConfigApply(s)
    PROVE  FixSound(r)
<1> DEFINE repair(t, facts) == Goto([t EXCEPT !.facts = facts], <<"backupWpConfig", "writeWpConfig">>)
<1>0. \A q, facts : Starts(q) /\ q.book = "wpconfig" /\ ("exists" \in facts \/ Covered(q, "wp-config.php"))
        => FixSound(repair(q, facts))
  BY RepairSound
<1>1. \/ ~Exists(s, "wp-config.php") /\ r = repair(s, {})
      \/ \E v \in ValidateWpConfig(s, s.site["wp-config.php"]) :
            r = Return(v.run, TRUE, FALSE) \/ r = repair(v.run, {"exists", "read"})
      \/ \E f \in Fault(s) : r = repair(InTheDark(f, "wp-config.php"), {}) \/ r = repair(f, {"exists"})
  <2>1. r \in IF ~Exists(s, "wp-config.php") THEN {repair(s, {})}
              ELSE {IF v.answer THEN Return(v.run, TRUE, FALSE) ELSE repair(v.run, {"exists", "read"}) :
                       v \in ValidateWpConfig(s, s.site["wp-config.php"])}
                     \cup {repair(InTheDark(f, "wp-config.php"), {}) : f \in Fault(s)}
                     \cup {repair(f, {"exists"}) : f \in Fault(s)}
    BY DEF ConfigApply
  <2> HIDE DEF repair
  <2> QED
    BY <2>1
<1> HIDE DEF repair
<1>2. CASE ~Exists(s, "wp-config.php") /\ r = repair(s, {})
  <2>1. Covered(s, "wp-config.php")
    BY <1>2, CoreFilesAre DEF Exists, Covered, Excused, Starts, Untouched
  <2> QED
    BY <1>0, <1>2, <2>1
<1>3. ASSUME NEW v \in ValidateWpConfig(s, s.site["wp-config.php"]),
             r = Return(v.run, TRUE, FALSE) \/ r = repair(v.run, {"exists", "read"})
      PROVE  FixSound(r)
  <2>1. Like(s, v.run)
    BY AskedLike DEF ValidateWpConfig, Starts
  <2>2. Starts(v.run) /\ v.run.book = "wpconfig"
    BY <2>1, LikeStarts
  <2> QED
    BY <1>0, <1>3, <2>2, StartsReturn
<1>4. ASSUME NEW f \in Fault(s),
             r = repair(InTheDark(f, "wp-config.php"), {}) \/ r = repair(f, {"exists"})
      PROVE  FixSound(r)
  <2>1. Starts(f) /\ f.book = "wpconfig"
    <3>1. Like(s, f)
      BY FaultLike DEF Starts
    <3> QED
      BY <3>1, LikeStarts
  <2>2. /\ Starts(InTheDark(f, "wp-config.php")) /\ InTheDark(f, "wp-config.php").book = "wpconfig"
        /\ Covered(InTheDark(f, "wp-config.php"), "wp-config.php")
    BY <2>1, DarkStarts, CoreFilesAre
  <2> QED
    BY <1>0, <1>4, <2>1, <2>2
<1> QED
  BY <1>1, <1>2, <1>3, <1>4

LEMMA BackupConfigSound ==
    ASSUME NEW p, NEW s, AtWork(p, s, "backupWpConfig"), NEW r \in BackupWpConfig(s)
    PROVE  FixSound(r)
<1>1. /\ RunShape(s) /\ Plan(s) /\ s.phase = "running" /\ s.book \in Playbooks \cup {"none"}
      /\ "backupWpConfig" \in MethodsOf(s.book) /\ Stage(s, "backupWpConfig")
  BY AtWorkHas
<1>2. s.book = "wpconfig"
  BY <1>1, BookOf
<1>3. /\ s.site["wp-config.php"] = s.before["wp-config.php"]
      /\ "exists" \in s.facts \/ Covered(s, "wp-config.php")
  BY <1>1 DEF Stage
<1>4. "wp-config.php" \in Files /\ "wp-config.php" \in Targets
  BY CoreFilesAre, FilesAre
<1>5. Goes(s, r) /\ Covered(r, "wp-config.php")
  <2>1. CASE "exists" \notin s.facts
    BY <1>1, <1>3, <2>1, GoesItself DEF BackupWpConfig
  <2>2. CASE "exists" \in s.facts
    <3>1. PICK b \in CreateBackup(s, "wp-config.php") :
            r = IF b.ok THEN AddStep(b.run, "wp-config.php", s.site["wp-config.php"], 0)
                ELSE InTheDark(b.run, "wp-config.php")
      BY <2>2 DEF BackupWpConfig
    <3>2. PICK q : q = b.run
      OBVIOUS
    <3>3. Like(s, q)
      BY <1>1, <3>2, BackupLike
    <3>4. Goes(s, q) /\ RunShape(q) /\ Plan(q) /\ q.site = s.site
      BY <1>1, <3>3, LikeGoes
    <3>5. q.before = s.before /\ q.book = "wpconfig"
      BY <1>2, <3>4 DEF Goes
    <3>6. CASE b.ok
      <4>1. PICK content : content = s.site["wp-config.php"]
        OBVIOUS
      <4>2. r = AddStep(q, "wp-config.php", content, 0) /\ content = q.site["wp-config.php"]
              /\ q.site["wp-config.php"] = q.before["wp-config.php"]
        BY <1>3, <3>1, <3>2, <3>4, <3>5, <3>6, <4>1
      <4>3. Goes(q, r) /\ Covered(r, "wp-config.php")
        BY <1>4, <3>4, <3>5, <4>2, AddStepGoes
      <4> QED
        BY <3>4, <4>3, GoesOn
    <3>7. CASE ~b.ok
      <4>1. Goes(q, r) /\ Covered(r, "wp-config.php")
        BY <1>4, <3>1, <3>2, <3>4, <3>7, DarkGoes
      <4> QED
        BY <3>4, <4>1, GoesOn
    <3> QED
      BY <3>6, <3>7
  <2> QED
    BY <2>1, <2>2
<1>6. /\ RunShape(r) /\ Plan(r) /\ r.phase = "running" /\ r.todo = s.todo /\ r.book = s.book
      /\ r.verdict = s.verdict
  BY <1>1, <1>5 DEF Goes
<1>7. "backupWpConfig" \notin Enders
  BY DEF Enders
<1> QED
  BY <1>2, <1>5, <1>6, <1>7, NextMethod

LEMMA ContentsWritten ==
    ASSUME NEW s, RunShape(s), NEW content \in GenerateOrRepairWpConfig(s)
    PROVE  content \in Contents
<1>1. PICK base : base = IF "read" \in s.facts /\ s.site["wp-config.php"] # Torn
                         THEN s.site["wp-config.php"] ELSE MinimalWpConfig
  OBVIOUS
<1>2. PICK c \in ExtractOrDetectDatabaseSettings(base) : content \in Repaired(c)
  BY <1>1 DEF GenerateOrRepairWpConfig
<1>3. s.site["wp-config.php"] \in Contents
  BY CoreFilesAre, FilesAre DEF RunShape
<1>4. MinimalWpConfig \in Contents
  BY DEF MinimalWpConfig, Contents, Marks
<1>5. base \in Contents
  BY <1>1, <1>3, <1>4
<1>6. c \in Contents
  BY <1>2, <1>4, <1>5 DEF ExtractOrDetectDatabaseSettings, Contents
<1>7. "repaired" \in Marks /\ "invalid" \in Marks
  BY DEF Marks
<1> QED
  BY <1>2, <1>6, <1>7 DEF Repaired, Contents

LEMMA WriteConfigSound ==
    ASSUME NEW p, NEW s, AtWork(p, s, "writeWpConfig"), NEW r \in WriteWpConfig(s)
    PROVE  FixSound(r)
<1>1. /\ RunShape(s) /\ Plan(s) /\ s.phase = "running" /\ s.book \in Playbooks \cup {"none"}
      /\ s.book \in Playbooks
      /\ "writeWpConfig" \in MethodsOf(s.book) /\ Stage(s, "writeWpConfig")
  BY AtWorkHas
<1>2. s.book # "deactivation"
  BY <1>1, BookOf
<1>3. Covered(s, "wp-config.php") /\ "wp-config.php" \in Files /\ "wp-config.php" \in Targets
        /\ "wp-config.php" # "active_plugins"
  BY <1>1, CoreFilesAre, FilesAre DEF Stage
<1> DEFINE tests(w, content) ==
             UNION {{Return(v.run, w.ok /\ d.ok /\ v.answer, TRUE) :
                         v \in ValidateWpConfig(d.run, content)} : d \in TestDatabaseConnection(w.run)}
<1>a. r \in UNION {UNION {tests(w, content) : w \in WriteFileWithBackup(s, "wp-config.php", content)} :
                     content \in GenerateOrRepairWpConfig(s)}
  BY DEF WriteWpConfig
<1>b. \A w, content : r \in tests(w, content) =>
        \E d \in TestDatabaseConnection(w.run) : \E v \in ValidateWpConfig(d.run, content) :
           r = Return(v.run, w.ok /\ d.ok /\ v.answer, TRUE)
  OBVIOUS
<1> HIDE DEF tests
<1>c. PICK content \in GenerateOrRepairWpConfig(s) :
        r \in UNION {tests(w, content) : w \in WriteFileWithBackup(s, "wp-config.php", content)}
  BY <1>a
<1>4. PICK w \in WriteFileWithBackup(s, "wp-config.php", content) : r \in tests(w, content)
  BY <1>c
<1>5. \E d \in TestDatabaseConnection(w.run) : \E v \in ValidateWpConfig(d.run, content) :
        r = Return(v.run, w.ok /\ d.ok /\ v.answer, TRUE)
  BY <1>b, <1>4
<1>6. PICK d \in TestDatabaseConnection(w.run) : \E v \in ValidateWpConfig(d.run, content) :
            r = Return(v.run, w.ok /\ d.ok /\ v.answer, TRUE)
  BY <1>5
<1>7. PICK v \in ValidateWpConfig(d.run, content) :
            r = Return(v.run, w.ok /\ d.ok /\ v.answer, TRUE)
  BY <1>6
<1>8. PICK q : q = w.run
  OBVIOUS
<1>9. content \in Contents
  BY <1>1, ContentsWritten
<1>10. Touched(s, q, "wp-config.php")
  BY <1>1, <1>3, <1>4, <1>8, <1>9, WriteWorks DEF Worked
<1>11. Goes(s, q)
  BY <1>1, <1>3, <1>10, TouchedGoes
<1>12. RunShape(q) /\ Plan(q)
  BY <1>11 DEF Goes
<1>13. Like(q, d.run)
  BY <1>6, <1>8, <1>12, ScriptLike, LikeItself DEF TestDatabaseConnection
<1>14. PICK e : e = d.run
  OBVIOUS
<1>15. RunShape(e)
  BY <1>13, <1>14 DEF Like
<1>16. Like(e, v.run)
  BY <1>7, <1>14, <1>15, AskedLike DEF ValidateWpConfig
<1>17. Like(q, v.run)
  BY <1>13, <1>14, <1>16, LikeLike
<1>18. Goes(s, v.run)
  BY <1>11, <1>12, <1>17, LikeGoes, GoesOn
<1>19. PICK success : success = (w.ok /\ d.ok /\ v.answer)
  OBVIOUS
<1>20. r = Return(v.run, success, TRUE)
  BY <1>7, <1>19
<1> QED
  BY <1>1, <1>2, <1>18, <1>20, GoesReturn
-----------------------------------------------------------------------------
(* The tables of the database.                                              *)
LEMMA TablesApplySound ==
    ASSUME NEW s, Starts(s), s.book = "tables", NEW r \in TablesApply(s)
    PROVE  FixSound(r)
<1> DEFINE ms == <<"createDatabaseBackup", "checkTableStatus", "repairCorruptedTables",
                   "optimizeTables", "repairWordPressOptions">>
           M == {"createDatabaseBackup", "checkTableStatus", "repairCorruptedTables",
                 "optimizeTables", "repairWordPressOptions"}
<1>1. PICK info \in GetDatabaseInfo(s) : r = Goto(info.run, ms) \/ r = Return(info.run, FALSE, FALSE)
  BY DEF TablesApply
<1>2. /\ ms \in Seq(M) /\ ms # <<>> /\ Len(ms) = 5 /\ DOMAIN ms = 1..5
      /\ ms[1] = "createDatabaseBackup" /\ ms[2] = "checkTableStatus" /\ ms[3] = "repairCorruptedTables"
      /\ ms[4] = "optimizeTables" /\ ms[5] = "repairWordPressOptions"
      /\ Head(ms) = "createDatabaseBackup"
  OBVIOUS
<1>3. MethodsOf("tables") = M /\ "repairWordPressOptions" \in Enders
  BY DEF MethodsOf, Enders
<1> HIDE DEF ms, M
<1>4. Like(s, info.run)
  BY AskedLike DEF GetDatabaseInfo, Starts
<1>5. PICK q : q = info.run
  OBVIOUS
<1>6. Starts(q) /\ q.book = "tables"
  BY <1>4, <1>5, LikeStarts
<1>7. CASE r = Return(q, FALSE, FALSE)
  BY <1>6, <1>7, StartsReturn
<1>8. CASE r = Goto(q, ms)
  <2>1. DOMAIN r = Fields /\ r.todo = ms /\ \A x \in Fields \ {"todo", "facts"} : r[x] = q[x]
    BY <1>6, <1>8, GotoShape DEF Starts
  <2>2. r.book = "tables" /\ r.site = q.site /\ r.before = q.before
    BY <1>6, <2>1 DEF Fields
  <2>3. \A k \in 1..5 : k > 1 =>
          /\ ms[k] \notin {"createDatabaseBackup", "backupWpConfig", "deactivatePluginsByPriority"}
          /\ ms[k] = "checkTableStatus" => ms[k - 1] = "createDatabaseBackup"
    <3> SUFFICES ASSUME NEW k \in 1..5, k > 1
                 PROVE  /\ ms[k] \notin {"createDatabaseBackup", "backupWpConfig", "deactivatePluginsByPriority"}
                        /\ ms[k] = "checkTableStatus" => ms[k - 1] = "createDatabaseBackup"
      OBVIOUS
    <3>1. k = 2 \/ k = 3 \/ k = 4 \/ k = 5
      OBVIOUS
    <3>2. 2 - 1 = 1
      OBVIOUS
    <3> QED
      BY <1>2, <3>1, <3>2
  <2>4. TodoFine(r)
    BY <1>2, <1>3, <2>1, <2>2, <2>3 DEF TodoFine
  <2>5. Untouched(r)
    BY <1>6, <2>2 DEF Starts, Untouched
  <2>6. Stage(r, "createDatabaseBackup")
    BY <2>5 DEF Stage
  <2> QED
    BY <1>2, <1>6, <2>1, <2>4, <2>6, StartsGoto
<1> QED
  BY <1>1, <1>5, <1>7, <1>8

LEMMA TablesSound ==
    ASSUME NEW p, NEW s, NEW m \in MethodsOf("tables"), AtWork(p, s, m), NEW r \in Tier2Method(m, s)
    PROVE  FixSound(r)
<1>1. /\ RunShape(s) /\ Plan(s) /\ s.phase = "running" /\ s.book \in Playbooks \cup {"none"}
      /\ s.book \in Playbooks /\ m \in MethodsOf(s.book) /\ Stage(s, m)
      /\ s.verdict \in {"none", "success", "failure"}
  BY AtWorkHas
<1>2. m \in {"createDatabaseBackup", "checkTableStatus", "repairCorruptedTables",
             "optimizeTables", "repairWordPressOptions"}
  BY DEF MethodsOf
<1>3. s.book = "tables"
  BY <1>1, <1>2, BookOf
<1>4. "database" \in Files /\ "database" \in Targets /\ "database" # "active_plugins"
        /\ "database" \in Restorable
  BY CoreFilesAre, FilesAre
<1>5. \A f \in Fault(s) : Like(s, f)
  BY <1>1, FaultLike
<1>6. Goes(s, s) /\ s.changed \in BOOLEAN
  BY <1>1, GoesItself DEF RunShape
<1>7. CASE m = "createDatabaseBackup"
  <2>1. Untouched(s)
    BY <1>1, <1>7 DEF Stage
  <2>2. r = AddStep(s, "database", s.site["database"], 0) \/ \E f \in Fault(s) : r = InTheDark(f, "database")
    BY <1>7 DEF Tier2Method, CreateDatabaseBackup
  <2>4. ASSUME NEW f \in Fault(s), r = InTheDark(f, "database")
        PROVE  Goes(s, r) /\ Covered(r, "database") /\ r.site = s.site
    <3>1. Goes(s, f) /\ RunShape(f) /\ Plan(f) /\ f.site = s.site
      BY <1>1, <1>5, LikeGoes
    <3>2. Goes(f, r) /\ Covered(r, "database") /\ r.site = f.site
      BY <1>4, <2>4, <3>1, DarkGoes
    <3> QED
      BY <3>1, <3>2, GoesOn
  <2>5. Goes(s, r) /\ Covered(r, "database") /\ r.site = s.site
    <3>1. CASE r = AddStep(s, "database", s.site["database"], 0)
      <4>1. PICK content : content = s.site["database"]
        OBVIOUS
      <4>2. s.site["database"] = s.before["database"]
        BY <1>4, <2>1 DEF Untouched
      <4> QED
        BY <1>1, <1>3, <1>4, <3>1, <4>1, <4>2, AddStepGoes
    <3> QED
      BY <2>2, <2>4, <3>1
  <2>6. Untouched(r)
    BY <2>1, <2>5 DEF Untouched, Goes
  <2>7. /\ RunShape(r) /\ Plan(r) /\ r.phase = "running" /\ r.todo = s.todo /\ r.book = s.book
        /\ r.verdict = s.verdict
    BY <1>1, <2>5 DEF Goes
  <2>8. m \notin Enders
    BY <1>7 DEF Enders
  <2> QED
    BY <1>3, <2>5, <2>6, <2>7, <2>8, NextMethod
<1>8. CASE m = "checkTableStatus"
  <2>1. Untouched(s) /\ Covered(s, "database")
    BY <1>1, <1>8 DEF Stage
  <2>2. r = s \/ \E q \in {s} \cup Fault(s) : r = [Return(q, TRUE, FALSE) EXCEPT !.steps = <<>>]
    BY <1>8 DEF Tier2Method, CheckTableStatus
  <2>3. CASE r = s
    <3>1. m \notin Enders /\ m # "createDatabaseBackup"
      BY <1>8 DEF Enders
    <3> QED
      BY <1>1, <1>3, <2>1, <2>3, <3>1, NextMethod
  <2>4. ASSUME NEW q \in {s} \cup Fault(s), r = [Return(q, TRUE, FALSE) EXCEPT !.steps = <<>>]
        PROVE  FixSound(r)
    <3>1. Like(s, q)
      BY <1>1, <1>5, LikeItself
    <3>2. Goes(s, q) /\ RunShape(q) /\ Plan(q) /\ q.site = s.site
      BY <1>1, <3>1, LikeGoes
    <3>3. q.book \in Playbooks /\ \A t \in Restorable : q.site[t] = q.before[t]
      BY <1>1, <2>1, <3>2 DEF Goes, Untouched
    <3> QED
      BY <2>4, <3>2, <3>3, EmptySound
  <2> QED
    BY <2>2, <2>3, <2>4
<1>9. CASE m \in {"repairCorruptedTables", "optimizeTables"}
  <2>1. Covered(s, "database")
    BY <1>1, <1>9 DEF Stage
  <2>2. m \notin Enders /\ m # "createDatabaseBackup"
    BY <1>9 DEF Enders
  <2>3. CASE Goes(s, r)
    <3>1. /\ RunShape(r) /\ Plan(r) /\ r.phase = "running" /\ r.todo = s.todo /\ r.book = s.book
          /\ r.verdict = s.verdict /\ Covered(r, "database")
      BY <1>1, <1>4, <2>1, <2>3 DEF Goes
    <3> QED
      BY <1>3, <2>2, <3>1, NextMethod
  <2>4. CASE m = "optimizeTables"
    <3>1. r \in ChangeForGood(s, "database", "optimized") /\ "optimized" \in Marks
      BY <2>4 DEF Tier2Method, OptimizeTables, Marks
    <3> QED
      BY <1>1, <1>4, <2>1, <2>3, <3>1, ForGoodGoes
  <2>5. CASE m = "repairCorruptedTables"
    <3>1. r = s \/ \E c \in Command(s, "database", {"repaired"}) :
                      r = c.run \/ r = Learn(Changed(c.run), "repaired")
      BY <2>5 DEF Tier2Method, RepairCorruptedTables
    <3>2. ASSUME NEW c \in Command(s, "database", {"repaired"}),
                 r = c.run \/ r = Learn(Changed(c.run), "repaired")
          PROVE  FixSound(r)
      <4>1. PICK q : q = c.run
        OBVIOUS
      <4>2. {"repaired"} \in Contents
        BY DEF Contents, Marks
      <4>3. Touched(s, q, "database")
        BY <1>1, <1>4, <4>1, <4>2, CommandWorks DEF Worked
      <4>4. Goes(s, q)
        BY <1>1, <1>4, <2>1, <4>3, TouchedGoes
      <4>5. PICK ch : ch = Changed(q)
        OBVIOUS
      <4>6. Goes(s, ch)
        <5>1. RunShape(q) /\ Plan(q)
          BY <4>4 DEF Goes
        <5>2. Goes(q, ch)
          BY <4>5, <5>1, ChangedGoes
        <5> QED
          BY <4>4, <5>2, GoesOn
      <4>7. CASE r = Learn(ch, "repaired")
        <5>1. /\ RunShape(ch) /\ Plan(ch) /\ ch.phase = "running" /\ ch.todo = s.todo /\ ch.book = s.book
              /\ ch.verdict = s.verdict /\ Covered(ch, "database")
          BY <1>1, <1>4, <2>1, <4>6 DEF Goes
        <5>2. DOMAIN r = Fields /\ \A x \in Fields \ {"facts"} : r[x] = ch[x]
          BY <4>7, <5>1 DEF Learn, RunShape, Fields
        <5>3. RunShape(r) /\ Plan(r) /\ Covered(r, "database")
          BY <1>1, <5>1, <5>2, TodoSound
        <5>4. r.phase = "running" /\ r.todo = s.todo /\ r.book = s.book /\ r.verdict = s.verdict
          BY <5>1, <5>2 DEF Fields
        <5> QED
          BY <1>3, <2>2, <5>3, <5>4, NextMethod
      <4> QED
        BY <2>3, <3>2, <4>1, <4>4, <4>5, <4>7
    <3> QED
      BY <1>6, <2>3, <3>1, <3>2
  <2> QED
    BY <1>9, <2>4, <2>5
<1>10. CASE m = "repairWordPressOptions"
  <2>1. Covered(s, "database")
    BY <1>1, <1>10 DEF Stage
  <2>2. PICK v \in VerifyTableIntegrity(s) : \E t \in {v.run} \cup ChangeForGood(v.run, "database", "options") :
          \E success : r = Return(t, success, t.changed)
    BY <1>10 DEF Tier2Method, RepairWordPressOptions
  <2>3. PICK q : q = v.run
    OBVIOUS
  <2>4. PICK t \in {q} \cup ChangeForGood(q, "database", "options") :
          \E success : r = Return(t, success, t.changed)
    BY <2>2, <2>3
  <2>5. Like(s, q)
    BY <1>1, <2>2, <2>3, AskedLike DEF VerifyTableIntegrity
  <2>6. Goes(s, q) /\ RunShape(q) /\ Plan(q)
    BY <1>1, <2>5, LikeGoes
  <2>7. Covered(q, "database")
    BY <1>4, <2>1, <2>6 DEF Goes
  <2>8. "options" \in Marks
    BY DEF Marks
  <2>9. Goes(q, t)
    BY <1>4, <2>4, <2>6, <2>7, <2>8, ForGoodGoes, GoesItself
  <2>10. Goes(s, t)
    BY <2>6, <2>9, GoesOn
  <2>11. t.changed \in BOOLEAN
    BY <2>10 DEF Goes, RunShape
  <2> QED
    BY <1>1, <1>3, <2>4, <2>10, <2>11, GoesReturn
<1> QED
  BY <1>2, <1>7, <1>8, <1>9, <1>10

-----------------------------------------------------------------------------
(* The playbooks of tier 3: plugins.                                        *)

LEMMA NothingStarts ==
    ASSUME NEW s, Starts(s), s.book \in Tier3Books, NEW t \in Targets
    PROVE  /\ RunShape(AddCommand(s, "nothing", t, {}, 1))
           /\ Plan(AddCommand(s, "nothing", t, {}, 1))
           /\ Untouched(AddCommand(s, "nothing", t, {}, 1))
           /\ Len(AddCommand(s, "nothing", t, {}, 1).steps) = 1
           /\ \A x \in Fields \ {"steps"} : AddCommand(s, "nothing", t, {}, 1)[x] = s[x]
<1> DEFINE st == [kind |-> "nothing", target |-> t, content |-> {}, order |-> 1]
<1>b. PICK q : q = AddCommand(s, "nothing", t, {}, 1)
  OBVIOUS
<1>1. st \in PlanSteps /\ st.kind = "nothing"
  BY FilesAre DEF PlanSteps
<1>2. q = [s EXCEPT !.steps = Append(@, st)]
  BY <1>b DEF AddCommand
<1> HIDE DEF st
<1>a. RunShape(s) /\ Plan(s) /\ Untouched(s) /\ s.steps = <<>>
  BY DEF Starts
<1>c. RunShape(s) /\ st \in PlanSteps /\ q = [s EXCEPT !.steps = Append(@, st)]
  BY <1>a, <1>1, <1>2
<1>3. /\ RunShape(q) /\ q.steps = Append(s.steps, st)
      /\ \A x \in Fields \ {"steps"} : q[x] = s[x]
  BY <1>c, WithStep
<1>d. st.kind # "restore" /\ st.kind # "reactivate"
  BY <1>1
<1>4. /\ q.site = s.site /\ q.before = s.before /\ q.unknown = s.unknown /\ q.book = s.book
      /\ q.books = s.books
  BY <1>3 DEF Fields
<1>5. s.book \notin {"memory", "errorlog", "webserver"}
  BY DEF Tier3Books
<1>6. \A u \in Files : q.site[u] = s.site[u] /\ s.site[u] = s.before[u]
  BY <1>a, <1>4, FilesAre DEF Untouched
<1>7. Plan(q) /\ \A u : Covered(s, u) => Covered(q, u)
  <2>1. \A u \in Files : \/ Covered(q, u)
                         \/ q.site[u] = s.site[u] /\ (s.site[u] = s.before[u] \/ s.book # "themerollback")
    BY <1>6
  <2>2. \A p \in q.site["active_plugins"] : p \in s.site["active_plugins"] \/ Reactivates(q, p)
    BY <1>4
  <2>3. s.book \notin Tier3Books => q.site["active_plugins"] = {}
    OBVIOUS
  <2>4. st.kind = "reactivate" => st.target = "active_plugins"
    BY <1>d
  <2>5. st.kind = "restore" =>
          /\ st.target \in Files
          /\ st.content = s.before[st.target] \/ Excused(s, st.target) \/ Twice(q, st.target)
    BY <1>d
  <2>6. s.book \in {"memory", "errorlog", "webserver"} => st.order = EditOrder(s.book, st.target)
    BY <1>5
  <2>7. RunShape(s) /\ Plan(s) /\ st \in PlanSteps
    BY <1>a, <1>c
  <2>8. /\ q.steps = Append(s.steps, st) /\ q.before = s.before /\ q.unknown = s.unknown
        /\ q.book = s.book /\ q.books = s.books
    BY <1>3, <1>4
  <2> QED
    BY <2>7, <2>8, <2>1, <2>2, <2>3, <2>4, <2>5, <2>6, PlanMore
<1>8. Len(q.steps) = 1
  BY <1>a, <1>3
<1>9. Untouched(q)
  BY <1>a, <1>4 DEF Untouched
<1> QED
  BY <1>b, <1>3, <1>7, <1>8, <1>9

LEMMA SmallSets ==
    /\ \A S : S \subseteq {"seo", "slider"} => IsFiniteSet(S) /\ Cardinality(S) \in 0..2
    /\ \A S : S \subseteq {"popup", "slider", "gallery", "wp-forms"} =>
          IsFiniteSet(S) /\ Cardinality(S) \in 0..4
<1>1. /\ IsFiniteSet({"seo"}) /\ IsFiniteSet({"slider"}) /\ IsFiniteSet({"popup"})
      /\ IsFiniteSet({"gallery"}) /\ IsFiniteSet({"wp-forms"})
      /\ Cardinality({"seo"}) = 1 /\ Cardinality({"slider"}) = 1 /\ Cardinality({"popup"}) = 1
      /\ Cardinality({"gallery"}) = 1 /\ Cardinality({"wp-forms"}) = 1
  BY FS_Singleton
<1>2. \A S, T : IsFiniteSet(S) /\ IsFiniteSet(T) =>
        IsFiniteSet(S \cup T) /\ Cardinality(S \cup T) <= Cardinality(S) + Cardinality(T)
  <2> SUFFICES ASSUME NEW S, NEW T, IsFiniteSet(S), IsFiniteSet(T)
               PROVE  IsFiniteSet(S \cup T) /\ Cardinality(S \cup T) <= Cardinality(S) + Cardinality(T)
    OBVIOUS
  <2>1. /\ IsFiniteSet(S \cup T)
        /\ Cardinality(S \cup T) = Cardinality(S) + Cardinality(T) - Cardinality(S \cap T)
    BY FS_Union
  <2>2. IsFiniteSet(S \cap T)
    BY FS_Intersection
  <2>3. Cardinality(S \cap T) \in Nat /\ Cardinality(S) \in Nat /\ Cardinality(T) \in Nat
    BY <2>2, FS_CardinalityType
  <2> QED
    BY <2>1, <2>3
<1>3. IsFiniteSet({"seo", "slider"}) /\ Cardinality({"seo", "slider"}) <= 2
  <2>1. {"seo", "slider"} = {"seo"} \cup {"slider"}
    OBVIOUS
  <2> QED
    BY <1>1, <1>2, <2>1
<1>4. IsFiniteSet({"popup", "slider", "gallery", "wp-forms"})
        /\ Cardinality({"popup", "slider", "gallery", "wp-forms"}) <= 4
  <2>1. PICK S, T : S = {"popup"} \cup {"slider"} /\ T = {"gallery"} \cup {"wp-forms"}
    OBVIOUS
  <2>a. PICK all : all = {"popup", "slider", "gallery", "wp-forms"}
    OBVIOUS
  <2>2. all = S \cup T
    BY <2>1, <2>a
  <2>3. IsFiniteSet(S) /\ Cardinality(S) <= 2 /\ IsFiniteSet(T) /\ Cardinality(T) <= 2
    BY <1>1, <1>2, <2>1
  <2>4. IsFiniteSet(S \cup T) /\ Cardinality(S \cup T) <= Cardinality(S) + Cardinality(T)
    BY <1>2, <2>3
  <2>5. Cardinality(S) \in Nat /\ Cardinality(T) \in Nat /\ Cardinality(S \cup T) \in Nat
    BY <2>3, <2>4, FS_CardinalityType
  <2>6. IsFiniteSet(all) /\ Cardinality(all) <= 4
    BY <2>2, <2>3, <2>4, <2>5
  <2> QED
    BY <2>a, <2>6
<1>5. \A B, n : IsFiniteSet(B) /\ n \in Nat /\ Cardinality(B) <= n =>
        \A S : S \subseteq B => IsFiniteSet(S) /\ Cardinality(S) \in 0..n
  <2> SUFFICES ASSUME NEW B, NEW n \in Nat, IsFiniteSet(B), Cardinality(B) <= n,
                      NEW S, S \subseteq B
               PROVE  IsFiniteSet(S) /\ Cardinality(S) \in 0..n
    OBVIOUS
  <2>1. IsFiniteSet(S) /\ Cardinality(S) <= Cardinality(B)
    BY FS_Subset
  <2>2. Cardinality(S) \in Nat /\ Cardinality(B) \in Nat
    BY <2>1, FS_CardinalityType
  <2> QED
    BY <2>1, <2>2
<1> QED
  BY <1>3, <1>4, <1>5

(* One plugin fewer is left.                                                *)
LEMMA FewerLeft ==
    ASSUME NEW S, IsFiniteSet(S), NEW p \in S, NEW T, p \in T
    PROVE  Cardinality(S \ T) + 1 <= Cardinality(S) /\ Cardinality(S \ T) \in Nat
             /\ Cardinality(S) \in Nat
<1>1. IsFiniteSet(S \ {p}) /\ Cardinality(S \ {p}) = Cardinality(S) - 1
  BY FS_RemoveElement
<1>2. S \ T \subseteq S \ {p}
  OBVIOUS
<1>3. IsFiniteSet(S \ T) /\ Cardinality(S \ T) <= Cardinality(S \ {p})
  BY <1>1, <1>2, FS_Subset
<1>4. Cardinality(S) \in Nat /\ Cardinality(S \ T) \in Nat /\ Cardinality(S \ {p}) \in Nat
  BY <1>1, <1>3, FS_CardinalityType
<1> QED
  BY <1>1, <1>3, <1>4

(* A plugin is switched off, and the plan gets the step that undoes it.     *)
LEMMA ReactivationPlan ==
    ASSUME NEW s, RunShape(s), Plan(s), s.book \in {"conflict", "deactivation"},
           NEW p \in Marks, NEW q, RunShape(q),
           \A x \in Fields \ {"site", "faults", "changed", "facts", "todo"} : q[x] = s[x],
           \A u \in Targets \ {"active_plugins"} : q.site[u] = s.site[u],
           q.site["active_plugins"] \subseteq s.site["active_plugins"] \cup {p},
           Len(s.steps) <= 8, NEW r, r = Reactivation(q, p)
    PROVE  /\ RunShape(r) /\ Plan(r) /\ Len(r.steps) = Len(s.steps) + 1
           /\ \A x \in Fields \ {"steps"} : r[x] = q[x]
<1>a. q.steps = s.steps /\ q.before = s.before /\ q.unknown = s.unknown /\ q.book = s.book
        /\ q.books = s.books
  BY DEF Fields
<1>b. Len(s.steps) \in Nat
  BY LenProperties DEF RunShape
<1>c. PICK n \in 0..9 : n = Len(q.steps) + 1
  BY <1>a, <1>b
<1>d. "active_plugins" \in Targets /\ {p} \in Contents
  BY FilesAre DEF Contents
<1> DEFINE st == [kind |-> "reactivate", target |-> "active_plugins", content |-> {p}, order |-> n]
<1>1. st \in PlanSteps /\ st.kind = "reactivate" /\ st.target = "active_plugins" /\ st.content = {p}
  BY <1>c, <1>d DEF PlanSteps
<1>2. r = [q EXCEPT !.steps = Append(@, st)]
  BY <1>c DEF Reactivation, AddCommand
<1> HIDE DEF st
<1>3. /\ RunShape(r) /\ r.steps = Append(s.steps, st)
      /\ \A x \in Fields \ {"steps"} : r[x] = q[x]
  BY <1>a, <1>1, <1>2, WithStep
<1>4. /\ r.site = q.site /\ r.before = s.before /\ r.unknown = s.unknown /\ r.book = s.book
      /\ r.books = s.books
  BY <1>a, <1>3 DEF Fields
<1>5. /\ \E i \in DOMAIN r.steps : r.steps[i] = st
      /\ Len(r.steps) = Len(s.steps) + 1
  BY <1>1, <1>3, <1>4, OneMore
<1>6. Reactivates(r, p)
  BY <1>1, <1>5 DEF Reactivates
<1>7. \A u \in Files : r.site[u] = s.site[u]
  BY <1>4, FilesAre
<1>8. s.book \in Tier3Books /\ s.book # "themerollback"
        /\ s.book \notin {"memory", "errorlog", "webserver"}
  BY DEF Tier3Books
<1>9. \A x \in r.site["active_plugins"] : x \in s.site["active_plugins"] \/ Reactivates(r, x)
  BY <1>4, <1>6
<1>10. Plan(r)
  BY <1>1, <1>3, <1>4, <1>7, <1>8, <1>9, PlanMore
<1> QED
  BY <1>3, <1>5, <1>10

LEMMA ConflictApplySound ==
    ASSUME NEW s, Starts(s), s.book = "conflict", NEW r \in ConflictApply(s)
    PROVE  FixSound(r)
<1> DEFINE deactivate(found, b) ==
             IF b.ok THEN [AddCommand(b.run, "nothing", "active_plugins", {}, 1)
                              EXCEPT !.facts = found, !.todo = <<"deactivateProblematicPlugins">>]
             ELSE Caught(b.run)
           analyzed(e) == IF e.answer = {} THEN {Return(e.run, TRUE, FALSE)}
                          ELSE {deactivate(e.answer, b) : b \in BackupPluginState(e.run)}
<1>1. r \in UNION {IF p.answer = {} THEN {Return(p.run, TRUE, FALSE)}
                   ELSE UNION {analyzed(e) : e \in AnalyzePluginErrors(p.run)} : p \in GetActivePlugins(s)}
  BY DEF ConflictApply
<1>2. \A found, b : \/ deactivate(found, b) = Caught(b.run)
                    \/ deactivate(found, b) = [AddCommand(b.run, "nothing", "active_plugins", {}, 1)
                              EXCEPT !.facts = found, !.todo = <<"deactivateProblematicPlugins">>]
  OBVIOUS
<1> HIDE DEF deactivate
<1>3. \A e : \A q \in analyzed(e) :
        \/ q = Return(e.run, TRUE, FALSE)
        \/ \E b \in BackupPluginState(e.run) : q = deactivate(e.answer, b)
  OBVIOUS
<1> HIDE DEF analyzed
<1>4. PICK p \in GetActivePlugins(s) :
        r \in IF p.answer = {} THEN {Return(p.run, TRUE, FALSE)}
              ELSE UNION {analyzed(e) : e \in AnalyzePluginErrors(p.run)}
  BY <1>1
<1>5. r = Return(p.run, TRUE, FALSE) \/ \E e \in AnalyzePluginErrors(p.run) : r \in analyzed(e)
  BY <1>4
<1>6. PICK u : u = p.run
  OBVIOUS
<1>7. Like(s, u)
  BY <1>6, AskedLike DEF GetActivePlugins, Starts
<1>8. Starts(u) /\ u.book = "conflict"
  BY <1>7, LikeStarts
<1>9. CASE r = Return(u, TRUE, FALSE)
  BY <1>8, <1>9, StartsReturn
<1>10. ASSUME NEW e \in AnalyzePluginErrors(u), r \in analyzed(e)
       PROVE  FixSound(r)
  <2>1. Like(u, e.run) /\ e.answer \subseteq {"seo", "slider"}
    <3>1. Like(u, e.run) /\ (e.answer \in {{}, {"slider"}, {"seo", "slider"}} \/ e.answer = {})
      BY <1>8, <1>10, AskedLike DEF AnalyzePluginErrors, Starts
    <3> QED
      BY <3>1
  <2>2. PICK v : v = e.run
    OBVIOUS
  <2>3. Starts(v) /\ v.book = "conflict"
    BY <1>8, <2>1, <2>2, LikeStarts
  <2>4. CASE r = Return(v, TRUE, FALSE)
    BY <2>3, <2>4, StartsReturn
  <2>5. ASSUME NEW b \in BackupPluginState(v), r = deactivate(e.answer, b)
        PROVE  FixSound(r)
    <3>1. Like(v, b.run)
      BY <2>3, <2>5, ScriptLike DEF BackupPluginState, Starts
    <3>2. PICK w : w = b.run
      OBVIOUS
    <3>3. Starts(w) /\ w.book = "conflict"
      BY <2>3, <3>1, <3>2, LikeStarts
    <3>4. CASE r = Caught(w)
      BY <3>3, <3>4, StartsCaught
    <3>5. PICK q : q = AddCommand(w, "nothing", "active_plugins", {}, 1)
      OBVIOUS
    <3>6. CASE r = [q EXCEPT !.facts = e.answer, !.todo = <<"deactivateProblematicPlugins">>]
      <4>1. w.book \in Tier3Books /\ "active_plugins" \in Targets
        BY <3>3, FilesAre DEF Tier3Books
      <4>2. /\ RunShape(q) /\ Plan(q) /\ Len(q.steps) = 1
            /\ \A x \in Fields \ {"steps"} : q[x] = w[x]
        BY <3>3, <3>5, <4>1, NothingStarts
      <4>3. q.book = "conflict" /\ q.phase = "running" /\ q.verdict \in {"none", "success", "failure"}
        BY <3>3, <4>2 DEF Fields, Starts
      <4>4. /\ DOMAIN r = Fields /\ r.todo = <<"deactivateProblematicPlugins">> /\ r.facts = e.answer
            /\ \A x \in Fields \ {"todo", "facts"} : r[x] = q[x]
        BY <3>6, <4>2 DEF RunShape, Fields
      <4>5. r.book = "conflict" /\ r.steps = q.steps
        BY <4>3, <4>4 DEF Fields
      <4>6. "deactivateProblematicPlugins" \in MethodsOf("conflict")
              /\ "deactivateProblematicPlugins" \in Enders
        BY DEF MethodsOf, Enders
      <4>7. TodoFine(r) /\ Head(r.todo) = "deactivateProblematicPlugins"
        BY <4>4, <4>5, <4>6, OneTodo
      <4>8. Cardinality(r.facts) \in 0..2
        BY <2>1, <4>4, SmallSets
      <4>9. Stage(r, "deactivateProblematicPlugins")
        <5>1. r.facts \subseteq {"seo", "slider"} /\ Len(r.steps) + Cardinality(r.facts) <= 3
          <6>1. r.facts \subseteq {"seo", "slider"}
            BY <2>1, <4>4
          <6>2. Len(r.steps) = 1
            BY <4>2, <4>5
          <6> QED
            BY <4>8, <6>1, <6>2
        <5> QED
          BY <5>1 DEF Stage
      <4> QED
        BY <4>2, <4>3, <4>4, <4>7, <4>9, TodoSound DEF Running
    <3> QED
      BY <1>2, <2>5, <3>2, <3>4, <3>5, <3>6
  <2> QED
    BY <1>3, <1>10, <2>2, <2>4, <2>5
<1> QED
  BY <1>5, <1>6, <1>9, <1>10

LEMMA DeactivatedShape ==
    ASSUME NEW s, RunShape(s), Plan(s), s.book \in {"conflict", "deactivation"},
           NEW p \in Marks, NEW c \in Deactivated(s, p)
    PROVE  /\ c.ok \in BOOLEAN /\ Touched(s, c.run, "active_plugins") /\ RunShape(c.run)
           /\ c.ok => c.run.site["active_plugins"] = s.site["active_plugins"] \cup {p}
                        /\ c.run.unknown = s.unknown
           /\ ~c.ok => Goes(s, c.run)
<1>1. "active_plugins" \in Targets /\ s.site["active_plugins"] \cup {p} \in Contents
  BY FilesAre DEF RunShape, Contents
<1>2. Worked(s, c, "active_plugins", s.site["active_plugins"] \cup {p})
  BY <1>1, CommandWorks DEF Deactivated
<1>3. s.book \in Tier3Books
  BY DEF Tier3Books
<1>4. ~c.ok => Goes(s, c.run)
  BY <1>1, <1>2, <1>3, TouchedGoes DEF Worked
<1> QED
  BY <1>2, <1>4 DEF Worked, Touched

LEMMA ConflictSound ==
    ASSUME NEW s, FixSound(s), s.phase = "running", Head(s.todo) = "deactivateProblematicPlugins",
           NEW r \in DeactivateProblematicPlugins(s)
    PROVE  FixSound(r)
<1>1. /\ RunShape(s) /\ Plan(s) /\ s.verdict \in {"none", "success", "failure"}
      /\ "deactivateProblematicPlugins" \in MethodsOf(s.book)
      /\ Stage(s, "deactivateProblematicPlugins") /\ TodoFine(s)
      /\ s.book \in Playbooks \cup {"none"} /\ s.book \in Playbooks
  BY LoopHas
<1>2. s.book = "conflict"
  BY <1>1, BookOf
<1>3. s.facts \subseteq {"seo", "slider"} /\ Len(s.steps) + Cardinality(s.facts) <= 3
  BY <1>1 DEF Stage
<1>4. IsFiniteSet(s.facts) /\ Cardinality(s.facts) \in Nat /\ Len(s.steps) \in Nat
  BY <1>1, <1>3, SmallSets, LenProperties DEF RunShape
<1>5. CASE s.facts = {}
  <2>1. r = Return(s, TRUE, s.changed) /\ s.changed \in BOOLEAN
    BY <1>1, <1>5 DEF DeactivateProblematicPlugins, RunShape
  <2> QED
    BY <1>1, <1>2, <2>1, GoesItself, GoesReturn
<1>6. CASE s.facts # {}
  <2> DEFINE p == CHOOSE q \in s.facts : TRUE
             rest(t) == [t EXCEPT !.facts = @ \ {p}]
  <2>1. PICK c \in Deactivated(s, p) \cup {Ran(s, s)} :
          r = IF c.ok THEN Reactivation(Changed(rest(c.run)), p) ELSE rest(c.run)
    <3>1. r \in {IF c.ok THEN Reactivation(Changed(rest(c.run)), p) ELSE rest(c.run) :
                    c \in Deactivated(s, p) \cup {Ran(s, s)}}
      BY <1>6 DEF DeactivateProblematicPlugins
    <3> HIDE DEF p, rest
    <3> QED
      BY <3>1
  <2>2. p \in s.facts
    BY <1>6
  <2> HIDE DEF p
  <2>3. p \in Marks
    BY <1>3, <2>2 DEF Marks
  <2>4. PICK q : q = c.run
    OBVIOUS
  <2>5. /\ c.ok \in BOOLEAN /\ RunShape(q)
        /\ \A x \in Fields \ {"site", "faults", "unknown"} : q[x] = s[x]
        /\ \A u \in Targets \ {"active_plugins"} : q.site[u] = s.site[u]
        /\ c.ok => q.site["active_plugins"] \subseteq s.site["active_plugins"] \cup {p}
                     /\ q.unknown = s.unknown
        /\ ~c.ok => Goes(s, q)
    <3>1. CASE c \in Deactivated(s, p)
      BY <1>1, <1>2, <2>3, <2>4, <3>1, DeactivatedShape DEF Touched
    <3>2. CASE c = Ran(s, s)
      BY <1>1, <2>4, <3>2 DEF Ran
    <3> QED
      BY <3>1, <3>2
  <2>6. PICK w : w = rest(q)
    OBVIOUS
  <2>7. q.facts = s.facts
    BY <2>5 DEF Fields
  <2>8. DOMAIN w = Fields /\ w.facts = s.facts \ {p} /\ \A x \in Fields \ {"facts"} : w[x] = q[x]
    BY <2>5, <2>6, <2>7 DEF RunShape, Fields
  <2> HIDE DEF rest
  <2>9. RunShape(w)
    BY <2>5, <2>8 DEF RunShape, Fields
  <2>10. /\ w.todo = s.todo /\ w.book = "conflict" /\ w.phase = "running"
         /\ w.verdict \in {"none", "success", "failure"} /\ w.steps = s.steps /\ w.before = s.before
    BY <1>1, <1>2, <2>5, <2>8 DEF Fields
  <2>11. Cardinality(w.facts) + 1 <= Cardinality(s.facts) /\ Cardinality(w.facts) \in Nat
    BY <1>4, <2>2, <2>8, FewerLeft
  <2>12. w.facts \subseteq {"seo", "slider"}
    BY <1>3, <2>8
  <2>13. CASE c.ok
    <3>1. PICK ch : ch = Changed(w)
      OBVIOUS
    <3>2. RunShape(ch) /\ \A x \in Fields \ {"changed"} : ch[x] = w[x]
      BY <2>9, <3>1, ChangedShape
    <3>3. /\ \A x \in Fields \ {"site", "faults", "changed", "facts", "todo"} : ch[x] = s[x]
          /\ ch.site = q.site /\ ch.facts = w.facts /\ ch.todo = s.todo /\ ch.book = "conflict"
          /\ ch.phase = "running" /\ ch.verdict \in {"none", "success", "failure"}
      BY <2>5, <2>8, <2>10, <2>13, <3>2 DEF Fields
    <3>4. r = Reactivation(ch, p)
      BY <2>1, <2>4, <2>6, <2>13, <3>1
    <3>5. Len(s.steps) <= 8
      BY <1>3, <1>4
    <3>6. /\ RunShape(r) /\ Plan(r) /\ Len(r.steps) = Len(s.steps) + 1
          /\ \A x \in Fields \ {"steps"} : r[x] = ch[x]
      BY <1>1, <1>2, <2>3, <2>5, <2>13, <3>2, <3>3, <3>4, <3>5, ReactivationPlan
    <3>7. /\ r.facts = w.facts /\ r.todo = s.todo /\ r.book = "conflict" /\ r.phase = "running"
          /\ r.verdict \in {"none", "success", "failure"}
      BY <3>3, <3>6 DEF Fields
    <3>8. TodoFine(r)
      BY <1>1, <1>2, <3>7 DEF TodoFine
    <3>9. Stage(r, "deactivateProblematicPlugins")
      BY <1>3, <1>4, <2>11, <2>12, <3>6, <3>7 DEF Stage
    <3> QED
      BY <3>6, <3>7, <3>8, <3>9, RunningSound DEF Running
  <2>14. CASE ~c.ok
    <3>1. r = w
      BY <2>1, <2>4, <2>6, <2>14
    <3>2. RunShape(q) /\ Plan(q) /\ q.phase = "running" /\ q.verdict \in {"none", "success", "failure"}
      BY <1>1, <2>5, <2>14 DEF Goes
    <3>3. RunShape(w) /\ Plan(w)
      BY <2>8, <3>2, TodoSound
    <3>4. TodoFine(w)
      BY <1>1, <1>2, <2>10 DEF TodoFine
    <3>5. Stage(w, "deactivateProblematicPlugins")
      BY <1>3, <1>4, <2>10, <2>11, <2>12 DEF Stage
    <3> QED
      BY <2>10, <3>1, <3>3, <3>4, <3>5, RunningSound DEF Running
  <2> QED
    BY <2>5, <2>13, <2>14
<1> QED
  BY <1>5, <1>6

(* The groups are what is not essential, and one of them is in turn.        *)
LEMMA GroupsAre ==
    /\ Plugins \ Essential = {"popup", "slider", "gallery", "wp-forms"}
    /\ Essential = {"seo"}
    /\ CategorizePlugins.problematic = {"popup", "slider"} /\ CategorizePlugins.unknown = {"gallery"}
    /\ CategorizePlugins.standard = {"wp-forms"}
<1>1. /\ Essential = {"seo"}
      /\ CategorizePlugins.problematic = {"popup", "slider"} /\ CategorizePlugins.unknown = {"gallery"}
      /\ CategorizePlugins.standard = {"wp-forms"}
  BY DEF CategorizePlugins, Essential
<1>2. DOMAIN CategorizePlugins = {"essential", "problematic", "unknown", "standard"}
  BY DEF CategorizePlugins
<1>3. CategorizePlugins["essential"] = {"seo"} /\ CategorizePlugins["problematic"] = {"popup", "slider"}
        /\ CategorizePlugins["unknown"] = {"gallery"} /\ CategorizePlugins["standard"] = {"wp-forms"}
  BY <1>1 DEF Essential
<1>4. Plugins = {"seo", "popup", "slider", "gallery", "wp-forms"}
  BY <1>2, <1>3 DEF Plugins, Range
<1> QED
  BY <1>1, <1>4

LEMMA InTurn ==
    ASSUME NEW left, left \subseteq Plugins \ Essential, left # {}
    PROVE  GroupInTurn(left) \cap left # {}
<1> DEFINE order == <<CategorizePlugins.problematic, CategorizePlugins.unknown,
                      CategorizePlugins.standard>>
           First(i) == order[i] \cap left # {} /\ \A j \in 1..(i - 1) : order[j] \cap left = {}
<1>1. DOMAIN order = 1..3 /\ order[1] = {"popup", "slider"} /\ order[2] = {"gallery"}
        /\ order[3] = {"wp-forms"}
  BY GroupsAre
<1>2. GroupInTurn(left) = order[CHOOSE i \in DOMAIN order : First(i)]
  BY DEF GroupInTurn
<1> HIDE DEF order
<1>3. left \subseteq {"popup", "slider", "gallery", "wp-forms"}
  BY GroupsAre
<1>4. \E i \in DOMAIN order : First(i)
  <2>1. 1..(1 - 1) = {} /\ 1..(2 - 1) = {1} /\ 1..(3 - 1) = {1, 2}
    OBVIOUS
  <2>2. CASE order[1] \cap left # {}
    BY <1>1, <2>1, <2>2
  <2>3. CASE order[1] \cap left = {} /\ order[2] \cap left # {}
    BY <1>1, <2>1, <2>3
  <2>4. CASE order[1] \cap left = {} /\ order[2] \cap left = {}
    <3>1. order[3] \cap left # {}
      BY <1>1, <1>3, <2>4
    <3> QED
      BY <1>1, <2>1, <2>4, <3>1
  <2> QED
    BY <2>2, <2>3, <2>4
<1>5. First(CHOOSE i \in DOMAIN order : First(i))
  BY <1>4
<1> QED
  BY <1>2, <1>5

LEMMA PrioritySound ==
    ASSUME NEW s, FixSound(s), s.phase = "running", Head(s.todo) = "deactivatePluginsByPriority",
           NEW r \in DeactivatePluginsByPriority(s)
    PROVE  FixSound(r)
<1>1. /\ RunShape(s) /\ Plan(s) /\ s.verdict \in {"none", "success", "failure"}
      /\ "deactivatePluginsByPriority" \in MethodsOf(s.book)
      /\ Stage(s, "deactivatePluginsByPriority") /\ TodoFine(s)
      /\ s.book \in Playbooks \cup {"none"} /\ s.book \in Playbooks
  BY LoopHas
<1>2. s.book = "deactivation"
  BY <1>1, BookOf
<1>3. s.facts \subseteq Plugins \ Essential /\ Len(s.steps) + Cardinality(s.facts) <= 4
  BY <1>1 DEF Stage
<1>a. s.facts \subseteq {"popup", "slider", "gallery", "wp-forms"}
  BY <1>3, GroupsAre
<1>4. IsFiniteSet(s.facts) /\ Cardinality(s.facts) \in Nat /\ Len(s.steps) \in Nat
  BY <1>1, <1>a, SmallSets, LenProperties DEF RunShape
<1>5. CASE s.facts = {}
  <2>1. r = [s EXCEPT !.todo = Tail(@)]
    BY <1>5 DEF DeactivatePluginsByPriority, Goto
  <2>2. AtWork(s, r, "deactivatePluginsByPriority")
    BY <2>1 DEF AtWork
  <2>3. RunShape(r) /\ Plan(r) /\ r.phase = "running" /\ r.book = s.book
    BY <2>2, AtWorkHas
  <2>4. "deactivatePluginsByPriority" \notin Enders
    BY DEF Enders
  <2> QED
    BY <1>2, <2>2, <2>3, <2>4, NextMethod
<1>6. CASE s.facts # {}
  <2> DEFINE group == GroupInTurn(s.facts)
             p == CHOOSE q \in group \cap s.facts : TRUE
             without(t, ps) == [t EXCEPT !.facts = @ \ ps]
  <2>1. PICK c \in Deactivated(s, p) :
          \/ c.ok /\ \E ps \in {{p}, group} : r = Reactivation(Changed(without(c.run, ps)), p)
          \/ ~c.ok /\ r = without(c.run, {p})
    <3>1. r \in UNION {IF c.ok THEN {Reactivation(Changed(without(c.run, ps)), p) : ps \in {{p}, group}}
                       ELSE {without(c.run, {p})} : c \in Deactivated(s, p)}
      BY <1>6 DEF DeactivatePluginsByPriority
    <3> HIDE DEF p, without, group
    <3>2. PICK c \in Deactivated(s, p) :
             r \in IF c.ok THEN {Reactivation(Changed(without(c.run, ps)), p) : ps \in {{p}, group}}
                   ELSE {without(c.run, {p})}
      BY <3>1
    <3> QED
      BY <3>2
  <2>2. p \in s.facts /\ p \in group
    BY <1>3, <1>6, InTurn
  <2> HIDE DEF p, group
  <2>3. p \in Marks
    BY <1>a, <2>2 DEF Marks
  <2>a. PICK ps \in {{p}, group} :
          \/ c.ok /\ r = Reactivation(Changed(without(c.run, ps)), p)
          \/ ~c.ok /\ r = without(c.run, ps)
    BY <2>1
  <2>b. p \in ps
    BY <2>2
  <2>4. PICK q : q = c.run
    OBVIOUS
  <2>5. /\ c.ok \in BOOLEAN /\ RunShape(q)
        /\ \A x \in Fields \ {"site", "faults", "unknown"} : q[x] = s[x]
        /\ \A u \in Targets \ {"active_plugins"} : q.site[u] = s.site[u]
        /\ c.ok => q.site["active_plugins"] \subseteq s.site["active_plugins"] \cup {p}
                     /\ q.unknown = s.unknown
        /\ ~c.ok => Goes(s, q)
    BY <1>1, <1>2, <2>3, <2>4, DeactivatedShape DEF Touched
  <2>6. PICK w : w = without(q, ps)
    OBVIOUS
  <2>7. q.facts = s.facts
    BY <2>5 DEF Fields
  <2>8. DOMAIN w = Fields /\ w.facts = s.facts \ ps /\ \A x \in Fields \ {"facts"} : w[x] = q[x]
    BY <2>5, <2>6, <2>7 DEF RunShape, Fields
  <2> HIDE DEF without
  <2>9. RunShape(w)
    BY <2>5, <2>8 DEF RunShape, Fields
  <2>10. /\ w.todo = s.todo /\ w.book = "deactivation" /\ w.phase = "running"
         /\ w.verdict \in {"none", "success", "failure"} /\ w.steps = s.steps /\ w.before = s.before
    BY <1>1, <1>2, <2>5, <2>8 DEF Fields
  <2>11. Cardinality(w.facts) + 1 <= Cardinality(s.facts) /\ Cardinality(w.facts) \in Nat
    BY <1>4, <2>2, <2>b, <2>8, FewerLeft
  <2>12. w.facts \subseteq Plugins \ Essential
    BY <1>3, <2>8
  <2>13. CASE c.ok
    <3>1. PICK ch : ch = Changed(w)
      OBVIOUS
    <3>2. RunShape(ch) /\ \A x \in Fields \ {"changed"} : ch[x] = w[x]
      BY <2>9, <3>1, ChangedShape
    <3>3. /\ \A x \in Fields \ {"site", "faults", "changed", "facts", "todo"} : ch[x] = s[x]
          /\ ch.site = q.site /\ ch.facts = w.facts /\ ch.todo = s.todo /\ ch.book = "deactivation"
          /\ ch.phase = "running" /\ ch.verdict \in {"none", "success", "failure"}
      BY <2>5, <2>8, <2>10, <2>13, <3>2 DEF Fields
    <3>4. r = Reactivation(ch, p)
      BY <2>a, <2>4, <2>6, <2>13, <3>1
    <3>5. Len(s.steps) <= 8
      BY <1>3, <1>4
    <3>6. /\ RunShape(r) /\ Plan(r) /\ Len(r.steps) = Len(s.steps) + 1
          /\ \A x \in Fields \ {"steps"} : r[x] = ch[x]
      BY <1>1, <1>2, <2>3, <2>5, <2>13, <3>2, <3>3, <3>4, <3>5, ReactivationPlan
    <3>7. /\ r.facts = w.facts /\ r.todo = s.todo /\ r.book = "deactivation" /\ r.phase = "running"
          /\ r.verdict \in {"none", "success", "failure"}
      BY <3>3, <3>6 DEF Fields
    <3>8. TodoFine(r)
      BY <1>1, <1>2, <3>7 DEF TodoFine
    <3>9. Stage(r, "deactivatePluginsByPriority")
      <4>1. r.facts \subseteq Plugins \ Essential /\ Len(r.steps) + Cardinality(r.facts) <= 4
        BY <1>3, <1>4, <2>11, <2>12, <3>6, <3>7
      <4> QED
        BY <4>1 DEF Stage
    <3> QED
      BY <3>6, <3>7, <3>8, <3>9, RunningSound DEF Running
  <2>14. CASE ~c.ok
    <3>1. r = w
      BY <2>a, <2>4, <2>6, <2>14
    <3>2. RunShape(q) /\ Plan(q) /\ q.phase = "running" /\ q.verdict \in {"none", "success", "failure"}
      BY <1>1, <2>5, <2>14 DEF Goes
    <3>3. RunShape(w) /\ Plan(w)
      BY <2>8, <3>2, TodoSound
    <3>4. TodoFine(w)
      BY <1>1, <1>2, <2>10 DEF TodoFine
    <3>5. Stage(w, "deactivatePluginsByPriority")
      <4>1. w.facts \subseteq Plugins \ Essential /\ Len(w.steps) + Cardinality(w.facts) <= 4
        BY <1>3, <1>4, <2>10, <2>11, <2>12
      <4> QED
        BY <4>1 DEF Stage
    <3> QED
      BY <2>10, <3>1, <3>3, <3>4, <3>5, RunningSound DEF Running
  <2> QED
    BY <2>5, <2>13, <2>14
<1> QED
  BY <1>5, <1>6

(* The restore that cannot work comes first; the rest of the plan stays.    *)
LEMMA FullRestoreSound ==
    ASSUME NEW s, RunShape(s), Plan(s), s.book = "deactivation",
           NEW r, r = Return(WithFullRestore(s), TRUE, s.changed)
    PROVE  FixSound(r)
<1> DEFINE st == [kind |-> "broken", target |-> "active_plugins", content |-> {}, order |-> 0]
<1>a. PICK q : q = WithFullRestore(s)
  OBVIOUS
<1>1. st \in PlanSteps /\ st.kind = "broken"
  BY FilesAre DEF PlanSteps
<1>2. DOMAIN q = Fields /\ q.steps = <<st>> \o s.steps /\ \A x \in Fields \ {"steps"} : q[x] = s[x]
  BY <1>a DEF WithFullRestore, RunShape, Fields
<1> HIDE DEF st
<1>3. PICK n : n = Len(s.steps)
  OBVIOUS
<1>4. n \in Nat /\ s.steps \in Seq(PlanSteps) /\ DOMAIN s.steps = 1..n
  BY <1>3, LenProperties DEF RunShape
<1>5. /\ q.steps \in Seq(PlanSteps) /\ Len(q.steps) = n + 1 /\ q.steps[1] = st
      /\ \A i \in 1..n : q.steps[i + 1] = s.steps[i]
  <2>1. <<st>> \in Seq(PlanSteps) /\ Len(<<st>>) = 1 /\ <<st>>[1] = st
    BY <1>1
  <2>2. /\ <<st>> \o s.steps \in Seq(PlanSteps) /\ Len(<<st>> \o s.steps) = 1 + n
        /\ \A i \in 1..(1 + n) : (<<st>> \o s.steps)[i] = IF i <= 1 THEN <<st>>[i] ELSE s.steps[i - 1]
    BY <1>3, <1>4, <2>1, ConcatProperties
  <2>3. q.steps \in Seq(PlanSteps) /\ Len(q.steps) = n + 1
    BY <1>2, <1>4, <2>2
  <2>4. 1 \in 1..(1 + n) /\ q.steps[1] = st
    BY <1>2, <1>4, <2>1, <2>2
  <2>5. ASSUME NEW i \in 1..n PROVE q.steps[i + 1] = s.steps[i]
    <3>1. (i + 1) \in 1..(1 + n) /\ ~(i + 1 <= 1) /\ (i + 1) - 1 = i
      BY <1>4
    <3> QED
      BY <1>2, <2>2, <3>1
  <2> QED
    BY <2>3, <2>4, <2>5
<1>6. /\ DOMAIN q.steps = 1..(n + 1) /\ 1 \in DOMAIN q.steps
      /\ \A i \in 1..n : (i + 1) \in DOMAIN q.steps
      /\ \A i \in DOMAIN q.steps : i = 1 \/ ((i - 1) \in 1..n /\ q.steps[i] = s.steps[i - 1])
  <2>1. DOMAIN q.steps = 1..(n + 1)
    BY <1>4, <1>5
  <2>2. ASSUME NEW i \in DOMAIN q.steps, i # 1
        PROVE  (i - 1) \in 1..n /\ q.steps[i] = s.steps[i - 1]
    <3>1. (i - 1) \in 1..n /\ (i - 1) + 1 = i
      BY <1>4, <2>1, <2>2
    <3> QED
      BY <1>5, <3>1
  <2> QED
    BY <1>4, <2>1, <2>2
<1>7. /\ q.site = s.site /\ q.before = s.before /\ q.unknown = s.unknown /\ q.book = s.book
      /\ q.books = s.books /\ q.changed = s.changed
  BY <1>2 DEF Fields
<1>8. RunShape(q)
  BY <1>2, <1>5 DEF RunShape, Fields
<1>9. \A t : Excused(q, t) <=> Excused(s, t)
  BY <1>7 DEF Excused
<1>10. \A t : Restores(s, t) => Restores(q, t)
  <2> SUFFICES ASSUME NEW t, Restores(s, t) PROVE Restores(q, t)
    OBVIOUS
  <2>1. PICK i \in 1..n : s.steps[i].kind = "restore" /\ s.steps[i].target = t
                           /\ s.steps[i].content = s.before[t]
    BY <1>4 DEF Restores
  <2>2. (i + 1) \in DOMAIN q.steps /\ q.steps[i + 1] = s.steps[i]
    BY <1>5, <1>6
  <2> QED
    BY <1>7, <2>1, <2>2 DEF Restores
<1>11. \A x : Reactivates(s, x) => Reactivates(q, x)
  BY <1>4, <1>5, <1>6 DEF Reactivates
<1>12. \A t : Twice(s, t) => Twice(q, t)
  <2> SUFFICES ASSUME NEW t, Twice(s, t) PROVE Twice(q, t)
    OBVIOUS
  <2>1. PICK i \in 1..n, j \in 1..n :
           i # j /\ s.steps[i].target = t /\ s.steps[j].target = t /\ s.steps[i].order = s.steps[j].order
    BY <1>4 DEF Twice
  <2>2. i + 1 # j + 1
    BY <1>4, <2>1
  <2>3. PICK a, b : a = i + 1 /\ b = j + 1
    OBVIOUS
  <2>4. /\ a \in DOMAIN q.steps /\ b \in DOMAIN q.steps /\ a # b
        /\ q.steps[a] = s.steps[i] /\ q.steps[b] = s.steps[j]
    BY <1>5, <1>6, <2>2, <2>3
  <2> QED
    BY <2>1, <2>4 DEF Twice
<1>13. FilesPlanned(q)
  <2>1. s.book # "themerollback"
    OBVIOUS
  <2> QED
    BY <1>7, <1>9, <1>10, <2>1 DEF Plan, FilesPlanned, Covered
<1>14. PluginsPlanned(q)
  BY <1>7, <1>11 DEF Plan, PluginsPlanned
<1>15. CopiesTrue(q)
  <2> SUFFICES ASSUME NEW i \in DOMAIN q.steps
               PROVE  /\ q.steps[i].kind = "reactivate" => q.steps[i].target = "active_plugins"
                      /\ q.steps[i].kind = "restore" =>
                           /\ q.steps[i].target \in Files
                           /\ \/ q.steps[i].content = q.before[q.steps[i].target]
                              \/ Excused(q, q.steps[i].target)
                              \/ Twice(q, q.steps[i].target)
    BY DEF CopiesTrue
  <2>1. CASE i = 1
    BY <1>1, <1>5, <2>1
  <2>2. CASE i # 1
    <3>1. (i - 1) \in DOMAIN s.steps /\ q.steps[i] = s.steps[i - 1]
      BY <1>4, <1>6, <2>2
    <3>2. PICK k \in DOMAIN s.steps : q.steps[i] = s.steps[k]
      BY <3>1
    <3>3. /\ s.steps[k].kind = "reactivate" => s.steps[k].target = "active_plugins"
          /\ s.steps[k].kind = "restore" =>
               /\ s.steps[k].target \in Files
               /\ \/ s.steps[k].content = s.before[s.steps[k].target]
                  \/ Excused(s, s.steps[k].target)
                  \/ Twice(s, s.steps[k].target)
      BY DEF Plan, CopiesTrue
    <3> QED
      BY <1>7, <1>9, <1>12, <3>2, <3>3
  <2> QED
    BY <2>1, <2>2
<1>16. OrdersFixed(q) /\ Alone(q)
  BY <1>7 DEF Plan, OrdersFixed, Alone
<1>17. Returned(q)
  BY <1>1, <1>5, <1>6 DEF Returned, HasBroken
<1>18. q.book \in Playbooks
  <2>1. q.book \in Playbooks \cup {"none"} /\ q.book # "none"
    BY <1>7, <1>8 DEF RunShape
  <2> QED
    BY <2>1
<1>19. Plan(q)
  BY <1>13, <1>14, <1>15, <1>16 DEF Plan
<1>20. s.changed \in BOOLEAN
  BY DEF RunShape
<1> QED
  BY <1>a, <1>8, <1>17, <1>18, <1>19, <1>20, ReturnSound

LEMMA SelectiveSound ==
    ASSUME NEW p, NEW s, AtWork(p, s, "selectiveReactivation"), NEW r \in SelectiveReactivation(s)
    PROVE  FixSound(r)
<1>1. /\ RunShape(s) /\ Plan(s) /\ s.book \in Playbooks \cup {"none"}
      /\ "selectiveReactivation" \in MethodsOf(s.book)
  BY AtWorkHas
<1>2. s.book = "deactivation"
  BY <1>1, BookOf
<1> DEFINE ended(t) == Return(WithFullRestore(t), TRUE, t.changed)
           essential == CHOOSE q \in Essential : TRUE
<1>3. r \in {ended(s), ended(Changed(s))} \cup {ended(c.run) : c \in Deactivated(s, essential)}
  BY DEF SelectiveReactivation
<1>4. essential \in Essential /\ essential \in Marks
  BY GroupsAre DEF Marks
<1> HIDE DEF ended, essential
<1>5. PICK q : r = ended(q) /\ (q = s \/ q = Changed(s) \/ \E c \in Deactivated(s, essential) : q = c.run)
  BY <1>3
<1>6. CASE q = s
  BY <1>1, <1>2, <1>5, <1>6, FullRestoreSound DEF ended
<1>7. CASE q = Changed(s)
  <2>1. RunShape(q) /\ Plan(q) /\ q.book = "deactivation"
    BY <1>1, <1>2, <1>7, ChangedGoes DEF Goes
  <2> QED
    BY <1>5, <2>1, FullRestoreSound DEF ended
<1>8. ASSUME NEW c \in Deactivated(s, essential), q = c.run
      PROVE  FixSound(r)
  <2>1. /\ RunShape(q) /\ Touched(s, q, "active_plugins")
        /\ c.ok => q.site["active_plugins"] = s.site["active_plugins"] \cup {essential}
        /\ ~c.ok => Goes(s, q)
    BY <1>1, <1>2, <1>4, <1>8, DeactivatedShape
  <2>2. /\ q.before = s.before /\ q.books = s.books /\ q.book = s.book /\ q.steps = s.steps
        /\ s.unknown \subseteq q.unknown
        /\ \A u \in Targets \ {"active_plugins"} : q.site[u] = s.site[u]
    BY <2>1 DEF Touched, Fields
  <2>3. Plan(q)
    <3>1. CASE ~c.ok
      BY <2>1, <3>1 DEF Goes
    <3>2. CASE c.ok
      <4>1. \A t : /\ Excused(s, t) => Excused(q, t)
                   /\ Restores(q, t) <=> Restores(s, t)
                   /\ Twice(q, t) <=> Twice(s, t)
                   /\ Reactivates(q, t) <=> Reactivates(s, t)
        BY <2>2 DEF Excused, Restores, Twice, Reactivates
      <4>2. FilesPlanned(q)
        BY <1>1, <2>2, <4>1, FilesAre DEF Plan, FilesPlanned, Covered
      <4>3. PluginsPlanned(q)
        BY <1>1, <1>2, <1>4, <2>1, <2>2, <3>2, <4>1 DEF Plan, PluginsPlanned
      <4>4. CopiesTrue(q)
        BY <1>1, <2>2, <4>1 DEF Plan, CopiesTrue
      <4>5. OrdersFixed(q) /\ Alone(q)
        BY <1>1, <1>2, <2>2 DEF Plan, OrdersFixed, Alone, Tier3Books
      <4> QED
        BY <4>2, <4>3, <4>4, <4>5 DEF Plan
    <3> QED
      BY <3>1, <3>2
  <2> QED
    BY <1>2, <1>5, <2>1, <2>2, <2>3, FullRestoreSound DEF ended
<1> QED
  BY <1>5, <1>6, <1>7, <1>8

LEMMA DeactivationApplySound ==
    ASSUME NEW s, Starts(s), s.book = "deactivation", NEW r \in DeactivationApply(s)
    PROVE  FixSound(r)
<1> DEFINE ms == <<"deactivatePluginsByPriority", "selectiveReactivation">>
           deactivate(b) ==
             IF b.ok THEN [b.run EXCEPT !.facts = Plugins \ Essential, !.todo = ms] ELSE Caught(b.run)
<1>1. r \in UNION {IF p.answer = {} THEN {Return(p.run, TRUE, FALSE)}
                   ELSE {deactivate(b) : b \in CreateComprehensivePluginBackup(p.run)} :
                      p \in GetActivePlugins(s)}
  BY DEF DeactivationApply
<1>2. \A b : deactivate(b) = Caught(b.run)
               \/ deactivate(b) = [b.run EXCEPT !.facts = Plugins \ Essential, !.todo = ms]
  OBVIOUS
<1> HIDE DEF deactivate
<1>3. PICK p \in GetActivePlugins(s) :
        r \in IF p.answer = {} THEN {Return(p.run, TRUE, FALSE)}
              ELSE {deactivate(b) : b \in CreateComprehensivePluginBackup(p.run)}
  BY <1>1
<1>4. PICK u : u = p.run
  OBVIOUS
<1>5. Like(s, u)
  BY <1>4, AskedLike DEF GetActivePlugins, Starts
<1>6. Starts(u) /\ u.book = "deactivation"
  BY <1>5, LikeStarts
<1>7. CASE r = Return(u, TRUE, FALSE)
  BY <1>6, <1>7, StartsReturn
<1>8. ASSUME NEW b \in CreateComprehensivePluginBackup(u), r = deactivate(b)
      PROVE  FixSound(r)
  <2>1. Like(u, b.run)
    BY <1>6, <1>8, ScriptLike DEF CreateComprehensivePluginBackup, Starts
  <2>2. PICK w : w = b.run
    OBVIOUS
  <2>3. Starts(w) /\ w.book = "deactivation"
    BY <1>6, <2>1, <2>2, LikeStarts
  <2>4. CASE r = Caught(w)
    BY <2>3, <2>4, StartsCaught
  <2>5. CASE r = [w EXCEPT !.facts = Plugins \ Essential, !.todo = ms]
    <3>1. /\ DOMAIN r = Fields /\ r.todo = ms /\ r.facts = Plugins \ Essential
          /\ \A x \in Fields \ {"todo", "facts"} : r[x] = w[x]
      BY <2>3, <2>5 DEF Starts, RunShape, Fields
    <3>2. r.book = "deactivation" /\ r.steps = <<>>
      BY <2>3, <3>1 DEF Starts, Fields
    <3>3. /\ ms \in Seq({"deactivatePluginsByPriority", "selectiveReactivation"}) /\ ms # <<>>
          /\ Len(ms) = 2 /\ ms[2] = "selectiveReactivation" /\ Head(ms) = "deactivatePluginsByPriority"
          /\ \A k \in DOMAIN ms : k > 1 => ms[k] = "selectiveReactivation"
      OBVIOUS
    <3> HIDE DEF ms
    <3>4. MethodsOf("deactivation") = {"deactivatePluginsByPriority", "selectiveReactivation"}
            /\ "selectiveReactivation" \in Enders
      BY DEF MethodsOf, Enders
    <3>5. TodoFine(r)
      BY <3>1, <3>2, <3>3, <3>4 DEF TodoFine
    <3>6. Len(r.steps) = 0 /\ Cardinality(r.facts) \in 0..4
      BY <3>1, <3>2, SmallSets, GroupsAre
    <3>7. Stage(r, "deactivatePluginsByPriority")
      <4>1. r.facts \subseteq Plugins \ Essential /\ Len(r.steps) + Cardinality(r.facts) <= 4
        BY <3>1, <3>6
      <4> QED
        BY <4>1 DEF Stage
    <3> QED
      BY <2>3, <3>1, <3>3, <3>5, <3>7, StartsGoto
  <2> QED
    BY <1>2, <1>8, <2>2, <2>4, <2>5
<1> QED
  BY <1>3, <1>4, <1>7, <1>8
-----------------------------------------------------------------------------
(* Themes.                                                                  *)
LEMMA ThemeSwitchSound ==
    ASSUME NEW s, Starts(s), s.book = "themeswitch", NEW r \in ThemeSwitchApply(s)
    PROVE  FixSound(r)
<1> DEFINE switch(available, b) ==
             IF b.ok THEN [AddStep(b.run, "theme", b.run.site["theme"], 1)
                              EXCEPT !.facts = available, !.todo = <<"switchToTheme">>]
             ELSE Caught(b.run)
           offered(theme, a) ==
             CASE a.answer = {} -> {Return(a.run, FALSE, FALSE)}
               [] a.answer # {} /\ theme = "default" -> {Return(a.run, TRUE, FALSE)}
               [] OTHER -> {switch(a.answer, b) : b \in BackupThemeConfiguration(a.run)}
<1>1. r \in UNION {IF c.answer = "no name" THEN {Return(c.run, FALSE, FALSE)}
                   ELSE UNION {offered(c.answer, a) : a \in GetAvailableDefaultThemes(c.run)} :
                      c \in GetCurrentTheme(s)}
  BY DEF ThemeSwitchApply
<1>2. \A found, b : \/ switch(found, b) = Caught(b.run)
                    \/ switch(found, b) = [AddStep(b.run, "theme", b.run.site["theme"], 1)
                              EXCEPT !.facts = found, !.todo = <<"switchToTheme">>]
  OBVIOUS
<1> HIDE DEF switch
<1>3. \A theme, a : \A q \in offered(theme, a) :
        \/ q = Return(a.run, FALSE, FALSE) \/ q = Return(a.run, TRUE, FALSE)
        \/ \E b \in BackupThemeConfiguration(a.run) : q = switch(a.answer, b)
  OBVIOUS
<1> HIDE DEF offered
<1>4. PICK c \in GetCurrentTheme(s) :
        r \in IF c.answer = "no name" THEN {Return(c.run, FALSE, FALSE)}
              ELSE UNION {offered(c.answer, a) : a \in GetAvailableDefaultThemes(c.run)}
  BY <1>1
<1>5. r = Return(c.run, FALSE, FALSE) \/ \E a \in GetAvailableDefaultThemes(c.run) : r \in offered(c.answer, a)
  BY <1>4
<1>6. PICK u : u = c.run
  OBVIOUS
<1>7. Like(s, u)
  BY <1>6, AskedLike DEF GetCurrentTheme, Starts
<1>8. Starts(u) /\ u.book = "themeswitch"
  BY <1>7, LikeStarts
<1>9. CASE r = Return(u, FALSE, FALSE)
  BY <1>8, <1>9, StartsReturn
<1>10. ASSUME NEW a \in GetAvailableDefaultThemes(u), r \in offered(c.answer, a)
       PROVE  FixSound(r)
  <2>1. Like(u, a.run)
    BY <1>8, <1>10, AskedLike DEF GetAvailableDefaultThemes, Starts
  <2>2. PICK v : v = a.run
    OBVIOUS
  <2>3. Starts(v) /\ v.book = "themeswitch"
    BY <1>8, <2>1, <2>2, LikeStarts
  <2>4. CASE r = Return(v, FALSE, FALSE) \/ r = Return(v, TRUE, FALSE)
    BY <2>3, <2>4, StartsReturn
  <2>5. ASSUME NEW b \in BackupThemeConfiguration(v), r = switch(a.answer, b)
        PROVE  FixSound(r)
    <3>1. PICK k \in Script(v) :
            \/ k.ok /\ b = Ran(v, Put(k.run, "theme backups", {"stylesheet"}))
            \/ ~k.ok /\ b = k
      BY <2>5 DEF BackupThemeConfiguration
    <3>2. PICK l : l = k.run
      OBVIOUS
    <3>3. Like(v, l)
      BY <2>3, <3>1, <3>2, ScriptLike DEF Starts
    <3>4. Starts(l) /\ l.book = "themeswitch"
      BY <2>3, <3>3, LikeStarts
    <3>5. PICK w : w = b.run
      OBVIOUS
    <3>6. Starts(w) /\ w.book = "themeswitch"
      <4>1. CASE b = k
        BY <3>2, <3>4, <3>5, <4>1
      <4>2. CASE b = Ran(v, Put(k.run, "theme backups", {"stylesheet"}))
        <5>1. w = Put(l, "theme backups", {"stylesheet"})
          BY <3>2, <3>5, <4>2 DEF Ran
        <5>2. "theme backups" \in Targets /\ "theme backups" \notin Restorable
          BY DEF Targets, Restorable, CoreFiles
        <5>3. {"stylesheet"} \in Contents
          BY DEF Contents, Marks
        <5>4. Touched(l, w, "theme backups")
          BY <3>4, <5>1, <5>2, <5>3, PutShape DEF Starts
        <5>5. "theme backups" # "active_plugins"
          OBVIOUS
        <5>6. Goes(l, w)
          BY <3>4, <5>2, <5>4, <5>5, TouchedGoes DEF Starts
        <5>7. w.steps = l.steps /\ \A t \in Restorable : w.site[t] = l.site[t]
          BY <5>2, <5>4, FilesAre DEF Touched, Fields
        <5> QED
          BY <3>4, <5>6, <5>7 DEF Starts, Goes, Untouched
      <4> QED
        BY <3>1, <4>1, <4>2
    <3>7. CASE r = Caught(w)
      BY <3>6, <3>7, StartsCaught
    <3>8. PICK content : content = w.site["theme"]
      OBVIOUS
    <3>9. PICK q : q = AddStep(w, "theme", content, 1)
      OBVIOUS
    <3>10. CASE r = [q EXCEPT !.facts = a.answer, !.todo = <<"switchToTheme">>]
      <4>1. RunShape(w) /\ Plan(w) /\ "theme" \in Files /\ w.site["theme"] = w.before["theme"]
        BY <3>6, CoreFilesAre DEF Starts, Untouched
      <4>2. Goes(w, q) /\ Covered(q, "theme") /\ q.site = w.site
        BY <3>6, <3>8, <3>9, <4>1, AddStepGoes
      <4>3. /\ RunShape(q) /\ Plan(q) /\ q.phase = "running" /\ q.book = "themeswitch"
            /\ q.verdict \in {"none", "success", "failure"} /\ q.before = w.before
        BY <3>6, <4>2 DEF Goes, Starts
      <4>4. Untouched(q)
        BY <3>6, <4>2, <4>3 DEF Starts, Untouched
      <4>5. /\ DOMAIN r = Fields /\ r.todo = <<"switchToTheme">>
            /\ \A x \in Fields \ {"todo", "facts"} : r[x] = q[x]
        BY <3>10, <4>3 DEF RunShape, Fields
      <4>6. r.book = "themeswitch" /\ r.site = q.site /\ r.before = q.before
        BY <4>3, <4>5 DEF Fields
      <4>7. "switchToTheme" \in MethodsOf("themeswitch") /\ "switchToTheme" \in Enders
        BY DEF MethodsOf, Enders
      <4>8. TodoFine(r) /\ Head(r.todo) = "switchToTheme"
        BY <4>5, <4>6, <4>7, OneTodo
      <4>9. Covered(r, "theme")
        BY <4>2, <4>3, <4>5, TodoSound
      <4>10. Untouched(r)
        BY <4>4, <4>6 DEF Untouched
      <4>11. Stage(r, "switchToTheme")
        BY <4>9, <4>10 DEF Stage
      <4> QED
        BY <4>3, <4>5, <4>8, <4>11, TodoSound DEF Running
    <3> QED
      BY <1>2, <2>5, <3>5, <3>7, <3>8, <3>9, <3>10
  <2> QED
    BY <1>3, <1>10, <2>2, <2>4, <2>5
<1> QED
  BY <1>5, <1>6, <1>9, <1>10

LEMMA ThemeRollbackSound ==
    ASSUME NEW s, Starts(s), s.book = "themerollback", NEW r \in ThemeRollbackApply(s)
    PROVE  FixSound(r)
<1> DEFINE byDefault(a) == IF a.answer = {} THEN Return(a.run, FALSE, FALSE)
                           ELSE Goto(a.run, <<"rollbackToDefaultTheme">>)
           byBackup(b) == IF b.ok THEN Goto(AddCommand(b.run, "nothing", "theme", {}, 1),
                                            <<"restoreThemeFromBackup">>)
                          ELSE Caught(b.run)
           found(k) == IF k.answer THEN {byBackup(b) : b \in Look(k.run)}
                       ELSE {byDefault(a) : a \in GetAvailableDefaultThemes(k.run)}
<1>1. r \in UNION {IF c.answer THEN UNION {found(k) : k \in FindAvailableThemeBackups(c.run)}
                   ELSE {Return(c.run, FALSE, FALSE)} : c \in GetCurrentThemeConfiguration(s)}
  BY DEF ThemeRollbackApply
<1>2. \A a : byDefault(a) = Return(a.run, FALSE, FALSE)
               \/ byDefault(a) = Goto(a.run, <<"rollbackToDefaultTheme">>)
  OBVIOUS
<1>3. \A b : \/ byBackup(b) = Caught(b.run)
             \/ byBackup(b) = Goto(AddCommand(b.run, "nothing", "theme", {}, 1), <<"restoreThemeFromBackup">>)
  OBVIOUS
<1> HIDE DEF byDefault, byBackup
<1>4. \A k : \A q \in found(k) :
        \/ \E b \in Look(k.run) : q = byBackup(b)
        \/ \E a \in GetAvailableDefaultThemes(k.run) : q = byDefault(a)
  OBVIOUS
<1> HIDE DEF found
<1>5. PICK c \in GetCurrentThemeConfiguration(s) :
        r \in IF c.answer THEN UNION {found(k) : k \in FindAvailableThemeBackups(c.run)}
              ELSE {Return(c.run, FALSE, FALSE)}
  BY <1>1
<1>6. r = Return(c.run, FALSE, FALSE) \/ \E k \in FindAvailableThemeBackups(c.run) : r \in found(k)
  BY <1>5
<1>7. PICK u : u = c.run
  OBVIOUS
<1>8. Like(s, u)
  BY <1>7, AskedLike DEF GetCurrentThemeConfiguration, Starts
<1>9. Starts(u) /\ u.book = "themerollback"
  BY <1>8, LikeStarts
<1>10. CASE r = Return(u, FALSE, FALSE)
  BY <1>9, <1>10, StartsReturn
<1>11. ASSUME NEW k \in FindAvailableThemeBackups(u), r \in found(k)
       PROVE  FixSound(r)
  <2>1. Like(u, k.run)
    BY <1>9, <1>11, AskedLike DEF FindAvailableThemeBackups, Starts
  <2>2. PICK v : v = k.run
    OBVIOUS
  <2>3. Starts(v) /\ v.book = "themerollback"
    BY <1>9, <2>1, <2>2, LikeStarts
  <2>4. ASSUME NEW b \in Look(v), r = byBackup(b)
        PROVE  FixSound(r)
    <3>1. Like(v, b.run)
      BY <2>3, <2>4, LookLike DEF Starts
    <3>2. PICK w : w = b.run
      OBVIOUS
    <3>3. Starts(w) /\ w.book = "themerollback"
      BY <2>3, <3>1, <3>2, LikeStarts
    <3>4. CASE r = Caught(w)
      BY <3>3, <3>4, StartsCaught
    <3>5. PICK q : q = AddCommand(w, "nothing", "theme", {}, 1)
      OBVIOUS
    <3>6. CASE r = Goto(q, <<"restoreThemeFromBackup">>)
      <4>1. w.book \in Tier3Books /\ "theme" \in Targets
        BY <3>3, CoreFilesAre, FilesAre DEF Tier3Books
      <4>2. /\ RunShape(q) /\ Plan(q) /\ Untouched(q)
            /\ \A x \in Fields \ {"steps"} : q[x] = w[x]
        BY <3>3, <3>5, <4>1, NothingStarts
      <4>3. q.book = "themerollback" /\ q.phase = "running" /\ q.verdict \in {"none", "success", "failure"}
        BY <3>3, <4>2 DEF Fields, Starts
      <4>4. /\ DOMAIN r = Fields /\ r.todo = <<"restoreThemeFromBackup">>
            /\ \A x \in Fields \ {"todo", "facts"} : r[x] = q[x]
        BY <3>6, <4>2, GotoShape
      <4>5. r.book = "themerollback" /\ r.site = q.site /\ r.before = q.before
        BY <4>3, <4>4 DEF Fields
      <4>6. "restoreThemeFromBackup" \in MethodsOf("themerollback")
              /\ "restoreThemeFromBackup" \in Enders
        BY DEF MethodsOf, Enders
      <4>7. TodoFine(r) /\ Head(r.todo) = "restoreThemeFromBackup"
        BY <4>4, <4>5, <4>6, OneTodo
      <4>8. Untouched(r)
        BY <4>2, <4>5 DEF Untouched
      <4>9. Stage(r, "restoreThemeFromBackup")
        BY <4>8 DEF Stage
      <4> QED
        BY <4>2, <4>3, <4>4, <4>7, <4>9, TodoSound DEF Running
    <3> QED
      BY <1>3, <2>4, <3>2, <3>4, <3>5, <3>6
  <2>5. ASSUME NEW a \in GetAvailableDefaultThemes(v), r = byDefault(a)
        PROVE  FixSound(r)
    <3>1. Like(v, a.run)
      BY <2>3, <2>5, AskedLike DEF GetAvailableDefaultThemes, Starts
    <3>2. PICK w : w = a.run
      OBVIOUS
    <3>3. Starts(w) /\ w.book = "themerollback"
      BY <2>3, <3>1, <3>2, LikeStarts
    <3>4. CASE r = Return(w, FALSE, FALSE)
      BY <3>3, <3>4, StartsReturn
    <3>5. CASE r = Goto(w, <<"rollbackToDefaultTheme">>)
      <4>1. /\ DOMAIN r = Fields /\ r.todo = <<"rollbackToDefaultTheme">>
            /\ \A x \in Fields \ {"todo", "facts"} : r[x] = w[x]
        BY <3>3, <3>5, GotoShape DEF Starts
      <4>2. r.book = "themerollback" /\ r.steps = <<>>
        BY <3>3, <4>1 DEF Fields, Starts
      <4>3. "rollbackToDefaultTheme" \in MethodsOf("themerollback")
              /\ "rollbackToDefaultTheme" \in Enders
        BY DEF MethodsOf, Enders
      <4>4. TodoFine(r) /\ Head(r.todo) = "rollbackToDefaultTheme"
        BY <4>1, <4>2, <4>3, OneTodo
      <4>5. Stage(r, "rollbackToDefaultTheme")
        BY <4>2 DEF Stage
      <4> QED
        BY <3>3, <4>1, <4>4, <4>5, StartsGoto
    <3> QED
      BY <1>2, <2>5, <3>2, <3>4, <3>5
  <2> QED
    BY <1>4, <1>11, <2>2, <2>4, <2>5
<1> QED
  BY <1>6, <1>7, <1>10, <1>11

LEMMA ThemeTouched ==
    ASSUME NEW s, RunShape(s), Plan(s), s.book \in {"themeswitch", "themerollback"},
           Covered(s, "theme") \/ (s.book = "themerollback" /\ s.steps = <<>>),
           NEW content \in {{"twentyone"}, {"twentytwo"}}, NEW c \in Command(s, "theme", content)
    PROVE  /\ c.ok \in BOOLEAN /\ Goes(s, c.run)
           /\ Covered(s, "theme") => Covered(c.run, "theme")
           /\ ~c.ok => /\ \A t \in Restorable \ {"theme"} : c.run.site[t] = s.site[t]
                       /\ c.run.site["theme"] = s.site["theme"] \/ Excused(c.run, "theme")
<1>1. "theme" \in Files /\ "theme" \in Targets /\ "theme" # "active_plugins"
        /\ Restorable \subseteq Targets
  BY CoreFilesAre, FilesAre
<1>2. content \in Contents
  BY DEF Contents, Marks
<1>3. Worked(s, c, "theme", content)
  BY <1>1, <1>2, CommandWorks
<1>4. c.ok \in BOOLEAN /\ Touched(s, c.run, "theme")
  BY <1>3 DEF Worked
<1>5. Goes(s, c.run)
  BY <1>1, <1>4, TouchedGoes
<1>6. Covered(s, "theme") => Covered(c.run, "theme")
  BY <1>1, <1>5 DEF Goes
<1>7. \A t \in Restorable \ {"theme"} : c.run.site[t] = s.site[t]
  BY <1>1, <1>4 DEF Touched
<1>8. ~c.ok => c.run.site["theme"] = s.site["theme"] \/ Excused(c.run, "theme")
  BY <1>3 DEF Worked, Excused
<1> QED
  BY <1>4, <1>5, <1>6, <1>7, <1>8

LEMMA SwitchSound ==
    ASSUME NEW p, NEW s, AtWork(p, s, "switchToTheme"), NEW r \in SwitchToTheme(s)
    PROVE  FixSound(r)
<1>1. /\ RunShape(s) /\ Plan(s) /\ s.book \in Playbooks \cup {"none"} /\ s.book \in Playbooks
      /\ "switchToTheme" \in MethodsOf(s.book) /\ Stage(s, "switchToTheme")
      /\ s.phase = "running" /\ s.verdict \in {"none", "success", "failure"}
  BY AtWorkHas
<1>2. s.book = "themeswitch"
  BY <1>1, BookOf
<1>3. Untouched(s) /\ Covered(s, "theme")
  BY <1>1 DEF Stage
<1> DEFINE tested(t) == IF t.answer \/ s.facts # DefaultThemes THEN Return(t.run, TRUE, TRUE)
                        ELSE Goto(t.run, <<"switchToAlternative">>)
<1>4. r \in UNION {IF c.ok THEN {tested(t) : t \in TestSiteAfterThemeSwitch(c.run)}
                   ELSE {Caught(c.run)} : c \in Command(s, "theme", {"twentytwo"})}
  BY DEF SwitchToTheme
<1>5. \A t : tested(t) = Return(t.run, TRUE, TRUE) \/ tested(t) = Goto(t.run, <<"switchToAlternative">>)
  OBVIOUS
<1> HIDE DEF tested
<1>6. PICK c \in Command(s, "theme", {"twentytwo"}) :
        r \in IF c.ok THEN {tested(t) : t \in TestSiteAfterThemeSwitch(c.run)} ELSE {Caught(c.run)}
  BY <1>4
<1>7. /\ c.ok \in BOOLEAN /\ Goes(s, c.run) /\ Covered(c.run, "theme")
      /\ ~c.ok => /\ \A t \in Restorable \ {"theme"} : c.run.site[t] = s.site[t]
                  /\ c.run.site["theme"] = s.site["theme"] \/ Excused(c.run, "theme")
  BY <1>1, <1>2, <1>3, ThemeTouched
<1>8. PICK u : u = c.run
  OBVIOUS
<1>9. /\ RunShape(u) /\ Plan(u) /\ u.book = "themeswitch" /\ u.phase = "running"
      /\ u.verdict \in {"none", "success", "failure"} /\ u.before = s.before
      /\ Covered(u, "theme") /\ u.book \in Playbooks
  BY <1>1, <1>2, <1>7, <1>8 DEF Goes
<1>10. CASE ~c.ok
  <2>1. r = Caught(u)
    BY <1>6, <1>8, <1>10
  <2>2. \A t \in Restorable : u.site[t] = u.before[t] \/ Excused(u, t)
    BY <1>3, <1>7, <1>8, <1>9, <1>10 DEF Untouched
  <2> QED
    BY <1>9, <2>1, <2>2, CaughtSound
<1>11. ASSUME NEW t \in TestSiteAfterThemeSwitch(u), r = tested(t)
       PROVE  FixSound(r)
  <2>1. Like(u, t.run)
    BY <1>9, <1>11, AskedLike DEF TestSiteAfterThemeSwitch
  <2>2. PICK w : w = t.run
    OBVIOUS
  <2>3. Goes(u, w)
    BY <1>9, <2>1, <2>2, LikeGoes
  <2>4. /\ RunShape(w) /\ Plan(w) /\ w.book = "themeswitch" /\ w.phase = "running"
        /\ w.verdict \in {"none", "success", "failure"} /\ Covered(w, "theme") /\ w.book \in Playbooks
    BY <1>9, <2>3, CoreFilesAre, FilesAre DEF Goes
  <2>5. CASE r = Return(w, TRUE, TRUE)
    BY <2>4, <2>5, ReturnSound DEF Returned
  <2>6. CASE r = Goto(w, <<"switchToAlternative">>)
    <3>1. /\ DOMAIN r = Fields /\ r.todo = <<"switchToAlternative">>
          /\ \A x \in Fields \ {"todo", "facts"} : r[x] = w[x]
      BY <2>4, <2>6, GotoShape
    <3>2. r.book = "themeswitch"
      BY <2>4, <3>1 DEF Fields
    <3>3. "switchToAlternative" \in MethodsOf("themeswitch") /\ "switchToAlternative" \in Enders
      BY DEF MethodsOf, Enders
    <3>4. TodoFine(r) /\ Head(r.todo) = "switchToAlternative"
      BY <3>1, <3>2, <3>3, OneTodo
    <3>5. Covered(r, "theme")
      BY <2>4, <3>1, TodoSound
    <3>6. Stage(r, "switchToAlternative")
      BY <3>5 DEF Stage
    <3> QED
      BY <2>4, <3>1, <3>4, <3>6, TodoSound DEF Running
  <2> QED
    BY <1>5, <1>11, <2>2, <2>5, <2>6
<1> QED
  BY <1>6, <1>7, <1>8, <1>10, <1>11

LEMMA AlternativeSound ==
    ASSUME NEW p, NEW s, AtWork(p, s, "switchToAlternative"), NEW r \in SwitchToAlternative(s)
    PROVE  FixSound(r)
<1>1. /\ RunShape(s) /\ Plan(s) /\ s.book \in Playbooks \cup {"none"} /\ s.book \in Playbooks
      /\ "switchToAlternative" \in MethodsOf(s.book) /\ Stage(s, "switchToAlternative")
  BY AtWorkHas
<1>2. s.book = "themeswitch"
  BY <1>1, BookOf
<1>3. Covered(s, "theme")
  BY <1>1 DEF Stage
<1>4. PICK c \in Command(s, "theme", {"twentyone"}) : r = Return(c.run, TRUE, TRUE)
  BY DEF SwitchToAlternative
<1>5. Goes(s, c.run)
  BY <1>1, <1>2, <1>3, ThemeTouched
<1>6. PICK u : u = c.run
  OBVIOUS
<1>7. RunShape(u) /\ Plan(u) /\ u.book = "themeswitch" /\ u.book \in Playbooks
  BY <1>1, <1>2, <1>5, <1>6 DEF Goes
<1> QED
  BY <1>4, <1>6, <1>7, ReturnSound DEF Returned

LEMMA FromBackupSound ==
    ASSUME NEW p, NEW s, AtWork(p, s, "restoreThemeFromBackup"), NEW r \in RestoreThemeFromBackup(s)
    PROVE  FixSound(r)
<1>1. /\ RunShape(s) /\ Plan(s) /\ s.book \in Playbooks \cup {"none"} /\ s.book \in Playbooks
      /\ "restoreThemeFromBackup" \in MethodsOf(s.book) /\ Stage(s, "restoreThemeFromBackup")
  BY AtWorkHas
<1>2. s.book = "themerollback"
  BY <1>1, BookOf
<1>3. Untouched(s)
  BY <1>1 DEF Stage
<1>4. PICK c \in Script(s) : r = Return(c.run, TRUE, TRUE) \/ r = Caught(c.run)
  BY DEF RestoreThemeFromBackup
<1>5. Like(s, c.run)
  BY <1>1, ScriptLike
<1>6. PICK u : u = c.run
  OBVIOUS
<1>7. Goes(s, u) /\ u.site = s.site
  BY <1>1, <1>5, <1>6, LikeGoes DEF Like, Fields
<1>8. RunShape(u) /\ Plan(u) /\ u.book = "themerollback" /\ u.book \in Playbooks
  BY <1>1, <1>2, <1>7 DEF Goes
<1>9. \A t \in Restorable : u.site[t] = u.before[t] \/ Excused(u, t)
  BY <1>3, <1>7 DEF Untouched, Goes
<1>10. CASE r = Return(u, TRUE, TRUE)
  BY <1>8, <1>10, ReturnSound DEF Returned
<1>11. CASE r = Caught(u)
  BY <1>8, <1>9, <1>11, CaughtSound
<1> QED
  BY <1>4, <1>6, <1>10, <1>11

LEMMA ToDefaultSound ==
    ASSUME NEW p, NEW s, AtWork(p, s, "rollbackToDefaultTheme"), NEW r \in RollbackToDefaultTheme(s)
    PROVE  FixSound(r)
<1>1. /\ RunShape(s) /\ Plan(s) /\ s.book \in Playbooks \cup {"none"} /\ s.book \in Playbooks
      /\ "rollbackToDefaultTheme" \in MethodsOf(s.book) /\ Stage(s, "rollbackToDefaultTheme")
  BY AtWorkHas
<1>2. s.book = "themerollback"
  BY <1>1, BookOf
<1>3. s.steps = <<>>
  BY <1>1 DEF Stage
<1>4. PICK c \in Command(s, "theme", {"twentytwo"}) :
        r = Return(c.run, TRUE, TRUE) \/ r = Return(c.run, FALSE, FALSE)
  BY DEF RollbackToDefaultTheme
<1>5. Goes(s, c.run)
  BY <1>1, <1>2, <1>3, ThemeTouched
<1>6. PICK u : u = c.run
  OBVIOUS
<1>7. RunShape(u) /\ Plan(u) /\ u.book = "themerollback" /\ u.book \in Playbooks
  BY <1>1, <1>2, <1>5, <1>6 DEF Goes
<1> QED
  BY <1>4, <1>6, <1>7, ReturnSound DEF Returned

(* Which loop or method is whose.                                           *)
LEMMA Tier3ApplySound ==
    ASSUME NEW s, Starts(s), s.book \in Tier3Books, NEW r \in Tier3Apply(s)
    PROVE  FixSound(r)
<1>1. CASE s.book = "conflict"
  BY <1>1, ConflictApplySound DEF Tier3Apply
<1>2. CASE s.book = "deactivation"
  BY <1>2, DeactivationApplySound DEF Tier3Apply
<1>3. CASE s.book = "themeswitch"
  BY <1>3, ThemeSwitchSound DEF Tier3Apply
<1>4. CASE s.book = "themerollback"
  BY <1>4, ThemeRollbackSound DEF Tier3Apply
<1> QED
  BY <1>1, <1>2, <1>3, <1>4 DEF Tier3Books

LEMMA Tier2ApplySound ==
    ASSUME NEW s, Starts(s), s.book \in {"wpconfig", "core", "tables"}, NEW r \in Tier2Apply(s)
    PROVE  FixSound(r)
<1>1. CASE s.book = "wpconfig"
  BY <1>1, ConfigApplySound DEF Tier2Apply
<1>2. CASE s.book = "core"
  BY <1>2, CoreApplySound DEF Tier2Apply
<1>3. CASE s.book = "tables"
  BY <1>3, TablesApplySound DEF Tier2Apply
<1> QED
  BY <1>1, <1>2, <1>3

-----------------------------------------------------------------------------
(* The playbooks of the tiers.                                              *)
Tier1Books == {"database", "disk", "memory", "errorlog", "webserver"}
Tier2Books == {"wpconfig", "core", "tables"}

LEMMA ThreeTiers ==
    /\ \A b : (\E i \in DOMAIN PlaybooksForTier[1] : PlaybooksForTier[1][i] = b) <=> b \in Tier1Books
    /\ \A b : (\E i \in DOMAIN PlaybooksForTier[2] : PlaybooksForTier[2][i] = b) <=> b \in Tier2Books
    /\ \A b : (\E i \in DOMAIN PlaybooksForTier[3] : PlaybooksForTier[3][i] = b) <=> b \in Tier3Books
    /\ PlaybooksForTier[1] \in Seq(Tier1Books) /\ PlaybooksForTier[2] \in Seq(Tier2Books)
    /\ PlaybooksForTier[3] \in Seq(Tier3Books)
<1>1. PICK t1, t2, t3 :
        /\ t1 = <<"database", "disk", "memory", "errorlog", "webserver">>
        /\ t2 = <<"wpconfig", "core", "tables">>
        /\ t3 = <<"conflict", "deactivation", "themeswitch", "themerollback">>
  OBVIOUS
<1>2. PlaybooksForTier[1] = t1 /\ PlaybooksForTier[2] = t2 /\ PlaybooksForTier[3] = t3
  BY <1>1 DEF PlaybooksForTier
<1>3. /\ DOMAIN t1 = {1, 2, 3, 4, 5} /\ t1[1] = "database" /\ t1[2] = "disk" /\ t1[3] = "memory"
      /\ t1[4] = "errorlog" /\ t1[5] = "webserver"
  BY <1>1
<1>4. DOMAIN t2 = {1, 2, 3} /\ t2[1] = "wpconfig" /\ t2[2] = "core" /\ t2[3] = "tables"
  BY <1>1
<1>5. /\ DOMAIN t3 = {1, 2, 3, 4} /\ t3[1] = "conflict" /\ t3[2] = "deactivation"
      /\ t3[3] = "themeswitch" /\ t3[4] = "themerollback"
  BY <1>1
<1>6. \A b : (\E i \in DOMAIN t1 : t1[i] = b) <=> b \in Tier1Books
  BY <1>3 DEF Tier1Books
<1>7. \A b : (\E i \in DOMAIN t2 : t2[i] = b) <=> b \in Tier2Books
  BY <1>4 DEF Tier2Books
<1>8. \A b : (\E i \in DOMAIN t3 : t3[i] = b) <=> b \in Tier3Books
  BY <1>5 DEF Tier3Books
<1>9. t1 \in Seq(Tier1Books) /\ t2 \in Seq(Tier2Books) /\ t3 \in Seq(Tier3Books)
  BY <1>1 DEF Tier1Books, Tier2Books, Tier3Books
<1> QED
  BY <1>2, <1>6, <1>7, <1>8, <1>9

LEMMA PlaybooksAre ==
    Playbooks = Tier1Books \cup Tier2Books \cup Tier3Books
<1>1. Playbooks = {PlaybooksForTier[1][i] : i \in DOMAIN PlaybooksForTier[1]}
                    \cup {PlaybooksForTier[2][i] : i \in DOMAIN PlaybooksForTier[2]}
                    \cup {PlaybooksForTier[3][i] : i \in DOMAIN PlaybooksForTier[3]}
  <2> DEFINE books(n) == {PlaybooksForTier[n][i] : i \in DOMAIN PlaybooksForTier[n]}
  <2>1. Playbooks = UNION {books(n) : n \in 1..3}
    BY DEF Playbooks
  <2>2. 1..3 = {1, 2, 3}
    OBVIOUS
  <2> HIDE DEF books
  <2>3. UNION {books(n) : n \in {1, 2, 3}} = books(1) \cup books(2) \cup books(3)
    OBVIOUS
  <2> QED
    BY <2>1, <2>2, <2>3 DEF books
<1>2. /\ {PlaybooksForTier[1][i] : i \in DOMAIN PlaybooksForTier[1]} = Tier1Books
      /\ {PlaybooksForTier[2][i] : i \in DOMAIN PlaybooksForTier[2]} = Tier2Books
      /\ {PlaybooksForTier[3][i] : i \in DOMAIN PlaybooksForTier[3]} = Tier3Books
  BY ThreeTiers
<1> QED
  BY <1>1, <1>2

LEMMA TiersAre ==
    /\ \A b \in Tier1Books : TierOf(b) = 1
    /\ \A b \in Tier2Books : TierOf(b) = 2
    /\ \A b \in Tier3Books : TierOf(b) = 3
    /\ Tier1Books \cap Tier3Books = {} /\ Tier2Books \cap Tier3Books = {}
<1>1. /\ Tier1Books \cap Tier3Books = {} /\ Tier2Books \cap Tier3Books = {}
      /\ Tier1Books \cap Tier2Books = {}
  BY DEF Tier1Books, Tier2Books, Tier3Books
<1> DEFINE has(n, b) == \E i \in DOMAIN PlaybooksForTier[n] : PlaybooksForTier[n][i] = b
<1>2. \A b : TierOf(b) = CHOOSE n \in 1..3 : has(n, b)
  BY DEF TierOf
<1>3. \A b : /\ has(1, b) <=> b \in Tier1Books
             /\ has(2, b) <=> b \in Tier2Books
             /\ has(3, b) <=> b \in Tier3Books
  BY ThreeTiers
<1> HIDE DEF has
<1>4. ASSUME NEW b, NEW k \in 1..3, has(k, b), \A n \in 1..3 : has(n, b) => n = k
      PROVE  TierOf(b) = k
  BY <1>2, <1>4
<1>5. \A n \in 1..3 : n = 1 \/ n = 2 \/ n = 3
  OBVIOUS
<1>6. \A b \in Tier1Books : TierOf(b) = 1
  BY <1>1, <1>3, <1>4, <1>5
<1>7. \A b \in Tier2Books : TierOf(b) = 2
  BY <1>1, <1>3, <1>4, <1>5
<1>8. \A b \in Tier3Books : TierOf(b) = 3
  BY <1>1, <1>3, <1>4, <1>5
<1> QED
  BY <1>1, <1>6, <1>7, <1>8

LEMMA UpTo ==
    \A tier : PlaybooksUpTo(tier) \in Seq(Playbooks)
<1> SUFFICES ASSUME NEW tier
             PROVE  PlaybooksUpTo(tier) \in Seq(Playbooks)
  OBVIOUS
<1>1. PICK a, b, c : /\ a = PlaybooksForTier[1]
                     /\ b = IF tier > 1 THEN PlaybooksForTier[2] ELSE <<>>
                     /\ c = IF tier > 2 THEN PlaybooksForTier[3] ELSE <<>>
  OBVIOUS
<1>2. a \in Seq(Tier1Books) /\ b \in Seq(Tier2Books) /\ c \in Seq(Tier3Books)
  BY <1>1, ThreeTiers
<1>3. a \in Seq(Playbooks) /\ b \in Seq(Playbooks) /\ c \in Seq(Playbooks)
  BY <1>2, PlaybooksAre
<1>4. PlaybooksUpTo(tier) = a \o b \o c
  BY <1>1 DEF PlaybooksUpTo
<1> QED
  BY <1>3, <1>4

(* canApply only looks, and no playbook of the third tier can apply.        *)
LEMMA CanApplyLike ==
    ASSUME NEW s, RunShape(s), NEW book \in Playbooks, NEW c \in CanApply(book, s)
    PROVE  Like(s, c.run) /\ (book \in Tier3Books => ~c.ok)
<1>1. Like(s, s)
  BY LikeItself
<1>2. CASE book \in Tier1Books
  <2>1. TierOf(book) = 1 /\ book \notin Tier3Books
    BY <1>2, TiersAre
  <2>2. c \in Tier1CanApply(book, s)
    BY <2>1 DEF CanApply
  <2>3. CASE book = "disk"
    <3>1. c \in DiskCanApply(s)
      BY <2>2, <2>3 DEF Tier1CanApply
    <3>2. c = Ran(s, s) \/ \E d \in CheckDiskUsage(s) : c = [ok |-> d.answer > 85, run |-> d.run]
      BY <3>1 DEF DiskCanApply
    <3>3. c.run = s \/ \E d \in CheckDiskUsage(s) : c.run = d.run
      BY <3>2 DEF Ran
    <3>4. c.run = s \/ \E d \in Asked(s, Usages, 0) : c.run = d.run
      BY <3>3 DEF CheckDiskUsage
    <3> QED
      BY <1>1, <2>1, <3>4, AskedLike
  <2>4. CASE book # "disk"
    <3>1. c.run = s
      BY <1>2, <2>2, <2>4 DEF Tier1CanApply, Tier1Books
    <3> QED
      BY <1>1, <2>1, <3>1
  <2> QED
    BY <2>3, <2>4
<1>3. CASE book \in Tier2Books
  <2>1. TierOf(book) = 2 /\ book \notin Tier3Books
    BY <1>3, TiersAre
  <2>2. c \in Tier2CanApply(book, s)
    BY <2>1 DEF CanApply
  <2>3. CASE book = "core"
    <3>1. c \in CoreCanApply(s)
      BY <2>2, <2>3 DEF Tier2CanApply
    <3>2. c = Ran(s, s) \/ \E k \in CheckCoreFilesExist(s) : c = [ok |-> ~k.answer, run |-> k.run]
      BY <3>1 DEF CoreCanApply
    <3>3. c.run = s \/ \E k \in CheckCoreFilesExist(s) : c.run = k.run
      BY <3>2 DEF Ran
    <3>4. \A k \in CheckCoreFilesExist(s) : Like(s, k.run)
      BY AskedLike DEF CheckCoreFilesExist
    <3> QED
      BY <1>1, <2>1, <3>3, <3>4
  <2>4. CASE book = "wpconfig"
    <3>1. c \in ConfigCanApply(s)
      BY <2>2, <2>4 DEF Tier2CanApply
    <3>a. PICK A, S : A = {~Broken(s.site["wp-config.php"])} /\ S = Asked(s, A, FALSE)
      OBVIOUS
    <3>2. c = Ran(s, s) \/ \E k \in S : c = [ok |-> ~k.answer, run |-> k.run]
      BY <3>1, <3>a DEF ConfigCanApply
    <3>3. c.run = s \/ \E k \in S : c.run = k.run
      BY <3>2 DEF Ran
    <3>4. \A k \in S : Like(s, k.run)
      BY <3>a, AskedLike
    <3> QED
      BY <1>1, <2>1, <3>3, <3>4
  <2>5. CASE book = "tables"
    <3>1. c \in TablesCanApply(s)
      BY <2>2, <2>5 DEF Tier2CanApply
    <3>2. c = Ran(s, s) \/ \E k \in CheckDatabaseHealth(s) : c = [ok |-> k.answer, run |-> k.run]
      BY <3>1 DEF TablesCanApply
    <3>3. c.run = s \/ \E k \in CheckDatabaseHealth(s) : c.run = k.run
      BY <3>2 DEF Ran
    <3>4. \A k \in CheckDatabaseHealth(s) : Like(s, k.run)
      BY AskedLike DEF CheckDatabaseHealth
    <3> QED
      BY <1>1, <2>1, <3>3, <3>4
  <2> QED
    BY <1>3, <2>3, <2>4, <2>5 DEF Tier2Books
<1>4. CASE book \in Tier3Books
  <2>1. TierOf(book) = 3
    BY <1>4, TiersAre
  <2>2. c \in Tier3CanApply(s)
    BY <2>1 DEF CanApply
  <2> QED
    BY <1>1, <2>2, FaultLike DEF Tier3CanApply
<1> QED
  BY <1>2, <1>3, <1>4, PlaybooksAre

-----------------------------------------------------------------------------
(* A plan that is sorted has the steps it had.                              *)
LEMMA SortedHas ==
    ASSUME NEW steps \in Seq(PlanSteps)
    PROVE  /\ Sorted(steps) \in Seq(PlanSteps) /\ Len(Sorted(steps)) = Len(steps)
           /\ \A n \in DOMAIN Sorted(steps) : \E i \in DOMAIN steps : Sorted(steps)[n] = steps[i]
           /\ \A i \in DOMAIN steps : \E n \in DOMAIN Sorted(steps) : Sorted(steps)[n] = steps[i]
<1> DEFINE D == DOMAIN steps
           size == Len(steps)
           after(i, j) == steps[j].order > steps[i].order \/ (steps[j].order = steps[i].order /\ j <= i)
           upto(i) == {j \in D : after(i, j)}
           number == [i \in D |-> Cardinality(upto(i))]
           place(n) == CHOOSE i \in D : Cardinality(upto(i)) = n
<1>1. /\ D = 1..size /\ size \in Nat /\ IsFiniteSet(D) /\ Cardinality(D) = size
      /\ IsFiniteSet(1..size) /\ Cardinality(1..size) = size /\ D \subseteq Nat
  <2>1. D = 1..size /\ size \in Nat
    BY LenProperties
  <2> QED
    BY <2>1, FS_Interval
<1>2. \A i \in D : steps[i] \in PlanSteps /\ steps[i].order \in Nat
  <2>1. \A i \in D : steps[i] \in PlanSteps
    BY LenProperties
  <2> QED
    BY <2>1 DEF PlanSteps
<1>3. Sorted(steps) = [n \in D |-> steps[place(n)]]
  BY DEF Sorted
<1>4. \A i, j, k \in D : /\ after(i, i)
                         /\ after(i, j) /\ after(j, k) => after(i, k)
                         /\ after(i, j) \/ after(j, i)
                         /\ after(i, j) /\ after(j, i) => i = j
  BY <1>1, <1>2
<1> HIDE DEF after, D, size
<1>5. \A i \in D : IsFiniteSet(upto(i)) /\ Cardinality(upto(i)) \in 1..size
  <2> TAKE i \in D
  <2>1. upto(i) \in SUBSET D /\ i \in upto(i)
    BY <1>4
  <2>2. IsFiniteSet(upto(i)) /\ Cardinality(upto(i)) <= size
    BY <1>1, <2>1, FS_Subset
  <2>3. Cardinality(upto(i)) \in Nat
    BY <2>2, FS_CardinalityType
  <2>4. Cardinality(upto(i)) # 0
    BY <2>1, <2>2, FS_EmptySet
  <2> QED
    BY <1>1, <2>2, <2>3, <2>4
<1>6. \A i, k \in D : number[i] = number[k] => i = k
  <2>1. ASSUME NEW i \in D, NEW k \in D, i # k, after(k, i)
        PROVE  number[i] # number[k]
    <3>1. upto(i) \in SUBSET upto(k) /\ k \in upto(k) /\ k \notin upto(i)
      BY <1>4, <2>1
    <3>2. upto(i) # upto(k)
      BY <3>1
    <3>3. IsFiniteSet(upto(k)) /\ IsFiniteSet(upto(i))
      BY <1>5
    <3>4. Cardinality(upto(k)) # Cardinality(upto(i))
      BY <3>1, <3>2, <3>3, FS_Subset
    <3> QED
      BY <3>4
  <2> QED
    BY <1>4, <2>1
<1>7. number \in Injection(D, 1..size)
  BY <1>5, <1>6 DEF Injection, IsInjective
<1>8. number \in Surjection(D, 1..size)
  BY <1>1, <1>7, FS_Injection
<1>9. \A n \in D : place(n) \in D /\ Cardinality(upto(place(n))) = n
  <2> TAKE n \in D
  <2>1. PICK i \in D : number[i] = n
    BY <1>1, <1>8 DEF Surjection
  <2>2. Cardinality(upto(i)) = n
    BY <2>1
  <2> QED
    BY <2>2
<1>10. \A i \in D : \E n \in D : place(n) = i
  <2> TAKE i \in D
  <2>1. number[i] \in D
    BY <1>1, <1>5
  <2>2. PICK n \in D : n = number[i]
    BY <2>1
  <2>3. place(n) \in D /\ number[place(n)] = number[i]
    BY <1>9, <2>2
  <2> QED
    BY <1>6, <2>3
<1> HIDE DEF place, upto, number
<1>11. PICK q : q = Sorted(steps)
  OBVIOUS
<1>12. DOMAIN q = D /\ \A n \in D : q[n] = steps[place(n)]
  BY <1>3, <1>11
<1>13. q \in Seq(PlanSteps) /\ Len(q) = size
  <2>1. \A n \in 1..size : q[n] \in PlanSteps
    BY <1>1, <1>2, <1>9, <1>12
  <2>2. q = [n \in 1..size |-> q[n]]
    BY <1>1, <1>3, <1>11
  <2>3. [n \in 1..size |-> q[n]] \in Seq(PlanSteps)
    BY <1>1, <2>1
  <2>4. q \in Seq(PlanSteps)
    BY <2>2, <2>3
  <2>5. DOMAIN q = 1..Len(q) /\ Len(q) \in Nat
    BY <2>4, LenProperties
  <2> QED
    BY <1>1, <1>12, <2>4, <2>5
<1>14. \A n \in DOMAIN q : \E i \in DOMAIN steps : q[n] = steps[i]
  BY <1>9, <1>12 DEF D
<1>15. \A i \in DOMAIN steps : \E n \in DOMAIN q : q[n] = steps[i]
  BY <1>10, <1>12 DEF D
<1> QED
  BY <1>11, <1>13, <1>14, <1>15 DEF size

-----------------------------------------------------------------------------
(* The steps of a rollback.                                                 *)
LEMMA SamePlan ==
    ASSUME NEW s, NEW r, r.steps = s.steps, r.before = s.before, r.unknown = s.unknown
    PROVE  /\ \A t : Excused(r, t) <=> Excused(s, t)
           /\ \A t : Twice(r, t) <=> Twice(s, t)
BY DEF Excused, Twice

LEMMA RollingFrom ==
    ASSUME NEW s, FixSound(s), s.phase = "returned", s.steps # <<>>,
           NEW r, r = [s EXCEPT !.phase = "rolling", !.todo = Sorted(s.steps), !.books = <<>>]
    PROVE  FixSound(r)
<1>1. /\ RunShape(s) /\ Plan(s) /\ Returned(s) /\ s.book \in Playbooks
      /\ s.verdict \in {"none", "success", "failure"}
  BY DEF FixSound
<1>2. s.steps \in Seq(PlanSteps)
  BY <1>1 DEF RunShape
<1>3. PICK plan : plan = Sorted(s.steps)
  OBVIOUS
<1>4. /\ plan \in Seq(PlanSteps) /\ Len(plan) = Len(s.steps)
      /\ \A n \in DOMAIN plan : \E i \in DOMAIN s.steps : plan[n] = s.steps[i]
      /\ \A i \in DOMAIN s.steps : \E n \in DOMAIN plan : plan[n] = s.steps[i]
  BY <1>2, <1>3, SortedHas
<1>5. plan # <<>>
  BY <1>2, <1>4, EmptySeq
<1>6. /\ DOMAIN r = Fields /\ r.phase = "rolling" /\ r.todo = plan /\ r.books = <<>>
      /\ \A x \in Fields \ {"phase", "todo", "books"} : r[x] = s[x]
  BY <1>1, <1>3 DEF RunShape, Fields
<1>7. /\ r.site = s.site /\ r.before = s.before /\ r.book = s.book /\ r.steps = s.steps
      /\ r.unknown = s.unknown /\ r.verdict = s.verdict
  BY <1>6 DEF Fields
<1>8. RunShape(r)
  <2>1. r.books \in Seq(Playbooks)
    BY <1>6
  <2> QED
    BY <1>1, <1>6, <1>7, <2>1 DEF RunShape, Fields
<1>9. /\ \A t : Excused(r, t) <=> Excused(s, t)
      /\ \A t : Twice(r, t) <=> Twice(s, t)
  BY <1>7, SamePlan
<1>10. \A i \in DOMAIN r.todo : \E j \in DOMAIN r.steps : r.steps[j] = r.todo[i]
  BY <1>4, <1>6, <1>7
<1>11. CopiesTrue(r)
  BY <1>1, <1>7, <1>9 DEF Plan, CopiesTrue
<1>12. \A t \in Files :
         \/ Excused(r, t) \/ Twice(r, t) \/ r.site[t] = r.before[t]
         \/ \E i \in DOMAIN r.todo : r.todo[i].kind = "restore" /\ r.todo[i].target = t
  <2> TAKE t \in Files
  <2>1. Covered(s, t) \/ s.site[t] = s.before[t]
    BY <1>1 DEF Plan, FilesPlanned
  <2>2. CASE Restores(s, t)
    <3>1. PICK i \in DOMAIN s.steps : s.steps[i].kind = "restore" /\ s.steps[i].target = t
      BY <2>2 DEF Restores
    <3>2. PICK n \in DOMAIN plan : plan[n] = s.steps[i]
      BY <1>4, <3>1
    <3> QED
      BY <1>6, <3>1, <3>2
  <2> QED
    BY <1>7, <1>9, <2>1, <2>2 DEF Covered
<1>13. r.before["active_plugins"] = {}
  BY <1>1, <1>7 DEF Plan, PluginsPlanned
<1>14. r.book = "deactivation" => HasBroken(r.todo)
  <2> SUFFICES ASSUME r.book = "deactivation"
               PROVE  HasBroken(r.todo)
    OBVIOUS
  <2>1. HasBroken(s.steps)
    BY <1>1, <1>7 DEF Returned
  <2>2. PICK i \in DOMAIN s.steps : s.steps[i].kind = "broken"
    BY <2>1 DEF HasBroken
  <2>3. PICK n \in DOMAIN plan : plan[n] = s.steps[i]
    BY <1>4, <2>2
  <2> QED
    BY <1>6, <2>2, <2>3 DEF HasBroken
<1>15. \/ r.book = "deactivation" \/ "active_plugins" \in r.unknown
       \/ \A p \in r.site["active_plugins"] :
             \E i \in DOMAIN r.todo : r.todo[i].kind = "reactivate" /\ p \in r.todo[i].content
  <2> SUFFICES ASSUME r.book # "deactivation", "active_plugins" \notin r.unknown,
                      NEW p \in r.site["active_plugins"]
               PROVE  \E i \in DOMAIN r.todo : r.todo[i].kind = "reactivate" /\ p \in r.todo[i].content
    OBVIOUS
  <2>1. Reactivates(s, p)
    BY <1>1, <1>7 DEF Plan, PluginsPlanned
  <2>2. PICK i \in DOMAIN s.steps : s.steps[i].kind = "reactivate" /\ p \in s.steps[i].content
    BY <2>1 DEF Reactivates
  <2>3. PICK n \in DOMAIN plan : plan[n] = s.steps[i]
    BY <1>4, <2>2
  <2> QED
    BY <1>6, <2>2, <2>3
<1>a. ToCome(r, r.todo)
  BY <1>12, <1>14, <1>15 DEF ToCome
<1>16. Rolling(r)
  BY <1>4, <1>5, <1>6, <1>10, <1>11, <1>13, <1>a DEF Rolling
<1> QED
  BY <1>1, <1>6, <1>7, <1>8, <1>16 DEF FixSound

LEMMA OverSound ==
    ASSUME NEW s, RunShape(s), NEW verdict,
           verdict = "not rolled back" \/
             (verdict = "rolled back" /\
                \A t \in Restorable : s.site[t] = s.before[t] \/ Excused(s, t) \/ Twice(s, t)),
           NEW r, r = [s EXCEPT !.todo = <<>>, !.verdict = verdict, !.phase = "over"]
    PROVE  FixSound(r)
<1>1. /\ DOMAIN r = Fields /\ r.phase = "over" /\ r.verdict = verdict
      /\ \A x \in Fields \ {"phase", "todo", "verdict"} : r[x] = s[x]
  BY DEF RunShape, Fields
<1>2. /\ r.site = s.site /\ r.before = s.before /\ r.steps = s.steps /\ r.unknown = s.unknown
  BY <1>1 DEF Fields
<1>3. RunShape(r)
  BY <1>1, <1>2 DEF RunShape, Fields
<1>4. /\ \A t : Excused(r, t) <=> Excused(s, t)
      /\ \A t : Twice(r, t) <=> Twice(s, t)
  BY <1>2, SamePlan
<1>6. Over(r)
  BY <1>1, <1>2, <1>4 DEF Over
<1> QED
  BY <1>1, <1>3, <1>6 DEF FixSound

(* What a step that has worked leaves to the steps that come.               *)
LEMMA StepPutsBack ==
    ASSUME NEW s, RunShape(s), Rolling(s), NEW st, st = Head(s.todo), st.kind # "broken", NEW after,
           st.kind = "restore" => after = st.content,
           st.kind = "reactivate" => after = s.site[st.target] \ st.content,
           st.kind = "nothing" => after = s.site[st.target],
           NEW q, Touched(s, q, st.target), q.site[st.target] = after, q.unknown = s.unknown,
           NEW left, left = Tail(s.todo)
    PROVE  /\ CopiesTrue(q) /\ ToCome(q, left)
           /\ q.before = s.before /\ q.steps = s.steps /\ q.book = s.book /\ q.todo = s.todo
           /\ q.verdict = s.verdict /\ q.phase = s.phase
<1>1. /\ q.before = s.before /\ q.steps = s.steps /\ q.book = s.book /\ q.todo = s.todo
      /\ q.verdict = s.verdict /\ q.phase = s.phase
      /\ \A u \in Targets \ {st.target} : q.site[u] = s.site[u]
  BY DEF Touched, Fields
<1>2. PICK n : n = Len(s.todo)
  OBVIOUS
<1>3. s.todo \in Seq(PlanSteps) /\ s.todo # <<>>
  BY DEF Rolling
<1>4. n \in Nat /\ n > 0 /\ DOMAIN s.todo = 1..n
  BY <1>2, <1>3, LenProperties, EmptySeq
<1>5. left \in Seq(PlanSteps) /\ DOMAIN left = 1..(n - 1) /\ \A i \in 1..(n - 1) : left[i] = s.todo[i + 1]
  <2>1. Len(left) = n - 1 /\ left \in Seq(PlanSteps)
    BY <1>2, <1>3
  <2>2. DOMAIN left = 1..(n - 1)
    BY <2>1, LenProperties
  <2>3. \A i \in 1..(n - 1) : left[i] = s.todo[i + 1]
    BY <1>2, <1>3, <1>4
  <2> QED
    BY <2>1, <2>2, <2>3
<1>6. st = s.todo[1] /\ st \in PlanSteps
  BY <1>3
<1>7. \A i \in DOMAIN s.todo : s.todo[i] = st \/ \E k \in DOMAIN left : left[k] = s.todo[i]
  <2> TAKE i \in DOMAIN s.todo
  <2>1. CASE i = 1
    BY <1>6, <2>1
  <2>2. CASE i # 1
    <3>1. i - 1 \in 1..(n - 1) /\ (i - 1) + 1 = i
      BY <1>4, <2>2
    <3>2. left[i - 1] = s.todo[i]
      BY <1>5, <3>1
    <3> QED
      BY <1>5, <3>1, <3>2
  <2> QED
    BY <2>1, <2>2
<1>8. /\ st.kind = "reactivate" => st.target = "active_plugins"
      /\ st.kind = "restore" =>
           /\ st.target \in Files
           /\ st.content = s.before[st.target] \/ Excused(s, st.target) \/ Twice(s, st.target)
  <2>1. PICK j \in DOMAIN s.steps : s.steps[j] = st
    BY <1>4, <1>6 DEF Rolling
  <2> QED
    BY <2>1 DEF Rolling, CopiesTrue
<1>9. /\ \A t : Excused(q, t) <=> Excused(s, t)
      /\ \A t : Twice(q, t) <=> Twice(s, t)
  BY <1>1, SamePlan
<1>10. CopiesTrue(q)
  BY <1>1, <1>9 DEF Rolling, CopiesTrue
<1>11. st.kind \in {"restore", "reactivate", "nothing"} /\ st.target \in Targets
  BY <1>6 DEF PlanSteps
<1>12. /\ st.kind = "restore" => q.site[st.target] = st.content
       /\ st.kind = "reactivate" => q.site[st.target] = s.site[st.target] \ st.content
       /\ st.kind = "nothing" => q.site[st.target] = s.site[st.target]
  OBVIOUS
<1>13. \A t \in Files :
         \/ Excused(q, t) \/ Twice(q, t) \/ q.site[t] = q.before[t]
         \/ \E i \in DOMAIN left : left[i].kind = "restore" /\ left[i].target = t
  <2> TAKE t \in Files
  <2>1. t \in Targets /\ t # "active_plugins"
    BY FilesAre
  <2>2. CASE st.kind = "restore" /\ st.target = t
    <3>1. q.site[t] = st.content
      BY <1>12, <2>2
    <3> QED
      BY <1>1, <1>8, <1>9, <2>2, <3>1
  <2>3. CASE ~(st.kind = "restore" /\ st.target = t)
    <3>1. q.site[t] = s.site[t]
      BY <1>1, <1>8, <1>11, <1>12, <2>1, <2>3
    <3>2. \/ Excused(s, t) \/ Twice(s, t) \/ s.site[t] = s.before[t]
          \/ \E i \in DOMAIN s.todo : s.todo[i].kind = "restore" /\ s.todo[i].target = t
      BY DEF Rolling, ToCome
    <3>3. (\E i \in DOMAIN s.todo : s.todo[i].kind = "restore" /\ s.todo[i].target = t)
             => \E i \in DOMAIN left : left[i].kind = "restore" /\ left[i].target = t
      BY <1>7, <2>3
    <3> QED
      BY <1>1, <1>9, <3>1, <3>2, <3>3
  <2> QED
    BY <2>2, <2>3
<1>14. q.book = "deactivation" => HasBroken(left)
  <2> SUFFICES ASSUME q.book = "deactivation"
               PROVE  HasBroken(left)
    OBVIOUS
  <2>1. HasBroken(s.todo)
    BY <1>1 DEF Rolling, ToCome
  <2>2. PICK i \in DOMAIN s.todo : s.todo[i].kind = "broken"
    BY <2>1 DEF HasBroken
  <2> QED
    BY <1>7, <2>2 DEF HasBroken
<1>15. \/ q.book = "deactivation" \/ "active_plugins" \in q.unknown
       \/ \A p \in q.site["active_plugins"] :
             \E i \in DOMAIN left : left[i].kind = "reactivate" /\ p \in left[i].content
  <2> SUFFICES ASSUME q.book # "deactivation", "active_plugins" \notin q.unknown,
                      NEW p \in q.site["active_plugins"]
               PROVE  \E i \in DOMAIN left : left[i].kind = "reactivate" /\ p \in left[i].content
    OBVIOUS
  <2>1. "active_plugins" \in Targets /\ "active_plugins" \notin Files
    BY FilesAre
  <2>2. p \in s.site["active_plugins"] /\ ~(st.kind = "reactivate" /\ p \in st.content)
    BY <1>1, <1>8, <1>11, <1>12, <2>1
  <2>3. PICK i \in DOMAIN s.todo : s.todo[i].kind = "reactivate" /\ p \in s.todo[i].content
    BY <1>1, <2>2 DEF Rolling, ToCome
  <2> QED
    BY <1>7, <2>2, <2>3
<1> QED
  BY <1>1, <1>10, <1>13, <1>14, <1>15 DEF ToCome

LEMMA RollsSound ==
    ASSUME NEW s, FixSound(s), s.phase = "rolling", NEW r \in RollbackStep(s)
    PROVE  FixSound(r)
<1>1. RunShape(s) /\ Rolling(s) /\ s.verdict \in {"none", "success", "failure"}
  BY DEF FixSound
<1>2. PICK st : st = Head(s.todo)
  OBVIOUS
<1>3. s.todo \in Seq(PlanSteps) /\ s.todo # <<>>
  BY <1>1 DEF Rolling
<1>4. st \in PlanSteps
  BY <1>2, <1>3
<1> DEFINE after == CASE st.kind = "restore" -> st.content
                      [] st.kind = "reactivate" -> s.site[st.target] \ st.content
                      [] st.kind = "nothing" -> s.site[st.target]
           over(f, verdict) == [f EXCEPT !.todo = <<>>, !.verdict = verdict, !.phase = "over"]
           next(f) == IF Len(f.todo) = 1 THEN over(f, "rolled back") ELSE [f EXCEPT !.todo = Tail(@)]
<1>5. r \in IF st.kind = "broken" THEN {over(s, "not rolled back")}
            ELSE {IF c.ok THEN next(c.run) ELSE over(c.run, "not rolled back") :
                     c \in Command(s, st.target, after)}
  BY <1>2 DEF RollbackStep
<1>6. CASE st.kind = "broken"
  BY <1>1, <1>5, <1>6, OverSound
<1>7. CASE st.kind # "broken"
  <2>1. st.kind \in {"restore", "reactivate", "nothing"} /\ st.target \in Targets /\ st.content \in Contents
    BY <1>4, <1>7 DEF PlanSteps
  <2>2. after \in Contents
    <3>1. s.site[st.target] \in Contents
      BY <1>1, <2>1 DEF RunShape
    <3>2. s.site[st.target] \ st.content \in Contents
      BY <3>1 DEF Contents
    <3> QED
      BY <2>1, <3>1, <3>2
  <2>a. PICK content : content = after
    OBVIOUS
  <2> HIDE DEF next, over
  <2>3. PICK c \in Command(s, st.target, content) :
          \/ c.ok /\ r = next(c.run)
          \/ ~c.ok /\ r = over(c.run, "not rolled back")
    BY <1>5, <1>7, <2>a
  <2>4. Worked(s, c, st.target, content)
    BY <1>1, <2>1, <2>2, <2>a, CommandWorks
  <2>5. PICK q : q = c.run
    OBVIOUS
  <2>6. Touched(s, q, st.target) /\ RunShape(q)
    BY <2>4, <2>5 DEF Worked, Touched
  <2>7. CASE ~c.ok
    BY <2>3, <2>5, <2>6, <2>7, OverSound DEF over
  <2>8. CASE c.ok
    <3>1. q.site[st.target] = content /\ q.unknown = s.unknown
      BY <2>4, <2>5, <2>8 DEF Worked
    <3>2. PICK left : left = Tail(s.todo)
      OBVIOUS
    <3>a. /\ st.kind = "restore" => content = st.content
          /\ st.kind = "reactivate" => content = s.site[st.target] \ st.content
          /\ st.kind = "nothing" => content = s.site[st.target]
      BY <2>a
    <3> HIDE DEF after
    <3>b. CopiesTrue(q) /\ ToCome(q, left)
      BY <1>1, <1>2, <1>7, <2>6, <3>1, <3>2, <3>a, StepPutsBack
    <3>3. /\ CopiesTrue(q) /\ ToCome(q, left)
          /\ q.before = s.before /\ q.steps = s.steps /\ q.book = s.book /\ q.todo = s.todo
          /\ q.verdict = s.verdict /\ q.phase = s.phase
      BY <2>6, <3>b DEF Touched, Fields
    <3>4. PICK n : n = Len(s.todo)
      OBVIOUS
    <3>5. /\ n \in Nat /\ n > 0 /\ DOMAIN s.todo = 1..n
          /\ left \in Seq(PlanSteps) /\ DOMAIN left = 1..(n - 1) /\ Len(left) = n - 1
          /\ \A i \in 1..(n - 1) : left[i] = s.todo[i + 1]
      <4>1. n \in Nat /\ n > 0 /\ DOMAIN s.todo = 1..n
        BY <1>3, <3>4, LenProperties, EmptySeq
      <4>2. left \in Seq(PlanSteps) /\ Len(left) = n - 1
        BY <1>3, <3>2, <3>4
      <4>3. DOMAIN left = 1..(n - 1)
        BY <4>2, LenProperties
      <4>4. \A i \in 1..(n - 1) : left[i] = s.todo[i + 1]
        BY <1>3, <3>2, <3>4, <4>1
      <4> QED
        BY <4>1, <4>2, <4>3, <4>4
    <3>6. CASE n = 1
      <4>1. DOMAIN left = {}
        BY <3>5, <3>6
      <4>2. q.book # "deactivation"
        BY <3>3, <4>1 DEF ToCome, HasBroken
      <4>3. q.before["active_plugins"] = {}
        BY <1>1, <3>3 DEF Rolling
      <4>4. "active_plugins" \in q.unknown \/ \A p \in q.site["active_plugins"] : FALSE
        BY <3>3, <4>1, <4>2 DEF ToCome
      <4>5. q.site["active_plugins"] = q.before["active_plugins"] \/ Excused(q, "active_plugins")
        BY <4>3, <4>4 DEF Excused
      <4>6. \A t \in Files : Excused(q, t) \/ Twice(q, t) \/ q.site[t] = q.before[t]
        BY <3>3, <4>1 DEF ToCome
      <4>7. \A t \in Restorable : q.site[t] = q.before[t] \/ Excused(q, t) \/ Twice(q, t)
        BY <4>5, <4>6, FilesAre
      <4>8. r = over(q, "rolled back")
        BY <2>3, <2>5, <2>8, <3>3, <3>4, <3>6 DEF next
      <4> QED
        BY <2>6, <4>7, <4>8, OverSound DEF over
    <3>7. CASE n # 1
      <4>1. r = [q EXCEPT !.todo = Tail(q.todo)]
        BY <2>3, <2>5, <2>8, <3>3, <3>4, <3>7 DEF next
      <4>2. DOMAIN r = Fields /\ r.todo = left /\ \A x \in Fields \ {"todo"} : r[x] = q[x]
        BY <2>6, <3>2, <3>3, <4>1 DEF RunShape, Fields
      <4>3. /\ r.site = q.site /\ r.before = q.before /\ r.book = q.book /\ r.steps = q.steps
            /\ r.unknown = q.unknown /\ r.verdict = q.verdict /\ r.phase = q.phase
        BY <4>2 DEF Fields
      <4>4. RunShape(r)
        BY <2>6, <4>2, <4>3 DEF RunShape, Fields
      <4>5. /\ \A t : Excused(r, t) <=> Excused(q, t)
            /\ \A t : Twice(r, t) <=> Twice(q, t)
        BY <4>3, SamePlan
      <4>6. left # <<>>
        BY <3>5, <3>7, EmptySeq
      <4>7. \A i \in DOMAIN left : \E j \in DOMAIN r.steps : r.steps[j] = left[i]
        <5> TAKE i \in DOMAIN left
        <5>1. i + 1 \in DOMAIN s.todo /\ left[i] = s.todo[i + 1]
          BY <3>5
        <5> QED
          BY <1>1, <3>3, <4>3, <5>1 DEF Rolling
      <4>8. CopiesTrue(r)
        BY <3>3, <4>3, <4>5 DEF CopiesTrue
      <4>9. r.before["active_plugins"] = {}
        BY <1>1, <3>3, <4>3 DEF Rolling
      <4>10. ToCome(r, left)
        BY <3>3, <4>3, <4>5 DEF ToCome
      <4>12. Rolling(r)
        BY <3>5, <4>2, <4>6, <4>7, <4>8, <4>9, <4>10 DEF Rolling
      <4> QED
        BY <1>1, <3>3, <4>3, <4>4, <4>12 DEF FixSound
    <3> QED
      BY <3>6, <3>7
  <2> QED
    BY <2>4, <2>7, <2>8 DEF Worked
<1> QED
  BY <1>6, <1>7

-----------------------------------------------------------------------------
(* The actions.                                                             *)
LEMMA MethodSound ==
    ASSUME NEW p, FixSound(p), p.phase = "running", NEW m, m = Head(p.todo),
           NEW s, s = [p EXCEPT !.todo = Tail(@)]
    PROVE  /\ m \in Tier1Methods => \A r \in Tier1Method(m, s) : FixSound(r)
           /\ m = "restoreCoreFiles" => \A r \in RestoreCoreFiles(p) : FixSound(r)
           /\ m \in Tier2Methods \ {"restoreCoreFiles"} => \A r \in Tier2Method(m, s) : FixSound(r)
           /\ m = "deactivateProblematicPlugins" =>
                \A r \in DeactivateProblematicPlugins(p) : FixSound(r)
           /\ m = "deactivatePluginsByPriority" =>
                \A r \in DeactivatePluginsByPriority(p) : FixSound(r)
           /\ m \in Tier3Methods \ {"deactivateProblematicPlugins", "deactivatePluginsByPriority"} =>
                \A r \in Tier3Method(m, s) : FixSound(r)
           /\ m \in Tier1Methods \cup Tier2Methods \cup Tier3Methods
<1>1. AtWork(p, s, m)
  BY DEF AtWork
<1>2. m \in Tier1Methods => \A r \in Tier1Method(m, s) : FixSound(r)
  BY <1>1, Tier1Sound
<1>3. m = "restoreCoreFiles" => \A r \in RestoreCoreFiles(p) : FixSound(r)
  BY RestoreCoreSound
<1>4. m \in Tier2Methods \ {"restoreCoreFiles"} => \A r \in Tier2Method(m, s) : FixSound(r)
  <2> SUFFICES ASSUME m \in Tier2Methods \ {"restoreCoreFiles"}, NEW r \in Tier2Method(m, s)
               PROVE  FixSound(r)
    OBVIOUS
  <2>1. CASE m = "verifyCoreFiles"
    <3>1. r \in VerifyCoreFiles(s)
      BY <2>1 DEF Tier2Method
    <3> QED
      BY <1>1, <2>1, <3>1, VerifyCoreSound
  <2>2. CASE m = "backupWpConfig"
    <3>1. r \in BackupWpConfig(s)
      BY <2>2 DEF Tier2Method
    <3> QED
      BY <1>1, <2>2, <3>1, BackupConfigSound
  <2>3. CASE m = "writeWpConfig"
    <3>1. r \in WriteWpConfig(s)
      BY <2>3 DEF Tier2Method
    <3> QED
      BY <1>1, <2>3, <3>1, WriteConfigSound
  <2>4. CASE m \in MethodsOf("tables")
    BY <1>1, <2>4, TablesSound
  <2>5. m \in MethodsOf("tables") \/ m \in {"verifyCoreFiles", "backupWpConfig", "writeWpConfig"}
    BY DEF MethodsOf, Tier2Methods
  <2> QED
    BY <2>1, <2>2, <2>3, <2>4, <2>5
<1>5. m = "deactivateProblematicPlugins" => \A r \in DeactivateProblematicPlugins(p) : FixSound(r)
  BY ConflictSound
<1>6. m = "deactivatePluginsByPriority" => \A r \in DeactivatePluginsByPriority(p) : FixSound(r)
  BY PrioritySound
<1>7. m \in Tier3Methods \ {"deactivateProblematicPlugins", "deactivatePluginsByPriority"} =>
        \A r \in Tier3Method(m, s) : FixSound(r)
  <2> SUFFICES ASSUME m \in Tier3Methods \ {"deactivateProblematicPlugins", "deactivatePluginsByPriority"},
                      NEW r \in Tier3Method(m, s)
               PROVE  FixSound(r)
    OBVIOUS
  <2>1. CASE m = "selectiveReactivation"
    <3>1. r \in SelectiveReactivation(s)
      BY <2>1 DEF Tier3Method
    <3> QED
      BY <1>1, <2>1, <3>1, SelectiveSound
  <2>2. CASE m = "switchToTheme"
    <3>1. r \in SwitchToTheme(s)
      BY <2>2 DEF Tier3Method
    <3> QED
      BY <1>1, <2>2, <3>1, SwitchSound
  <2>3. CASE m = "switchToAlternative"
    <3>1. r \in SwitchToAlternative(s)
      BY <2>3 DEF Tier3Method
    <3> QED
      BY <1>1, <2>3, <3>1, AlternativeSound
  <2>4. CASE m = "restoreThemeFromBackup"
    <3>1. r \in RestoreThemeFromBackup(s)
      BY <2>4 DEF Tier3Method
    <3> QED
      BY <1>1, <2>4, <3>1, FromBackupSound
  <2>5. CASE m = "rollbackToDefaultTheme"
    <3>1. r \in RollbackToDefaultTheme(s)
      BY <2>5 DEF Tier3Method
    <3> QED
      BY <1>1, <2>5, <3>1, ToDefaultSound
  <2> QED
    BY <2>1, <2>2, <2>3, <2>4, <2>5 DEF Tier3Methods
<1>8. m \in Tier1Methods \cup Tier2Methods \cup Tier3Methods
  <2>1. m \in MethodsOf(p.book) /\ p.book \in Playbooks
    BY LoopHas
  <2>2. p.book \in Tier1Books \cup Tier2Books \cup Tier3Books
    BY <2>1, PlaybooksAre
  <2> QED
    BY <2>1, <2>2
       DEF MethodsOf, Tier1Books, Tier2Books, Tier3Books, Tier1Methods, Tier2Methods, Tier3Methods
<1> QED
  BY <1>2, <1>3, <1>4, <1>5, <1>6, <1>7, <1>8

LEMMA MethodKeeps ==
    ASSUME FixSound(fix), ApplyMethod
    PROVE  FixSound(fix')
<1> DEFINE loops == {"restoreCoreFiles", "deactivateProblematicPlugins", "deactivatePluginsByPriority"}
<1>1. PICK m, t, s :
        /\ m = Head(fix.todo) /\ t = [fix EXCEPT !.todo = Tail(@)]
        /\ s = IF m \in loops THEN fix ELSE t
  OBVIOUS
<1>2. /\ fix.phase = "running"
      /\ fix' \in CASE m \in Tier1Methods -> Tier1Method(m, s)
                    [] m \in Tier2Methods -> Tier2Method(m, s)
                    [] m \in Tier3Methods -> Tier3Method(m, s)
  BY <1>1 DEF ApplyMethod
<1>3. /\ m \in Tier1Methods => \A r \in Tier1Method(m, t) : FixSound(r)
      /\ m = "restoreCoreFiles" => \A r \in RestoreCoreFiles(fix) : FixSound(r)
      /\ m \in Tier2Methods \ {"restoreCoreFiles"} => \A r \in Tier2Method(m, t) : FixSound(r)
      /\ m = "deactivateProblematicPlugins" =>
           \A r \in DeactivateProblematicPlugins(fix) : FixSound(r)
      /\ m = "deactivatePluginsByPriority" =>
           \A r \in DeactivatePluginsByPriority(fix) : FixSound(r)
      /\ m \in Tier3Methods \ {"deactivateProblematicPlugins", "deactivatePluginsByPriority"} =>
           \A r \in Tier3Method(m, t) : FixSound(r)
      /\ m \in Tier1Methods \cup Tier2Methods \cup Tier3Methods
  BY <1>1, <1>2, MethodSound
<1>4. /\ Tier1Methods \cap Tier2Methods = {} /\ Tier1Methods \cap Tier3Methods = {}
      /\ Tier2Methods \cap Tier3Methods = {}
  BY DEF Tier1Methods, Tier2Methods, Tier3Methods
<1>5. /\ loops \cap Tier1Methods = {}
      /\ loops \cap Tier2Methods = {"restoreCoreFiles"}
      /\ loops \cap Tier3Methods = {"deactivateProblematicPlugins", "deactivatePluginsByPriority"}
  BY DEF Tier1Methods, Tier2Methods, Tier3Methods
<1> HIDE DEF loops
<1>6. CASE m \in Tier1Methods
  <2>1. fix' \in Tier1Method(m, s) /\ s = t
    BY <1>1, <1>2, <1>4, <1>5, <1>6
  <2> QED
    BY <1>3, <1>6, <2>1
<1>7. CASE m \in Tier2Methods
  <2>1. fix' \in Tier2Method(m, s)
    BY <1>2, <1>4, <1>7
  <2>2. CASE m = "restoreCoreFiles"
    <3>1. s = fix
      BY <1>1, <1>5, <2>2
    <3>2. fix' \in RestoreCoreFiles(fix)
      BY <2>1, <2>2, <3>1 DEF Tier2Method
    <3> QED
      BY <1>3, <2>2, <3>2
  <2>3. CASE m # "restoreCoreFiles"
    <3>1. s = t
      BY <1>1, <1>5, <1>7, <2>3
    <3> QED
      BY <1>3, <1>7, <2>1, <2>3, <3>1
  <2> QED
    BY <2>2, <2>3
<1>8. CASE m \in Tier3Methods
  <2>1. fix' \in Tier3Method(m, s)
    BY <1>2, <1>4, <1>8
  <2>2. CASE m = "deactivateProblematicPlugins"
    <3>1. s = fix
      BY <1>1, <1>5, <2>2
    <3>2. fix' \in DeactivateProblematicPlugins(fix)
      BY <2>1, <2>2, <3>1 DEF Tier3Method
    <3> QED
      BY <1>3, <2>2, <3>2
  <2>3. CASE m = "deactivatePluginsByPriority"
    <3>1. s = fix
      BY <1>1, <1>5, <2>3
    <3>2. fix' \in DeactivatePluginsByPriority(fix)
      BY <2>1, <2>3, <3>1 DEF Tier3Method
    <3> QED
      BY <1>3, <2>3, <3>2
  <2>4. CASE m \notin {"deactivateProblematicPlugins", "deactivatePluginsByPriority"}
    <3>1. s = t
      BY <1>1, <1>5, <1>8, <2>4
    <3> QED
      BY <1>3, <1>8, <2>1, <2>4, <3>1
  <2> QED
    BY <2>2, <2>3, <2>4
<1> QED
  BY <1>3, <1>6, <1>7, <1>8

LEMMA ApplyKeeps ==
    ASSUME FixSound(fix), ApplyPlaybook
    PROVE  FixSound(fix')
<1>1. PICK s : s = [fix EXCEPT !.phase = "running"]
  OBVIOUS
<1>2. /\ fix.phase = "applying"
      /\ fix' \in CASE TierOf(s.book) = 1 -> Tier1Apply(s)
                    [] TierOf(s.book) = 2 -> Tier2Apply(s)
                    [] TierOf(s.book) = 3 -> Tier3Apply(s)
  BY <1>1 DEF ApplyPlaybook
<1>3. /\ RunShape(fix) /\ Plan(fix) /\ Untouched(fix) /\ fix.steps = <<>> /\ fix.book \in Playbooks
      /\ fix.verdict \in {"none", "success", "failure"}
  BY <1>2 DEF FixSound
<1>4. DOMAIN s = Fields /\ s.phase = "running" /\ \A x \in Fields \ {"phase"} : s[x] = fix[x]
  BY <1>1, <1>3 DEF RunShape, Fields
<1>5. /\ s.site = fix.site /\ s.before = fix.before /\ s.books = fix.books /\ s.book = fix.book
      /\ s.steps = fix.steps /\ s.unknown = fix.unknown /\ s.verdict = fix.verdict
  BY <1>4 DEF Fields
<1>6. RunShape(s)
  BY <1>3, <1>4, <1>5 DEF RunShape, Fields
<1>7. Plan(s)
  BY <1>3, <1>5, PlanParts
<1>8. Starts(s)
  BY <1>3, <1>4, <1>5, <1>6, <1>7 DEF Starts, Untouched
<1>9. CASE s.book \in Tier1Books
  <2>1. fix' \in Tier1Apply(s)
    BY <1>2, <1>9, TiersAre
  <2>2. s.book \in {"disk", "memory", "errorlog", "webserver", "database"}
    BY <1>9 DEF Tier1Books
  <2> QED
    BY <1>8, <2>1, <2>2, Tier1ApplySound
<1>10. CASE s.book \in Tier2Books
  <2>1. fix' \in Tier2Apply(s)
    BY <1>2, <1>10, TiersAre
  <2>2. s.book \in {"wpconfig", "core", "tables"}
    BY <1>10 DEF Tier2Books
  <2> QED
    BY <1>8, <2>1, <2>2, Tier2ApplySound
<1>11. CASE s.book \in Tier3Books
  <2>1. fix' \in Tier3Apply(s)
    BY <1>2, <1>11, TiersAre
  <2> QED
    BY <1>8, <1>11, <2>1, Tier3ApplySound
<1> QED
  BY <1>3, <1>5, <1>9, <1>10, <1>11, PlaybooksAre

LEMMA BeginSound ==
    ASSUME NEW s, RunShape(s), s.site["active_plugins"] = {}, NEW book \in Playbooks,
           book \in Tier3Books => s.books = <<>>,
           NEW r, r = Begin(s, book)
    PROVE  FixSound(r)
<1>1. /\ DOMAIN r = Fields /\ r.book = book /\ r.before = s.site /\ r.steps = <<>>
      /\ r.changed = FALSE /\ r.verdict = "none" /\ r.unknown = {} /\ r.phase = "applying"
      /\ \A x \in Fields \ {"book", "before", "steps", "changed", "verdict", "unknown", "phase"} :
            r[x] = s[x]
  BY DEF Begin, RunShape, Fields
<1>2. r.site = s.site /\ r.books = s.books
  BY <1>1 DEF Fields
<1>3. RunShape(r)
  <2>1. r.steps \in Seq(PlanSteps)
    BY <1>1
  <2> QED
    BY <1>1, <1>2, <2>1 DEF RunShape, Fields
<1>4. FilesPlanned(r)
  BY <1>1, <1>2 DEF FilesPlanned
<1>5. PluginsPlanned(r)
  BY <1>1, <1>2 DEF PluginsPlanned
<1>6. DOMAIN r.steps = {}
  BY <1>1
<1>7. CopiesTrue(r) /\ OrdersFixed(r)
  BY <1>6 DEF CopiesTrue, OrdersFixed
<1>8. Alone(r)
  BY <1>1, <1>2 DEF Alone
<1>9. Plan(r)
  BY <1>4, <1>5, <1>7, <1>8 DEF Plan
<1>10. Untouched(r)
  BY <1>1, <1>2 DEF Untouched
<1> QED
  BY <1>1, <1>3, <1>9, <1>10 DEF FixSound

(* A run that goes on to another phase in which nothing happens.            *)
LEMMA TurnSound ==
    ASSUME NEW s, RunShape(s), Plan(s), s.verdict \in {"none", "success", "failure"},
           NEW books \in Seq(Playbooks), s.book \in Tier3Books => books = <<>>,
           NEW phase \in {"deciding", "over"},
           NEW r, r = [s EXCEPT !.phase = phase, !.books = books]
    PROVE  FixSound(r)
<1>1. /\ DOMAIN r = Fields /\ r.phase = phase /\ r.books = books
      /\ \A x \in Fields \ {"phase", "books"} : r[x] = s[x]
  BY DEF RunShape, Fields
<1>2. /\ r.site = s.site /\ r.before = s.before /\ r.book = s.book /\ r.steps = s.steps
      /\ r.unknown = s.unknown /\ r.verdict = s.verdict
  BY <1>1 DEF Fields
<1>3. RunShape(r)
  BY <1>1, <1>2 DEF RunShape, Fields
<1>4. PICK q : q = [r EXCEPT !.books = s.books]
  OBVIOUS
<1>5. /\ q.books = s.books /\ \A x \in Fields \ {"books"} : q[x] = r[x]
  BY <1>1, <1>4 DEF Fields
<1>6. /\ q.site = s.site /\ q.before = s.before /\ q.book = s.book /\ q.steps = s.steps
      /\ q.unknown = s.unknown /\ q.books = s.books
  BY <1>2, <1>5 DEF Fields
<1>7. Plan(q)
  BY <1>6, PlanParts
<1>a. r.steps = q.steps /\ r.before = q.before /\ r.unknown = q.unknown
  BY <1>2, <1>6
<1>8. /\ \A t : Excused(r, t) <=> Excused(q, t)
      /\ \A t : Twice(r, t) <=> Twice(q, t)
  BY <1>a, SamePlan
<1>9. /\ \A t : Restores(r, t) <=> Restores(q, t)
      /\ \A t : Reactivates(r, t) <=> Reactivates(q, t)
  BY <1>2, <1>6 DEF Restores, Reactivates
<1>10. FilesPlanned(r)
  BY <1>2, <1>6, <1>7, <1>8, <1>9 DEF Plan, FilesPlanned, Covered
<1>11. PluginsPlanned(r)
  BY <1>2, <1>6, <1>7, <1>9 DEF Plan, PluginsPlanned
<1>12. CopiesTrue(r)
  BY <1>2, <1>6, <1>7, <1>8 DEF Plan, CopiesTrue
<1>13. OrdersFixed(r)
  BY <1>2, <1>6, <1>7 DEF Plan, OrdersFixed
<1>14. Alone(r)
  BY <1>1, <1>2, <1>6, <1>7 DEF Plan, Alone
<1>15. Plan(r)
  BY <1>10, <1>11, <1>12, <1>13, <1>14 DEF Plan
<1>16. Over(r)
  BY <1>2 DEF Over
<1> QED
  BY <1>1, <1>2, <1>3, <1>15, <1>16 DEF FixSound

LEMMA DecideKeeps ==
    ASSUME FixSound(fix), DecidePlaybook
    PROVE  FixSound(fix')
<1>1. /\ RunShape(fix) /\ Plan(fix) /\ fix.verdict \in {"none", "success", "failure"}
      /\ fix.phase = "deciding"
  BY DEF DecidePlaybook, FixSound
<1>2. CASE fix.books = <<>>
  <2>1. fix' = [fix EXCEPT !.phase = "over", !.books = fix.books]
    <3>1. fix' = [fix EXCEPT !.phase = "over"]
      BY <1>2 DEF DecidePlaybook
    <3> QED
      BY <1>1, <3>1 DEF RunShape, Fields
  <2>2. fix.books \in Seq(Playbooks)
    BY <1>2
  <2> QED
    BY <1>1, <1>2, <2>1, <2>2, TurnSound
<1>3. CASE fix.books # <<>>
  <2>1. PICK book : book = Head(fix.books)
    OBVIOUS
  <2>2. fix.books \in Seq(Playbooks)
    BY <1>1 DEF RunShape
  <2>3. book \in Playbooks /\ Tail(fix.books) \in Seq(Playbooks)
    BY <1>3, <2>1, <2>2
  <2>4. fix.book \notin Tier3Books /\ fix.site["active_plugins"] = {}
    BY <1>1, <1>3 DEF Plan, Alone
  <2>5. PICK c \in CanApply(book, fix) :
          LET s == [c.run EXCEPT !.books = Tail(@)]
          IN  fix' = IF c.ok THEN Begin(s, book) ELSE s
    BY <1>3, <2>1 DEF DecidePlaybook
  <2>6. PICK u : u = c.run
    OBVIOUS
  <2>7. Like(fix, u) /\ (book \in Tier3Books => ~c.ok)
    BY <1>1, <2>3, <2>6, CanApplyLike
  <2>8. /\ u.books = fix.books /\ u.site = fix.site /\ u.book = fix.book /\ u.verdict = fix.verdict
        /\ u.phase = fix.phase
    BY <2>7 DEF Like, Fields
  <2>9. RunShape(u) /\ Plan(u)
    BY <1>1, <2>7, LikeGoes DEF Goes
  <2>10. PICK s : s = [u EXCEPT !.phase = "deciding", !.books = Tail(fix.books)]
    OBVIOUS
  <2>11. s = [u EXCEPT !.books = Tail(@)]
    BY <1>1, <2>8, <2>9, <2>10 DEF RunShape, Fields
  <2>12. FixSound(s)
    BY <1>1, <2>3, <2>4, <2>8, <2>9, <2>10, TurnSound
  <2>13. CASE ~c.ok
    BY <2>5, <2>6, <2>11, <2>12, <2>13
  <2>14. CASE c.ok
    <3>1. fix' = Begin(s, book)
      BY <2>5, <2>6, <2>11, <2>14
    <3>2. RunShape(s)
      BY <2>12 DEF FixSound
    <3>3. s.site = fix.site
      BY <2>8, <2>9, <2>10 DEF RunShape, Fields
    <3>4. book \notin Tier3Books
      BY <2>7, <2>14
    <3> QED
      BY <2>3, <2>4, <3>1, <3>2, <3>3, <3>4, BeginSound
  <2> QED
    BY <2>13, <2>14
<1> QED
  BY <1>2, <1>3

LEMMA FixKeeps ==
    ASSUME FixSound(fix), FixNext
    PROVE  FixSound(fix')
<1>1. RunShape(fix)
  BY DEF FixSound
<1>2. CASE ExecuteWordPressFixes
  <2>1. /\ Plan(fix) /\ fix.verdict \in {"none", "success", "failure"} /\ fix.book = "none"
    BY <1>2 DEF ExecuteWordPressFixes, FixSound
  <2>2. "none" \notin Tier3Books
    BY DEF Tier3Books
  <2>3. PICK books : books = PlaybooksUpTo(fix.maxTier)
    OBVIOUS
  <2>4. books \in Seq(Playbooks)
    BY <2>3, UpTo
  <2>5. fix' = [fix EXCEPT !.phase = "deciding", !.books = books]
    BY <1>2, <2>3 DEF ExecuteWordPressFixes
  <2> QED
    BY <1>1, <2>1, <2>2, <2>4, <2>5, TurnSound
<1>3. ASSUME NEW b \in Playbooks, ExecuteSpecificPlaybook(b)
      PROVE  FixSound(fix')
  <2>1. Plan(fix) /\ fix.book = "none" /\ fix.books = <<>>
    BY <1>3 DEF ExecuteSpecificPlaybook, FixSound
  <2>2. "none" \notin Tier3Books
    BY DEF Tier3Books
  <2>3. fix.site["active_plugins"] = {}
    BY <2>1, <2>2 DEF Plan, Alone
  <2>4. fix' = Begin(fix, b)
    BY <1>3 DEF ExecuteSpecificPlaybook
  <2> QED
    BY <1>1, <1>3, <2>1, <2>3, <2>4, BeginSound
<1>4. CASE NextPlaybook
  <2>1. Plan(fix) /\ fix.verdict \in {"none", "success", "failure"}
    BY <1>4 DEF NextPlaybook, FixSound
  <2>2. CASE fix' = [fix EXCEPT !.phase = "over", !.books = <<>>]
    <3>1. <<>> \in Seq(Playbooks)
      OBVIOUS
    <3> QED
      BY <1>1, <2>1, <2>2, <3>1, TurnSound
  <2>3. CASE fix' = [fix EXCEPT !.phase = "deciding"]
    <3>1. fix' = [fix EXCEPT !.phase = "deciding", !.books = fix.books]
      BY <1>1, <2>3 DEF RunShape, Fields
    <3>2. fix.books \in Seq(Playbooks) /\ (fix.book \in Tier3Books => fix.books = <<>>)
      BY <1>1, <2>1 DEF RunShape, Plan, Alone
    <3> QED
      BY <1>1, <2>1, <3>1, <3>2, TurnSound
  <2> QED
    BY <1>4, <2>2, <2>3 DEF NextPlaybook
<1>5. CASE RollbackFix
  BY <1>5, RollingFrom DEF RollbackFix
<1>6. CASE RollbackOneStep
  BY <1>6, RollsSound DEF RollbackOneStep
<1> QED
  BY <1>2, <1>3, <1>4, <1>5, <1>6, DecideKeeps, ApplyKeeps, MethodKeeps DEF FixNext

LEMMA NewRunSound ==
    ASSUME NEW site \in Sites, NEW mentioned, NEW maxTier \in 1..3
    PROVE  FixSound(NewRun(site, mentioned, maxTier))
<1>1. PICK r : r = NewRun(site, mentioned, maxTier)
  OBVIOUS
<1>2. site \in [Targets -> Contents] /\ site["active_plugins"] = {}
  <2>1. Healthy \in [Targets -> Contents] /\ \A t \in Targets : Healthy[t] = {}
    BY DEF Healthy, Contents
  <2>2. CASE site = Healthy
    BY <2>1, <2>2, FilesAre
  <2>3. ASSUME NEW d \in Damages, site = [Healthy EXCEPT ![d[1]] = d[2]]
        PROVE  site \in [Targets -> Contents] /\ site["active_plugins"] = {}
    <3>a. PICK t \in {"wp-config.php", ".htaccess", "index.php", "wp-load.php", "database",
                      "theme backups"},
               content \in {{"invalid"}, Absent, {"corrupt"}, {"stylesheet"}} : d = <<t, content>>
      BY DEF Damages
    <3>1. d[1] = t /\ d[2] = content
      BY <3>a
    <3>2. content \in Contents /\ t # "active_plugins"
      BY <3>a DEF Absent, Contents, Marks
    <3>3. d[2] \in Contents /\ d[1] # "active_plugins"
      BY <3>1, <3>2
    <3> QED
      BY <2>1, <2>3, <3>3, FilesAre
  <2> QED
    BY <2>2, <2>3 DEF Sites
<1>3. /\ DOMAIN r = Fields /\ r.site = site /\ r.before = site /\ r.maxTier = maxTier
      /\ r.books = <<>> /\ r.book = "none" /\ r.steps = <<>> /\ r.changed = FALSE
      /\ r.verdict = "none" /\ r.applied = {} /\ r.unknown = {} /\ r.faults = 0
      /\ r.phase = "choosing"
  BY <1>1 DEF NewRun, Fields
<1>4. RunShape(r)
  <2>1. r.books \in Seq(Playbooks) /\ r.steps \in Seq(PlanSteps)
    BY <1>3
  <2>2. r.faults \in 0..MaxFaults
    BY <1>3, FaultsAssumption
  <2> QED
    BY <1>2, <1>3, <2>1, <2>2 DEF RunShape
<1>5. FilesPlanned(r)
  BY <1>3 DEF FilesPlanned
<1>6. PluginsPlanned(r)
  BY <1>2, <1>3 DEF PluginsPlanned
<1>7. DOMAIN r.steps = {}
  BY <1>3
<1>8. CopiesTrue(r) /\ OrdersFixed(r)
  BY <1>7 DEF CopiesTrue, OrdersFixed
<1>9. Alone(r)
  BY <1>2, <1>3 DEF Alone, Tier3Books
<1>10. Plan(r)
  BY <1>5, <1>6, <1>8, <1>9 DEF Plan
<1> QED
  BY <1>1, <1>3, <1>4, <1>10 DEF FixSound

LEMMA FixStarts ==
    ASSUME FixInit
    PROVE  FixSound(fix)
BY NewRunSound DEF FixInit
-----------------------------------------------------------------------------
LEMMA FixMeans ==
    ASSUME FixSound(fix)
    PROVE  FixType /\ ChangesArePlanned /\ RollbackRestores
<1>1. RunShape(fix)
  BY DEF FixSound
<1>2. FixType
  <2>1. /\ fix.phase \in {"choosing", "deciding", "applying", "running", "returned", "rolling", "over"}
        /\ fix.verdict \in {"none", "success", "failure", "rolled back", "not rolled back"}
    BY DEF FixSound
  <2>2. /\ fix.book \in Playbooks \cup {"none"} /\ fix.applied \subseteq Playbooks
        /\ DOMAIN fix.site = Targets /\ DOMAIN fix.before = Targets
        /\ fix.unknown \subseteq Targets /\ fix.faults \in 0..MaxFaults
        /\ fix.changed \in BOOLEAN
    BY <1>1 DEF RunShape
  <2>3. \A i \in DOMAIN fix.steps : fix.steps[i].target \in Targets /\ fix.steps[i].order \in 0..9
    <3>1. fix.steps \in Seq(PlanSteps)
      BY <1>1 DEF RunShape
    <3>2. \A i \in DOMAIN fix.steps : fix.steps[i] \in PlanSteps
      BY <3>1, LenProperties
    <3> QED
      BY <3>2 DEF PlanSteps
  <2>4. fix.phase = "running" => fix.todo # <<>>
    BY DEF FixSound, Running, TodoFine
  <2> QED
    BY <2>1, <2>2, <2>3, <2>4 DEF FixType
<1>3. ChangesArePlanned
  <2> SUFFICES ASSUME fix.phase = "returned", NEW t \in Restorable, Differs(t)
               PROVE  \/ \E i \in DOMAIN fix.steps : Undoes(fix.steps[i], t)
                      \/ fix.book = "deactivation" /\ fix.site[t] = Essential
                      \/ fix.book = "themerollback" /\ t = "theme"
    BY DEF ChangesArePlanned
  <2>1. Plan(fix) /\ ~Excused(fix, t) /\ fix.site[t] # fix.before[t]
    BY DEF FixSound, Differs, Excused
  <2>2. CASE t \in Files
    <3>1. Restores(fix, t) \/ (fix.book = "themerollback" /\ t = "theme")
      BY <2>1, <2>2 DEF Plan, FilesPlanned, Covered
    <3> QED
      BY <3>1 DEF Restores, Undoes
  <2>3. CASE t \notin Files
    <3>1. t = "active_plugins"
      BY <2>3, FilesAre
    <3>2. /\ fix.before[t] = {} /\ fix.site[t] # {}
          /\ \A p \in fix.site[t] : Reactivates(fix, p) \/ (fix.book = "deactivation" /\ p \in Essential)
      BY <2>1, <3>1 DEF Plan, PluginsPlanned, Excused
    <3>3. ASSUME NEW p \in fix.site[t], Reactivates(fix, p)
          PROVE  \E i \in DOMAIN fix.steps : Undoes(fix.steps[i], t)
      <4>1. PICK i \in DOMAIN fix.steps : fix.steps[i].kind = "reactivate"
        BY <3>3 DEF Reactivates
      <4>2. fix.steps[i].target = "active_plugins"
        BY <2>1, <4>1 DEF Plan, CopiesTrue
      <4>3. fix.steps[i].content \cap fix.before[t] = {}
        BY <3>2
      <4> QED
        BY <3>1, <4>1, <4>2, <4>3 DEF Undoes
    <3>4. CASE \A p \in fix.site[t] : ~Reactivates(fix, p)
      <4>1. fix.book = "deactivation" /\ fix.site[t] \subseteq Essential
        BY <3>2, <3>4
      <4>2. Essential = {"seo"}
        BY DEF Essential, CategorizePlugins
      <4> QED
        BY <3>2, <4>1, <4>2
    <3> QED
      BY <3>3, <3>4
  <2> QED
    BY <2>2, <2>3
<1>4. RollbackRestores
  <2> SUFFICES ASSUME fix.phase = "over", fix.verdict = "rolled back", NEW t \in Restorable, Differs(t)
               PROVE  \E i, j \in DOMAIN fix.steps :
                        /\ i # j /\ fix.steps[i].target = t /\ fix.steps[j].target = t
                        /\ fix.steps[i].order = fix.steps[j].order
    BY DEF RollbackRestores
  <2>1. Over(fix) /\ ~Excused(fix, t) /\ fix.site[t] # fix.before[t]
    BY DEF FixSound, Differs, Excused
  <2>2. Twice(fix, t)
    BY <2>1 DEF Over
  <2> QED
    BY <2>2 DEF Twice
<1> QED
  BY <1>2, <1>3, <1>4

FixSafe == FixSound(fix)

LEMMA FixStep == FixSafe /\ [FixNext]_fix => FixSafe'
<1> SUFFICES ASSUME FixSafe, [FixNext]_fix
             PROVE  FixSafe'
  OBVIOUS
<1>1. CASE FixNext
  BY <1>1, FixKeeps DEF FixSafe
<1>2. CASE UNCHANGED fix
  <2>1. fix' = fix
    BY <1>2
  <2> QED
    BY <2>1 DEF FixSafe
<1> QED
  BY <1>1, <1>2

(* Whatever the playbook, its faults and the site it meets: what it changed *)
(* can be put back by its plan, and a rollback that reports success has put *)
(* everything back, but for the exceptions that ChangesArePlanned and       *)
(* RollbackRestores name (BaseFixPlaybook.rollback and the playbooks).      *)
THEOREM FixesCanBeUndone == FixSpec => [](FixType /\ ChangesArePlanned /\ RollbackRestores)
<1>1. FixInit => FixSafe
  BY FixStarts DEF FixSafe
<1>2. FixSafe => FixType /\ ChangesArePlanned /\ RollbackRestores
  BY FixMeans DEF FixSafe
<1> QED
  BY <1>1, <1>2, FixStep, PTL DEF FixSpec
=============================================================================

------------------------------ MODULE CoreFixes ------------------------------
(***************************************************************************)
(* The playbooks of tier 2 (src/src/wordpress-fixes/playbooks): the files  *)
(* of WordPress itself, wp-config.php, and the tables of the database.     *)
(***************************************************************************)
EXTENDS FixBase

CoreFiles == {"index.php", "wp-load.php"}

(***************************************************************************)
(* wordpress-core-integrity                                                *)
(***************************************************************************)

(* Whether every file is there: a probe that fails counts as a missing one. *)
CheckCoreFilesExist(s) == Asked(s, {\A f \in CoreFiles : Exists(s, f)}, FALSE)

CoreCanApply(s) ==
    IF {"core file", "wp-config"} \cap s.topics # {} THEN {Ran(s, s)}
    ELSE {[ok |-> ~check.answer, run |-> check.run] : check \in CheckCoreFilesExist(s)}

(* From version.php, readme.html or WP-CLI, whichever answers first.        *)
DetectWordPressVersion(s) == UNION {Asked(s, BOOLEAN, found) : found \in BOOLEAN}

(* A file is damaged when it is missing, or shorter than 100 bytes.         *)
CheckCoreFileIntegrity(s) ==
    LET damaged == {f \in CoreFiles : s.site[f] \in {Absent, Torn, {"corrupt"}}}
    IN  UNION {Asked(s, {damaged}, damaged \cup {f}) : f \in CoreFiles}

(* mkdir, wget and tar in turn.                                             *)
DownloadWordPressCore(s) == Script(s)

CoreApply(s) ==
    LET restore(damaged, d) ==
            IF d.ok THEN Goto([d.run EXCEPT !.facts = damaged], <<"restoreCoreFiles">>)
            ELSE Return(d.run, FALSE, FALSE)
        checked(c) == IF c.answer = {} THEN {Return(c.run, TRUE, FALSE)}
                      ELSE {restore(c.answer, d) : d \in DownloadWordPressCore(c.run)}
    IN  UNION {IF v.answer THEN UNION {checked(c) : c \in CheckCoreFileIntegrity(v.run)}
               ELSE {Return(v.run, FALSE, FALSE)} : v \in DetectWordPressVersion(s)}

(* The copy made of a file before it is overwritten; without one it is      *)
(* overwritten all the same.                                                *)
CopiedFirst(s, f) ==
    {IF b.ok
     THEN AddStep(b.run, f, s.site[f], Cardinality({g \in CoreFiles : s.site[g] = {"official"}}))
     ELSE IF Exists(s, f) THEN InTheDark(b.run, f) ELSE b.run : b \in CreateBackup(s, f)}

(* Mutant: the copy of a file is made when it has been overwritten.         *)
RestoreCoreFilesCopyLate(s) ==
    LET f == CHOOSE g \in s.facts : TRUE
        rest(t) == [t EXCEPT !.facts = @ \ {f},
                             !.todo = IF s.facts = {f} THEN <<"verifyCoreFiles">>
                                                       ELSE <<"restoreCoreFiles">>]
    IN  UNION {CopiedFirst(IF c.ok THEN Changed(rest(c.run)) ELSE rest(c.run), f) :
                   c \in Command(s, f, {"official"})}

(* One file after the other is fetched from the distribution.               *)
RestoreCoreFiles(s) ==
    LET f == CHOOSE g \in s.facts : TRUE
        rest(t) == [t EXCEPT !.facts = @ \ {f},
                             !.todo = IF s.facts = {f} THEN <<"verifyCoreFiles">>
                                                       ELSE <<"restoreCoreFiles">>]
    IN  UNION {{IF c.ok THEN Changed(rest(c.run)) ELSE rest(c.run) :
                    c \in Command(t, f, {"official"})} : t \in CopiedFirst(s, f)}

VerifyCoreFiles(s) ==
    {Return(c.run, s.changed /\ c.answer, s.changed) : c \in CheckCoreFilesExist(s)}

(***************************************************************************)
(* wp-config-validation                                                    *)
(***************************************************************************)

Broken(content) == content \cap {"invalid", "torn", "absent"} # {}

(* validateWpConfigBasics: the file names fewer than four database          *)
(* constants; so it seems when the probe fails.                             *)
ConfigCanApply(s) ==
    IF {"wp-config", "database error"} \cap s.topics # {} THEN {Ran(s, s)}
    ELSE {[ok |-> ~c.answer, run |-> c.run] :
             c \in Asked(s, {~Broken(s.site["wp-config.php"])}, FALSE)}

(* The constants, keys and placeholders of a content, and the syntax of the *)
(* file as it is on the server.                                             *)
ValidateWpConfig(s, content) ==
    Asked(s, {~Broken(content) /\ ~Broken(s.site["wp-config.php"])}, FALSE)

(* The file is looked for, read and validated.  One that cannot be read     *)
(* counts as empty.                                                         *)
ConfigApply(s) ==
    LET repair(t, facts) ==
            Goto([t EXCEPT !.facts = facts],
                 <<"backupWpConfig", "writeWpConfig">>)
        validated(v) == IF v.answer THEN Return(v.run, TRUE, FALSE)
                        ELSE repair(v.run, {"exists", "read"})
    IN  IF ~Exists(s, "wp-config.php") THEN {repair(s, {})}
        ELSE {validated(v) : v \in ValidateWpConfig(s, s.site["wp-config.php"])}
                \cup {repair(InTheDark(f, "wp-config.php"), {}) : f \in Fault(s)}
                \cup {repair(f, {"exists"}) : f \in Fault(s)}

BackupWpConfig(s) ==
    IF "exists" \notin s.facts THEN {s}
    ELSE {IF b.ok THEN AddStep(b.run, "wp-config.php", s.site["wp-config.php"], 0)
                  ELSE InTheDark(b.run, "wp-config.php") : b \in CreateBackup(s, "wp-config.php")}

(* Name, user and password of the database are made up, the keys are        *)
(* placeholders.                                                            *)
MinimalWpConfig == {"defaults"}

(* The settings that the content has; a content that is not valid may lack  *)
(* them, and the variables of the environment are asked for but not used.   *)
ExtractOrDetectDatabaseSettings(content) ==
    {content} \cup (IF "invalid" \in content THEN {content \cup MinimalWpConfig} ELSE {})

(* updateDatabaseConstants, updateSecurityKeys, addEssentialConstants and   *)
(* ensureProperStructure.  A random key with a "$" before its closing quote *)
(* is a replacement pattern: the rest of the file is put in its place.      *)
Repaired(content) == {(content \ {"invalid"}) \cup {"repaired"}, content \cup {"invalid"}}

(* What was read is completed; where nothing was, or it is too short, the   *)
(* sample or the minimal configuration is.                                  *)
GenerateOrRepairWpConfig(s) ==
    LET content == s.site["wp-config.php"]
        base == IF "read" \in s.facts /\ content # Torn THEN content ELSE MinimalWpConfig
    IN  UNION {Repaired(c) : c \in ExtractOrDetectDatabaseSettings(base)}

(* A script on the server connects with the settings of the file.           *)
TestDatabaseConnection(s) ==
    IF Broken(s.site["wp-config.php"]) THEN {[ok |-> FALSE, run |-> s]} ELSE Script(s)

(* The mode of the file is set, and counts as a change, whatever became of  *)
(* the write.                                                               *)
WriteWpConfig(s) ==
    LET tests(w, content) ==
            UNION {{Return(v.run, w.ok /\ d.ok /\ v.answer, TRUE) :
                        v \in ValidateWpConfig(d.run, content)} : d \in TestDatabaseConnection(w.run)}
    IN  UNION {UNION {tests(w, content) : w \in WriteFileWithBackup(s, "wp-config.php", content)} :
                   content \in GenerateOrRepairWpConfig(s)}

(***************************************************************************)
(* database-table-repair                                                   *)
(***************************************************************************)

(* Whether WordPress cannot connect.                                        *)
CheckDatabaseHealth(s) == Asked(s, BOOLEAN, TRUE)

TablesCanApply(s) ==
    IF {"database error", "table crashed"} \cap s.topics # {} THEN {Ran(s, s)}
    ELSE {[ok |-> h.answer, run |-> h.run] : h \in CheckDatabaseHealth(s)}

(* The settings come from wp-config.php.                                    *)
GetDatabaseInfo(s) == Asked(s, {~Broken(s.site["wp-config.php"])}, FALSE)

TablesApply(s) ==
    {IF info.answer
     THEN Goto(info.run, <<"createDatabaseBackup", "checkTableStatus", "repairCorruptedTables",
                           "optimizeTables", "repairWordPressOptions">>)
     ELSE Return(info.run, FALSE, FALSE) : info \in GetDatabaseInfo(s)}

(* The repair goes on without a backup.                                     *)
CreateDatabaseBackup(s) ==
    {AddStep(s, "database", s.site["database"], 0)}
        \cup {InTheDark(f, "database") : f \in Fault(s)}

(* When no table is found damaged, or none could be looked at, no plan is   *)
(* handed over.                                                             *)
CheckTableStatus(s) ==
    LET healthy(t) == [Return(t, TRUE, FALSE) EXCEPT !.steps = <<>>]
    IN  (IF "corrupt" \in s.site["database"] THEN {s} ELSE {healthy(s)})
            \cup {healthy(f) : f \in Fault(s)}

RepairCorruptedTables(s) ==
    {IF c.ok THEN Learn(Changed(c.run), "repaired") ELSE c.run :
        c \in Command(s, "database", {"repaired"})} \cup {s}

OptimizeTables(s) == ChangeForGood(s, "database", "optimized")

VerifyTableIntegrity(s) == Asked(s, {"corrupt" \notin s.site["database"]}, FALSE)

(* The options that WordPress cannot do without are put in where they are   *)
(* missing; an answer that no number is read from counts as none.           *)
RepairWordPressOptions(s) ==
    LET ended(t, verified) == Return(t, "repaired" \in s.facts /\ verified, t.changed)
    IN  UNION {{ended(t, v.answer) :
                    t \in {v.run} \cup ChangeForGood(v.run, "database", "options")} :
                   v \in VerifyTableIntegrity(s)}

-----------------------------------------------------------------------------
Tier2CanApply(book, s) ==
    CASE book = "core" -> CoreCanApply(s)
      [] book = "wpconfig" -> ConfigCanApply(s)
      [] book = "tables" -> TablesCanApply(s)

Tier2Apply(s) ==
    CASE s.book = "core" -> CoreApply(s)
      [] s.book = "wpconfig" -> ConfigApply(s)
      [] s.book = "tables" -> TablesApply(s)

Tier2Methods ==
    {"restoreCoreFiles", "verifyCoreFiles", "backupWpConfig", "writeWpConfig",
     "createDatabaseBackup", "checkTableStatus", "repairCorruptedTables", "optimizeTables",
     "repairWordPressOptions"}

Tier2Method(m, s) ==
    CASE m = "restoreCoreFiles" -> RestoreCoreFiles(s)
      [] m = "verifyCoreFiles" -> VerifyCoreFiles(s)
      [] m = "backupWpConfig" -> BackupWpConfig(s)
      [] m = "writeWpConfig" -> WriteWpConfig(s)
      [] m = "createDatabaseBackup" -> CreateDatabaseBackup(s)
      [] m = "checkTableStatus" -> CheckTableStatus(s)
      [] m = "repairCorruptedTables" -> RepairCorruptedTables(s)
      [] m = "optimizeTables" -> OptimizeTables(s)
      [] m = "repairWordPressOptions" -> RepairWordPressOptions(s)
=============================================================================

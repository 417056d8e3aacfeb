------------------------- MODULE InfrastructureFixes -------------------------
(***************************************************************************)
(* The playbooks of tier 1 (src/src/wordpress-fixes/playbooks): disk space, *)
(* PHP memory limit, PHP error logs, web server, database connection.      *)
(*                                                                         *)
(* What a live probe finds is chosen when it is asked.  A clean-up leaves  *)
(* the mark "cleaned" on "logs" or "caches", a directive leaves its own.   *)
(***************************************************************************)
EXTENDS FixBase

(***************************************************************************)
(* disk-space-cleanup                                                      *)
(***************************************************************************)

Usages == {80, 88, 95}

(* checkDiskUsage answers 0 when the probe fails.                           *)
CheckDiskUsage(s) == Asked(s, Usages, 0)

DiskCanApply(s) ==
    IF "disk full" \in s.topics THEN {Ran(s, s)}
    ELSE {[ok |-> d.answer > 85, run |-> d.run] : d \in CheckDiskUsage(s)}

DiskApply(s) ==
    {Goto(Learn(d.run, d.answer),
          <<"cleanTemporaryFiles", "cleanOldLogFiles", "cleanWordPressCache",
            "cleanPackageCache", "finalDiskUsage">>) : d \in CheckDiskUsage(s)}

CleanTemporaryFiles(s) == {s} \cup ChangeForGood(s, "caches", "cleaned")
CleanOldLogFiles(s) == {s} \cup ChangeForGood(s, "logs", "cleaned")

(* fileExists asks for a plain file, and the caches are directories.        *)
CleanWordPressCache(s) == {s} \cup Fault(s)

CleanPackageCache(s) == ChangeForGood(s, "caches", "cleaned")

FinalDiskUsage(s) ==
    LET initial == CHOOSE n \in s.facts : TRUE
    IN  {Return(d.run, initial - d.answer > 0 /\ d.answer < 90, s.changed) :
            d \in CheckDiskUsage(s)}

(***************************************************************************)
(* memory-limit-adjustment                                                 *)
(***************************************************************************)

MemoryCanApply(s) == "memory exhausted" \in s.topics

(* Megabytes; "-1", no limit at all, is read as 0.                          *)
Limits == {0, 256, 4096}
RecommendedLimit(limit) ==
    IF limit < 256 THEN 512 ELSE IF limit < 512 THEN 1024 ELSE 2048

(* getPhpConfiguration: the limit of the command line, and whether the      *)
(* php.ini it loads is found; without the limit the playbook gives up.      *)
GetPhpConfiguration(s) ==
    Asked(s, [limit : Limits, ini : BOOLEAN], [limit |-> -1, ini |-> FALSE])
        \cup {[answer |-> [limit |-> n, ini |-> FALSE], run |-> f] : n \in Limits, f \in Fault(s)}

(* php.ini is written only to raise the limit, the other two also to lower  *)
(* it.                                                                      *)
MemoryApply(s) ==
    LET small(php) == RecommendedLimit(php.limit) > php.limit
        rest(php) == (IF small(php) /\ php.ini THEN <<"updatePhpIni">> ELSE <<>>)
                        \o <<"updateHtaccess", "updateWpConfig", "restartPhpService",
                             "verifyMemoryLimit">>
    IN  {IF p.answer.limit = -1 THEN Return(p.run, FALSE, FALSE)
         ELSE Goto(IF small(p.answer) THEN Learn(p.run, "limit is small") ELSE p.run,
                   rest(p.answer)) : p \in GetPhpConfiguration(s)}

UpdatePhpIni(s) == EditFile(s, "php.ini", "memory_limit", 1)
UpdateHtaccess(s) == EditFile(s, ".htaccess", "memory_limit", 2)
UpdateWpConfig(s) == EditFile(s, "wp-config.php", "memory_limit", 3)

(* The command ends in "|| true": unless SSH fails it counts as a change.   *)
RestartPhpService(s) == {Changed(s)} \cup Fault(s)

(* The command line reads php.ini only, and has to answer the new limit.    *)
VerifyMemoryLimit(s) ==
    LET reached == IF "limit is small" \in s.facts
                   THEN {"memory_limit" \in s.site["php.ini"]}
                   ELSE BOOLEAN
    IN  {Return(s, s.changed /\ ok, s.changed) : ok \in reached}
            \cup {Return(f, FALSE, s.changed) : f \in Fault(s)}

(***************************************************************************)
(* php-error-log-analysis                                                  *)
(***************************************************************************)

ErrorLogCanApply(s) == {"memory exhausted", "php error"} \cap s.topics # {}

ErrorFixes ==
    [increase_execution_time |-> "fixExecutionTimeLimit", fix_permissions |-> "fixFilePermissions"]

(* findPhpErrorLogs and analyzeErrorLogs: the actions that the errors in    *)
(* the logs ask for.  A log that cannot be looked at counts as none.        *)
AnalyzeErrorLogs(s) ==
    LET actions == {"increase_execution_time", "fix_permissions", "other"}
    IN  {[logs |-> FALSE, asked |-> {}]} \cup [logs : {TRUE}, asked : SUBSET actions]

(* applyErrorFixes, applySpecificFix: one fix per action, in the order the  *)
(* logs have them.  Missing extensions, recent changes, a higher memory     *)
(* limit and the rest of the actions change nothing.                        *)
ApplyErrorFixes(s, asked) ==
    {Goto(s, fixes \o <<"cleanupErrorLogs">>) :
        fixes \in SetToSeqs({ErrorFixes[a] : a \in asked \cap DOMAIN ErrorFixes})}

ErrorLogApply(s) ==
    UNION {CASE ~a.logs -> {Return(s, FALSE, FALSE)}
             [] a.logs /\ a.asked = {} -> {Return(s, TRUE, FALSE)}
             [] OTHER -> ApplyErrorFixes(s, a.asked) : a \in AnalyzeErrorLogs(s)}

FixExecutionTimeLimit(s) == EditFile(s, "wp-config.php", "max_execution_time", 1)
FixFilePermissions(s) == ChangeForGood(s, "permissions", "reset")

(* cleanupErrorLogs, only after a change: the logs that told of the errors  *)
(* are emptied.                                                             *)
CleanupErrorLogs(s) ==
    {Return(t, t.changed, t.changed) :
        t \in IF s.changed THEN ChangeForGood(s, "logs", "cleaned") ELSE {s}}

(***************************************************************************)
(* web-server-config-fixes                                                 *)
(***************************************************************************)

WebServerCanApply(s) == "server error" \in s.topics

(* One server after the other is asked for its version; one that does not   *)
(* answer is not there.                                                     *)
DetectWebServer(s) ==
    LET servers == {"apache", "nginx", "litespeed", "unknown"}
    IN  UNION {Asked(s, servers, other) : other \in servers \ {"apache"}}

(* .htaccess is looked at for Apache only.                                  *)
WebServerApply(s) ==
    LET rest == <<"fixUploadLimits", "fixTimeoutSettings", "fixDirectoryPermissions",
                  "restartWebServer">>
    IN  {CASE d.answer = "unknown" -> Return(d.run, FALSE, FALSE)
           [] d.answer = "apache" -> Goto(d.run, <<"fixHtaccessIssues">> \o rest)
           [] OTHER -> Goto(d.run, rest) : d \in DetectWebServer(s)}

(* A file that is there is edited where a directive is missing.  One that   *)
(* only seems missing is replaced by a basic one, for which the plan has no *)
(* step; one that is missing is not created: there is nothing to back up.   *)
FixHtaccessIssues(s) ==
    {s} \cup EditFile(s, ".htaccess", "rewrite", 1)
        \cup UNION {{IF w.ok THEN Changed(w.run) ELSE w.run :
                        w \in WriteFileWithBackup(InTheDark(f, ".htaccess"), ".htaccess",
                                                  {"basic"})} : f \in Fault(s)}

FixUploadLimits(s) == {s} \cup EditFile(s, "wp-config.php", "upload_limits", 1)
FixTimeoutSettings(s) == {s} \cup EditFile(s, "wp-config.php", "timeouts", 1)
FixDirectoryPermissions(s) == {s} \cup ChangeForGood(s, "permissions", "reset")

(* Only after a change; the restart is one more.                            *)
RestartWebServer(s) == {Return(s, s.changed, s.changed)}
                           \cup {Return(f, s.changed, s.changed) : f \in Fault(s)}

(***************************************************************************)
(* database-connection-restoration.  extractConfigValue builds a regular   *)
(* expression with a parenthesis too many: its constructor throws, and      *)
(* apply ends there whenever wp-config.php can be read.  What would follow, *)
(* from the test of the connection to the optimisation, is never reached.   *)
(***************************************************************************)
DatabaseCanApply(s) == "database error" \in s.topics

ExtractDatabaseConfig(s) ==
    Asked(s, IF Exists(s, "wp-config.php") THEN {"throws"} ELSE {"no file"}, "no file")

DatabaseApply(s) ==
    {IF e.answer = "throws" THEN Caught(e.run) ELSE Return(e.run, FALSE, FALSE) :
        e \in ExtractDatabaseConfig(s)}

-----------------------------------------------------------------------------
Tier1CanApply(book, s) ==
    CASE book = "disk" -> DiskCanApply(s)
      [] book = "memory" -> {[ok |-> MemoryCanApply(s), run |-> s]}
      [] book = "errorlog" -> {[ok |-> ErrorLogCanApply(s), run |-> s]}
      [] book = "webserver" -> {[ok |-> WebServerCanApply(s), run |-> s]}
      [] book = "database" -> {[ok |-> DatabaseCanApply(s), run |-> s]}

Tier1Apply(s) ==
    CASE s.book = "disk" -> DiskApply(s)
      [] s.book = "memory" -> MemoryApply(s)
      [] s.book = "errorlog" -> ErrorLogApply(s)
      [] s.book = "webserver" -> WebServerApply(s)
      [] s.book = "database" -> DatabaseApply(s)

Tier1Methods ==
    {"cleanTemporaryFiles", "cleanOldLogFiles", "cleanWordPressCache", "cleanPackageCache",
     "finalDiskUsage", "updatePhpIni", "updateHtaccess", "updateWpConfig",
     "restartPhpService", "verifyMemoryLimit", "fixExecutionTimeLimit", "fixFilePermissions",
     "cleanupErrorLogs", "fixHtaccessIssues", "fixUploadLimits", "fixTimeoutSettings",
     "fixDirectoryPermissions", "restartWebServer"}

(* The method m of the playbook that runs.                                  *)
Tier1Method(m, s) ==
    CASE m = "cleanTemporaryFiles" -> CleanTemporaryFiles(s)
      [] m = "cleanOldLogFiles" -> CleanOldLogFiles(s)
      [] m = "cleanWordPressCache" -> CleanWordPressCache(s)
      [] m = "cleanPackageCache" -> CleanPackageCache(s)
      [] m = "finalDiskUsage" -> FinalDiskUsage(s)
      [] m = "updatePhpIni" -> UpdatePhpIni(s)
      [] m = "updateHtaccess" -> UpdateHtaccess(s)
      [] m = "updateWpConfig" -> UpdateWpConfig(s)
      [] m = "restartPhpService" -> RestartPhpService(s)
      [] m = "verifyMemoryLimit" -> VerifyMemoryLimit(s)
      [] m = "fixExecutionTimeLimit" -> FixExecutionTimeLimit(s)
      [] m = "fixFilePermissions" -> FixFilePermissions(s)
      [] m = "cleanupErrorLogs" -> CleanupErrorLogs(s)
      [] m = "fixHtaccessIssues" -> FixHtaccessIssues(s)
      [] m = "fixUploadLimits" -> FixUploadLimits(s)
      [] m = "fixTimeoutSettings" -> FixTimeoutSettings(s)
      [] m = "fixDirectoryPermissions" -> FixDirectoryPermissions(s)
      [] m = "restartWebServer" -> RestartWebServer(s)
=============================================================================

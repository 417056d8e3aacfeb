--------------------------- MODULE PluginThemeFixes ---------------------------
(***************************************************************************)
(* The playbooks of tier 3 (src/src/wordpress-fixes/playbooks): plugins    *)
(* that conflict, plugins switched off group by group, and themes.         *)
(*                                                                         *)
(* The marks on "active_plugins" are the plugins that are switched off, the *)
(* mark on "theme" is the one switched to, and the one on "theme backups"   *)
(* that theme-switching left one there.  What a PHP script on the server   *)
(* answers is left open: it does what it is written for, or fails.         *)
(*                                                                         *)
(* canApply of each playbook asks fileExists, that is `test -f`, for a     *)
(* directory, and is never true: only executeSpecificPlaybook of           *)
(* WordPressFixesService, which does not ask, runs them.                   *)
(***************************************************************************)
EXTENDS FixBase

(* categorizePlugins: by what the names contain.                            *)
CategorizePlugins ==
    [essential |-> {"seo"}, problematic |-> {"popup", "slider"},
     unknown |-> {"gallery"}, standard |-> {"wp-forms"}]

Essential == CategorizePlugins.essential
Plugins == UNION Range(CategorizePlugins)
DefaultThemes == {"twentyone", "twentytwo"}

Tier3CanApply(s) == {[ok |-> FALSE, run |-> f] : f \in {s} \cup Fault(s)}

(***************************************************************************)
(* plugin-conflict-detection                                               *)
(***************************************************************************)

(* Where WordPress does not load, there are none.                           *)
GetActivePlugins(s) == Asked(s, {{}, Plugins}, {})

(* analyzePluginErrors, assessErrorSeverity and identifyProblematicPlugins: *)
(* the plugins that the error log names as critical or with a warning.      *)
AnalyzePluginErrors(s) == Asked(s, {{}, {"slider"}, {"seo", "slider"}}, {})

BackupPluginState(s) == Script(s)

(* The first step of the plan copies the backup to a place where nothing    *)
(* reads it.                                                                *)
ConflictApply(s) ==
    LET deactivate(found, b) ==
            IF b.ok THEN [AddCommand(b.run, "nothing", "active_plugins", {}, 1)
                             EXCEPT !.facts = found, !.todo = <<"deactivateProblematicPlugins">>]
            ELSE Caught(b.run)
        analyzed(e) == IF e.answer = {} THEN {Return(e.run, TRUE, FALSE)}
                       ELSE {deactivate(e.answer, b) : b \in BackupPluginState(e.run)}
    IN  UNION {IF p.answer = {} THEN {Return(p.run, TRUE, FALSE)}
               ELSE UNION {analyzed(e) : e \in AnalyzePluginErrors(p.run)} : p \in GetActivePlugins(s)}

(* A plugin is switched off by the name its main file would have: the       *)
(* command reports success when there is no such plugin, too.               *)
Deactivated(s, p) ==
    Command(s, "active_plugins", s.site["active_plugins"] \cup {p})

Reactivation(s, p) ==
    AddCommand(s, "reactivate", "active_plugins", {p}, Len(s.steps) + 1)

(* The site is tested in the end, but the result is a success anyway.       *)
DeactivateProblematicPlugins(s) ==
    IF s.facts = {} THEN {Return(s, TRUE, s.changed)}
    ELSE LET p == CHOOSE q \in s.facts : TRUE
             rest(t) == [t EXCEPT !.facts = @ \ {p}]
         IN  {IF c.ok THEN Reactivation(Changed(rest(c.run)), p) ELSE rest(c.run) :
                 c \in Deactivated(s, p) \cup {Ran(s, s)}}

(***************************************************************************)
(* plugin-deactivation                                                     *)
(***************************************************************************)

CreateComprehensivePluginBackup(s) == Script(s)

(* Everything that is not essential is to be switched off, after a backup.  *)
DeactivationApply(s) ==
    LET deactivate(b) ==
            IF b.ok THEN [b.run EXCEPT !.facts = Plugins \ Essential,
                             !.todo = <<"deactivatePluginsByPriority", "selectiveReactivation">>]
            ELSE Caught(b.run)
    IN  UNION {IF p.answer = {} THEN {Return(p.run, TRUE, FALSE)}
               ELSE {deactivate(b) : b \in CreateComprehensivePluginBackup(p.run)} :
                  p \in GetActivePlugins(s)}

(* The group whose turn it is, while some of its plugins are left.          *)
GroupInTurn(left) ==
    LET order == <<CategorizePlugins.problematic, CategorizePlugins.unknown,
                   CategorizePlugins.standard>>
    IN  order[CHOOSE i \in DOMAIN order :
                 order[i] \cap left # {} /\ \A j \in 1..(i - 1) : order[j] \cap left = {}]

(* When the site works again, the break leaves the group, not the groups.   *)
DeactivatePluginsByPriority(s) ==
    IF s.facts = {} THEN {Goto(s, Tail(s.todo))}
    ELSE LET group == GroupInTurn(s.facts)
             p == CHOOSE q \in group \cap s.facts : TRUE
             without(t, ps) == [t EXCEPT !.facts = @ \ ps]
         IN  UNION {IF c.ok THEN {Reactivation(Changed(without(c.run, ps)), p) : ps \in {{p}, group}}
                    ELSE {without(c.run, {p})} : c \in Deactivated(s, p)}

(* The full restore calls update_option without loading WordPress.          *)
WithFullRestore(s) ==
    [s EXCEPT !.steps = <<[kind |-> "broken", target |-> "active_plugins", content |-> {},
                           order |-> 0]>> \o @]

(* Essential plugins, which nobody switched off, are switched on, and off   *)
(* when the site then fails; that is no change, and has no step.            *)
SelectiveReactivation(s) ==
    LET ended(t) == Return(WithFullRestore(t), TRUE, t.changed)
        essential == CHOOSE p \in Essential : TRUE
    IN  {ended(s), ended(Changed(s))}
            \cup {ended(c.run) : c \in Deactivated(s, essential)}

(***************************************************************************)
(* theme-switching                                                         *)
(***************************************************************************)

(* The theme is known, and a default one or not; otherwise it has no name.  *)
GetCurrentTheme(s) == Asked(s, {"default", "own", "no name"}, "no name")

GetAvailableDefaultThemes(s) == Asked(s, {{}, {"twentytwo"}, DefaultThemes}, {})

(* A copy of the name, the template and the settings of the theme is left   *)
(* with the site.                                                           *)
BackupThemeConfiguration(s) ==
    {IF b.ok THEN Ran(s, Put(b.run, "theme backups", {"stylesheet"})) ELSE b : b \in Script(s)}

(* selectBestDefaultTheme keeps a default theme that is in use.             *)
ThemeSwitchApply(s) ==
    LET switch(available, b) ==
            IF b.ok THEN [AddStep(b.run, "theme", b.run.site["theme"], 1)
                             EXCEPT !.facts = available, !.todo = <<"switchToTheme">>]
            ELSE Caught(b.run)
        offered(theme, a) ==
            CASE a.answer = {} -> {Return(a.run, FALSE, FALSE)}
              [] a.answer # {} /\ theme = "default" -> {Return(a.run, TRUE, FALSE)}
              [] OTHER -> {switch(a.answer, b) : b \in BackupThemeConfiguration(a.run)}
    IN  UNION {IF c.answer = "no name" THEN {Return(c.run, FALSE, FALSE)}
               ELSE UNION {offered(c.answer, a) : a \in GetAvailableDefaultThemes(c.run)} :
                  c \in GetCurrentTheme(s)}

(* testSiteAfterThemeSwitch: whether the site answers 200 and shows no error.*)
TestSiteAfterThemeSwitch(s) == Asked(s, BOOLEAN, FALSE)

(* A switch whose answer is lost is an error, and apply hands over no plan. *)
SwitchToTheme(s) ==
    LET tested(t) == IF t.answer \/ s.facts # DefaultThemes THEN Return(t.run, TRUE, TRUE)
                     ELSE Goto(t.run, <<"switchToAlternative">>)
    IN  UNION {IF c.ok THEN {tested(t) : t \in TestSiteAfterThemeSwitch(c.run)}
               ELSE {Caught(c.run)} : c \in Command(s, "theme", {"twentytwo"})}

(* The site does not work with the first theme, and another is tried.       *)
SwitchToAlternative(s) ==
    {Return(c.run, TRUE, TRUE) : c \in Command(s, "theme", {"twentyone"})}

(***************************************************************************)
(* theme-rollback                                                          *)
(***************************************************************************)

(* Whether the stylesheet in use is known.                                  *)
GetCurrentThemeConfiguration(s) == Asked(s, BOOLEAN, FALSE)

(* The backups of theme-switching; one that cannot be read counts as none.  *)
FindAvailableThemeBackups(s) == Asked(s, {s.site["theme backups"] # {}}, FALSE)

(* Without a backup a default theme is switched to; with one, the state is  *)
(* written down first, and the step that restores it does nothing: it runs  *)
(* without WordPress.                                                       *)
ThemeRollbackApply(s) ==
    LET byDefault(a) == IF a.answer = {} THEN Return(a.run, FALSE, FALSE)
                        ELSE Goto(a.run, <<"rollbackToDefaultTheme">>)
        byBackup(b) == IF b.ok THEN Goto(AddCommand(b.run, "nothing", "theme", {}, 1),
                                         <<"restoreThemeFromBackup">>)
                       ELSE Caught(b.run)
        found(k) == IF k.answer THEN {byBackup(b) : b \in Look(k.run)}
                    ELSE {byDefault(a) : a \in GetAvailableDefaultThemes(k.run)}
    IN  UNION {IF c.answer THEN UNION {found(k) : k \in FindAvailableThemeBackups(c.run)}
               ELSE {Return(c.run, FALSE, FALSE)} : c \in GetCurrentThemeConfiguration(s)}

(* A backup of theme-switching has no key 'theme': nothing is switched to,  *)
(* and the restore is reported as done.                                     *)
RestoreThemeFromBackup(s) ==
    {IF r.ok THEN Return(r.run, TRUE, TRUE) ELSE Caught(r.run) : r \in Script(s)}

(* No plan is made for this one.                                            *)
RollbackToDefaultTheme(s) ==
    {IF c.ok THEN Return(c.run, TRUE, TRUE) ELSE Return(c.run, FALSE, FALSE) :
        c \in Command(s, "theme", {"twentytwo"})}

-----------------------------------------------------------------------------
Tier3Apply(s) ==
    CASE s.book = "conflict" -> ConflictApply(s)
      [] s.book = "deactivation" -> DeactivationApply(s)
      [] s.book = "themeswitch" -> ThemeSwitchApply(s)
      [] s.book = "themerollback" -> ThemeRollbackApply(s)

Tier3Methods ==
    {"deactivateProblematicPlugins", "deactivatePluginsByPriority", "selectiveReactivation",
     "switchToTheme", "switchToAlternative", "restoreThemeFromBackup", "rollbackToDefaultTheme"}

Tier3Method(m, s) ==
    CASE m = "deactivateProblematicPlugins" -> DeactivateProblematicPlugins(s)
      [] m = "deactivatePluginsByPriority" -> DeactivatePluginsByPriority(s)
      [] m = "selectiveReactivation" -> SelectiveReactivation(s)
      [] m = "switchToTheme" -> SwitchToTheme(s)
      [] m = "switchToAlternative" -> SwitchToAlternative(s)
      [] m = "restoreThemeFromBackup" -> RestoreThemeFromBackup(s)
      [] m = "rollbackToDefaultTheme" -> RollbackToDefaultTheme(s)
=============================================================================

---------------------------- MODULE WordPressFixes ----------------------------
(***************************************************************************)
(* WordPressFixesService, the registry and the three tiers                 *)
(* (src/src/wordpress-fixes): which playbooks run on a site, in which      *)
(* order, when they stop, and the rollback of the one that ran last.       *)
(*                                                                         *)
(* AppModule leaves the module out for now, and SSHService and              *)
(* EvidenceService lack the methods BaseFixPlaybook calls; it is modelled  *)
(* as its tests run it, with services that have them.                      *)
(***************************************************************************)
EXTENDS InfrastructureFixes, CoreFixes, PluginThemeFixes

VARIABLE fix    \* the run of playbooks on the site

(* Every target that a step of a plan can put back; logs, caches and        *)
(* permissions are changed for good.                                        *)
Restorable ==
    {"php.ini", ".htaccess", "wp-config.php", "database", "active_plugins", "theme"} \cup CoreFiles
Targets == Restorable \cup {"logs", "caches", "permissions", "theme backups"}

Healthy == [t \in Targets |-> {}]

(* Sites the fixes meet: healthy, with one fault, or with several.          *)
Damages == {<<"wp-config.php", {"invalid"}>>, <<"wp-config.php", Absent>>, <<".htaccess", Absent>>,
            <<"index.php", {"corrupt"}>>, <<"wp-load.php", Absent>>, <<"database", {"corrupt"}>>,
            <<"theme backups", {"stylesheet"}>>}
Sites == {Healthy} \cup {[Healthy EXCEPT ![d[1]] = d[2]] : d \in Damages}

Topics == {"disk full", "memory exhausted", "php error", "server error", "database error",
           "core file", "wp-config", "table crashed", "plugin error"}

(***************************************************************************)
(* onModuleInit and registerPlaybook: the playbooks of a tier by priority, *)
(* equal priorities in the order of their registration.                    *)
(***************************************************************************)
PlaybooksForTier ==
    <<<<"database", "disk", "memory", "errorlog", "webserver">>,
      <<"wpconfig", "core", "tables">>,
      <<"conflict", "deactivation", "themeswitch", "themerollback">>>>

(* The tiers one after the other; the tiers from 4 on have no playbooks.    *)
PlaybooksUpTo(tier) ==
    PlaybooksForTier[1] \o (IF tier > 1 THEN PlaybooksForTier[2] ELSE <<>>)
                        \o (IF tier > 2 THEN PlaybooksForTier[3] ELSE <<>>)

TierOf(book) == CHOOSE n \in 1..3 : \E i \in DOMAIN PlaybooksForTier[n] : PlaybooksForTier[n][i] = book
Playbooks == UNION {{PlaybooksForTier[n][i] : i \in DOMAIN PlaybooksForTier[n]} : n \in 1..3}

FixInit ==
    \E site \in Sites, mentioned \in {{}} \cup {{t} : t \in Topics}, maxTier \in 1..3 :
        fix = NewRun(site, mentioned, maxTier)

CanApply(book, s) ==
    CASE TierOf(book) = 1 -> Tier1CanApply(book, s)
      [] TierOf(book) = 2 -> Tier2CanApply(book, s)
      [] TierOf(book) = 3 -> Tier3CanApply(s)

Begin(s, book) ==
    [s EXCEPT !.book = book, !.before = s.site, !.steps = <<>>, !.changed = FALSE,
              !.verdict = "none", !.unknown = {}, !.phase = "applying"]

(* executeWordPressFixes: canApply decides of each.                         *)
ExecuteWordPressFixes ==
    /\ fix.phase = "choosing"
    /\ fix' = [fix EXCEPT !.phase = "deciding",
                          !.books = PlaybooksUpTo(fix.maxTier)]

(* One playbook by its name: canApply is not asked.                         *)
ExecuteSpecificPlaybook(book) ==
    /\ fix.phase = "choosing"
    /\ fix' = Begin(fix, book)

DecidePlaybook ==
    /\ fix.phase = "deciding"
    /\ IF fix.books = <<>>
       THEN fix' = [fix EXCEPT !.phase = "over"]
       ELSE \E c \in CanApply(Head(fix.books), fix) :
              LET s == [c.run EXCEPT !.books = Tail(@)]
              IN  fix' = IF c.ok THEN Begin(s, Head(fix.books)) ELSE s

ApplyPlaybook ==
    /\ fix.phase = "applying"
    /\ LET s == [fix EXCEPT !.phase = "running"]
       IN  fix' \in CASE TierOf(s.book) = 1 -> Tier1Apply(s)
                      [] TierOf(s.book) = 2 -> Tier2Apply(s)
                      [] TierOf(s.book) = 3 -> Tier3Apply(s)

(* One method of apply.                                                     *)
ApplyMethod ==
    /\ fix.phase = "running"
    /\ LET m == Head(fix.todo)
           loops == {"restoreCoreFiles", "deactivateProblematicPlugins",
                     "deactivatePluginsByPriority"}
           s == IF m \in loops THEN fix ELSE [fix EXCEPT !.todo = Tail(@)]
       IN  fix' \in CASE m \in Tier1Methods -> Tier1Method(m, s)
                      [] m \in Tier2Methods -> Tier2Method(m, s)
                      [] m \in Tier3Methods -> Tier3Method(m, s)

(* A fix that succeeded ends its tier and the run; after any other, also    *)
(* one that changed the site, the next playbook is tried.                   *)
NextPlaybook ==
    /\ fix.phase = "returned"
    /\ fix' = IF fix.verdict = "success" /\ fix.book \in fix.applied
              THEN [fix EXCEPT !.phase = "over", !.books = <<>>]
              ELSE [fix EXCEPT !.phase = "deciding"]

(* rollback of the playbook that has just returned; no code of src calls it.*)
RollbackFix ==
    /\ fix.phase = "returned" /\ fix.steps # <<>>
    /\ fix' = [fix EXCEPT !.phase = "rolling", !.todo = Sorted(fix.steps), !.books = <<>>]

RollbackOneStep ==
    /\ fix.phase = "rolling"
    /\ fix' \in RollbackStep(fix)

FixNext ==
    \/ ExecuteWordPressFixes \/ \E b \in Playbooks : ExecuteSpecificPlaybook(b)
    \/ DecidePlaybook \/ ApplyPlaybook \/ ApplyMethod \/ NextPlaybook
    \/ RollbackFix \/ RollbackOneStep

FixSpec == FixInit /\ [][FixNext]_fix

FixType ==
    /\ fix.phase \in {"choosing", "deciding", "applying", "running", "returned", "rolling", "over"}
    /\ fix.verdict \in {"none", "success", "failure", "rolled back", "not rolled back"}
    /\ fix.book \in Playbooks \cup {"none"} /\ fix.applied \subseteq Playbooks
    /\ DOMAIN fix.site = Targets /\ DOMAIN fix.before = Targets
    /\ fix.unknown \subseteq Targets /\ fix.faults \in 0..MaxFaults
    /\ fix.changed \in BOOLEAN
    /\ \A i \in DOMAIN fix.steps : fix.steps[i].target \in Targets /\ fix.steps[i].order \in 0..9
    /\ fix.phase = "running" => fix.todo # <<>>

-----------------------------------------------------------------------------
Differs(t) == fix.site[t] # fix.before[t] /\ t \notin fix.unknown /\ fix.before[t] # Absent

Undoes(step, t) ==
    /\ step.target = t
    /\ \/ step.kind = "restore" /\ step.content = fix.before[t]
       \/ step.kind = "reactivate" /\ step.content \cap fix.before[t] = {}

(* What a playbook changed can be put back by a step of its plan, unless a  *)
(* command failed that it relied on.  Missing from the plans are a file     *)
(* that was not there before, the essential plugins that                    *)
(* selectiveReactivation switches off, and the theme that                   *)
(* rollbackToDefaultTheme leaves.                                           *)
ChangesArePlanned ==
    fix.phase = "returned" =>
        \A t \in Restorable : Differs(t) =>
            \/ \E i \in DOMAIN fix.steps : Undoes(fix.steps[i], t)
            \/ fix.book = "deactivation" /\ fix.site[t] = Essential
            \/ fix.book = "themerollback" /\ t = "theme"

(* A rollback that reports success has put everything back that the        *)
(* playbook changed, unless the plan has two steps of one order for it: the *)
(* copies of wp-config.php of fixUploadLimits and fixTimeoutSettings have   *)
(* both order 1, and the later copy is put back last.                       *)
RollbackRestores ==
    fix.phase = "over" /\ fix.verdict = "rolled back" =>
        \A t \in Restorable : Differs(t) =>
            \E i, j \in DOMAIN fix.steps :
                /\ i # j /\ fix.steps[i].target = t /\ fix.steps[j].target = t
                /\ fix.steps[i].order = fix.steps[j].order

(* rollback takes the steps in the reverse of the order in which they were  *)
(* made, so that one that reports success has put everything back that the  *)
(* playbook changed: equal orders are left as they were.                    *)
RollbackReverses ==
    fix.phase = "over" /\ fix.verdict = "rolled back" => \A t \in Restorable : ~Differs(t)
=============================================================================

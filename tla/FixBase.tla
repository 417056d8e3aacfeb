------------------------------- MODULE FixBase -------------------------------
(***************************************************************************)
(* BaseFixPlaybook and what every playbook of src/src/wordpress-fixes is   *)
(* made of: commands over SSH, backups, files written with a backup, and   *)
(* the rollback plan.                                                      *)
(*                                                                         *)
(* A run of playbooks on one site is a record.  Each method of a playbook  *)
(* is an operator from a run to the set of runs it can end in; "todo" holds *)
(* the methods that are left.  What a target (a file, the list of active   *)
(* plugins, the theme, the database) contains is the set of the marks that  *)
(* edits left on it: the empty set is what was there before.                *)
(*                                                                         *)
(* A command can fail without an effect, stop half way, or take effect and  *)
(* lose its answer (executeCommand catches the error and reports exit code  *)
(* -1): each is one fault, and a run meets at most MaxFaults.               *)
(***************************************************************************)
EXTENDS Naturals, Sequences, FiniteSets, SequencesExt

CONSTANT
    MaxFaults   \* bound: faults of commands in one run

ASSUME FaultsAssumption == MaxFaults \in Nat

Absent == {"absent"}
Torn == {"torn"}

NewRun(site, topics, maxTier) ==
    [site |-> site,         \* what each target contains
     before |-> site,       \* what it contained when the playbook began
     topics |-> topics,     \* what the evidence of the incident mentions
     maxTier |-> maxTier,
     books |-> <<>>,        \* playbooks that are still to be tried
     book |-> "none",       \* the playbook that runs or ran last
     todo |-> <<>>,         \* methods that are left of it
     facts |-> {},          \* what it has found out
     changed |-> FALSE,     \* changes.length > 0
     steps |-> <<>>,        \* rollbackSteps
     verdict |-> "none",    \* what apply returned
     applied |-> {},        \* playbooks that returned applied = true
     unknown |-> {},        \* history: targets that a failed command left it in the dark about
     faults |-> 0,
     phase |-> "choosing"]

Exists(s, t) == s.site[t] # Absent

(* executeCommand: what is left when it has worked is the run "done".       *)
Fault(s) == {[s EXCEPT !.faults = @ + 1] : x \in {1} \cap (1..(MaxFaults - s.faults))}

Ran(s, done) == [ok |-> TRUE, run |-> done]
Failed(s) == {[ok |-> FALSE, run |-> f] : f \in Fault(s)}

(* A command that only looks.                                               *)
Look(s) == {Ran(s, s)} \cup Failed(s)

(* A question to the server: the answers it may give, and what the playbook *)
(* takes for the answer when the command fails.                             *)
Asked(s, answers, unanswered) ==
    {[answer |-> a, run |-> s] : a \in answers}
        \cup {[answer |-> unanswered, run |-> f] : f \in Fault(s)}

(* A script that may also report by itself that it could not do its work.   *)
Script(s) == Look(s) \cup {[ok |-> FALSE, run |-> s]}

(* A probe that failed makes a target look missing, or goes without a copy. *)
InTheDark(s, t) == [s EXCEPT !.unknown = @ \cup {t}]

Put(s, t, content) == [s EXCEPT !.site[t] = content]
PutUnknown(s, t, content) ==
    {InTheDark(Put(f, t, content), t) : f \in Fault(s)}

(* A command that replaces the content of a target.                         *)
Command(s, t, content) ==
    {Ran(s, Put(s, t, content))} \cup Failed(s)
        \cup {[ok |-> FALSE, run |-> f] : f \in PutUnknown(s, t, content)}

(* createBackup: null where there is no file, or when the copy fails.       *)
CreateBackup(s, t) ==
    IF Exists(s, t) THEN Look(s) ELSE {[ok |-> FALSE, run |-> s]}

(* writeFileWithBackup: nothing is written without a backup of its own; the *)
(* file is truncated before it is written.                                  *)
WriteFileWithBackup(s, t, content) ==
    LET write(b) == Command(b.run, t, content)
                       \cup {[ok |-> FALSE, run |-> f] : f \in PutUnknown(b.run, t, Torn)}
    IN  UNION {IF b.ok THEN write(b) ELSE {b} : b \in CreateBackup(s, t)}

Changed(s) == [s EXCEPT !.changed = TRUE]

(* createFileRollbackStep, and createCommandRollbackStep for a command that *)
(* puts a copy back, takes marks off, does nothing, or cannot work.         *)
AddCommand(s, kind, t, content, order) ==
    [s EXCEPT !.steps =
        Append(@, [kind |-> kind, target |-> t, content |-> content, order |-> order])]
AddStep(s, t, copy, order) == AddCommand(s, "restore", t, copy, order)

(* The way most playbooks edit a file: it is there, it is read, backed up,  *)
(* and written with a mark more; the plan gets the copy of that backup.     *)
EditFile(s, t, mark, order) ==
    IF ~Exists(s, t) THEN {s}
    ELSE UNION {IF read.ok
                THEN {IF w.ok THEN AddStep(Changed(w.run), t, s.site[t], order) ELSE w.run :
                          w \in WriteFileWithBackup(read.run, t, s.site[t] \cup {mark})}
                ELSE {read.run} : read \in Look(s)}

(* A clean-up or a setting that no step of the plan undoes.                 *)
ChangeForGood(s, t, mark) ==
    {IF c.ok THEN Changed(c.run) ELSE c.run : c \in Command(s, t, s.site[t] \cup {mark})}

Learn(s, fact) == [s EXCEPT !.facts = @ \cup {fact}]
Goto(s, methods) == [s EXCEPT !.todo = methods]

(* apply returns; the plan is handed over only when it has steps.           *)
Return(s, success, applied) ==
    [s EXCEPT !.verdict = IF success THEN "success" ELSE "failure",
              !.applied = IF applied THEN @ \cup {s.book} ELSE @,
              !.facts = {}, !.changed = applied, !.todo = <<>>, !.phase = "returned"]

(* An error is caught at the end of apply: no changes and no plan are       *)
(* handed over, whatever was done before.                                   *)
Caught(s) == [Return(s, FALSE, FALSE) EXCEPT !.steps = <<>>]

(***************************************************************************)
(* rollback: the steps in descending order, equal orders as they stand     *)
(* (Array.sort is stable); the first that fails ends it.                   *)
(***************************************************************************)
Sorted(steps) ==
    LET before(i) == {j \in DOMAIN steps :
                        \/ steps[j].order > steps[i].order
                        \/ steps[j].order = steps[i].order /\ j <= i}
    IN  [n \in DOMAIN steps |->
            steps[CHOOSE i \in DOMAIN steps : Cardinality(before(i)) = n]]

(* Mutant: a step that fails is passed over.                                *)
RollbackStepLenient(s) ==
    LET st == Head(s.todo)
        after == CASE st.kind = "restore" -> st.content
                   [] st.kind = "reactivate" -> s.site[st.target] \ st.content
                   [] OTHER -> s.site[st.target]
    IN  {IF Len(c.run.todo) = 1 THEN [c.run EXCEPT !.todo = <<>>, !.verdict = "rolled back", !.phase = "over"]
         ELSE [c.run EXCEPT !.todo = Tail(@)] : c \in Command(s, st.target, after)}

RollbackStep(s) ==
    LET st == Head(s.todo)
        after == CASE st.kind = "restore" -> st.content
                   [] st.kind = "reactivate" -> s.site[st.target] \ st.content
                   [] st.kind = "nothing" -> s.site[st.target]
        over(f, verdict) == [f EXCEPT !.todo = <<>>, !.verdict = verdict, !.phase = "over"]
        next(f) == IF Len(f.todo) = 1 THEN over(f, "rolled back") ELSE [f EXCEPT !.todo = Tail(@)]
    IN  IF st.kind = "broken" THEN {over(s, "not rolled back")}
        ELSE {IF c.ok THEN next(c.run) ELSE over(c.run, "not rolled back") :
                 c \in Command(s, st.target, after)}
=============================================================================

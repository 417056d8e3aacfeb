----------------------------- MODULE FlappingStats -----------------------------
(***************************************************************************)
(* What FlappingPreventionService (src/src/jobs/flapping-prevention        *)
(* .service.ts) computes on the statistics of one site: each operator      *)
(* takes a FlappingStats record and returns the record the method leaves.  *)
(* Every method is synchronous, so nothing runs between its steps.         *)
(*                                                                         *)
(* Times are kept relative to the present: `first' and `last' are the ages *)
(* of firstIncidentTime and lastIncidentTime, `cooldown' is the time left  *)
(* until cooldownUntil (0: reached, not yet cleared).                      *)
(***************************************************************************)
EXTENDS Integers

CONSTANTS
    Window,                 \* config.cooldownWindow, in ticks
    MaxIncidentsPerWindow,  \* config.maxIncidentsPerWindow
    EscalationThreshold     \* config.escalationThreshold

ASSUME FlappingAssumption ==
    /\ Window \in Nat \ {0}
    /\ MaxIncidentsPerWindow \in Nat \ {0}
    /\ EscalationThreshold \in Nat \ {0}

NoTime == -1

\* Ages saturate just past the longest age they are compared with, the three
\* windows for which performMaintenance keeps the data of a site.
AgeCap == 3 * Window + 1

StatsType ==
    [count : Nat,
     first : Nat,
     last : Nat,
     cooldown : Int,
     isFlapping : BOOLEAN,
     shouldEscalate : BOOLEAN]

\* What getOrCreateStats stores for a site it does not know.
FreshStats ==
    [count |-> 0, first |-> 0, last |-> 0, cooldown |-> NoTime,
     isFlapping |-> FALSE, shouldEscalate |-> FALSE]

InCooldown(s) == s.cooldown > 0

-----------------------------------------------------------------------------
Halved(n) == IF n \div 2 > 1 THEN n \div 2 ELSE 1

\* Mutant: the last incident is not moved when the window is reset.
SlideWindowKeepsLast(s) ==
    IF s.first <= Window THEN s
    ELSE IF s.last > Window
           THEN [s EXCEPT !.count = 0, !.first = 0, !.isFlapping = FALSE]
           ELSE [s EXCEPT !.count = Halved(s.count), !.first = Window]

\* The first half of cleanupOldData: slide the window.
SlideWindow(s) ==
    IF s.first <= Window THEN s
    ELSE IF s.last > Window
           THEN [s EXCEPT !.count = 0, !.first = 0, !.last = 0, !.isFlapping = FALSE]
           ELSE [s EXCEPT !.count = Halved(s.count), !.first = Window]

\* The second half: clear a cooldown that has run out.
ExpireCooldown(s) ==
    IF s.cooldown = 0 THEN [s EXCEPT !.cooldown = NoTime, !.isFlapping = FALSE] ELSE s

CleanUp(s) == ExpireCooldown(SlideWindow(s))

\* canCreateIncident, once it has cleaned up: whether an incident is allowed.
Allowed(s) ==
    /\ ~InCooldown(CleanUp(s))
    /\ CleanUp(s).count < MaxIncidentsPerWindow

\* Mutant: a site asked about during its cooldown has it extended.
CheckedExtends(s) ==
    LET t == CleanUp(s)
    IN  IF InCooldown(t) THEN [t EXCEPT !.cooldown = Window]
        ELSE IF t.count < MaxIncidentsPerWindow THEN t
        ELSE [count |-> t.count, first |-> t.first, last |-> t.last,
              cooldown |-> Window, isFlapping |-> TRUE,
              shouldEscalate |-> t.shouldEscalate \/ t.count >= EscalationThreshold]

\* The statistics canCreateIncident leaves: a site that is refused for its
\* count, rather than for a cooldown already running, starts a cooldown.
Checked(s) ==
    LET t == CleanUp(s)
    IN  IF InCooldown(t) \/ t.count < MaxIncidentsPerWindow THEN t
        ELSE [count |-> t.count, first |-> t.first, last |-> t.last,
              cooldown |-> Window, isFlapping |-> TRUE,
              shouldEscalate |-> t.shouldEscalate \/ t.count >= EscalationThreshold]

\* recordIncident.
Recorded(s) ==
    LET t == CleanUp(s)
    IN  [count |-> t.count + 1, last |-> 0,
         first |-> IF t.count = 0 THEN 0 ELSE t.first,
         cooldown |-> t.cooldown,
         isFlapping |-> t.count + 1 >= MaxIncidentsPerWindow,
         shouldEscalate |-> t.shouldEscalate]

\* recordResolution of a known site.
Resolved(s, successful) ==
    IF successful /\ ~s.isFlapping /\ s.count > 0
      THEN [s EXCEPT !.count = s.count - 1] ELSE s

\* clearCooldown of a known site: the count stays.
CooldownCleared(s) ==
    [s EXCEPT !.cooldown = NoTime, !.isFlapping = FALSE, !.shouldEscalate = FALSE]

\* performMaintenance's test, on statistics it has just cleaned up.
Forgettable(s) == s.last > 3 * Window /\ s.count = 0

Older(age) == IF age < AgeCap THEN age + 1 ELSE age

\* One tick later.
Aged(s) ==
    [count |-> s.count, first |-> Older(s.first), last |-> Older(s.last),
     cooldown |-> IF s.cooldown > 0 THEN s.cooldown - 1 ELSE s.cooldown,
     isFlapping |-> s.isFlapping, shouldEscalate |-> s.shouldEscalate]
=============================================================================

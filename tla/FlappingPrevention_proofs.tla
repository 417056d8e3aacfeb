---------------------- MODULE FlappingPrevention_proofs ----------------------
(* The safety properties of FlappingPrevention, for every window, limit and *)
(* threshold and any set of sites.                                          *)
EXTENDS FlappingPrevention, TLAPS

\* The bounds every method preserves, of the statistics of one site.
Bounded(s) ==
    /\ s.last <= s.first
    /\ s.count <= MaxIncidentsPerWindow
    /\ s.cooldown >= NoTime /\ s.cooldown <= Window
    /\ EscalationThreshold > MaxIncidentsPerWindow => ~s.shouldEscalate

Sound(s) == s \in StatsType /\ Bounded(s)

-----------------------------------------------------------------------------
\* Sliding the window leaves sound statistics, with a last incident no older
\* than the window and a window no longer than configured.
LEMMA SlideWindowSound ==
    ASSUME NEW s, Sound(s)
    PROVE  LET t == SlideWindow(s)
           IN  Sound(t) /\ t.last <= Window /\ t.first <= Window
<1> DEFINE t == SlideWindow(s)
<1> USE FlappingAssumption DEF NoTime
<1>1. s \in StatsType /\ Bounded(s)
  BY DEF Sound
<1>2. s.count \in Nat /\ s.first \in Nat /\ s.last \in Nat
  BY <1>1 DEF StatsType
<1>3. Halved(s.count) \in Nat /\ Halved(s.count) <= MaxIncidentsPerWindow
  BY <1>1, <1>2 DEF Bounded, Halved
<1>4. CASE s.first <= Window
  BY <1>1, <1>2, <1>4 DEF Sound, Bounded, SlideWindow
<1>5. CASE s.first > Window /\ s.last > Window
  <2>1. t = [s EXCEPT !.count = 0, !.first = 0, !.last = 0, !.isFlapping = FALSE]
    BY <1>2, <1>5 DEF SlideWindow
  <2> HIDE DEF t
  <2>2. t \in StatsType
    BY <1>1, <2>1 DEF StatsType
  <2>3. /\ t.count = 0 /\ t.first = 0 /\ t.last = 0
        /\ t.cooldown = s.cooldown /\ t.shouldEscalate = s.shouldEscalate
    BY <1>1, <2>1 DEF StatsType
  <2> QED
    BY <1>1, <2>2, <2>3 DEF Sound, Bounded, t
<1>6. CASE s.first > Window /\ ~(s.last > Window)
  <2>1. t = [s EXCEPT !.count = Halved(s.count), !.first = Window]
    BY <1>2, <1>6 DEF SlideWindow
  <2> HIDE DEF t
  <2>2. t \in StatsType
    BY <1>1, <1>3, <2>1 DEF StatsType
  <2>3. /\ t.count = Halved(s.count) /\ t.first = Window /\ t.last = s.last
        /\ t.cooldown = s.cooldown /\ t.shouldEscalate = s.shouldEscalate
    BY <1>1, <2>1 DEF StatsType
  <2> QED
    BY <1>1, <1>2, <1>3, <1>6, <2>2, <2>3 DEF Sound, Bounded, t
<1> QED
  BY <1>2, <1>4, <1>5, <1>6

\* So does the whole of cleanupOldData, which leaves no expired cooldown.
LEMMA CleanUpSound ==
    ASSUME NEW s, Sound(s)
    PROVE  /\ Sound(CleanUp(s))
           /\ CleanUp(s).last <= Window /\ CleanUp(s).first <= Window
           /\ CleanUp(s).cooldown # 0
<1> DEFINE t == SlideWindow(s)
           e == ExpireCooldown(t)
<1> USE FlappingAssumption
<1>0. NoTime \in Int /\ NoTime # 0 /\ NoTime <= Window
  BY DEF NoTime
<1>1. t \in StatsType /\ Bounded(t) /\ t.last <= Window /\ t.first <= Window
  BY SlideWindowSound DEF Sound
<1>2. CleanUp(s) = e
  BY DEF CleanUp
<1>3. CASE t.cooldown # 0
  BY <1>1, <1>2, <1>3 DEF Sound, ExpireCooldown
<1>4. CASE t.cooldown = 0
  <2>1. e = [t EXCEPT !.cooldown = NoTime, !.isFlapping = FALSE]
    BY <1>4 DEF ExpireCooldown
  <2> HIDE DEF t, e
  <2>2. e \in StatsType
    BY <1>0, <1>1, <2>1 DEF StatsType
  <2>3. /\ e.count = t.count /\ e.first = t.first /\ e.last = t.last
        /\ e.cooldown = NoTime /\ e.shouldEscalate = t.shouldEscalate
    BY <1>1, <2>1 DEF StatsType
  <2> QED
    BY <1>0, <1>1, <1>2, <2>2, <2>3 DEF Sound, Bounded
<1> QED
  BY <1>3, <1>4

\* A second clean-up in the same instant changes nothing.
LEMMA CleanUpTwice ==
    ASSUME NEW s, Sound(s)
    PROVE  CleanUp(CleanUp(s)) = CleanUp(s)
<1>1. CleanUp(s).first <= Window /\ CleanUp(s).cooldown # 0
  BY CleanUpSound
<1>2. ASSUME NEW t, t.first <= Window, t.cooldown # 0 PROVE CleanUp(t) = t
  BY <1>2 DEF CleanUp, SlideWindow, ExpireCooldown
<1> QED
  BY <1>1, <1>2

-----------------------------------------------------------------------------
\* canCreateIncident keeps the statistics sound: it raises shouldEscalate
\* only when the count has reached the threshold.
LEMMA CheckedSound ==
    ASSUME NEW s, Sound(s)
    PROVE  Sound(Checked(s))
<1> DEFINE t == CleanUp(s)
           c == Checked(s)
<1>1. t \in StatsType /\ Bounded(t)
  BY CleanUpSound DEF Sound
<1>2. CASE InCooldown(t) \/ t.count < MaxIncidentsPerWindow
  BY <1>1, <1>2 DEF Sound, Checked
<1>3. CASE ~(InCooldown(t) \/ t.count < MaxIncidentsPerWindow)
  <2>1. c = [count |-> t.count, first |-> t.first, last |-> t.last,
             cooldown |-> Window, isFlapping |-> TRUE,
             shouldEscalate |-> t.shouldEscalate \/ t.count >= EscalationThreshold]
    BY <1>3 DEF Checked
  <2> HIDE DEF t, c
  <2>2. c \in StatsType
    BY <1>1, <2>1, FlappingAssumption DEF StatsType
  <2>3. /\ c.count = t.count /\ c.first = t.first /\ c.last = t.last
        /\ c.cooldown = Window
        /\ c.shouldEscalate <=> (t.shouldEscalate \/ t.count >= EscalationThreshold)
    BY <1>1, <2>1 DEF StatsType
  <2>4. t.count \in Nat
    BY <1>1 DEF StatsType
  <2>5. Bounded(c)
    BY <1>1, <2>3, <2>4, FlappingAssumption DEF Bounded, NoTime
  <2> QED
    BY <2>2, <2>5 DEF Sound, c
<1> QED
  BY <1>2, <1>3

\* A site that may have an incident recorded is left sound by recordIncident.
LEMMA RecordedSound ==
    ASSUME NEW s, Sound(s), CleanUp(s).count < MaxIncidentsPerWindow
    PROVE  Sound(Recorded(s))
<1> DEFINE t == CleanUp(s)
           r == Recorded(s)
<1>1. t \in StatsType /\ Bounded(t) /\ t.count < MaxIncidentsPerWindow
  BY CleanUpSound DEF Sound
<1>2. r = [count |-> t.count + 1, last |-> 0,
           first |-> IF t.count = 0 THEN 0 ELSE t.first,
           cooldown |-> t.cooldown,
           isFlapping |-> t.count + 1 >= MaxIncidentsPerWindow,
           shouldEscalate |-> t.shouldEscalate]
  BY DEF Recorded
<1> HIDE DEF t, r
<1>3. r \in StatsType
  BY <1>1, <1>2, FlappingAssumption DEF StatsType
<1>4. /\ r.count = t.count + 1 /\ r.last = 0 /\ r.first \in Nat
      /\ r.cooldown = t.cooldown /\ r.shouldEscalate = t.shouldEscalate
  BY <1>1, <1>2 DEF StatsType
<1>5. t.count \in Nat
  BY <1>1 DEF StatsType
<1>6. Bounded(r)
  BY <1>1, <1>4, <1>5, FlappingAssumption DEF Bounded
<1> QED
  BY <1>3, <1>6 DEF Sound, r

\* The statistics an allowed incident leaves are sound.
LEMMA CreatedSound ==
    ASSUME NEW s, Sound(s), Allowed(s)
    PROVE  Sound(Recorded(Checked(s)))
<1>1. Checked(s) = CleanUp(s)
  BY DEF Allowed, Checked
<1>2. Sound(Checked(s))
  BY CheckedSound
<1>3. CleanUp(Checked(s)).count < MaxIncidentsPerWindow
  BY <1>1, CleanUpTwice DEF Allowed
<1> QED
  BY <1>2, <1>3, RecordedSound

-----------------------------------------------------------------------------
\* recordResolution, clearCooldown, the passing of a tick and the statistics
\* of a new site are sound.
LEMMA FreshSound == Sound(FreshStats)
  BY FlappingAssumption DEF Sound, Bounded, StatsType, FreshStats, NoTime

LEMMA ResolvedSound ==
    ASSUME NEW s, Sound(s), NEW successful
    PROVE  Sound(Resolved(s, successful))
<1> DEFINE t == Resolved(s, successful)
<1>1. s \in StatsType /\ Bounded(s) /\ s.count \in Nat
  BY DEF Sound, StatsType
<1>2. CASE t = s
  BY <1>2
<1>3. CASE t = [s EXCEPT !.count = s.count - 1] /\ s.count > 0
  <2> HIDE DEF t
  <2>1. s.count - 1 \in Nat
    BY <1>1, <1>3
  <2>2. t \in StatsType
    BY <1>1, <1>3, <2>1 DEF StatsType
  <2>3. /\ t.count = s.count - 1 /\ t.first = s.first /\ t.last = s.last
        /\ t.cooldown = s.cooldown /\ t.shouldEscalate = s.shouldEscalate
    BY <1>1, <1>3 DEF StatsType
  <2>4. Bounded(t)
    BY <1>1, <2>3, FlappingAssumption DEF Bounded
  <2> QED
    BY <2>2, <2>4 DEF Sound, t
<1> QED
  BY <1>2, <1>3 DEF Resolved

LEMMA ClearedSound ==
    ASSUME NEW s, Sound(s)
    PROVE  Sound(CooldownCleared(s))
<1> DEFINE t == CooldownCleared(s)
<1>1. s \in StatsType /\ Bounded(s)
  BY DEF Sound
<1>2. NoTime \in Int /\ NoTime <= Window
  BY FlappingAssumption DEF NoTime
<1>3. t = [s EXCEPT !.cooldown = NoTime, !.isFlapping = FALSE, !.shouldEscalate = FALSE]
  BY DEF CooldownCleared
<1> HIDE DEF t
<1>4. t \in StatsType
  BY <1>1, <1>2, <1>3 DEF StatsType
<1>5. /\ t.count = s.count /\ t.first = s.first /\ t.last = s.last
      /\ t.cooldown = NoTime /\ t.shouldEscalate = FALSE
  BY <1>1, <1>3 DEF StatsType
<1>6. Bounded(t)
  BY <1>1, <1>2, <1>5 DEF Bounded
<1> QED
  BY <1>4, <1>6 DEF Sound, t

LEMMA AgedSound ==
    ASSUME NEW s, Sound(s)
    PROVE  Sound(Aged(s))
<1> DEFINE t == Aged(s)
<1>1. s \in StatsType /\ Bounded(s)
  BY DEF Sound
<1>2. s.first \in Nat /\ s.last \in Nat /\ s.cooldown \in Int
  BY <1>1 DEF StatsType
<1>3. t = [count |-> s.count, first |-> Older(s.first), last |-> Older(s.last),
           cooldown |-> IF s.cooldown > 0 THEN s.cooldown - 1 ELSE s.cooldown,
           isFlapping |-> s.isFlapping, shouldEscalate |-> s.shouldEscalate]
  BY DEF Aged
<1> HIDE DEF t
<1>4. /\ Older(s.first) \in Nat /\ Older(s.last) \in Nat
      /\ Older(s.last) <= Older(s.first)
  BY <1>1, <1>2, FlappingAssumption DEF Bounded, Older, AgeCap
<1>5. t \in StatsType
  BY <1>1, <1>2, <1>3, <1>4 DEF StatsType
<1>6. /\ t.count = s.count /\ t.first = Older(s.first) /\ t.last = Older(s.last)
      /\ t.cooldown = IF s.cooldown > 0 THEN s.cooldown - 1 ELSE s.cooldown
      /\ t.shouldEscalate = s.shouldEscalate
  BY <1>3
<1>7. Bounded(t)
  BY <1>1, <1>2, <1>4, <1>6, FlappingAssumption DEF Bounded, NoTime
<1> QED
  BY <1>5, <1>7 DEF Sound, t

-----------------------------------------------------------------------------
\* The inductive invariant: the statistics of every site are sound.
IInv ==
    /\ knownSites \subseteq Sites
    /\ open \in [Sites -> 0..MaxOpen]
    /\ stats \in [Sites -> StatsType]
    /\ \A s \in Sites : Sound(stats[s])

\* Every step of the service keeps the statistics of every site sound.
THEOREM Inductive == FlappingSpec => []IInv
<1>1. FlappingInit => IInv
  BY FreshSound, OpenAssumption DEF FlappingInit, IInv, Sound
<1>2. IInv /\ [FlappingNext]_flappingVars => IInv'
  <2> SUFFICES ASSUME IInv, [FlappingNext]_flappingVars PROVE IInv'
    OBVIOUS
  <2> USE DEF IInv
  <2>0. ASSUME NEW s \in Sites, NEW r, Sound(r), stats' = [stats EXCEPT ![s] = r],
               knownSites' \subseteq Sites, open' \in [Sites -> 0..MaxOpen]
        PROVE  IInv'
    BY <2>0 DEF Sound
  <2>1. ASSUME NEW s \in Sites, CreateIncident(s) PROVE IInv'
    <3>1. CASE Allowed(stats[s])
      <4>1. knownSites' \subseteq Sites /\ open' \in [Sites -> 0..MaxOpen]
        BY <2>1, <3>1, OpenAssumption DEF CreateIncident
      <4>2. /\ stats' = [stats EXCEPT ![s] = Recorded(Checked(stats[s]))]
            /\ Sound(Recorded(Checked(stats[s])))
        BY <2>1, <3>1, CreatedSound DEF CreateIncident
      <4> QED
        BY <2>0, <4>1, <4>2
    <3>2. CASE ~Allowed(stats[s])
      BY <2>0, <2>1, <3>2, CheckedSound DEF CreateIncident
    <3> QED
      BY <3>1, <3>2
  <2>2. ASSUME NEW s \in Sites, CheckProcessing(s) PROVE IInv'
    BY <2>0, <2>2, CheckedSound DEF CheckProcessing
  <2>3. ASSUME NEW s \in Sites, NEW successful \in BOOLEAN,
               RecordResolution(s, successful)
        PROVE  IInv'
    <3>1. knownSites' \subseteq Sites /\ open' \in [Sites -> 0..MaxOpen]
      BY <2>3, OpenAssumption DEF RecordResolution
    <3>2. CASE s \in knownSites
      BY <2>0, <2>3, <3>1, <3>2, ResolvedSound DEF RecordResolution
    <3>3. CASE s \notin knownSites
      BY <2>3, <3>1, <3>3 DEF RecordResolution
    <3> QED
      BY <3>2, <3>3
  <2>4. ASSUME NEW s \in Sites, ClearCooldown(s) PROVE IInv'
    BY <2>0, <2>4, ClearedSound DEF ClearCooldown
  <2>5. ASSUME NEW s \in Sites, ResetSite(s) PROVE IInv'
    BY <2>0, <2>5, FreshSound DEF ResetSite
  <2>6. CASE PerformMaintenance
    BY <2>6, FreshSound, CleanUpSound DEF PerformMaintenance, Sound
  <2>7. CASE FlappingRestart
    BY <2>7, FreshSound DEF FlappingRestart, Sound
  <2>8. CASE FlappingTick
    BY <2>8, AgedSound DEF FlappingTick, Sound
  <2>9. CASE UNCHANGED flappingVars
    BY <2>9 DEF flappingVars
  <2> QED
    BY <2>1, <2>2, <2>3, <2>4, <2>5, <2>6, <2>7, <2>8, <2>9 DEF FlappingNext
<1> QED
  BY <1>1, <1>2, PTL DEF FlappingSpec

\* Every variable keeps its type, and no cooldown lasts longer than the window.
THEOREM TypeCorrect == FlappingSpec => []FlappingType
<1>1. IInv => FlappingType
  BY FlappingAssumption DEF IInv, FlappingType, Sound, Bounded, StatsType, NoTime
<1> QED
  BY <1>1, Inductive, PTL

\* The count of a site never passes the configured maximum.
THEOREM CountsBounded == FlappingSpec => []CountBounded
<1>1. IInv => CountBounded
  BY DEF IInv, CountBounded, Sound, Bounded
<1> QED
  BY <1>1, Inductive, PTL

\* With a threshold above the maximum, no site is ever marked for escalation.
THEOREM EscalationUnreachable == FlappingSpec => []NoEscalationAboveMaximum
<1>1. IInv => NoEscalationAboveMaximum
  BY DEF IInv, NoEscalationAboveMaximum, Sound, Bounded
<1> QED
  BY <1>1, Inductive, PTL

\* performMaintenance deletes no site, whatever the window: after the clean-up
\* the last incident is at most one window old, and it takes three to be
\* forgotten.
THEOREM MaintenanceKeepsAll == FlappingSpec => []MaintenanceForgetsNobody
<1>1. ASSUME NEW s, Sound(s) PROVE ~Forgettable(CleanUp(s))
  <2>1. CleanUp(s).last <= Window /\ CleanUp(s).last \in Nat
    BY <1>1, CleanUpSound DEF Sound, StatsType
  <2> QED
    BY <2>1, FlappingAssumption DEF Forgettable
<1>2. IInv => MaintenanceForgetsNobody
  BY <1>1 DEF IInv, MaintenanceForgetsNobody
<1> QED
  BY <1>2, Inductive, PTL

\* The clean-up of canCreateIncident does not end a cooldown that still runs.
LEMMA CooldownSurvives ==
    ASSUME NEW s, Sound(s), InCooldown(s)
    PROVE  InCooldown(CleanUp(s))
<1> DEFINE t == SlideWindow(s)
<1>1. s \in StatsType
  BY DEF Sound
<1>2. t.cooldown = s.cooldown
  BY <1>1 DEF SlideWindow, StatsType
<1>3. s.cooldown > 0 /\ s.cooldown \in Int
  BY <1>1 DEF InCooldown, StatsType
<1> HIDE DEF t
<1>4. ExpireCooldown(t) = t
  BY <1>2, <1>3 DEF ExpireCooldown
<1> QED
  BY <1>2, <1>3, <1>4 DEF CleanUp, InCooldown, t

\* No incident is created for a site whose cooldown still runs.
THEOREM CooldownsHold == FlappingSpec => CooldownHolds
<1>1. IInv /\ [FlappingNext]_flappingVars
        => \A s \in Sites : open'[s] > open[s] => ~InCooldown(stats[s])
  <2> SUFFICES ASSUME IInv, [FlappingNext]_flappingVars, NEW s \in Sites, open'[s] > open[s]
               PROVE  ~InCooldown(stats[s])
    OBVIOUS
  <2>1. open[s] \in Int /\ ~(open[s] > open[s]) /\ ~(open[s] - 1 > open[s])
    BY OpenAssumption DEF IInv
  <2>2. ~(\/ UNCHANGED open
          \/ \E t \in Sites, b \in BOOLEAN : RecordResolution(t, b))
    BY <2>1 DEF RecordResolution, IInv
  <2>3. PICK t \in Sites : CreateIncident(t)
    BY <2>2 DEF FlappingNext, flappingVars, CheckProcessing, ClearCooldown, ResetSite,
                PerformMaintenance, FlappingRestart, FlappingTick
  <2>4. Allowed(stats[t]) /\ t = s
    BY <2>1, <2>3 DEF CreateIncident, IInv
  <2>5. ~InCooldown(CleanUp(stats[s])) /\ Sound(stats[s])
    BY <2>4 DEF Allowed, IInv
  <2> QED
    BY <2>5, CooldownSurvives
<1> QED
  BY <1>1, Inductive, PTL DEF FlappingSpec, CooldownHolds
=============================================================================

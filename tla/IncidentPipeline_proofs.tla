--------------------- MODULE IncidentPipeline_proofs ---------------------
(***************************************************************************)
(* Proofs about IncidentPipeline, for any number of incidents, workers,    *)
(* attempts, faults and crashes.  Nothing that an incident's jobs hold or  *)
(* have done is taken back: jobs are added and change their status only,   *)
(* and what was handed on or escalated stays so.  The jobs of an incident  *)
(* that have a way on are all of one state with one verdict, so that what  *)
(* was done for one is what any other with its key asks for.               *)
(***************************************************************************)
EXTENDS IncidentPipeline, FiniteSetTheorems, WellFoundedInduction, TLAPS

Statuses == {"waiting", "active"} \cup Final
JobRecord ==
    [incident : Incidents, state : IncidentState, fixAttempts : Nat, verified : Verdict,
     status : Statuses, owner : Workers \cup {NoOne}, attempts : Nat, stalls : Nat]
RunRecord == [pc : Busy \cup {"idle"}, job : Nat, outcome : Final, verified : Verdict]

(* What the status of a job does not touch.                                 *)
Same(d, e) ==
    /\ d.incident = e.incident /\ d.state = e.state
    /\ d.fixAttempts = e.fixAttempts /\ d.verified = e.verified

OneCourse ==
    \A m, n \in DOMAIN jobs :
        /\ jobs[m].incident = jobs[n].incident
        /\ jobs[m].state # "FIXED" /\ jobs[n].state # "FIXED"
        => jobs[m].state = jobs[n].state /\ jobs[m].verified = jobs[n].verified

JobsInv ==
    /\ jobs \in Seq(JobRecord)
    /\ created \subseteq Incidents
    /\ \A n \in DOMAIN jobs : jobs[n].incident \in created
    /\ OneCourse

CountsInv ==
    /\ handed \in [Incidents -> [IncidentState -> Nat]]
    /\ escalated \in [Incidents -> Nat]

(* A failure of incident i was escalated or retried.                        *)
Noticed(i) ==
    \/ escalated[i] > 0
    \/ \E m, n \in DOMAIN jobs : m # n /\ jobs[m].incident = i /\ jobs[n].incident = i

ActedOn(d, outcome) ==
    \/ outcome = "success" /\ HandedOn(d)
    \/ outcome = "failure" /\ Noticed(d.incident)

RunOk(c) ==
    /\ c \in RunRecord
    /\ c.pc # "idle" => c.job \in DOMAIN jobs
    /\ c.pc \in {"act", "settle"} => /\ NextState(jobs[c.job]) # NoState
                                     /\ c.outcome \in {"success", "failure"}
    /\ c.pc = "settle" => ActedOn(jobs[c.job], c.outcome)

RunsInv == run = [w \in Workers |-> run[w]] /\ \A w \in Workers : RunOk(run[w])

StoredOk(r) ==
    \E k \in DOMAIN jobs :
        r.key = Key(jobs[k]) /\ NextState(jobs[k]) # NoState /\ ActedOn(jobs[k], r.outcome)

StoredInv == \A r \in stored : StoredOk(r)

PipeInv == JobsInv /\ CountsInv /\ RunsInv /\ StoredInv

-----------------------------------------------------------------------------
(* The states, and where they lead.                                         *)
LEMMA States ==
    /\ IncidentState = {"NEW", "DISCOVERY", "BASELINE", "BACKUP", "OBSERVABILITY", "FIX_ATTEMPT",
                        "ROLLBACK", "VERIFY", "FIXED", "ESCALATED"}
    /\ DOMAIN Successor = {"NEW", "DISCOVERY", "BASELINE", "BACKUP", "OBSERVABILITY", "FIX_ATTEMPT",
                           "ROLLBACK"}
    /\ \A s \in DOMAIN Successor : Successor[s] \in IncidentState
BY DEF IncidentState, Successor

LEMMA NextStates ==
    ASSUME NEW d \in JobRecord
    PROVE  /\ NextState(d) # NoState => NextState(d) \in IncidentState
           /\ d.state = "FIXED" => NextState(d) = NoState
<1>1. d.state = "FIXED" => NextState(d) = NoState
  BY States DEF NextState
<1>2. CASE d.state = "VERIFY"
  BY <1>2, States DEF NextState, NoState
<1>3. CASE d.state # "VERIFY"
  BY <1>3, States DEF NextState
<1> QED
  BY <1>1, <1>2, <1>3

LEMMA SameKey ==
    ASSUME NEW d, NEW e, Same(d, e)
    PROVE  Key(d) = Key(e) /\ NextState(d) = NextState(e)
BY DEF Same, Key, NextState

LEMMA KeyTells ==
    ASSUME NEW d, NEW e, Key(d) = Key(e), d.verified = e.verified
    PROVE  Same(d, e)
BY DEF Key, Same

(***************************************************************************)
(* What grows                                                              *)
(***************************************************************************)

JobsGrow == \A n \in DOMAIN jobs : n \in DOMAIN jobs' /\ Same(jobs[n], jobs'[n])
CountsGrow ==
    \A i \in Incidents :
        /\ \A s \in IncidentState : handed[i][s] > 0 => handed'[i][s] > 0
        /\ escalated[i] > 0 => escalated'[i] > 0
Grows == JobsGrow /\ CountsGrow

LEMMA ActedOnStays ==
    ASSUME JobsInv, Grows, NEW n \in DOMAIN jobs, NEW outcome,
           NextState(jobs[n]) # NoState, ActedOn(jobs[n], outcome)
    PROVE  /\ n \in DOMAIN jobs' /\ Same(jobs[n], jobs'[n])
           /\ NextState(jobs'[n]) # NoState
           /\ ActedOn(jobs[n], outcome)' 
<1> DEFINE d == jobs[n]
           e == jobs'[n]
           i == d.incident
<1>1. n \in DOMAIN jobs' /\ Same(d, e) /\ d \in JobRecord
  BY DEF Grows, JobsGrow, JobsInv
<1>2. NextState(e) = NextState(d) /\ e.incident = i /\ i \in Incidents
  BY <1>1, SameKey DEF Same, JobRecord
<1>3. NextState(d) \in IncidentState
  BY <1>1, NextStates
<1>4. ASSUME Noticed(i)
      PROVE  \/ escalated'[i] > 0
             \/ \E k, m \in DOMAIN jobs' : k # m /\ jobs'[k].incident = i /\ jobs'[m].incident = i
  <2>1. CASE escalated[i] > 0
    BY <1>2, <2>1 DEF Grows, CountsGrow
  <2>2. CASE \E k, m \in DOMAIN jobs : k # m /\ jobs[k].incident = i /\ jobs[m].incident = i
    <3>1. PICK k \in DOMAIN jobs, m \in DOMAIN jobs :
                 k # m /\ jobs[k].incident = i /\ jobs[m].incident = i
      BY <2>2
    <3>2. k \in DOMAIN jobs' /\ m \in DOMAIN jobs' /\ jobs'[k].incident = i /\ jobs'[m].incident = i
      BY <3>1 DEF Grows, JobsGrow, Same
    <3> QED
      BY <3>1, <3>2
  <2> QED
    BY <1>4, <2>1, <2>2 DEF Noticed
<1>5. ASSUME HandedOn(d)
      PROVE  IF NextState(d) = "FIXED"
             THEN \E k \in DOMAIN jobs' : jobs'[k].incident = i /\ jobs'[k].state = "FIXED"
             ELSE handed'[i][NextState(d)] > 0
  BY <1>2, <1>3, <1>5 DEF HandedOn, Grows, JobsGrow, CountsGrow, Same
<1>6. Noticed(i) => Noticed(d.incident)'
  BY <1>2, <1>4 DEF Noticed
<1>7. HandedOn(d) => HandedOn(d)'
  BY <1>2, <1>5 DEF HandedOn
<1> QED
  BY <1>1, <1>2, <1>6, <1>7 DEF ActedOn

LEMMA RunOkStays ==
    ASSUME JobsInv, Grows
    PROVE  \A c : RunOk(c) => RunOk(c)'
<1> SUFFICES ASSUME NEW c, RunOk(c) PROVE RunOk(c)'
  OBVIOUS
<1>1. CASE c.pc = "idle"
  BY <1>1 DEF RunOk
<1>2. CASE c.pc # "idle"
  <2>1. c.job \in DOMAIN jobs'
    BY <1>2 DEF RunOk, Grows, JobsGrow
  <2>2. c.pc \in {"act", "settle"} => NextState(jobs'[c.job]) # NoState
    BY <1>2, SameKey DEF RunOk, Grows, JobsGrow
  <2>3. c.pc = "settle" => ActedOn(jobs[c.job], c.outcome)'
    BY <1>2, ActedOnStays DEF RunOk
  <2> QED
    BY <1>2, <2>1, <2>2, <2>3 DEF RunOk
<1> QED
  BY <1>1, <1>2

LEMMA RunsStay ==
    ASSUME JobsInv, Grows, RunsInv, UNCHANGED run
    PROVE  RunsInv'
<1>1. \A w \in Workers : RunOk(run[w])'
  BY RunOkStays DEF RunsInv
<1> QED
  BY <1>1 DEF RunsInv

LEMMA StoredStays ==
    ASSUME JobsInv, Grows
    PROVE  \A r : StoredOk(r) => StoredOk(r)'
<1> SUFFICES ASSUME NEW r, StoredOk(r) PROVE StoredOk(r)'
  OBVIOUS
<1>1. PICK k \in DOMAIN jobs :
         r.key = Key(jobs[k]) /\ NextState(jobs[k]) # NoState /\ ActedOn(jobs[k], r.outcome)
  BY DEF StoredOk
<1>2. /\ k \in DOMAIN jobs' /\ Same(jobs[k], jobs'[k]) /\ NextState(jobs'[k]) # NoState
      /\ ActedOn(jobs[k], r.outcome)'
  BY <1>1, ActedOnStays
<1>3. r.key = Key(jobs'[k])
  BY <1>1, <1>2, SameKey
<1> QED
  BY <1>2, <1>3 DEF StoredOk

(***************************************************************************)
(* What the actions do to the jobs                                         *)
(***************************************************************************)

LEMMA JobsUntouched ==
    JobsInv /\ UNCHANGED <<jobs, created>> => JobsInv' /\ JobsGrow
BY DEF JobsInv, OneCourse, JobsGrow, Same

LEMMA JobChanged ==
    ASSUME JobsInv, NEW n \in DOMAIN jobs, NEW d \in JobRecord, Same(jobs[n], d),
           jobs' = [jobs EXCEPT ![n] = d], UNCHANGED created
    PROVE  JobsInv' /\ JobsGrow
<1>1. jobs' \in Seq(JobRecord) /\ DOMAIN jobs' = DOMAIN jobs
  BY DEF JobsInv
<1>2. \A m \in DOMAIN jobs : Same(jobs[m], jobs'[m])
  BY DEF Same, JobsInv
<1>3. OneCourse'
  BY <1>1, <1>2 DEF JobsInv, OneCourse, Same
<1>4. \A m \in DOMAIN jobs' : jobs'[m].incident \in created'
  BY <1>1, <1>2 DEF JobsInv, Same
<1> QED
  BY <1>1, <1>2, <1>3, <1>4 DEF JobsInv, JobsGrow

LEMMA NewJobIs ==
    ASSUME NEW i \in Incidents, NEW s \in IncidentState, NEW k \in Nat, NEW v \in Verdict
    PROVE  /\ NewJob(i, s, k, v) \in JobRecord
           /\ NewJob(i, s, k, v).incident = i /\ NewJob(i, s, k, v).state = s
           /\ NewJob(i, s, k, v).verified = v
BY DEF NewJob, JobRecord, Statuses

LEMMA JobAdded ==
    ASSUME JobsInv, NEW d \in JobRecord, jobs' = Append(jobs, d),
           created \subseteq created', created' \subseteq Incidents, d.incident \in created',
           \A n \in DOMAIN jobs :
              jobs[n].incident = d.incident /\ jobs[n].state # "FIXED" /\ d.state # "FIXED"
              => jobs[n].state = d.state /\ jobs[n].verified = d.verified
    PROVE  /\ JobsInv' /\ JobsGrow
           /\ Len(jobs) + 1 \in DOMAIN jobs' /\ jobs'[Len(jobs) + 1] = d
           /\ Len(jobs) + 1 \notin DOMAIN jobs
<1> DEFINE l == Len(jobs) + 1
<1>1. /\ jobs' \in Seq(JobRecord) /\ l \in DOMAIN jobs' /\ l \notin DOMAIN jobs
      /\ DOMAIN jobs' = DOMAIN jobs \cup {l} /\ jobs'[l] = d
      /\ \A m \in DOMAIN jobs : jobs'[m] = jobs[m]
  BY DEF JobsInv
<1> HIDE DEF l
<1>2. OneCourse'
  BY <1>1 DEF JobsInv, OneCourse
<1>3. \A m \in DOMAIN jobs' : jobs'[m].incident \in created'
  BY <1>1 DEF JobsInv
<1>4. JobsGrow
  BY <1>1 DEF JobsGrow, Same
<1> QED
  BY <1>1, <1>2, <1>3, <1>4 DEF JobsInv, l

LEMMA CountsUntouched ==
    CountsInv /\ UNCHANGED <<handed, escalated>> => CountsInv' /\ CountsGrow
BY DEF CountsInv, CountsGrow

LEMMA EscalatedOnce ==
    ASSUME CountsInv, NEW i \in Incidents,
           escalated' = [escalated EXCEPT ![i] = @ + 1], UNCHANGED handed
    PROVE  CountsInv' /\ CountsGrow /\ escalated'[i] > 0
BY DEF CountsInv, CountsGrow

LEMMA HandedOnce ==
    ASSUME CountsInv, NEW i \in Incidents, NEW s \in IncidentState,
           handed' = [handed EXCEPT ![i][s] = @ + 1], UNCHANGED escalated
    PROVE  CountsInv' /\ CountsGrow /\ handed'[i][s] > 0
<1>1. handed'[i][s] = handed[i][s] + 1 /\ handed[i][s] \in Nat
  BY DEF CountsInv
<1>2. \A j \in Incidents, t \in IncidentState :
         handed'[j][t] = IF j = i /\ t = s THEN handed[i][s] + 1 ELSE handed[j][t]
  BY DEF CountsInv
<1>3. handed' \in [Incidents -> [IncidentState -> Nat]]
  BY <1>1 DEF CountsInv
<1> QED
  BY <1>1, <1>2, <1>3 DEF CountsInv, CountsGrow

(* An action that leaves the stored results alone, and moves one run at     *)
(* most, keeps all of it when the run is as it should be.                   *)
LEMMA RunMoves ==
    ASSUME PipeInv, JobsInv', CountsInv', Grows, UNCHANGED stored,
           NEW w \in Workers, NEW c, run' = [run EXCEPT ![w] = c], RunOk(c)'
    PROVE  PipeInv'
<1>1. \A v \in Workers : RunOk(run[v])'
  BY RunOkStays DEF PipeInv, RunsInv
<1>2. \A v \in Workers : run'[v] = IF v = w THEN c ELSE run[v]
  BY DEF PipeInv, RunsInv
<1>3. RunsInv'
  BY <1>1, <1>2 DEF RunsInv, PipeInv
<1>4. StoredInv'
  BY StoredStays DEF PipeInv, StoredInv
<1> QED
  BY <1>3, <1>4 DEF PipeInv

LEMMA NoRunMoves ==
    ASSUME PipeInv, JobsInv', CountsInv', Grows, UNCHANGED <<stored, run>>
    PROVE  PipeInv'
<1>1. RunsInv'
  BY RunsStay DEF PipeInv
<1>2. StoredInv'
  BY StoredStays DEF PipeInv, StoredInv
<1> QED
  BY <1>1, <1>2 DEF PipeInv

LEMMA RunGoes ==
    ASSUME PipeInv, JobsInv', CountsInv', Grows, UNCHANGED stored,
           NEW w \in Workers, NEW c \in RunRecord, run' = [run EXCEPT ![w] = c],
           c.pc # "settle", c.pc # "idle" => c.job \in DOMAIN jobs,
           c.pc = "act" => NextState(jobs[c.job]) # NoState /\ c.outcome \in {"success", "failure"}
    PROVE  PipeInv'
<1>1. c.pc # "idle" => c.job \in DOMAIN jobs' /\ NextState(jobs'[c.job]) = NextState(jobs[c.job])
  BY SameKey DEF Grows, JobsGrow
<1>2. RunOk(c)'
  BY <1>1 DEF RunOk
<1> QED
  BY <1>2, RunMoves

LEMMA RunSettles ==
    ASSUME PipeInv, JobsInv', CountsInv', Grows, UNCHANGED stored,
           NEW w \in Workers, NEW n \in DOMAIN jobs, NEW outcome \in {"success", "failure"},
           run[w].job = n, run[w].outcome = outcome, NextState(jobs[n]) # NoState,
           GoTo(w, "settle"), ActedOn(jobs[n], outcome)'
    PROVE  PipeInv'
<1>1. PICK c : c = [run[w] EXCEPT !.pc = "settle"]
  OBVIOUS
<1>2. run[w] \in RunRecord
  BY DEF PipeInv, RunsInv, RunOk
<1>3. c \in RunRecord /\ c.pc = "settle" /\ c.job = n /\ c.outcome = outcome
  BY <1>1, <1>2 DEF RunRecord, Busy
<1>4. run' = [run EXCEPT ![w] = c]
  BY <1>1 DEF GoTo
<1>5. n \in DOMAIN jobs' /\ NextState(jobs'[n]) # NoState
  BY SameKey DEF Grows, JobsGrow
<1>6. RunOk(c)'
  BY <1>3, <1>5 DEF RunOk
<1> QED
  BY <1>4, <1>6, RunMoves

(***************************************************************************)
(* The steps                                                               *)
(***************************************************************************)

LEMMA PipeInitially == Init => PipeInv
<1> SUFFICES ASSUME Init PROVE PipeInv
  OBVIOUS
<1>1. JobsInv
  BY DEF Init, JobsInv, OneCourse
<1>2. CountsInv
  BY DEF Init, CountsInv
<1>3. RunsInv
  <2>1. IdleRun \in RunRecord /\ IdleRun.pc = "idle"
    BY DEF IdleRun, RunRecord, Final, Verdict, Busy
  <2>2. RunOk(IdleRun)
    BY <2>1 DEF RunOk
  <2> QED
    BY <2>2 DEF Init, RunsInv
<1>4. StoredInv
  BY DEF Init, StoredInv
<1> QED
  BY <1>1, <1>2, <1>3, <1>4 DEF PipeInv

LEMMA CreateKeeps ==
    ASSUME PipeInv, NEW i \in Incidents, Create(i)
    PROVE  PipeInv'
<1> USE DEF PipeInv
<1>1. UNCHANGED <<stored, handed, escalated, run>> /\ i \notin created
  BY DEF Create
<1>2. CountsInv' /\ CountsGrow
  BY <1>1, CountsUntouched
<1>3. created \subseteq created' /\ created' \subseteq Incidents
      /\ (jobs' # jobs => i \in created')
  BY DEF Create, JobsInv
<1>4. JobsInv' /\ JobsGrow
  <2>1. CASE UNCHANGED jobs
    BY <1>3, <2>1 DEF JobsInv, OneCourse, JobsGrow, Same
  <2>2. CASE jobs' # jobs
    <3>1. PICK e \in Entries : jobs' = Append(jobs, NewJob(i, e.state, 0, e.verified))
      BY <2>2 DEF Create
    <3>2. e.state \in IncidentState /\ e.verified \in Verdict
      BY EntriesAssumption
    <3>3. /\ NewJob(i, e.state, 0, e.verified) \in JobRecord
          /\ NewJob(i, e.state, 0, e.verified).incident = i
      BY <3>2, NewJobIs
    <3>4. \A n \in DOMAIN jobs : jobs[n].incident # i
      BY <1>1 DEF JobsInv
    <3> QED
      BY <1>3, <2>2, <3>1, <3>3, <3>4, JobAdded
  <2> QED
    BY <2>1, <2>2
<1> QED
  BY <1>1, <1>2, <1>4, NoRunMoves DEF Grows

LEMMA TakeKeeps ==
    ASSUME PipeInv, NEW w \in Workers, NEW n \in DOMAIN jobs, Take(w, n)
    PROVE  PipeInv'
<1> DEFINE d == [jobs[n] EXCEPT !.status = "active", !.owner = w]
           c == [IdleRun EXCEPT !.pc = IF Allowed(stats) THEN "check" ELSE "blocked", !.job = n]
<1>1. jobs[n] \in JobRecord /\ n \in Nat
  BY DEF PipeInv, JobsInv
<1>2. d \in JobRecord /\ Same(jobs[n], d)
  BY <1>1 DEF JobRecord, Statuses, Same
<1>3. jobs' = [jobs EXCEPT ![n] = d] /\ run' = [run EXCEPT ![w] = c]
      /\ UNCHANGED <<created, stored, handed, escalated>>
  BY DEF Take
<1>4. c \in RunRecord /\ c.pc \in {"check", "blocked"} /\ c.job = n
  BY <1>1 DEF RunRecord, IdleRun, Busy, Final, Verdict
<1> HIDE DEF c, d
<1>5. JobsInv' /\ JobsGrow
  BY <1>2, <1>3, JobChanged DEF PipeInv
<1>6. CountsInv' /\ CountsGrow
  BY <1>3, CountsUntouched DEF PipeInv
<1> QED
  BY <1>3, <1>4, <1>5, <1>6, RunGoes DEF Grows

(* The steps of a run that touch neither its job nor what is stored.        *)
LEMMA RunOfItsJob ==
    ASSUME PipeInv, NEW w \in Workers, run[w].pc # "idle"
    PROVE  /\ run[w] \in RunRecord /\ run[w].job \in DOMAIN jobs
           /\ Job(w) \in JobRecord /\ Job(w).incident \in Incidents
<1>1. run[w] \in RunRecord /\ run[w].job \in DOMAIN jobs
  BY DEF PipeInv, RunsInv, RunOk
<1>2. \A n \in DOMAIN jobs : jobs[n] \in JobRecord
  BY DEF PipeInv, JobsInv
<1>3. Job(w) \in JobRecord
  BY <1>1, <1>2 DEF Job
<1> QED
  BY <1>1, <1>3 DEF JobRecord

LEMMA RunOnly ==
    ASSUME PipeInv, NEW w \in Workers, run[w].pc # "idle",
           CountsInv', CountsGrow, UNCHANGED <<created, jobs, stored>>,
           NEW pc \in Busy, NEW outcome \in Final, NEW v \in Verdict, pc # "settle",
           run' = [run EXCEPT ![w] = [run[w] EXCEPT !.pc = pc, !.outcome = outcome, !.verified = v]],
           pc = "act" => NextState(Job(w)) # NoState /\ outcome \in {"success", "failure"}
    PROVE  PipeInv'
<1> DEFINE c == [run[w] EXCEPT !.pc = pc, !.outcome = outcome, !.verified = v]
<1>1. run[w] \in RunRecord /\ run[w].job \in DOMAIN jobs
  BY RunOfItsJob
<1>2. c \in RunRecord /\ c.pc = pc /\ c.outcome = outcome /\ c.job = run[w].job
  BY <1>1 DEF RunRecord
<1>3. JobsInv' /\ JobsGrow
  BY JobsUntouched DEF PipeInv
<1> HIDE DEF c
<1>4. run' = [run EXCEPT ![w] = c]
  BY DEF c
<1>5. c.pc = "act" => NextState(jobs[c.job]) # NoState /\ c.outcome \in {"success", "failure"}
  BY <1>2 DEF Job
<1> QED
  BY <1>1, <1>2, <1>3, <1>4, <1>5, RunGoes DEF Grows

LEMMA GoingKeeps ==
    ASSUME PipeInv, NEW w \in Workers, run[w].pc # "idle",
           CountsInv', CountsGrow, UNCHANGED <<created, jobs, stored>>,
           NEW pc \in Busy \ {"act", "settle"},
           \/ GoTo(w, pc)
           \/ pc = "return" /\ \E outcome \in Final : End(w, outcome)
    PROVE  PipeInv'
<1>1. run[w] \in RunRecord
  BY RunOfItsJob
<1>2. run[w].outcome \in Final /\ run[w].verified \in Verdict
  BY <1>1 DEF RunRecord
<1>3. CASE GoTo(w, pc)
  <2>1. run' = [run EXCEPT ![w] = [run[w] EXCEPT !.pc = pc, !.outcome = run[w].outcome,
                                                 !.verified = run[w].verified]]
    BY <1>1, <1>3 DEF GoTo, RunRecord
  <2> QED
    BY <1>2, <2>1, RunOnly
<1>4. ASSUME pc = "return", NEW outcome \in Final, End(w, outcome)
      PROVE  PipeInv'
  <2>1. run' = [run EXCEPT ![w] = [run[w] EXCEPT !.pc = pc, !.outcome = outcome,
                                                 !.verified = run[w].verified]]
    BY <1>1, <1>4 DEF End, RunRecord
  <2> QED
    BY <1>2, <1>4, <2>1, RunOnly
<1> QED
  BY <1>3, <1>4

LEMMA QuietStepsKeep ==
    ASSUME PipeInv, NEW w \in Workers,
           Block(w) \/ Check(w) \/ Fault(w) \/ Escalate(w)
    PROVE  PipeInv'
<1> USE DEF PipeInv
<1>1. /\ UNCHANGED <<created, jobs, stored, handed>> /\ run[w].pc # "idle"
  BY DEF Block, Check, Fault, Escalate, At, redis
<1>2. Job(w).incident \in Incidents
  BY <1>1, RunOfItsJob
<1>3. CountsInv' /\ CountsGrow
  <2>1. CASE UNCHANGED escalated
    BY <1>1, <2>1, CountsUntouched
  <2>2. CASE escalated' = [escalated EXCEPT ![Job(w).incident] = @ + 1]
    BY <1>1, <1>2, <2>2, EscalatedOnce
  <2> QED
    BY <2>1, <2>2 DEF Block, Check, Fault, Escalate, redis
<1>4. /\ "return" \in Busy \ {"act", "settle"} /\ "execute" \in Busy \ {"act", "settle"}
      /\ "escalate" \in Busy \ {"act", "settle"} /\ "rethrow" \in Busy \ {"act", "settle"}
      /\ "blocked" \in Final /\ "repeated" \in Final
  BY DEF Busy, Final
<1>5. \/ \E outcome \in Final : End(w, outcome)
      \/ GoTo(w, "execute") \/ GoTo(w, "escalate") \/ GoTo(w, "rethrow")
  BY <1>4 DEF Block, Check, Fault, Escalate
<1> QED
  BY <1>1, <1>3, <1>4, <1>5, GoingKeeps

LEMMA ExecuteKeeps ==
    ASSUME PipeInv, NEW w \in Workers, Execute(w)
    PROVE  PipeInv'
<1>1. UNCHANGED <<created, jobs, stored, handed, escalated>> /\ run[w].pc # "idle"
  BY DEF Execute, At, redis
<1>2. CountsInv' /\ CountsGrow
  BY <1>1, CountsUntouched DEF PipeInv
<1>3. run[w] \in RunRecord /\ Job(w) \in JobRecord
  BY <1>1, RunOfItsJob
<1>4. run[w].verified \in Verdict /\ Job(w).verified \in Verdict
  BY <1>3 DEF RunRecord, JobRecord
<1>5. CASE \/ \E outcome \in Final : End(w, outcome)
           \/ GoTo(w, "escalate")
  <2>1. "return" \in Busy \ {"act", "settle"} /\ "escalate" \in Busy \ {"act", "settle"}
    BY DEF Busy
  <2> QED
    BY <1>1, <1>2, <1>5, <2>1, GoingKeeps
<1>6. CASE /\ NextState(Job(w)) # NoState
           /\ \E outcome \in {"success", "failure"}, v \in Verdict :
                run' = [run EXCEPT ![w] = [run[w] EXCEPT !.pc = "act", !.outcome = outcome,
                                                         !.verified = v]]
  <2>1. PICK outcome \in {"success", "failure"}, v \in Verdict :
                run' = [run EXCEPT ![w] = [run[w] EXCEPT !.pc = "act", !.outcome = outcome,
                                                         !.verified = v]]
    BY <1>6
  <2>2. "act" \in Busy /\ outcome \in Final
    BY DEF Busy, Final
  <2> QED
    BY <1>1, <1>2, <1>6, <2>1, <2>2, RunOnly
<1>7. CASE NextState(Job(w)) = NoState
  <2>1. "deadEnd" \in Final /\ End(w, "deadEnd")
    BY <1>7 DEF Execute, Final
  <2> QED
    BY <1>5, <2>1
<1>8. CASE NextState(Job(w)) # NoState
  <2>1. CASE run' = [run EXCEPT ![w].pc = "act", ![w].outcome = "failure"]
    <3>1. run' = [run EXCEPT ![w] = [run[w] EXCEPT !.pc = "act", !.outcome = "failure",
                                                   !.verified = run[w].verified]]
      BY <1>3, <2>1 DEF RunRecord
    <3> QED
      BY <1>4, <1>6, <1>8, <3>1
  <2>2. CASE \E v \in IF Job(w).state = "VERIFY" THEN {"passed", "failed"} ELSE {Job(w).verified} :
               run' = [run EXCEPT ![w] = [@ EXCEPT !.pc = "act", !.outcome = "success",
                                                   !.verified = v]]
    <3>1. PICK v \in IF Job(w).state = "VERIFY" THEN {"passed", "failed"} ELSE {Job(w).verified} :
               run' = [run EXCEPT ![w] = [run[w] EXCEPT !.pc = "act", !.outcome = "success",
                                                        !.verified = v]]
      BY <2>2
    <3>2. v \in Verdict
      BY <1>4 DEF Verdict
    <3> QED
      BY <1>6, <1>8, <3>1, <3>2
  <2> QED
    BY <1>5, <1>8, <2>1, <2>2 DEF Execute
<1> QED
  BY <1>7, <1>8

(* A run that is to act has a state with a way on.                          *)
LEMMA ActingRun ==
    ASSUME PipeInv, NEW w \in Workers, At(w, "act")
    PROVE  /\ run[w] \in RunRecord /\ run[w].job \in DOMAIN jobs /\ Job(w) = jobs[run[w].job]
           /\ Job(w) \in JobRecord /\ NextState(Job(w)) # NoState
           /\ Job(w).incident \in Incidents /\ Job(w).incident \in created
           /\ NextState(Job(w)) \in IncidentState /\ Job(w).state # "FIXED"
<1>1. run[w].pc = "act" /\ run[w].pc # "idle"
  BY DEF At
<1>2. run[w] \in RunRecord /\ run[w].job \in DOMAIN jobs /\ Job(w) \in JobRecord
      /\ Job(w).incident \in Incidents
  BY <1>1, RunOfItsJob
<1>3. NextState(Job(w)) # NoState /\ Job(w).incident \in created
  BY <1>1, <1>2 DEF PipeInv, RunsInv, RunOk, Job, JobsInv
<1> QED
  BY <1>2, <1>3, NextStates DEF Job

LEMMA HandOnKeeps ==
    ASSUME PipeInv, NEW w \in Workers, HandOn(w)
    PROVE  PipeInv'
<1>1. At(w, "act") /\ run[w].outcome = "success" /\ UNCHANGED <<created, stored, escalated>>
      /\ GoTo(w, "settle")
  BY DEF HandOn
<1>2. PICK n \in DOMAIN jobs : n = run[w].job
  BY <1>1, ActingRun
<1> DEFINE d == jobs[n]
<1>3. /\ d = Job(w) /\ d \in JobRecord /\ NextState(d) # NoState /\ NextState(d) \in IncidentState
      /\ d.incident \in Incidents /\ d.incident \in created /\ d.state # "FIXED"
      /\ run[w].verified \in Verdict /\ d.fixAttempts \in Nat
  BY <1>1, <1>2, ActingRun DEF RunRecord, JobRecord
<1>4. CASE NextState(d) = "FIXED"
  <2> DEFINE e == NewJob(d.incident, "FIXED", d.fixAttempts, run[w].verified)
  <2>1. e \in JobRecord /\ e.incident = d.incident /\ e.state = "FIXED"
    BY <1>3, <1>4, NewJobIs
  <2>2. jobs' = Append(jobs, e) /\ UNCHANGED handed
    BY <1>3, <1>4 DEF HandOn
  <2> HIDE DEF e
  <2>3. /\ JobsInv' /\ JobsGrow
        /\ Len(jobs) + 1 \in DOMAIN jobs' /\ jobs'[Len(jobs) + 1] = e
    BY <1>1, <1>3, <2>1, <2>2, JobAdded DEF PipeInv, JobsInv
  <2>4. CountsInv' /\ CountsGrow
    BY <1>1, <2>2, CountsUntouched DEF PipeInv
  <2>5. jobs'[n].incident = d.incident /\ NextState(jobs'[n]) = "FIXED"
    BY <1>4, <2>3, SameKey DEF JobsGrow, Same
  <2>6. HandedOn(d)'
    BY <2>1, <2>3, <2>5 DEF HandedOn
  <2>7. ActedOn(d, "success")'
    BY <2>6 DEF ActedOn
  <2> QED
    BY <1>1, <1>2, <1>3, <2>3, <2>4, <2>7, RunSettles DEF Grows
<1>5. CASE NextState(d) # "FIXED"
  <2>1. UNCHANGED jobs /\ handed' = [handed EXCEPT ![d.incident][NextState(d)] = @ + 1]
    BY <1>3, <1>5 DEF HandOn
  <2>2. JobsInv' /\ JobsGrow
    BY <1>1, <2>1, JobsUntouched DEF PipeInv
  <2>3. CountsInv' /\ CountsGrow /\ handed'[d.incident][NextState(d)] > 0
    BY <1>1, <1>3, <2>1, HandedOnce DEF PipeInv
  <2>4. jobs'[n] = jobs[n]
    BY <2>1
  <2>5. HandedOn(d)'
    BY <1>5, <2>3, <2>4 DEF HandedOn
  <2>6. ActedOn(d, "success")'
    BY <2>5 DEF ActedOn
  <2> QED
    BY <1>1, <1>2, <1>3, <2>2, <2>3, <2>6, RunSettles DEF Grows
<1> QED
  BY <1>4, <1>5

LEMMA RetryKeeps ==
    ASSUME PipeInv, NEW w \in Workers, Retry(w)
    PROVE  PipeInv'
<1>1. At(w, "act") /\ run[w].outcome = "failure" /\ UNCHANGED <<created, stored, handed>>
      /\ GoTo(w, "settle")
  BY DEF Retry
<1>2. PICK n \in DOMAIN jobs : n = run[w].job
  BY <1>1, ActingRun
<1> DEFINE d == jobs[n]
           k == IF d.state = "FIX_ATTEMPT" THEN d.fixAttempts + 1 ELSE d.fixAttempts
<1>3. /\ d = Job(w) /\ d \in JobRecord /\ NextState(d) # NoState
      /\ d.incident \in Incidents /\ d.incident \in created /\ d.state # "FIXED"
      /\ d.state \in IncidentState /\ d.verified \in Verdict /\ k \in Nat
  BY <1>1, <1>2, ActingRun DEF JobRecord
<1> HIDE DEF k
<1>4. CASE escalated' = [escalated EXCEPT ![d.incident] = @ + 1] /\ UNCHANGED jobs
  <2>1. JobsInv' /\ JobsGrow
    BY <1>1, <1>4, JobsUntouched DEF PipeInv
  <2>2. CountsInv' /\ CountsGrow /\ escalated'[d.incident] > 0
    BY <1>1, <1>3, <1>4, EscalatedOnce DEF PipeInv
  <2>3. jobs'[n] = jobs[n]
    BY <1>4
  <2>4. ActedOn(d, "failure")'
    BY <2>2, <2>3 DEF ActedOn, Noticed
  <2> QED
    BY <1>1, <1>2, <1>3, <2>1, <2>2, <2>4, RunSettles DEF Grows
<1>5. CASE /\ jobs' = Append(jobs, NewJob(d.incident, d.state, k, d.verified))
           /\ UNCHANGED escalated
  <2> DEFINE e == NewJob(d.incident, d.state, k, d.verified)
             l == Len(jobs) + 1
  <2>1. e \in JobRecord /\ e.incident = d.incident /\ e.state = d.state /\ e.verified = d.verified
    BY <1>3, NewJobIs
  <2>2. jobs' = Append(jobs, e)
    BY <1>5
  <2> HIDE DEF e
  <2>3. \A m \in DOMAIN jobs :
           jobs[m].incident = e.incident /\ jobs[m].state # "FIXED" /\ e.state # "FIXED"
           => jobs[m].state = e.state /\ jobs[m].verified = e.verified
    BY <1>2, <1>3, <2>1 DEF PipeInv, JobsInv, OneCourse
  <2>4. JobsInv' /\ JobsGrow /\ l \in DOMAIN jobs' /\ jobs'[l] = e /\ l \notin DOMAIN jobs
    BY <1>1, <1>3, <2>1, <2>2, <2>3, JobAdded DEF PipeInv, JobsInv
  <2> HIDE DEF l
  <2>5. CountsInv' /\ CountsGrow
    BY <1>1, <1>5, CountsUntouched DEF PipeInv
  <2>6. n \in DOMAIN jobs' /\ jobs'[n].incident = d.incident /\ n # l
    BY <1>2, <2>4 DEF JobsGrow, Same
  <2>7. ActedOn(d, "failure")'
    BY <2>1, <2>4, <2>6 DEF ActedOn, Noticed
  <2> QED
    BY <1>1, <1>2, <1>3, <2>4, <2>5, <2>7, RunSettles DEF Grows
<1> QED
  BY <1>3, <1>4, <1>5 DEF Retry, k

LEMMA SettleKeeps ==
    ASSUME PipeInv, NEW w \in Workers, Settle(w)
    PROVE  PipeInv'
<1> USE DEF PipeInv
<1>1. /\ UNCHANGED <<created, jobs, handed, escalated>>
      /\ run[w].pc = "settle" /\ run[w].pc # "idle" /\ GoTo(w, "return")
  BY DEF Settle, At
<1>2. JobsInv' /\ CountsInv' /\ Grows
  BY <1>1, JobsUntouched, CountsUntouched DEF Grows
<1> DEFINE new == [key |-> Key(Job(w)), outcome |-> run[w].outcome]
<1>3. run[w] \in RunRecord /\ run[w].job \in DOMAIN jobs
  BY <1>1, RunOfItsJob
<1>4. RunsInv'
  <2> PICK c : c = [run[w] EXCEPT !.pc = "return"]
    OBVIOUS
  <2>1. c \in RunRecord /\ c.pc = "return" /\ c.job \in DOMAIN jobs'
    BY <1>1, <1>3 DEF RunRecord, Busy
  <2>2. RunOk(c)'
    BY <2>1 DEF RunOk
  <2>3. run' = [run EXCEPT ![w] = c]
    BY <1>1 DEF GoTo
  <2>4. \A v \in Workers : RunOk(run[v])'
    BY <1>2, <2>2, <2>3, RunOkStays DEF RunsInv
  <2> QED
    BY <2>3, <2>4 DEF RunsInv
<1>5. StoredOk(new)
  <2>1. NextState(jobs[run[w].job]) # NoState /\ ActedOn(jobs[run[w].job], run[w].outcome)
    BY <1>1 DEF RunsInv, RunOk
  <2>2. new.key = Key(jobs[run[w].job]) /\ new.outcome = run[w].outcome
    BY DEF Job
  <2> QED
    BY <1>3, <2>1, <2>2 DEF StoredOk
<1> HIDE DEF new
<1>6. \A r \in stored' : StoredOk(r)
  BY <1>5 DEF Settle, StoredInv, new
<1>7. StoredInv'
  BY <1>2, <1>6, StoredStays DEF StoredInv
<1> QED
  BY <1>2, <1>4, <1>7

(* A worker that finishes or fails its job changes the job's bookkeeping at *)
(* most, whether it still holds the lock or not.                            *)
LEMMA GiveKeeps ==
    ASSUME PipeInv, NEW w \in Workers, Return(w) \/ Rethrow(w)
    PROVE  PipeInv'
<1> USE DEF PipeInv
<1>1. /\ UNCHANGED <<created, stored, handed, escalated>> /\ run[w].pc # "idle"
      /\ run' = [run EXCEPT ![w] = IdleRun]
  BY DEF Return, Rethrow, Give, At
<1>2. /\ run[w] \in RunRecord /\ run[w].job \in DOMAIN jobs
      /\ Job(w) \in JobRecord /\ Job(w) = jobs[run[w].job]
  BY <1>1, RunOfItsJob DEF Job
<1>3. CountsInv' /\ CountsGrow
  BY <1>1, CountsUntouched
<1>4. \/ UNCHANGED jobs
      \/ \E d \in JobRecord : Same(Job(w), d) /\ jobs' = [jobs EXCEPT ![run[w].job] = d]
  <2>1. CASE Return(w)
    <3> DEFINE d == [[Job(w) EXCEPT !.status = run[w].outcome] EXCEPT !.owner = NoOne]
    <3>1. d \in JobRecord /\ Same(Job(w), d)
      BY <1>2 DEF JobRecord, RunRecord, Statuses, Same
    <3>2. UNCHANGED jobs \/ jobs' = [jobs EXCEPT ![run[w].job] = d]
      BY <2>1 DEF Return, Give
    <3> QED
      BY <3>1, <3>2
  <2>2. CASE Rethrow(w)
    <3> DEFINE n == Job(w).attempts + 1
               s == IF n < MaxAttempts THEN "waiting" ELSE "failed"
               d == [[Job(w) EXCEPT !.attempts = n, !.status = s] EXCEPT !.owner = NoOne]
    <3>1. n \in Nat /\ s \in Statuses
      BY <1>2 DEF JobRecord, Statuses, Final
    <3>2. UNCHANGED jobs \/ jobs' = [jobs EXCEPT ![run[w].job] = d]
      BY <2>2 DEF Rethrow, Give
    <3> HIDE DEF n, s
    <3>3. d \in JobRecord /\ Same(Job(w), d)
      BY <1>2, <3>1 DEF JobRecord, Same
    <3> QED
      BY <3>2, <3>3
  <2> QED
    BY <2>1, <2>2
<1>5. JobsInv' /\ JobsGrow
  BY <1>1, <1>2, <1>4, JobsUntouched, JobChanged
<1>6. IdleRun \in RunRecord /\ IdleRun.pc = "idle"
  BY DEF IdleRun, RunRecord, Final, Verdict, Busy
<1> QED
  BY <1>1, <1>3, <1>5, <1>6, RunGoes DEF Grows

LEMMA StalledKeeps ==
    ASSUME PipeInv, NEW n \in DOMAIN jobs, Stalled(n)
    PROVE  PipeInv'
<1>1. jobs[n] \in JobRecord /\ UNCHANGED <<created, stored, handed, escalated, run>>
  BY DEF PipeInv, JobsInv, Stalled, memory
<1>2. PICK k \in Nat : k = jobs[n].stalls + 1
  BY <1>1 DEF JobRecord
<1>3. PICK s \in Statuses : s = IF jobs[n].stalls < MaxStalled THEN "waiting" ELSE "failed"
  BY DEF Statuses, Final
<1>4. PICK d : d = [jobs[n] EXCEPT !.owner = NoOne, !.stalls = k, !.status = s]
  OBVIOUS
<1>5. d \in JobRecord /\ Same(jobs[n], d)
  BY <1>1, <1>4 DEF JobRecord, Same
<1>6. jobs' = [jobs EXCEPT ![n] = d]
  BY <1>2, <1>3, <1>4 DEF Stalled
<1>7. JobsInv' /\ JobsGrow
  BY <1>1, <1>5, <1>6, JobChanged DEF PipeInv
<1>8. CountsInv' /\ CountsGrow
  BY <1>1, CountsUntouched DEF PipeInv
<1> QED
  BY <1>1, <1>7, <1>8, NoRunMoves DEF Grows

LEMMA CrashKeeps == PipeInv /\ Crash => PipeInv'
<1> SUFFICES ASSUME PipeInv, Crash PROVE PipeInv'
  OBVIOUS
<1> USE DEF PipeInv
<1>1. UNCHANGED <<created, jobs, stored, handed, escalated>>
      /\ run' = [w \in Workers |-> IdleRun]
  BY DEF Crash, redis
<1>2. JobsInv' /\ CountsInv' /\ Grows
  BY <1>1, JobsUntouched, CountsUntouched DEF Grows
<1>3. IdleRun \in RunRecord /\ IdleRun.pc = "idle"
  BY DEF IdleRun, RunRecord, Final, Verdict, Busy
<1>4. RunOk(IdleRun)'
  BY <1>3 DEF RunOk
<1>5. RunsInv'
  BY <1>1, <1>4 DEF RunsInv
<1>6. StoredInv'
  BY <1>1, <1>2, StoredStays DEF StoredInv
<1> QED
  BY <1>2, <1>5, <1>6

LEMMA PipeInvKept == PipeInv /\ [Next]_vars => PipeInv'
<1> SUFFICES ASSUME PipeInv, [Next]_vars PROVE PipeInv'
  OBVIOUS
<1>1. CASE UNCHANGED vars
  BY <1>1, JobsUntouched, CountsUntouched, NoRunMoves DEF PipeInv, Grows, vars, redis, memory
<1>2. ASSUME NEW i \in Incidents, Create(i) PROVE PipeInv'
  BY <1>2, CreateKeeps
<1>3. ASSUME NEW w \in Workers, Step(w) PROVE PipeInv'
  <2>1. ASSUME NEW n \in DOMAIN jobs, Take(w, n) PROVE PipeInv'
    BY <2>1, TakeKeeps
  <2>2. CASE Block(w) \/ Check(w) \/ Escalate(w)
    BY <2>2, QuietStepsKeep
  <2>3. CASE Execute(w)
    BY <2>3, ExecuteKeeps
  <2>4. CASE HandOn(w)
    BY <2>4, HandOnKeeps
  <2>5. CASE Retry(w)
    BY <2>5, RetryKeeps
  <2>6. CASE Settle(w)
    BY <2>6, SettleKeeps
  <2>7. CASE Return(w) \/ Rethrow(w)
    BY <2>7, GiveKeeps
  <2> QED
    BY <1>3, <2>1, <2>2, <2>3, <2>4, <2>5, <2>6, <2>7 DEF Step
<1>4. ASSUME NEW w \in Workers, Fault(w) PROVE PipeInv'
  BY <1>4, QuietStepsKeep
<1>5. CASE Crash
  BY <1>5, CrashKeeps
<1>6. ASSUME NEW n \in DOMAIN jobs, Stalled(n) PROVE PipeInv'
  BY <1>6, StalledKeeps
<1> QED
  BY <1>1, <1>2, <1>3, <1>4, <1>5, <1>6 DEF Next

(* What was done for one job of a key was done for all of them.             *)
LEMMA PipeInvMeans == PipeInv => StoredMeansActedOn
<1> SUFFICES ASSUME PipeInv, NEW n \in DOMAIN jobs, NEW r \in stored, r.key = Key(jobs[n])
             PROVE  \/ r.outcome = "success" /\ HandedOn(jobs[n])
                    \/ /\ r.outcome = "failure"
                       /\ \/ escalated[jobs[n].incident] > 0
                          \/ \E m \in DOMAIN jobs : m # n /\ jobs[m].incident = jobs[n].incident
  BY DEF StoredMeansActedOn
<1>1. PICK k \in DOMAIN jobs :
         r.key = Key(jobs[k]) /\ NextState(jobs[k]) # NoState /\ ActedOn(jobs[k], r.outcome)
  BY DEF PipeInv, StoredInv, StoredOk
<1>2. /\ jobs[n].incident = jobs[k].incident /\ jobs[n].state = jobs[k].state
      /\ jobs[k] \in JobRecord
  BY <1>1 DEF Key, PipeInv, JobsInv
<1>3. jobs[k].state # "FIXED"
  BY <1>1, <1>2, NextStates
<1>4. jobs[n].verified = jobs[k].verified
  BY <1>2, <1>3 DEF PipeInv, JobsInv, OneCourse
<1>5. NextState(jobs[n]) = NextState(jobs[k])
  BY <1>1, <1>4, KeyTells, SameKey
<1>6. CASE r.outcome = "success" /\ HandedOn(jobs[k])
  BY <1>2, <1>5, <1>6 DEF HandedOn
<1>7. CASE r.outcome = "failure" /\ Noticed(jobs[k].incident)
  BY <1>2, <1>7 DEF Noticed
<1> QED
  BY <1>1, <1>6, <1>7 DEF ActedOn

(* A result is stored only after the run has handed the incident on,       *)
(* retried or escalated it (processIncident stores it last), whatever is   *)
(* lost, repeated or interleaved: a later delivery that returns the stored *)
(* result in place of working leaves nothing undone.                       *)
THEOREM StoredActedOn == Spec => []StoredMeansActedOn
<1>1. Init => PipeInv
  BY PipeInitially
<1>2. PipeInv /\ [Next]_vars => PipeInv'
  BY PipeInvKept
<1>3. PipeInv => StoredMeansActedOn
  BY PipeInvMeans
<1> QED
  BY <1>1, <1>2, <1>3, PTL DEF Spec

(***************************************************************************)
(* The types of IncidentPipeline, and whose loop contexts are.  The        *)
(* invariant adds to the type who may hold the lock of a job, and that a   *)
(* run that does not hold it any more has a job that stalled.              *)
(***************************************************************************)


(* A job that is not being worked on has no owner, and one that is not over *)
(* may be tried, and may stall, once more.                                  *)
JobFits(d) ==
    /\ d \in JobType
    /\ d.status # "active" => d.owner = NoOne
    /\ d.status \in {"waiting", "active"} => d.attempts < MaxAttempts /\ d.stalls <= MaxStalled

AllFit == \A n \in DOMAIN jobs : JobFits(jobs[n])

(* The run has the context of its loop still before it, or was blocked.     *)
WasBlocked(c) == c.pc = "blocked" \/ (c.pc = "return" /\ c.outcome = "blocked")
Going(c) == c.pc \in {"check", "execute", "act", "settle"} \/ WasBlocked(c)

GoingOn(l) == \E w \in Workers : Going(run[w]) /\ Loop(w) = l
LeftBehind(l) ==
    \E n \in DOMAIN jobs :
        /\ <<jobs[n].incident, jobs[n].state>> = l
        /\ jobs[n].status = "blocked" \/ (jobs[n].stalls > 0 /\ InCooldown(stats))

Held(w) == run[w].pc # "idle" => Job(w).owner = w \/ Job(w).stalls > 0

MemoryInv ==
    /\ stats \in StatsType
    /\ loops \subseteq Incidents \X IncidentState
    /\ trouble \in 0..MaxTrouble

LoopInv ==
    /\ AllFit
    /\ \A w \in Workers : Held(w)
    /\ \A w \in Workers : WasBlocked(run[w]) => InCooldown(stats)
    /\ \A l \in loops : GoingOn(l) \/ LeftBehind(l)

WholeInv == PipeInv /\ MemoryInv /\ LoopInv

-----------------------------------------------------------------------------
(* The statistics keep their type, and a cooldown that runs goes on: the    *)
(* time is within one window.                                               *)
LEMMA CleanUpKeeps ==
    ASSUME NEW s \in StatsType
    PROVE  CleanUp(s) \in StatsType /\ (InCooldown(s) => InCooldown(CleanUp(s)))
<1> USE FlappingAssumption
<1>1. s.count \in Nat /\ s.first \in Nat /\ s.last \in Nat /\ s.cooldown \in Int
  BY DEF StatsType
<1>2. Halved(s.count) \in Nat
  BY <1>1 DEF Halved
<1>3. PICK t : t = SlideWindow(s)
  OBVIOUS
<1>4. t \in StatsType /\ t.cooldown = s.cooldown
  BY <1>1, <1>2, <1>3 DEF SlideWindow, StatsType
<1>5. CleanUp(s) = ExpireCooldown(t)
  BY <1>3 DEF CleanUp
<1>6. ExpireCooldown(t) \in StatsType
  <2>1. NoTime \in Int
    BY DEF NoTime
  <2> QED
    BY <1>4, <2>1 DEF ExpireCooldown, StatsType
<1>7. InCooldown(s) => ExpireCooldown(t) = t
  BY <1>1, <1>4 DEF InCooldown, ExpireCooldown
<1> QED
  BY <1>4, <1>5, <1>6, <1>7 DEF InCooldown

LEMMA CheckedKeeps ==
    ASSUME NEW s \in StatsType
    PROVE  /\ Checked(s) \in StatsType
           /\ InCooldown(s) => InCooldown(Checked(s))
           /\ ~Allowed(s) => InCooldown(Checked(s))
<1> USE FlappingAssumption
<1>1. PICK t : t = CleanUp(s)
  OBVIOUS
<1>2. t \in StatsType /\ (InCooldown(s) => InCooldown(t))
  BY <1>1, CleanUpKeeps
<1>3. t.count \in Nat /\ t.first \in Nat /\ t.last \in Nat /\ t.shouldEscalate \in BOOLEAN
  BY <1>2 DEF StatsType
<1>4. CASE InCooldown(t) \/ t.count < MaxIncidentsPerWindow
  BY <1>1, <1>2, <1>4 DEF Checked, Allowed
<1>5. CASE ~(InCooldown(t) \/ t.count < MaxIncidentsPerWindow)
  <2>1. PICK b \in BOOLEAN : b = (t.shouldEscalate \/ t.count >= EscalationThreshold)
    OBVIOUS
  <2>2. Checked(s) = [count |-> t.count, first |-> t.first, last |-> t.last, cooldown |-> Window,
                      isFlapping |-> TRUE, shouldEscalate |-> b]
    BY <1>1, <1>5, <2>1 DEF Checked
  <2> QED
    BY <1>3, <2>2 DEF StatsType, InCooldown
<1> QED
  BY <1>4, <1>5

LEMMA RecordedKeeps ==
    ASSUME NEW s \in StatsType
    PROVE  Recorded(s) \in StatsType /\ (InCooldown(s) => InCooldown(Recorded(s)))
<1> DEFINE t == CleanUp(s)
           r == Recorded(s)
<1>1. t \in StatsType /\ (InCooldown(s) => InCooldown(t))
  BY CleanUpKeeps
<1>2. r = [count |-> t.count + 1, last |-> 0,
           first |-> IF t.count = 0 THEN 0 ELSE t.first,
           cooldown |-> t.cooldown,
           isFlapping |-> t.count + 1 >= MaxIncidentsPerWindow,
           shouldEscalate |-> t.shouldEscalate]
  BY DEF Recorded
<1> HIDE DEF t, r
<1>3. r \in StatsType
  BY <1>1, <1>2, FlappingAssumption DEF StatsType
<1>4. r.cooldown = t.cooldown
  BY <1>2
<1> QED
  BY <1>1, <1>3, <1>4 DEF InCooldown, r

LEMMA ResolvedKeeps ==
    ASSUME NEW s \in StatsType, NEW ok \in BOOLEAN
    PROVE  Resolved(s, ok) \in StatsType /\ (InCooldown(s) => InCooldown(Resolved(s, ok)))
<1>1. s.count \in Nat
  BY DEF StatsType
<1>2. CASE s.count > 0
  <2>1. PICK k \in Nat : k = s.count - 1
    BY <1>1, <1>2
  <2>2. Resolved(s, ok) = s \/ Resolved(s, ok) = [s EXCEPT !.count = k]
    BY <2>1 DEF Resolved
  <2> QED
    BY <2>2 DEF StatsType, InCooldown
<1>3. CASE ~(s.count > 0)
  BY <1>3 DEF Resolved
<1> QED
  BY <1>2, <1>3

(***************************************************************************)
(* Steps that leave the jobs there are as they are                         *)
(***************************************************************************)

JobsKept == \A n \in DOMAIN jobs : n \in DOMAIN jobs' /\ jobs'[n] = jobs[n]
CooldownStays == InCooldown(stats) => InCooldown(stats')

LEMMA JobsUnchanged ==
    AllFit /\ UNCHANGED jobs => AllFit' /\ JobsKept
BY DEF AllFit, JobFits, JobsKept

LEMMA FitAdded ==
    ASSUME JobsInv, AllFit, NEW d, JobFits(d), jobs' = Append(jobs, d), d \in JobRecord
    PROVE  AllFit' /\ JobsKept
<1>1. /\ DOMAIN jobs' = DOMAIN jobs \cup {Len(jobs) + 1} /\ jobs'[Len(jobs) + 1] = d
      /\ \A m \in DOMAIN jobs : jobs'[m] = jobs[m]
  BY DEF JobsInv
<1>2. \A n \in DOMAIN jobs' : JobFits(jobs'[n])
  BY <1>1 DEF AllFit
<1>3. AllFit'
  BY <1>2 DEF AllFit, JobFits
<1> QED
  BY <1>1, <1>3 DEF JobsKept

LEMMA NewJobFits ==
    ASSUME NEW i \in Incidents, NEW s \in IncidentState, NEW k \in Nat, k < MaxFixAttempts,
           NEW v \in Verdict
    PROVE  JobFits(NewJob(i, s, k, v))
<1>1. k \in 0..(MaxFixAttempts - 1) /\ 0 \in 0..MaxAttempts /\ 0 \in 0..(MaxStalled + 1)
      /\ 0 < MaxAttempts /\ 0 <= MaxStalled
  BY PipelineAssumption
<1> QED
  BY <1>1 DEF NewJob, JobFits, JobType

(* A run that goes on is still to release its loop context, unless it did.  *)
GoesOn(w, c) ==
    /\ run' = [run EXCEPT ![w] = c]
    /\ c.pc \in {"execute", "act", "settle", "return", "escalate", "rethrow"}
    /\ c.job = run[w].job
    /\ (Going(run[w]) /\ Loop(w) \in loops') => Going(c)
    /\ WasBlocked(c) => WasBlocked(run[w])

LEMMA RunStepKeeps ==
    ASSUME WholeInv, NEW w \in Workers, NEW c, GoesOn(w, c), run[w].pc # "idle",
           AllFit', JobsKept, CooldownStays, loops' \subseteq loops
    PROVE  LoopInv'
<1>1. \A v \in Workers : run'[v] = IF v = w THEN c ELSE run[v]
  BY DEF WholeInv, PipeInv, RunsInv, GoesOn
<1>2. \A v \in Workers : run[v].pc # "idle" => run[v].job \in DOMAIN jobs
  BY DEF WholeInv, PipeInv, RunsInv, RunOk
<1>3. \A v \in Workers : /\ run'[v].pc # "idle" <=> run[v].pc # "idle"
                         /\ run'[v].job = run[v].job
  BY <1>1 DEF GoesOn
<1>4. \A v \in Workers : run[v].pc # "idle" => jobs'[run'[v].job] = jobs[run[v].job]
  BY <1>2, <1>3 DEF JobsKept
<1>5. ASSUME NEW v \in Workers PROVE Held(v)'
  BY <1>3, <1>4 DEF WholeInv, LoopInv, Held, Job
<1>6. ASSUME NEW v \in Workers PROVE WasBlocked(run[v])' => InCooldown(stats)'
  <2>1. WasBlocked(run'[v]) => WasBlocked(run[v])
    BY <1>1 DEF GoesOn
  <2>2. WasBlocked(run'[v]) => InCooldown(stats')
    BY <2>1 DEF WholeInv, LoopInv, CooldownStays
  <2> QED
    BY <2>2 DEF WasBlocked, InCooldown
<1>7. ASSUME NEW l \in loops' PROVE GoingOn(l)' \/ LeftBehind(l)'
  <2>1. CASE GoingOn(l)
    <3>1. PICK v \in Workers : Going(run[v]) /\ Loop(v) = l
      BY <2>1 DEF GoingOn
    <3>2. run[v].pc # "idle"
      BY <3>1 DEF Going, WasBlocked
    <3>3. Going(run'[v])
      BY <1>1, <1>7, <3>1 DEF GoesOn
    <3>4. <<jobs'[run'[v].job].incident, jobs'[run'[v].job].state>> = l
      BY <1>4, <3>1, <3>2 DEF Loop, Job
    <3> QED
      BY <3>3, <3>4 DEF GoingOn, Going, WasBlocked, Loop, Job
  <2>2. CASE LeftBehind(l)
    BY <2>2 DEF LeftBehind, JobsKept, CooldownStays, InCooldown
  <2> QED
    BY <1>7, <2>1, <2>2 DEF WholeInv, LoopInv
<1> QED
  BY <1>5, <1>6, <1>7 DEF LoopInv

LEMMA TroubleKept ==
    MemoryInv /\ (UNCHANGED trouble \/ Troubled) => trouble' \in 0..MaxTrouble
<1> SUFFICES ASSUME MemoryInv, UNCHANGED trouble \/ Troubled PROVE trouble' \in 0..MaxTrouble
  OBVIOUS
<1>1. trouble \in 0..MaxTrouble /\ MaxTrouble \in Nat
  BY PipelineAssumption DEF MemoryInv
<1> QED
  BY <1>1 DEF Troubled

LEMMA QuietStepsKeepLoops ==
    ASSUME WholeInv, NEW w \in Workers,
           Block(w) \/ Check(w) \/ Execute(w) \/ Settle(w) \/ Fault(w) \/ Escalate(w)
    PROVE  MemoryInv' /\ LoopInv'
<1>1. /\ UNCHANGED jobs /\ run[w].pc \in Busy /\ run[w].pc \notin {"idle", "return", "rethrow"}
      /\ loops' \subseteq loops
      /\ UNCHANGED stats \/ stats' = Resolved(stats, FALSE)
      /\ UNCHANGED trouble \/ Troubled
  BY DEF Block, Check, Execute, Settle, Fault, Escalate, At, redis, Busy, Troubled
<1>2. stats' \in StatsType /\ CooldownStays
  BY <1>1, ResolvedKeeps DEF WholeInv, MemoryInv, CooldownStays
<1>3. MemoryInv'
  BY <1>1, <1>2, TroubleKept DEF WholeInv, MemoryInv
<1>4. AllFit' /\ JobsKept
  BY <1>1, JobsUnchanged DEF WholeInv, LoopInv
<1>5. run[w] \in RunRecord /\ run[w].pc # "idle"
      /\ (run[w].pc = "settle" => run[w].outcome \in {"success", "failure"})
  BY <1>1, RunOfItsJob DEF WholeInv, PipeInv, RunsInv, RunOk
<1>6. PICK c : GoesOn(w, c)
  <2>1. CASE Block(w)
    <3>1. PICK c : c = [run[w] EXCEPT !.pc = "return", !.outcome = "blocked"]
      OBVIOUS
    <3>2. c.pc = "return" /\ c.outcome = "blocked" /\ c.job = run[w].job
      BY <1>5, <3>1 DEF RunRecord
    <3>3. run' = [run EXCEPT ![w] = c] /\ run[w].pc = "blocked"
      BY <2>1, <3>1 DEF Block, End, At
    <3> QED
      BY <3>2, <3>3 DEF GoesOn, Going, WasBlocked
  <2>2. ASSUME End(w, "repeated") \/ End(w, "deadEnd"), loops' = loops \ {Loop(w)}
        PROVE  \E c : GoesOn(w, c)
    <3>1. PICK o \in {"repeated", "deadEnd"} : End(w, o)
      BY <2>2
    <3>2. PICK c : c = [run[w] EXCEPT !.pc = "return", !.outcome = o]
      OBVIOUS
    <3>3. c.pc = "return" /\ c.outcome = o /\ c.job = run[w].job
      BY <1>5, <3>2 DEF RunRecord
    <3>4. run' = [run EXCEPT ![w] = c]
      BY <3>1, <3>2 DEF End
    <3>5. Loop(w) \notin loops' /\ ~WasBlocked(c)
      BY <2>2, <3>3 DEF WasBlocked
    <3> QED
      BY <3>3, <3>4, <3>5 DEF GoesOn
  <2>3. ASSUME NEW pc \in {"execute", "act", "escalate", "rethrow"},
               NEW o \in Final, NEW v \in Verdict,
               run' = [run EXCEPT ![w] = [run[w] EXCEPT !.pc = pc, !.outcome = o, !.verified = v]],
               (Going(run[w]) /\ Loop(w) \in loops') => pc \in {"execute", "act"}
        PROVE  \E c : GoesOn(w, c)
    <3>1. PICK c : c = [run[w] EXCEPT !.pc = pc, !.outcome = o, !.verified = v]
      OBVIOUS
    <3>2. c.pc = pc /\ c.job = run[w].job
      BY <1>5, <3>1 DEF RunRecord
    <3>3. run' = [run EXCEPT ![w] = c]
      BY <2>3, <3>1
    <3>4. ~WasBlocked(c)
      BY <3>2 DEF WasBlocked
    <3>5. (Going(run[w]) /\ Loop(w) \in loops') => Going(c)
      BY <2>3, <3>2 DEF Going
    <3> QED
      BY <3>2, <3>3, <3>4, <3>5 DEF GoesOn
  <2>4. ASSUME NEW pc \in {"execute", "act", "escalate", "rethrow"}, GoTo(w, pc),
               (Going(run[w]) /\ Loop(w) \in loops') => pc \in {"execute", "act"}
        PROVE  \E c : GoesOn(w, c)
    <3>1. run[w].outcome \in Final /\ run[w].verified \in Verdict
      BY <1>5 DEF RunRecord
    <3>2. run' = [run EXCEPT ![w] = [run[w] EXCEPT !.pc = pc, !.outcome = run[w].outcome,
                                                   !.verified = run[w].verified]]
      BY <1>5, <2>4 DEF GoTo, RunRecord
    <3> QED
      BY <2>3, <2>4, <3>1, <3>2
  <2>5. CASE Check(w)
    BY <2>2, <2>4, <2>5 DEF Check
  <2>6. CASE Execute(w)
    <3>1. CASE NextState(Job(w)) = NoState
      BY <2>2, <2>6, <3>1 DEF Execute
    <3>2. CASE NextState(Job(w)) # NoState
      <4>1. CASE run' = [run EXCEPT ![w].pc = "act", ![w].outcome = "failure"]
        <5>1. run' = [run EXCEPT ![w] = [run[w] EXCEPT !.pc = "act", !.outcome = "failure",
                                                       !.verified = run[w].verified]]
          BY <1>5, <4>1 DEF RunRecord
        <5>2. run[w].verified \in Verdict /\ "failure" \in Final
          BY <1>5 DEF RunRecord, Final
        <5> QED
          BY <2>3, <5>1, <5>2
      <4>2. CASE \E v \in IF Job(w).state = "VERIFY" THEN {"passed", "failed"} ELSE {Job(w).verified} :
                   run' = [run EXCEPT ![w] = [@ EXCEPT !.pc = "act", !.outcome = "success",
                                                       !.verified = v]]
        <5>1. PICK v \in IF Job(w).state = "VERIFY" THEN {"passed", "failed"} ELSE {Job(w).verified} :
                   run' = [run EXCEPT ![w] = [run[w] EXCEPT !.pc = "act", !.outcome = "success",
                                                            !.verified = v]]
          BY <4>2
        <5>2. Job(w).verified \in Verdict
          BY <1>5, RunOfItsJob DEF JobRecord, WholeInv
        <5>3. v \in Verdict /\ "success" \in Final
          BY <5>2 DEF Verdict, Final
        <5> QED
          BY <2>3, <5>1, <5>3
      <4>3. CASE Loop(w) \notin loops /\ GoTo(w, "escalate")
        BY <1>1, <2>4, <4>3
      <4> QED
        BY <2>6, <3>2, <4>1, <4>2, <4>3 DEF Execute
    <3> QED
      BY <3>1, <3>2
  <2>7. CASE Settle(w)
    <3>1. PICK c : c = [run[w] EXCEPT !.pc = "return"]
      OBVIOUS
    <3>2. c.pc = "return" /\ c.outcome = run[w].outcome /\ c.job = run[w].job
      BY <1>5, <3>1 DEF RunRecord
    <3>3. /\ run' = [run EXCEPT ![w] = c] /\ run[w].pc = "settle"
          /\ loops' = loops \ {Loop(w)}
      BY <2>7, <3>1 DEF Settle, GoTo, At
    <3>4. ~WasBlocked(c) /\ Loop(w) \notin loops'
      BY <1>5, <3>2, <3>3 DEF WasBlocked
    <3> QED
      BY <3>2, <3>3, <3>4 DEF GoesOn
  <2>8. CASE Fault(w)
    BY <2>4, <2>8 DEF Fault
  <2>9. CASE Escalate(w)
    <3>1. run[w].pc = "escalate" /\ GoTo(w, "rethrow") /\ ~Going(run[w])
      BY <2>9 DEF Escalate, At, Going, WasBlocked
    <3> QED
      BY <2>4, <3>1
  <2> QED
    BY <2>1, <2>5, <2>6, <2>7, <2>8, <2>9
<1> QED
  BY <1>1, <1>2, <1>3, <1>4, <1>5, <1>6, RunStepKeeps

LEMMA ActingStepsKeepLoops ==
    ASSUME WholeInv, NEW w \in Workers, HandOn(w) \/ Retry(w)
    PROVE  MemoryInv' /\ LoopInv'
<1>1. /\ At(w, "act") /\ GoTo(w, "settle") /\ UNCHANGED <<loops, trouble>>
      /\ \E ok \in BOOLEAN : stats' = Resolved(stats, ok)
  BY DEF HandOn, Retry
<1>2. stats' \in StatsType /\ CooldownStays
  BY <1>1, ResolvedKeeps DEF WholeInv, MemoryInv, CooldownStays
<1>3. MemoryInv'
  BY <1>1, <1>2 DEF WholeInv, MemoryInv
<1>4. /\ run[w] \in RunRecord /\ run[w].job \in DOMAIN jobs /\ Job(w) = jobs[run[w].job]
      /\ Job(w) \in JobRecord /\ Job(w).incident \in Incidents /\ run[w].pc = "act"
  BY <1>1, ActingRun DEF WholeInv, At
<1>5. Job(w) \in JobType
  BY <1>4 DEF WholeInv, LoopInv, AllFit, JobFits
<1>6. /\ Job(w).fixAttempts \in Nat /\ Job(w).fixAttempts < MaxFixAttempts
      /\ Job(w).state \in IncidentState /\ Job(w).verified \in Verdict
      /\ run[w].verified \in Verdict
  BY <1>4, <1>5, PipelineAssumption DEF JobType, RunRecord
<1>7. \/ UNCHANGED jobs
      \/ \E d : JobFits(d) /\ d \in JobRecord /\ jobs' = Append(jobs, d)
  <2>1. CASE HandOn(w)
    <3>1. PICK d : d = NewJob(Job(w).incident, "FIXED", Job(w).fixAttempts, run[w].verified)
      OBVIOUS
    <3>2. "FIXED" \in IncidentState
      BY DEF IncidentState
    <3>3. JobFits(d) /\ d \in JobRecord
      BY <1>4, <1>6, <3>1, <3>2, NewJobFits, NewJobIs
    <3>4. UNCHANGED jobs \/ jobs' = Append(jobs, d)
      BY <2>1, <3>1 DEF HandOn
    <3> QED
      BY <3>3, <3>4
  <2>2. CASE Retry(w)
    <3>1. PICK n \in Nat :
             n = IF Job(w).state = "FIX_ATTEMPT" THEN Job(w).fixAttempts + 1 ELSE Job(w).fixAttempts
      BY <1>6
    <3>2. PICK d : d = NewJob(Job(w).incident, Job(w).state, n, Job(w).verified)
      OBVIOUS
    <3>3. UNCHANGED jobs \/ (n < MaxFixAttempts /\ jobs' = Append(jobs, d))
      <4>1. CASE n >= MaxFixAttempts
        BY <2>2, <3>1, <4>1 DEF Retry
      <4>2. CASE ~(n >= MaxFixAttempts)
        <5>1. n < MaxFixAttempts
          BY <4>2, PipelineAssumption
        <5> QED
          BY <2>2, <3>1, <3>2, <4>2, <5>1 DEF Retry
      <4> QED
        BY <4>1, <4>2
    <3> QED
      BY <1>4, <1>6, <3>2, <3>3, NewJobFits, NewJobIs
  <2> QED
    BY <2>1, <2>2
<1>8. AllFit' /\ JobsKept
  BY <1>7, JobsUnchanged, FitAdded DEF WholeInv, PipeInv, LoopInv
<1>9. PICK c : c = [run[w] EXCEPT !.pc = "settle"]
  OBVIOUS
<1>10. c.pc = "settle" /\ c.job = run[w].job
  BY <1>4, <1>9 DEF RunRecord
<1>11. GoesOn(w, c)
  BY <1>1, <1>9, <1>10 DEF GoesOn, GoTo, Going, WasBlocked
<1> QED
  BY <1>1, <1>2, <1>3, <1>4, <1>8, <1>11, RunStepKeeps

(* No run moves.                                                            *)
LEMMA CreateKeepsLoops ==
    ASSUME WholeInv, NEW i \in Incidents, Create(i)
    PROVE  MemoryInv' /\ LoopInv'
<1>1. /\ UNCHANGED <<loops, run>>
      /\ UNCHANGED trouble \/ Troubled
      /\ stats' = Checked(stats) \/ stats' = Recorded(Checked(stats))
  BY DEF Create
<1>2. stats' \in StatsType /\ CooldownStays
  <2>1. Checked(stats) \in StatsType /\ (InCooldown(stats) => InCooldown(Checked(stats)))
    BY CheckedKeeps DEF WholeInv, MemoryInv
  <2> QED
    BY <1>1, <2>1, RecordedKeeps DEF CooldownStays
<1>3. MemoryInv'
  BY <1>1, <1>2, TroubleKept DEF WholeInv, MemoryInv
<1>4. \/ UNCHANGED jobs
      \/ \E d : JobFits(d) /\ d \in JobRecord /\ jobs' = Append(jobs, d)
  <2>1. UNCHANGED jobs \/ \E e \in Entries : jobs' = Append(jobs, NewJob(i, e.state, 0, e.verified))
    BY DEF Create
  <2>2. ASSUME NEW e \in Entries
        PROVE  /\ JobFits(NewJob(i, e.state, 0, e.verified))
               /\ NewJob(i, e.state, 0, e.verified) \in JobRecord
    <3>1. e.state \in IncidentState /\ e.verified \in Verdict /\ 0 < MaxFixAttempts
      BY EntriesAssumption, PipelineAssumption
    <3> QED
      BY <3>1, NewJobFits, NewJobIs
  <2> QED
    BY <2>1, <2>2
<1>5. AllFit' /\ JobsKept
  BY <1>4, JobsUnchanged, FitAdded DEF WholeInv, PipeInv, LoopInv
<1>6. \A v \in Workers : run[v].pc # "idle" => jobs'[run[v].job] = jobs[run[v].job]
  BY <1>5 DEF JobsKept, WholeInv, PipeInv, RunsInv, RunOk
<1>7. ASSUME NEW v \in Workers PROVE Held(v)'
  BY <1>1, <1>6 DEF WholeInv, LoopInv, Held, Job
<1>8. ASSUME NEW v \in Workers PROVE WasBlocked(run[v])' => InCooldown(stats)'
  BY <1>1, <1>2 DEF WholeInv, LoopInv, CooldownStays, WasBlocked, InCooldown
<1>9. ASSUME NEW l \in loops PROVE GoingOn(l)' \/ LeftBehind(l)'
  <2>1. CASE GoingOn(l)
    <3>1. PICK v \in Workers : Going(run[v]) /\ Loop(v) = l
      BY <2>1 DEF GoingOn
    <3>2. run[v].pc # "idle"
      BY <3>1 DEF Going, WasBlocked
    <3> QED
      BY <1>1, <1>6, <3>1, <3>2 DEF GoingOn, Going, WasBlocked, Loop, Job
  <2>2. CASE LeftBehind(l)
    BY <1>2, <1>5, <2>2 DEF LeftBehind, JobsKept, CooldownStays, InCooldown
  <2> QED
    BY <1>9, <2>1, <2>2 DEF WholeInv, LoopInv
<1> QED
  BY <1>1, <1>3, <1>5, <1>7, <1>8, <1>9 DEF LoopInv

(***************************************************************************)
(* Steps that change a job                                                 *)
(***************************************************************************)

LEMMA FitChanged ==
    ASSUME JobsInv, AllFit, NEW n \in DOMAIN jobs, NEW d, JobFits(d), jobs' = [jobs EXCEPT ![n] = d]
    PROVE  /\ AllFit' /\ DOMAIN jobs' = DOMAIN jobs /\ jobs'[n] = d
           /\ \A m \in DOMAIN jobs : m # n => jobs'[m] = jobs[m]
<1>1. /\ DOMAIN jobs' = DOMAIN jobs /\ jobs'[n] = d
      /\ \A m \in DOMAIN jobs : m # n => jobs'[m] = jobs[m]
  BY DEF JobsInv
<1>2. \A m \in DOMAIN jobs' : JobFits(jobs'[m])
  BY <1>1 DEF AllFit
<1> QED
  BY <1>1, <1>2 DEF AllFit, JobFits

JobsGoOn ==
    \A n \in DOMAIN jobs :
        /\ n \in DOMAIN jobs' /\ Same(jobs[n], jobs'[n])
        /\ jobs[n].status = "blocked" => jobs'[n].status = "blocked"
        /\ jobs[n].stalls > 0 => jobs'[n].stalls > 0

LEMMA LeftStays ==
    ASSUME JobsGoOn, CooldownStays, NEW l, LeftBehind(l)
    PROVE  LeftBehind(l)'
<1>1. PICK n \in DOMAIN jobs :
        /\ <<jobs[n].incident, jobs[n].state>> = l
        /\ jobs[n].status = "blocked" \/ (jobs[n].stalls > 0 /\ InCooldown(stats))
  BY DEF LeftBehind
<1>2. n \in DOMAIN jobs' /\ <<jobs'[n].incident, jobs'[n].state>> = l
  BY <1>1 DEF JobsGoOn, Same
<1>3. jobs'[n].status = "blocked" \/ (jobs'[n].stalls > 0 /\ InCooldown(stats'))
  BY <1>1 DEF JobsGoOn, CooldownStays
<1> QED
  BY <1>2, <1>3 DEF LeftBehind, InCooldown

LEMMA OthersGo ==
    ASSUME WholeInv, JobsGoOn, NEW v \in Workers, run'[v] = run[v], Going(run[v])
    PROVE  GoingOn(Loop(v))'
<1>1. run[v].job \in DOMAIN jobs
  BY DEF Going, WasBlocked, WholeInv, PipeInv, RunsInv, RunOk
<1>2. Going(run'[v])
  OBVIOUS
<1>3. Going(run[v])'
  BY <1>2 DEF Going, WasBlocked
<1> QED
  BY <1>3 DEF GoingOn

(* The loop is told by its pair, which a step does not change.              *)
LEMMA SameLoop ==
    ASSUME WholeInv, JobsGoOn, NEW v \in Workers, run'[v] = run[v], run[v].pc # "idle"
    PROVE  Loop(v)' = Loop(v)
<1>1. run[v].job \in DOMAIN jobs
  BY DEF WholeInv, PipeInv, RunsInv, RunOk
<1> QED
  BY <1>1 DEF JobsGoOn, Same, Loop, Job

LEMMA TakeKeepsLoops ==
    ASSUME WholeInv, NEW w \in Workers, NEW n \in DOMAIN jobs, Take(w, n)
    PROVE  MemoryInv' /\ LoopInv'
<1>1. PICK d : d = [jobs[n] EXCEPT !.status = "active", !.owner = w]
  OBVIOUS
<1>2. PICK c : c = [IdleRun EXCEPT !.pc = IF Allowed(stats) THEN "check" ELSE "blocked", !.job = n]
  OBVIOUS
<1>3. /\ jobs' = [jobs EXCEPT ![n] = d] /\ run' = [run EXCEPT ![w] = c]
      /\ jobs[n].status = "waiting" /\ run[w].pc = "idle"
      /\ loops' = loops \cup {<<jobs[n].incident, jobs[n].state>>}
      /\ stats' = Checked(stats) /\ UNCHANGED trouble
  BY <1>1, <1>2 DEF Take, At
<1>4. /\ jobs[n] \in JobType /\ jobs[n].owner = NoOne
      /\ jobs[n].attempts < MaxAttempts /\ jobs[n].stalls <= MaxStalled
  BY <1>3 DEF WholeInv, LoopInv, AllFit, JobFits
<1>5. /\ d \in JobType /\ Same(jobs[n], d) /\ d.status = "active" /\ d.owner = w
      /\ d.attempts = jobs[n].attempts /\ d.stalls = jobs[n].stalls
  BY <1>1, <1>4 DEF JobType, Same
<1>6. JobFits(d)
  BY <1>4, <1>5 DEF JobFits
<1>7. /\ AllFit' /\ DOMAIN jobs' = DOMAIN jobs /\ jobs'[n] = d
      /\ \A m \in DOMAIN jobs : m # n => jobs'[m] = jobs[m]
  BY <1>3, <1>6, FitChanged DEF WholeInv, PipeInv, LoopInv
<1>8. JobsGoOn
  BY <1>3, <1>5, <1>7 DEF JobsGoOn, Same
<1>9. /\ stats' \in StatsType /\ CooldownStays
      /\ ~Allowed(stats) => InCooldown(stats')
  BY <1>3, CheckedKeeps DEF WholeInv, MemoryInv, CooldownStays
<1>10. MemoryInv'
  <2>1. <<jobs[n].incident, jobs[n].state>> \in Incidents \X IncidentState
    BY <1>4 DEF JobType
  <2> QED
    BY <1>3, <1>9, <2>1 DEF WholeInv, MemoryInv
<1>11. /\ run'[w] = c /\ \A v \in Workers : v # w => run'[v] = run[v]
  BY <1>3 DEF WholeInv, PipeInv, RunsInv
<1>12. /\ c.job = n /\ Going(c)
       /\ WasBlocked(c) => ~Allowed(stats)
  BY <1>2 DEF IdleRun, Going, WasBlocked
<1>13. ASSUME NEW v \in Workers PROVE Held(v)'
  <2>1. CASE v = w
    BY <1>5, <1>7, <1>11, <1>12, <2>1 DEF Held, Job
  <2>2. CASE v # w
    <3>1. CASE run[v].pc = "idle"
      BY <1>11, <2>2, <3>1 DEF Held
    <3>2. CASE run[v].pc # "idle"
      <4>1. run[v].job \in DOMAIN jobs /\ (jobs[run[v].job].owner = v \/ jobs[run[v].job].stalls > 0)
        BY <3>2 DEF WholeInv, LoopInv, Held, Job, PipeInv, RunsInv, RunOk
      <4>2. jobs'[run[v].job].owner = v \/ jobs'[run[v].job].stalls > 0
        BY <1>4, <1>5, <1>7, <4>1, WorkersAssumption
      <4> QED
        BY <1>11, <2>2, <4>2 DEF Held, Job
    <3> QED
      BY <3>1, <3>2
  <2> QED
    BY <2>1, <2>2
<1>14. ASSUME NEW v \in Workers PROVE WasBlocked(run[v])' => InCooldown(stats)'
  <2>1. WasBlocked(run'[v]) => InCooldown(stats')
    BY <1>9, <1>11, <1>12 DEF WholeInv, LoopInv, CooldownStays
  <2> QED
    BY <2>1 DEF WasBlocked, InCooldown
<1>15. ASSUME NEW l \in loops' PROVE GoingOn(l)' \/ LeftBehind(l)'
  <2>1. CASE l = <<jobs[n].incident, jobs[n].state>>
    <3>1. <<jobs'[run'[w].job].incident, jobs'[run'[w].job].state>> = l
      BY <1>5, <1>7, <1>11, <1>12, <2>1 DEF Same
    <3>2. Going(run'[w])
      BY <1>11, <1>12
    <3> QED
      BY <3>1, <3>2 DEF GoingOn, Going, WasBlocked, Loop, Job
  <2>2. ASSUME NEW v \in Workers, Going(run[v]), Loop(v) = l PROVE GoingOn(l)'
    <3>1. run[v].pc # "idle" /\ v # w
      BY <1>3, <2>2 DEF Going, WasBlocked
    <3>2. GoingOn(Loop(v))' /\ Loop(v)' = l
      BY <1>8, <1>11, <2>2, <3>1, OthersGo, SameLoop
    <3> QED
      BY <3>2 DEF GoingOn
  <2>3. CASE LeftBehind(l)
    BY <1>8, <1>9, <2>3, LeftStays
  <2>4. CASE l \in loops
    BY <2>2, <2>3, <2>4 DEF WholeInv, LoopInv, GoingOn
  <2> QED
    BY <1>3, <1>15, <2>1, <2>4
<1> QED
  BY <1>7, <1>10, <1>13, <1>14, <1>15 DEF LoopInv

LEMMA GiveKeepsLoops ==
    ASSUME WholeInv, NEW w \in Workers, Return(w) \/ Rethrow(w)
    PROVE  MemoryInv' /\ LoopInv'
<1>1. /\ run[w].pc \in {"return", "rethrow"} /\ run' = [run EXCEPT ![w] = IdleRun]
      /\ UNCHANGED <<stats, loops, trouble>>
      /\ Job(w).owner # w => UNCHANGED jobs
  BY DEF Return, Rethrow, Give, At
<1>2. run[w] \in RunRecord /\ run[w].job \in DOMAIN jobs /\ Job(w) = jobs[run[w].job]
  BY <1>1, RunOfItsJob DEF Job, WholeInv
<1> DEFINE n == run[w].job
<1>3. MemoryInv' /\ CooldownStays
  BY <1>1 DEF WholeInv, MemoryInv, CooldownStays
<1>4. JobFits(Job(w))
  BY <1>2 DEF WholeInv, LoopInv, AllFit
<1>5. /\ AllFit' /\ JobsGoOn
      /\ \A m \in DOMAIN jobs : m # n => jobs'[m] = jobs[m]
      /\ WasBlocked(run[w]) /\ Job(w).owner = w => jobs'[n].status = "blocked"
  <2>1. CASE Job(w).owner # w
    <3>1. UNCHANGED jobs
      BY <1>1, <2>1
    <3> QED
      BY <2>1, <3>1 DEF WholeInv, LoopInv, AllFit, JobFits, JobsGoOn, Same
  <2>2. ASSUME Job(w).owner = w, NEW d, JobFits(d), Same(Job(w), d), d.stalls = Job(w).stalls,
               jobs' = [jobs EXCEPT ![n] = d],
               WasBlocked(run[w]) => d.status = "blocked"
        PROVE  /\ AllFit' /\ JobsGoOn
               /\ \A m \in DOMAIN jobs : m # n => jobs'[m] = jobs[m]
               /\ WasBlocked(run[w]) /\ Job(w).owner = w => jobs'[n].status = "blocked"
    <3>1. /\ AllFit' /\ DOMAIN jobs' = DOMAIN jobs /\ jobs'[n] = d
          /\ \A m \in DOMAIN jobs : m # n => jobs'[m] = jobs[m]
      BY <1>2, <2>2, FitChanged DEF WholeInv, PipeInv, LoopInv
    <3>2. jobs[n].status # "blocked"
      BY <1>2, <1>4, <2>2, WorkersAssumption DEF JobFits
    <3>3. JobsGoOn
      BY <1>2, <2>2, <3>1, <3>2 DEF JobsGoOn, Same
    <3> QED
      BY <2>2, <3>1, <3>3
  <2>3. ASSUME Return(w), Job(w).owner = w
        PROVE  \E d : /\ JobFits(d) /\ Same(Job(w), d) /\ d.stalls = Job(w).stalls
                      /\ jobs' = [jobs EXCEPT ![n] = d]
                      /\ WasBlocked(run[w]) => d.status = "blocked"
    <3>1. PICK d : d = [[Job(w) EXCEPT !.status = run[w].outcome] EXCEPT !.owner = NoOne]
      OBVIOUS
    <3>2. jobs' = [jobs EXCEPT ![n] = d] /\ run[w].pc = "return"
      BY <2>3, <3>1 DEF Return, Give, At
    <3>3. Job(w) \in JobType /\ run[w].outcome \in Final
      BY <1>2, <1>4 DEF JobFits, RunRecord
    <3>4. /\ d \in JobType /\ Same(Job(w), d) /\ d.stalls = Job(w).stalls
          /\ d.status = run[w].outcome /\ d.owner = NoOne
      BY <3>1, <3>3 DEF JobType, Same
    <3>5. JobFits(d)
      BY <3>3, <3>4 DEF JobFits, Final
    <3> QED
      BY <3>2, <3>4, <3>5 DEF WasBlocked
  <2>4. ASSUME Rethrow(w), Job(w).owner = w
        PROVE  \E d : /\ JobFits(d) /\ Same(Job(w), d) /\ d.stalls = Job(w).stalls
                      /\ jobs' = [jobs EXCEPT ![n] = d]
                      /\ WasBlocked(run[w]) => d.status = "blocked"
    <3>1. /\ Job(w) \in JobType /\ Job(w).status = "active"
          /\ Job(w).attempts < MaxAttempts /\ Job(w).stalls <= MaxStalled
      BY <1>4, <2>4, WorkersAssumption DEF JobFits
    <3>2. PICK k \in 0..MaxAttempts : k = Job(w).attempts + 1
      BY <3>1, PipelineAssumption DEF JobType
    <3>3. PICK s \in {"waiting", "failed"} : s = IF k < MaxAttempts THEN "waiting" ELSE "failed"
      OBVIOUS
    <3>4. PICK d : d = [[Job(w) EXCEPT !.attempts = k, !.status = s] EXCEPT !.owner = NoOne]
      OBVIOUS
    <3>5. jobs' = [jobs EXCEPT ![n] = d] /\ run[w].pc = "rethrow"
      BY <2>4, <3>2, <3>3, <3>4 DEF Rethrow, Give, At
    <3>6. /\ d \in JobType /\ Same(Job(w), d) /\ d.stalls = Job(w).stalls
          /\ d.status = s /\ d.owner = NoOne /\ d.attempts = k
      BY <3>1, <3>4 DEF JobType, Same, Final
    <3>7. JobFits(d)
      BY <3>1, <3>3, <3>6 DEF JobFits
    <3> QED
      BY <3>5, <3>6, <3>7 DEF WasBlocked
  <2> QED
    BY <2>1, <2>2, <2>3, <2>4
<1>6. /\ run'[w] = IdleRun /\ IdleRun.pc = "idle"
      /\ \A v \in Workers : v # w => run'[v] = run[v]
  BY <1>1 DEF WholeInv, PipeInv, RunsInv, IdleRun
<1>7. ASSUME NEW v \in Workers PROVE Held(v)'
  <2>1. CASE v = w \/ run[v].pc = "idle"
    BY <1>6, <2>1 DEF Held
  <2>2. CASE v # w /\ run[v].pc # "idle"
    <3>1. run[v].job \in DOMAIN jobs /\ (jobs[run[v].job].owner = v \/ jobs[run[v].job].stalls > 0)
      BY <2>2 DEF WholeInv, LoopInv, Held, Job, PipeInv, RunsInv, RunOk
    <3>2. jobs'[run[v].job].owner = v \/ jobs'[run[v].job].stalls > 0
      <4>1. CASE run[v].job # n \/ Job(w).owner # w
        BY <1>1, <1>5, <3>1, <4>1
      <4>2. CASE run[v].job = n /\ Job(w).owner = w
        BY <1>2, <1>5, <2>2, <3>1, <4>2 DEF JobsGoOn
      <4> QED
        BY <4>1, <4>2
    <3> QED
      BY <1>6, <2>2, <3>2 DEF Held, Job
  <2> QED
    BY <2>1, <2>2
<1>8. ASSUME NEW v \in Workers PROVE WasBlocked(run[v])' => InCooldown(stats)'
  <2>1. WasBlocked(run'[v]) => InCooldown(stats')
    BY <1>3, <1>6 DEF WholeInv, LoopInv, CooldownStays, WasBlocked
  <2> QED
    BY <2>1 DEF WasBlocked, InCooldown
<1>9. ASSUME NEW l \in loops PROVE GoingOn(l)' \/ LeftBehind(l)'
  <2>1. ASSUME NEW v \in Workers, Going(run[v]), Loop(v) = l, v # w PROVE GoingOn(l)'
    <3>1. run[v].pc # "idle"
      BY <2>1 DEF Going, WasBlocked
    <3>2. GoingOn(Loop(v))' /\ Loop(v)' = l
      BY <1>5, <1>6, <2>1, <3>1, OthersGo, SameLoop
    <3> QED
      BY <3>2 DEF GoingOn
  <2>2. ASSUME Going(run[w]), Loop(w) = l PROVE LeftBehind(l)'
    <3>1. WasBlocked(run[w]) /\ InCooldown(stats)
      BY <1>1, <2>2 DEF Going, WasBlocked, WholeInv, LoopInv
    <3>2. CASE Job(w).owner = w
      <4>1. n \in DOMAIN jobs' /\ <<jobs'[n].incident, jobs'[n].state>> = l
        BY <1>2, <1>5, <2>2 DEF JobsGoOn, Same, Loop
      <4>2. jobs'[n].status = "blocked"
        BY <1>5, <3>1, <3>2
      <4> HIDE DEF n
      <4> QED
        BY <4>1, <4>2 DEF LeftBehind
    <3>3. CASE Job(w).owner # w
      <4>1. Job(w).stalls > 0
        BY <1>1, <3>3 DEF WholeInv, LoopInv, Held
      <4>2. LeftBehind(l)
        BY <1>2, <2>2, <3>1, <4>1 DEF LeftBehind, Loop
      <4> QED
        BY <1>3, <1>5, <4>2, LeftStays
    <3> QED
      BY <3>2, <3>3
  <2>3. CASE LeftBehind(l)
    BY <1>3, <1>5, <2>3, LeftStays
  <2> QED
    BY <1>9, <2>1, <2>2, <2>3 DEF WholeInv, LoopInv, GoingOn
<1> QED
  BY <1>1, <1>3, <1>5, <1>7, <1>8, <1>9 DEF LoopInv

LEMMA StalledKeepsLoops ==
    ASSUME WholeInv, NEW n \in DOMAIN jobs, Stalled(n)
    PROVE  MemoryInv' /\ LoopInv'
<1>1. /\ jobs[n].status = "active" /\ UNCHANGED <<stats, loops, run>>
      /\ UNCHANGED trouble \/ Troubled
  BY DEF Stalled, memory
<1>2. MemoryInv' /\ CooldownStays
  BY <1>1, TroubleKept DEF WholeInv, MemoryInv, CooldownStays
<1>3. /\ jobs[n] \in JobType
      /\ jobs[n].attempts < MaxAttempts /\ jobs[n].stalls <= MaxStalled
  BY <1>1 DEF WholeInv, LoopInv, AllFit, JobFits
<1>4. PICK k \in 0..(MaxStalled + 1) : k = jobs[n].stalls + 1 /\ k > 0
  BY <1>3, PipelineAssumption DEF JobType
<1>5. PICK s \in {"waiting", "failed"} :
         s = IF jobs[n].stalls < MaxStalled THEN "waiting" ELSE "failed"
  OBVIOUS
<1>6. PICK d : d = [jobs[n] EXCEPT !.owner = NoOne, !.stalls = k, !.status = s]
  OBVIOUS
<1>7. jobs' = [jobs EXCEPT ![n] = d]
  BY <1>4, <1>5, <1>6 DEF Stalled
<1>8. /\ d \in JobType /\ Same(jobs[n], d) /\ d.owner = NoOne /\ d.stalls = k /\ d.status = s
      /\ d.attempts = jobs[n].attempts
  BY <1>3, <1>6 DEF JobType, Same, Final
<1>9. JobFits(d)
  <2>1. s = "waiting" => k <= MaxStalled
    BY <1>3, <1>4, <1>5, PipelineAssumption DEF JobType
  <2> QED
    BY <1>3, <1>8, <2>1 DEF JobFits
<1>10. /\ AllFit' /\ DOMAIN jobs' = DOMAIN jobs /\ jobs'[n] = d
       /\ \A m \in DOMAIN jobs : m # n => jobs'[m] = jobs[m]
  BY <1>7, <1>9, FitChanged DEF WholeInv, PipeInv, LoopInv
<1>11. JobsGoOn
  BY <1>1, <1>4, <1>8, <1>10 DEF JobsGoOn, Same
<1>12. ASSUME NEW v \in Workers PROVE Held(v)'
  <2>1. CASE run[v].pc = "idle"
    BY <1>1, <2>1 DEF Held
  <2>2. CASE run[v].pc # "idle"
    <3>1. run[v].job \in DOMAIN jobs /\ (jobs[run[v].job].owner = v \/ jobs[run[v].job].stalls > 0)
      BY <2>2 DEF WholeInv, LoopInv, Held, Job, PipeInv, RunsInv, RunOk
    <3>2. jobs'[run[v].job].owner = v \/ jobs'[run[v].job].stalls > 0
      BY <1>4, <1>8, <1>10, <3>1
    <3> QED
      BY <1>1, <2>2, <3>2 DEF Held, Job
  <2> QED
    BY <2>1, <2>2
<1>13. ASSUME NEW v \in Workers PROVE WasBlocked(run[v])' => InCooldown(stats)'
  BY <1>1 DEF WholeInv, LoopInv, WasBlocked, InCooldown
<1>14. ASSUME NEW l \in loops PROVE GoingOn(l)' \/ LeftBehind(l)'
  <2>1. ASSUME NEW v \in Workers, Going(run[v]), Loop(v) = l PROVE GoingOn(l)'
    <3>1. run[v].pc # "idle" /\ run'[v] = run[v]
      BY <1>1, <2>1 DEF Going, WasBlocked
    <3>2. GoingOn(Loop(v))' /\ Loop(v)' = l
      BY <1>11, <2>1, <3>1, OthersGo, SameLoop
    <3> QED
      BY <3>2 DEF GoingOn
  <2>2. CASE LeftBehind(l)
    BY <1>2, <1>11, <2>2, LeftStays
  <2> QED
    BY <1>14, <2>1, <2>2 DEF WholeInv, LoopInv, GoingOn
<1> QED
  BY <1>1, <1>2, <1>10, <1>12, <1>13, <1>14 DEF LoopInv

LEMMA CrashKeepsLoops ==
    ASSUME WholeInv, Crash
    PROVE  MemoryInv' /\ LoopInv'
<1>1. /\ Troubled /\ stats' = FreshStats /\ loops' = {} /\ UNCHANGED jobs
      /\ run' = [w \in Workers |-> IdleRun]
  BY DEF Crash, redis
<1>2. FreshStats \in StatsType
  <2>1. NoTime \in Int
    BY DEF NoTime
  <2> QED
    BY <2>1 DEF FreshStats, StatsType
<1>3. MemoryInv'
  BY <1>1, <1>2, TroubleKept DEF WholeInv, MemoryInv
<1>4. AllFit'
  BY <1>1, JobsUnchanged DEF WholeInv, LoopInv
<1>5. \A v \in Workers : run'[v] = IdleRun /\ IdleRun.pc = "idle"
  BY <1>1 DEF IdleRun
<1>6. \A v \in Workers : Held(v)' /\ ~WasBlocked(run[v])'
  BY <1>5 DEF Held, WasBlocked
<1> QED
  BY <1>1, <1>3, <1>4, <1>6 DEF LoopInv

LEMMA WholeInitially == Init => WholeInv
<1> SUFFICES ASSUME Init PROVE WholeInv
  OBVIOUS
<1>1. PipeInv
  BY PipeInitially
<1>2. NoTime \in Int
  BY DEF NoTime
<1>3. MemoryInv
  BY <1>2, PipelineAssumption DEF Init, MemoryInv, FreshStats, StatsType
<1>4. LoopInv
  BY DEF Init, LoopInv, AllFit, Held, WasBlocked, IdleRun
<1> QED
  BY <1>1, <1>3, <1>4 DEF WholeInv

LEMMA WholeInvKept == WholeInv /\ [Next]_vars => WholeInv'
<1> SUFFICES ASSUME WholeInv, [Next]_vars PROVE WholeInv'
  OBVIOUS
<1>1. PipeInv'
  BY PipeInvKept DEF WholeInv
<1>2. CASE UNCHANGED vars
  <2>1. UNCHANGED <<stats, jobs, loops, run, trouble>>
    BY <1>2 DEF vars, redis, memory
  <2>2. MemoryInv'
    BY <2>1 DEF WholeInv, MemoryInv
  <2>3. LoopInv'
    BY <2>1 DEF WholeInv, LoopInv, AllFit, JobFits, Held, Job, WasBlocked, GoingOn, Going, Loop,
                LeftBehind, InCooldown
  <2> QED
    BY <1>1, <2>2, <2>3 DEF WholeInv
<1>3. ASSUME NEW w \in Workers, Step(w) \/ Fault(w) PROVE MemoryInv' /\ LoopInv'
  <2>1. ASSUME NEW n \in DOMAIN jobs, Take(w, n) PROVE MemoryInv' /\ LoopInv'
    BY <2>1, TakeKeepsLoops
  <2>2. CASE Block(w) \/ Check(w) \/ Execute(w) \/ Settle(w) \/ Fault(w) \/ Escalate(w)
    BY <2>2, QuietStepsKeepLoops
  <2>3. CASE HandOn(w) \/ Retry(w)
    BY <2>3, ActingStepsKeepLoops
  <2>4. CASE Return(w) \/ Rethrow(w)
    BY <2>4, GiveKeepsLoops
  <2> QED
    BY <1>3, <2>1, <2>2, <2>3, <2>4 DEF Step
<1>4. ASSUME NEW i \in Incidents, Create(i) PROVE MemoryInv' /\ LoopInv'
  BY <1>4, CreateKeepsLoops
<1>5. ASSUME NEW n \in DOMAIN jobs, Stalled(n) PROVE MemoryInv' /\ LoopInv'
  BY <1>5, StalledKeepsLoops
<1>6. CASE Next
  BY <1>1, <1>3, <1>4, <1>5, <1>6, CrashKeepsLoops DEF Next, WholeInv
<1> QED
  BY <1>1, <1>2, <1>6 DEF WholeInv

LEMMA WholeInvMeans == WholeInv => (unheard \in [Incidents -> Nat] => TypeOK) /\ LoopsReleased
<1> SUFFICES ASSUME WholeInv PROVE (unheard \in [Incidents -> Nat] => TypeOK) /\ LoopsReleased
  OBVIOUS
<1>1. \A r \in stored : r.outcome \in {"success", "failure"}
  BY DEF WholeInv, PipeInv, StoredInv, StoredOk, ActedOn
<1>2. \A w \in Workers : /\ run[w].pc \in {"idle"} \cup Busy
                         /\ run[w].pc # "idle" => run[w].job \in DOMAIN jobs
  BY DEF WholeInv, PipeInv, RunsInv, RunOk, RunRecord
<1>3. unheard \in [Incidents -> Nat] => TypeOK
  BY <1>1, <1>2 DEF TypeOK, WholeInv, PipeInv, JobsInv, CountsInv, MemoryInv, LoopInv, AllFit, JobFits
<1>4. ASSUME NEW l \in loops
      PROVE  \/ \E w \in Workers : run[w].pc \in Busy /\ Loop(w) = l
             \/ \E n \in DOMAIN jobs : /\ <<jobs[n].incident, jobs[n].state>> = l
                                        /\ \/ jobs[n].status = "blocked"
                                           \/ jobs[n].stalls > 0 /\ InCooldown(stats)
  <2>1. \A c : Going(c) => c.pc \in Busy
    BY DEF Going, WasBlocked, Busy
  <2> QED
    BY <2>1 DEF WholeInv, LoopInv, GoingOn, LeftBehind
<1>5. LoopsReleased
  BY <1>4 DEF LoopsReleased
<1> QED
  BY <1>3, <1>5

(* A loop context belongs to a run that is under way, or to one that the     *)
(* cooldown blocked: processIncident completes it on every other way out,    *)
(* whatever overlapping runs of the same state do to it.                     *)
THEOREM LoopsAreReleased == Spec => []LoopsReleased
<1> QED
  BY WholeInitially, WholeInvKept, WholeInvMeans, PTL DEF Spec

(***************************************************************************)
(* Which incidents are given up.  What a run returns, and so what the      *)
(* status of a job tells, was done: the incident was handed on, escalated  *)
(* or has a later job, or a result of its key is stored.  An attempt that  *)
(* was used up was escalated, or the escalation is one of those unheard.   *)
(***************************************************************************)

Retried(n) ==
    \/ escalated[jobs[n].incident] > 0
    \/ \E m \in DOMAIN jobs : m > n /\ jobs[m].incident = jobs[n].incident

HasStored(d) == \E r \in stored : r.key = Key(d)

Told(n, outcome) ==
    /\ outcome \in {"success", "failure"} => NextState(jobs[n]) # NoState
    /\ outcome = "success" => HandedOn(jobs[n])
    /\ outcome = "failure" => Retried(n)
    /\ outcome = "repeated" => HasStored(jobs[n])

UsedUp(d) == d.status = "failed" => d.attempts >= MaxAttempts \/ d.stalls > MaxStalled

RunTold(c) ==
    /\ c.pc = "return" => Told(c.job, c.outcome) /\ c.outcome # "failed"
    /\ c.pc = "settle" /\ c.outcome = "failure" => Retried(c.job)

ToldInv ==
    /\ \A n \in DOMAIN jobs : Told(n, jobs[n].status) /\ UsedUp(jobs[n])
    /\ \A w \in Workers : RunTold(run[w])

(* Worker w is about to use up an attempt of job n, which it still holds.   *)
Rethrowing(w, n) == run[w].pc = "rethrow" /\ run[w].job = n /\ jobs[n].owner = w

Heard(n) ==
    \/ escalated[jobs[n].incident] > 0
    \/ /\ jobs[n].attempts <= unheard[jobs[n].incident]
       /\ \A w \in Workers : Rethrowing(w, n) => jobs[n].attempts + 1 <= unheard[jobs[n].incident]

HeardInv ==
    /\ unheard \in [Incidents -> Nat]
    /\ \A n \in DOMAIN jobs : Heard(n)

ResultsInv == \A r \in stored : \E key, outcome : r = [key |-> key, outcome |-> outcome]

EndInv == PipeInv /\ ToldInv /\ HeardInv /\ ResultsInv

StoredGrow == \A r \in stored : \E q \in stored' : q.key = r.key

-----------------------------------------------------------------------------
LEMMA RetriedStays ==
    ASSUME JobsInv, Grows, NEW n \in DOMAIN jobs, Retried(n)
    PROVE  Retried(n)'
<1>1. n \in DOMAIN jobs' /\ jobs'[n].incident = jobs[n].incident /\ jobs[n].incident \in Incidents
  BY DEF Grows, JobsGrow, Same, JobsInv, JobRecord
<1>2. CASE escalated[jobs[n].incident] > 0
  BY <1>1, <1>2 DEF Retried, Grows, CountsGrow
<1>3. CASE \E m \in DOMAIN jobs : m > n /\ jobs[m].incident = jobs[n].incident
  <2>1. PICK m \in DOMAIN jobs : m > n /\ jobs[m].incident = jobs[n].incident
    BY <1>3
  <2>2. m \in DOMAIN jobs' /\ jobs'[m].incident = jobs[m].incident
    BY DEF Grows, JobsGrow, Same
  <2> QED
    BY <1>1, <2>1, <2>2 DEF Retried
<1> QED
  BY <1>2, <1>3 DEF Retried

LEMMA ToldStays ==
    ASSUME JobsInv, Grows, StoredGrow, NEW n \in DOMAIN jobs, NEW outcome, Told(n, outcome)
    PROVE  Told(n, outcome)'
<1>1. n \in DOMAIN jobs' /\ Same(jobs[n], jobs'[n])
  BY DEF Grows, JobsGrow
<1>2. Key(jobs'[n]) = Key(jobs[n]) /\ NextState(jobs'[n]) = NextState(jobs[n])
  BY <1>1, SameKey
<1>3. ASSUME outcome \in {"success", "failure"} PROVE NextState(jobs'[n]) # NoState
  BY <1>2, <1>3 DEF Told
<1>4. ASSUME outcome = "success" PROVE HandedOn(jobs[n])'
  <2>1. ActedOn(jobs[n], outcome) /\ NextState(jobs[n]) # NoState
    BY <1>4 DEF Told, ActedOn
  <2>2. ActedOn(jobs[n], outcome)'
    BY <2>1, ActedOnStays
  <2> QED
    BY <1>4, <2>2 DEF ActedOn
<1>5. ASSUME outcome = "failure" PROVE Retried(n)'
  BY <1>5, RetriedStays DEF Told
<1>6. ASSUME outcome = "repeated" PROVE HasStored(jobs[n])'
  BY <1>2, <1>6 DEF Told, HasStored, StoredGrow
<1> QED
  BY <1>3, <1>4, <1>5, <1>6 DEF Told

LEMMA RunToldStays ==
    ASSUME PipeInv, Grows, StoredGrow, NEW w \in Workers, RunTold(run[w])
    PROVE  \A c : c = run[w] => RunTold(c)'
<1> SUFFICES ASSUME NEW c, c = run[w] PROVE RunTold(c)'
  OBVIOUS
<1>1. c.pc # "idle" => c.job \in DOMAIN jobs
  BY DEF PipeInv, RunsInv, RunOk
<1>2. c.pc = "return" => Told(c.job, c.outcome)' /\ c.outcome # "failed"
  BY <1>1, ToldStays DEF RunTold, PipeInv
<1>3. c.pc = "settle" /\ c.outcome = "failure" => Retried(c.job)'
  BY <1>1, RetriedStays DEF RunTold, PipeInv
<1> QED
  BY <1>2, <1>3 DEF RunTold

(* What a step may make of the status of a job, and of the runs.            *)
LEMMA ToldKept ==
    ASSUME PipeInv, ToldInv, Grows, StoredGrow,
           \A n \in DOMAIN jobs' :
              \/ n \in DOMAIN jobs /\ jobs'[n] = jobs[n]
              \/ jobs'[n].status \in {"waiting", "active", "blocked", "deadEnd"}
              \/ jobs'[n].status = "failed" /\ UsedUp(jobs'[n])
              \/ n \in DOMAIN jobs /\ jobs'[n].status # "failed" /\ Told(n, jobs'[n].status),
           \A w \in Workers : run'[w] = run[w] \/ RunTold(run[w])'
    PROVE  ToldInv'
<1>1. ASSUME NEW n \in DOMAIN jobs' PROVE Told(n, jobs[n].status)' /\ UsedUp(jobs[n])'
  <2>1. CASE n \in DOMAIN jobs /\ jobs'[n] = jobs[n]
    <3>1. PICK s : s = jobs[n].status
      OBVIOUS
    <3>2. Told(n, s)'
      BY <2>1, <3>1, ToldStays DEF ToldInv, PipeInv
    <3>3. s = jobs'[n].status
      BY <2>1, <3>1
    <3>4. UsedUp(jobs'[n])
      BY <2>1 DEF ToldInv
    <3> QED
      BY <3>2, <3>3, <3>4 DEF UsedUp
  <2>2. CASE jobs'[n].status \in {"waiting", "active", "blocked", "deadEnd"}
    BY <2>2 DEF Told, UsedUp
  <2>3. CASE jobs'[n].status = "failed" /\ UsedUp(jobs'[n])
    BY <2>3 DEF Told, UsedUp
  <2>4. CASE n \in DOMAIN jobs /\ jobs'[n].status # "failed" /\ Told(n, jobs'[n].status)
    <3>1. PICK s : s = jobs'[n].status
      OBVIOUS
    <3>2. Told(n, s)
      BY <2>4, <3>1
    <3>3. Told(n, s)'
      BY <2>4, <3>2, ToldStays DEF PipeInv
    <3> QED
      BY <2>4, <3>1, <3>3 DEF UsedUp
  <2> QED
    BY <2>1, <2>2, <2>3, <2>4
<1>2. ASSUME NEW w \in Workers PROVE RunTold(run[w])'
  <2>1. CASE run'[w] = run[w]
    <3>1. PICK c : c = run[w]
      OBVIOUS
    <3>2. RunTold(c)'
      BY <3>1, RunToldStays DEF ToldInv
    <3> QED
      BY <2>1, <3>1, <3>2
  <2> QED
    BY <2>1
<1> QED
  BY <1>1, <1>2 DEF ToldInv

(* A job that a step leaves or adds has no more attempts used up than were  *)
(* announced by the run that used them up.                                  *)
LEMMA HeardKept ==
    ASSUME PipeInv, PipeInv', HeardInv, Grows, UNCHANGED unheard,
           \A n \in DOMAIN jobs' :
              \/ /\ n \in DOMAIN jobs
                 /\ \/ jobs'[n].attempts = jobs[n].attempts
                    \/ /\ jobs'[n].attempts = jobs[n].attempts + 1
                       /\ \E w \in Workers : Rethrowing(w, n)
                 /\ \A w \in Workers :
                       Rethrowing(w, n)' => Rethrowing(w, n) /\ jobs'[n].attempts = jobs[n].attempts
              \/ jobs'[n].attempts = 0 /\ \A w \in Workers : ~Rethrowing(w, n)'
    PROVE  HeardInv'
<1>1. ASSUME NEW n \in DOMAIN jobs' PROVE Heard(n)'
  <2> DEFINE i == jobs'[n].incident
  <2>1. i \in Incidents /\ jobs'[n].attempts \in Nat /\ unheard[i] \in Nat /\ unheard'[i] = unheard[i]
    <3>1. jobs' \in Seq(JobRecord)
      BY DEF PipeInv, JobsInv
    <3>2. jobs'[n] \in JobRecord
      BY <3>1
    <3> QED
      BY <3>2 DEF JobRecord, HeardInv
  <2>2. CASE jobs'[n].attempts = 0 /\ \A w \in Workers : ~Rethrowing(w, n)'
    BY <2>1, <2>2 DEF Heard
  <2>3. CASE /\ n \in DOMAIN jobs
             /\ \/ jobs'[n].attempts = jobs[n].attempts
                \/ /\ jobs'[n].attempts = jobs[n].attempts + 1
                   /\ \E w \in Workers : Rethrowing(w, n)
             /\ \A w \in Workers :
                   Rethrowing(w, n)' => Rethrowing(w, n) /\ jobs'[n].attempts = jobs[n].attempts
    <3>1. jobs[n].incident = i /\ Heard(n)
      BY <2>3 DEF Grows, JobsGrow, Same, HeardInv
    <3>2. CASE escalated[i] > 0
      BY <2>1, <3>2 DEF Grows, CountsGrow, Heard
    <3>3. CASE /\ jobs[n].attempts <= unheard[i]
               /\ \A w \in Workers : Rethrowing(w, n) => jobs[n].attempts + 1 <= unheard[i]
      <4>1. jobs'[n].attempts <= unheard'[i]
        BY <2>1, <2>3, <3>3
      <4>2. \A w \in Workers : Rethrowing(w, n)' => jobs'[n].attempts + 1 <= unheard'[i]
        BY <2>1, <2>3, <3>3
      <4> QED
        BY <4>1, <4>2 DEF Heard
    <3> QED
      BY <3>1, <3>2, <3>3 DEF Heard
  <2> QED
    BY <2>2, <2>3
<1> QED
  BY <1>1 DEF HeardInv

(***************************************************************************)
(* What each step does to the jobs and to the runs.                        *)
(***************************************************************************)

JobBecomes(n, d) ==
    /\ d \in JobRecord /\ Same(jobs[n], d)
    /\ DOMAIN jobs' = DOMAIN jobs /\ jobs'[n] = d
    /\ \A m \in DOMAIN jobs \ {n} : jobs'[m] = jobs[m]

JobComes(d) ==
    /\ d \in JobRecord /\ d.status = "waiting" /\ d.owner = NoOne
    /\ d.attempts = 0 /\ d.stalls = 0
    /\ DOMAIN jobs' = DOMAIN jobs \cup {Len(jobs) + 1} /\ jobs'[Len(jobs) + 1] = d
    /\ \A m \in DOMAIN jobs : m < Len(jobs) + 1 /\ jobs'[m] = jobs[m]

RunBecomes(w, c) ==
    /\ run'[w] = c
    /\ \A v \in Workers \ {w} : run'[v] = run[v]

LEMMA JobSet ==
    ASSUME JobsInv, NEW n \in DOMAIN jobs, NEW d \in JobRecord, Same(jobs[n], d),
           jobs' = [jobs EXCEPT ![n] = d]
    PROVE  JobBecomes(n, d)
BY DEF JobsInv, JobBecomes

LEMMA JobAppended ==
    ASSUME JobsInv, NEW i \in Incidents, NEW s \in IncidentState, NEW k \in Nat, NEW v \in Verdict,
           jobs' = Append(jobs, NewJob(i, s, k, v))
    PROVE  \E d : JobComes(d) /\ d.incident = i /\ d.state = s
<1>1. PICK d : d = NewJob(i, s, k, v)
  OBVIOUS
<1>2. d \in JobRecord /\ d.incident = i /\ d.state = s
  BY <1>1, NewJobIs
<1>3. d.status = "waiting" /\ d.owner = NoOne /\ d.attempts = 0 /\ d.stalls = 0
  BY <1>1 DEF NewJob
<1>4. /\ DOMAIN jobs' = DOMAIN jobs \cup {Len(jobs) + 1} /\ jobs'[Len(jobs) + 1] = d
      /\ \A m \in DOMAIN jobs : m < Len(jobs) + 1 /\ jobs'[m] = jobs[m]
  BY <1>1, <1>2 DEF JobsInv
<1> QED
  BY <1>2, <1>3, <1>4 DEF JobComes

LEMMA RunSet ==
    ASSUME PipeInv, NEW w \in Workers, NEW c, run' = [run EXCEPT ![w] = c]
    PROVE  RunBecomes(w, c)
BY DEF PipeInv, RunsInv, RunBecomes

LEMMA RunGoesTo ==
    ASSUME PipeInv, NEW w \in Workers, run[w].pc # "idle", NEW pc, GoTo(w, pc)
    PROVE  \E c : /\ RunBecomes(w, c) /\ c.pc = pc
                  /\ c.job = run[w].job /\ c.outcome = run[w].outcome
<1>1. PICK c : c = [run[w] EXCEPT !.pc = pc]
  OBVIOUS
<1>2. run[w] \in RunRecord
  BY RunOfItsJob
<1>3. c.pc = pc /\ c.job = run[w].job /\ c.outcome = run[w].outcome
  BY <1>1, <1>2 DEF RunRecord
<1>4. RunBecomes(w, c)
  BY <1>1, RunSet DEF GoTo
<1> QED
  BY <1>3, <1>4

LEMMA RunEnds ==
    ASSUME PipeInv, NEW w \in Workers, run[w].pc # "idle", NEW outcome, End(w, outcome)
    PROVE  \E c : RunBecomes(w, c) /\ c.pc = "return" /\ c.job = run[w].job /\ c.outcome = outcome
<1>1. PICK c : c = [run[w] EXCEPT !.pc = "return", !.outcome = outcome]
  OBVIOUS
<1>2. run[w] \in RunRecord
  BY RunOfItsJob
<1>3. c.pc = "return" /\ c.job = run[w].job /\ c.outcome = outcome
  BY <1>1, <1>2 DEF RunRecord
<1>4. RunBecomes(w, c)
  BY <1>1, RunSet DEF End
<1> QED
  BY <1>3, <1>4

LEMMA CreateDoes ==
    ASSUME PipeInv, NEW i \in Incidents, Create(i)
    PROVE  /\ UNCHANGED <<unheard, stored, handed, escalated, run>> /\ i \notin created
           /\ created \subseteq created' /\ created' \subseteq created \cup {i}
           /\ \/ UNCHANGED jobs
              \/ i \in created' /\ \E d : JobComes(d) /\ d.incident = i
           /\ trouble' = trouble \/ Troubled
<1>1. \A e \in Entries : e.state \in IncidentState /\ e.verified \in Verdict
  BY EntriesAssumption
<1>2. ASSUME NEW e \in Entries, jobs' = Append(jobs, NewJob(i, e.state, 0, e.verified))
      PROVE  \E d : JobComes(d) /\ d.incident = i
  BY <1>1, <1>2, JobAppended DEF PipeInv
<1> QED
  BY <1>2 DEF Create

LEMMA TakeDoes ==
    ASSUME PipeInv, NEW w \in Workers, NEW n \in DOMAIN jobs, Take(w, n)
    PROVE  /\ run[w].pc = "idle" /\ jobs[n].status = "waiting"
           /\ \E d : /\ JobBecomes(n, d) /\ d.status = "active" /\ d.owner = w
                     /\ d.attempts = jobs[n].attempts /\ d.stalls = jobs[n].stalls
           /\ \E c : RunBecomes(w, c) /\ c.pc \in {"check", "blocked"} /\ c.job = n
           /\ UNCHANGED <<created, unheard, stored, handed, escalated, trouble>>
<1>1. jobs[n] \in JobRecord
  BY DEF PipeInv, JobsInv
<1>2. PICK d : d = [jobs[n] EXCEPT !.status = "active", !.owner = w]
  OBVIOUS
<1>3. d \in JobRecord /\ Same(jobs[n], d) /\ d.status = "active" /\ d.owner = w
      /\ d.attempts = jobs[n].attempts /\ d.stalls = jobs[n].stalls
  BY <1>1, <1>2 DEF JobRecord, Statuses, Same
<1>4. jobs' = [jobs EXCEPT ![n] = d]
  BY <1>2 DEF Take
<1>5. JobBecomes(n, d)
  BY <1>3, <1>4, JobSet DEF PipeInv
<1>6. PICK p \in {"check", "blocked"} : p = IF Allowed(stats) THEN "check" ELSE "blocked"
  OBVIOUS
<1>7. PICK c : c = [IdleRun EXCEPT !.pc = p, !.job = n]
  OBVIOUS
<1>8. c.pc = p /\ c.job = n
  BY <1>7 DEF IdleRun
<1>9. RunBecomes(w, c)
  BY <1>6, <1>7, RunSet DEF Take
<1> QED
  BY <1>3, <1>5, <1>6, <1>8, <1>9 DEF Take, At

LEMMA ReturnDoes ==
    ASSUME PipeInv, NEW w \in Workers, Return(w)
    PROVE  /\ run[w].pc = "return" /\ run[w].job \in DOMAIN jobs
           /\ \/ jobs[run[w].job].owner # w /\ UNCHANGED jobs
              \/ /\ jobs[run[w].job].owner = w
                 /\ \E d : /\ JobBecomes(run[w].job, d) /\ d.status = run[w].outcome
                           /\ d.owner = NoOne /\ d.attempts = jobs[run[w].job].attempts
           /\ RunBecomes(w, IdleRun)
           /\ UNCHANGED <<created, unheard, trouble, stored, handed, escalated>>
<1>1. run[w].pc = "return" /\ run[w].pc # "idle"
  BY DEF Return, At
<1>2. run[w] \in RunRecord /\ run[w].job \in DOMAIN jobs /\ Job(w) \in JobRecord
      /\ Job(w) = jobs[run[w].job]
  BY <1>1, RunOfItsJob DEF Job
<1>3. PICK d : d = [[Job(w) EXCEPT !.status = run[w].outcome] EXCEPT !.owner = NoOne]
  OBVIOUS
<1>4. d \in JobRecord /\ Same(Job(w), d) /\ d.status = run[w].outcome /\ d.owner = NoOne
      /\ d.attempts = Job(w).attempts
  BY <1>2, <1>3 DEF JobRecord, RunRecord, Statuses, Same
<1>5. IF Job(w).owner = w THEN jobs' = [jobs EXCEPT ![run[w].job] = d] ELSE UNCHANGED jobs
  BY <1>3 DEF Return, Give
<1>6. Job(w).owner = w => JobBecomes(run[w].job, d)
  BY <1>2, <1>4, <1>5, JobSet DEF PipeInv
<1>7. RunBecomes(w, IdleRun)
  BY RunSet DEF Return, Give
<1> QED
  BY <1>1, <1>2, <1>4, <1>5, <1>6, <1>7 DEF Return

LEMMA RethrowDoes ==
    ASSUME PipeInv, NEW w \in Workers, Rethrow(w)
    PROVE  /\ run[w].pc = "rethrow" /\ run[w].job \in DOMAIN jobs
           /\ \/ jobs[run[w].job].owner # w /\ UNCHANGED jobs
              \/ /\ jobs[run[w].job].owner = w
                 /\ \E d : /\ JobBecomes(run[w].job, d) /\ d.owner = NoOne
                           /\ d.attempts = jobs[run[w].job].attempts + 1
                           /\ d.stalls = jobs[run[w].job].stalls
                           /\ \/ d.status = "waiting"
                              \/ d.status = "failed" /\ d.attempts >= MaxAttempts
           /\ RunBecomes(w, IdleRun)
           /\ UNCHANGED <<created, unheard, trouble, stored, handed, escalated>>
<1>1. run[w].pc = "rethrow" /\ run[w].pc # "idle"
  BY DEF Rethrow, At
<1>2. run[w] \in RunRecord /\ run[w].job \in DOMAIN jobs /\ Job(w) \in JobRecord
      /\ Job(w) = jobs[run[w].job]
  BY <1>1, RunOfItsJob DEF Job
<1>3. PICK k \in Nat : k = Job(w).attempts + 1
  BY <1>2 DEF JobRecord
<1>4. PICK s \in Statuses : s = IF k < MaxAttempts THEN "waiting" ELSE "failed"
  BY DEF Statuses, Final
<1>5. PICK d : d = [[Job(w) EXCEPT !.attempts = k, !.status = s] EXCEPT !.owner = NoOne]
  OBVIOUS
<1>6. d \in JobRecord /\ Same(Job(w), d) /\ d.status = s /\ d.owner = NoOne /\ d.attempts = k
      /\ d.stalls = Job(w).stalls
  BY <1>2, <1>5 DEF JobRecord, Statuses, Same
<1>7. IF Job(w).owner = w THEN jobs' = [jobs EXCEPT ![run[w].job] = d] ELSE UNCHANGED jobs
  BY <1>3, <1>4, <1>5 DEF Rethrow, Give
<1>8. Job(w).owner = w => JobBecomes(run[w].job, d)
  BY <1>2, <1>6, <1>7, JobSet DEF PipeInv
<1>9. RunBecomes(w, IdleRun)
  BY RunSet DEF Rethrow, Give
<1>10. s = "waiting" \/ (s = "failed" /\ k >= MaxAttempts)
  BY <1>3, <1>4, PipelineAssumption
<1> QED
  BY <1>1, <1>2, <1>3, <1>6, <1>7, <1>8, <1>9, <1>10 DEF Rethrow

LEMMA StalledDoes ==
    ASSUME PipeInv, NEW n \in DOMAIN jobs, Stalled(n)
    PROVE  /\ jobs[n].status = "active"
           /\ \E d : /\ JobBecomes(n, d) /\ d.owner = NoOne /\ d.attempts = jobs[n].attempts
                     /\ d.stalls = jobs[n].stalls + 1
                     /\ \/ d.status = "waiting" /\ jobs[n].stalls < MaxStalled
                        \/ d.status = "failed" /\ d.stalls > MaxStalled
           /\ IF \E w \in Workers : run[w].job = n /\ jobs[n].owner = w
                THEN Troubled ELSE UNCHANGED trouble
           /\ UNCHANGED <<created, unheard, stored, handed, escalated, run>>
<1>1. jobs[n] \in JobRecord
  BY DEF PipeInv, JobsInv
<1>2. PICK k \in Nat : k = jobs[n].stalls + 1
  BY <1>1 DEF JobRecord
<1>3. PICK s \in Statuses : s = IF jobs[n].stalls < MaxStalled THEN "waiting" ELSE "failed"
  BY DEF Statuses, Final
<1>4. PICK d : d = [jobs[n] EXCEPT !.owner = NoOne, !.stalls = k, !.status = s]
  OBVIOUS
<1>5. d \in JobRecord /\ Same(jobs[n], d) /\ d.owner = NoOne /\ d.attempts = jobs[n].attempts
      /\ d.stalls = k /\ d.status = s
  BY <1>1, <1>4 DEF JobRecord, Same
<1>6. JobBecomes(n, d)
  BY <1>2, <1>3, <1>4, <1>5, JobSet DEF PipeInv, Stalled
<1>7. \/ s = "waiting" /\ jobs[n].stalls < MaxStalled
      \/ s = "failed" /\ k > MaxStalled
  BY <1>1, <1>2, <1>3, PipelineAssumption DEF JobRecord
<1> QED
  BY <1>2, <1>5, <1>6, <1>7 DEF Stalled, memory

LEMMA CrashDoes ==
    ASSUME Crash
    PROVE  /\ Troubled /\ \A w \in Workers : run'[w].pc = "idle" /\ run'[w].job = 0
           /\ UNCHANGED <<created, unheard, jobs, stored, handed, escalated>>
BY DEF Crash, redis, IdleRun

LEMMA BlockDoes ==
    ASSUME PipeInv, NEW w \in Workers, Block(w)
    PROVE  /\ run[w].pc = "blocked"
           /\ \E c : /\ RunBecomes(w, c) /\ c.pc = "return" /\ c.job = run[w].job
                     /\ c.outcome = "blocked"
           /\ UNCHANGED <<created, unheard, trouble, jobs, stored, handed>>
<1>1. run[w].pc = "blocked" /\ run[w].pc # "idle" /\ End(w, "blocked")
  BY DEF Block, At
<1>2. \E c : /\ RunBecomes(w, c) /\ c.pc = "return" /\ c.job = run[w].job
             /\ c.outcome = "blocked"
  BY <1>1, RunEnds
<1> QED
  BY <1>1, <1>2 DEF Block

LEMMA CheckDoes ==
    ASSUME PipeInv, NEW w \in Workers, Check(w)
    PROVE  /\ run[w].pc = "check"
           /\ \E c : /\ RunBecomes(w, c) /\ c.job = run[w].job
                     /\ \/ c.pc = "execute"
                        \/ c.pc = "return" /\ c.outcome = "repeated" /\ HasStored(jobs[run[w].job])
           /\ trouble' = trouble \/ Troubled
           /\ UNCHANGED <<created, unheard, jobs, stored, handed, escalated>>
<1>1. run[w].pc = "check" /\ run[w].pc # "idle"
      /\ UNCHANGED <<created, unheard, jobs, stored, handed, escalated>>
  BY DEF Check, At, redis
<1>2. CASE GoTo(w, "execute")
  <2>1. \E c : RunBecomes(w, c) /\ c.pc = "execute" /\ c.job = run[w].job
    BY <1>1, <1>2, RunGoesTo
  <2> QED
    BY <1>1, <2>1 DEF Check
<1>3. CASE End(w, "repeated") /\ \E r \in stored : r.key = Key(Job(w))
  <2>1. \E c : /\ RunBecomes(w, c) /\ c.pc = "return" /\ c.job = run[w].job
               /\ c.outcome = "repeated"
    BY <1>1, <1>3, RunEnds
  <2>2. HasStored(jobs[run[w].job])
    BY <1>3 DEF HasStored, Job
  <2> QED
    BY <1>1, <2>1, <2>2 DEF Check
<1> QED
  BY <1>2, <1>3 DEF Check

LEMMA ExecuteDoes ==
    ASSUME PipeInv, NEW w \in Workers, Execute(w)
    PROVE  /\ run[w].pc = "execute"
           /\ \E c : /\ RunBecomes(w, c) /\ c.job = run[w].job
                     /\ \/ c.pc = "return" /\ c.outcome = "deadEnd" /\ UNCHANGED trouble
                        \/ c.pc = "act" /\ c.outcome = "failure" /\ Troubled
                        \/ c.pc = "act" /\ c.outcome = "success" /\ UNCHANGED trouble
                        \/ c.pc = "escalate" /\ UNCHANGED trouble
           /\ UNCHANGED <<created, unheard, jobs, stored, handed, escalated>>
<1>1. run[w].pc = "execute" /\ run[w].pc # "idle"
      /\ UNCHANGED <<created, unheard, jobs, stored, handed, escalated>>
  BY DEF Execute, At, redis
<1>2. run[w] \in RunRecord
  BY <1>1, RunOfItsJob
<1>3. CASE End(w, "deadEnd") /\ UNCHANGED trouble
  <2>1. \E c : /\ RunBecomes(w, c) /\ c.pc = "return" /\ c.job = run[w].job
               /\ c.outcome = "deadEnd"
    BY <1>1, <1>3, RunEnds
  <2> QED
    BY <1>1, <1>3, <2>1
<1>4. CASE Troubled /\ run' = [run EXCEPT ![w].pc = "act", ![w].outcome = "failure"]
  <2>1. PICK c : c = [run[w] EXCEPT !.pc = "act", !.outcome = "failure"]
    OBVIOUS
  <2>2. c.pc = "act" /\ c.outcome = "failure" /\ c.job = run[w].job
    BY <1>2, <2>1 DEF RunRecord
  <2>3. RunBecomes(w, c)
    BY <1>4, <2>1, RunSet
  <2> QED
    BY <1>1, <1>4, <2>2, <2>3
<1>5. ASSUME NEW v, UNCHANGED trouble,
             run' = [run EXCEPT ![w] = [@ EXCEPT !.pc = "act", !.outcome = "success", !.verified = v]]
      PROVE  \E c : /\ RunBecomes(w, c) /\ c.job = run[w].job
                    /\ c.pc = "act" /\ c.outcome = "success"
  <2>1. PICK c : c = [run[w] EXCEPT !.pc = "act", !.outcome = "success", !.verified = v]
    OBVIOUS
  <2>2. c.pc = "act" /\ c.outcome = "success" /\ c.job = run[w].job
    BY <1>2, <2>1 DEF RunRecord
  <2>3. RunBecomes(w, c)
    BY <1>5, <2>1, RunSet
  <2> QED
    BY <2>2, <2>3
<1>6. CASE GoTo(w, "escalate") /\ UNCHANGED trouble
  <2>1. \E c : RunBecomes(w, c) /\ c.pc = "escalate" /\ c.job = run[w].job
    BY <1>1, <1>6, RunGoesTo
  <2> QED
    BY <1>1, <1>6, <2>1
<1>7. \/ End(w, "deadEnd") /\ UNCHANGED trouble
      \/ Troubled /\ run' = [run EXCEPT ![w].pc = "act", ![w].outcome = "failure"]
      \/ /\ UNCHANGED trouble
         /\ \E v \in IF Job(w).state = "VERIFY" THEN {"passed", "failed"} ELSE {Job(w).verified} :
               run' = [run EXCEPT ![w] = [@ EXCEPT !.pc = "act", !.outcome = "success",
                                                   !.verified = v]]
      \/ GoTo(w, "escalate") /\ UNCHANGED trouble
  BY DEF Execute
<1> QED
  BY <1>1, <1>3, <1>4, <1>5, <1>6, <1>7

LEMMA HandOnDoes ==
    ASSUME PipeInv, NEW w \in Workers, HandOn(w)
    PROVE  /\ run[w].pc = "act" /\ run[w].outcome = "success" /\ run[w].job \in DOMAIN jobs
           /\ \E c : RunBecomes(w, c) /\ c.pc = "settle" /\ c.job = run[w].job /\ c.outcome = "success"
           /\ \/ /\ \E d : JobComes(d) /\ d.incident = jobs[run[w].job].incident /\ d.state = "FIXED"
                 /\ UNCHANGED handed
              \/ /\ NextState(jobs[run[w].job]) \in IncidentState
                 /\ handed' = [handed EXCEPT ![jobs[run[w].job].incident]
                                                  [NextState(jobs[run[w].job])] = @ + 1]
                 /\ UNCHANGED jobs
           /\ UNCHANGED <<created, unheard, trouble, stored, escalated>>
<1>1. At(w, "act") /\ run[w].outcome = "success" /\ GoTo(w, "settle")
      /\ UNCHANGED <<created, unheard, trouble, stored, escalated>>
  BY DEF HandOn
<1>2. /\ run[w] \in RunRecord /\ run[w].job \in DOMAIN jobs /\ Job(w) = jobs[run[w].job]
      /\ Job(w) \in JobRecord /\ Job(w).incident \in Incidents
      /\ NextState(Job(w)) \in IncidentState
  BY <1>1, ActingRun
<1>3. run[w].pc = "act" /\ run[w].pc # "idle" /\ run[w].verified \in Verdict
      /\ Job(w).fixAttempts \in Nat
  BY <1>1, <1>2 DEF At, RunRecord, JobRecord
<1>4. \E c : RunBecomes(w, c) /\ c.pc = "settle" /\ c.job = run[w].job /\ c.outcome = "success"
  BY <1>1, <1>3, RunGoesTo
<1>5. CASE NextState(Job(w)) = "FIXED"
  <2>1. jobs' = Append(jobs, NewJob(Job(w).incident, "FIXED", Job(w).fixAttempts, run[w].verified))
        /\ UNCHANGED handed
    BY <1>5 DEF HandOn
  <2>2. \E d : JobComes(d) /\ d.incident = Job(w).incident /\ d.state = "FIXED"
    BY <1>2, <1>3, <1>5, <2>1, JobAppended DEF PipeInv
  <2> QED
    BY <1>1, <1>2, <1>3, <1>4, <2>1, <2>2
<1>6. CASE NextState(Job(w)) # "FIXED"
  <2>1. UNCHANGED jobs /\ handed' = [handed EXCEPT ![Job(w).incident][NextState(Job(w))] = @ + 1]
    BY <1>6 DEF HandOn
  <2> QED
    BY <1>1, <1>2, <1>3, <1>4, <2>1
<1> QED
  BY <1>5, <1>6

LEMMA RetryDoes ==
    ASSUME PipeInv, NEW w \in Workers, Retry(w)
    PROVE  /\ run[w].pc = "act" /\ run[w].outcome = "failure" /\ run[w].job \in DOMAIN jobs
           /\ \E c : RunBecomes(w, c) /\ c.pc = "settle" /\ c.job = run[w].job /\ c.outcome = "failure"
           /\ \/ escalated' = [escalated EXCEPT ![jobs[run[w].job].incident] = @ + 1] /\ UNCHANGED jobs
              \/ /\ \E d : /\ JobComes(d) /\ d.incident = jobs[run[w].job].incident
                           /\ d.state = jobs[run[w].job].state
                 /\ UNCHANGED escalated
           /\ UNCHANGED <<created, unheard, trouble, stored, handed>>
<1>1. At(w, "act") /\ run[w].outcome = "failure" /\ GoTo(w, "settle")
      /\ UNCHANGED <<created, unheard, trouble, stored, handed>>
  BY DEF Retry
<1>2. /\ run[w] \in RunRecord /\ run[w].job \in DOMAIN jobs /\ Job(w) = jobs[run[w].job]
      /\ Job(w) \in JobRecord /\ Job(w).incident \in Incidents
  BY <1>1, ActingRun
<1>3. PICK k \in Nat :
         k = IF Job(w).state = "FIX_ATTEMPT" THEN Job(w).fixAttempts + 1 ELSE Job(w).fixAttempts
  BY <1>2 DEF JobRecord
<1>4. run[w].pc = "act" /\ run[w].pc # "idle" /\ Job(w).verified \in Verdict
      /\ Job(w).state \in IncidentState
  BY <1>1, <1>2 DEF At, JobRecord
<1>5. \E c : RunBecomes(w, c) /\ c.pc = "settle" /\ c.job = run[w].job /\ c.outcome = "failure"
  BY <1>1, <1>4, RunGoesTo
<1>6. ASSUME jobs' = Append(jobs, NewJob(Job(w).incident, Job(w).state, k, Job(w).verified))
      PROVE  \E d : JobComes(d) /\ d.incident = Job(w).incident /\ d.state = Job(w).state
  BY <1>2, <1>3, <1>4, <1>6, JobAppended DEF PipeInv
<1>7. \/ escalated' = [escalated EXCEPT ![Job(w).incident] = @ + 1] /\ UNCHANGED jobs
      \/ /\ jobs' = Append(jobs, NewJob(Job(w).incident, Job(w).state, k, Job(w).verified))
         /\ UNCHANGED escalated
  BY <1>3 DEF Retry
<1> QED
  BY <1>1, <1>2, <1>4, <1>5, <1>6, <1>7

LEMMA SettleDoes ==
    ASSUME PipeInv, NEW w \in Workers, Settle(w)
    PROVE  /\ run[w].pc = "settle" /\ run[w].job \in DOMAIN jobs
           /\ \E c : /\ RunBecomes(w, c) /\ c.pc = "return" /\ c.job = run[w].job
                     /\ c.outcome = run[w].outcome
           /\ StoredGrow
           /\ trouble' = trouble \/ Troubled
           /\ UNCHANGED <<created, unheard, jobs, handed, escalated>>
<1>1. run[w].pc = "settle" /\ run[w].pc # "idle" /\ GoTo(w, "return")
      /\ UNCHANGED <<created, unheard, jobs, handed, escalated>>
  BY DEF Settle, At
<1>2. run[w].job \in DOMAIN jobs
  BY <1>1, RunOfItsJob
<1>3. \E c : RunBecomes(w, c) /\ c.pc = "return" /\ c.job = run[w].job /\ c.outcome = run[w].outcome
  BY <1>1, RunGoesTo
<1>4. CASE UNCHANGED stored
  BY <1>1, <1>2, <1>3, <1>4 DEF Settle, StoredGrow
<1>5. CASE /\ UNCHANGED trouble
           /\ stored' = {r \in stored : r.key # Key(Job(w))}
                           \cup {[key |-> Key(Job(w)), outcome |-> run[w].outcome]}
  <2>1. PICK new : new = [key |-> Key(Job(w)), outcome |-> run[w].outcome]
    OBVIOUS
  <2>2. new \in stored' /\ new.key = Key(Job(w))
    BY <1>5, <2>1
  <2>3. \A r \in stored : r.key # Key(Job(w)) => r \in stored'
    BY <1>5
  <2>4. StoredGrow
    BY <2>2, <2>3 DEF StoredGrow
  <2> QED
    BY <1>1, <1>2, <1>3, <1>5, <2>4
<1> QED
  BY <1>4, <1>5 DEF Settle

LEMMA FaultDoes ==
    ASSUME PipeInv, NEW w \in Workers, Fault(w)
    PROVE  /\ run[w].pc \in {"execute", "act", "settle", "blocked"} /\ Troubled
           /\ \E c : RunBecomes(w, c) /\ c.pc = "escalate" /\ c.job = run[w].job
           /\ UNCHANGED <<created, unheard, jobs, stored, handed, escalated>>
<1>1. run[w].pc \in {"execute", "act", "settle", "blocked"} /\ run[w].pc # "idle" /\ Troubled
      /\ GoTo(w, "escalate") /\ UNCHANGED <<created, unheard, jobs, stored, handed, escalated>>
  BY DEF Fault, At, redis
<1>2. \E c : RunBecomes(w, c) /\ c.pc = "escalate" /\ c.job = run[w].job
  BY <1>1, RunGoesTo
<1> QED
  BY <1>1, <1>2

LEMMA EscalateDoes ==
    ASSUME PipeInv, NEW w \in Workers, Escalate(w)
    PROVE  /\ run[w].pc = "escalate" /\ run[w].job \in DOMAIN jobs
           /\ \E c : RunBecomes(w, c) /\ c.pc = "rethrow" /\ c.job = run[w].job
           /\ \/ /\ escalated' = [escalated EXCEPT ![jobs[run[w].job].incident] = @ + 1]
                 /\ UNCHANGED <<trouble, unheard>>
              \/ /\ unheard' = [unheard EXCEPT ![jobs[run[w].job].incident] = @ + 1]
                 /\ UNCHANGED escalated /\ Troubled
           /\ UNCHANGED <<created, jobs, stored, handed>>
<1>1. run[w].pc = "escalate" /\ run[w].pc # "idle" /\ GoTo(w, "rethrow")
      /\ UNCHANGED <<created, jobs, stored, handed>>
  BY DEF Escalate, At
<1>2. run[w].job \in DOMAIN jobs
  BY <1>1, RunOfItsJob
<1>3. \E c : RunBecomes(w, c) /\ c.pc = "rethrow" /\ c.job = run[w].job
  BY <1>1, RunGoesTo
<1> QED
  BY <1>1, <1>2, <1>3 DEF Escalate, Job

LEMMA BecomesGrows ==
    /\ \A n \in DOMAIN jobs : \A d : JobBecomes(n, d) => JobsGrow
    /\ \A d : JobComes(d) => JobsGrow
    /\ UNCHANGED jobs => JobsGrow
BY DEF JobBecomes, JobComes, JobsGrow, Same

(* A run goes on: its job stays, and a job may be added.                    *)
LEMMA GoingTells ==
    ASSUME EndInv, PipeInv', Grows, StoredGrow, UNCHANGED unheard,
           NEW w \in Workers, NEW c, RunBecomes(w, c), RunTold(c)', c.pc # "rethrow",
           UNCHANGED jobs \/ \E d : JobComes(d)
    PROVE  ToldInv' /\ HeardInv'
<1>1. ASSUME NEW n \in DOMAIN jobs'
      PROVE  \/ n \in DOMAIN jobs /\ jobs'[n] = jobs[n]
             \/ /\ jobs'[n].status = "waiting" /\ jobs'[n].attempts = 0
                /\ jobs'[n].owner = NoOne
  BY DEF JobComes
<1>2. \A v \in Workers : run'[v] = run[v] \/ (v = w /\ run'[v] = c)
  BY DEF RunBecomes
<1>3. ToldInv'
  <2>1. \A v \in Workers : run'[v] = run[v] \/ RunTold(run[v])'
    BY <1>2
  <2>2. ToldInv
    BY DEF EndInv
  <2> QED
    BY <1>1, <2>1, <2>2, ToldKept DEF EndInv
<1>4. HeardInv'
  <2>1. ASSUME NEW n \in DOMAIN jobs'
        PROVE  \/ /\ n \in DOMAIN jobs /\ jobs'[n].attempts = jobs[n].attempts
                  /\ \A v \in Workers : Rethrowing(v, n)' => Rethrowing(v, n)
               \/ jobs'[n].attempts = 0 /\ \A v \in Workers : ~Rethrowing(v, n)'
    <3>1. CASE n \in DOMAIN jobs /\ jobs'[n] = jobs[n]
      BY <1>2, <3>1 DEF Rethrowing
    <3>2. CASE jobs'[n].attempts = 0 /\ jobs'[n].owner = NoOne
      BY <3>2, WorkersAssumption DEF Rethrowing
    <3> QED
      BY <1>1, <3>1, <3>2
  <2> QED
    BY <2>1, HeardKept DEF EndInv
<1> QED
  BY <1>3, <1>4

LEMMA QuietTells ==
    ASSUME EndInv, NEW w \in Workers, PipeInv',
           Block(w) \/ Check(w) \/ Execute(w) \/ Settle(w) \/ Fault(w)
    PROVE  ToldInv' /\ HeardInv'
<1> USE DEF EndInv
<1>1. /\ UNCHANGED <<unheard, jobs, handed>> /\ (UNCHANGED stored \/ Settle(w))
      /\ UNCHANGED escalated \/ Block(w)
      /\ run[w].pc \in Busy /\ run[w].pc \notin {"idle", "rethrow"}
  BY BlockDoes, CheckDoes, ExecuteDoes, SettleDoes, FaultDoes DEF Busy
<1>2. run[w].job \in DOMAIN jobs /\ jobs[run[w].job].incident \in Incidents
  BY <1>1, RunOfItsJob DEF Job
<1>3. Grows
  <2>1. CountsGrow
    <3>1. CASE UNCHANGED escalated
      BY <1>1, <3>1, CountsUntouched DEF PipeInv
    <3>2. CASE escalated' = [escalated EXCEPT ![Job(w).incident] = @ + 1]
      BY <1>1, <1>2, <3>2, EscalatedOnce DEF PipeInv, Job
    <3> QED
      BY <1>1, <3>1, <3>2 DEF Block
  <2> QED
    BY <1>1, <2>1, BecomesGrows DEF Grows
<1>4. StoredGrow
  BY <1>1, SettleDoes DEF StoredGrow
<1>5. \E c : RunBecomes(w, c) /\ c.pc # "rethrow" /\ RunTold(c)'
  <2>1. CASE Block(w) \/ Check(w) \/ Execute(w) \/ Fault(w)
    <3>1. PICK c : /\ RunBecomes(w, c) /\ c.job = run[w].job
                   /\ \/ c.pc \in {"execute", "act", "escalate"}
                      \/ c.pc = "return" /\ c.outcome \in {"blocked", "deadEnd"}
                      \/ c.pc = "return" /\ c.outcome = "repeated" /\ HasStored(jobs[run[w].job])
      BY <2>1, BlockDoes, CheckDoes, ExecuteDoes, FaultDoes
    <3>2. c.pc = "return" => Told(c.job, c.outcome) /\ c.outcome # "failed"
      BY <3>1 DEF Told
    <3>3. c.pc = "return" => Told(c.job, c.outcome)'
      BY <1>2, <1>3, <1>4, <3>1, <3>2, ToldStays DEF PipeInv
    <3>4. RunTold(c)'
      BY <3>1, <3>2, <3>3 DEF RunTold
    <3> QED
      BY <3>1, <3>4
  <2>2. CASE Settle(w)
    <3>1. PICK c : /\ RunBecomes(w, c) /\ c.job = run[w].job /\ c.pc = "return"
                   /\ c.outcome = run[w].outcome
      BY <2>2, SettleDoes
    <3>2. /\ run[w].pc = "settle" /\ run[w].outcome \in {"success", "failure"}
          /\ NextState(jobs[run[w].job]) # NoState /\ ActedOn(jobs[run[w].job], run[w].outcome)
          /\ RunTold(run[w])
      BY <2>2, SettleDoes DEF PipeInv, RunsInv, RunOk, ToldInv
    <3>3. Told(c.job, c.outcome) /\ c.outcome # "failed"
      BY <3>1, <3>2 DEF Told, ActedOn, RunTold
    <3>4. Told(c.job, c.outcome)'
      BY <1>2, <1>3, <1>4, <3>1, <3>3, ToldStays DEF PipeInv
    <3>5. RunTold(c)'
      BY <3>1, <3>3, <3>4 DEF RunTold
    <3> QED
      BY <3>1, <3>5
  <2> QED
    BY <2>1, <2>2
<1> QED
  BY <1>1, <1>3, <1>4, <1>5, GoingTells

LEMMA ActingTells ==
    ASSUME EndInv, NEW w \in Workers, PipeInv', HandOn(w) \/ Retry(w)
    PROVE  ToldInv' /\ HeardInv'
<1> USE DEF EndInv
<1>1. run[w].job \in DOMAIN jobs /\ UNCHANGED <<unheard, stored>>
  BY HandOnDoes, RetryDoes
<1>2. PICK n \in DOMAIN jobs : n = run[w].job
  BY <1>1
<1>3. jobs[n].incident \in Incidents
  BY DEF PipeInv, JobsInv, JobRecord
<1>4. StoredGrow
  BY <1>1 DEF StoredGrow
<1>5. UNCHANGED jobs \/ \E d : JobComes(d)
  BY HandOnDoes, RetryDoes
<1>6. CASE HandOn(w)
  <2>1. CountsGrow
    BY <1>2, <1>3, <1>6, HandOnDoes, CountsUntouched, HandedOnce DEF PipeInv
  <2>2. Grows
    BY <1>5, <2>1, BecomesGrows DEF Grows
  <2>3. PICK c : RunBecomes(w, c) /\ c.pc = "settle" /\ c.outcome = "success"
    BY <1>6, HandOnDoes
  <2>4. RunTold(c)'
    BY <2>3 DEF RunTold
  <2> QED
    BY <1>1, <1>4, <1>5, <2>2, <2>3, <2>4, GoingTells
<1>7. CASE Retry(w)
  <2>1. CountsGrow
    BY <1>2, <1>3, <1>7, RetryDoes, CountsUntouched, EscalatedOnce DEF PipeInv
  <2>2. Grows
    BY <1>5, <2>1, BecomesGrows DEF Grows
  <2>3. PICK c : RunBecomes(w, c) /\ c.pc = "settle" /\ c.job = n
    BY <1>2, <1>7, RetryDoes
  <2>4. Retried(n)'
    <3>1. CASE escalated' = [escalated EXCEPT ![jobs[n].incident] = @ + 1] /\ UNCHANGED jobs
      <4>1. escalated'[jobs[n].incident] > 0
        BY <1>3, <1>7, <3>1, RetryDoes, EscalatedOnce DEF PipeInv
      <4> QED
        BY <3>1, <4>1 DEF Retried
    <3>2. CASE \E d : JobComes(d) /\ d.incident = jobs[n].incident
      <4>1. PICK d : JobComes(d) /\ d.incident = jobs[n].incident
        BY <3>2
      <4>2. PICK l : l = Len(jobs) + 1
        OBVIOUS
      <4>3. l \in DOMAIN jobs' /\ jobs'[l] = d /\ n < l /\ jobs'[n] = jobs[n]
        BY <4>1, <4>2 DEF JobComes
      <4>4. l > n
        BY <4>2, <4>3 DEF PipeInv, JobsInv
      <4> QED
        BY <4>1, <4>3, <4>4 DEF Retried
    <3> QED
      BY <1>2, <1>7, <3>1, <3>2, RetryDoes
  <2>5. RunTold(c)'
    BY <2>3, <2>4 DEF RunTold
  <2> QED
    BY <1>1, <1>4, <1>5, <2>2, <2>3, <2>5, GoingTells
<1> QED
  BY <1>6, <1>7

LEMMA EscalateTells ==
    ASSUME EndInv, NEW w \in Workers, PipeInv', Escalate(w)
    PROVE  ToldInv' /\ HeardInv'
<1> USE DEF EndInv
<1>1. run[w].pc = "escalate" /\ run[w].job \in DOMAIN jobs /\ UNCHANGED <<jobs, stored, handed>>
  BY EscalateDoes
<1>2. PICK k \in DOMAIN jobs : k = run[w].job
  BY <1>1
<1>3. PICK c : RunBecomes(w, c) /\ c.pc = "rethrow" /\ c.job = k
  BY <1>2, EscalateDoes
<1>4. PICK i \in Incidents : i = jobs[k].incident
  BY DEF PipeInv, JobsInv, JobRecord
<1>5. CASE escalated' = [escalated EXCEPT ![i] = @ + 1] /\ UNCHANGED unheard
  <2>1. CountsGrow /\ escalated'[i] > 0
    BY <1>1, <1>5, EscalatedOnce DEF PipeInv
  <2>2. Grows /\ StoredGrow
    BY <1>1, <2>1, BecomesGrows DEF Grows, StoredGrow
  <2>3. RunTold(c)'
    BY <1>3 DEF RunTold
  <2>4. ToldInv'
    BY <1>1, <1>3, <2>2, <2>3, ToldKept DEF RunBecomes
  <2>5. ASSUME NEW n \in DOMAIN jobs PROVE Heard(n)'
    <3>1. CASE jobs[n].incident = i
      BY <1>1, <2>1, <3>1 DEF Heard
    <3>2. CASE jobs[n].incident # i
      <4>1. \A v \in Workers : Rethrowing(v, n)' => Rethrowing(v, n)
        BY <1>1, <1>3, <1>4, <3>2 DEF Rethrowing, RunBecomes
      <4>2. /\ escalated'[jobs[n].incident] = escalated[jobs[n].incident] 
            /\ unheard' = unheard /\ jobs' = jobs /\ Heard(n)
        BY <1>1, <1>5, <3>2 DEF HeardInv, PipeInv, CountsInv, JobsInv, JobRecord
      <4> QED
        BY <4>1, <4>2 DEF Heard
    <3> QED
      BY <3>1, <3>2
  <2> QED
    BY <1>1, <1>5, <2>4, <2>5 DEF HeardInv
<1>6. CASE unheard' = [unheard EXCEPT ![i] = @ + 1] /\ UNCHANGED escalated
  <2>1. CountsGrow
    BY <1>1, <1>6, CountsUntouched DEF PipeInv
  <2>2. Grows /\ StoredGrow
    BY <1>1, <2>1, BecomesGrows DEF Grows, StoredGrow
  <2>3. RunTold(c)'
    BY <1>3 DEF RunTold
  <2>4. ToldInv'
    BY <1>1, <1>3, <2>2, <2>3, ToldKept DEF RunBecomes
  <2>5. /\ unheard' \in [Incidents -> Nat] /\ unheard'[i] = unheard[i] + 1
        /\ \A j \in Incidents \ {i} : unheard'[j] = unheard[j]
        /\ unheard[i] \in Nat
    BY <1>6 DEF HeardInv
  <2>6. ASSUME NEW n \in DOMAIN jobs PROVE Heard(n)'
    <3>1. jobs[n].incident \in Incidents /\ jobs[n].attempts \in Nat /\ Heard(n)
      <4>1. jobs[n] \in JobRecord /\ Heard(n)
        BY DEF PipeInv, JobsInv, HeardInv
      <4> QED
        BY <4>1 DEF JobRecord
    <3>2. CASE escalated[jobs[n].incident] > 0
      BY <1>1, <1>6, <3>2 DEF Heard
    <3>3. CASE /\ jobs[n].attempts <= unheard[jobs[n].incident]
               /\ \A v \in Workers : Rethrowing(v, n) =>
                     jobs[n].attempts + 1 <= unheard[jobs[n].incident]
      <4>1. CASE jobs[n].incident = i
        <5>1. jobs[n].attempts + 1 <= unheard'[jobs[n].incident]
          BY <2>5, <3>1, <3>3, <4>1
        <5>2. jobs[n].attempts <= unheard'[jobs[n].incident]
          BY <2>5, <3>1, <3>3, <4>1
        <5> QED
          BY <1>1, <5>1, <5>2 DEF Heard
      <4>2. CASE jobs[n].incident # i
        <5>1. \A v \in Workers : Rethrowing(v, n)' => Rethrowing(v, n)
          BY <1>1, <1>3, <1>4, <4>2 DEF Rethrowing, RunBecomes
        <5>2. unheard'[jobs[n].incident] = unheard[jobs[n].incident]
          BY <2>5, <3>1, <4>2
        <5> QED
          BY <1>1, <3>3, <5>1, <5>2 DEF Heard
      <4> QED
        BY <4>1, <4>2
    <3> QED
      BY <3>1, <3>2, <3>3 DEF Heard
  <2> QED
    BY <1>1, <2>4, <2>5, <2>6 DEF HeardInv
<1> QED
  BY <1>2, <1>4, <1>5, <1>6, EscalateDoes

LEMMA CreateTells ==
    ASSUME EndInv, NEW i \in Incidents, PipeInv', Create(i)
    PROVE  ToldInv' /\ HeardInv'
<1> USE DEF EndInv
<1>1. /\ UNCHANGED <<unheard, stored, handed, escalated, run>>
      /\ UNCHANGED jobs \/ \E d : JobComes(d)
  BY CreateDoes
<1>2. Grows /\ StoredGrow
  BY <1>1, CountsUntouched, BecomesGrows DEF PipeInv, Grows, StoredGrow
<1>3. ASSUME NEW n \in DOMAIN jobs'
      PROVE  \/ n \in DOMAIN jobs /\ jobs'[n] = jobs[n]
             \/ /\ jobs'[n].status = "waiting" /\ jobs'[n].attempts = 0
                /\ jobs'[n].owner = NoOne
  BY <1>1 DEF JobComes
<1>4. ToldInv'
  BY <1>1, <1>2, <1>3, ToldKept
<1>5. ASSUME NEW n \in DOMAIN jobs'
      PROVE  \/ /\ n \in DOMAIN jobs /\ jobs'[n].attempts = jobs[n].attempts
                /\ \A v \in Workers : Rethrowing(v, n)' => Rethrowing(v, n)
             \/ jobs'[n].attempts = 0 /\ \A v \in Workers : ~Rethrowing(v, n)'
  BY <1>1, <1>3, WorkersAssumption DEF Rethrowing
<1>6. HeardInv'
  BY <1>1, <1>2, <1>5, HeardKept
<1> QED
  BY <1>4, <1>6

LEMMA TakeTells ==
    ASSUME EndInv, NEW w \in Workers, NEW n \in DOMAIN jobs, PipeInv', Take(w, n)
    PROVE  ToldInv' /\ HeardInv'
<1> USE DEF EndInv
<1>1. UNCHANGED <<unheard, stored, handed, escalated>>
  BY TakeDoes
<1>2. PICK d : /\ JobBecomes(n, d) /\ d.status = "active" /\ d.owner = w
               /\ d.attempts = jobs[n].attempts
  BY TakeDoes
<1>3. PICK c : RunBecomes(w, c) /\ c.pc \in {"check", "blocked"}
  BY TakeDoes
<1>4. Grows /\ StoredGrow
  BY <1>1, <1>2, CountsUntouched, BecomesGrows DEF PipeInv, Grows, StoredGrow
<1>5. RunTold(c)'
  BY <1>3 DEF RunTold
<1>6. ToldInv'
  BY <1>2, <1>3, <1>4, <1>5, ToldKept DEF JobBecomes, RunBecomes
<1>7. ASSUME NEW m \in DOMAIN jobs'
      PROVE  /\ m \in DOMAIN jobs /\ jobs'[m].attempts = jobs[m].attempts
             /\ \A v \in Workers : Rethrowing(v, m)' => Rethrowing(v, m)
  BY <1>2, <1>3 DEF JobBecomes, RunBecomes, Rethrowing
<1>8. HeardInv'
  BY <1>1, <1>4, <1>7, HeardKept
<1> QED
  BY <1>6, <1>8

LEMMA GiveTells ==
    ASSUME EndInv, NEW w \in Workers, PipeInv', Return(w) \/ Rethrow(w)
    PROVE  ToldInv' /\ HeardInv'
<1> USE DEF EndInv
<1>1. UNCHANGED <<unheard, stored, handed, escalated>> /\ RunBecomes(w, IdleRun)
      /\ run[w].job \in DOMAIN jobs
  BY ReturnDoes, RethrowDoes
<1>2. PICK n \in DOMAIN jobs : n = run[w].job
  BY <1>1
<1>3. IdleRun.pc = "idle"
  BY DEF IdleRun
<1>4. \/ UNCHANGED jobs
      \/ /\ jobs[n].owner = w
         /\ \E d : /\ JobBecomes(n, d) /\ d.owner = NoOne
                   /\ \/ d.attempts = jobs[n].attempts
                      \/ d.attempts = jobs[n].attempts + 1 /\ run[w].pc = "rethrow"
                   /\ \/ d.status = "waiting"
                      \/ d.status = "failed" /\ d.attempts >= MaxAttempts
                      \/ d.status = run[w].outcome /\ run[w].pc = "return"
  BY <1>2, ReturnDoes, RethrowDoes
<1>5. Grows /\ StoredGrow
  BY <1>1, <1>4, CountsUntouched, BecomesGrows DEF PipeInv, Grows, StoredGrow
<1>6. RunTold(IdleRun)'
  BY <1>3 DEF RunTold
<1>7. \A v \in Workers : run'[v] = run[v] \/ RunTold(run[v])'
  BY <1>1, <1>6 DEF RunBecomes
<1>8. \A v \in Workers, m \in DOMAIN jobs :
         Rethrowing(v, m)' /\ jobs'[m] = jobs[m] => Rethrowing(v, m)
  BY <1>1, <1>3 DEF RunBecomes, Rethrowing
<1>9. CASE UNCHANGED jobs
  <2>1. ToldInv'
    BY <1>5, <1>7, <1>9, ToldKept
  <2>2. ASSUME NEW m \in DOMAIN jobs'
        PROVE  /\ m \in DOMAIN jobs /\ jobs'[m].attempts = jobs[m].attempts
               /\ \A v \in Workers : Rethrowing(v, m)' => Rethrowing(v, m)
    BY <1>8, <1>9
  <2>3. HeardInv'
    BY <1>1, <1>5, <2>2, HeardKept
  <2> QED
    BY <2>1, <2>3
<1>10. ASSUME NEW d, JobBecomes(n, d), d.owner = NoOne, jobs[n].owner = w,
              \/ d.attempts = jobs[n].attempts
              \/ d.attempts = jobs[n].attempts + 1 /\ run[w].pc = "rethrow",
              \/ d.status = "waiting"
              \/ d.status = "failed" /\ d.attempts >= MaxAttempts
              \/ d.status = run[w].outcome /\ run[w].pc = "return"
       PROVE  ToldInv' /\ HeardInv'
  <2>1. \/ d.status = "waiting"
        \/ d.status = "failed" /\ UsedUp(d)
        \/ d.status # "failed" /\ Told(n, d.status)
    <3>1. run[w].pc = "return" => Told(n, run[w].outcome) /\ run[w].outcome # "failed"
      BY <1>2 DEF ToldInv, RunTold
    <3> QED
      BY <1>10, <3>1 DEF UsedUp
  <2>2. ASSUME NEW m \in DOMAIN jobs'
        PROVE  m \in DOMAIN jobs /\ (jobs'[m] = jobs[m] \/ (m = n /\ jobs'[m] = d))
    BY <1>10 DEF JobBecomes
  <2>3. ToldInv'
    BY <1>5, <1>7, <2>1, <2>2, ToldKept
  <2>4. ASSUME NEW m \in DOMAIN jobs'
        PROVE  /\ m \in DOMAIN jobs
               /\ \/ jobs'[m].attempts = jobs[m].attempts
                  \/ /\ jobs'[m].attempts = jobs[m].attempts + 1
                     /\ \E v \in Workers : Rethrowing(v, m)
               /\ \A v \in Workers : Rethrowing(v, m)' =>
                     Rethrowing(v, m) /\ jobs'[m].attempts = jobs[m].attempts
    <3>1. CASE jobs'[m] = jobs[m]
      BY <1>8, <2>2, <3>1
    <3>2. CASE m = n /\ jobs'[m] = d
      <4>1. \A v \in Workers : ~Rethrowing(v, m)'
        BY <1>10, <3>2, WorkersAssumption DEF Rethrowing
      <4>2. run[w].pc = "rethrow" => Rethrowing(w, n)
        BY <1>2, <1>10 DEF Rethrowing
      <4> QED
        BY <1>10, <2>2, <3>2, <4>1, <4>2
    <3> QED
      BY <2>2, <3>1, <3>2
  <2>5. HeardInv'
    BY <1>1, <1>5, <2>4, HeardKept
  <2> QED
    BY <2>3, <2>5
<1> QED
  BY <1>4, <1>9, <1>10

LEMMA StalledTells ==
    ASSUME EndInv, NEW n \in DOMAIN jobs, PipeInv', Stalled(n)
    PROVE  ToldInv' /\ HeardInv'
<1> USE DEF EndInv
<1>1. UNCHANGED <<unheard, stored, handed, escalated, run>>
  BY StalledDoes
<1>2. PICK d : /\ JobBecomes(n, d) /\ d.owner = NoOne /\ d.attempts = jobs[n].attempts
               /\ d.status = "waiting" \/ (d.status = "failed" /\ d.stalls > MaxStalled)
  BY StalledDoes
<1>3. Grows /\ StoredGrow
  BY <1>1, <1>2, CountsUntouched, BecomesGrows DEF PipeInv, Grows, StoredGrow
<1>4. ToldInv'
  BY <1>1, <1>2, <1>3, ToldKept DEF JobBecomes, UsedUp
<1>5. ASSUME NEW m \in DOMAIN jobs'
      PROVE  /\ m \in DOMAIN jobs /\ jobs'[m].attempts = jobs[m].attempts
             /\ \A v \in Workers : Rethrowing(v, m)' => Rethrowing(v, m)
  BY <1>1, <1>2, WorkersAssumption DEF JobBecomes, Rethrowing
<1>6. HeardInv'
  BY <1>1, <1>3, <1>5, HeardKept
<1> QED
  BY <1>4, <1>6

LEMMA CrashTells ==
    ASSUME EndInv, PipeInv', Crash
    PROVE  ToldInv' /\ HeardInv'
<1> USE DEF EndInv
<1>1. UNCHANGED <<unheard, jobs, stored, handed, escalated>>
      /\ \A w \in Workers : run'[w].pc = "idle"
  BY CrashDoes
<1>2. Grows /\ StoredGrow
  BY <1>1, CountsUntouched, BecomesGrows DEF PipeInv, Grows, StoredGrow
<1>3. ToldInv'
  BY <1>1, <1>2, ToldKept DEF RunTold
<1>4. HeardInv'
  BY <1>1, <1>2, HeardKept DEF Rethrowing
<1> QED
  BY <1>3, <1>4

LEMMA ResultsKept == ResultsInv /\ [Next]_vars => ResultsInv'
<1> SUFFICES ASSUME ResultsInv, [Next]_vars PROVE ResultsInv'
  OBVIOUS
<1>1. ASSUME NEW w \in Workers, Settle(w) PROVE ResultsInv'
  <2>1. PICK new : new = [key |-> Key(Job(w)), outcome |-> run[w].outcome]
    OBVIOUS
  <2>2. stored' \subseteq stored \cup {new}
    BY <1>1, <2>1 DEF Settle
  <2> QED
    BY <2>1, <2>2 DEF ResultsInv
<1>2. CASE UNCHANGED stored
  BY <1>2 DEF ResultsInv
<1>3. UNCHANGED stored \/ \E w \in Workers : Settle(w)
  BY DEF Next, Step, Create, Take, Block, Check, Execute, HandOn, Retry, Return, Fault, Escalate,
         Rethrow, Crash, Stalled, vars, redis
<1> QED
  BY <1>1, <1>2, <1>3

LEMMA EndInitially == Init => EndInv
<1> SUFFICES ASSUME Init PROVE EndInv
  OBVIOUS
<1>1. PipeInv
  BY PipeInitially
<1>2. ToldInv
  BY DEF Init, ToldInv, RunTold, IdleRun
<1>3. HeardInv
  BY DEF Init, HeardInv
<1> QED
  BY <1>1, <1>2, <1>3 DEF EndInv, Init, ResultsInv

LEMMA EndInvKept == EndInv /\ [Next]_vars => EndInv'
<1> SUFFICES ASSUME EndInv, [Next]_vars PROVE EndInv'
  OBVIOUS
<1>1. PipeInv'
  BY PipeInvKept DEF EndInv
<1>2. ResultsInv'
  BY ResultsKept DEF EndInv
<1>3. CASE UNCHANGED vars
  <2>1. UNCHANGED <<unheard, jobs, stored, handed, escalated, run>>
    BY <1>3 DEF vars, redis, memory
  <2>2. Grows /\ StoredGrow
    BY <2>1, CountsUntouched, BecomesGrows DEF EndInv, PipeInv, Grows, StoredGrow
  <2>3. ToldInv'
    BY <2>1, <2>2, ToldKept DEF EndInv
  <2>4. HeardInv'
    BY <1>1, <2>1, <2>2, HeardKept DEF EndInv, Rethrowing
  <2> QED
    BY <1>1, <1>2, <2>3, <2>4 DEF EndInv
<1>4. ASSUME NEW w \in Workers, Step(w) \/ Fault(w) PROVE ToldInv' /\ HeardInv'
  <2>1. ASSUME NEW n \in DOMAIN jobs, Take(w, n) PROVE ToldInv' /\ HeardInv'
    BY <1>1, <2>1, TakeTells
  <2>2. CASE Block(w) \/ Check(w) \/ Execute(w) \/ Settle(w) \/ Fault(w)
    BY <1>1, <2>2, QuietTells
  <2>3. CASE HandOn(w) \/ Retry(w)
    BY <1>1, <2>3, ActingTells
  <2>4. CASE Return(w) \/ Rethrow(w)
    BY <1>1, <2>4, GiveTells
  <2>5. CASE Escalate(w)
    BY <1>1, <2>5, EscalateTells
  <2> QED
    BY <1>4, <2>1, <2>2, <2>3, <2>4, <2>5 DEF Step
<1>5. ASSUME NEW i \in Incidents, Create(i) PROVE ToldInv' /\ HeardInv'
  BY <1>1, <1>5, CreateTells
<1>6. ASSUME NEW n \in DOMAIN jobs, Stalled(n) PROVE ToldInv' /\ HeardInv'
  BY <1>1, <1>6, StalledTells
<1>7. CASE Crash
  <2>1. ToldInv' /\ HeardInv'
    BY <1>1, <1>7, CrashTells
  <2> QED
    BY <1>1, <1>2, <2>1 DEF EndInv
<1>8. CASE Next
  BY <1>1, <1>2, <1>4, <1>5, <1>6, <1>7, <1>8 DEF Next, EndInv
<1> QED
  BY <1>1, <1>3, <1>8

LEMMA EndMeansEscalated == EndInv => FailedMeansEscalated
<1> SUFFICES ASSUME EndInv, NEW n \in DOMAIN jobs, jobs[n].status = "failed",
                    jobs[n].stalls <= MaxStalled
             PROVE  escalated[jobs[n].incident] > 0 \/ unheard[jobs[n].incident] >= MaxAttempts
  BY DEF FailedMeansEscalated
<1>1. jobs[n] \in JobRecord
  BY DEF EndInv, PipeInv, JobsInv
<1>2. jobs[n].attempts \in Nat /\ jobs[n].stalls \in Nat /\ jobs[n].incident \in Incidents
  BY <1>1 DEF JobRecord
<1>3. unheard[jobs[n].incident] \in Nat
  BY <1>2 DEF EndInv, HeardInv
<1>4. jobs[n].attempts >= MaxAttempts
  BY <1>2, PipelineAssumption DEF EndInv, ToldInv, UsedUp
<1>5. Heard(n)
  BY DEF EndInv, HeardInv
<1> QED
  BY <1>2, <1>3, <1>4, <1>5, PipelineAssumption DEF Heard

(* The jobs of an incident have a last one.                                 *)
LEMMA LastJob ==
    ASSUME NEW l \in Nat, NEW M \in SUBSET (1..l), M # {}
    PROVE  \E n \in M : \A m \in M : ~(m > n)
<1> DEFINE D == {l - n : n \in M}
<1>1. D \subseteq Nat /\ D # {}
  <2>1. \A n \in M : l - n \in Nat
    OBVIOUS
  <2> QED
    BY <2>1
<1>2. PICK x \in D : \A y \in D : ~(<<y, x>> \in OpToRel(<, Nat))
  BY <1>1, NatLessThanWellFounded, WFMin
<1>3. PICK n \in M : x = l - n
  OBVIOUS
<1>4. ASSUME NEW m \in M PROVE ~(m > n)
  <2>1. l - m \in D /\ l - m \in Nat /\ x \in Nat
    BY <1>1
  <2>2. ~(l - m < x)
    BY <1>2, <2>1 DEF OpToRel
  <2> QED
    BY <1>3, <2>2
<1> QED
  BY <1>4

(* A job whose stored result was returned has a way on.                     *)
LEMMA RepeatedGoesOn ==
    ASSUME PipeInv, NEW n \in DOMAIN jobs, HasStored(jobs[n])
    PROVE  NextState(jobs[n]) # NoState
<1>1. PICK r \in stored : r.key = Key(jobs[n])
  BY DEF HasStored
<1>2. PICK k \in DOMAIN jobs : r.key = Key(jobs[k]) /\ NextState(jobs[k]) # NoState
  BY DEF PipeInv, StoredInv, StoredOk
<1>3. /\ jobs[n].incident = jobs[k].incident /\ jobs[n].state = jobs[k].state
      /\ jobs[k] \in JobRecord
  BY <1>1, <1>2 DEF Key, PipeInv, JobsInv
<1>4. jobs[k].state # "FIXED"
  BY <1>2, <1>3, NextStates
<1>5. jobs[n].verified = jobs[k].verified
  BY <1>3, <1>4 DEF PipeInv, JobsInv, OneCourse
<1> QED
  BY <1>1, <1>2, <1>5, KeyTells, SameKey

LEMMA EndMeansLosses == EndInv => LossesKnown
<1> SUFFICES ASSUME EndInv, NEW i \in Incidents, Abandoned(i)
             PROVE  \/ unheard[i] >= MaxAttempts
                    \/ \E n \in DOMAIN jobs :
                          /\ jobs[n].incident = i
                          /\ \/ jobs[n].status \in {"blocked", "deadEnd"}
                             \/ jobs[n].stalls > MaxStalled
                             \/ jobs[n].status = "repeated" /\ StoredFailure(jobs[n])
  BY DEF LossesKnown
<1> DEFINE mine == {n \in DOMAIN jobs : jobs[n].incident = i}
           Known == \/ unheard[i] >= MaxAttempts
                    \/ \E n \in DOMAIN jobs :
                          /\ jobs[n].incident = i
                          /\ \/ jobs[n].status \in {"blocked", "deadEnd"}
                             \/ jobs[n].stalls > MaxStalled
                             \/ jobs[n].status = "repeated" /\ StoredFailure(jobs[n])
<1>1. /\ mine # {} /\ \A n \in mine : jobs[n].status \in Final
      /\ \A s \in IncidentState : handed[i][s] = 0
      /\ escalated[i] = 0
  BY DEF Abandoned
<1>2. PICK n \in mine : \A m \in mine : ~(m > n)
  <2>1. Len(jobs) \in Nat /\ DOMAIN jobs = 1..Len(jobs)
    BY DEF EndInv, PipeInv, JobsInv
  <2>2. mine \in SUBSET (1..Len(jobs))
    BY <2>1
  <2> HIDE DEF mine
  <2> QED
    BY <1>1, <2>1, <2>2, LastJob
<1>3. \A m \in mine : /\ m \in DOMAIN jobs /\ jobs[m] \in JobRecord /\ jobs[m].incident = i
                       /\ jobs[m].stalls \in Nat
                       /\ Told(m, jobs[m].status) /\ jobs[m].status \in Final
  <2>1. \A m \in mine : jobs[m] \in JobRecord
    BY DEF EndInv, PipeInv, JobsInv
  <2>2. \A m \in mine : jobs[m].stalls \in Nat
    BY <2>1 DEF JobRecord
  <2> QED
    BY <1>1, <2>1, <2>2 DEF EndInv, ToldInv
<1>4. \A m \in mine : jobs[m].status \in {"blocked", "deadEnd"} => Known
  BY <1>3
<1>5. \A m \in mine : jobs[m].status = "failed" => Known
  <2>1. FailedMeansEscalated
    BY EndMeansEscalated
  <2> QED
    BY <1>1, <1>3, <2>1, PipelineAssumption DEF FailedMeansEscalated
<1>6. jobs[n].status # "failure"
  BY <1>1, <1>2, <1>3 DEF Told, Retried
<1>7. \A m \in mine : jobs[m].state = "FIXED" => Known
  <2> SUFFICES ASSUME NEW m \in mine, jobs[m].state = "FIXED" PROVE Known
    OBVIOUS
  <2>1. NextState(jobs[m]) = NoState
    BY <1>3, NextStates
  <2>2. jobs[m].status \notin {"success", "failure"}
    BY <1>3, <2>1 DEF Told
  <2>3. jobs[m].status # "repeated"
    BY <1>3, <2>1, RepeatedGoesOn DEF Told, EndInv
  <2>4. jobs[m].status \in {"blocked", "deadEnd", "failed"}
    BY <1>3, <2>2, <2>3 DEF Final
  <2> QED
    BY <1>4, <1>5, <2>4
<1>8. HandedOn(jobs[n]) /\ NextState(jobs[n]) # NoState => Known
  <2> SUFFICES ASSUME HandedOn(jobs[n]), NextState(jobs[n]) # NoState PROVE Known
    OBVIOUS
  <2>1. NextState(jobs[n]) \in IncidentState /\ jobs[n].incident = i
    BY <1>3, NextStates
  <2>2. handed[i][NextState(jobs[n])] = 0
    BY <1>1, <2>1
  <2>3. \E m \in DOMAIN jobs : jobs[m].incident = i /\ jobs[m].state = "FIXED"
    BY <2>1, <2>2 DEF HandedOn
  <2> QED
    BY <1>7, <2>3
<1>9. CASE jobs[n].status = "success"
  BY <1>3, <1>8, <1>9 DEF Told
<1>10. CASE jobs[n].status = "repeated"
  <2>1. n \in DOMAIN jobs /\ HasStored(jobs[n])
    BY <1>3, <1>10 DEF Told
  <2>2. NextState(jobs[n]) # NoState
    BY <2>1, RepeatedGoesOn DEF EndInv
  <2>3. PICK r \in stored : r.key = Key(jobs[n])
    BY <2>1 DEF HasStored
  <2>4. PICK key, outcome : r = [key |-> key, outcome |-> outcome]
    BY DEF EndInv, ResultsInv
  <2>5. r.key = key /\ r.outcome = outcome
    BY <2>4
  <2>6. (r.outcome = "success" /\ HandedOn(jobs[n])) \/ r.outcome = "failure"
    BY <2>1, <2>3, PipeInvMeans DEF EndInv, StoredMeansActedOn
  <2>7. CASE r.outcome = "failure"
    <3>1. StoredFailure(jobs[n])
      BY <2>3, <2>4, <2>5, <2>7 DEF StoredFailure
    <3> QED
      BY <1>3, <1>10, <3>1
  <2> QED
    BY <1>8, <2>2, <2>6, <2>7
<1> QED
  BY <1>3, <1>4, <1>5, <1>6, <1>9, <1>10 DEF Final

(***************************************************************************)
(* How often a phase may be asked for.  Everything that may still ask for  *)
(* a phase of incident i is counted: a job that waits, a delivery that a   *)
(* job may still get because it stalled, a run that has not handed on, and *)
(* the job that a failed run is about to add.  A step that adds to them    *)
(* takes one of them away, or something went wrong.                        *)
(***************************************************************************)

Counts(i, n) == jobs[n].incident = i /\ jobs[n].state # "FIXED"
Ahead == {"check", "execute", "act", "escalate", "rethrow"}

WaitingOf(i) == {n \in DOMAIN jobs : Counts(i, n) /\ jobs[n].status = "waiting"}
StallsOf(i) ==
    {n \in DOMAIN jobs : /\ Counts(i, n) /\ jobs[n].status \in {"waiting", "active"}
                         /\ jobs[n].stalls < MaxStalled}
RunsOf(i) == {w \in Workers : run[w].pc \in Ahead /\ Counts(i, run[w].job)}
AgainOf(i) ==
    {w \in Workers : /\ run[w].pc = "act" /\ run[w].outcome = "failure"
                     /\ Counts(i, run[w].job)}

Asks(i, s) ==
    handed[i][s] + Cardinality(WaitingOf(i)) + Cardinality(StallsOf(i))
                 + Cardinality(RunsOf(i)) + Cardinality(AgainOf(i))

(* No job of i can stall unless the lock of a run is lost.                  *)
AllHeld(i) ==
    /\ StallsOf(i) # {}
    /\ \A n \in DOMAIN jobs : Counts(i, n) /\ jobs[n].status = "active" =>
          \E w \in Workers : run[w].pc # "idle" /\ run[w].job = n /\ jobs[n].owner = w

Within(i, s) ==
    \/ Asks(i, s) <= 1 + trouble
    \/ Asks(i, s) <= 2 + trouble /\ AllHeld(i)

HandInv ==
    /\ trouble \in Nat
    /\ \A i \in Incidents, s \in IncidentState :
          Within(i, s) /\ (i \notin created => handed[i][s] = 0)

-----------------------------------------------------------------------------
LEMMA NoMore ==
    ASSUME NEW S, IsFiniteSet(S), NEW T, T \subseteq S
    PROVE  IsFiniteSet(T) /\ Cardinality(T) <= Cardinality(S) + 0
<1>1. Cardinality(S) \in Nat
  BY FS_CardinalityType
<1>2. IsFiniteSet(T) /\ Cardinality(T) <= Cardinality(S)
  BY FS_Subset
<1> QED
  BY <1>1, <1>2

LEMMA OneMore ==
    ASSUME NEW S, IsFiniteSet(S), NEW T, NEW x, T \subseteq S \cup {x}
    PROVE  Cardinality(T) <= Cardinality(S) + 1
<1>1. IsFiniteSet(S \cup {x}) /\ Cardinality(S) \in Nat
      /\ Cardinality(S \cup {x}) <= Cardinality(S) + 1
  <2>1. Cardinality(S) \in Nat
    BY FS_CardinalityType
  <2>2. /\ IsFiniteSet(S \cup {x})
        /\ Cardinality(S \cup {x}) = IF x \in S THEN Cardinality(S) ELSE Cardinality(S) + 1
    BY FS_AddElement
  <2> QED
    BY <2>1, <2>2
<1>2. IsFiniteSet(T) /\ Cardinality(T) <= Cardinality(S \cup {x})
  BY <1>1, FS_Subset
<1>3. Cardinality(T) \in Nat /\ Cardinality(S \cup {x}) \in Nat
  BY <1>1, <1>2, FS_CardinalityType
<1> QED
  BY <1>1, <1>2, <1>3

LEMMA OneLess ==
    ASSUME NEW S, IsFiniteSet(S), NEW T, NEW x \in S, T \subseteq S \ {x}
    PROVE  Cardinality(T) <= Cardinality(S) + (-1)
<1>1. /\ IsFiniteSet(S \ {x}) /\ Cardinality(S) \in Nat
      /\ Cardinality(S \ {x}) = Cardinality(S) - 1
  BY FS_CardinalityType, FS_RemoveElement
<1>2. Cardinality(T) <= Cardinality(S \ {x})
  BY <1>1, FS_Subset
<1> QED
  BY <1>1, <1>2

LEMMA Sizes ==
    ASSUME PipeInv, IsFiniteSet(Workers), NEW i
    PROVE  /\ IsFiniteSet(WaitingOf(i)) /\ IsFiniteSet(StallsOf(i))
           /\ IsFiniteSet(RunsOf(i)) /\ IsFiniteSet(AgainOf(i))
           /\ Cardinality(WaitingOf(i)) \in Nat /\ Cardinality(StallsOf(i)) \in Nat
           /\ Cardinality(RunsOf(i)) \in Nat /\ Cardinality(AgainOf(i)) \in Nat
<1>1. Len(jobs) \in Nat /\ DOMAIN jobs = 1..Len(jobs)
  BY DEF PipeInv, JobsInv
<1>2. IsFiniteSet(DOMAIN jobs)
  BY <1>1, FS_Interval
<1>3. /\ WaitingOf(i) \subseteq DOMAIN jobs /\ StallsOf(i) \subseteq DOMAIN jobs
      /\ RunsOf(i) \subseteq Workers /\ AgainOf(i) \subseteq Workers
  BY DEF WaitingOf, StallsOf, RunsOf, AgainOf
<1>4. /\ IsFiniteSet(WaitingOf(i)) /\ IsFiniteSet(StallsOf(i))
      /\ IsFiniteSet(RunsOf(i)) /\ IsFiniteSet(AgainOf(i))
  BY <1>2, <1>3, FS_Subset
<1> QED
  BY <1>4, FS_CardinalityType

LEMMA SizesNext ==
    ASSUME PipeInv', IsFiniteSet(Workers), NEW i
    PROVE  /\ Cardinality(WaitingOf(i)') \in Nat /\ Cardinality(StallsOf(i)') \in Nat
           /\ Cardinality(RunsOf(i)') \in Nat /\ Cardinality(AgainOf(i)') \in Nat
<1>1. Len(jobs') \in Nat /\ DOMAIN jobs' = 1..Len(jobs')
  BY DEF PipeInv, JobsInv
<1>2. IsFiniteSet(DOMAIN jobs')
  BY <1>1, FS_Interval
<1>3. /\ WaitingOf(i)' \subseteq DOMAIN jobs' /\ StallsOf(i)' \subseteq DOMAIN jobs'
      /\ RunsOf(i)' \subseteq Workers /\ AgainOf(i)' \subseteq Workers
  BY DEF WaitingOf, StallsOf, RunsOf, AgainOf
<1> QED
  BY <1>2, <1>3, FS_Subset, FS_CardinalityType

LEMMA HandedIsNat ==
    ASSUME PipeInv, NEW i \in Incidents, NEW s \in IncidentState
    PROVE  handed[i][s] \in Nat
BY DEF PipeInv, CountsInv

(* Five parts that grow by so much each.                                    *)
LEMMA AsksGrow ==
    ASSUME PipeInv, PipeInv', IsFiniteSet(Workers), NEW i \in Incidents, NEW s \in IncidentState,
           NEW h \in Int, NEW a \in Int, NEW b \in Int, NEW c \in Int, NEW d \in Int,
           handed'[i][s] <= handed[i][s] + h,
           Cardinality(WaitingOf(i)') <= Cardinality(WaitingOf(i)) + a,
           Cardinality(StallsOf(i)') <= Cardinality(StallsOf(i)) + b,
           Cardinality(RunsOf(i)') <= Cardinality(RunsOf(i)) + c,
           Cardinality(AgainOf(i)') <= Cardinality(AgainOf(i)) + d
    PROVE  /\ Asks(i, s) \in Nat /\ Asks(i, s)' \in Nat
           /\ Asks(i, s)' <= Asks(i, s) + (h + a + b + c + d)
<1>1. handed[i][s] \in Nat /\ handed'[i][s] \in Nat
  BY DEF PipeInv, CountsInv
<1> QED
  BY <1>1, Sizes, SizesNext DEF Asks

(* A step after which as much, or one less, may still ask for the phase, as *)
(* went wrong.                                                              *)
LEMMA Weighed ==
    ASSUME HandInv, trouble' = trouble \/ Troubled,
           NEW i \in Incidents, NEW s \in IncidentState, NEW g \in Int,
           Asks(i, s) \in Nat, Asks(i, s)' \in Nat, Asks(i, s)' <= Asks(i, s) + g,
           \/ g <= -1
           \/ g <= 0 /\ Troubled
           \/ g <= 0 /\ (AllHeld(i) => AllHeld(i)')
           \/ g <= 1 /\ Troubled /\ (AllHeld(i) => AllHeld(i)')
    PROVE  Within(i, s)'
<1>1. Within(i, s) /\ trouble \in Nat /\ trouble' \in Nat
  BY DEF HandInv, Troubled
<1>2. CASE Troubled
  <2>1. trouble' = trouble + 1
    BY <1>2 DEF Troubled
  <2> QED
    BY <1>1, <2>1 DEF Within
<1>3. CASE ~Troubled
  <2>1. trouble' = trouble
    BY <1>3
  <2> QED
    BY <1>1, <1>3, <2>1 DEF Within
<1> QED
  BY <1>2, <1>3

(***************************************************************************)
(* The steps                                                               *)
(***************************************************************************)

(* A run goes on with its job.                                              *)
LEMMA GoingHand ==
    ASSUME PipeInv, PipeInv', HandInv, IsFiniteSet(Workers), UNCHANGED <<jobs, handed>>,
           trouble' = trouble \/ Troubled,
           NEW w \in Workers, NEW c, RunBecomes(w, c), run[w].pc # "idle", c.pc # "idle",
           c.job = run[w].job,
           \/ (c.pc \in Ahead => run[w].pc \in Ahead) /\ ~(c.pc = "act" /\ c.outcome = "failure")
           \/ (c.pc \in Ahead => run[w].pc \in Ahead) /\ Troubled
           \/ ~(c.pc = "act" /\ c.outcome = "failure") /\ Troubled,
           NEW i \in Incidents, NEW s \in IncidentState
    PROVE  Within(i, s)'
<1>1. WaitingOf(i)' = WaitingOf(i) /\ StallsOf(i)' = StallsOf(i)
  BY DEF WaitingOf, StallsOf, Counts
<1>2. \A v \in Workers : run'[v] = run[v] \/ (v = w /\ run'[v] = c)
  BY DEF RunBecomes
<1>3. RunsOf(i)' \subseteq RunsOf(i) \cup {w} /\ AgainOf(i)' \subseteq AgainOf(i) \cup {w}
  BY <1>2 DEF RunsOf, AgainOf, Counts
<1>4. (c.pc \in Ahead => run[w].pc \in Ahead) => RunsOf(i)' \subseteq RunsOf(i)
  BY <1>2 DEF RunsOf, Counts
<1>5. ~(c.pc = "act" /\ c.outcome = "failure") => AgainOf(i)' \subseteq AgainOf(i)
  BY <1>2 DEF AgainOf, Counts
<1>6. AllHeld(i) => AllHeld(i)'
  BY <1>1, <1>2 DEF AllHeld, Counts
<1>7. /\ IsFiniteSet(RunsOf(i)) /\ IsFiniteSet(AgainOf(i))
      /\ Cardinality(WaitingOf(i)) \in Nat /\ Cardinality(StallsOf(i)) \in Nat
      /\ Cardinality(RunsOf(i)) \in Nat /\ Cardinality(AgainOf(i)) \in Nat
  BY Sizes
<1>8. /\ Cardinality(RunsOf(i)') <= Cardinality(RunsOf(i)) + 1
      /\ RunsOf(i)' \subseteq RunsOf(i) => Cardinality(RunsOf(i)') <= Cardinality(RunsOf(i)) + 0
  BY <1>3, <1>7, OneMore, NoMore
<1>9. /\ Cardinality(AgainOf(i)') <= Cardinality(AgainOf(i)) + 1
      /\ AgainOf(i)' \subseteq AgainOf(i) => Cardinality(AgainOf(i)') <= Cardinality(AgainOf(i)) + 0
  BY <1>3, <1>7, OneMore, NoMore
<1>10. /\ handed'[i][s] <= handed[i][s] + 0
       /\ Cardinality(WaitingOf(i)') <= Cardinality(WaitingOf(i)) + 0
       /\ Cardinality(StallsOf(i)') <= Cardinality(StallsOf(i)) + 0
  BY <1>1, <1>7, HandedIsNat
<1>11. CASE RunsOf(i)' \subseteq RunsOf(i) /\ AgainOf(i)' \subseteq AgainOf(i)
  <2>1. /\ Asks(i, s) \in Nat /\ Asks(i, s)' \in Nat
        /\ Asks(i, s)' <= Asks(i, s) + (0 + 0 + 0 + 0 + 0)
    BY <1>8, <1>9, <1>10, <1>11, AsksGrow
  <2> QED
    BY <1>6, <2>1, Weighed
<1>12. CASE RunsOf(i)' \subseteq RunsOf(i) /\ Troubled
  <2>1. /\ Asks(i, s) \in Nat /\ Asks(i, s)' \in Nat
        /\ Asks(i, s)' <= Asks(i, s) + (0 + 0 + 0 + 0 + 1)
    BY <1>8, <1>9, <1>10, <1>12, AsksGrow
  <2> QED
    BY <1>6, <1>12, <2>1, Weighed
<1>13. CASE AgainOf(i)' \subseteq AgainOf(i) /\ Troubled
  <2>1. /\ Asks(i, s) \in Nat /\ Asks(i, s)' \in Nat
        /\ Asks(i, s)' <= Asks(i, s) + (0 + 0 + 0 + 1 + 0)
    BY <1>8, <1>9, <1>10, <1>13, AsksGrow
  <2> QED
    BY <1>6, <1>13, <2>1, Weighed
<1> QED
  BY <1>4, <1>5, <1>11, <1>12, <1>13

LEMMA QuietHand ==
    ASSUME PipeInv, PipeInv', HandInv, IsFiniteSet(Workers), NEW w \in Workers,
           Block(w) \/ Check(w) \/ Execute(w) \/ Settle(w) \/ Fault(w) \/ Escalate(w),
           NEW i \in Incidents, NEW s \in IncidentState
    PROVE  Within(i, s)'
<1>1. PICK c : /\ RunBecomes(w, c) /\ c.job = run[w].job
               /\ \/ run[w].pc = "blocked" /\ c.pc = "return"
                  \/ run[w].pc = "check" /\ c.pc \in {"execute", "return"}
                  \/ run[w].pc = "execute" /\ c.pc \in {"return", "escalate"}
                  \/ run[w].pc = "execute" /\ c.pc = "act" /\ c.outcome = "success"
                  \/ run[w].pc = "execute" /\ c.pc = "act" /\ Troubled
                  \/ run[w].pc = "settle" /\ c.pc = "return"
                  \/ run[w].pc \in {"execute", "act", "settle", "blocked"} /\ c.pc = "escalate"
                     /\ Troubled
                  \/ run[w].pc = "escalate" /\ c.pc = "rethrow"
  <2>1. CASE Block(w)
    BY <2>1, BlockDoes
  <2>2. CASE Check(w)
    BY <2>2, CheckDoes
  <2>3. CASE Execute(w)
    BY <2>3, ExecuteDoes
  <2>4. CASE Settle(w)
    BY <2>4, SettleDoes
  <2>5. CASE Fault(w)
    BY <2>5, FaultDoes
  <2>6. CASE Escalate(w)
    BY <2>6, EscalateDoes
  <2> QED
    BY <2>1, <2>2, <2>3, <2>4, <2>5, <2>6
<1>2. UNCHANGED <<jobs, handed>> /\ (trouble' = trouble \/ Troubled)
  <2>1. CASE Block(w) \/ Check(w) \/ Settle(w) \/ Fault(w) \/ Escalate(w)
    BY <2>1, BlockDoes, CheckDoes, SettleDoes, FaultDoes, EscalateDoes
  <2>2. CASE Execute(w)
    BY <2>2, ExecuteDoes
  <2> QED
    BY <2>1, <2>2
<1>3. run[w].pc # "idle" /\ c.pc # "idle"
  BY <1>1
<1>4. \/ (c.pc \in Ahead => run[w].pc \in Ahead) /\ ~(c.pc = "act" /\ c.outcome = "failure")
      \/ (c.pc \in Ahead => run[w].pc \in Ahead) /\ Troubled
      \/ ~(c.pc = "act" /\ c.outcome = "failure") /\ Troubled
  BY <1>1 DEF Ahead
<1> QED
  BY <1>1, <1>2, <1>3, <1>4, GoingHand

LEMMA JobSetHand ==
    ASSUME NEW n \in DOMAIN jobs, NEW d, JobBecomes(n, d), NEW i
    PROVE  /\ \A m \in DOMAIN jobs : Counts(i, m)' <=> Counts(i, m)
           /\ ~Counts(i, n) => WaitingOf(i)' = WaitingOf(i) /\ StallsOf(i)' = StallsOf(i)
           /\ WaitingOf(i)' \subseteq WaitingOf(i) \cup {n}
           /\ d.status # "waiting" => WaitingOf(i)' \subseteq WaitingOf(i) \ {n}
           /\ d.status \notin {"waiting", "active"} \/ ~(d.stalls < MaxStalled)
                 => StallsOf(i)' = StallsOf(i) \ {n}
           /\ /\ jobs[n].status \in {"waiting", "active"} /\ d.stalls = jobs[n].stalls
              /\ d.status \in {"waiting", "active"}
              => StallsOf(i)' = StallsOf(i)
<1>1. /\ DOMAIN jobs' = DOMAIN jobs /\ jobs'[n] = d
      /\ \A m \in DOMAIN jobs \ {n} : jobs'[m] = jobs[m]
  BY DEF JobBecomes
<1>2. \A m \in DOMAIN jobs : Counts(i, m)' <=> Counts(i, m)
  BY <1>1 DEF JobBecomes, Same, Counts
<1>3. ~Counts(i, n) => WaitingOf(i)' = WaitingOf(i) /\ StallsOf(i)' = StallsOf(i)
  BY <1>1, <1>2 DEF WaitingOf, StallsOf
<1>4. /\ WaitingOf(i)' \subseteq WaitingOf(i) \cup {n}
      /\ d.status # "waiting" => WaitingOf(i)' \subseteq WaitingOf(i) \ {n}
  BY <1>1, <1>2 DEF WaitingOf
<1>5. d.status \notin {"waiting", "active"} \/ ~(d.stalls < MaxStalled)
         => StallsOf(i)' = StallsOf(i) \ {n}
  BY <1>1, <1>2 DEF StallsOf
<1>6. /\ jobs[n].status \in {"waiting", "active"} /\ d.stalls = jobs[n].stalls
      /\ d.status \in {"waiting", "active"}
      => StallsOf(i)' = StallsOf(i)
  BY <1>1, <1>2 DEF StallsOf
<1> QED
  BY <1>2, <1>3, <1>4, <1>5, <1>6

LEMMA JobComesHand ==
    ASSUME NEW d, JobComes(d), NEW i, NEW l, l = Len(jobs) + 1
    PROVE  /\ \A m \in DOMAIN jobs : Counts(i, m)' <=> Counts(i, m)
           /\ WaitingOf(i)' \subseteq WaitingOf(i) \cup {l}
           /\ StallsOf(i)' \subseteq StallsOf(i) \cup {l}
           /\ StallsOf(i) \subseteq StallsOf(i)'
           /\ d.incident # i \/ d.state = "FIXED" =>
                 WaitingOf(i)' \subseteq WaitingOf(i) /\ StallsOf(i)' \subseteq StallsOf(i)
<1>1. /\ DOMAIN jobs' = DOMAIN jobs \cup {l} /\ jobs'[l] = d
      /\ \A m \in DOMAIN jobs : jobs'[m] = jobs[m]
  BY DEF JobComes
<1>2. \A m \in DOMAIN jobs : Counts(i, m)' <=> Counts(i, m)
  BY <1>1 DEF Counts
<1>3. /\ WaitingOf(i)' \subseteq WaitingOf(i) \cup {l}
      /\ StallsOf(i)' \subseteq StallsOf(i) \cup {l}
      /\ StallsOf(i) \subseteq StallsOf(i)'
  BY <1>1, <1>2 DEF WaitingOf, StallsOf
<1>4. d.incident # i \/ d.state = "FIXED" =>
         WaitingOf(i)' \subseteq WaitingOf(i) /\ StallsOf(i)' \subseteq StallsOf(i)
  <2>1. d.incident # i \/ d.state = "FIXED" => ~Counts(i, l)'
    BY <1>1 DEF Counts
  <2> QED
    BY <1>1, <1>2, <2>1 DEF WaitingOf, StallsOf
<1> QED
  BY <1>2, <1>3, <1>4

LEMMA RunsHand ==
    ASSUME PipeInv, NEW w \in Workers, NEW c, RunBecomes(w, c), NEW i,
           \A m \in DOMAIN jobs : Counts(i, m)' <=> Counts(i, m)
    PROVE  /\ RunsOf(i)' \subseteq RunsOf(i) \cup {w}
           /\ c.pc \notin Ahead => RunsOf(i)' \subseteq RunsOf(i) \ {w}
           /\ c.job \in DOMAIN jobs /\ ~Counts(i, c.job) => RunsOf(i)' \subseteq RunsOf(i) \ {w}
           /\ ~(c.pc = "act" /\ c.outcome = "failure") => AgainOf(i)' \subseteq AgainOf(i) \ {w}
<1>1. \A v \in Workers : IF v = w THEN run'[v] = c ELSE run'[v] = run[v]
  BY DEF RunBecomes
<1>2. \A v \in Workers : run[v].pc # "idle" => run[v].job \in DOMAIN jobs
  BY DEF PipeInv, RunsInv, RunOk
<1>3. /\ RunsOf(i)' \subseteq RunsOf(i) \cup {w}
      /\ c.pc \notin Ahead => RunsOf(i)' \subseteq RunsOf(i) \ {w}
      /\ c.job \in DOMAIN jobs /\ ~Counts(i, c.job) => RunsOf(i)' \subseteq RunsOf(i) \ {w}
  <2>1. ASSUME NEW v \in Workers, v # w, run'[v].pc \in Ahead, Counts(i, run[v].job)'
        PROVE  v \in RunsOf(i)
    <3>1. run'[v] = run[v] /\ run[v].pc # "idle"
      BY <1>1, <2>1 DEF Ahead
    <3>2. Counts(i, run[v].job)
      <4>1. PICK m \in DOMAIN jobs : m = run[v].job
        BY <1>2, <3>1
      <4>2. Counts(i, m)'
        BY <2>1, <3>1, <4>1 DEF Counts
      <4> QED
        BY <4>1, <4>2
    <3> QED
      BY <2>1, <3>1, <3>2 DEF RunsOf
  <2>2. \A v \in RunsOf(i)' : v \in Workers /\ run'[v].pc \in Ahead /\ Counts(i, run[v].job)'
    BY DEF RunsOf
  <2>3. RunsOf(i)' \subseteq RunsOf(i) \cup {w}
    BY <2>1, <2>2
  <2>4. c.pc \notin Ahead => w \notin RunsOf(i)'
    BY <1>1, <2>2
  <2>5. c.job \in DOMAIN jobs /\ ~Counts(i, c.job) => w \notin RunsOf(i)'
    <3> SUFFICES ASSUME c.job \in DOMAIN jobs, ~Counts(i, c.job) PROVE w \notin RunsOf(i)'
      OBVIOUS
    <3>1. PICK m \in DOMAIN jobs : m = c.job
      OBVIOUS
    <3>2. ~Counts(i, m)'
      BY <3>1
    <3>3. ~Counts(i, run[w].job)'
      BY <1>1, <3>1, <3>2 DEF Counts
    <3> QED
      BY <2>2, <3>3
  <2> QED
    BY <2>3, <2>4, <2>5
<1>4. ~(c.pc = "act" /\ c.outcome = "failure") => AgainOf(i)' \subseteq AgainOf(i) \ {w}
  <2> SUFFICES ASSUME ~(c.pc = "act" /\ c.outcome = "failure"), NEW v \in AgainOf(i)'
               PROVE  v \in AgainOf(i) \ {w}
    OBVIOUS
  <2>1. v \in Workers /\ run'[v].pc = "act" /\ run'[v].outcome = "failure" /\ Counts(i, run[v].job)'
    BY DEF AgainOf
  <2>2. v # w /\ run'[v] = run[v] /\ run[v].pc # "idle"
    BY <1>1, <2>1
  <2>3. PICK m \in DOMAIN jobs : m = run[v].job
    BY <1>2, <2>1, <2>2
  <2>4. Counts(i, m)'
    BY <2>1, <2>2, <2>3 DEF Counts
  <2> QED
    BY <2>1, <2>2, <2>3, <2>4 DEF AgainOf
<1> QED
  BY <1>3, <1>4

LEMMA TakeHand ==
    ASSUME PipeInv, PipeInv', HandInv, IsFiniteSet(Workers), NEW w \in Workers,
           NEW n \in DOMAIN jobs, Take(w, n), NEW i \in Incidents, NEW s \in IncidentState
    PROVE  Within(i, s)'
<1>1. run[w].pc = "idle" /\ jobs[n].status = "waiting" /\ UNCHANGED <<handed, trouble>>
  BY TakeDoes
<1>2. PICK d : /\ JobBecomes(n, d) /\ d.status = "active" /\ d.owner = w
               /\ d.stalls = jobs[n].stalls
  BY TakeDoes
<1>3. PICK c : RunBecomes(w, c) /\ c.pc \in {"check", "blocked"} /\ c.job = n
  BY TakeDoes
<1>4. /\ IsFiniteSet(WaitingOf(i)) /\ IsFiniteSet(StallsOf(i))
      /\ IsFiniteSet(RunsOf(i)) /\ IsFiniteSet(AgainOf(i))
  BY Sizes
<1>5. StallsOf(i)' = StallsOf(i) /\ \A m \in DOMAIN jobs : Counts(i, m)' <=> Counts(i, m)
  BY <1>1, <1>2, JobSetHand
<1>6. AgainOf(i)' \subseteq AgainOf(i) /\ RunsOf(i)' \subseteq RunsOf(i) \cup {w}
      /\ (~Counts(i, n) => RunsOf(i)' \subseteq RunsOf(i))
  BY <1>3, <1>5, RunsHand
<1>7. AllHeld(i) => AllHeld(i)'
  <2> SUFFICES ASSUME AllHeld(i) PROVE AllHeld(i)'
    OBVIOUS
  <2>1. ASSUME NEW m \in DOMAIN jobs', Counts(i, m)', jobs'[m].status = "active"
        PROVE  \E v \in Workers : run'[v].pc # "idle" /\ run'[v].job = m /\ jobs'[m].owner = v
    <3>1. CASE m = n
      BY <1>2, <1>3, <3>1 DEF JobBecomes, RunBecomes
    <3>2. CASE m # n
      <4>1. m \in DOMAIN jobs /\ jobs'[m] = jobs[m]
        BY <1>2, <2>1, <3>2 DEF JobBecomes
      <4>2. PICK v \in Workers : run[v].pc # "idle" /\ run[v].job = m /\ jobs[m].owner = v
        BY <1>5, <2>1, <4>1 DEF AllHeld
      <4>3. run'[v] = run[v]
        BY <1>1, <1>3, <4>2 DEF RunBecomes
      <4> QED
        BY <4>1, <4>2, <4>3
    <3> QED
      BY <3>1, <3>2
  <2> QED
    BY <1>5, <2>1 DEF AllHeld
<1>8. /\ handed'[i][s] <= handed[i][s] + 0
      /\ Cardinality(StallsOf(i)') <= Cardinality(StallsOf(i)) + 0
      /\ Cardinality(AgainOf(i)') <= Cardinality(AgainOf(i)) + 0
  BY <1>1, <1>4, <1>5, <1>6, NoMore, HandedIsNat
<1>9. CASE Counts(i, n)
  <2>1. n \in WaitingOf(i) /\ WaitingOf(i)' \subseteq WaitingOf(i) \ {n}
    BY <1>1, <1>2, <1>9, JobSetHand DEF WaitingOf
  <2>2. Cardinality(WaitingOf(i)') <= Cardinality(WaitingOf(i)) + (-1)
    BY <1>4, <2>1, OneLess
  <2>3. Cardinality(RunsOf(i)') <= Cardinality(RunsOf(i)) + 1
    BY <1>4, <1>6, OneMore
  <2>4. /\ Asks(i, s) \in Nat /\ Asks(i, s)' \in Nat
        /\ Asks(i, s)' <= Asks(i, s) + (0 + (-1) + 0 + 1 + 0)
    BY <1>8, <2>2, <2>3, AsksGrow
  <2> QED
    BY <1>1, <1>7, <2>4, Weighed
<1>10. CASE ~Counts(i, n)
  <2>1. WaitingOf(i)' \subseteq WaitingOf(i)
    BY <1>2, <1>10, JobSetHand
  <2>2. /\ Cardinality(WaitingOf(i)') <= Cardinality(WaitingOf(i)) + 0
        /\ Cardinality(RunsOf(i)') <= Cardinality(RunsOf(i)) + 0
    BY <1>4, <1>6, <1>10, <2>1, NoMore
  <2>3. /\ Asks(i, s) \in Nat /\ Asks(i, s)' \in Nat
        /\ Asks(i, s)' <= Asks(i, s) + (0 + 0 + 0 + 0 + 0)
    BY <1>8, <2>2, AsksGrow
  <2> QED
    BY <1>1, <1>7, <2>3, Weighed
<1> QED
  BY <1>9, <1>10

(* Jobs that stay, and runs that go on with theirs, are held as before.     *)
LEMMA HeldStays ==
    ASSUME JobsInv, NEW i, AllHeld(i), StallsOf(i)' # {},
           \A n \in DOMAIN jobs' :
              \/ jobs'[n].status # "active"
              \/ n \in DOMAIN jobs /\ jobs'[n] = jobs[n],
           NEW w \in Workers, NEW c, RunBecomes(w, c),
           \/ c.pc # "idle" /\ c.job = run[w].job
           \/ \A n \in DOMAIN jobs' :
                 jobs'[n].status = "active" /\ run[w].job = n => jobs'[n].owner # w
    PROVE  AllHeld(i)'
<1>1. ASSUME NEW m \in DOMAIN jobs', Counts(i, m)', jobs'[m].status = "active"
      PROVE  \E v \in Workers : run'[v].pc # "idle" /\ run'[v].job = m /\ jobs'[m].owner = v
  <2>1. m \in DOMAIN jobs /\ jobs'[m] = jobs[m] /\ Counts(i, m)
    BY <1>1 DEF Counts
  <2>2. PICK v \in Workers : run[v].pc # "idle" /\ run[v].job = m /\ jobs[m].owner = v
    BY <1>1, <2>1 DEF AllHeld
  <2>3. CASE v = w
    BY <1>1, <2>1, <2>2, <2>3 DEF RunBecomes
  <2>4. CASE v # w
    BY <2>1, <2>2, <2>4 DEF RunBecomes
  <2> QED
    BY <2>3, <2>4
<1> QED
  BY <1>1 DEF AllHeld

LEMMA HandOnHand ==
    ASSUME PipeInv, PipeInv', HandInv, IsFiniteSet(Workers), NEW w \in Workers, HandOn(w),
           NEW i \in Incidents, NEW s \in IncidentState
    PROVE  Within(i, s)'
<1>1. PICK n \in DOMAIN jobs : n = run[w].job
  BY HandOnDoes
<1>2. run[w].pc = "act" /\ UNCHANGED trouble
  BY HandOnDoes
<1>3. PICK c : RunBecomes(w, c) /\ c.pc = "settle" /\ c.job = n
  BY <1>1, HandOnDoes
<1>4. jobs[n].state # "FIXED" /\ jobs[n].incident \in Incidents
  BY <1>1, <1>2, ActingRun DEF At, Job
<1>5. /\ IsFiniteSet(WaitingOf(i)) /\ IsFiniteSet(StallsOf(i))
      /\ IsFiniteSet(RunsOf(i)) /\ IsFiniteSet(AgainOf(i))
  BY Sizes
<1>6. /\ \A m \in DOMAIN jobs : Counts(i, m)' <=> Counts(i, m)
      /\ WaitingOf(i)' \subseteq WaitingOf(i) /\ StallsOf(i)' = StallsOf(i)
      /\ \A m \in DOMAIN jobs' : \/ jobs'[m].status # "active"
                                 \/ m \in DOMAIN jobs /\ jobs'[m] = jobs[m]
  <2>1. CASE UNCHANGED jobs
    BY <2>1 DEF WaitingOf, StallsOf, Counts
  <2>2. CASE \E d : JobComes(d) /\ d.state = "FIXED"
    <3>1. PICK d : JobComes(d) /\ d.state = "FIXED"
      BY <2>2
    <3>2. \A m \in DOMAIN jobs' : \/ jobs'[m].status # "active"
                                  \/ m \in DOMAIN jobs /\ jobs'[m] = jobs[m]
      BY <3>1 DEF JobComes
    <3>3. PICK l : l = Len(jobs) + 1
      OBVIOUS
    <3>4. \A m \in DOMAIN jobs : Counts(i, m)' <=> Counts(i, m)
      BY <3>1, <3>3, JobComesHand
    <3>5. /\ WaitingOf(i)' \subseteq WaitingOf(i) /\ StallsOf(i)' \subseteq StallsOf(i)
          /\ StallsOf(i) \subseteq StallsOf(i)'
      BY <3>1, <3>3, JobComesHand
    <3> QED
      BY <3>2, <3>4, <3>5
  <2> QED
    BY <2>1, <2>2, HandOnDoes
<1>7. AgainOf(i)' \subseteq AgainOf(i) /\ RunsOf(i)' \subseteq RunsOf(i) \ {w}
  BY <1>3, <1>6, RunsHand DEF Ahead
<1>8. AllHeld(i) => AllHeld(i)'
  <2>1. AllHeld(i) => StallsOf(i)' # {}
    BY <1>6 DEF AllHeld
  <2>2. c.pc # "idle" /\ c.job = run[w].job
    BY <1>1, <1>3
  <2> QED
    BY <1>3, <1>6, <2>1, <2>2, HeldStays DEF PipeInv
<1>9. /\ Cardinality(WaitingOf(i)') <= Cardinality(WaitingOf(i)) + 0
      /\ Cardinality(StallsOf(i)') <= Cardinality(StallsOf(i)) + 0
      /\ Cardinality(AgainOf(i)') <= Cardinality(AgainOf(i)) + 0
  BY <1>5, <1>6, <1>7, NoMore
<1>10. CASE jobs[n].incident = i
  <2>1. w \in RunsOf(i)
    BY <1>1, <1>2, <1>4, <1>10 DEF RunsOf, Ahead, Counts
  <2>2. Cardinality(RunsOf(i)') <= Cardinality(RunsOf(i)) + (-1)
    BY <1>5, <1>7, <2>1, OneLess
  <2>3. handed'[i][s] <= handed[i][s] + 1
    <3>1. handed[i][s] \in Nat /\ handed \in [Incidents -> [IncidentState -> Nat]]
      BY HandedIsNat DEF PipeInv, CountsInv
    <3>2. CASE UNCHANGED handed
      BY <3>1, <3>2
    <3>3. CASE handed' = [handed EXCEPT ![jobs[n].incident][NextState(jobs[n])] = @ + 1]
      BY <1>4, <3>1, <3>3
    <3> QED
      BY <1>1, <3>2, <3>3, HandOnDoes
  <2>4. /\ Asks(i, s) \in Nat /\ Asks(i, s)' \in Nat
        /\ Asks(i, s)' <= Asks(i, s) + (1 + 0 + 0 + (-1) + 0)
    BY <1>9, <2>2, <2>3, AsksGrow
  <2> QED
    BY <1>2, <1>8, <2>4, Weighed
<1>11. CASE jobs[n].incident # i
  <2>1. Cardinality(RunsOf(i)') <= Cardinality(RunsOf(i)) + 0
    BY <1>5, <1>7, NoMore
  <2>2. handed'[i][s] <= handed[i][s] + 0
    <3>1. handed[i][s] \in Nat /\ handed \in [Incidents -> [IncidentState -> Nat]]
      BY HandedIsNat DEF PipeInv, CountsInv
    <3>2. CASE UNCHANGED handed
      BY <3>1, <3>2
    <3>3. CASE handed' = [handed EXCEPT ![jobs[n].incident][NextState(jobs[n])] = @ + 1]
      BY <1>4, <1>11, <3>1, <3>3
    <3> QED
      BY <1>1, <3>2, <3>3, HandOnDoes
  <2>3. /\ Asks(i, s) \in Nat /\ Asks(i, s)' \in Nat
        /\ Asks(i, s)' <= Asks(i, s) + (0 + 0 + 0 + 0 + 0)
    BY <1>9, <2>1, <2>2, AsksGrow
  <2> QED
    BY <1>2, <1>8, <2>3, Weighed
<1> QED
  BY <1>10, <1>11

LEMMA RetryHand ==
    ASSUME PipeInv, PipeInv', HandInv, IsFiniteSet(Workers), NEW w \in Workers, Retry(w),
           NEW i \in Incidents, NEW s \in IncidentState
    PROVE  Within(i, s)'
<1>1. PICK n \in DOMAIN jobs : n = run[w].job
  BY RetryDoes
<1>2. run[w].pc = "act" /\ run[w].outcome = "failure" /\ UNCHANGED <<trouble, handed>>
  BY RetryDoes
<1>3. PICK c : RunBecomes(w, c) /\ c.pc = "settle" /\ c.job = n
  BY <1>1, RetryDoes
<1>4. jobs[n].state # "FIXED"
  BY <1>1, <1>2, ActingRun DEF At, Job
<1>5. /\ IsFiniteSet(WaitingOf(i)) /\ IsFiniteSet(StallsOf(i))
      /\ IsFiniteSet(RunsOf(i)) /\ IsFiniteSet(AgainOf(i))
  BY Sizes
<1>6. PICK l : l = Len(jobs) + 1
  OBVIOUS
<1>7. /\ \A m \in DOMAIN jobs : Counts(i, m)' <=> Counts(i, m)
      /\ WaitingOf(i)' \subseteq WaitingOf(i) \cup {l}
      /\ StallsOf(i)' \subseteq StallsOf(i) \cup {l} /\ StallsOf(i) \subseteq StallsOf(i)'
      /\ jobs[n].incident # i =>
            WaitingOf(i)' \subseteq WaitingOf(i) /\ StallsOf(i)' \subseteq StallsOf(i)
      /\ \A m \in DOMAIN jobs' : \/ jobs'[m].status # "active"
                                 \/ m \in DOMAIN jobs /\ jobs'[m] = jobs[m]
  <2>1. CASE UNCHANGED jobs
    BY <2>1 DEF WaitingOf, StallsOf, Counts
  <2>2. CASE \E d : JobComes(d) /\ d.incident = jobs[n].incident
    <3>1. PICK d : JobComes(d) /\ d.incident = jobs[n].incident
      BY <2>2
    <3>2. \A m \in DOMAIN jobs' : \/ jobs'[m].status # "active"
                                  \/ m \in DOMAIN jobs /\ jobs'[m] = jobs[m]
      BY <3>1 DEF JobComes
    <3> QED
      BY <1>6, <3>1, <3>2, JobComesHand
  <2> QED
    BY <1>1, <2>1, <2>2, RetryDoes
<1>8. AgainOf(i)' \subseteq AgainOf(i) \ {w} /\ RunsOf(i)' \subseteq RunsOf(i) \ {w}
  BY <1>3, <1>7, RunsHand DEF Ahead
<1>9. AllHeld(i) => AllHeld(i)'
  <2>1. AllHeld(i) => StallsOf(i)' # {}
    BY <1>7 DEF AllHeld
  <2>2. c.pc # "idle" /\ c.job = run[w].job
    BY <1>1, <1>3
  <2> QED
    BY <1>3, <1>7, <2>1, <2>2, HeldStays DEF PipeInv
<1>10. handed'[i][s] <= handed[i][s] + 0
  BY <1>2, HandedIsNat
<1>11. CASE jobs[n].incident = i
  <2>1. w \in RunsOf(i) /\ w \in AgainOf(i)
    BY <1>1, <1>2, <1>4, <1>11 DEF RunsOf, AgainOf, Ahead, Counts
  <2>2. /\ Cardinality(RunsOf(i)') <= Cardinality(RunsOf(i)) + (-1)
        /\ Cardinality(AgainOf(i)') <= Cardinality(AgainOf(i)) + (-1)
    BY <1>5, <1>8, <2>1, OneLess
  <2>3. /\ Cardinality(WaitingOf(i)') <= Cardinality(WaitingOf(i)) + 1
        /\ Cardinality(StallsOf(i)') <= Cardinality(StallsOf(i)) + 1
    BY <1>5, <1>7, OneMore
  <2>4. /\ Asks(i, s) \in Nat /\ Asks(i, s)' \in Nat
        /\ Asks(i, s)' <= Asks(i, s) + (0 + 1 + 1 + (-1) + (-1))
    BY <1>10, <2>2, <2>3, AsksGrow
  <2> QED
    BY <1>2, <1>9, <2>4, Weighed
<1>12. CASE jobs[n].incident # i
  <2>1. /\ Cardinality(RunsOf(i)') <= Cardinality(RunsOf(i)) + 0
        /\ Cardinality(AgainOf(i)') <= Cardinality(AgainOf(i)) + 0
        /\ Cardinality(WaitingOf(i)') <= Cardinality(WaitingOf(i)) + 0
        /\ Cardinality(StallsOf(i)') <= Cardinality(StallsOf(i)) + 0
    BY <1>5, <1>7, <1>8, <1>12, NoMore
  <2>2. /\ Asks(i, s) \in Nat /\ Asks(i, s)' \in Nat
        /\ Asks(i, s)' <= Asks(i, s) + (0 + 0 + 0 + 0 + 0)
    BY <1>10, <2>1, AsksGrow
  <2> QED
    BY <1>2, <1>9, <2>2, Weighed
<1> QED
  BY <1>11, <1>12

LEMMA GiveHand ==
    ASSUME PipeInv, PipeInv', AllFit, HandInv, IsFiniteSet(Workers), NEW w \in Workers,
           Return(w) \/ Rethrow(w), NEW i \in Incidents, NEW s \in IncidentState
    PROVE  Within(i, s)'
<1>1. UNCHANGED <<trouble, handed>> /\ RunBecomes(w, IdleRun) /\ run[w].job \in DOMAIN jobs
  BY ReturnDoes, RethrowDoes
<1>2. PICK n \in DOMAIN jobs : n = run[w].job
  BY <1>1
<1>3. IdleRun.pc = "idle"
  BY DEF IdleRun
<1>4. \/ UNCHANGED jobs /\ jobs[n].owner # w
      \/ /\ jobs[n].owner = w
         /\ \E d : /\ JobBecomes(n, d) /\ d.owner = NoOne
                   /\ \/ d.status \in Final /\ (run[w].pc = "rethrow" => d.status = "failed")
                      \/ d.status = "waiting" /\ d.stalls = jobs[n].stalls /\ run[w].pc = "rethrow"
  <2>1. CASE Return(w)
    <3>1. run[w].outcome \in Final /\ run[w].pc = "return"
      BY <2>1, ReturnDoes DEF PipeInv, RunsInv, RunOk, RunRecord
    <3> QED
      BY <1>2, <2>1, <3>1, ReturnDoes
  <2>2. CASE Rethrow(w)
    <3>1. "failed" \in Final
      BY DEF Final
    <3> QED
      BY <1>2, <2>2, <3>1, RethrowDoes
  <2> QED
    BY <2>1, <2>2
<1>5. /\ IsFiniteSet(WaitingOf(i)) /\ IsFiniteSet(StallsOf(i))
      /\ IsFiniteSet(RunsOf(i)) /\ IsFiniteSet(AgainOf(i))
  BY Sizes
<1>6. \A m \in DOMAIN jobs : Counts(i, m)' <=> Counts(i, m)
  BY <1>4, JobSetHand DEF Counts
<1>7. AgainOf(i)' \subseteq AgainOf(i) /\ RunsOf(i)' \subseteq RunsOf(i) \ {w}
  <2>1. IdleRun.pc \notin Ahead /\ IdleRun.pc # "act"
    BY <1>3 DEF Ahead
  <2> QED
    BY <1>1, <1>6, <2>1, RunsHand
<1>8. /\ handed'[i][s] <= handed[i][s] + 0
      /\ Cardinality(AgainOf(i)') <= Cardinality(AgainOf(i)) + 0
      /\ Cardinality(RunsOf(i)') <= Cardinality(RunsOf(i)) + 0
  BY <1>1, <1>5, <1>7, NoMore, HandedIsNat
<1>9. run[w].pc = "rethrow" /\ Counts(i, n) =>
         Cardinality(RunsOf(i)') <= Cardinality(RunsOf(i)) + (-1)
  <2>1. run[w].pc = "rethrow" /\ Counts(i, n) => w \in RunsOf(i)
    BY <1>2 DEF RunsOf, Ahead
  <2> QED
    BY <1>5, <1>7, <2>1, OneLess
<1>10. CASE UNCHANGED jobs /\ jobs[n].owner # w
  <2>1. WaitingOf(i)' = WaitingOf(i) /\ StallsOf(i)' = StallsOf(i)
    BY <1>10 DEF WaitingOf, StallsOf, Counts
  <2>2. /\ Cardinality(WaitingOf(i)') <= Cardinality(WaitingOf(i)) + 0
        /\ Cardinality(StallsOf(i)') <= Cardinality(StallsOf(i)) + 0
    BY <1>5, <2>1, NoMore
  <2>3. AllHeld(i) => AllHeld(i)'
    <3>1. AllHeld(i) => StallsOf(i)' # {}
      BY <2>1 DEF AllHeld
    <3>2. \A m \in DOMAIN jobs' :
             jobs'[m].status = "active" /\ run[w].job = m => jobs'[m].owner # w
      BY <1>2, <1>10
    <3> QED
      BY <1>1, <1>10, <3>1, <3>2, HeldStays DEF PipeInv
  <2>4. /\ Asks(i, s) \in Nat /\ Asks(i, s)' \in Nat
        /\ Asks(i, s)' <= Asks(i, s) + (0 + 0 + 0 + 0 + 0)
    BY <1>8, <2>2, AsksGrow
  <2> QED
    BY <1>1, <2>3, <2>4, Weighed
<1>11. ASSUME NEW d, JobBecomes(n, d), d.owner = NoOne, jobs[n].owner = w,
              \/ d.status \in Final /\ (run[w].pc = "rethrow" => d.status = "failed")
              \/ d.status = "waiting" /\ d.stalls = jobs[n].stalls /\ run[w].pc = "rethrow"
       PROVE  Within(i, s)'
  <2>1. jobs[n].status = "active"
    BY <1>11, WorkersAssumption DEF AllFit, JobFits
  <2>2. \A m \in DOMAIN jobs' : m \in DOMAIN jobs /\ (jobs'[m] = jobs[m] \/ (m = n /\ jobs'[m] = d))
    BY <1>11 DEF JobBecomes
  <2>3. d.status \in {"waiting"} \cup Final /\ d.status # "active"
    BY <1>11 DEF Final
  <2>4. (StallsOf(i)' # {} /\ AllHeld(i)) => AllHeld(i)'
    <3>1. \A m \in DOMAIN jobs' : \/ jobs'[m].status # "active"
                                  \/ m \in DOMAIN jobs /\ jobs'[m] = jobs[m]
      BY <2>2, <2>3
    <3>2. \A m \in DOMAIN jobs' :
             jobs'[m].status = "active" /\ run[w].job = m => jobs'[m].owner # w
      BY <1>2, <1>11, <2>2, <2>3 DEF JobBecomes
    <3> QED
      BY <1>1, <3>1, <3>2, HeldStays DEF PipeInv
  <2>5. CASE ~Counts(i, n)
    <3>1. WaitingOf(i)' = WaitingOf(i) /\ StallsOf(i)' = StallsOf(i)
      BY <1>11, <2>5, JobSetHand
    <3>2. /\ Cardinality(WaitingOf(i)') <= Cardinality(WaitingOf(i)) + 0
          /\ Cardinality(StallsOf(i)') <= Cardinality(StallsOf(i)) + 0
      BY <1>5, <3>1, NoMore
    <3>3. /\ Asks(i, s) \in Nat /\ Asks(i, s)' \in Nat
          /\ Asks(i, s)' <= Asks(i, s) + (0 + 0 + 0 + 0 + 0)
      BY <1>8, <3>2, AsksGrow
    <3>4. AllHeld(i) => AllHeld(i)'
      BY <2>4, <3>1 DEF AllHeld
    <3> QED
      BY <1>1, <3>3, <3>4, Weighed
  <2>6. CASE Counts(i, n) /\ d.status = "waiting"
    <3>1. d.stalls = jobs[n].stalls /\ run[w].pc = "rethrow"
      BY <1>11, <2>6 DEF Final
    <3>2. StallsOf(i)' = StallsOf(i) /\ WaitingOf(i)' \subseteq WaitingOf(i) \cup {n}
      BY <1>11, <2>1, <2>6, <3>1, JobSetHand
    <3>3. /\ Cardinality(WaitingOf(i)') <= Cardinality(WaitingOf(i)) + 1
          /\ Cardinality(StallsOf(i)') <= Cardinality(StallsOf(i)) + 0
      BY <1>5, <3>2, OneMore, NoMore
    <3>4. /\ Asks(i, s) \in Nat /\ Asks(i, s)' \in Nat
          /\ Asks(i, s)' <= Asks(i, s) + (0 + 1 + 0 + (-1) + 0)
      BY <1>8, <1>9, <2>6, <3>1, <3>3, AsksGrow
    <3>5. AllHeld(i) => AllHeld(i)'
      BY <2>4, <3>2 DEF AllHeld
    <3> QED
      BY <1>1, <3>4, <3>5, Weighed
  <2>7. CASE d.status # "waiting"
    <3>1. d.status \notin {"waiting", "active"}
      BY <2>3, <2>7
    <3>2. StallsOf(i)' = StallsOf(i) \ {n} /\ WaitingOf(i)' \subseteq WaitingOf(i)
      BY <1>11, <3>1, JobSetHand
    <3>3. /\ Cardinality(WaitingOf(i)') <= Cardinality(WaitingOf(i)) + 0
          /\ Cardinality(StallsOf(i)') <= Cardinality(StallsOf(i)) + 0
      BY <1>5, <3>2, NoMore
    <3>4. CASE n \in StallsOf(i)
      <4>1. Cardinality(StallsOf(i)') <= Cardinality(StallsOf(i)) + (-1)
        BY <1>5, <3>2, <3>4, OneLess
      <4>2. /\ Asks(i, s) \in Nat /\ Asks(i, s)' \in Nat
            /\ Asks(i, s)' <= Asks(i, s) + (0 + 0 + (-1) + 0 + 0)
        BY <1>8, <3>3, <4>1, AsksGrow
      <4> QED
        BY <1>1, <4>2, Weighed
    <3>5. CASE n \notin StallsOf(i)
      <4>1. AllHeld(i) => AllHeld(i)'
        BY <2>4, <3>2, <3>5 DEF AllHeld
      <4>2. /\ Asks(i, s) \in Nat /\ Asks(i, s)' \in Nat
            /\ Asks(i, s)' <= Asks(i, s) + (0 + 0 + 0 + 0 + 0)
        BY <1>8, <3>3, AsksGrow
      <4> QED
        BY <1>1, <4>1, <4>2, Weighed
    <3> QED
      BY <3>4, <3>5
  <2> QED
    BY <2>5, <2>6, <2>7
<1> QED
  BY <1>4, <1>10, <1>11

LEMMA RunsUnmoved ==
    ASSUME PipeInv, UNCHANGED run, NEW i, \A m \in DOMAIN jobs : Counts(i, m)' <=> Counts(i, m)
    PROVE  RunsOf(i)' = RunsOf(i) /\ AgainOf(i)' = AgainOf(i)
<1>1. \A v \in Workers : run[v].pc # "idle" => (Counts(i, run[v].job)' <=> Counts(i, run[v].job))
  <2> SUFFICES ASSUME NEW v \in Workers, run[v].pc # "idle"
               PROVE  Counts(i, run[v].job)' <=> Counts(i, run[v].job)
    OBVIOUS
  <2>1. PICK m \in DOMAIN jobs : m = run[v].job
    BY DEF PipeInv, RunsInv, RunOk
  <2>2. (Counts(i, m)' <=> Counts(i, m)) /\ run'[v].job = m
    BY <2>1
  <2> QED
    BY <2>1, <2>2 DEF Counts
<1> QED
  BY <1>1 DEF RunsOf, AgainOf, Ahead

(* A job that stalls is delivered once more: its lock was lost, or nobody   *)
(* held it any more.                                                        *)
LEMMA StalledHand ==
    ASSUME PipeInv, PipeInv', HandInv, IsFiniteSet(Workers), MaxStalled <= 1,
           NEW n \in DOMAIN jobs, Stalled(n), NEW i \in Incidents, NEW s \in IncidentState
    PROVE  Within(i, s)'
<1>1. UNCHANGED <<handed, run>> /\ jobs[n].status = "active" /\ (trouble' = trouble \/ Troubled)
  BY StalledDoes
<1>2. PICK d : /\ JobBecomes(n, d) /\ d.owner = NoOne /\ d.stalls = jobs[n].stalls + 1
               /\ \/ d.status = "waiting" /\ jobs[n].stalls < MaxStalled
                  \/ d.status = "failed" /\ d.stalls > MaxStalled
  BY StalledDoes
<1>3. jobs[n].stalls \in Nat /\ MaxStalled \in Nat
  <2>1. jobs[n] \in JobRecord
    BY DEF PipeInv, JobsInv
  <2> QED
    BY <2>1, PipelineAssumption DEF JobRecord
<1>4. /\ IsFiniteSet(WaitingOf(i)) /\ IsFiniteSet(StallsOf(i))
      /\ IsFiniteSet(RunsOf(i)) /\ IsFiniteSet(AgainOf(i))
  BY Sizes
<1>5. /\ \A m \in DOMAIN jobs : Counts(i, m)' <=> Counts(i, m)
      /\ StallsOf(i)' \subseteq StallsOf(i) \ {n}
  <2>1. ~(d.stalls < MaxStalled)
    BY <1>2, <1>3
  <2> QED
    BY <1>2, <2>1, JobSetHand
<1>6. RunsOf(i)' = RunsOf(i) /\ AgainOf(i)' = AgainOf(i)
  BY <1>1, <1>5, RunsUnmoved
<1>7. /\ handed'[i][s] <= handed[i][s] + 0
      /\ Cardinality(StallsOf(i)') <= Cardinality(StallsOf(i)) + 0
      /\ Cardinality(RunsOf(i)') <= Cardinality(RunsOf(i)) + 0
      /\ Cardinality(AgainOf(i)') <= Cardinality(AgainOf(i)) + 0
  BY <1>1, <1>4, <1>5, <1>6, NoMore, HandedIsNat
<1>8. /\ Asks(i, s) \in Nat /\ Asks(i, s)' \in Nat
      /\ Asks(i, s)' <= Asks(i, s) + 0
  <2>1. CASE Counts(i, n) /\ d.status = "waiting"
    <3>1. n \in StallsOf(i)
      BY <1>1, <1>2, <2>1 DEF StallsOf
    <3>2. Cardinality(StallsOf(i)') <= Cardinality(StallsOf(i)) + (-1)
      BY <1>4, <1>5, <3>1, OneLess
    <3>3. WaitingOf(i)' \subseteq WaitingOf(i) \cup {n}
      BY <1>2, JobSetHand
    <3>4. Cardinality(WaitingOf(i)') <= Cardinality(WaitingOf(i)) + 1
      BY <1>4, <3>3, OneMore
    <3>5. /\ Asks(i, s) \in Nat /\ Asks(i, s)' \in Nat
          /\ Asks(i, s)' <= Asks(i, s) + (0 + 1 + (-1) + 0 + 0)
      BY <1>7, <3>2, <3>4, AsksGrow
    <3> QED
      BY <3>5
  <2>2. CASE ~(Counts(i, n) /\ d.status = "waiting")
    <3>1. WaitingOf(i)' \subseteq WaitingOf(i)
      BY <1>2, <2>2, JobSetHand
    <3>2. Cardinality(WaitingOf(i)') <= Cardinality(WaitingOf(i)) + 0
      BY <1>4, <3>1, NoMore
    <3>3. /\ Asks(i, s) \in Nat /\ Asks(i, s)' \in Nat
          /\ Asks(i, s)' <= Asks(i, s) + (0 + 0 + 0 + 0 + 0)
      BY <1>7, <3>2, AsksGrow
    <3> QED
      BY <3>3
  <2> QED
    BY <2>1, <2>2
<1>9. Troubled \/ (AllHeld(i) => AllHeld(i)')
  <2> SUFFICES ASSUME ~Troubled, AllHeld(i) PROVE AllHeld(i)'
    OBVIOUS
  <2>1. \A w \in Workers : ~(run[w].job = n /\ jobs[n].owner = w)
    BY StalledDoes
  <2>2. ~Counts(i, n)
    BY <1>1, <2>1 DEF AllHeld
  <2>3. StallsOf(i)' = StallsOf(i)
    BY <1>2, <2>2, JobSetHand
  <2>4. ASSUME NEW m \in DOMAIN jobs', Counts(i, m)', jobs'[m].status = "active"
        PROVE  \E v \in Workers : run'[v].pc # "idle" /\ run'[v].job = m /\ jobs'[m].owner = v
    <3>1. m \in DOMAIN jobs
      BY <1>2, <2>4 DEF JobBecomes
    <3>2. Counts(i, m) /\ m # n
      BY <1>5, <2>2, <2>4, <3>1
    <3>3. jobs'[m] = jobs[m]
      BY <1>2, <3>1, <3>2 DEF JobBecomes
    <3> QED
      BY <1>1, <2>4, <3>1, <3>2, <3>3 DEF AllHeld
  <2> QED
    BY <2>3, <2>4 DEF AllHeld
<1> QED
  BY <1>1, <1>8, <1>9, Weighed

LEMMA CreateHand ==
    ASSUME PipeInv, PipeInv', HandInv, IsFiniteSet(Workers), NEW j \in Incidents, Create(j),
           NEW i \in Incidents, NEW s \in IncidentState
    PROVE  Within(i, s)'
<1>1. /\ UNCHANGED <<handed, run>> /\ j \notin created /\ (trouble' = trouble \/ Troubled)
      /\ UNCHANGED jobs \/ \E d : JobComes(d) /\ d.incident = j
  BY CreateDoes
<1>2. /\ IsFiniteSet(WaitingOf(i)) /\ IsFiniteSet(StallsOf(i))
      /\ IsFiniteSet(RunsOf(i)) /\ IsFiniteSet(AgainOf(i))
  BY Sizes
<1>3. PICK l : l = Len(jobs) + 1
  OBVIOUS
<1>4. /\ \A m \in DOMAIN jobs : Counts(i, m)' <=> Counts(i, m)
      /\ WaitingOf(i)' \subseteq WaitingOf(i) \cup {l}
      /\ StallsOf(i)' \subseteq StallsOf(i) \cup {l} /\ StallsOf(i) \subseteq StallsOf(i)'
      /\ i # j => WaitingOf(i)' \subseteq WaitingOf(i) /\ StallsOf(i)' \subseteq StallsOf(i)
      /\ \A m \in DOMAIN jobs' : \/ jobs'[m].status # "active"
                                 \/ m \in DOMAIN jobs /\ jobs'[m] = jobs[m]
  <2>1. CASE UNCHANGED jobs
    BY <2>1 DEF WaitingOf, StallsOf, Counts
  <2>2. CASE \E d : JobComes(d) /\ d.incident = j
    <3>1. PICK d : JobComes(d) /\ d.incident = j
      BY <2>2
    <3>2. \A m \in DOMAIN jobs' : \/ jobs'[m].status # "active"
                                  \/ m \in DOMAIN jobs /\ jobs'[m] = jobs[m]
      BY <3>1 DEF JobComes
    <3> QED
      BY <1>3, <3>1, <3>2, JobComesHand
  <2> QED
    BY <1>1, <2>1, <2>2
<1>5. RunsOf(i)' = RunsOf(i) /\ AgainOf(i)' = AgainOf(i)
  BY <1>1, <1>4, RunsUnmoved
<1>6. /\ handed'[i][s] <= handed[i][s] + 0
      /\ Cardinality(RunsOf(i)') <= Cardinality(RunsOf(i)) + 0
      /\ Cardinality(AgainOf(i)') <= Cardinality(AgainOf(i)) + 0
  BY <1>1, <1>2, <1>5, NoMore, HandedIsNat
<1>7. CASE i # j
  <2>1. /\ Cardinality(WaitingOf(i)') <= Cardinality(WaitingOf(i)) + 0
        /\ Cardinality(StallsOf(i)') <= Cardinality(StallsOf(i)) + 0
    BY <1>2, <1>4, <1>7, NoMore
  <2>2. /\ Asks(i, s) \in Nat /\ Asks(i, s)' \in Nat
        /\ Asks(i, s)' <= Asks(i, s) + (0 + 0 + 0 + 0 + 0)
    BY <1>6, <2>1, AsksGrow
  <2>3. AllHeld(i) => AllHeld(i)'
    BY <1>1, <1>4 DEF AllHeld
  <2> QED
    BY <1>1, <2>2, <2>3, Weighed
<1>8. CASE i = j
  <2>1. \A m \in DOMAIN jobs : jobs[m].incident # i
    BY <1>1, <1>8 DEF PipeInv, JobsInv
  <2>2. \A v \in Workers : run[v].pc # "idle" => run[v].job \in DOMAIN jobs
    BY DEF PipeInv, RunsInv, RunOk
  <2>3. WaitingOf(i) = {} /\ StallsOf(i) = {} /\ RunsOf(i) = {} /\ AgainOf(i) = {}
    BY <2>1, <2>2 DEF WaitingOf, StallsOf, RunsOf, AgainOf, Counts, Ahead
  <2>4. /\ Cardinality(WaitingOf(i)) = 0 /\ Cardinality(StallsOf(i)) = 0
        /\ Cardinality(RunsOf(i)) = 0 /\ Cardinality(AgainOf(i)) = 0
    BY <2>3, FS_EmptySet
  <2>5. handed[i][s] = 0
    BY <1>1, <1>8 DEF HandInv
  <2>6. Asks(i, s) = 0
    BY <2>4, <2>5 DEF Asks
  <2>7. trouble' \in Nat
    BY <1>1 DEF HandInv, Troubled
  <2>8. Cardinality(WaitingOf(i)') <= Cardinality(WaitingOf(i)) + 1
    BY <1>2, <1>4, OneMore
  <2>9. CASE StallsOf(i)' = {}
    <3>1. Cardinality(StallsOf(i)') <= Cardinality(StallsOf(i)) + 0
      BY <1>2, <2>9, NoMore
    <3>2. /\ Asks(i, s)' \in Nat /\ Asks(i, s)' <= Asks(i, s) + (0 + 1 + 0 + 0 + 0)
      BY <1>6, <2>8, <3>1, AsksGrow
    <3> QED
      BY <2>6, <2>7, <3>2 DEF Within
  <2>10. CASE StallsOf(i)' # {}
    <3>1. Cardinality(StallsOf(i)') <= Cardinality(StallsOf(i)) + 1
      BY <1>2, <1>4, OneMore
    <3>2. /\ Asks(i, s)' \in Nat /\ Asks(i, s)' <= Asks(i, s) + (0 + 1 + 1 + 0 + 0)
      BY <1>6, <2>8, <3>1, AsksGrow
    <3>3. AllHeld(i)'
      <4>1. \A m \in DOMAIN jobs' : Counts(i, m)' => jobs'[m].status # "active"
        BY <1>4, <2>1 DEF Counts
      <4> QED
        BY <2>10, <4>1 DEF AllHeld
    <3> QED
      BY <2>6, <2>7, <3>2, <3>3 DEF Within
  <2> QED
    BY <2>9, <2>10
<1> QED
  BY <1>7, <1>8

LEMMA CrashHand ==
    ASSUME PipeInv, PipeInv', HandInv, IsFiniteSet(Workers), Crash,
           NEW i \in Incidents, NEW s \in IncidentState
    PROVE  Within(i, s)'
<1>1. /\ UNCHANGED <<jobs, handed>> /\ Troubled
      /\ \A w \in Workers : run'[w].pc = "idle"
  BY CrashDoes
<1>2. /\ WaitingOf(i)' = WaitingOf(i) /\ StallsOf(i)' = StallsOf(i)
      /\ RunsOf(i)' \subseteq RunsOf(i) /\ AgainOf(i)' \subseteq AgainOf(i)
  BY <1>1 DEF WaitingOf, StallsOf, RunsOf, AgainOf, Counts, Ahead
<1>3. /\ IsFiniteSet(WaitingOf(i)) /\ IsFiniteSet(StallsOf(i))
      /\ IsFiniteSet(RunsOf(i)) /\ IsFiniteSet(AgainOf(i))
  BY Sizes
<1>4. /\ handed'[i][s] <= handed[i][s] + 0
      /\ Cardinality(WaitingOf(i)') <= Cardinality(WaitingOf(i)) + 0
      /\ Cardinality(StallsOf(i)') <= Cardinality(StallsOf(i)) + 0
      /\ Cardinality(RunsOf(i)') <= Cardinality(RunsOf(i)) + 0
      /\ Cardinality(AgainOf(i)') <= Cardinality(AgainOf(i)) + 0
  BY <1>1, <1>2, <1>3, NoMore, HandedIsNat
<1>5. /\ Asks(i, s) \in Nat /\ Asks(i, s)' \in Nat
      /\ Asks(i, s)' <= Asks(i, s) + (0 + 0 + 0 + 0 + 0)
  BY <1>4, AsksGrow
<1> QED
  BY <1>1, <1>5, Weighed

LEMMA NothingHand ==
    ASSUME PipeInv, PipeInv', HandInv, UNCHANGED <<jobs, handed, run, trouble>>,
           NEW i \in Incidents, NEW s \in IncidentState
    PROVE  Within(i, s)'
<1>1. Within(i, s)
  BY DEF HandInv
<1> QED
  BY <1>1 DEF Within, Asks, AllHeld, WaitingOf, StallsOf, RunsOf, AgainOf, Counts

LEMMA HandInitially == Init /\ IsFiniteSet(Workers) => HandInv
<1> SUFFICES ASSUME Init, IsFiniteSet(Workers), NEW i \in Incidents, NEW s \in IncidentState
             PROVE  Within(i, s) /\ handed[i][s] = 0
  BY DEF HandInv, Init
<1>1. trouble = 0 /\ handed[i][s] = 0 /\ jobs = <<>> /\ \A w \in Workers : run[w].pc = "idle"
  BY DEF Init, IdleRun
<1>2. WaitingOf(i) = {} /\ StallsOf(i) = {} /\ RunsOf(i) = {} /\ AgainOf(i) = {}
  BY <1>1 DEF WaitingOf, StallsOf, RunsOf, AgainOf, Ahead
<1>3. /\ Cardinality(WaitingOf(i)) = 0 /\ Cardinality(StallsOf(i)) = 0
      /\ Cardinality(RunsOf(i)) = 0 /\ Cardinality(AgainOf(i)) = 0
  BY <1>2, FS_EmptySet
<1>4. Asks(i, s) = 0
  BY <1>1, <1>3 DEF Asks
<1> QED
  BY <1>1, <1>4 DEF Within

(* Nothing is handed on for an incident that does not exist.                *)
LEMMA NotCreatedNotHanded ==
    ASSUME PipeInv, HandInv, [Next]_vars, NEW i \in Incidents, NEW s \in IncidentState,
           i \notin created'
    PROVE  handed'[i][s] = 0
<1>1. created \subseteq created'
  <2>1. ASSUME NEW j \in Incidents, Create(j) PROVE created \subseteq created'
    BY <2>1, CreateDoes
  <2> QED
    BY <2>1 DEF Next, Step, Take, Block, Check, Execute, HandOn, Retry, Settle, Return, Fault,
                Escalate, Rethrow, Crash, Stalled, vars
<1>2. i \notin created /\ handed[i][s] = 0
  BY <1>1 DEF HandInv
<1>3. ASSUME NEW w \in Workers, HandOn(w) PROVE handed'[i][s] = 0
  <2>1. Job(w).incident \in created /\ Job(w) = jobs[run[w].job]
    BY <1>3, ActingRun DEF HandOn
  <2>2. handed \in [Incidents -> [IncidentState -> Nat]]
    BY DEF PipeInv, CountsInv
  <2>3. PICK j \in created : j = jobs[run[w].job].incident
    BY <2>1
  <2>4. j # i /\ j \in Incidents
    BY <1>2, <2>3 DEF PipeInv, JobsInv
  <2>5. PICK t : t = NextState(jobs[run[w].job])
    OBVIOUS
  <2>6. UNCHANGED handed \/ (t \in IncidentState /\ handed' = [handed EXCEPT ![j][t] = @ + 1])
    BY <1>3, <2>3, <2>5, HandOnDoes
  <2> QED
    BY <1>2, <2>2, <2>4, <2>6
<1>4. UNCHANGED handed \/ \E w \in Workers : HandOn(w)
  <2>1. ASSUME NEW j \in Incidents, Create(j) PROVE UNCHANGED handed
    BY <2>1, CreateDoes
  <2> QED
    BY <2>1 DEF Next, Step, Take, Block, Check, Execute, Retry, Settle, Return, Fault,
                Escalate, Rethrow, Crash, Stalled, vars, redis
<1> QED
  BY <1>2, <1>3, <1>4

LEMMA TroubleCounts == trouble \in Nat /\ [Next]_vars => trouble' \in Nat
<1> SUFFICES ASSUME trouble \in Nat, [Next]_vars PROVE trouble' \in Nat
  OBVIOUS
<1>1. trouble' = trouble \/ Troubled
  BY DEF Next, Step, Create, Take, Block, Check, Execute, HandOn, Retry, Settle, Return, Fault,
         Escalate, Rethrow, Crash, Stalled, vars
<1> QED
  BY <1>1 DEF Troubled

LEMMA HandInvKept ==
    ASSUME WholeInv, WholeInv', HandInv, [Next]_vars, IsFiniteSet(Workers), MaxStalled <= 1
    PROVE  HandInv'
<1> SUFFICES ASSUME NEW i \in Incidents, NEW s \in IncidentState
             PROVE  Within(i, s)'
  BY NotCreatedNotHanded, TroubleCounts DEF HandInv, WholeInv
<1>1. PipeInv /\ PipeInv' /\ AllFit
  BY DEF WholeInv, LoopInv
<1>2. CASE UNCHANGED vars
  <2>1. UNCHANGED <<jobs, handed, run, trouble>>
    BY <1>2 DEF vars, redis, memory
  <2> QED
    BY <1>1, <2>1, NothingHand
<1>3. ASSUME NEW w \in Workers, Step(w) \/ Fault(w) PROVE Within(i, s)'
  <2>1. ASSUME NEW n \in DOMAIN jobs, Take(w, n) PROVE Within(i, s)'
    BY <1>1, <2>1, TakeHand
  <2>2. CASE Block(w) \/ Check(w) \/ Execute(w) \/ Settle(w) \/ Fault(w) \/ Escalate(w)
    BY <1>1, <2>2, QuietHand
  <2>3. CASE HandOn(w)
    BY <1>1, <2>3, HandOnHand
  <2>4. CASE Retry(w)
    BY <1>1, <2>4, RetryHand
  <2>5. CASE Return(w) \/ Rethrow(w)
    BY <1>1, <2>5, GiveHand
  <2> QED
    BY <1>3, <2>1, <2>2, <2>3, <2>4, <2>5 DEF Step
<1>4. ASSUME NEW j \in Incidents, Create(j) PROVE Within(i, s)'
  BY <1>1, <1>4, CreateHand
<1>5. ASSUME NEW n \in DOMAIN jobs, Stalled(n) PROVE Within(i, s)'
  BY <1>1, <1>5, StalledHand
<1>6. CASE Crash
  BY <1>1, <1>6, CrashHand
<1> QED
  BY <1>2, <1>3, <1>4, <1>5, <1>6 DEF Next

LEMMA HandInvMeans == WholeInv /\ HandInv /\ IsFiniteSet(Workers) => HandoversBounded
<1> SUFFICES ASSUME WholeInv, HandInv, IsFiniteSet(Workers),
                    NEW i \in Incidents, NEW s \in IncidentState
             PROVE  handed[i][s] <= 1 + trouble
  BY DEF HandoversBounded
<1>1. PipeInv /\ trouble \in Nat /\ Within(i, s)
  BY DEF WholeInv, HandInv
<1>2. /\ handed[i][s] \in Nat /\ IsFiniteSet(StallsOf(i))
      /\ Cardinality(WaitingOf(i)) \in Nat /\ Cardinality(StallsOf(i)) \in Nat
      /\ Cardinality(RunsOf(i)) \in Nat /\ Cardinality(AgainOf(i)) \in Nat
  BY <1>1, HandedIsNat, Sizes
<1>3. AllHeld(i) => Cardinality(StallsOf(i)) # 0
  BY <1>2, FS_EmptySet DEF AllHeld
<1> QED
  BY <1>1, <1>2, <1>3 DEF Within, Asks

(* A job that used up its attempts has escalated its incident at one of      *)
(* them, unless the escalation could not be added at any: the catch block    *)
(* escalates before it throws on, and only a run that holds the lock uses    *)
(* up an attempt.                                                            *)
THEOREM FailedJobsAreEscalated == Spec => []FailedMeansEscalated
<1> QED
  BY EndInitially, EndInvKept, EndMeansEscalated, PTL DEF Spec

(* An incident that was given up is one whose site was flapping, whose state *)
(* has no way on, whose job stalled too often, whose retry was answered with *)
(* the stored failure, or whose escalations were all lost.                   *)
THEOREM LossesAreKnown == Spec => []LossesKnown
<1> QED
  BY EndInitially, EndInvKept, EndMeansLosses, PTL DEF Spec

(* The queue, the jobs, the statistics and the runs always have their        *)
(* types: a job is tried MaxAttempts times at most, stalls once more than    *)
(* it may, and carries fewer fix attempts than the incident allows.          *)
THEOREM PipelineTypeHolds == Spec => []TypeOK
<1>1. WholeInv /\ EndInv => TypeOK
  BY WholeInvMeans DEF EndInv, HeardInv
<1> QED
  BY <1>1, WholeInitially, WholeInvKept, EndInitially, EndInvKept, PTL DEF Spec

(* With BullMQ's own maxStalledCount, which the queue leaves at 1, a phase   *)
(* is asked for once and once more at most for every fault, refusal, lost    *)
(* lock and crash: no redelivery and no second run repeats it by itself.     *)
THEOREM HandoversAreBounded ==
    ASSUME IsFiniteSet(Workers), MaxStalled <= 1
    PROVE  Spec => []HandoversBounded
<1>1. Init => WholeInv /\ HandInv
  BY WholeInitially, HandInitially
<1>2. (WholeInv /\ HandInv) /\ [Next]_vars => (WholeInv /\ HandInv)'
  BY WholeInvKept, HandInvKept
<1>3. WholeInv /\ HandInv => HandoversBounded
  BY HandInvMeans
<1> QED
  BY <1>1, <1>2, <1>3, PTL DEF Spec

(***************************************************************************)
(* Who is stopped by the cooldown.  The time is within one window, so that *)
(* a clean-up changes nothing, and the count of the site is at most the    *)
(* incidents that were created.                                            *)
(***************************************************************************)

Still(s) == s.first <= Window /\ s.cooldown # 0
Enough == Cardinality(created) >= MaxIncidentsPerWindow

FullInv ==
    /\ IsFiniteSet(created)
    /\ Still(stats) /\ stats.count <= Cardinality(created)
    /\ InCooldown(stats) => Enough
    /\ BlockedAtMaximum

LEMMA StillStays ==
    ASSUME NEW s \in StatsType, Still(s)
    PROVE  /\ Still(Checked(s)) /\ Checked(s).count = s.count
           /\ InCooldown(Checked(s)) \/ ~Allowed(s) =>
                InCooldown(s) \/ s.count >= MaxIncidentsPerWindow
           /\ Still(Recorded(s)) /\ Recorded(s).count = s.count + 1
           /\ InCooldown(Recorded(s)) => InCooldown(s)
           /\ \A ok \in BOOLEAN : /\ Still(Resolved(s, ok)) /\ Resolved(s, ok).count <= s.count
                                  /\ InCooldown(Resolved(s, ok)) => InCooldown(s)
<1> USE FlappingAssumption
<1>1. s.count \in Nat /\ s.first \in Nat /\ s.last \in Nat /\ s.cooldown \in Int
      /\ s.isFlapping \in BOOLEAN /\ s.shouldEscalate \in BOOLEAN
  BY DEF StatsType
<1>2. CleanUp(s) = s
  <2>1. SlideWindow(s) = s
    BY DEF Still, SlideWindow
  <2> QED
    BY <2>1 DEF Still, CleanUp, ExpireCooldown
<1>3. /\ Still(Checked(s)) /\ Checked(s).count = s.count
      /\ InCooldown(Checked(s)) \/ ~Allowed(s) =>
           InCooldown(s) \/ s.count >= MaxIncidentsPerWindow
  <2>1. CASE InCooldown(s) \/ s.count < MaxIncidentsPerWindow
    BY <1>2, <2>1 DEF Checked, Allowed
  <2>2. CASE ~(InCooldown(s) \/ s.count < MaxIncidentsPerWindow)
    <3>1. PICK b : b = (s.shouldEscalate \/ s.count >= EscalationThreshold)
      OBVIOUS
    <3>2. Checked(s) = [count |-> s.count, first |-> s.first, last |-> s.last, cooldown |-> Window,
                        isFlapping |-> TRUE, shouldEscalate |-> b]
      BY <1>2, <2>2, <3>1 DEF Checked
    <3> QED
      BY <1>1, <2>2, <3>2 DEF Still
  <2> QED
    BY <2>1, <2>2
<1>4. /\ Still(Recorded(s)) /\ Recorded(s).count = s.count + 1
      /\ InCooldown(Recorded(s)) => InCooldown(s)
  <2>1. PICK r : r = Recorded(s)
    OBVIOUS
  <2>2. r.count = s.count + 1 /\ r.cooldown = s.cooldown /\ (r.first = 0 \/ r.first = s.first)
    BY <1>2, <2>1 DEF Recorded
  <2> QED
    BY <1>1, <2>1, <2>2 DEF Still, InCooldown
<1>5. ASSUME NEW ok \in BOOLEAN
      PROVE  /\ Still(Resolved(s, ok)) /\ Resolved(s, ok).count <= s.count
             /\ InCooldown(Resolved(s, ok)) => InCooldown(s)
  <2>1. PICK k \in Int : k = s.count - 1
    BY <1>1
  <2>2. Resolved(s, ok) = s \/ Resolved(s, ok) = [s EXCEPT !.count = k]
    BY <2>1 DEF Resolved
  <2>3. PICK r : r = [s EXCEPT !.count = k]
    OBVIOUS
  <2>4. r.count = k /\ r.first = s.first /\ r.cooldown = s.cooldown
    BY <2>3 DEF StatsType
  <2>5. PICK q : q = Resolved(s, ok)
    OBVIOUS
  <2>6. q.count <= s.count /\ q.first = s.first /\ q.cooldown = s.cooldown
    <3>1. s.count <= s.count /\ k <= s.count
      BY <1>1, <2>1
    <3>2. q = s \/ q = r
      BY <2>2, <2>3, <2>5
    <3>3. CASE q = s
      BY <3>1, <3>3
    <3>4. CASE q = r
      BY <2>4, <3>1, <3>4
    <3> QED
      BY <3>2, <3>3, <3>4
  <2> QED
    BY <2>5, <2>6 DEF Still, InCooldown
<1> QED
  BY <1>3, <1>4, <1>5

LEMMA FullInitially == Init => FullInv
<1> SUFFICES ASSUME Init PROVE FullInv
  OBVIOUS
<1>1. IsFiniteSet(created) /\ Cardinality(created) = 0
  BY FS_EmptySet DEF Init
<1>2. Still(stats) /\ stats.count = 0 /\ ~InCooldown(stats)
  BY FlappingAssumption DEF Init, FreshStats, Still, InCooldown, NoTime
<1>3. jobs = <<>>
  BY DEF Init
<1> QED
  BY <1>1, <1>2, <1>3 DEF FullInv, BlockedAtMaximum

(* What a step does to the statistics and to the blocked jobs.              *)
StatsStep ==
    \/ UNCHANGED stats \/ stats' = Checked(stats) \/ stats' = FreshStats
    \/ \E ok \in BOOLEAN : stats' = Resolved(stats, ok)

BlockedStays ==
    \A n \in DOMAIN jobs' :
       jobs'[n].status = "blocked" =>
          Enough \/ (n \in DOMAIN jobs /\ jobs[n].status = "blocked")

LEMMA FullStep ==
    ASSUME WholeInv, FullInv, UNCHANGED created, StatsStep, BlockedStays
    PROVE  FullInv'
<1>1. stats \in StatsType /\ Cardinality(created) \in Nat /\ stats.count \in Nat
  BY FS_CardinalityType DEF WholeInv, MemoryInv, FullInv, StatsType
<1>2. /\ Still(stats') /\ stats'.count <= Cardinality(created)
      /\ InCooldown(stats') => Enough
  <2>1. CASE UNCHANGED stats
    BY <2>1 DEF FullInv, InCooldown, Still
  <2>2. CASE stats' = Checked(stats)
    BY <1>1, <2>2, StillStays, FlappingAssumption DEF FullInv, Enough
  <2>3. CASE stats' = FreshStats
    BY <1>1, <2>3, FlappingAssumption DEF FreshStats, Still, InCooldown, NoTime
  <2>4. ASSUME NEW ok \in BOOLEAN, stats' = Resolved(stats, ok)
        PROVE  /\ Still(stats') /\ stats'.count <= Cardinality(created)
               /\ InCooldown(stats') => Enough
    <3>1. Still(stats') /\ stats'.count <= stats.count /\ (InCooldown(stats') => InCooldown(stats))
      BY <1>1, <2>4, StillStays DEF FullInv
    <3>2. stats' \in StatsType
      BY <1>1, <2>4, ResolvedKeeps
    <3>3. stats'.count \in Nat
      BY <3>2 DEF StatsType
    <3> QED
      BY <1>1, <3>1, <3>3 DEF FullInv
  <2> QED
    BY <2>1, <2>2, <2>3, <2>4 DEF StatsStep
<1>3. BlockedAtMaximum'
  BY DEF BlockedAtMaximum, BlockedStays, FullInv, Enough
<1>4. Still(stats)' /\ (InCooldown(stats) => Enough)'
  BY <1>2 DEF Still, InCooldown, Enough
<1> QED
  BY <1>2, <1>3, <1>4 DEF FullInv

(* No step of a run creates an incident, and the run that finishes its job  *)
(* as blocked was blocked in a cooldown that is still running.              *)
LEMMA FullRuns ==
    ASSUME WholeInv, FullInv, NEW w \in Workers, Step(w) \/ Fault(w)
    PROVE  UNCHANGED created /\ StatsStep /\ BlockedStays
<1>1. PipeInv
  BY DEF WholeInv
<1>2. UNCHANGED jobs => BlockedStays
  BY DEF BlockedStays
<1>3. ASSUME NEW n, NEW d, JobBecomes(n, d), d.status = "blocked" => Enough
      PROVE  BlockedStays
  BY <1>3 DEF BlockedStays, JobBecomes
<1>4. ASSUME NEW d, JobComes(d) PROVE BlockedStays
  BY <1>4 DEF BlockedStays, JobComes
<1>5. UNCHANGED created /\ StatsStep
  <2>1. ASSUME NEW n \in DOMAIN jobs, Take(w, n) PROVE UNCHANGED created /\ StatsStep
    BY <2>1 DEF Take, StatsStep
  <2>2. CASE Block(w) \/ Check(w)
    BY <2>2 DEF Block, Check, StatsStep
  <2>3. CASE Execute(w)
    <3>1. UNCHANGED <<created, stats>>
      BY <2>3, ZenonT(30) DEF Execute
    <3> QED
      BY <3>1 DEF StatsStep
  <2>4. CASE HandOn(w) \/ Retry(w)
    <3>1. UNCHANGED created /\ (stats' = Resolved(stats, TRUE) \/ stats' = Resolved(stats, FALSE))
      BY <2>4 DEF HandOn, Retry
    <3> QED
      BY <3>1 DEF StatsStep
  <2>5. CASE Settle(w) \/ Return(w) \/ Rethrow(w) \/ Escalate(w)
    BY <2>5 DEF Settle, Return, Rethrow, Escalate, StatsStep
  <2>6. CASE Fault(w)
    <3>1. UNCHANGED created /\ stats' = Resolved(stats, FALSE)
      BY <2>6 DEF Fault
    <3> QED
      BY <3>1 DEF StatsStep
  <2> QED
    BY <2>1, <2>2, <2>3, <2>4, <2>5, <2>6 DEF Step
<1>6. BlockedStays
  <2>1. ASSUME NEW n \in DOMAIN jobs, Take(w, n) PROVE BlockedStays
    <3>1. PICK d : JobBecomes(n, d) /\ d.status = "active"
      BY <1>1, <2>1, TakeDoes
    <3> QED
      BY <1>3, <3>1
  <2>2. CASE Block(w) \/ Check(w) \/ Execute(w) \/ Settle(w) \/ Fault(w) \/ Escalate(w)
    BY <1>1, <1>2, <2>2, BlockDoes, CheckDoes, ExecuteDoes, SettleDoes, FaultDoes, EscalateDoes
  <2>3. CASE HandOn(w)
    BY <1>1, <1>2, <1>4, <2>3, HandOnDoes
  <2>4. CASE Retry(w)
    BY <1>1, <1>2, <1>4, <2>4, RetryDoes
  <2>5. CASE Return(w)
    <3>1. run[w].outcome = "blocked" => Enough
      <4>1. run[w].pc = "return"
        BY <1>1, <2>5, ReturnDoes
      <4> QED
        BY <4>1 DEF WasBlocked, WholeInv, LoopInv, FullInv
    <3>2. CASE UNCHANGED jobs
      BY <1>2, <3>2
    <3>3. CASE \E d : JobBecomes(run[w].job, d) /\ d.status = run[w].outcome
      <4>1. PICK d : JobBecomes(run[w].job, d) /\ d.status = run[w].outcome
        BY <3>3
      <4> QED
        BY <1>3, <3>1, <4>1
    <3> QED
      BY <1>1, <2>5, <3>2, <3>3, ReturnDoes
  <2>6. CASE Rethrow(w)
    <3>1. CASE UNCHANGED jobs
      BY <1>2, <3>1
    <3>2. CASE \E d : JobBecomes(run[w].job, d) /\ d.status \in {"waiting", "failed"}
      <4>1. PICK d : JobBecomes(run[w].job, d) /\ d.status \in {"waiting", "failed"}
        BY <3>2
      <4> QED
        BY <1>3, <4>1
    <3> QED
      BY <1>1, <2>6, <3>1, <3>2, RethrowDoes
  <2> QED
    BY <2>1, <2>2, <2>3, <2>4, <2>5, <2>6 DEF Step
<1> QED
  BY <1>5, <1>6

LEMMA FullCreates ==
    ASSUME WholeInv, FullInv, NEW i \in Incidents, Create(i)
    PROVE  FullInv'
<1>1. stats \in StatsType /\ Cardinality(created) \in Nat /\ stats.count \in Nat
  BY FS_CardinalityType DEF WholeInv, MemoryInv, FullInv, StatsType
<1>2. /\ i \notin created
      /\ UNCHANGED jobs \/ \E d : JobComes(d)
  BY CreateDoes DEF WholeInv
<1>3. BlockedStays
  <2>1. CASE UNCHANGED jobs
    BY <2>1 DEF BlockedStays
  <2>2. ASSUME NEW d, JobComes(d) PROVE BlockedStays
    BY <2>2 DEF BlockedStays, JobComes
  <2> QED
    BY <1>2, <2>1, <2>2
<1>4. CASE ~Allowed(stats)
  <2>1. UNCHANGED created /\ stats' = Checked(stats)
    BY <1>4 DEF Create
  <2> QED
    BY <1>3, <2>1, FullStep DEF StatsStep
<1>5. CASE Allowed(stats)
  <2>1. created' = created \cup {i} /\ stats' = Recorded(Checked(stats))
    BY <1>5 DEF Create
  <2>2. /\ IsFiniteSet(created') /\ Cardinality(created') = Cardinality(created) + 1
    BY <1>1, <1>2, <2>1, FS_AddElement DEF FullInv
  <2>3. Enough => Enough'
    BY <1>1, <2>2, FlappingAssumption DEF Enough
  <2>4. PICK s : s = Checked(stats)
    OBVIOUS
  <2>5. /\ s \in StatsType /\ Still(s) /\ s.count = stats.count
        /\ InCooldown(s) => InCooldown(stats) \/ stats.count >= MaxIncidentsPerWindow
    BY <1>1, <2>4, CheckedKeeps, StillStays DEF FullInv
  <2>6. /\ Still(stats') /\ stats'.count = s.count + 1 /\ (InCooldown(stats') => InCooldown(s))
    BY <2>1, <2>4, <2>5, StillStays
  <2>7. stats'.count <= Cardinality(created')
    BY <1>1, <2>2, <2>5, <2>6 DEF FullInv
  <2>8. InCooldown(stats') => Enough'
    BY <1>1, <2>2, <2>3, <2>5, <2>6, FlappingAssumption DEF FullInv, Enough
  <2>9. BlockedAtMaximum'
    BY <1>3, <2>3 DEF BlockedAtMaximum, BlockedStays, FullInv, Enough
  <2>10. Still(stats)' /\ (InCooldown(stats) => Enough)'
    BY <2>6, <2>8 DEF Still, InCooldown
  <2> QED
    BY <2>2, <2>7, <2>9, <2>10 DEF FullInv
<1> QED
  BY <1>4, <1>5

LEMMA FullInvKept == WholeInv /\ FullInv /\ [Next]_vars => FullInv'
<1> SUFFICES ASSUME WholeInv, FullInv, [Next]_vars PROVE FullInv'
  OBVIOUS
<1>1. CASE UNCHANGED vars
  <2>1. UNCHANGED <<created, stats, jobs>>
    BY <1>1 DEF vars, redis, memory
  <2>2. StatsStep /\ BlockedStays
    BY <2>1 DEF StatsStep, BlockedStays
  <2> QED
    BY <2>1, <2>2, FullStep
<1>2. ASSUME NEW w \in Workers, Step(w) \/ Fault(w) PROVE FullInv'
  BY <1>2, FullRuns, FullStep
<1>3. ASSUME NEW i \in Incidents, Create(i) PROVE FullInv'
  BY <1>3, FullCreates
<1>4. CASE Crash
  <2>1. UNCHANGED <<created, jobs>> /\ StatsStep
    BY <1>4, CrashDoes DEF Crash, StatsStep
  <2> QED
    BY <2>1, FullStep DEF BlockedStays
<1>5. ASSUME NEW n \in DOMAIN jobs, Stalled(n) PROVE FullInv'
  <2>1. UNCHANGED <<created, stats>>
    BY <1>5 DEF Stalled, memory
  <2>2. PICK d : JobBecomes(n, d) /\ d.status \in {"waiting", "failed"}
    BY <1>5, StalledDoes DEF WholeInv
  <2>3. BlockedStays
    BY <2>2 DEF BlockedStays, JobBecomes
  <2> QED
    BY <2>1, <2>3, FullStep DEF StatsStep
<1> QED
  BY <1>1, <1>2, <1>3, <1>4, <1>5 DEF Next

(* An incident is stopped by the cooldown only when its site was given its   *)
(* maximum of incidents, whatever runs, retries, redeliveries and crashes of *)
(* however many workers come between: a job that is run again is not counted *)
(* again, and nothing but a count at its maximum starts a cooldown.          *)
THEOREM BlockedOnlyAtMaximum == Spec => []BlockedAtMaximum
<1>1. FullInv => BlockedAtMaximum
  BY DEF FullInv
<1> QED
  BY <1>1, WholeInitially, WholeInvKept, FullInitially, FullInvKept, PTL DEF Spec
=============================================================================

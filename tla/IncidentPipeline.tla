--------------------------- MODULE IncidentPipeline ---------------------------
(***************************************************************************)
(* The incident queue: JobsService.createIncident adds process-incident    *)
(* jobs, the incident worker runs several at once through                  *)
(* IncidentProcessorService.processIncident, which uses the flapping       *)
(* statistics, the loop contexts (both in memory) and the stored results   *)
(* (in Redis), and hands the incident on by adding the next job.           *)
(*                                                                         *)
(* processIncident is cut at the awaits between which another run, a       *)
(* crash or a lost lock can make a difference.  The job of a later phase,  *)
(* or of an escalation, only passes the time in the worker: such jobs are  *)
(* counted, not run.  Progress and checkpoints are written but never read, *)
(* and left out.  One site; the time is within one flapping window.        *)
(*                                                                         *)
(* BullMQ is modelled as the code relies on it: a job goes to one worker   *)
(* that holds its lock, a thrown error uses up an attempt, and a job whose *)
(* lock was lost is delivered again, MaxStalled times.                     *)
(***************************************************************************)
EXTENDS FlappingStats, Sequences, FiniteSets

CONSTANTS
    Incidents,
    Workers,        \* the runs that `concurrency' allows at a time
    Entries,        \* what a first job may hold: records [state, verified]
    MaxAttempts,    \* `attempts' of getIncidentJobOptions
    MaxFixAttempts, \* maxFixAttempts of an incident
    MaxStalled,     \* BullMQ's maxStalledCount
    MaxTrouble      \* bound: faults, refusals, lost locks and crashes

ASSUME PipelineAssumption ==
    /\ MaxAttempts \in Nat \ {0} /\ MaxFixAttempts \in Nat \ {0}
    /\ MaxStalled \in Nat /\ MaxTrouble \in Nat

VARIABLES
    created,    \* incidents that createIncident accepted
    stats,      \* the flapping statistics of the site
    jobs,       \* process-incident jobs, in the order they were added
    stored,     \* idempotency keys with a stored result, and the result
    handed,     \* handed[i][s]: jobs added for phase s of incident i
    escalated,  \* escalated[i]: jobs added to escalate i
    loops,      \* activeLoops: its keys, pairs <<incident, state>>
    run,        \* what each worker is doing
    trouble,    \* history: faults, refusals, lost locks and crashes so far
    unheard     \* history, unheard[i]: escalations of i whose job was not added

redis == <<jobs, stored, handed, escalated>>
memory == <<stats, loops, run>>
vars == <<created, trouble, unheard, redis, memory>>

Successor ==
    [NEW |-> "DISCOVERY", DISCOVERY |-> "BASELINE", BASELINE |-> "BACKUP",
     BACKUP |-> "OBSERVABILITY", OBSERVABILITY |-> "FIX_ATTEMPT",
     FIX_ATTEMPT |-> "VERIFY", ROLLBACK |-> "ESCALATED"]
IncidentState == DOMAIN Successor \cup {"VERIFY", "FIXED", "ESCALATED"}
NoState == "none"
NoOne == "no one"

ASSUME WorkersAssumption == NoOne \notin Workers

\* The final statuses say how the run that finished the job ended.
Final == {"success", "failure", "repeated", "blocked", "deadEnd", "failed"}
Verdict == {"unknown", "passed", "failed"}

ASSUME EntriesAssumption ==
    \A e \in Entries : e.state \in IncidentState /\ e.verified \in Verdict

JobType ==
    [incident : Incidents, state : IncidentState, fixAttempts : 0..(MaxFixAttempts - 1),
     verified : Verdict, status : {"waiting", "active"} \cup Final,
     owner : Workers \cup {NoOne}, attempts : 0..MaxAttempts,
     stalls : 0..(MaxStalled + 1)]

NewJob(i, s, n, v) ==
    [incident |-> i, state |-> s, fixAttempts |-> n, verified |-> v,
     status |-> "waiting", owner |-> NoOne, attempts |-> 0, stalls |-> 0]

Busy == {"check", "execute", "act", "settle", "blocked", "return", "escalate", "rethrow"}
IdleRun == [pc |-> "idle", job |-> 0, outcome |-> "success", verified |-> "unknown"]

TypeOK ==
    /\ created \subseteq Incidents
    /\ stats \in StatsType
    /\ \A n \in DOMAIN jobs : jobs[n] \in JobType
    /\ \A r \in stored : r.outcome \in {"success", "failure"}
    /\ handed \in [Incidents -> [IncidentState -> Nat]]
    /\ escalated \in [Incidents -> Nat]
    /\ loops \subseteq Incidents \X IncidentState
    /\ \A w \in Workers :
         /\ run[w].pc \in {"idle"} \cup Busy
         /\ run[w].pc # "idle" => run[w].job \in DOMAIN jobs
    /\ trouble \in 0..MaxTrouble /\ unheard \in [Incidents -> Nat]

Init ==
    /\ created = {}
    /\ stats = FreshStats
    /\ jobs = <<>>
    /\ stored = {}
    /\ handed = [i \in Incidents |-> [s \in IncidentState |-> 0]]
    /\ escalated = [i \in Incidents |-> 0]
    /\ loops = {}
    /\ run = [w \in Workers |-> IdleRun]
    /\ trouble = 0 /\ unheard = [i \in Incidents |-> 0]

-----------------------------------------------------------------------------
Troubled == trouble < MaxTrouble /\ trouble' = trouble + 1

Job(w) == jobs[run[w].job]
Loop(w) == <<Job(w).incident, Job(w).state>>
At(w, pc) == run[w].pc = pc
GoTo(w, pc) == run' = [run EXCEPT ![w].pc = pc]
End(w, outcome) == run' = [run EXCEPT ![w].pc = "return", ![w].outcome = outcome]

\* getNextTransition: the first transition whose condition holds.
NextState(d) ==
    IF d.state = "VERIFY"
      THEN CASE d.verified = "passed" -> "FIXED"
             [] d.verified = "failed" /\ d.fixAttempts < MaxFixAttempts -> "FIX_ATTEMPT"
             [] d.verified = "failed" /\ d.fixAttempts >= MaxFixAttempts -> "ROLLBACK"
             [] OTHER -> NoState
      ELSE IF d.state \in DOMAIN Successor THEN Successor[d.state] ELSE NoState

\* generateIdempotencyKey.  The checksum tells no more: JSON.stringify is
\* given the top-level keys as its filter, which drops what metadata holds.
Key(d) == <<d.incident, d.state, d.fixAttempts>>

\* JobsService.createIncident; the job may fail to be added after the
\* incident was counted.
Create(i) ==
    /\ i \notin created
    /\ IF Allowed(stats)
         THEN /\ stats' = Recorded(Checked(stats))
              /\ created' = created \cup {i}
              /\ \/ /\ \E e \in Entries : jobs' = Append(jobs, NewJob(i, e.state, 0, e.verified))
                    /\ UNCHANGED trouble
                 \/ Troubled /\ UNCHANGED jobs
         ELSE stats' = Checked(stats) /\ UNCHANGED <<created, jobs, trouble>>
    /\ UNCHANGED <<unheard, stored, handed, escalated, loops, run>>

\* Mutant: each run counts its incident once more.
TakeRecords(w, n) ==
    /\ At(w, "idle")
    /\ jobs[n].status = "waiting"
    /\ jobs' = [jobs EXCEPT ![n].status = "active", ![n].owner = w]
    /\ loops' = loops \cup {<<jobs[n].incident, jobs[n].state>>}
    /\ stats' = IF Allowed(stats) THEN Recorded(stats) ELSE Checked(stats)
    /\ run' = [run EXCEPT ![w] =
         [IdleRun EXCEPT !.pc = IF Allowed(stats) THEN "check" ELSE "blocked", !.job = n]]
    /\ UNCHANGED <<created, unheard, stored, handed, escalated, trouble>>

\* A worker fetches a job; processIncident up to its first await.
Take(w, n) ==
    /\ At(w, "idle")
    /\ jobs[n].status = "waiting"
    /\ jobs' = [jobs EXCEPT ![n].status = "active", ![n].owner = w]
    /\ loops' = loops \cup {<<jobs[n].incident, jobs[n].state>>}
    /\ stats' = Checked(stats)
    /\ run' = [run EXCEPT ![w] =
         [IdleRun EXCEPT !.pc = IF Allowed(stats) THEN "check" ELSE "blocked", !.job = n]]
    /\ UNCHANGED <<created, unheard, stored, handed, escalated, trouble>>

\* Mutant: the run waits until the site may have incidents again.
BlockUntilAllowed(w) ==
    /\ At(w, "blocked")
    /\ Allowed(stats)
    /\ End(w, "blocked")
    /\ UNCHANGED <<created, unheard, trouble, stats, loops, redis>>

\* The run of a site that is flapping ends; its loop context stays behind.
Block(w) ==
    /\ At(w, "blocked")
    /\ escalated' = IF stats.shouldEscalate
                      THEN [escalated EXCEPT ![Job(w).incident] = @ + 1] ELSE escalated
    /\ End(w, "blocked")
    /\ UNCHANGED <<created, unheard, trouble, stats, loops, jobs, stored, handed>>

\* Mutant: the loop is not completed when a stored result is returned.
CheckKeepsLoop(w) ==
    /\ At(w, "check")
    /\ IF \E r \in stored : r.key = Key(Job(w))
         THEN End(w, "repeated") ELSE GoTo(w, "execute")
    /\ UNCHANGED <<created, unheard, trouble, stats, loops, redis>>

\* checkIdempotency: an error counts as a miss.
Check(w) ==
    /\ At(w, "check")
    /\ \/ /\ \E r \in stored : r.key = Key(Job(w))
          /\ loops' = loops \ {Loop(w)}
          /\ End(w, "repeated")
          /\ UNCHANGED trouble
       \/ /\ \A r \in stored : r.key # Key(Job(w))
          /\ GoTo(w, "execute")
          /\ UNCHANGED <<loops, trouble>>
       \/ /\ Troubled
          /\ GoTo(w, "execute")
          /\ UNCHANGED loops
    /\ UNCHANGED <<created, unheard, stats, redis>>

\* The transition is chosen and the state executed.  The circuit may refuse
\* (or the executor fail); a context that another run of the same state has
\* completed makes the operation throw.
Execute(w) ==
    /\ At(w, "execute")
    /\ IF NextState(Job(w)) = NoState
         THEN /\ loops' = loops \ {Loop(w)}
              /\ End(w, "deadEnd")
              /\ UNCHANGED trouble
         ELSE /\ \/ /\ Troubled
                    /\ run' = [run EXCEPT ![w].pc = "act", ![w].outcome = "failure"]
                 \/ /\ Loop(w) \in loops
                    /\ \E v \in IF Job(w).state = "VERIFY" THEN {"passed", "failed"}
                                ELSE {Job(w).verified} :
                         run' = [run EXCEPT ![w] = [@ EXCEPT !.pc = "act", !.outcome = "success",
                                                             !.verified = v]]
                    /\ UNCHANGED trouble
                 \/ Loop(w) \notin loops /\ GoTo(w, "escalate") /\ UNCHANGED trouble
              /\ UNCHANGED loops
    /\ UNCHANGED <<created, unheard, stats, redis>>

\* Mutant: an error of adding the next job is swallowed.
HandOnSwallows(w) ==
    LET d == Job(w) IN
    /\ At(w, "act") /\ run[w].outcome = "success"
    /\ \/ /\ handed' = [handed EXCEPT ![d.incident][NextState(d)] = @ + 1]
          /\ UNCHANGED trouble
       \/ Troubled /\ UNCHANGED handed
    /\ GoTo(w, "settle")
    /\ UNCHANGED <<created, unheard, stats, jobs, stored, escalated, loops>>

\* Mutant: the job to retry is added after a success, too.
HandOnAndRetry(w) ==
    LET d == Job(w) IN
    /\ At(w, "act") /\ run[w].outcome = "success"
    /\ handed' = [handed EXCEPT ![d.incident][NextState(d)] = @ + 1]
    /\ jobs' = Append(jobs, NewJob(d.incident, d.state, d.fixAttempts, d.verified))
    /\ GoTo(w, "settle")
    /\ UNCHANGED <<created, unheard, trouble, stats, stored, escalated, loops>>

\* transitionToNextState, and the recordResolution after it.
HandOn(w) ==
    LET d == Job(w) IN
    /\ At(w, "act") /\ run[w].outcome = "success"
    /\ IF NextState(d) = "FIXED"
         THEN /\ jobs' = Append(jobs, NewJob(d.incident, "FIXED", d.fixAttempts, run[w].verified))
              /\ UNCHANGED handed
         ELSE /\ handed' = [handed EXCEPT ![d.incident][NextState(d)] = @ + 1]
              /\ UNCHANGED jobs
    /\ stats' = Resolved(stats, TRUE)
    /\ GoTo(w, "settle")
    /\ UNCHANGED <<created, unheard, trouble, stored, escalated, loops>>

\* Mutant: one fix attempt too many.
RetryOnceMore(w) ==
    LET d == Job(w)
        n == IF d.state = "FIX_ATTEMPT" THEN d.fixAttempts + 1 ELSE d.fixAttempts
    IN
    /\ At(w, "act") /\ run[w].outcome = "failure"
    /\ jobs' = IF n > MaxFixAttempts THEN jobs
               ELSE Append(jobs, NewJob(d.incident, d.state, n, d.verified))
    /\ GoTo(w, "settle")
    /\ UNCHANGED <<created, unheard, trouble, stats, stored, handed, escalated, loops>>

\* handleStateFailure: escalate, or add a job to retry.  The fix attempt is
\* counted in the new job only: the stored one is not updated.
Retry(w) ==
    LET d == Job(w)
        n == IF d.state = "FIX_ATTEMPT" THEN d.fixAttempts + 1 ELSE d.fixAttempts
    IN
    /\ At(w, "act") /\ run[w].outcome = "failure"
    /\ IF n >= MaxFixAttempts
         THEN escalated' = [escalated EXCEPT ![d.incident] = @ + 1] /\ UNCHANGED jobs
         ELSE /\ jobs' = Append(jobs, NewJob(d.incident, d.state, n, d.verified))
              /\ UNCHANGED escalated
    /\ stats' = Resolved(stats, FALSE)
    /\ GoTo(w, "settle")
    /\ UNCHANGED <<created, unheard, trouble, stored, handed, loops>>

\* storeResult, whose error is swallowed, and the end of the loop.
Settle(w) ==
    /\ At(w, "settle")
    /\ \/ /\ stored' = {r \in stored : r.key # Key(Job(w))}
                         \cup {[key |-> Key(Job(w)), outcome |-> run[w].outcome]}
          /\ UNCHANGED trouble
       \/ Troubled /\ UNCHANGED stored
    /\ loops' = loops \ {Loop(w)}
    /\ GoTo(w, "return")
    /\ UNCHANGED <<created, unheard, stats, jobs, handed, escalated>>

\* A worker may only finish or fail a job whose lock it still holds.
Give(w, changed) ==
    /\ jobs' = IF Job(w).owner = w
                 THEN [jobs EXCEPT ![run[w].job] = [changed EXCEPT !.owner = NoOne]] ELSE jobs
    /\ run' = [run EXCEPT ![w] = IdleRun]

Return(w) ==
    /\ At(w, "return")
    /\ Give(w, [Job(w) EXCEPT !.status = run[w].outcome])
    /\ UNCHANGED <<created, unheard, trouble, stats, loops, stored, handed, escalated>>

\* Mutant: an error is thrown on without an escalation.
FaultUnescalated(w) ==
    /\ run[w].pc \in {"execute", "act", "settle"}
    /\ Troubled
    /\ loops' = loops \ {Loop(w)}
    /\ GoTo(w, "rethrow")
    /\ UNCHANGED <<created, unheard, stats, redis>>

\* A call that was awaited throws (an update of the progress, or a job that
\* cannot be added): the catch block completes the loop and escalates.
Fault(w) ==
    /\ \/ run[w].pc \in {"execute", "act", "settle"}
       \/ At(w, "blocked") /\ stats.shouldEscalate
    /\ Troubled
    /\ loops' = loops \ {Loop(w)}
    /\ stats' = Resolved(stats, FALSE)
    /\ GoTo(w, "escalate")
    /\ UNCHANGED <<created, unheard, redis>>

Escalate(w) ==
    /\ At(w, "escalate")
    /\ \/ /\ escalated' = [escalated EXCEPT ![Job(w).incident] = @ + 1]
          /\ UNCHANGED <<trouble, unheard>>
       \/ /\ Troubled
          /\ unheard' = [unheard EXCEPT ![Job(w).incident] = @ + 1]
          /\ UNCHANGED escalated
    /\ GoTo(w, "rethrow")
    /\ UNCHANGED <<created, stats, loops, jobs, stored, handed>>

\* Mutant: the error is handled and not thrown on, which completes the job.
RethrowNothing(w) ==
    /\ At(w, "rethrow")
    /\ Give(w, [Job(w) EXCEPT !.status = "failure"])
    /\ UNCHANGED <<created, unheard, trouble, stats, loops, stored, handed, escalated>>

Rethrow(w) ==
    /\ At(w, "rethrow")
    /\ LET n == Job(w).attempts + 1
       IN  Give(w, [Job(w) EXCEPT !.attempts = n,
                                  !.status = IF n < MaxAttempts THEN "waiting" ELSE "failed"])
    /\ UNCHANGED <<created, unheard, trouble, stats, loops, stored, handed, escalated>>

\* The process dies and starts again: what is in memory is lost.
Crash ==
    /\ Troubled
    /\ stats' = FreshStats
    /\ loops' = {}
    /\ run' = [w \in Workers |-> IdleRun]
    /\ UNCHANGED <<created, unheard, redis>>

\* BullMQ moves a job whose lock expired back to waiting, or fails it.  The
\* lock of a run that is still going on expires when it was not renewed.
Stalled(n) ==
    /\ jobs[n].status = "active"
    /\ IF \E w \in Workers : run[w].job = n /\ jobs[n].owner = w
         THEN Troubled ELSE UNCHANGED trouble
    /\ jobs' = [jobs EXCEPT ![n] =
         [@ EXCEPT !.owner = NoOne, !.stalls = jobs[n].stalls + 1,
                   !.status = IF jobs[n].stalls < MaxStalled THEN "waiting" ELSE "failed"]]
    /\ UNCHANGED <<created, unheard, stored, handed, escalated, memory>>

Step(w) ==
    \/ \E n \in DOMAIN jobs : Take(w, n)
    \/ Block(w) \/ Check(w) \/ Execute(w) \/ HandOn(w) \/ Retry(w) \/ Settle(w) \/ Return(w)
    \/ Escalate(w) \/ Rethrow(w)

Next ==
    \/ \E i \in Incidents : Create(i)
    \/ \E w \in Workers : Step(w) \/ Fault(w)
    \/ Crash
    \/ \E n \in DOMAIN jobs : Stalled(n)

Spec == Init /\ [][Next]_vars

\* The worker goes on, and BullMQ looks for stalled jobs.
Fairness ==
    /\ \A w \in Workers : WF_vars(Step(w))
    /\ WF_vars(\E n \in DOMAIN jobs : Stalled(n))

FairSpec == Spec /\ Fairness

-----------------------------------------------------------------------------
\* The next phase of job d's incident has been asked for.
HandedOn(d) ==
    IF NextState(d) = "FIXED"
      THEN \E n \in DOMAIN jobs : jobs[n].incident = d.incident /\ jobs[n].state = "FIXED"
      ELSE handed[d.incident][NextState(d)] > 0

\* A result stored under d's key is there, and it says the state failed.
StoredFailure(d) == [key |-> Key(d), outcome |-> "failure"] \in stored

\* A stored result, which every later delivery of the job returns instead of
\* working, is stored only after the incident was handed on, retried or
\* escalated: whenever a run dies, what it did not do is done again.
StoredMeansActedOn ==
    \A n \in DOMAIN jobs : \A r \in stored : r.key = Key(jobs[n]) =>
        \/ r.outcome = "success" /\ HandedOn(jobs[n])
        \/ /\ r.outcome = "failure"
           /\ \/ escalated[jobs[n].incident] > 0
              \/ \E m \in DOMAIN jobs : m # n /\ jobs[m].incident = jobs[n].incident

\* The jobs of incident i are over and the incident got nowhere: no phase
\* was asked for and nobody was told.
Abandoned(i) ==
    LET mine == {n \in DOMAIN jobs : jobs[n].incident = i} IN
    /\ mine # {}
    /\ \A n \in mine : jobs[n].status \in Final
    /\ \A s \in IncidentState : handed[i][s] = 0
    /\ escalated[i] = 0

\* An incident that was accepted and is given up by the job engine is one
\* whose site is flapping, whose state has no way on, whose job stalled too
\* often, whose retry was answered with the stored failure, or whose
\* escalation was lost at every attempt.  Overlapping runs, faults and
\* crashes lose no other.
LossesKnown ==
    \A i \in Incidents : Abandoned(i) =>
        \/ unheard[i] >= MaxAttempts
        \/ \E n \in DOMAIN jobs :
              /\ jobs[n].incident = i
              /\ \/ jobs[n].status \in {"blocked", "deadEnd"}
                 \/ jobs[n].stalls > MaxStalled
                 \/ jobs[n].status = "repeated" /\ StoredFailure(jobs[n])

\* processIncident asks at each run whether an incident could be created, also
\* of one that was: an incident is stopped by the cooldown only when the site
\* was given its maximum of incidents, however often its jobs were run,
\* retried and delivered again, and whatever a crash made it forget.
BlockedAtMaximum ==
    (\E n \in DOMAIN jobs : jobs[n].status = "blocked")
    => Cardinality(created) >= MaxIncidentsPerWindow

\* A state that fails is retried, as handleStateFailure says: an incident is
\* not given up after its retry.
RetriesWork ==
    \A i \in Incidents : Abandoned(i) =>
        ~\E n \in DOMAIN jobs : jobs[n].incident = i /\ jobs[n].status = "repeated"

\* A phase is asked for once, and once more at most for everything that goes
\* wrong: neither a redelivery nor a second run by itself repeats it.
HandoversBounded ==
    \A i \in Incidents, s \in IncidentState : handed[i][s] <= 1 + trouble

\* A loop context belongs to a run that is under way.  Only a run that was
\* blocked by the cooldown leaves its context behind (nothing in src calls the
\* clean-up of stale loops), whatever overlapping runs of one state do to it.
LoopsReleased ==
    \A l \in loops :
        \/ \E w \in Workers : run[w].pc \in Busy /\ Loop(w) = l
        \/ \E n \in DOMAIN jobs : /\ <<jobs[n].incident, jobs[n].state>> = l
                                   /\ \/ jobs[n].status = "blocked"
                                      \/ jobs[n].stalls > 0 /\ InCooldown(stats)

\* A job that used up its attempts has escalated its incident, unless the
\* escalation was lost at each of them.
FailedMeansEscalated ==
    \A n \in DOMAIN jobs :
        jobs[n].status = "failed" /\ jobs[n].stalls <= MaxStalled
            => escalated[jobs[n].incident] > 0 \/ unheard[jobs[n].incident] >= MaxAttempts

\* Every job comes to an end, whatever is lost on the way.
JobsFinish ==
    \A i \in Incidents :
        (\E n \in DOMAIN jobs : jobs[n].incident = i)
            ~> (\A n \in DOMAIN jobs : jobs[n].incident = i => jobs[n].status \in Final)
=============================================================================

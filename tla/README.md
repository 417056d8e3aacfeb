# WP-AutoHealer in TLA+

TLA+ modules, TLC configurations and TLAPS proofs for the parts of the
WP-AutoHealer server (`src/`, a NestJS application) in which concurrency,
failures, time or limits decide whether it works. `PROJECT.json` maps every
definition to the lines it models and lists runs, mutants, hazards, findings
and theorems.

## 1. The system

An incident on a WordPress site is to be taken through NEW, DISCOVERY,
BASELINE, BACKUP, OBSERVABILITY, FIX_ATTEMPT, VERIFY to FIXED, ROLLBACK or
ESCALATED. `JobsService.createIncident` adds a BullMQ job; `IncidentWorker`
(three runs at once) gives it to `IncidentProcessorService.processIncident`,
which asks four helpers: flapping prevention and bounded loops (maps in
memory), circuit breakers (in memory) and idempotency (Redis). Everything on a
customer's server goes through `SSHService`, whose connections are pooled.
Around these are the REST resources (incidents, sites, servers, users, audit),
authentication, retention and the playbooks.

| Component (under `src/src/`) | State it keeps | Operations | Interacts by | What is hard | What makes it correct |
|---|---|---|---|---|---|
| `jobs/circuit-breaker` | circuits: state, failures, deadline | execute, reset, forceOpen | called around an awaited operation | results of overlapping calls arriving in another state | a closed circuit is below its threshold, no probe before the deadline, every open circuit probed |
| `jobs/flapping-prevention` | per site: count, window, cooldown, flags | canCreateIncident, recordIncident, recordResolution, clear, reset, maintenance | synchronous calls of JobsService and the processor | window slide, cooldown against count and flags | counts within the maximum, a cooldown holds and ends |
| `jobs/jobs.service`, `incident-processor`, `workers/incident.worker`, `queue.config` | BullMQ jobs, what a run has in hand | createIncident, processIncident, retry, escalate | jobs in Redis, awaits | overlap, redelivery, crash between steps, errors after effects | no accepted incident is lost silently, effects are repeated only when something went wrong, jobs end |
| `jobs/job-idempotency` | stored results, checkpoints (Redis, 24 h) | check, store | awaited by the processor | stored too early or too late; what the key tells apart | stored means acted on |
| `jobs/bounded-loops` | active loop contexts | start, canContinue, complete | synchronous | two runs with one loop id, contexts left behind | a context belongs to a run |
| `ssh/ssh-connection-pool`, `ssh/ssh.service` | pooled connections, lists per server | connect, commands, disconnect, idle clean-up, close server / all | awaits, ssh2 events, timer | await between check and insertion, shrinking a list while visiting it, users that forget | bounded, maps agree, live clients known, unused ones leave |
| `incidents` | incident rows, events, SSE | create, update, escalate, remove | Prisma, event emitter | read-then-write, events written one by one | the timeline tells every state the incident had |
| `auth`, `users` | sessions, failed attempts, locks, second factor, backup codes | login, refresh, logout, password change, lock, unlock, set-up | Prisma | rotation races, lost counts, late writes after a reset, `'temp'` hashes | failures lock, locks hold, no session outlives the password, a code is used once |
| `retention`, `jobs/scheduled-jobs`, `jobs/workers/data-retention.worker` | policies, schedules with their histories, purge audits; the data itself | estimate, manual, scheduled, automatic, emergency purge, anonymise | cron, queue, Prisma | overlapping purges, fallbacks after partial success, estimates that are old | nothing but what was asked for is deleted, and all of it |
| `evidence` | signed rows of text | collect, store, read, delete | SSH, Prisma | parts that fail, rows rewritten meanwhile | what is read back is what was signed |
| `wordpress-fixes` | plans of rollback steps | tiers of playbooks in order, rollback | SSH | commands without an answer, several edits of one file | what was changed is in the plan, a rollback that succeeds restores |
| `backup` | artifacts and local files | back up, validate, roll back | SSH, Prisma | names shared by two calls, partial restoration | the report is true |
| `verification` | verdicts | ten checks at once | HTTP, Prisma | the site changes between the checks, writes that fail | a healthy verdict means a sound page |
| `servers`, `sites`, `ssh/ssh-validation` | rows with encrypted credentials and domains | CRUD, rotate, discover, health check | Prisma, SSH, HTTP | check-then-write, detectors that swallow errors | usable credentials, one site per domain, true discoveries |
| `audit`, `sse`, `monitoring`, `integrations`, `common`, `config`, `database`, `dashboard`, `security` | rows, counters | CRUD, checks | Prisma, HTTP | stale connections (sse) | see `PROJECT.json` |

There is no frontend code in the tree (`frontend/` is empty); `docker/`,
`prisma/`, `scripts/` and `docs/` hold configuration and text.

## 2. Plan and composition

The job engine came first: `CircuitBreaker`, `FlappingStats` and
`FlappingPrevention` (run together by `MC_JobGuards`), `IncidentPipeline` (which composes the flapping
statistics, the loop contexts, the stored results and the queue), then
`SshConnectionPool`. Around it stand three groups of services that share a
database or a host, each group composed by one MC module:

* `MC_Accounts`: `AccountLockout`, `UserSessions`, `MfaEnrolment`;
* `MC_Healing`: `WordPressFixes` over `FixBase` and its three tiers,
  `BackupRollback`, `SiteVerification`, and `HostDiscovery` over
  `HostInventory` and `SshCommandFilter`;
* `MC_Records`: `IncidentRecords`, `Anonymization` over `EvidenceCollection`,
  and `PurgeSchedules` over `DataPurge`.

No code of `src` lets one member of a group call another except where the
modules extend one another, so a run of a group chooses which member it
explores (`explored`) and leaves the others where they start: the interleavings
within a member are all there, the product of independent ones is not.

One abstract specification, `CircuitPromise`, says what a circuit promises
without deadlines and counts; `CircuitBreaker` implements it (`KeepsPromise`).

The order of the proofs follows: the job engine and the pool, the accounts, the
records, then hosts, verification and backups, and the playbooks. Every safety
property that a run checks is now a theorem; liveness stays with TLC.

## 3. Modules and code

**`CircuitBreaker`** is one circuit of `CircuitBreakerService`; circuits share
nothing. `execute` becomes `Start` (the look at the circuit) and `Succeed` or
`Fail` (onSuccess, onFailure) any number of steps later. `Reset`, `ForceOpen`
are the public methods (called by tests only), `CircuitRestart` loses the map.
Timestamps are ages that saturate past the periods they are compared with. A
refused call changes nothing and is no action.

**`FlappingStats`** holds what `FlappingPreventionService` computes on the
record of one site, as operators from record to record: `CleanUp`
(cleanupOldData), `Allowed`/`Checked` (answer and effect of
canCreateIncident), `Recorded`, `Resolved`, `CooldownCleared`, `Forgettable`.
**`FlappingPrevention`** is the service as the job engine uses it. The methods
are synchronous, and createIncident has no await between asking and recording,
so each is one step.

**`IncidentPipeline`** is the queue with its workers. `processIncident` is cut
where another run, a crash or a lost lock can come between:

| pc of a run | action | code |
|---|---|---|
| idle | `Take` | delivery of the job, startLoop, canCreateIncident |
| blocked | `Block` | the return of a flapping site, with its escalation |
| check | `Check` | checkIdempotency (an error of Redis is a miss) |
| execute | `Execute` | getNextTransition, circuit, bounds check, executor |
| act | `HandOn`, `Retry` | transitionToNextState / handleStateFailure, recordResolution |
| settle | `Settle` | storeResult (errors swallowed), completeLoop |
| return, rethrow | `Return`, `Rethrow` | the job completes, or uses up an attempt |
| any awaited call | `Fault`, `Escalate` | the catch block |

`Crash` loses what is in memory; `Stalled` is BullMQ's delivery of a job whose
lock expired (external: modelled as the code relies on it). In `Execute` the
circuit's refusal and an executor's failure are one nondeterministic outcome,
counted as trouble: `CircuitBreaker` says when a circuit refuses. Jobs of the
later phases and escalations are counted, not run: their workers are
placeholders that wait and return.

The idempotency key is incident, state and attempt: the checksum serialises
the job with the top-level keys as filter, which drops what `metadata` holds.

**`SshConnectionPool`** is the pool and the connections of `SSHService`. The
awaits that matter are in `addConnection` (between clean-up and second look:
`Add`, `Recheck`) and in `closeAllConnections` (`CloseAll`, `CloseAllClear`).
`closeConnection` has no await and is the operator `Close`, with an `end` that
may throw. `user` stands for the services that connect; `Forget` is a caller
that never disconnects (the three entry points of the backup service) or whose
error passed the call (discovery, sites). `orphaned` records the clients that
are lost in one of three ways: a full pool refused them, their `end` threw, or
they joined while the pool shut down. `main.ts` does not enable shutdown hooks,
so `CloseAll` happens only when the application is closed by a call.

**`AccountLockout`** cuts a login at its awaits: look at the lock
(`CheckLock`, which takes an expired lock off and goes on), compare the
password, count a failure (`ReadAttempts`, `WriteAttempts`) or reset.
`lockoutUntil` is a number of ticks left.
**`UserSessions`** is the life of session rows: inserted with the hash
`'temp'`, given a pair of tokens, found by hash and rotated by id, deleted by
logout, password change, reset and clean-up; a crash may come between the two
writes of a login. A refresh looks at the user's `isLocked`, which only the
administrator's `Lock` and `Unlock` write here. `heard` records what became of the
answer with the pair of the row: told, overtaken by an earlier one, or lost. **`MfaEnrolment`** has two steps for each request, the read
and the write by id.

**`FixBase`** is `BaseFixPlaybook`. A run of playbooks is a record, and each
method of a playbook an operator from a run to the set of runs it can end in,
so a playbook's methods are composed in the order of its code. A command can
fail without an effect, stop half way, or take effect and lose its answer.
`InfrastructureFixes`, `CoreFixes` and `PluginThemeFixes` are the playbooks of
the three tiers; **`WordPressFixes`** picks tiers and playbooks, stops, and rolls
back. **`BackupRollback`** has the awaits of a backup (size, transfer, checksum,
row) and of the rollback of each artifact. The exit code of `rm -rf` is not looked
at in the code: a removal that fails leaves what the archive is unpacked over
(`Blended`). **`SiteVerification`** has the ten
checks, each fetching the page of its moment, and the writes of their rows.

**`HostInventory`** is a table of servers, one of sites, and requests cut where
they await. **`SshCommandFilter`** is `validateCommand` on commands that are
their first word and the groups of patterns they match. **`HostDiscovery`** has
each detector as a row of probes with the commands of the source.

**`IncidentRecords`** has a call of `update` as read, write and one step for each
event. **`EvidenceCollection`** stores part by part and counts, as the code does, the
log files that it missed with those it stored; **`Anonymization`** extends
it, since evidence is one of the tables that it rewrites. **`DataPurge`** goes
through the tables one step at a time for the purges under way, with the
cascade of the schema; `evidence` stands for the four other tables that the
code handles line for line alike. An estimate counts each table twice, at two
times; the default policy is looked for and created in two steps, which another
purge can come between; the audit rows of a purge are written one by one and
name the policy whose id was read at its start. **`PurgeSchedules`** is what
begins purges: schedules, cron handlers and their fallbacks, the emergency purge,
the queue, whose job fails, and is tried again, also when only the update of its
progress failed after the purge was done.

**What is assumed of SSH.** As the sources stand, `executeCommand` never finds
its connection (`CommandsFindConnection`) and the filter refuses most commands
of discovery, backup, evidence and the playbooks (`DiscoveryTellsNothing`). The
fixes, backups and collections are explored against a service that runs the
commands, as their tests replace it: every behaviour in which commands fail is
among those explored, so the invariants hold for the program as it is too.
`AppModule` leaves the module of the fixes out for now (`app.module.ts:23`, `:89`).

Operators whose comment begins with *Mutant* are plausible bugs, used only to
check that a property notices them.

## 4. Runs

| Run | Configuration | Question | Result |
|---|---|---|---|
| `job_guards` | circuit: 2 callers, threshold 2, recovery 2, period 3 ticks; flapping: 1 site, window 3 ticks, maximum 3, threshold 4, 4 open incidents | does a circuit keep its promise under overlapping calls, is an open one probed; do counts and cooldowns survive slides, resolutions and maintenance? | holds, 2,739 states |
| `flapping_window` | creations only | does a window see at most the maximum? | violated |
| `incident_pipeline` | 1 incident, 2 workers, 2 attempts, 3 troubles, three kinds of first job | what can be lost or repeated? | holds, 1,545,361 states |
| `incident_pipeline_live` | 2 incidents, 2 workers, 1 trouble, maximum of 2, FairSpec | who is stopped by the cooldown, do jobs end, are contexts released? | holds, 9,274 states |
| `incident_retry` | 1 incident, 1 worker, 1 trouble | is a failed state tried again? | violated |
| `ssh_pool` | 2 servers, 3 connections, 2 users, pool of 2, FairSpec | bound, maps, leaks, eviction | holds, 253,104 states |
| `ssh_server_closed` | 1 server, 3 connections | are all connections of a server closed? | violated |
| `ssh_commands` | 1 server, 3 connections | does a command find its connection? | violated |
| `accounts` | 2 requests at a time; maximum of 3 failures; 2 sessions, 3 pairs, 2 passwords; 2 secrets, 2 batches of codes, 2 restorations; SessionFairness | do failures lock, do locks hold, what outlives a password change, who keeps access, do the logins end that a crash has blocked, how often is a code used? | holds, 807,184 states |
| `healing` | 1 fault in a run of playbooks; 2 backups; 1 change and 2 failed writes in a verification; 1 server, 2 sites, 2 domains, 2 requests at a time, 4 in all | are changes planned and undone, is what rollback, verification and discovery tell true, do rows stay usable? | holds, 2,088,214 states |
| `records` | 2 calls on an incident, 1 failed event; 1 collection, 1 loss; 2 purges, 2 disturbances, 2 calls of schedules or operators | does the timeline explain the incident, is evidence genuine, what is deleted, what was foretold? | holds, 1,244,156 states |
| `copies_order` | no fault | does a rollback put back in reverse order? | violated |

Where the code does no better than to lose something, the property says how much,
or names what is lost. `FailuresLock` counts the failures that were written from a
stale read, `SecondFactorHolds` the codes that a stale write brought back,
`HandoversBounded` and `FailedMeansEscalated` the troubles, and `BlockedAtMaximum`
says when an incident may be stopped: none of them exempts a behaviour.
`HolderKeepsAccess` speaks of every overlap of refreshes and excepts lost answers
and the order in which an older answer arrives last. The others name their
exception as a history (`passed`, `orphaned`, `raced`, `edited`, `unknown`,
`SharesName`): what a passing run shows is that nothing else goes wrong, and what
the exception is goes on record as a finding wherever a comment, a test or a
document of the repository promises the contrary (see below). Where nothing
promises it the hazard says so: the order in which the answers of two refreshes
arrive, credentials written without their type, the answer of a command that is
lost, a page that changes between two fetches, and what a purge's cascade or
fall-back deletes.

**Bounds.** Two callers suffice for a late result of one to meet any state
another brings about; the failure count is capped above the threshold, where
the code does not look further, and `forceOpen` happens at most twice. Ages saturate one past the longest period
compared. One site, because sites share nothing. Two workers are the smallest
number with overlap; three troubles allow a lost lock, a fault in either of the
overlapping runs and a crash together; two attempts and two fix attempts reach
each limit after one repetition. The maximum of two incidents per window lets
the second incident be created and then blocked, as the third is in the code.
The pool of two with three connections fills up while one waits; two lists of
up to two connections show removal in the middle. The age of a connection is 0
or past the limit, the code only compares it.

Two requests are the smallest number that overlaps, and every guard of the
account, site and incident services is a read followed by a write, which one
other request can come between. With a maximum of three failures, two are left to
be lost before the one that locks, the least with which a number can be read, be
overtaken and be written back; how many may be lost for any number of requests is
what the theorem says. A code is counted as written back up to twice, and as used
once more than that; the theorem has any other bound. Three pairs of tokens are two rotations, one after the other
or overlapping; two sessions, passwords, secrets and batches are an old and a new
one of each. One fault reaches every error path
of a playbook, and with it the answer that is lost; two failed writes are needed
for the second verdict of a verification to fail as well. Two sites and two
domains let one domain be taken twice. Two purges overlap; a day passing, a
change of policy and a refused statement are the disturbances, two of them among
the schedules, whose fallbacks need one for the failure and one for what follows,
and one among direct purges. A critical volume of 0 and a history of one entry
make the limits bind after one purge; two attempts of a job are one and its
retry. The policies that direct purges meet are those their own calls create, and
the anonymization of all tables, which the scheduled one repeats part by part,
waits for the collection to end.

In `incident_pipeline` the time stands still within one flapping window; the
passing of time is the subject of `job_guards`. There the first job may hold, besides
NEW (all that src submits), FIX_ATTEMPT and VERIFY, for which `processIncident`
behaves differently and which its own retries and hand-overs would bring.

**Deadlock** is checked in `job_guards` and `ssh_pool`; the pipeline may really
stop, with an empty queue, and so may `accounts`, `healing` and `records`, when
every request has been served. The runs that end in a violation do not check it.

**Fairness.** `job_guards`: of the circuit, that time passes, calls keep coming
(the queue) and settle (each operation has a time limit); of the flapping
statistics, that time passes. The conditions hold for the member that is explored.
The pipeline: a run that is under way goes on and BullMQ looks for stalled jobs;
no fairness is assumed of creations, faults and crashes. `ssh_pool`: time
passes and the interval timer fires; users may keep what they hold for ever.
`accounts`: time passes for the sessions and the clean-up of expired ones, a cron
job, runs; nothing is assumed of requests. `healing` and `records` have no liveness
property: their requests end in a bounded number of steps.

### What the violated properties say, and the findings

* **`WindowLimit`.** A slide of the window halves the count instead of counting
  the incidents still in the window: more than the maximum are created within
  one window.
* **`RetriesWork`.** `handleStateFailure` adds the same data again, the run then
  stores its failure under the key of that data, and the retry returns the
  stored failure. The incident stops without being executed again or
  escalated. Fix attempts escape, their number is part of the key. The
  executors are placeholders today, so it takes a circuit that refuses.
* **`ServerClosed`.** `closeServerConnections` maps over the list that
  `closeConnection` splices, and skips every other connection.
* **`CommandsFindConnection`.** `executeCommand` and the transfers look up the
  pool by the connection's id where it expects a server's: no command finds a
  connection. The tests replace the pool.
* **`RollbackReverses`.** Two steps of one order (`web-server-config-fixes.service.ts:441`,
  `:520`) are undone in the order in which they were done. `RollbackRestores` holds
  for everything else.

Passing properties also record a disagreement, each a finding of `PROJECT.json`.
Two say what the code does although a comment or a test says otherwise:
`MaintenanceForgetsNobody` (maintenance never removes a site) and
`NoEscalationAboveMaximum` (with the defaults nothing is escalated for flapping).
So does

* **`DiscoveryTellsNothing`.** The filter refuses a command of every detector before
  it has an answer: none finds anything, ever, and what an operator had entered is
  overwritten.

The others name or count what should not happen:

* **`LiveIsKnown`.** A full pool leaks the client it refuses. `closeAllConnections`
  clears the maps after it has awaited the closing of the ids it took before: who
  joined meanwhile is dropped without being ended.
* **`FailuresLock`.** A failure writes the number that was read plus one: of two
  that overlap one is lost.
* **`LockHolds`.** A success resets the row whatever it says by then, also a lock that
  was set after the login had looked.
* **`SecondFactorHolds`.** The codes left are computed from those that were read and
  written without a condition: two requests use one code, and a late one brings
  back the codes that a regeneration replaced.
* **`RollbackReportTrue`.** The names of backups are made of the millisecond, the type
  and the base name, so that two of them may be one file. A removal of a directory
  that fails is not noticed: the archive is unpacked over what is left, and the
  directory is reported as restored.
* **`TimelineExplains`.** An update that writes the state it had read over one that it
  had not owes no event for it. The property holds all the same: that state had
  been told when it was first reached.
* **`EvidenceGenuine`.** The total of a full collection counts the log files that
  could not be collected, of which there is never a row.
* **`InventoryKept`.** Two requests look for a domain before either writes, and the
  schema does not make it unique; domains are shared in no other way.
  It also names the servers whose credentials do not fit their type: an
  update that gives credentials without a type stores a key under the name of a
  password (`servers.service.ts:181`), and a rotation writes by the type it read.
* **`ToldWithinEstimate`** leaves out requests that name incidents without
  `maxRecords`: the names are then disregarded (`purge.service.ts:1195`).

### Met while modelling

Facts of the code that the modules follow and that no property is about:

* `database-connection-restoration.service.ts:288` builds a regular expression
  with an unmatched parenthesis, so the playbook fails wherever `wp-config.php`
  can be read. `fixHtaccessIssues` replaces an `.htaccess` whose probe failed,
  without a rollback step. `canApply` of tier 3 asks `test -f` of directories.
* A rollback of backups moves the archive of a directory into the directory when
  the artifact has another type, and reports success; the exception is named in
  `RollbackReportTrue`.
* A site that cannot be reached passes the checks for fatal errors and
  maintenance; checks that were skipped are stored as failed rows.
* Records of `purge_audit` refer to a user: purges by `system` or by nobody
  leave none. An audit event that fails makes a purge that was carried out
  reported as failed. The first manual purge, a dry run included, creates a
  default policy of three days for everything, which the automatic purges use.
  The monitoring's emergency purge names a table that the purge refuses.
  A schedule of 0 days is accepted and every run of it fails.
* `addDataRetentionJob` passes the default options with it, three attempts, over
  the queue's own `attempts: 2, // Fewer retries for cleanup jobs`
  (`redis.config.ts:151`).
* The half-hourly reset resumes a queue that an operator paused, if it has
  failed jobs.
* Lowering the number of fix attempts is no event; the bound on attempts is that
  of the row that was read.
* `detectMultisiteConfiguration` does not disconnect when a command throws.
* Two logins at once insert the hash `'temp'` twice and one is refused.

## 5. Proofs

TLAPS proves these for every value of the constants, from the assumptions named
in the modules (thresholds and sizes are natural numbers, `Connections` is
finite, servers are not connection ids).

* `CircuitBreaker_proofs`: `CircuitType`, `ClosedBelowThreshold` and
  `OpenHasDeadline` are inductive, each given `CircuitType`. `RecoveryTimeRespected`
  follows from the last: a probe needs a deadline that has run down to 0, and
  `sinceOpened + retryIn` is at least the recovery timeout.
  `LateSuccessDoesNotClose` is a fact of each step. `PromiseKept` is the
  refinement: initial states map to initial states, and each action to one of
  `CircuitPromise`; that a probe is not early needs `OpenHasDeadline`, that a
  success erases nothing needs that failures are counted with their time.
* `FlappingPrevention_proofs`: the invariant is `Sound` statistics for every
  site: types, a count of at most the maximum, ages in order, cooldown in range, and no
  escalation flag under a threshold above the maximum. The properties of the
  run are not inductive by themselves: a slide that halves the count is bounded
  only because the count was, and `shouldEscalate` stays down only because the
  count never reaches the threshold. One lemma per operator of `FlappingStats`
  says that it keeps `Sound`; the theorem has one step per action.
  `MaintenanceKeepsAll` follows from `CleanUp`, after which the last incident is
  at most one window old. `CooldownsHold`, of a property that no run repeats (that
  no incident is created before its site's cooldown is over), needs that the
  clean-up of the check does not end a running cooldown.
* `Accounts_proofs`, module by module and then of the composed specification.
  `LockHolds` from `LockInv`, which adds to the type that whoever is past the look
  at the lock, while a lock has time left, is in `passed`: a request gets past it
  only without a lock or after one has run out, and a new lock takes down
  everyone who is past it. `FailuresLock` from `CountInv`, for any number of logins
  that overlap: `stale` counts the failures that were written from a number which was
  no longer that of the row, and the failures an unlocked account has seen are at most
  those that its row shows plus `MaxFailedAttempts` - 1 for each of those writes
  (`Hidden`). No smaller number holds for any number of logins: one stale write can
  take back all that was counted.
  `NoSessionOutlivesPassword` from `SessInv`: rows are `OpenUnder` the password of
  the user, a request that works on a session knows its id, an insertion takes the
  password of the moment, a change deletes every row, and no update by id makes a
  row. `HolderKeepsAccess` from `HolderInv`: the pair in a browser is the pair of
  its row, or the row's pair is on its way to it, or was lost on the way, or the
  answer of an earlier refresh arrived after it (`heard`). `SecondFactorHolds` from
  `MfaInv`: what a request has `Seen` of its copy holds of the copy; a code that is
  still stored was accepted at most once for each time that codes were written
  back (`UsesInv`), one of a batch to come never; and without a race of enabling and
  setting up the secret that is written is that of the row.
* `IncidentPipeline_proofs`, five invariants on top of each other. `PipeInv` gives
  `StoredMeansActedOn`: jobs only grow in number, what was handed on or escalated
  stays; a run that is to store its result has `ActedOn` its job, and a stored
  result has a job of its key that was acted on. The property is about every job
  of that key: `OneCourse`, that the jobs of an incident with a way on share state
  and verdict, carries it over. (Assumed: the first job's state and verdict are
  among those the code names.) `LoopInv` gives `LoopsReleased`: a job without a
  worker has no owner, and a run that is no owner any more has a job that stalled
  (`Held`), so a blocked run that cannot report leaves a job that tells of it,
  while the cooldown, which no step ends, goes on. `EndInv` gives
  `FailedMeansEscalated` and `LossesKnown`: what a run is about to return and what
  the status of a job tells was done (`ToldInv`); each attempt used up was followed
  by an escalation or is counted in `unheard` (`HeardInv`); the last job of an
  abandoned incident is one that ended without a successor. The two
  count the escalations that were lost in the history variable `unheard`, because
  two overlapping runs of one incident can lose more of them than one job has
  attempts. `HandInv` gives `HandoversBounded`: for a phase, what was
  asked for, the jobs that wait, the deliveries a stall may still give, the runs
  ahead of their hand-over and the jobs that a failed run is about to add stay,
  together, within 1 plus the trouble so far. It is proved for a finite number of
  workers and `MaxStalled <= 1`, BullMQ's default, which the queue does not
  change; with more redeliveries it is false. `FullInv` gives `BlockedAtMaximum`: the
  count of the site is at most the incidents created, and a cooldown, which a run that
  was blocked finds still running, begins only when that count is at the maximum.
* `SshConnectionPool_proofs`: `LiveIsKnown` is inductive with the types it needs;
  `Closes` says what `Close` does to them. The size bound is a second induction
  over the finite pool. `MapsAlwaysAgree` is the type invariant with `MapsAgree`,
  over lists: `Numbered` and `LeavesTheOthers` say what closing leaves of a list
  (exactly the other ids, each once if it was once), and `Fresh`, that whoever is
  about to insert a connection is the only one to have it, makes it inductive.
* `Records_proofs`. `TimelineExplains`: what the calls still owe, what the timeline
  tells and what was lost to refused statements are, together, every fact of the
  incident. `EvidenceGenuine`: ids are never used again, and a row has the text it
  was signed for or its anonymized form, also in the hands of an anonymization that
  read it before it was deleted; a log file that failed has used up its id
  (`MissedKept`), which no row has then or later.
  For `PurgeLeavesNoneExpired`, a purge knows its cutoff and the tables it has
  left, and in a table that it has been through each row that was old enough is
  among those it picked and deleted; the schedules add that a purge belongs to
  whoever waits for it and that one job at a time has a purge.
  `PurgeStaysInScope` is a fact of each step.
  For `ToldWithinEstimate`, `ForetoldKept`: an estimate stands for numbers by table
  (`Foretold` has them), what is counted of a table is never above its number, and
  neither is what is left of it to delete, since rows only go. A sum of numbers is,
  in the model, the cardinality of so many pairs of a table and a number, so that
  `TotalsGrow` follows from facts about finite sets, without induction.
* `WordPressFixes_proofs`, for the twelve playbooks, whatever the site, what was
  mentioned, the tier and `MaxFaults`. A returned plan and a rollback say nothing of what the
  methods in between rely on; `FixSound` does. Before each method every file is as
  the playbook found it or `Covered`: the plan holds a copy of it, or a command
  failed and nobody knows what it left (`FilesPlanned`); a plugin that is off has a
  step that switches it on (`PluginsPlanned`); each copy in the plan is of what was
  found, but where two steps of one order are for one file (`CopiesTrue`); in the
  playbooks that edit several files each file has an order of its own
  (`OrdersFixed`). `Stage` says what a method relies on of those before it: the
  repair of the tables on the copy of the database, the writing of `wp-config.php`
  on its backup. While a plan is carried out, what is not as it was has a step
  `ToCome`. One lemma per method says that it keeps this, and `SortedHas` that a
  plan has, when it is sorted for the rollback, the steps it had.
* `Healing_proofs`, the members of `MC_Healing` together: `ChangesArePlanned` and
  `RollbackRestores` from `FixSound`, `HealingType` from the types of all.
  `InventoryKept` from `HostInv`: a domain that two rows have is `raced`, and so is
  one that a row and a request past its look, or two such requests, have; what a
  request will write fits the type that it read.
  `DiscoveryTellsNothing`: every detector begins with a command that the filter
  refuses. `VerdictHonest` from `VerificationSound`: each check says what the page
  of its moment showed, and without a change that is the page there is. `VerdictStored`
  from `StoredRight`: who is told a verdict has all of its rows or none, and who is told
  of a failure has the rows of the failure last.
  `RollbackReportTrue` from `BackupInv`: a local file is the copy of a call that
  used its name, a row belongs to one call that is done and has an id of its own,
  the artifacts are tried from the newest to the oldest, so that the last one
  tried for a target is the oldest of its rows, and what is gone is reported.

The invariants were checked by TLC, on the instances of section 4, before they were
proved. The assumptions about constants are named in the modules; those that
proofs brought are `NobodyAssumption` (nobody is no server), the finiteness of
`BackupCalls` and that `Nothing` is no connection or server: distinctions that
the code makes by `null`.

Only model-checked: liveness (`NotStuckOpen`, `CooldownEnds`, `JobsFinish`,
`UnusedLeaves`, `StuckLoginsEnd`), which TLAPS does not prove under fairness. Only
proved, and in no run: `CooldownHolds`.

## 6. Not modelled, and limits

* Checkpoints, progress and the loop bounds: written and never read, or never
  binding, in the processor's use.
* The expiry of stored results after 24 h: retries come within 30 s and BullMQ's
  attempts within minutes.
* Two Node processes: flapping, loops and circuits are per process, and the
  deployment runs one API container.
* `updateConfig` of flapping prevention, the queue's pause and resume, and
  BullMQ's removal of old jobs.
* Host keys, file transfers and templates of SSH, cryptography, formatting,
  notifications to browsers, audit and metrics; CRUD services whose operations
  are single database statements; searches, listings and statistics.
* What commands of the playbooks print: a choice among what the code tells
  apart. Two runs of playbooks on one site at a time: nothing in `src` starts
  a run, or keeps two from overlapping.
* Registration, e-mail verification, and the emergency disabling of a second
  factor, which asks for a role named `Super Admin` (the seed has `SUPER_ADMIN`).
* `updateSchedule`, `deleteSchedule`, `createPurgeSchedule`,
  `scheduleDataAnonymization` and `executeSpecificPlaybook` of tiers 2 and 3:
  nothing calls them. The modes soft and archive of a purge, its backup and its
  integrity check: they decide nothing.
* New rows while a purge runs: a purge deletes what is older than its cutoff,
  which new rows are not.
* In `SshConnectionPool`, `Borrow` (getConnection by server id) has no caller in
  src that compiles to it; it is in the model because the pool offers it. Ids
  of connections are reused once gone, which fresh UUIDs never are: nothing
  in the pool remembers an id it has dropped.

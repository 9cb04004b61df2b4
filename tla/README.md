# Verification of trash-scan

TLA+ models of the trash-scan backend (`src/backend/app`), their model checking with TLC, and
theorems about them checked with TLAPS. Paths below are relative to `src/backend/app` unless they
start with `docs/` or `README.md`, which are the repository's.

## 1. The system

FastAPI processes, one Celery *beat* and several Celery workers share a PostgreSQL database and a
Redis queue. Authorised users ask for scans of targets they own; administrators approve the active
ones; workers run external tools in stages and persist what they report.

| component | code | state it keeps | operations | must hold |
|---|---|---|---|---|
| scan state machine | `services/execution_service.py` | `ScanExecution.state`, `runtime_deadline_at` | `transition`, `active_slots`, `capacity_available` | only moves of the ALLOWED table; terminal states final; limits on running executions |
| scans API | `api/scans.py`, `services/scan_groups.py` | rows of a scan (`scan_group_id`), `cancel_requested` | create, start, pause, stop, cancel | nothing starts unapproved; a stop is never forgotten |
| approvals | `api/approvals.py` | `ScanApproval`, the approval window | approve, deny | one decision covers the whole scan |
| worker | `worker/runner.py` | results, `stages`, `partial` | pre-flight, stages under a guard, persist | stops and deadlines end runs; a cut is recorded |
| tasks and queue | `worker/tasks.py`, `celery_app.py` | messages | `run_execution`, `lifecycle_sweep` | lost and duplicated messages and dead workers are made good |
| emergency stop | `services/emergency.py`, `api/emergency.py` | `EmergencyStop` | request, reconcile, clear | CONFIRMED means that nothing covered runs |
| scheduler | `services/schedule_service.py`, `api/schedules.py` | `Schedule`, `ScheduleOccurrence` | `tick`, attest, pause | an occurrence happens once; no active run without approval |
| audit trail | `services/audit_service.py` | `audit_events`: `seq`, hashes | `append`, `verify_chain` | one chain, no gap or fork |
| lab sessions | `services/session_broker.py`, `terminal.py`, `guided.py`, `stream.py`, `capabilities.py` | sessions, controller leases, request ids | acquire, heartbeat, take over, input, close | one controller at a time; no input after a takeover |
| proofs and fixtures | `services/proof.py`, `lab.py`, `framework.py` | one-shot plans, attempts, the fixture's holder | plan, approve, execute, recover | a plan is used once; a fixture has one holder |
| findings, issues, review | `services/findings.py`, `comparison.py`, `coverage.py`, `issues.py`, `review.py` | findings, coverage, issue states | derive after a run, review | an issue closes only on evidence that covers it |
| scope decision | `services/scope_service.py`, `scope_db.py` | scope rules | `decide` | deny wins; private addresses need a rule |
| accounts | `api/auth.py`, `security.py`, `bootstrap.py` | users, web sessions | set up, log in, log out | one first administrator; expired sessions end |
| tools | `adapters/*`, `services/coverage.py` | a process group, result files | `run_tool` with a cancellation poll, coverage of a stage | the group dies when the run is cut short; a cut clears nothing |
| the rest | profiles, vulnerability intelligence, reports, retention, notifications, the frontend | derived data | | |

Interactions. A request is one database transaction: it reads rows, decides, writes, appends audit
events and commits; only then it sends Celery messages (`run_execution(id)`). A message carries
nothing but the id: the worker reads everything again in its pre-flight. The worker uses three
kinds of transaction: pre-flight, the guard's polls between and within stages, persist. Beat runs
`lifecycle_sweep` every 30 seconds, which expires approvals, reconciles the stop, times runs out
and sends messages again. Sessions are opened with `autoflush=False` (`db.py:25`), rows carry no
version column and handlers take no row lock.

What is hard here: handlers overlap on the same rows and decide on stale copies; a process may die
between its commit and its messages; messages are lost (Redis without persistence), duplicated
(late acknowledgement, visibility timeout, the sweep) and reordered; workers die within a run; the
clock passes windows and deadlines at any moment; two locks (row, audit) are taken in different
orders. `PROJECT.json` lists every such hazard at its line and the properties aimed at it.

## 2. The modules

```
ScanStates --- ScanLifecycle              what is promised about one execution
     \              ^ implemented by (ScanCore!Lifecycle)
      ScanHandlers --- ScanCore --- MCScanCore, ScanCoreProofs
                 \---- ScanRace --- MCScanRace, ScanRaceProofs
AuditTrail --- MCAuditTrail, AuditTrailProofs
Schedule --- MCSchedule, ScheduleProofs
LabProof, LabSession --- LabProofs
LabProof, LabSession, Scope --- MCLab
Access, Scope --- AccessProofs
Access, Issues --- MCRecords
Issues --- IssuesProofs
ToolRun --- MCToolRun, ToolRunProofs
```

**ScanStates** has the states, `Terminal`, `Occupying` and the ALLOWED table as a relation.

**ScanLifecycle** is the abstract specification: every execution moves along the table, terminal
states are final, an active execution is queued or run only when granted. One step may move many
executions, because handlers act on all executions of a scan.

**ScanHandlers** has no variables. It says what each handler does to the rows it has read, as
functions: `StartRow`, `PauseRow`, `StopRow`, `ApproveRow`, `PreflightState` (the early returns of
`runner.execute` in their order), `PersistRow`, `Swept`, `Reconciled`, and the guards `CanStart`,
`CanApprove`, `Room`, `Blocks`. Both models below use the same functions, so that they cannot
drift apart. A time is kept to what the code compares it with: `unset`, `ahead`, `passed`.

**ScanCore** applies them to the database as it is: a handler's transaction is one step. Messages,
the second transaction of the emergency stop, each stage and persisting are steps of their own,
and crashes come between them.

| variable | in the code |
|---|---|
| `row` | `scan_executions`: `state`, `cancel_requested`, `approval_expires_at`, `runtime_deadline_at`, `partial` |
| `approval`, `stop` | `scan_approvals.state` of each scan; the latest `emergency_stops` row |
| `toSend`, `toReconcile` | what an API or beat process has yet to do after its commit |
| `msgs` | `run_execution` messages in Redis, counted per execution (their order is free) |
| `worker` | the execution, the stages left and the `incomplete` flag of a worker |

`CreateScan`, `OccurActive`, `QueuePassive`, `Approve`, `Deny`, `Start`, `Pause`, `StopScan`,
`CancelExecution`, `RequestStop`, `ReconcileStop` and `ClearStop` are the handlers; `Send`,
`ProcessDies`, `QueueLost` and `Redeliver` the queue; `Deliver`, `RunStage`, `Persist`,
`WorkerDies` and `TaskFails` the worker; `Sweep` is beat; `WindowPasses` and `DeadlinePasses` the
clock. A stage ends well or not, whatever it ran. The scope decision at pre-flight is a free
Boolean, because DNS and policy may have changed.

**ScanRace** drops the assumption that what a handler read still holds when it commits: each
transaction is a `Begin` that loads a copy and a `Commit` that writes the columns the handler
changed in its copy (`Dirty`, `Store`: SQLAlchemy's unit of work), over whatever the row has
become. It has no crashes and one stage; those are ScanCore's. The sweep is one snapshot here,
while the code runs several queries one after the other.

**AuditTrail** is the audit chain under overlapping transactions. `NextEvent` is
`AuditService.append`, `Linked` and `Rehashed` are the checks of `verify_chain`. `Takes` is the
advisory lock, `Free` and `LockRows` the row locks a flush takes, `Victim` PostgreSQL's deadlock
resolution. Transactions differ in what they flush before their first append: API requests and
the sweep nothing, a persisting worker its execution's row if a new asset or finding is flushed
(`services/normalization.py:72`, `services/findings.py:75`), the scheduler the schedules of
earlier iterations of its loop. A digest is the whole list of what was hashed into it, that is
SHA-256 without collisions. A flush of several rows is atomic.

**Schedule** is `tick` with everything that overlaps it. Two ticks run at once (beat starts one
every 30 seconds whether or not the last has ended); each loads the due schedules (`Begin`),
handles one after the other (`Handle`) and commits at the end (`Finish`), except that a passive
occurrence is committed within the loop (`Commit`), with what was written before it, and its message
sent. A tick dies (`Crash`) or is the victim of a deadlock on the occurrences' unique key (`Victim`)
between any two of these. `Create`, `Update` and `Delete` are the requests, `Approve`, `Deny` and
`End` what becomes of an execution. `row`, `occurrence` and the execution are the columns the
tick and `_has_open_occurrence` read. The unit of time is 15 minutes, the shortest interval.

**LabProof** is the life of one-shot plans. All of `proof.execute` is one transaction: `PassGate`
decides on committed rows, `Flushed` is the first flush, which locks the plan's and the fixture's
rows, `Run` calls the framework, `Commit` ends it, `Crash` loses it. `runs` counts calls of the
framework, which a rollback does not undo. `Answers` are the outcomes of `_evaluate` and
`_run_exploit` over all answers of the framework.

**LabSession** is what follows when a proof has a session: leases and fencing tokens (`Acquire`,
`Heartbeat`, `Released`), guided actions and terminal frames with their request ids and the
sequence numbers of the stream (`Check`, `Flush`, `Wake`, `Recorded`), and how sessions begin and
end. A request loads, then flushes, then commits; it may be rolled back after its action has run.

**Issues** follows the runs of one target from results to reviewed issues: `Persist` and
`PersistPartial` with `Derived` are the recording (findings, coverage, comparison with `Baseline`,
issues, reopening) in one transaction; `Backfill` derives again from history; `Assign`,
`SetMitigated`, `AcceptRisk`, `VerifyClosure` with `CommitReview` are the reviews, which write
what they loaded, column by column.

**Scope** is `evaluate_active_scope` (`Allowed`) over the tables the administrators keep, with
addresses of a few bits, networks of every prefix length and names as sequences of labels. The
requests that change the tables are its actions.

**Access** is accounts and web sessions. A request is a check (`get_current_session`, which
writes `last_seen_at`), then a handler that commits later.

**ToolRun** is the stage loop around `run_tool`: the leader of a process group and one more
process of it, the pipe, the result file, the stage's deadline and the guard; `PollDue`,
`TermExpires`, `DrainExpires` are the waits of `run_tool` that end by themselves. `Return` is what an
adapter makes of exit status and file, `CoverageOutcome` what `coverage.py` makes of that.

In all modules the operators named `Bad...` are handlers with a seeded fault that nothing uses;
each property is tried against one of them.

## 3. What the runs check

| run | instance | properties |
|---|---|---|
| `core_pair` | one active scan of two targets, global limit 1, two workers | `TypeOK`, `WithinLimits`, `NoOrphanRun`, `ConfirmedIsQuiet`, `CutShortIsPartial`, `StoppedNeverCompletes` |
| `core_solo` | a scheduled active scan and a passive one, same target | `ApprovedBeforeRun`, `Lifecycle` (refinement) |
| `core_live` | two passive scans with room for both, fairness | `RunEnds`, `StopSettles`, `QueuedIsServed` |
| `core_gridlock` | two passive scans, one slot | `FreeSlotIsUsed`: violated |
| `race` | one active execution, two request sessions, one worker | `GrantedBeforeRun`, `RunningHasDeadline`, `CancelSticks` |
| `audit` | a request, a tick and a worker, one row, fairness | `ChainHolds`, `TransactionsEnd` |
| `audit_deadlock` | the same | `ResultsAreKept`: violated |
| `schedule` | a passive schedule with SKIP every 15 minutes, a daily active one, two ticks, one crash | `TypeOK`, `OneExecutionPerSlot`, `AdvanceLeavesRow`, `DueIsHandled` |
| `schedule_overlap` | one passive schedule with SKIP, two ticks, no crash and no edit | `SkipNeverOverlaps`: violated |
| `lab` | two plans (a check, an exploit) of one fixture and two servers; two sessions of one attempt, two operators that are administrators; four addresses, three names | `ProofTypeOK`, `TypeOK` (of LabSession), `OneRunPerFixture`, `OneShot`, `ActsOnce`, `FencedStaysFenced`, `LiveOnlyOnce`, `StreamInOrder`, `ScopeSound` |
| `records` | two accounts, three sessions, two requests; three runs, one finding, two tools, one reviewer | `TypeOK` (of Access), `EndedStaysOut`, `LastAdminByOverlap`, `IssuesTypeOK`, `NegativeIsCovered`, `AbsenceIsRecorded`, `EverySightingProjected`, `ReopenedWhenSeen` |
| `tool_run` | the stages of all profiles | `OnlyDeafSurvive`, `CutNeverAssesses`, `EndsUnlessHeld` |

*Limits.* `WithinLimits` is about RUNNING rows: messages of any number and order reach the
capacity check at once and no more executions run than allowed. The check and the state change
are one transaction here; overlapping checks are in `ScanRace`, whose one execution cannot exceed
a limit, so whether two overlapping pre-flights can is open (section 6).

*Cancellation and deadlines.* `StoppedNeverCompletes`, `CutShortIsPartial` and `NoOrphanRun` hold
through crashes and redelivery, because the worker re-reads the row when it persists.

*Emergency stop.* `ConfirmedIsQuiet` also covers executions created or queued after the stop was
requested, which `reconcile` does not look at: the pre-flight's block is what keeps them quiet.

*Approval.* `ApprovedBeforeRun` (core) and `GrantedBeforeRun` (race) say that neither pausing and
restarting, redelivery, crashes, nor any overlap of two requests gets around the decision.

*Liveness.* `RunEnds`: the sweep ends what its worker has lost. `StopSettles`: a stop whose
request died before reconciling is confirmed by the sweep. `QueuedIsServed`: the sweep replaces
lost messages, as long as the limits leave room for all queued executions; without room
`core_gridlock` shows what happens.

*Audit.* `ChainHolds` says that the committed events have no gap and no fork, and which events
`verify_chain` reports all the same: the scheduler's approval requests, hashed with the id `None`
that the insert then replaces (`services/schedule_service.py:173-177`).

*Schedules.* `OneExecutionPerSlot` holds although a tick commits half-way and dies, because the
occurrence's unique key is taken before its execution is made; `AdvanceLeavesRow` says that
`next_run_at` never passes a slot in silence. `DueIsHandled`: whatever ticks lose, the next ones
make good. `SkipNeverOverlaps` is what no unique key protects: `_has_open_occurrence` reads what
others have committed, for a due time loaded when the tick began (disagreement 3 below).

*Lab.* `OneRunPerFixture` does not rest on the gate's query for another active proof
(`services/proof.py:156`), which is never true of committed rows, nor on `acquire_lock`, but on
the row locks of the first flush. `OneShot` is about a consumed plan nobody is working on;
*before* that, two overlapping executions both pass the gate and run the plan one after the
other, and a crash between the call and the commit forgets the call (`runs` counts both), though
`models/__init__.py:623-628` says that a plan authorises one start. `FencedStaysFenced` and
`LiveOnlyOnce` hold with two active leases, which overlapping acquisitions can leave. `ActsOnce` is
per committed or open transaction: an action whose transaction is rolled back afterwards has run,
and runs again when the request is retried.

*Issues.* `NegativeIsCovered` and `AbsenceIsRecorded` are the two directions of the comparison:
what is denied was looked for in full, and what is known to be gone does not stay open.
`ReopenedWhenSeen` covers issues that were closed when the recording began: a closure that commits
during the recording loses the reopening.

*Access and scope.* `EndedStaysOut` covers the sessions open when the ending request arrived; a
login that overlaps a reset still gets a session. `LastAdminByOverlap` names the one way to lock
everybody out. `ScopeSound` is evaluated for every target, resolution and content of the tables;
of a network it claims the deny rules only for its first and last address, as the code does.

*Tools.* `EndsUnlessHeld` and `OnlyDeafSurvive` name exactly what is not promised: a process that
has outlived its leader and holds the pipe, and one that ignores SIGTERM under a leader that obeys
it.

### Disagreements with the code

Each of the first three is a run that TLC refutes.

1. `FreeSlotIsUsed`: `active_slots` counts QUEUED executions, so executions queued together for
   one slot count each other and none is ever started ("lifecycle_sweep re-enqueues when a slot
   frees", `worker/runner.py:107`).
2. `ResultsAreKept`: a worker holds its row and asks for the audit lock, a stop request holds the
   lock and asks for the row. PostgreSQL aborts one; if it is the worker, the run's results are
   lost and the row stays RUNNING until it is timed out ("lands the run in `CANCELLED` with
   partial results retained", `docs/ARCHITECTURE.md:144`).
3. `SkipNeverOverlaps`: a tick loads `next_run_at` once and writes it back at its commit
   (`services/schedule_service.py:187-190`). One that stalls writes an older value over a newer
   one; the older slot is due again, and while one tick holds an uncommitted slot the check of
   another (line 114) does not see it. Both commit an execution of a schedule with SKIP ("Prevent
   overlapping executions for the same schedule", `Trash_Scan_PRD.md:319`). It takes ticks that
   last about half an interval, 7 minutes at least, while beat starts one every 30 seconds.

The others are behaviours the models contain and no property forbids:

- A message for an execution that is already RUNNING makes a second worker run its stages
  (`worker/runner.py:160`; "A stray or duplicated queue message is a no-op", `README.md:133`).
- `transition` guards the copy a session loaded, so a stop that commits CANCELLED between an
  approval's read and commit is overwritten with APPROVED (`services/execution_service.py:80`;
  "Terminal states are idempotent", line 5).
- The OSINT stage counts as ASSESSED when it looked at nothing, because its note does not begin
  with "no " (`adapters/osint.py:150-155`; "an exit-zero skipped check is not evidence of a clean
  target", `services/coverage.py:39`). Earlier OSINT findings then become NOT_OBSERVED.
- A tool that fails after part of its results, or that finds the file of an earlier run of the
  execution, is successful by its results (`adapters/httpx.py:206`), hence ASSESSED.
- subfinder and dnsx do not pass the guard on (`adapters/subfinder.py:54`, `dnsx.py:201`), so a
  stop is seen only when their stage ends ("polls it ~1/s", `docs/ARCHITECTURE.md:144`). A guard
  whose query fails leaves `run_tool` with the tool alive. While a tool is polled nobody reads its
  pipe; one that writes more than the pipe takes is stuck until its stage's deadline.
- A backfill adds occurrences of runs that were cut short and reopens verified issues by them
  (`services/issues.py:117-120` says that it never does so spuriously).
- An approval that was loaded before a plan was consumed writes APPROVED over CONSUMED
  (`services/proof.py:115`), until the transactions that overlapped are over.
- Two first-run setups at once create two administrators (`api/auth.py:66`).
- A deny rule strictly inside a network is not looked at (`services/scope_service.py:213-215`);
  a domain boundary admits whatever its names resolve to.

### Bounds

- Two executions are the smallest number where limits, scans with several targets and mutual
  waiting exist; each run picks the pair that makes its question interesting. One stage separates
  the guard before it from persisting; more stages repeat it.
- `MaxMsgs = 1`: a further message for an execution whose message has not been taken yet adds
  nothing, since handlers read the row and not the message. Duplicates still happen: a message is
  taken, and another sent while its worker runs.
- `MaxOpen = 2` overlapping transactions in ScanRace: every pair of handlers. `Session` is
  symmetric; only safety is checked there.
- `MaxEvents = 2`, `MaxAppends = 2` in AuditTrail: transactions begin while fewer than two events
  are committed and add up to two each, so a chain grows across three sessions with pending
  events in each. `CHECK_DEADLOCK FALSE` because the model stops when the trail is full.
- Schedule: `MaxTime = 3` units give the short schedule three slots and the daily one, scaled to
  three units, one; two ticks are every overlap of beat's; one crash and one edit each show what
  either can do, more repeat it. The run ends when the time is over.
- Lab: two servers, clients, sessions and operators are every pair that can meet; two leases and
  records let one be replaced and one be retried; `MaxActions = 1` makes the budget bind.
  Both operators are administrators, so that every takeover is allowed: that leaves out refusals
  and nothing else. `OneGrant` keeps terminal grants to one at a time. LabProof and
  LabSession share only the attempt's state.
- Issues: three runs are the least where a baseline can be skipped; one finding shows every
  order of sightings, coverage and reviews; the second tool's coverage is never the finding's.
- Access: two accounts, three sessions and two requests: an administrator, another one, and a
  session that is neither's own. Scope: with two bits a network can be inside, across and outside
  the private blocks, and a rule at its ends or within it; three names give a sector, a name and
  one below it. The parts of a run are explored apart.
- ToolRun has no bound but the two processes of a group.
- The proofs of section 4 drop these bounds for what they cover.

### Fairness

Core: weak for `Sweep` (beat's schedule) and for deadlines (the clock), weak for each worker's
stages and persisting (`run_tool` enforces its timeout), strong for the delivery of each
execution's message, which pausing, losing messages and restarts disable again and again. Nobody
is obliged to start, stop, approve or clear, nor does anything have to crash or survive. Audit:
strong for the work of each session, because PostgreSQL serves lock waiters in order, and weak for
deadlock resolution. Schedule: weak for beginning ticks (beat), for a tick that lives to go on, and
for deadlock resolution; nobody must create, switch or approve anything. ToolRun: weak for the
worker's own steps and for the stage's deadline (the clock); tools may do nothing at all. The
safety runs assume no fairness.

## 4. What is proved

The eight modules `...Proofs` are checked by TLAPS to the last leaf, for any executions, workers,
sessions, schedules, plans, accounts, runs and findings, and any value of the bounds. They rest on
the assumptions named in the modules, which say no more than what the database and the
configuration guarantee:

- `ExecAssumption`, `LimitAssumption`, `WorkerAssumption`, `RaceAssumption`: executions are finite
  and belong to scans, limits are numbers, workers and API sessions are different processes;
- `AuditAssumption`, `PlansAssumption`, `LabProofAssumption`, `LabSessionAssumption`,
  `ScheduleAssumption` (intervals are positive), `IssuesAssumption` (each finding has its tool and
  its issue): the shapes of the constants;
- `ScopeAssumption`, `BuiltinAssumption`: the blocks `ipaddress` calls private are networks, and the
  built-in rules are rules;
- `NoneAssumption` (LabSession, Access, Schedule), `ActorsAssumption`: no row is NULL, and the worker
  is not an API process.

In each module one invariant is inductive and there is a lemma per action; what is listed as a
theorem follows from it. Why the properties are not inductive alone:

*ScanCore.* `IInv` is the conjunction of `TypeOK`, `RowsOK`, `ApprovalsOK`, `MessagesOK`,
`WorkersOK`, `StopOK` and `WithinLimits`. None of the properties is inductive alone:
`ApprovedBeforeRun` needs that a queued, running or worked-on row of an active scan belongs to a
granted approval (`ApprovalsOK`, `WorkersOK`); `ConfirmedIsQuiet` needs that what still runs
under a stop has been signalled (`StopOK`); `WithinLimits` needs that the count of the capacity
check bounds the count of RUNNING rows. There is one lemma per action; `Framed` lemmas collect
what an action leaves alone. From `Invariance` follow `TypeCorrect`, `ApprovalRespected`,
`LimitsRespected`, `RunsHaveRows`, `ConfirmedMeansQuiet`, `PartialIsRecorded` and `StopIsHonoured`
(an action property). `Refinement` shows that ScanCore implements ScanLifecycle: initial states
map to initial states and every step to a step or a stutter.

*AuditTrail.* `IInv` is `TypeOK`, `LockHeld` (who has pending events, or is about to insert one,
holds the advisory lock), `ChainHolds` and `PendingContinue` (a transaction's pending events
continue the committed chain). `TrailChains` is `ChainHolds` for any number of sessions, rows and
appends.

*ToolRun.* `IInv` is `TypeOK`, `StageAtHand`, `LeaderEnded` (the leader does not run while the
worker drains its pipe or is between stages), `CutEnds` (a tool that was cut runs only until its
grace is over, and a child that is left then is deaf) and `ClearsOK` (what counts as assessed was
cut by nothing, or by a stop still in force). `CutIsDead` and `CutClearsNothing` follow for any
plans of stages.

*ScanRace.* `IInv` is `TypeOK`, `RowsOK`, `CopiesOK`, `TxOK` and `SentOK`. A commit writes columns
decided on a copy over a row that has changed, so the invariant is about the copies: what was set
when a copy was made is still set (`StillSet`), because no handler unsets a column. Row and copy
each make sense alone, and so does the mix that a commit leaves. `ApprovalSurvivesRaces`,
`DeadlineSurvivesRaces` and `StopSurvivesRaces` follow.

*LabProof.* `ProofTypeOK` is inductive, and `OneRunPerFixture` with it: the first flush comes before
the call and waits for the fixture's row. `ApprovalIsOneShot` shows that every step leaves a settled
plan settled.

*LabSession.* `SessInv` is `TypeOK`, `SubjectsKnown` (no session row is deleted), `RunsAlone` (of the
transactions that carry one request id one has run, and no record of it is committed) and
`StreamOK` (a stream is `1..m`, and the next number belongs to one transaction). From it follow
`RequestsActOnce` and, step by step, `FencingIsFinal`, `AdoptedAlone` and `StreamHasNoGap`.

*Schedule.* `ScheduleInv` relates the ticks that are open to the tables: what a tick has inserted
and not committed nobody has committed (`RowsOK`), no two ticks have inserted the same slot
(`RowsApart`, the unique index), and a tick moves a schedule on only past a slot with a row, its own
or a committed one (`MovedOK`). `SlotsRunOnce` and `NoSlotIsPassedOver` follow.

*Access and Scope.* `AccessInv` says of every open request what its check still guarantees
(`CheckedOK`, `HandledOK`), and that what was ended is revoked. `EndedForGood` follows, and
`LastAdminIsSafe` step by step. `ScopeInv` says what the requests let into the tables;
`ScansStayInScope` is then arithmetic of prefixes, for addresses of any width.

*Issues.* `IssuesInv` adds to the three properties what the open transactions are about to write:
an issue that a derivation relies on exists or is created with it, and what it reopens it has seen
(`DerivationOK`); a backfill adds only what was seen (`BackfillOK`); the run being recorded is still
open and its baseline is what it was when it was compared (`Recording`), since one recording is
open at a time. `RunsOK` and `LastCandidate` say that results appear with the log and that a
baseline, where there is one, is the candidate that finished last. From it `DenialsAreCovered`,
`DenialsAreRecorded`, `SightingsAreProjected` and, step by step, `ClosedComesBack`.

Only model-checked: liveness (`RunEnds`, `StopSettles`, `QueuedIsServed`, `TransactionsEnd`,
`DueIsHandled`, `EndsUnlessHeld`), which rests on fairness and `ENABLED` and is out of the prover's
reach. Every other property of a passing run is a theorem.

## 5. What is not modelled

In the modelled parts:

- the attribution and wording of audit records and notifications; who may ask (any request that
  passes the checks of its handler is possible at any time), except in Access; target creation on
  the fly; several emergency stops in force at once; the finer order of queries in a sweep. A
  transaction that PostgreSQL aborts appears in ScanCore as a task that fails or a request without
  effect.
- scheduler: the branch that denies an occurrence whose attestation does not match, since no
  request changes an attested field. The tick looks neither at an emergency stop nor at an
  archived target; the worker's pre-flight does (ScanCore).
- lab: the static tables of capabilities and modules, the evidence summary of a session, the RPC
  of the real framework. No request creates sessions or their grants, and only tests call
  reconcile, disconnect, quarantine and terminate: the model lets the lab's runtime do so.
- issues: validation states, risk exceptions and their expiry (only tests call it).
- access: cookies, hashing, throttling; assignments of targets, port sets.
- tools: command lines, the content of reports, the fake adapters. The grace is
  5 seconds whatever `cancel_grace_seconds` says, which changes no order of events. Processes of a
  tool that survive a dead worker are beyond the model.

Not modelled: vulnerability intelligence and exploitability (pure derivations over stored
observations), the parsing of port lists, reports, log retention, notifications, the frontend:
formatting, parsing and storage without a protocol.

## 6. Plan

Done: the execution core with its races and the audit trail; the scheduler, the lab, issues,
access and scope, and the tools. Next, in this order:

1. Proofs about what several models share: that ScanRace, handler by handler, stays within
   ScanLifecycle as far as it can, and which of ScanCore's properties survive there.
2. ScanRace with two executions, so that overlapping pre-flights meet the limits.
3. The derivations of `services/exploitability.py` against a reference definition.

There is one passing run per question. Modules that share nothing are checked in one run (`lab`,
`records`), each with the others as they start, where the product of their states would show
nothing more.

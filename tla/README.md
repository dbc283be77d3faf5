# Pivloom in TLA+

Pivloom lets an account describe a small web application; the service plans it
with one model role, builds it with another inside a remote sandbox, checks it
with a third in a real browser, and keeps what passed as a version of the
project. This directory holds the formal model of that service: TLA+ modules
translated from the source, TLC runs on small instances, and theorems whose
proofs TLAPS checks for every instance.

| file | what it is |
| --- | --- |
| `RunLifecycle.tla` | the core: the runs of one project, its sandboxes, the API process, restarts |
| `ProjectVersions.tla` | abstract specification: what a project promises about its accepted versions |
| `MCRunLifecycle.tla`, `MCRunLifecycle_*.cfg` | model-checking instances, and the documented statements the code does not keep |
| `RunLifecycleProofs.tla` | type correctness, project lock, irreversible outcomes, current base, that it implements `ProjectVersions`; the sandboxes of the runs: tracked, one at a time, accepted previews, cleanup |
| `SandboxLedger.tla`, `Rollback.tla`, `PreviewRestore.tla`, `SandboxOperations.tla` | what shares the ceiling of sandboxes: rollbacks, preview restores, queued runs, idle previews; the last composes the others |
| `MCSandboxOperations.tla`, `MCSandboxOperations.cfg` | its model-checking instance |
| `SandboxOperationsProofs.tla` | all safety of `SandboxOperations` |
| `EventStream.tla` | the events of a run on their way to a client: rows, hints, stream, response, reconnects |
| `EventFeed.tla` | abstract specification: what the client is promised of those events |
| `MCEventStream.cfg` | its model-checking instance |
| `EventStreamProofs.tla` | all safety of `EventStream`, and that it implements `EventFeed` |
| `TaskQueue.tla` | the order in which waiting tasks of all accounts start |
| `MCTaskQueue.tla`, `MCTaskQueue_turns.cfg` | its model-checking instance |
| `TaskQueueProofs.tla` | all safety of `TaskQueue` |
| `CandidateSession.tla` | one candidate while it is made: its events, its lease, the watchdog |
| `MCCandidateSession.cfg` | its model-checking instance, with the budgets of the code scaled down |
| `CandidateSessionProofs.tla` | all safety of `CandidateSession` |
| `PlanLineage.tla` | what a project has promised, from version to version |
| twenty-three more component modules | section 8 has one paragraph for each |
| `MCComponents.tla`, `MCComponents.cfg` | model-checking instances of these components and of `PlanLineage` |
| `ComponentProofs.tla` | access (publication, client session, model profiles, preview grants) and checks (reviewer, review loop, clock, replay, programs) |
| `ComponentRequestProofs.tla` | what is asked once: submissions, rollback requests, imports, visitors' answers; limits: sums, remote browser and workspace, tokens, capacity, notes |
| `ComponentVersionProofs.tla` | what a version is: trusted build, coordinator, builder, stored source, project view; plans from version to version; the limits put together |
| `PROJECT.json` | components, runs, mutants, source map, findings, hazards, theorems |

## 1. Inventory

Paths below are under `src/apps/api/src/` unless they start with `src/`.

| component | state it keeps | operations | hard behaviour | what makes it correct |
| --- | --- | --- | --- | --- |
| run repository `data/generation.ts` | `nano.projects` (lock `operation_id`, current version), `nano.runs`, `role_runs`, `revisions`, `sandboxes`, `run_events` | some 30 transactions: accept, claim, prepare, coordinator/builder/reviewer steps, finish*, cancel, cleanup | results, stops, sweeps and recoveries commit in any order; READ COMMITTED; two transactions take the row locks the other way round | one live run per project, results only on the current base, terminal states final, cleanup accounted for |
| executor `generation/executor.ts` | `tasks`, `resources` (in memory) | `start`, `execute`, `executeTemplate`, `destroy`, `retrySettlement`, sweep, `cancel`, `restore`, `close` | every await may fail or lose its answer; destroy is shared by the task and the sweep | a task always settles; no sandbox leaks; an accepted preview survives |
| candidate runner `generation/candidate.ts`, trusted build `runtime/generation.ts` | the remote sandbox, its tree, the abort listener | create, register, seed, check, build, mark, serve, unwind, destroy | a create that returns after the stop; a kill without an answer; a builder's leftovers that write during the build | what is not handed over is destroyed; what is served was checked and is what is stored |
| workspace `runtime/workspace.ts` | entries, leases, writers | create, renew, exec, io, revoke, kill | calls that fail after they took effect; concurrent kills | gone means gone; no lease reported too long |
| order between accounts, migrations 020, 021, 023 | `dispatched_at`, `created_at` of runs | rank, position, claim, delete a project | the latest dispatch of an account is read from rows that come and go; NULLs; cleanups that nobody confirms | accounts take turns; a project is serial; nobody waits for ever behind work that ends |
| scheduler `generation/scheduler.ts`, migrations 020-023 | the queue is `runs.state='queued'`; `running` tick | claim, prepare, park, recover stranded claims, sleep a preview | a claim whose hand-over fails; a slow executor | order within a project; nothing waits behind a dead claim; the ceiling holds |
| service and boot recovery `generation/service.ts`, migrations 009, 010 | `executor_boot_id`, claims of restores and rollbacks | `recoverOnce`, recovery timer, `cancel` | a crash between any two steps; recovery that itself fails | a restart frees every project, without killing accepted previews |
| rollback `data/rollback.ts`, `generation/rollback.ts` | `nano.rollbacks`, the same project lock | begin, register, prepare, commit, cancel, fail, recover | crash after commit, before the preview is registered; lost answers | returns only to an accepted version, atomically; its project is freed |
| preview restore `generation/restore.ts`, migrations 013, 022 | `preview_restores`, `pendingRestoreFailures` | begin, claim, register, bind, fail | timeouts racing the result; boot scan racing a new create | its sandbox is owned by somebody; its project is freed |
| capacity, migrations 019, 024 | counts over runs, restores, rollbacks, sandboxes | reserve, occupied, reclaim | several transactions draw on one ceiling | never oversold |
| reviewer `runtime/reviewer.ts`, `generation/review*.ts` | evidence, drafts, receipts, the ledger of passes | tools, submit, stop, retry, continue, route | partial results over several sessions; deadlines that race answers | a pass was seen; the loop ends; evidence belongs to the candidate |
| scripted checks `runtime/replay*.ts`, `verification-program*.ts` | programs, observations, captures | compile, save, run, judge, merge | late saves; steps that throw; judgements that come later | one requirement, one program; a pass is proved |
| browser `runtime/browser.ts` | flags of one session | commands, programs, close | late commands, lost interrupts, concurrent closes | a closed browser is closed |
| plans `src/packages/contracts/src/planning.ts`, `runtime/coordinator-plan.ts` | the plan of each version, its replacements | propose, compose an increment, compare, rebase | a plan compared with a base that is not the base any more; ids that come back | what was required stays required, or was replaced as asked |
| coordinator `runtime/coordinator.ts`, builder `runtime/pi.ts`, `tool-output.ts` | a chain of events, pending output | tools, flush, pump, deliver | saves that lag behind the session and fail | the record is whole and in order |
| token budget, capacity pre-flight `runtime/token-budget.ts`, `capacity.ts` | one ledger per run | reserve, settle | unreported, partial and repeated usage; usage beyond the estimate | never below what was spent; beyond the limit only by what an estimate fell short |
| model profiles and leases `models/*.ts` | versions, keys, leases, proofs of tests | create, edit, remove, test, freeze, release | edits, tests and deletions beside runs | a lease stays usable, a deleted key is purged |
| event stream `generation/events.ts`, `src/apps/web/src/lib/run-events.ts` | hub subscribers, `pending`, `cursor`, `target`; the client's cursor | publish, subscribe, replay, reconnect | hints out of order, late or lost; slow consumers; broken connections | every event once, in order, and in the end |
| source and artifacts `storage/*.ts` | objects by key | save, load, verify | damaged, repeated, unanswered uploads | what a row names is there and is what was built |
| publication and deletion `generation/publication.ts`, `data/projects.ts` | directories, a link, rows | publish, swap, delete, put back | overlaps, crashes, refusals half way | served whole; a refused deletion takes nothing down |
| preview gateway `generation/preview.ts` | entries, grants, in memory | register, issue, exchange, clear, revoke | grants issued by several requests across awaits, while sessions end | one grant for each live session; none lost |
| app data `data/app-data.ts` | records, one versioned value | submit, confirm, remove, save | repeated submissions, two pages | accepted once, kept, never undone unseen |
| templates `starters/*`, `executeTemplate` | `template_imports` | ask, import, accept | lost answers at either end, stops, crashes | one project per request, whole or not at all |
| web client `src/apps/web` | submit latch, stored keys, snapshots, epochs | submit, confirm, retry, poll, log in and out | reconnects, double submits, answers after a change of user | asked once; shown as saved; private |
| watchdog `generation/progress-watchdog.ts`, budgets `runtime/budgets.ts` | deadline, credits that were given | touch, abort | progress racing the timeout; progress that is none | the stop wins over a late result; a run without progress ends |

How they interact: a route calls `accept` (a queued run) and wakes the
scheduler. `tick` claims a run and the project lock in one transaction
(`claim_next_queued_run`), rebases or parks it (`prepareDispatch`) and calls
`executor.start`. The executor's task then alternates between repository
transactions, model sessions and the sandbox: the coordinator decides, the
builder works in the workspace and its tree is built, stored and shown, the
reviewer's sessions check it through the browser until the route of a receipt
accepts it, repairs it or gives up. A stop is first a transaction (`cancel`),
then an abort of the task; with no task the request itself ends the run. A sweep
timer destroys expired or half-destroyed sandboxes, a settlement timer retries
terminal transactions, and a booting process interrupts what the last one left.
Rollbacks, restores and the deletion of a project take the same lock and, all
but the deletion, the same slots. Everything meets in the row of the project.

## 2. The core model, `RunLifecycle`

One project, runs `1..MaxRuns` submitted in that order, attempts
`0..MaxAttempt` of each. Each database transaction is one step and everything
between two transactions interleaves. The variables are

- the rows: `operation`, `current`; `state`, `cleanup`, `attempt`, `expected`,
  `selected`, `earlier`, `boot`, `lease`; `revision` and `row` per candidate;
- the provider: `remote`, the sandbox of a candidate (`none`, `live`, `gone`);
- the process: `dispatch` (a claim between `claimNextQueuedRun` and `start`),
  `task` (where `execute` stands between two awaits, its abort reason and its
  flags), `tracked` and `doomed` (the `resources` map and its
  `cleanupPending` flags), `kill` (the steps of a `destroy` in progress, one
  for each task and one for the sweep), `canceller` (a stop request between its
  two transactions), all lost at a `Restart`;
- `rollback`, and `budget`, which bounds stops, faults and rollbacks.

| actions | code |
| --- | --- |
| `Accept`, `ClaimNextQueuedRun`, `PrepareDispatch`, `ParkDispatch`, `DispatchError`, `StartTask`, `RecoverStrandedClaim` | admission, scheduler tick, `prepareDispatch`, `parkClaim` |
| `StartCoordinator` ... `FinishReview` | the body of `execute`, one action per await that changes state |
| `CreateSandbox`, `RegisterSandbox`, `Build`, `AbortKill`, `Unwind`, `UnwindCallback` | `runCandidate`, `workspace.create`, its callbacks |
| `TaskError`, `Reconcile`, `EndTask`, `FinishTask`, `Settle` | catch, `commitUnknown`, finally, `retrySettlement` |
| `TaskDestroy`, `SweepDestroy`, `KillRemote`, `MarkDestroyed`, `ConfirmCleanup`, `MarkCleanupPending` | `destroy(resource)` step by step |
| `RequestCancel`, `DispatchCancel`, `ReadForCancel`, `WriteCancelled` | stop request; `finishCancelled` is two steps because its SELECT takes no lock |
| `Restart`, `RecoverKill`, `SettleRecoveredRun`, `RunTimeout`, `RemoteExpire` | boot recovery, watchdog, the provider's lifetime |
| `BeginRollback`, `EndRollback` | what a rollback does to the project |

Abstractions worth knowing. Roles are not rows of their own: their state is
implied by the run's. Where consecutive transactions of one task change nothing
else that the model can tell apart they are one action (`startRepairBuilder` and
`startBuilder`; `completeBuilder` and `saveCandidate`; `bindPreview`,
`queueReviewer` and `startReviewer`): a stop that falls between two of them is
covered by one that falls before the next action, because both are refused by
the same `lockedRun`. The review's retries and continuations stay inside
"review". A build is one nondeterministic step. Every failure the task meets
before its run has ended goes to `TaskError`. An orderly `close()` is not
modelled, only a crash followed by a boot. `Restart` performs
`claim_stale_runs` at once because `app.ts` awaits `recover` before it listens
or starts the queue.

### Properties of `RunLifecycle`

Invariants: `TypeOK`; `LockHeld` (a live run holds the project);
`ReclaimedWhenConfirmed`;
`BaseIsCurrent`; `OneSandboxPerRun`; `OpenRowTracked`; `AcceptedPreviewKept`.
Action property: `NoReversal`. Refinement: `VersionsKept`. Liveness:
`TaskSettles`, `StopEnds`, `TrackedCleanupResolves` and `ProjectFreed`: whichever way
a run ends, it gives its project back, unless a cleanup that this process leaves
pending keeps it. With `WaitingTaskStarts` of `TaskQueue`, which makes the same exception,
that is what makes a queue drain.

`ReclaimedWhenConfirmed` holds without repairs only
(`MaxAttempt = 0`, run `siblings`, and `ReclaimedBeforeRepair` in section 9): with a repair the late sweep of the first
attempt's sandbox breaks it (run `repair`), and the project is given back while a
cleanup is pending. `TaskSettles` excludes one
consequence of it: a run that ended as `needs_changes` and whose cleanup such a
sweep set to pending afterwards can never confirm it, and its settlement is
retried for ever (`executor.ts:694`).

### Fairness of `RunLifecycle`

`FairSpec` gives weak fairness to each task, destroy, dispatch, stop request and
recovery: the event loop runs what is ready, the scheduler ticks every three
seconds, and the sweep, settlement and recovery timers run as long as the
process lives. `SweepDestroy` is strongly fair for each sandbox because a pass
of the sweep visits every resource, so it cannot skip one for ever although its
own destroy disables it in between. Requests, stops, timeouts, faults, crashes
and the expiry of a sandbox are under no fairness. Faults are bounded, so the
liveness results read: once faults stop, the system gets there.

### Runs of `RunLifecycle`

| run | instance | shows |
| --- | --- | --- |
| `siblings` | 2 runs, no repair, 1 restart, 1 stop, 1 fault | lock, cleanup accounting, no reversal, over 1.8 million states |
| `solo` | 1 run, 1 repair, 1 restart, 1 stop, 2 faults, fair | sandboxes of a run, settlement, stop, recovery, and that the project is given back |
| `versions` | 3 runs, 1 rollback | current base and the refinement of `ProjectVersions`; the sweep stands idle (`SweeplessSpec`): it can only free a project, and `siblings` has it |
| `create`, `repair`, `stop`, `lease` | 1 run | the findings below |

Why the bounds are enough: two runs are needed for every race over the lock and
three for a request that is queued behind another which is queued behind a third
(a chained base, and a rollback between them). One repair reaches every branch
on the attempt, since the code only compares it with the limit; the limit of 2
enters as the constant. One restart separates this boot from an earlier one. Two
faults are a failure and the failure of its recovery. The theorems below hold
for all values.

### Findings of `RunLifecycle`

Four statements of the repository do not hold; each has a run whose
counterexample TLC prints (`MCRunLifecycle.tla` states them).

1. `create`: a sandbox whose create returns after the stop is killed but never
   registered; the cleanup can then never be confirmed and the project is
   blocked until the next restart (`docs/TRD.md:431`, `:235`).
2. `repair`: `destroy` confirms the cleanup of the run, not of the attempt it
   destroyed. A sweep that is slow between its kill and its confirmation can
   confirm the next attempt's cleanup while that sandbox is alive.
3. `stop`: the error path looks at the abort reason, not at the run; a task that
   fails between the stop's transaction and the abort overwrites the stop with a
   failure (`executor.ts:636`).
4. `lease`: a stop that finds no task ends the run and keeps its credential
   lease (`models/service.ts:131`, `data/generation.ts:1518`).

## 3. Operations on one ceiling, `SandboxOperations`

A rollback, a preview restore and a run each need a sandbox, and one ceiling of
the service counts all of them. `SandboxLedger` has what they share: the lock and the
current version of a project, sandbox rows, the sandboxes at the provider, and
`Occupied`, the count of migration 019. `Rollback` and `PreviewRestore` add the
operations, `SandboxOperations` composes them with the scheduler's claims, the
sleep of an idle preview and the restart. What a run does between its claim and
its end is `RunLifecycle`'s; here it only takes a slot.

| variables | code |
| --- | --- |
| `lock`, `current`, `status`, `error`, `bound`, `row` | `projects`, `rollbacks`, `preview_restores`, `sandboxes`; `bound` says whether the operation's row names its sandbox |
| `remote`, `lapsed` | the provider and the leases |
| `phase`, `aborted` | where the one task of an operation stands between two awaits, and its signal |
| `claims`, `retained`, `unregistered`, `cancelling` | the maps of `generation/rollback.ts`: what it must reconcile, clean after a commit, destroy without a row, and signal after a stored stop |
| `resources`, `sweeping`, `killed`, `failing`, `bootClaims` | the executor's resources with their flags, `pendingRestoreFailures`, what the boot found of restores |
| `faults`, `boots` | bounds on lost requests, lost answers and unconfirmed kills, and on restarts |

| actions | code |
| --- | --- |
| `BeginRollback`, `ClaimQueuedRollback`, `CreateRollback` ... `CommitRollback` | `begin`, the queue, and the task of a rollback, one action per await that changes state |
| `CatchRollback`, `CatchUnread`, `FailRollback`, `KillRollback`, `MarkRollbackDestroyed` | its error path; `CatchUnread` is the path whose read of the row fails |
| `ReconcileRollback`, `VerifyRollback`, `CleanExpiredCommitted`, `KillUnregistered` | the timers of `generation/rollback.ts` |
| `CancelRollback`, `SignalRollback`, `RollbackTimeout` | the stop is stored first and signalled afterwards; the watchdog |
| `BeginRestore` ... `BindRestore`, `RecordFailure`, `RetryBootClaim` | a restore, the record of its failure with its retries, the sandboxes that a boot found |
| `BeginDestroy`, `MarkDestroyed`, `Lapse` | the executor's destroy and the end of a lease |
| `ClaimJob`, `EndJob`, `SleepIdlePreview`, `Restart` | `claim_next_queued_run`, a run's end, migration 024, `recoverOnce` |

A transaction that loses its answer is one action with two outcomes, committed
or not, and a fault. The ceiling's advisory lock is the atomicity of an action.
Which admissible claim or which idle preview comes first is left open.

Properties: `LockFollowsOperation` (a project's operation is its unfinished
operation: none ends and leaves it blocked, none works on after another has taken
it), `CapacityKept` (everything admitted by any path fits under the ceiling),
`SandboxAccounted` (a live sandbox has someone who will destroy it, or the end of
its lease) and, under fairness, `OperationEnds`. Three cases are excluded in
the definitions because the code has them: a rollback stopped before it
registered its sandbox keeps the sandbox until it is killed, outside of the count
(`InUse`); a create that a restart cut off from its row has only its lease
(`Accounted`); and an operation whose claim lost its answer, or whose version
could not be read after the claim, waits for the next boot (`Stranded`).

Fairness: each task, timer, claim and the end of each lease is weakly fair;
requests, faults, stops, timeouts and restarts are not.

Run `operations`: a rollback in one project, a restore and a queued run in the
other, a ceiling of one, two faults and one restart, 191 thousand states. A ceiling of one makes every
pair of operations compete; one operation of each kind reaches every pair of
paths over the shared count, and the two in one project compete for its lock. Two
faults are a lost answer at any of the transactions and an unconfirmed kill after it, one
restart a cut at any point.

One more thing the model shows, without a run of its own: the error path of a rollback reads the row again and takes
an unreadable row for none. If the answer to COMMIT was lost and the read fails
as well, the committed preview is destroyed as an orphan, although the comment
says that it must never be (`generation/rollback.ts:150`).

## 4. The event stream, `EventStream`

One run, one client, and any number of transactions that append its events. The
rows of `nano.run_events` are the truth; a commit is only *announced*, by a
hint that `owned` publishes after COMMIT to the streams that are open in the
same process. A hint may be late, overtake another one, or never be published:
when the answer to COMMIT is lost `owned` throws before the loop that publishes,
and the `run.finished` of a booting process is written by SQL.

| variables | code |
| --- | --- |
| `log`, `nextId`, `tx`, `fin` | the committed rows, the identity column, the open transactions, the row of `run.finished` |
| `hints`, `silent` | committed and about to be published; committed and never published |
| `pc`, `cursor`, `target`, `terminal`, `page`, `hand` | where the generator of `openRunEventStream` stands between two awaits, and its locals (`hand` is the event it has yielded) |
| `pending` | the buffer that the subscriber fills |
| `wire`, `outcome` | what the response has written and the client has not read; how it ended |
| `conn`, `seen`, `received` | the client: connection, cursor, the events it has applied |

| actions | code |
| --- | --- |
| `Insert`, `Commit`, `Rollback` | `lockedRun` and `event`, `owned`, `database.owned` |
| `Notify` | the subscriber |
| `ReadHead`, `StartReplay`, `ListEvents`, `Yield`, `Resume`, `EndReplay` | `readEventHead` and the generator, one step between two awaits |
| `Expire`, `BreakConnection`, `EndOfResponse` | the route: its timer, a client or database that fails, the end of the response |
| `Connect`, `Receive`, `Leave` | the client's effect in `generation-state.ts`, `readRunEvents` |
| `Crash` | the process dies; `claim_stale_runs` |

`Insert` carries the one fact about transactions that the stream rests on: every
transaction that appends to a run first locks its row or its project
(`lockedRun`, or an UPDATE of the row), so the ids of ONE run commit in their
order although the column is shared by all. The mutant without the lock breaks
`NoEventSkipped`. A transaction that appends several events is several
transactions in the model, which only adds interleavings. The byte limit of the
buffer is a second reason for the refusal, so a buffer with anything in it may
refuse below its limit of events. `terminal` in the code follows from the run's
state at `ReadHead` and from `run.finished` afterwards; both commit together.

Properties: `NoEventSkipped` (the client has applied exactly the events up to
its cursor), `WaitsOnlyForHints` (there is no window between history and live
events), `EndsComplete` (a stream that ends by itself has sent the whole run),
the refinement `FeedKept` (each step of the client applies the least event it
lacks), and `EventsDelivered` under fairness. The last one needs the timer of
the route: a waiting stream learns nothing of a silent commit, so what
guarantees delivery is that every response ends within a minute and the client
reads again from its cursor. The mutant without the timer breaks it.

Fairness: transactions end (`Commit` or `Rollback`), published hints arrive, the
generator and the client continue while they can, the timer fires. New events,
broken connections, crashes and the client's leaving are under none.

Run `stream`: two writers, three ids, a buffer and a page of two, two faults
(lost answers, breaks, crashes), 96 thousand states. Three ids are one more than
a page and than the buffer, so a replay takes two pages and a buffer refuses; two
writers are enough for a commit out of order, two faults for a break after a lost
answer. The theorems hold for all values.

## 5. The order of the tasks, `TaskQueue`

`RunLifecycle` lets any admissible task start; which one does is decided by SQL
over the rows of all accounts. A queued task is blocked by its project's
operation, by a run of its project that is live or still cleaned up after, and by
an earlier queued task of its project. Of the others the first one starts, by the
latest dispatch of its account (never served first), then by age. `queue_candidates`
also shows each account the positions of its tasks.

| variables | code |
| --- | --- |
| `queue`, `project` | queued runs in the order of `created_at`; a task's project, `None` for a name that is not in use |
| `live`, `cleaning` | runs that hold a slot: at work; ended, with `cleanup_state='pending'` |
| `stuck` | of the latter, those whose sandbox was never registered: this process confirms no such cleanup (finding 1, run `create`) |
| `other` | projects locked by a rollback or a restore |
| `served` | projects in the order of `max(dispatched_at)` of their runs; an account's last dispatch is the place of the last of its projects |
| `passed` | history, for the property: how often another account came before one that was ready |

| actions | code |
| --- | --- |
| `Submit`, `Cancel`, `EndTask`, `ConfirmCleanup` | `accept`, the queued branch of `cancel`, the end of a run or its parking, `confirmCleanup` of one that is not stuck |
| `Restart` | `claim_stale_runs` of the next process: live runs are interrupted, and every cleanup can be confirmed again |
| `ClaimNextQueuedRun` | one tick of the scheduler that finds a free slot |
| `Operation`, `DeleteProject` | begin and end of a rollback or restore (not while a run of the project is live or cleaned up after), `delete_owned_project` |

`dispatched_at` is `timestamptz(3)`; two dispatches of one millisecond tie and are
ordered by age, which the model does not have: dispatches are totally ordered
here. Names of tasks are used again, so submissions are unbounded.

Properties: `ProjectIsSerial`, `PositionsFollowOrder` (the position never puts a
task behind one that starts later), `ServedInTurn` (an account is served
once and then yields, and within a project the order of submission is kept) and,
under fairness, `WaitingTaskStarts`: a queued task does not wait for ever, although the
other accounts go on submitting, unless again and again its project is an operation's
or it is `Stranded`: a stuck cleanup of its own project blocks it, or stuck
cleanups hold every slot (`generation_capacity_occupied` counts them). Only the next restart
ends that, and nothing makes the process restart. Without this exception TLC finds the
counterexample. `TypeOK`, which has the ceiling,
is proved (section 9). `ServedInTurn` leaves out
an account that deleted the project of its last dispatch, which is the second
observation below.

Fairness: the timer of the scheduler claims again and again; a task ends by its
watchdog at the latest; its cleanup is retried until it is confirmed, if it is known to
the process (`TrackedCleanupResolves`): `ConfirmCleanup` is not enabled for one that is
stuck, so its fairness promises nothing there. Submissions, stops, operations, deletions
and restarts are under none.

Run `turns`: two accounts, one with two projects, three tasks, two slots, one
deletion, 166 thousand states. Two projects of one account are what makes its last
dispatch differ from a project's; a second slot lets tasks of both accounts run at
once; three tasks are a backlog of two beside the one that waits.

Two statements of the migrations do not hold, as the model shows (a state, and a
behaviour of three claims); no run of the project checks them, and the properties
above state what does hold instead:

1. A NULL last dispatch is counted as ahead of everything, itself
   included, so the only waiting task of an account that was never served is
   shown position 2 (`021_queue_order_and_serialisation.sql:58`, against its
   comment at `:17`).
2. A deletion takes the rows that said when the account was served, so
   it starts again before one that waits (`038_project_management.sql:46`, against
   `020_generation_queue.sql:27`).

## 6. One candidate, `CandidateSession`

`RunLifecycle` takes the making of a candidate for one step. Here it is taken
apart: three clocks run down while the workspace is prepared, the builder works and the
candidate is built, and all that keeps them up is what is reported. The lease of the sandbox is renewed only by the
chain that saves an event (`ensureLease` in `candidate.ts`), and only when less
than the threshold is left; the watchdog is put off only by events the gate
takes for progress.

| variables | code |
| --- | --- |
| `stage` | where `runCandidate` is between two awaits |
| `reports`, `serving` | the promise chain `eventTail`: events that wait, and the call under way for the first of them |
| `remote`, `row`, `handle`, `asked` | left of the lease at the provider, in `nano.sandboxes`, in the session, and what the renewal under way will write |
| `slow`, `idle` | the clocks: since the calls under way began, until the watchdog |
| `silent`, `overlong` | how long nothing is reported; history: longer than a request, and nothing dealt with since |
| `request`, `credited` | the request of the model and the credits of `createMeaningfulProgressGate` |
| `signal`, `eventFailure`, `leaseFailure` | the abort reason and the latches |
| `record` | history: everything saved, cut off, or with a gap |

| actions | code |
| --- | --- |
| `Create`, `Provision` | `workspace.create` with its registration, of a sandbox whose lease has run since it was asked for; the first renewal, and the report of the sandbox |
| `Prepare`, `StartBuild`, `FinishBuild` | `initializeReactWorkspace` is through, the builder is, `buildAndPreview` and its registration are; each reports the next stage |
| `Emit` | the builder's sink: a stream, a retry, a tool, or something that is no progress |
| `Drop`, `BeginRenewal`, `RenewLease`, `RegisterRenewal`, `BeginSaving`, `SaveEvent` | the links of the chain, one action per await |
| `Break`, `Flush`, `Retain` | an error, `flush`, the hand-over |
| `AbortDestroy`, `Destroy`, `End` | `onAbort`, the finally block |
| `Cancel`, `Sweep`, `Tick` | the user's stop; the sweep that meets an expired row of a run at work; half a minute |

The clocks count in the longest call: the SDK's `requestTimeoutSeconds` is half a minute, and
statements of the database end sooner. In that unit the budgets of `runtime/budgets.ts` are 6
(initial lease), 7 (a model request), 10 (threshold), 12 (idle limit) and 14 (segment). Two
calls lie between the creation and the first report, and before a candidate is kept.
The initial lease of 180 seconds runs from the request for the sandbox, which may take 90
seconds to get ready; so `Create` leaves any part of it, none included, and a sandbox that
is gone by then has no first renewal. The row says a segment from the creation on; the first
renewal makes that true, so `NotAhead` begins after it.

A silence has no bound. The preparation of the workspace writes and runs several things, and
the build runs a type check and a compilation of up to 90 seconds each, up to 30 probes, two
revocations and two listings, all of which report nothing (`candidate.ts:314` to `:346`,
`runtime/generation.ts:112` to `:207`). Together they may take longer than the
threshold, and then a sandbox loses its lease under a candidate that is well. The builder is
silent for a request of the model at most, which is 210 seconds, but its tools may take their
time as well. Time does not pass once the session is aborted, since nothing that
follows depends on it.

Properties: `LeaseHolds`: while a candidate is made neither the provider nor the sweep of
expired rows takes its sandbox, however slow renewals are, unless there was a silence
longer than a request and nothing was dealt with since (`overlong`); and a candidate
that is kept has its lease without that exception, for the flush before it either saw the
lease renewed or failed. `NotAhead` (nobody believes in a longer lease than there is: the deadline is taken
before the call, so slow answers, lost answers and half-failed renewals only make it
shorter), `RecordIsWhole` (what is saved is a prefix, and a kept
candidate has all of it), and `Concludes`: retries, streams and output without end, a
workspace or a build that never answers do not put off the end for ever, since each credit
is given once and the watchdog fires.

Fairness: time passes (strongly, for a call that is under way now and then stops it), a call
returns or times out, what was aborted unwinds. The workspace, the builder and the build
owe nothing.

Run `candidate`: budgets of 2, 2, 5, 6 and 8 in the order above, 633 thousand states. They
keep that order or equal it: a silence can outlast a request and the lease, a lease can run
out before the watchdog fires, a renewal can be slow and still in time. With the
budgets of the code in half minutes the same model has 2.2 million states and the
properties hold as well. One request of the model and one more after a tool or a provider
error let each of the gate's credits be given and asked for again; two waiting reports are
one that is served and one behind it. The theorems hold for every budget that keeps
`Budgets`, and any number of requests and reports.

## 7. Plans from version to version, `PlanLineage`

Each version of a project has a plan of numbered behaviours. A run is compared
with the plan of its base: a required behaviour must still be there, word for word
and in its group, or be replaced by one as binding, and only when the request asks for
that. The plan compared with is read when a request is accepted, and read again when
the request is rebased because another version became current meanwhile.

State: `versions` (base, plan, what was asked, accepted or not), `current`,
`waiting` (a queued request with what it was accepted on) and `work` (the run).
Actions: `SubmitPlan` (a whole plan, any of a set of proposals of the
model), `SubmitIncrement` (which `composeCoordinatorIncrement` numbers),
`Accept`, `prepareDispatch` (go on, rebase or park), `FinishAccepted`,
`FinishCandidate`, `FinishWithout`, `Rollback`. A plan is `WellFormed` as
`GroupedPlanSchema` says: at most 80 behaviours, 80 replacements and 96 KiB
(`WithinSchema`; a group lists each of its behaviours once, so its limit of 80 follows),
five groups with something required in each, and replacements that lead to what is
there. The bytes are a sum over the behaviours and the replacements. A project starts
with nothing, with a template's version without a plan, or with an old flat plan. A
text is a member of a small set that is compared as the code compares normalised
wording; at most one behaviour is changed and one added at a time, `verificationMode`, which
stays outside the comparison, is left out, and new ids are one that was given up or the next one in
order. The retry of a run that saved a candidate submits that candidate's plan again
instead of asking the model (`SubmitReused`), if its base is still the candidate's.

Properties: `PromisesKept` (what any ancestor required is still there or
was replaced because somebody on the way asked for it, across chains of
replacements, rollbacks, candidates and rebases) and `IncrementIsWhole`: an increment that
the service composes is accepted while ids are left and it stays within the limits of the
schema. The limits are stated on what the increment asks for (`Admits`: one more
behaviour, one more replacement) and on the bytes of the plan composed; what is shown is that
nothing else is refused: groups, links and the comparison with the previous plan
hold by themselves. Beyond the limits the increment is refused: a project whose plan has 80
replacements can replace nothing more.

The run `components` has it beside the components of section 8, both properties as parts
of `LimitsHold`: three versions, two
groups, two texts of different length, four ids, at most three behaviours, two replacements
and four bytes of them in a plan. Three versions are the least with a
chain of two replacements, and with a rollback between them; four ids are a
behaviour in each of the two groups and two that take the place of either, one after the
other, or one that does and one that is added. Plans of three behaviours and of four
bytes are reached, and longer ones refused; two replacements are reached, a third one is not asked
for in three versions (the theorem has every limit and every number of versions).

An id does not keep its meaning, though: an optional behaviour may be left out
without a replacement, and the next increment gives its id to another
behaviour (`coordinator-plan.ts:41`, against `:48` and
`src/docs/specs/technical-recheck-v2.md:57`).

## 8. The components beside the task, `MCComponents`

Twenty-three components, and `PlanLineage` of section 7, keep promises of their own,
each with its own environment of late, lost and repeated answers, stops and deadlines.
Each is a module. They share no variable with one another, so `MCComponents` instantiates
them on small instances, picks one with `part`, and lets it run; its properties
state the promises of related modules side by side, and TLC explores the disjoint
union of the instances, about 1 million states. A component that was not picked
has no state. The sizes of the instances are
constants with values in the cfg: the proofs speak of every size. Where a component has a finite script it may stop at its end, so deadlock is not
checked.

Fairness is given only where a liveness property needs it: the next step of the
review loop, since the executor awaits nothing but its own promises; and in a
session its two timers and the end of a race that a signal has decided
(`ChecksEnd`).

### Checks: `ChecksAreHonest`, `ChecksEnd`

- `ReviewSession` (`runtime/reviewer.ts`): one model check. State: events and
  screenshots in order, the observation now shown, drafts per behaviour, failed
  input, counters, the turn of the model. Actions: every tool (`Act`, `Reload`,
  `Form`, `KeyBatch`, `Reset`, `Resize`, `Screenshot`, `record_behavior`,
  `submit_review`, ...), refusals, corrections, and `Stop` for every way a
  session is cut off. `PassedIsShown`: whatever is returned as passed, by a
  submission or by an interrupted session's drafts, cites a delivered image of
  the page after a real action, and its keys all arrived. One behaviour and four
  tool calls: act, look, record, submit, and one too many.
- `ReviewLoop` (`generation/executor.ts`, `review-routing.ts`, the repository's
  retry, continue and finish): where the loop stands, the ledger of passes that
  continuations saved, the receipt, the attempt. `AcceptedIsWhole`: acceptance
  needs a last session in time on the verified source, and every required
  behaviour passed in it, with evidence of its own, or in the ledger. `LoopEnds`: although sessions follow one another without a fixed
  limit, each continuation must add a pass. Two behaviours: one that is retained and one
  that is pending.
- `CheckSession` (`generation/review.ts` with `verification-admission.ts`): two
  deadlines, operations raced against the signals of their scope, lease,
  source, browser. `FoundIsBound`: what was found leaves the session only when it
  was found on the bound source, confirmed to be there still, with the browser
  closed. `SessionEnds`: any operation may hang, the close included.
- `CheckpointSummary` (`generation/review-checkpoint.ts`): references first, then
  texts in a fixed order, each cut to what is left. `SummaryIsMarked` (in
  `LimitsHold`): within the limit, and marked whenever something is missing.

### Scripted checks: `ChecksAreHonest`

- `ScriptedReplay` (`runtime/replay-plan.ts`, `replay.ts`,
  `visual-judgement.ts`): programs in plan order; whether the page was observed,
  acted on, shown; captures that are judged in one question at the end.
  `PassedIsProved` and `NotedIsKept`: timeouts, thrown steps, lost prior states and
  limits never become a pass, and what a checkpoint announced is what is
  reported. What an assertion is evaluated on is apart from what it says of the page: how
  many elements a target has, what can be read of them, and whether a text lies within the
  window that is recorded of a page. A behaviour that passed has its asserted fact hold on
  the page; only the absence of a text beyond the window is taken for granted
  (section 11). Two behaviours, so one may depend on the state the other left, with
  three setups (native programs, a judge, a resolver of controls) and eight scripts:
  acting, continuing, visual, only rendering, not runnable, and between them each kind of
  assertion.
- `VerificationPrograms` (`runtime/verification-program*.ts`, migration 031):
  reuse, compilation in chunks, saves that arrive after their session gave up.
  `JudgedAlike`: one requirement is judged by one program, the stored one, in
  every session and run. Two sessions and one revised requirement.

### Remote resources: `LimitsHold`

- `RemoteBrowser` (`runtime/browser.ts`, `executeService`): one command at a
  time, its deadline, the interrupt, two closes at once. `ConfirmedIsClosed`: a
  check whose browser is confirmed closed has none and gets none; only a command
  whose interrupt was lost escapes (`stray`).
- `RemoteWorkspace` (`runtime/workspace.ts`): creation, which a stop does not
  interrupt, lease renewals that are slow, staged writes, a kill
  that many ask for and one carries out. A command is polled: its logs, its status, and
  after its end its logs once more, while it goes on printing. `RejectedIsGone`,
  `ReportedWithinLease`, and `OutputIsWhole`: the result of a command has all that it
  printed, also what came between the last logs and the end.

### Limits: `LimitsHold`

- `TokenLedger` (`runtime/token-budget.ts`): three streams of two roles, which
  reserve before they send and settle with what the provider reported, repeated
  or left out. What is reserved is an estimate, and a request may use more: with a limit of
  100 a test expects 125 to be accounted (`token-budget.test.ts:36`). `BudgetHolds`: what
  is accounted is never below what is known to be spent, and above a limit only by what
  requests took beyond their own reservations. The service itself sets no limit
  (`executor.ts:265`), which the theorem includes.
- `CapacityModel` (`runtime/capacity.ts`, `budgets.ts`): plans of 1 to 90
  behaviours against the code's constants and lowered limits. `SplitCanRun`: a
  recommended split covers the plan, each batch fits its own limits and all of them
  fit the run's.

### Records: `VersionIsBound`

- `CoordinatorSession` (`runtime/coordinator.ts`): tool calls, refusals, a chain
  of saves nobody waits for, stop and displacement. `DecidedOnRecord`: a
  decision that is handed over comes after everything reported before it is saved.
- `BuilderSession` (`runtime/pi.ts`, `tool-output.ts`): output chunks batched by a
  timer and saved by a pump, beside calls that start and end. `LogIsNested`:
  output is saved only between the start and the end of its own call.

### Versions: `VersionIsBound`

- `TrustedBuild` (`runtime/generation.ts`): revoke, list, check, compile, list
  again, mark, serve, probe, against writes of leftover processes and of a
  staged file. `BuildIsBound`: what is served is the build of the tree that was
  checked and whose hash is stored.
- `TemplateImport` (`projects-page.tsx`, `createTemplateProject`,
  `executeTemplate`, `completeTemplate`): request, import, commit whose answer may
  be lost, stop, watchdog, restart. `ImportIsWhole` here, `OneProjectPerImport`
  under `AskedOnce`.
- `SourceSnapshots` (`storage/source.ts`, `artifacts.ts`, `saveCandidate`):
  uploads that arrive damaged, twice or unanswered. `SourceIsKept`: the object a
  row names is there, whole, and what was built.

### Clients: `VersionIsBound`, `AskedOnce`, `AccessIsKept`

- `ProjectView` (`generation-state.ts`): a load in flight reads the project, a
  run and perhaps the project again, while runs finish, other tabs add runs and a
  rollback hides some. `ShownIsSaved`: a finished run is never shown next to a
  project that still says it is running. A load takes several
  requests, each of which the service answers from one statement.
- `RunSubmission` (`api-workbench.tsx`, `generation-api.ts`, `drafts.ts`): keys
  saved before they leave, reloads, lost answers, confirmation. `OneRunPerText`
  excludes two cases the code has (`excused`, section 11).
- `RollbackRequest` (`use-rollback.ts`): `RunningIsHeld`: an operation the tab
  started and the server still runs is held by the tab, in storage too.
- `WorkspaceSession` (`api-workspace.ts`, `use-workspace.ts`): epochs of
  identity, notices of other tabs, logins and requests that end late.
  `AnswersStayPrivate`.

Requests of one tab are assumed to reach the server in the order they were sent.

### Data: `AccessIsKept`, `ReleaseIsKept`, `AskedOnce`

- `ModelProfiles` (`models/*.ts`, migrations 002, 003): versions, keys, leases,
  tests that talk to the provider between two transactions, proofs in memory.
  `LeaseIsHonoured`: a held version can be opened, its connection passed a full
  test, and a deleted profile keeps no key but the ones runs hold.
- `PublishedApp` (`generation/publication.ts`, `deleteProject`, migration 038):
  two publications, a deletion with its undo, a restart. `ServedIsWhole`,
  `RefusedDeletionKeeps` (two cases are excluded, `died` and `blocked`).
- `PreviewGateway` (`generation/preview.ts`): grants of an entry that is looked
  up once and held through the questions to the auth service, while other requests
  issue, exchange, clear and revoke and sessions end. `GrantsHold`: one grant for
  each session however often the preview is opened, none of a session that had ended,
  and one that was answered stays.
- `AppData` (`data/app-data.ts`, migrations 036, 037): repeated submissions,
  owner's confirmation and removal, a personal value saved against its version.
  `AnswersHold`.

The instances are the least in which each case happens: two of whatever may be
confused (keys, tabs, users, versions, publications, pages, closes), one more
than each limit that refuses, and as many repetitions as a retry needs.

## 9. Proofs

The theorems are about `Spec` for every value of the constants allowed by
`BoundsAssumption` and `NamesAssumption` (natural numbers, at least one run, and
names that are distinct). TLC evaluates both assumptions on every run.

- `TypeCorrect`: `Spec => []TypeOK`. `TypeOK` is inductive as it stands; the
  proof has a lemma for each action and follows the groups of `Next`.
- `ProjectLockHeld`: `Spec => []LockHeld`. `LockHeld` is not inductive alone. A
  stop request that has read its run and not yet written it (`canceller =
  "write"`) will release the project whoever holds it then, and recovery settles
  runs of an earlier boot. The inductive `LockInv` adds `LiveOfThisBoot` (a live
  run belongs to this boot, so recovery never touches it) and `StopsUnderWay`
  (what a stop request still owes to a run is consistent with its state).
- `OutcomesIrreversible`: `Spec => NoReversal`, from the same invariant:
  `WriteCancelled` is the dangerous step, because its UPDATE is by id alone.
- `BaseStaysCurrent`: `Spec => []BaseIsCurrent`, from `BaseInv`: from
  `PrepareDispatch` on, the base is the current version, and only the holder of
  the lock moves that.
- `ImplementsProjectVersions`: `Spec => VersionsKept`. The holder is
  `operation`, the history is the set of accepted revisions. `VersionsInv` says
  that an accepted revision belongs to a completed run (so no run adds two) and
  that the target of a rollback is in the history; every action maps to
  `Acquire`, `Release`, `Promote`, `Return` or a stutter.

`RunLifecycleProofs` goes on with what becomes of the sandboxes: `OpenRowsTracked`
(`OpenRowTracked`), `OneSandbox` (`OneSandboxPerRun`), `AcceptedPreviewStays`
(`AcceptedPreviewKept`) and `ReclaimedBeforeRepair`, which says `ReclaimedWhenConfirmed` of
every state in which no run has come to a repair; afterwards it does not hold
(finding 2). None of the four is inductive: each speaks of rows and remote sandboxes,
and why they agree depends on where the task, the sweep, the other destroys and a
stop request stand between two awaits. `SandboxInv` says it for each run:

- `Births`, `Boots`: a sandbox is created once, for the attempt under way, by a task
  of this process;
- `Ledger`: an open row of this process is tracked; a destroyed row and an earlier
  attempt have no live sandbox;
- `Kills`, `OwnKill`: what a destroy that has come so far has done already, and that a
  task destroys only the sandbox of its own attempt;
- `Results`: a failed candidate is gone before the next attempt starts;
- `Spared`: the sandbox under way, and the accepted one, are in no destroy's hands;
- `Endings`, `Emptied`: what is over, and what a confirmed cleanup says.

Each conjunct speaks of one run and its candidates, and each action touches one run. So
a frame lemma deals with all other runs at once, further ones with the conjuncts
an action does not disturb, and a lemma for each action (`...Keeps`) with the rest.

`SandboxOperationsProofs` proves every safety property of `SandboxOperations`, from
`LedgerAssumption`: `LedgerTypes`, `LockFollows` (`LockFollowsOperation`), `CeilingHolds`
(`CapacityKept`) and `EverySandboxAccounted` (`SandboxAccounted`), for any number of
projects, operations, jobs and faults. The invariant `LedgerInv` adds to the lock where
each operation may stand (`Shape`: what a row says of the sandbox, who holds a live
one) and a count, `Counted`. The ceiling needs that detour: `InUse` grows when a create
begins, some steps after the admission, so what stays below the ceiling is the set of
those that were admitted and may still come to use a slot. `InUse` is a part of it, an
admission adds one to it only when `Occupied`, migration 019's sum, leaves room, and that
sum leaves none of its members out (`CountedBelowOccupied`).

`EventStreamProofs` proves every safety property of `EventStream`, from
`SizesAssumption` (a buffer and a page of at least one): `StreamTypeCorrect`,
`EventsInOrder` (`NoEventSkipped`), `NoWindow` (`WaitsOnlyForHints`),
`EndIsComplete` (`EndsComplete`) and `ImplementsEventFeed` (`FeedKept`). They
share one inductive invariant, `StreamInv`. `NoEventSkipped` alone is not
inductive: whether the client may apply the head of the wire depends on every
row between its cursor and that event being on the wire or received. So the
invariant follows the rows along their way: `SerialIds` (an open transaction is
beyond every committed row), `PageKept` (the page leaves no row out after the
last one sent), `WireKept` (the wire holds, in order, all that lies between the
client's cursor and the last event sent), `HintsCover` (rows beyond the target
are hinted, silent or buffered) and `EndCovered` (a stream that knows of the end
has it within its target).

`TaskQueueProofs` proves every safety property of `TaskQueue`, from
`QueueAssumption` (an account for each project, a ceiling of at least one):
`QueueTypeCorrect`, `ProjectsRunSerially`, `PositionsAgree` and
`AccountsTakeTurns` (`ServedInTurn`). The last one rests on `TurnsInv`: if an
account was served while another one was ready, the other one's latest dispatch
is the earlier one (`Behind`), so it comes first. That survives a claim, because
the claimed project moves to the end of `served`, and a deletion, because the
other projects keep their order; the lemmas about `RemoveAt` say so element by element.
`PositionsAgree` is an inclusion of sets: who is counted as ahead of a task is
counted as ahead of every later one. A restart makes no account ready: it
moves live runs to the cleanups, both of which block their projects.

`CandidateSessionProofs` proves every safety property of `CandidateSession`, from
`Budgets`: the budgets are natural numbers; the threshold is more than a request and two
calls, the segment more than the threshold and two calls; a request takes time; the
initial lease is no longer than a segment and shorter than the idle limit. Nothing is assumed
of how long a silence lasts. The theorems are `CandidateTypeCorrect`, `LeaseNeverLapses`,
`NeverAhead` and `LogWhole` (`RecordIsWhole`). `LeaseHolds` is
not inductive: what keeps the lease is that somebody looked at it not long ago.
`ClockInv` says how long: after a report was dealt with more than the threshold
is left, less what has been silent since, as long as that was no longer than a request; a
report that waits has waited through a silence and a call at most; a renewal that is
under way still is worth a segment, less the time it has taken; and whoever gets as far as the
hand-over had its last report dealt with, and so its lease looked at, not more than two calls
ago, however long it was silent before.
`ChainInv` says that the chain serves a report only while nothing has failed, and
that what was not saved is known to have failed.

The three `Component...Proofs` prove what `MCComponents` says of the components beside
the task, for every size of their instances. A behaviour is one component's, so each has
an inductive invariant of its own, and a theorem puts those together that speak of one
promise. The assumptions they use are those of `MCComponents`: nothing (`None`) is not a
grant, a key, a result, a verdict or a program; the plan's behaviours are numbered and
what must pass is among them; an assertion is of one of the kinds that exist; a
coordinator is asked at least twice; a reference is not nothing. For the limits: nothing
is not an operation of a browser, a renewal of a lease or a group of a plan; times,
estimates, lengths and lowered limits are natural numbers, and so is a limit on tokens if there
is one; a run has finitely many streams of tokens; a plan has at least one id and one text to
choose from, and texts, links and limits have a size. TLC evaluates
them with the run.

`ComponentProofs` proves `ReleaseKept` (`ReleaseIsKept`), `AccessKept`
(`AccessIsKept`) and `ChecksAreHonestHolds` (`ChecksAreHonest`):

- `ReleaseInv` (`PublishedApp`): a publication under way is of an eligible revision, and
  what it is about to link was built from that revision; what a deletion has
  moved aside is as whole as what is linked. `RefusedDeletionKeeps` is an action
  property: only the step that puts the release back leaves `rows` for `no`.
- `PrivateInv` (`WorkspaceSession`): of the tasks of one epoch there is one, and while
  it lives nobody is shown; a request of this epoch is for the user who is shown. A
  change of identity makes a new epoch, so whatever is still under way is of an older one.
- `ModelsInv` (`ModelProfiles`): what counts as tested, in a version or in memory, was
  tested; the version that a test will write has the connection it tests, because versions
  are never edited, whatever was edited, deleted or accepted since the test began
  (`TestInv`); a lease's version has its key.
- `GrantsInv` (`PreviewGateway`): `GrantsHold` is not inductive, since a call of
  `issueGrant` works on an entry it looked up before several awaits. `CallInv` says what
  such a call knows: a grant it has had an answer about is of a session that had not ended
  when the call began, or is gone, and no step of the others brings it back (`Tame`).
- `ShownInv` (`ReviewSession`): `PassedIsShown` speaks of what is returned; what a decision
  holds already has the same grounds, and a session that has decided makes no further call
  that could take them away. The recorded drafts need not have them: that is looked
  at again when the session ends, whichever way.
- `LoopInv` (`ReviewLoop`): a receipt speaks of the behaviours that the ledger has not
  passed yet, so that what the ledger and the last receipt say together is of all of them.
- `CheckInv` (`CheckSession`): a source that is bound when it is verified again was bound when
  the result was found (`basis`), and a result that is kept to the end was marked and its
  browser closed, whichever signals came meanwhile.
- `ReplayInv` (`ScriptedReplay`): behaviours ahead have no result (`AheadInv`); a pass so
  far was proved by its assertions, a behaviour has an item or a capture, never both, and what
  was announced is the item or a capture that did not pass (`SoFarInv`); when results are
  merged every capture that passed has a judgement, and no other has (`JudgedInv`).
  `HeldIsTrue` compares what the code evaluates with what an assertion says of the page.
- `ProgramsInv` (`VerificationPrograms`): a program that was run is the one that is stored for
  its requirement; while a role checks, its plan holds what is stored (`Held`), and what it
  lacks has failed, is asked for or is left, one of the three (`Accounted`).

`ComponentRequestProofs` proves `AskedOnceHolds` (`AskedOnce`) and, from the same invariant
`AskedInv`, `RequestTypesHold`. What makes a request act once is nowhere in one place:

- `SubmissionInv` (`RunSubmission`): of the keys that have made a run or still may (`Asks`:
  accepted, on the wire, in the tab), one text has one, and the text in the composer only the
  one that the tab waits for or is not sure of; what is saved is what the tab knows.
- `RunningInv` (`RollbackRequest`): nothing runs, and nothing on its way can come to run, but
  the operation that is held (`HeldInv`), because an awaited request is the last one that
  left and asks about what is held (`MailInv`).
- `ImportInv` (`TemplateImport`): a key has one project at most (`KeysInv`); which step the
  task is at decides what is built, stored, opened and live (`StepsInv`), and the version
  is current exactly when the import is completed and its row a preview (`StatesInv`).
- `DataInv` (`AppData`): one record for a key and for a slot (`Stored`), who was told yes has
  one until it is removed (`Told`), and a page that has the version of the value has the
  value (`PagesInv`).

`ComponentVersionProofs` proves `VersionIsBoundHolds` (`VersionIsBound`) from `VersionInv`:

- `DecisionInv` (`CoordinatorSession`): as long as nothing failed, what was started has
  ended but for the call that is being made, nothing is unsaved, and a decision is handed
  over when the chain is empty.
- `LogInv` (`BuilderSession`): it is not the log that is whole between two saves but the log
  with the events behind it, `log \o builderEvents`: it is nested, and open or closed as the
  turn says; output that waits is of the call that is running.
- `BuildInv` (`TrustedBuild`): trees are numbered in the order of the writes and the gates
  look at them in turn (`listed..tree`, `checked..tree`), so a tree that is the same when it is
  listed again was the same when it was checked and compiled.
- `SourceInv` (`SourceSnapshots`): a row, and a reference that was verified, name an object
  that is there with one body, the one that was built (`Kept`).
- `ViewInv` (`ProjectView`): an answer about the project agrees with itself (`Sound`), an
  outcome that was read stays (`Settled`), and what a load applies in the end agrees
  (`Agrees`), though runs are added and end between its reads.

The two modules together prove `LimitsAlwaysHold` (`LimitsHold`) and, from the same
invariant `LimitsInv`, `LimitTypesHold`. `ComponentRequestProofs` has the parts that keep
to a limit, `ComponentVersionProofs` the plans and the two theorems. Sums first: the
modules add with folds of the community library, whose definitions choose an order.
`Sum` is instead what any table over the subsets of a finite set says
(`SumExists`, by well-founded induction on how many elements there are); that the order does
not matter, that a fold is the sum, and what a sum is after one number changed, are lemmas
from that, cited by name afterwards. With an induction of this kind, on the least
counterexample, recursive functions can be proved about where the principles that take an
operator cannot be used.

- `BrowserInv` (`RemoteBrowser`): a command runs for the operation that waits for it
  (`FlightInv`). A close that found nothing in flight has nothing come after it, and only such
  a close is confirmed, unless an interrupt was lost (`ClosedInv`).
- `WorkspaceInv` (`RemoteWorkspace`): what is destroyed is gone for good, whoever asked and
  however often (`ResourceInv`); the logs that were read and those still to be read are all of
  the output once the command ended (`ShellInv`); every deadline was measured before
  the request that grants it, so a late answer can only report less than was granted
  (`LeaseInv`).
- `TokenInv` (`TokenLedger`): what is accounted is the sum of what each stream is charged. A
  stream is charged all it reserved for as long as it may still be spending; once it has
  settled, what was reported, or no less than the reservation where the report is
  incomplete (`StreamInv`); so the sum is at least what is
  known of each, and at most the limit and each one's excess over its reservation.
- `CapacityInv` (`CapacityModel`): nothing but the assessment is state; the argument is
  arithmetic over the code's constants. A smaller batch requires no more (`SmallerFits`), the
  batches of a split are as large as they may be and together the plan, and three review
  calls for each batch stay within what the run allows for the plan. It
  holds for plans of any number of behaviours, whichever resources were lowered.
- `NoteInv` (`CheckpointSummary`): an unmarked note has, at each phase, exactly the sum of
  what came before it (`NoteWhole`), and once the references fit no step leaves the limit.
- `PlanInv` (`PlanLineage`): `PromisesKept` speaks of all ancestors and is not inductive. What
  is inductive is one edge: a version's plan keeps what its base's promised
  (`PlanVersionInv`), the base is older, and a request or a run that works has
  read the plan of the base it has now, also after it was rebased (`RequestInv`, `WorkInv`).
  From one edge to the chain needs that heirs do not break: replacements are
  injective, so a chain of heirs that starts at an id never meets itself and, by counting
  ids, ends within `PlanIds` steps; a later plan continues the chains of an earlier one;
  hence what a version owes an ancestor it owes over its base (`OwesNext`).
  `IncrementIsWhole` is about the numbering: an id that nobody used gives
  no chain a second way, and what is renewed or added takes one id each; and about the
  limits: a renewal adds one replacement and no behaviour, an addition one behaviour.

Only model-checked: the type invariant of `MCComponents` as a whole, of which the types of nine of
its components are theorems (`RequestTypesHold`, `LimitTypesHold`) and the others are part of
the invariants above as far as these need them; and every liveness property
(`EventsDelivered`, `OperationEnds`, `ChecksEnd`, `WaitingTaskStarts`, `Concludes` and those of
section 2), which rests
on fairness and is out of the prover's reach.

The proofs of `ComponentRequestProofs` and `ComponentVersionProofs` take about twenty
minutes each.

## 10. Not modelled

- Row locks. `parkClaim` and `finishCancelled` take the run's row before the
  project's, `lockedRun` the other way round; PostgreSQL ends one of two that wait for
  each other with an error, and a failed transaction is a step of `RunLifecycle`.
- The daily quota (`data/generation.ts:751`): admission may always be refused.
- A sandbox whose create was answered to a process that had died
  (`runtime/workspace.ts:271`): nothing in the system knows of it but its lease.
- What a model or a page does inside one step: prompts, schemas, how a
  locator finds its controls, formats of file tools. They are nondeterministic choices.
- What a preview's pages are sent through (the proxy), covers, authentication, parsing of
  requests, configuration, encryption: they move no row the properties speak of.
- The mock workspace for demonstrations, the look of the client, deployment and
  research files.
- An orderly `close()` of the executor and of the service: a process that ends is
  a crash.

## 11. Observations

What the modelling showed of the code beside the findings of section 2. No run checks
it: mostly no statement of the repository says otherwise, or the property
that would says so by the case it leaves out.

Operations and sandboxes

- A committed rollback's only preview may be destroyed as an orphan when the answer to
  COMMIT and the read after it are both lost (section 3), and positions, turns and ids
  are not quite what comments say of them (sections 5 and 7).
- A rollback that is cancelled before it registered its sandbox holds a
  slot that is not counted (`InUse`). A commit that `reconcile` discovers is not put
  into `retained`.
- A restore whose version cannot be read after its claim, and an operation whose
  claim lost its answer, stay until the next boot. A `bindRestore` whose answer is
  lost destroys a ready preview.
- After a restart the idle previews of earlier processes cannot be put to sleep
  (`sleepPreview` returns false) and the first candidate, being the only one read,
  blocks the others. Only a waiting run makes the scheduler look for one.
- Publishing takes no operation lock, though migration 024 counts it among the work that holds
  one.
- The creation's handle may say that its sandbox lives longer than its initial
  lease of 180 seconds until the first renewal.
- A preparation or a build that is silent for longer than a lease lasts loses its sandbox: the
  next renewal fails, or the sweep ends the run, although every command of it kept its own limit
  (section 6). A report between the gates of the build would renew the lease.
- A write staged before
  `revokeWriters` is still carried out (`staged` in `TrustedBuild`).
- A remote command whose interrupt failed may start a browser after a confirmed
  close (`stray`).

Checks

- `review.ts:276`, `:292` and `:299` await an event append without a bound, so a database
  that never answers holds a session beyond its deadline; `SessionEnds` assumes
  that it answers.
- The executor looks only at the last receipt's items (`executor.ts:567`) and
  passes neither issues nor history to `classifyReviewRoute`; a retry also counts
  the reviewers of continuations.
- `validatedReview` counts a failed batch of keys as action evidence
  (`data/generation.ts:589`); the session and the routing do not.
- `replay.ts:171` leaves truncation to the caller for negated texts, and the
  caller does not look at it. After a program that threw midway a behaviour that
  continues from it still runs.
- A whole plan may drop an optional behaviour, and its id then means something else
  (section 7).
- A plan of 35 or more behaviours always gets the verdict to be split; the pre-flight refuses nothing.
- A coordinator's decision that was saved is still reported as cancelled when the
  stop comes then. The start of a tool does not clear pending output.

Clients and data

- `retry()` does not respect an unconfirmed submission (`api-workbench.tsx:312`),
  and a session that ends under a request counts as its refusal; both may make a
  second run of one text (`excused`).
- A run that was queued before a rollback and dispatched after it is hidden from
  the project (`service.ts:243`).
- The key of a template import stays in the tab after its project was deleted and
  then creates again. A commit still in flight when its lost answer is read back once would
  leave a completed import without a preview; the model assumes that it was decided.
- A source object's key does not name its compression, so an object that was stored by
  another build of the compressor fails the size check.
- A publication in flight while its project is deleted makes the directory anew
  (`publication.ts:125`): the deleted project is served again, or the undo of a
  refused deletion fails (`blocked`). Of overlapping publications the last
  rename wins. A crash between `stageDelete` and the removal of the rows leaves a
  live project unpublished.
- After the owner removed a record, a retry with its key stores it again.
- `testSaved` writes its result to the version it has read.

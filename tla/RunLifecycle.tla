---------------------------- MODULE RunLifecycle ----------------------------
(***************************************************************************)
(* The life of the generation runs of ONE project of Pivloom: the durable  *)
(* rows (nano.projects, nano.runs, nano.revisions, nano.sandboxes), the    *)
(* API process that works on them (scheduler, executor tasks, sandbox      *)
(* sweep, cancel requests, boot recovery) and the remote sandboxes.        *)
(*                                                                         *)
(* Every database transaction is one step.  `owned` runs READ COMMITTED,   *)
(* so what a handler does between two transactions interleaves with        *)
(* everything else, and so does finishCancelled, whose check and whose     *)
(* UPDATE take no row lock in common.                                      *)
(***************************************************************************)
EXTENDS Naturals, FiniteSets

CONSTANTS
    MaxRuns,        \* runs 1..MaxRuns are submitted in this order
    MaxAttempt,     \* attempts are 0..MaxAttempt (2 in the code)
    MaxBoots,       \* bound: restarts of the API process
    MaxCancels,     \* bound: stop requests
    MaxFaults,      \* bound: lost responses, failed transactions, sandboxes that
                    \* could not be killed, idle timeouts
    MaxRollbacks,   \* bound: version rollbacks
    None,           \* no operation, no version
    RollbackOp,     \* the operation id of a rollback
    Sweep           \* the sandbox sweep, a destroyer beside the tasks

Runs       == 1..MaxRuns
Attempts   == 0..MaxAttempt
Candidates == Runs \X Attempts

ASSUME BoundsAssumption ==
    /\ MaxRuns \in Nat \ {0}
    /\ {MaxAttempt, MaxBoots, MaxCancels, MaxFaults, MaxRollbacks} \subseteq Nat
ASSUME NamesAssumption ==
    /\ None \notin Runs /\ RollbackOp \notin Runs /\ Sweep \notin Runs
    /\ None # RollbackOp
    /\ None \notin Candidates

VARIABLES
    \* nano.projects
    operation,  \* operation_id: a run, RollbackOp or None
    current,    \* current_revision_id
    \* nano.runs
    state, cleanup, attempt,
    expected,   \* expected_current_revision_id
    selected,   \* whether selected_base_revision_id is set
    earlier,    \* the runs that had completed (finished_at) before queued_at
    boot,       \* executor_boot_id
    lease,      \* the credential lease taken at accept
    \* nano.revisions and nano.sandboxes, one row of each per run and attempt
    revision, row,
    \* OpenSandbox
    remote,
    \* the API process
    bootId, dispatch, task, tracked, doomed, kill, canceller,
    \* a rollback in progress, and what is left of the bounds
    rollback, budget

projectVars == <<operation, current>>
requestVars == <<selected, earlier, boot>>
assetVars   == <<revision, row, remote>>
processVars == <<bootId, dispatch, task, tracked, doomed, kill, canceller>>
boundVars   == <<rollback, budget>>
vars == <<projectVars, requestVars, assetVars, processVars, boundVars,
          state, cleanup, attempt, expected, lease>>

-----------------------------------------------------------------------------
(* States *)

Terminal == {"completed", "needs_changes", "needs_input", "failed",
             "cancelled", "interrupted"}
Live     == {"accepted", "planning", "building", "verifying", "repairing",
             "cancel_requested"}
States   == {"absent", "queued"} \cup Live \cup Terminal

Cleanups  == {"clear", "pending", "confirmed"}
Revisions == {"none", "broken", "candidate", "accepted", "rejected"}

\* A sandbox row holds a remote id until the row is marked destroyed.
RowStates == {"none", "candidate", "candidate-preview", "preview", "destroyed"}
OpenRows  == {"candidate", "candidate-preview", "preview"}

\* Where an executor task stands between two awaits.
Places == {"idle", "coordinate", "plan", "attempt", "create", "register",
           "build", "unwind", "unwound", "result", "broken", "save", "bind",
           "review", "release", "repair", "catch", "final", "settle"}
Working == Places \ {"idle", "release", "catch", "final", "settle"}

Signals  == {"none", "CANCELLED", "RUN_TIMEOUT"}
Outcomes == {"failed", "broken"}
Tasks == [pc : Places, signal : Signals,
          outcome : Outcomes,   \* of a candidate that was not built
          clean : BOOLEAN,                  \* its sandbox is confirmed gone
          unknown : BOOLEAN,                \* commitUnknown
          kept : BOOLEAN,                   \* retained
          unsettled : BOOLEAN]              \* settlementError
NoTask == [pc |-> "idle", signal |-> "none", outcome |-> "failed",
           clean |-> TRUE, unknown |-> FALSE, kept |-> FALSE,
           unsettled |-> FALSE]

\* The steps of destroy(resource): kill the remote, then record the outcome.
Stages     == {"none", "kill", "mark", "confirm", "park", "done", "failed"}
Destroyers == Runs \cup {Sweep}
NoKill     == [stage |-> "none", cand |-> <<1, 0>>]

Init ==
    /\ operation = None /\ current = None
    /\ state = [r \in Runs |-> "absent"]
    /\ cleanup = [r \in Runs |-> "clear"]
    /\ attempt = [r \in Runs |-> 0]
    /\ expected = [r \in Runs |-> None]
    /\ selected = [r \in Runs |-> FALSE]
    /\ earlier = [r \in Runs |-> {}]
    /\ boot = [r \in Runs |-> 0]
    /\ lease = [r \in Runs |-> "none"]
    /\ revision = [c \in Candidates |-> "none"]
    /\ row = [c \in Candidates |-> "none"]
    /\ remote = [c \in Candidates |-> "none"]
    /\ bootId = 0
    /\ dispatch = [r \in Runs |-> "none"]
    /\ task = [r \in Runs |-> NoTask]
    /\ tracked = {} /\ doomed = {}
    /\ kill = [d \in Destroyers |-> NoKill]
    /\ canceller = [r \in Runs |-> "none"]
    /\ rollback = None
    /\ budget = [cancels |-> MaxCancels, faults |-> MaxFaults,
                 rollbacks |-> MaxRollbacks]

Cand(r)  == <<r, attempt[r]>>
At(r, p) == task[r].pc = p
Goto(r, p) == task' = [task EXCEPT ![r].pc = p]
Aborted(r) == task[r].signal # "none"
KillEnded(r) == kill' = [kill EXCEPT ![r] = NoKill]
Spend(b) == budget[b] > 0 /\ budget' = [budget EXCEPT ![b] = @ - 1]

\* lockedRun(active = true) accepts a result of run r.
Active(r) == state[r] \in Live \ {"cancel_requested"} /\ operation = r

\* Faulty variant: the project is released whoever holds it.
EndRunForAnyHolder(r, s, c) ==
    /\ state' = [state EXCEPT ![r] = s]
    /\ cleanup' = [cleanup EXCEPT ![r] = c]
    /\ operation' = IF c # "pending" THEN None ELSE operation
\* A transaction ends run r; a pending cleanup keeps the project locked.
EndRun(r, s, c) ==
    /\ state' = [state EXCEPT ![r] = s]
    /\ cleanup' = [cleanup EXCEPT ![r] = c]
    /\ operation' = IF c # "pending" /\ operation = r THEN None ELSE operation
ReleaseLease(r) == lease' = [lease EXCEPT ![r] = "released"]

-----------------------------------------------------------------------------
(* Admission and dispatch *)

\* The client may continue from a built candidate that was never accepted.
CandidateBase ==
    \E c \in Candidates : /\ revision[c] \in {"candidate", "rejected"}
                          /\ state[c[1]] \in Terminal
                          /\ cleanup[c[1]] # "pending"

Accept(r, chosen) ==
    /\ state[r] = "absent"
    /\ \A s \in Runs : s < r => state[s] # "absent"
    /\ chosen => CandidateBase
    /\ state' = [state EXCEPT ![r] = "queued"]
    /\ expected' = [expected EXCEPT ![r] = current]
    /\ selected' = [selected EXCEPT ![r] = chosen]
    /\ earlier' = [earlier EXCEPT ![r] = {s \in Runs : state[s] = "completed"}]
    /\ boot' = [boot EXCEPT ![r] = bootId]
    /\ lease' = [lease EXCEPT ![r] = "held"]
    /\ UNCHANGED <<projectVars, cleanup, attempt, assetVars, processVars, boundVars>>

\* The earliest request of a project nothing holds; tick is single-flight.
ClaimNextQueuedRun(r) ==
    /\ state[r] = "queued" /\ operation = None
    /\ \A s \in Runs \ {r} : /\ s < r => state[s] # "queued"
                             /\ state[s] \notin Live /\ cleanup[s] # "pending"
    /\ \A s \in Runs : dispatch[s] = "none"
    /\ operation' = r
    /\ state' = [state EXCEPT ![r] = "accepted"]
    /\ boot' = [boot EXCEPT ![r] = bootId]
    /\ dispatch' = [dispatch EXCEPT ![r] = "prepare"]
    /\ UNCHANGED <<current, cleanup, attempt, expected, selected, earlier, lease,
                   assetVars, bootId, task, tracked, doomed, kill, canceller, boundVars>>

\* Faulty variant: the parked claim keeps the project.
ParkClaimKeepingLock(r) ==
    /\ state' = [state EXCEPT ![r] = "needs_input"]
    /\ cleanup' = [cleanup EXCEPT ![r] = "confirmed"]
    /\ UNCHANGED operation /\ ReleaseLease(r)
ParkClaim(r) == EndRun(r, "needs_input", "confirmed") /\ ReleaseLease(r)

\* The current version came from a run that finished while r was queued.
Chained(r) == /\ current # None
              /\ state[current[1]] = "completed" /\ current[1] \notin earlier[r]

\* Faulty variant: the frozen base is not compared with the current version.
DispatchFrozenBase(r) == {expected[r]}
\* The base a claimed run is started on: the frozen one, or the version of the
\* run it was queued behind.
DispatchBase(r) ==
    IF current = expected[r] THEN {expected[r]}
    ELSE IF ~selected[r] /\ Chained(r) THEN {current} ELSE {}

PrepareDispatch(r) ==
    /\ dispatch[r] = "prepare" /\ state[r] = "accepted"
    /\ \E base \in DispatchBase(r) : expected' = [expected EXCEPT ![r] = base]
    /\ dispatch' = [dispatch EXCEPT ![r] = "start"]
    /\ UNCHANGED <<projectVars, state, cleanup, attempt, requestVars, lease, assetVars,
                   bootId, task, tracked, doomed, kill, canceller, boundVars>>

\* No base is left, or the frozen model configuration stopped being valid.
ParkDispatch(r) ==
    /\ dispatch[r] = "prepare" /\ state[r] = "accepted"
    /\ ParkClaim(r)
    /\ dispatch' = [dispatch EXCEPT ![r] = "none"]
    /\ UNCHANGED <<current, attempt, expected, requestVars, assetVars,
                   bootId, task, tracked, doomed, kill, canceller, boundVars>>

\* prepareDispatch throws: on a run that left 'accepted', where parkClaim finds
\* nothing to park, or on a failure that parkQueuedRun meets too.
DispatchError(r) ==
    /\ dispatch[r] = "prepare"
    /\ dispatch' = [dispatch EXCEPT ![r] = "none"]
    /\ IF state[r] = "accepted" THEN Spend("faults") ELSE UNCHANGED budget
    /\ UNCHANGED <<projectVars, state, cleanup, attempt, expected, requestVars, lease,
                   assetVars, bootId, task, tracked, doomed, kill, canceller, rollback>>

\* scheduler -> executor.start: no await between the tasks map and execute.
StartTask(r) ==
    /\ dispatch[r] = "start"
    /\ dispatch' = [dispatch EXCEPT ![r] = "none"]
    /\ task' = [task EXCEPT ![r] = [NoTask EXCEPT !.pc = "coordinate"]]
    /\ UNCHANGED <<projectVars, state, cleanup, attempt, expected, requestVars, lease,
                   assetVars, bootId, tracked, doomed, kill, canceller, boundVars>>

\* A claim of this boot older than the grace period; the executor may be slow.
RecoverStrandedClaim(r) ==
    /\ state[r] = "accepted" /\ boot[r] = bootId /\ operation = r
    /\ \A s \in Runs : dispatch[s] = "none"
    /\ \A a \in Attempts : row[<<r, a>>] \notin OpenRows
    /\ ParkClaim(r)
    /\ UNCHANGED <<current, attempt, expected, requestVars, assetVars, processVars,
                   boundVars>>

-----------------------------------------------------------------------------
(* An executor task.  Each step is one await of `execute`: a transaction on  *)
(* the run, a model call, or a call to OpenSandbox.                          *)

DuringTask == <<current, requestVars, bootId, dispatch, canceller, rollback>>

\* A throw inside the try block: a model or tool error, an abort noticed, a
\* guard of the repository that refused the result.
TaskError(r) ==
    /\ task[r].pc \in {"coordinate", "plan", "attempt", "result", "broken", "save", "bind",
                       "review", "repair"}
    /\ kill[r].stage \in {"none", "failed"} /\ KillEnded(r)
    /\ \E unknown \in {FALSE, At(r, "review")} :
          task' = [task EXCEPT ![r].pc = "catch", ![r].unknown = unknown]
    /\ UNCHANGED <<DuringTask, operation, state, cleanup, attempt, expected, lease,
                   assetVars, tracked, doomed, budget>>

StartCoordinator(r) ==
    /\ At(r, "coordinate") /\ Active(r) /\ state[r] = "accepted"
    /\ state' = [state EXCEPT ![r] = "planning"]
    /\ Goto(r, "plan")
    /\ UNCHANGED <<DuringTask, operation, cleanup, attempt, expected, lease,
                   assetVars, tracked, doomed, kill, budget>>

SubmitPlan(r) ==
    /\ At(r, "plan") /\ ~Aborted(r) /\ Active(r) /\ state[r] = "planning"
    /\ state' = [state EXCEPT ![r] = "building"]
    /\ Goto(r, "attempt")
    /\ UNCHANGED <<DuringTask, operation, cleanup, attempt, expected, lease,
                   assetVars, tracked, doomed, kill, budget>>

RequestClarification(r) ==
    /\ At(r, "plan") /\ ~Aborted(r) /\ Active(r) /\ state[r] = "planning"
    /\ EndRun(r, "needs_input", "confirmed") /\ ReleaseLease(r)
    /\ Goto(r, "final")
    /\ UNCHANGED <<DuringTask, attempt, expected, assetVars, tracked, doomed, kill, budget>>

\* Faulty variant: no limit on the attempts.
StartBuilderUnlimited(r) ==
    /\ At(r, "attempt") /\ ~Aborted(r) /\ Active(r)
    /\ attempt' = [attempt EXCEPT ![r] = @ + 1]
    /\ state' = [state EXCEPT ![r] = "building"]
    /\ Goto(r, "create")
    /\ UNCHANGED <<DuringTask, operation, cleanup, expected, lease,
                   assetVars, tracked, doomed, kill, budget>>
\* The first attempt builds the plan, a later one repairs a failed candidate.
StartBuilder(r) ==
    /\ At(r, "attempt") /\ ~Aborted(r) /\ Active(r)
    /\ \/ state[r] = "building" /\ UNCHANGED attempt
       \/ /\ state[r] = "repairing" /\ attempt[r] < MaxAttempt
          /\ attempt' = [attempt EXCEPT ![r] = @ + 1]
    /\ state' = [state EXCEPT ![r] = "building"]
    /\ Goto(r, "create")
    /\ UNCHANGED <<DuringTask, operation, cleanup, expected, lease,
                   assetVars, tracked, doomed, kill, budget>>

\* The remote create is never aborted; its id may be lost with the response.
CreateSandbox(r) ==
    /\ At(r, "create")
    /\ \/ /\ remote' = [remote EXCEPT ![Cand(r)] = "live"]
          /\ Goto(r, "register") /\ UNCHANGED budget
       \/ /\ task' = [task EXCEPT ![r].pc = "result", ![r].outcome = "failed",
                                 ![r].clean = TRUE]
          /\ \/ UNCHANGED <<remote, budget>>
             \/ remote' = [remote EXCEPT ![Cand(r)] = "live"] /\ Spend("faults")
    /\ UNCHANGED <<DuringTask, operation, state, cleanup, attempt, expected, lease,
                   revision, row, tracked, doomed, kill>>

\* onSandbox("created"): the process tracks the sandbox before the database does.
RegisterSandbox(r) ==
    /\ At(r, "register")
    /\ tracked' = tracked \cup {Cand(r)}
    /\ \/ Active(r) /\ row' = [row EXCEPT ![Cand(r)] = "candidate"] /\ Goto(r, "build")
       \/ /\ ~Active(r) /\ UNCHANGED row
          /\ task' = [task EXCEPT ![r].pc = "unwind", ![r].outcome = "failed"]
    /\ UNCHANGED <<DuringTask, operation, state, cleanup, attempt, expected, lease,
                   revision, remote, doomed, kill, budget>>

\* The Builder, the trusted build and the candidate preview inside the sandbox.
Build(r) ==
    /\ At(r, "build")
    /\ \/ ~Aborted(r) /\ Goto(r, "save")
       \/ \E o \in {"failed"} \cup (IF Aborted(r) THEN {} ELSE {"broken"}) :
             task' = [task EXCEPT ![r].pc = "unwind", ![r].outcome = o]
    /\ UNCHANGED <<DuringTask, operation, state, cleanup, attempt, expected, lease,
                   assetVars, tracked, doomed, kill, budget>>

\* The abort listener of workspace.create kills the sandbox beside the task,
\* until releaseClient detaches it; nobody awaits the answer.
AbortKill(r) ==
    /\ Aborted(r) /\ task[r].pc \in {"register", "build"} /\ remote[Cand(r)] = "live"
    /\ remote' = [remote EXCEPT ![Cand(r)] = "gone"]
    /\ UNCHANGED <<projectVars, requestVars, processVars, boundVars, state, cleanup,
                   attempt, expected, lease, revision, row>>

\* runCandidate destroys the sandbox it does not hand over ...
Unwind(r) ==
    /\ At(r, "unwind")
    /\ \/ /\ remote' = [remote EXCEPT ![Cand(r)] = "gone"]
          /\ task' = [task EXCEPT ![r].pc = "unwound", ![r].clean = TRUE]
          /\ UNCHANGED budget
       \/ /\ remote[Cand(r)] = "live" /\ Spend("faults") /\ UNCHANGED remote
          /\ task' = [task EXCEPT ![r].pc = "unwound", ![r].clean = FALSE]
    /\ UNCHANGED <<DuringTask, operation, state, cleanup, attempt, expected, lease,
                   revision, row, tracked, doomed, kill>>

\* ... and reports it; register(...).catch(() => {}) swallows markDestroyed's
\* NOT_FOUND for a sandbox that has no row.
UnwindCallback(r) ==
    /\ At(r, "unwound")
    /\ IF task[r].clean
       THEN /\ UNCHANGED cleanup
            /\ IF row[Cand(r)] = "none" THEN UNCHANGED <<row, tracked, doomed>>
               ELSE /\ row' = [row EXCEPT ![Cand(r)] = "destroyed"]
                    /\ tracked' = tracked \ {Cand(r)} /\ doomed' = doomed \ {Cand(r)}
       ELSE /\ cleanup' = IF operation = r THEN [cleanup EXCEPT ![r] = "pending"] ELSE cleanup
            /\ UNCHANGED <<row, tracked, doomed>>
    /\ Goto(r, "result")
    /\ UNCHANGED <<DuringTask, operation, state, attempt, expected, lease,
                   revision, remote, kill, budget>>

\* A terminal run is returned unchanged; lockedRun(active = false) does not
\* refuse a run in cancel_requested.
FinishFailed(r, c) ==
    IF state[r] \in Terminal THEN UNCHANGED <<state, cleanup, operation>>
    ELSE operation = r /\ EndRun(r, "failed", c)
FinishCancelled(r, c) ==
    IF state[r] \in Terminal THEN UNCHANGED <<state, cleanup, operation>>
    ELSE EndRun(r, "cancelled", c)
\* Faulty variant: a cleanup is always reported as confirmed.
AlwaysConfirmed(clean) == "confirmed"
Confirmed(clean) == IF clean THEN "confirmed" ELSE "pending"

\* A candidate that was not built: assertVerificationActive comes first.
HandleResult(r) ==
    /\ At(r, "result")
    /\ \/ /\ Aborted(r) /\ Goto(r, "catch")
          /\ UNCHANGED <<state, cleanup, operation, revision>>
       \/ /\ ~Aborted(r) /\ task[r].outcome = "failed"
          /\ FinishFailed(r, Confirmed(task[r].clean))
          /\ Goto(r, "final") /\ UNCHANGED revision
       \/ /\ ~Aborted(r) /\ task[r].outcome = "broken"
          /\ UNCHANGED <<state, cleanup, operation>>
          /\ IF Active(r) THEN /\ revision' = [revision EXCEPT ![Cand(r)] = "broken"]
                               /\ Goto(r, "broken")
             ELSE Goto(r, "catch") /\ UNCHANGED revision
    /\ UNCHANGED <<DuringTask, attempt, expected, lease, row, remote,
                   tracked, doomed, kill, budget>>

\* The diagnostic of a failed build is saved; the run repairs it or ends.
FinishBuildFailure(r) ==
    /\ At(r, "broken")
    /\ \/ /\ ~task[r].clean /\ FinishFailed(r, "pending")
          /\ Goto(r, "final") /\ UNCHANGED lease
       \/ /\ task[r].clean /\ Active(r) /\ state[r] = "building" /\ current = expected[r]
          /\ IF attempt[r] < MaxAttempt
             THEN /\ state' = [state EXCEPT ![r] = "repairing"]
                  /\ Goto(r, "attempt") /\ UNCHANGED <<operation, lease>>
             ELSE /\ state' = [state EXCEPT ![r] = "needs_changes"]
                  /\ operation' = None /\ ReleaseLease(r) /\ Goto(r, "final")
          /\ UNCHANGED cleanup
    /\ UNCHANGED <<DuringTask, attempt, expected, assetVars, tracked, doomed, kill, budget>>

\* completeBuilder and saveCandidate.
SaveCandidate(r) ==
    /\ At(r, "save") /\ ~Aborted(r) /\ Active(r)
    /\ revision' = [revision EXCEPT ![Cand(r)] = "candidate"]
    /\ Goto(r, "bind")
    /\ UNCHANGED <<DuringTask, operation, state, cleanup, attempt, expected, lease,
                   row, remote, tracked, doomed, kill, budget>>

\* bindPreview, queueReviewer and startReviewer.
QueueReviewer(r) ==
    /\ At(r, "bind") /\ ~Aborted(r) /\ Active(r) /\ state[r] = "building"
    /\ current = expected[r] /\ row[Cand(r)] = "candidate"
    /\ row' = [row EXCEPT ![Cand(r)] = "candidate-preview"]
    /\ state' = [state EXCEPT ![r] = "verifying"]
    /\ Goto(r, "review")
    /\ UNCHANGED <<DuringTask, operation, cleanup, attempt, expected, lease,
                   revision, remote, tracked, doomed, kill, budget>>

\* Faulty variant: the verdict is accepted without looking at the run's state.
ReviewableInAnyState(r) == /\ operation = r /\ current = expected[r]
                           /\ revision[Cand(r)] = "candidate"
                           /\ row[Cand(r)] = "candidate-preview"
\* validatedReview: the receipt still belongs to the live candidate.
Reviewable(r) == /\ Active(r) /\ state[r] = "verifying" /\ current = expected[r]
                 /\ revision[Cand(r)] = "candidate"
                 /\ row[Cand(r)] = "candidate-preview"

\* The outcome of a verdict: the run's state and the candidate's status.
Outcome(r, verdict) ==
    CASE verdict = "passed"  -> <<"completed", "accepted">>
      [] verdict = "blocked" -> <<"failed", "candidate">>
      [] verdict = "failed" /\ attempt[r] < MaxAttempt -> <<"repairing", "candidate">>
      [] OTHER -> <<"needs_changes", "rejected">>

\* finishReview's transaction; when the response is lost the task sees a throw
\* with commitUnknown still set.
FinishReview(r, verdict) ==
    /\ At(r, "review") /\ Reviewable(r)
    /\ LET o == Outcome(r, verdict)
           passed == verdict = "passed"
           repair == o[1] = "repairing"
       IN  /\ state' = [state EXCEPT ![r] = o[1]]
           /\ cleanup' = [cleanup EXCEPT ![r] = "clear"]
           /\ revision' = [revision EXCEPT ![Cand(r)] = o[2]]
           /\ current' = IF passed THEN Cand(r) ELSE current
           /\ row' = IF passed THEN [row EXCEPT ![Cand(r)] = "preview"] ELSE row
           /\ IF repair THEN UNCHANGED <<operation, lease>>
              ELSE operation' = None /\ ReleaseLease(r)
           /\ \/ /\ task' = [task EXCEPT ![r].kept = passed,
                                ![r].pc = IF passed THEN "final"
                                          ELSE IF repair THEN "repair" ELSE "release"]
                 /\ UNCHANGED budget
              \/ /\ task' = [task EXCEPT ![r].pc = "catch", ![r].unknown = TRUE]
                 /\ Spend("faults")
    /\ UNCHANGED <<requestVars, bootId, dispatch, canceller, rollback,
                   attempt, expected, remote, tracked, doomed, kill>>

\* Faulty variant: only a confirmed destroy is an answer.
DestroyConfirmed(r) == \/ kill[r].stage = "done"
                       \/ kill[r].stage = "none" /\ Cand(r) \notin tracked
\* destroy(resource) of the task has an answer, or there is nothing to destroy.
DestroyAnswered(r) ==
    \/ kill[r].stage \in {"done", "failed"}
    \/ kill[r].stage = "none" /\ Cand(r) \notin tracked
\* The sandbox of a terminal blocked or rejected candidate is destroyed after
\* the transaction that ended the run; a failure is left to the sweep.
ReleaseRejected(r) ==
    /\ At(r, "release") /\ DestroyAnswered(r)
    /\ KillEnded(r) /\ Goto(r, "final")
    /\ UNCHANGED <<DuringTask, operation, state, cleanup, attempt, expected, lease,
                   assetVars, tracked, doomed, budget>>

\* Faulty variant: the repair does not wait for a confirmed destroy.
PrepareRepairAnyway(r) ==
    /\ At(r, "repair") /\ DestroyAnswered(r)
    /\ Goto(r, "attempt") /\ KillEnded(r)
    /\ UNCHANGED <<DuringTask, state, cleanup, operation, attempt, expected, lease,
                   assetVars, tracked, doomed, budget>>
\* A repair starts only after the rejected sandbox is confirmed gone.
PrepareRepair(r) ==
    /\ At(r, "repair") /\ DestroyAnswered(r)
    /\ IF kill[r].stage = "failed"
       THEN FinishFailed(r, "pending") /\ Goto(r, "final")
       ELSE Goto(r, "attempt") /\ UNCHANGED <<state, cleanup, operation>>
    /\ KillEnded(r)
    /\ UNCHANGED <<DuringTask, attempt, expected, lease, assetVars, tracked, doomed, budget>>

\* The error path asks the database what a lost commit did ...
Reconcile(r) ==
    /\ At(r, "catch") /\ task[r].unknown
    /\ \/ /\ task' = [task EXCEPT ![r].unknown = FALSE,
                         ![r].kept = state[r] = "completed",
                         ![r].pc = IF state[r] \in Terminal THEN "final" ELSE "catch"]
          /\ UNCHANGED budget
       \/ /\ Spend("faults")
          /\ task' = [task EXCEPT ![r].unsettled = TRUE, ![r].pc = "final"]
    /\ UNCHANGED <<DuringTask, operation, state, cleanup, attempt, expected, lease,
                   assetVars, tracked, doomed, kill>>

\* ... and then ends the run; a transaction that fails, or whose response is
\* lost, is settled later.
EndByCatch(r) ==
    LET c == Confirmed(kill[r].stage # "failed")
    IN  IF task[r].signal = "CANCELLED" THEN FinishCancelled(r, c) ELSE FinishFailed(r, c)
EndTask(r) ==
    /\ At(r, "catch") /\ ~task[r].unknown /\ DestroyAnswered(r)
    /\ \/ /\ EndByCatch(r) /\ Goto(r, "final") /\ UNCHANGED budget
       \/ /\ Spend("faults")
          /\ task' = [task EXCEPT ![r].unsettled = TRUE, ![r].pc = "final"]
          /\ EndByCatch(r) \/ UNCHANGED <<state, cleanup, operation>>
    /\ KillEnded(r)
    /\ UNCHANGED <<DuringTask, attempt, expected, lease, assetVars, tracked, doomed>>

\* The finally block; the lease it cannot release is left to the settlement.
\* Faulty variant: an unknown commit does not keep the sandbox.
KeepsRetained(r) == task[r].kept
Keeps(r) == task[r].kept \/ task[r].unknown
FinishTask(r) ==
    /\ At(r, "final") /\ (Keeps(r) \/ DestroyAnswered(r))
    /\ KillEnded(r)
    /\ \/ /\ ReleaseLease(r) /\ UNCHANGED budget
          /\ IF task[r].unsettled THEN Goto(r, "settle")
             ELSE task' = [task EXCEPT ![r] = NoTask]
       \/ Spend("faults") /\ UNCHANGED lease /\ Goto(r, "settle")
    /\ UNCHANGED <<DuringTask, operation, state, cleanup, attempt, expected,
                   assetVars, tracked, doomed>>

\* retrySettlement, until the terminal state is really in the database.  It has
\* read the run before it destroys, so it may miss a stop request.
Settle(r) ==
    /\ At(r, "settle") /\ (state[r] = "completed" \/ DestroyAnswered(r))
    /\ LET c == Confirmed(Cand(r) \notin tracked)
       IN IF state[r] \in Terminal
          THEN IF c = "confirmed" /\ cleanup[r] = "pending"
               THEN operation = r /\ EndRun(r, state[r], c)
               ELSE UNCHANGED <<state, cleanup, operation>>
          ELSE \/ /\ state[r] = "cancel_requested" \/ task[r].signal = "CANCELLED"
                  /\ FinishCancelled(r, c)
               \/ task[r].signal # "CANCELLED" /\ FinishFailed(r, c)
    /\ ReleaseLease(r) /\ KillEnded(r)
    /\ task' = [task EXCEPT ![r] = NoTask]
    /\ UNCHANGED <<DuringTask, attempt, expected, assetVars, tracked, doomed, budget>>

-----------------------------------------------------------------------------
(* destroy(resource), run by a task for its own sandbox and by the sweep.    *)

DuringKill == <<current, requestVars, bootId, dispatch, task, canceller, rollback>>

BeginKill(d, c) ==
    /\ doomed' = doomed \cup {c}
    /\ kill' = [kill EXCEPT ![d] = [stage |-> "kill", cand |-> c]]
    /\ UNCHANGED <<DuringKill, operation, state, cleanup, attempt, expected, lease,
                   assetVars, tracked, budget>>

TaskDestroy(r) ==
    /\ \/ task[r].pc \in {"release", "repair"}
       \/ At(r, "catch") /\ ~task[r].unknown
       \/ At(r, "final") /\ ~Keeps(r)
       \/ At(r, "settle") /\ state[r] # "completed"
    /\ kill[r].stage = "none" /\ Cand(r) \in tracked
    /\ BeginKill(r, Cand(r))

\* Faulty variant: a resource whose cleanup failed once is not visited again.
SweepDestroyOnce(c) ==
    /\ kill[Sweep].stage = "none" /\ c \in tracked \ doomed
    /\ At(c[1], "idle")
    /\ BeginKill(Sweep, c)
\* One resource at a time: one whose cleanup failed, or one that expired (or
\* is put to sleep) with no task on it.
SweepDestroy(c) ==
    /\ kill[Sweep].stage = "none" /\ c \in tracked
    /\ c \in doomed \/ At(c[1], "idle")
    /\ BeginKill(Sweep, c)

\* Answer(d, "done") is `true` of destroy; the sweep drops the answer.
Answer(d, s) ==
    kill' = [kill EXCEPT ![d] = IF d = Sweep THEN NoKill ELSE [@ EXCEPT !.stage = s]]
NextStage(d, s) == kill' = [kill EXCEPT ![d].stage = s]

KillRemote(d) ==
    /\ kill[d].stage = "kill"
    /\ \/ /\ remote' = [remote EXCEPT ![kill[d].cand] = "gone"]
          /\ NextStage(d, "mark") /\ UNCHANGED budget
       \/ /\ remote[kill[d].cand] = "live" /\ Spend("faults")
          /\ NextStage(d, "park") /\ UNCHANGED remote
    /\ UNCHANGED <<DuringKill, operation, state, cleanup, attempt, expected, lease,
                   revision, row, tracked, doomed>>

\* markDestroyed throws NOT_FOUND when the sandbox never got a row.
MarkDestroyed(d) ==
    /\ kill[d].stage = "mark"
    /\ IF row[kill[d].cand] = "none" THEN Answer(d, "failed") /\ UNCHANGED row
       ELSE /\ row' = [row EXCEPT ![kill[d].cand] = "destroyed"]
            /\ NextStage(d, "confirm")
    /\ UNCHANGED <<DuringKill, operation, state, cleanup, attempt, expected, lease,
                   revision, remote, tracked, doomed, budget>>

\* getRun, then confirmCleanup only if a cleanup is pending; it refuses a run
\* that is not terminal yet, and the resource stays tracked.
ConfirmCleanup(d) ==
    /\ kill[d].stage = "confirm"
    /\ LET c == kill[d].cand
           r == c[1]
       IN IF cleanup[r] = "pending" /\ (state[r] \notin Terminal \/ operation # r)
          THEN Answer(d, "failed") /\ UNCHANGED <<state, cleanup, operation, tracked, doomed>>
          ELSE /\ tracked' = tracked \ {c} /\ doomed' = doomed \ {c}
               /\ Answer(d, "done")
               /\ IF cleanup[r] = "pending" THEN EndRun(r, state[r], "confirmed")
                  ELSE UNCHANGED <<state, cleanup, operation>>
    /\ UNCHANGED <<DuringKill, attempt, expected, lease, assetVars, budget>>

\* Faulty variant: the resource is forgotten although it was not confirmed gone.
MarkCleanupPendingAndForget(d) ==
    /\ kill[d].stage = "park"
    /\ LET r == kill[d].cand[1]
       IN cleanup' = IF operation = r THEN [cleanup EXCEPT ![r] = "pending"] ELSE cleanup
    /\ Answer(d, "failed")
    /\ tracked' = tracked \ {kill[d].cand} /\ doomed' = doomed \ {kill[d].cand}
    /\ UNCHANGED <<DuringKill, operation, state, attempt, expected, lease,
                   assetVars, budget>>
\* markCleanupPending refuses to take a released project again.
MarkCleanupPending(d) ==
    /\ kill[d].stage = "park"
    /\ LET r == kill[d].cand[1]
       IN cleanup' = IF operation = r THEN [cleanup EXCEPT ![r] = "pending"] ELSE cleanup
    /\ Answer(d, "failed")
    /\ UNCHANGED <<DuringKill, operation, state, attempt, expected, lease,
                   assetVars, tracked, doomed, budget>>

-----------------------------------------------------------------------------
(* Stop requests: repository.cancel, executor.cancel, finishCancelled.       *)

RequestCancel(r) ==
    /\ Spend("cancels") /\ canceller[r] = "none"
    /\ \/ /\ state[r] = "queued"
          /\ EndRun(r, "cancelled", "confirmed") /\ ReleaseLease(r) /\ UNCHANGED canceller
       \/ /\ state[r] \in Live /\ operation = r
          /\ state' = [state EXCEPT ![r] = "cancel_requested"]
          /\ cleanup' = IF state[r] = "cancel_requested" THEN cleanup
                        ELSE [cleanup EXCEPT ![r] = "pending"]
          /\ canceller' = [canceller EXCEPT ![r] = "dispatch"]
          /\ UNCHANGED <<operation, lease>>
    /\ UNCHANGED <<current, attempt, expected, requestVars, assetVars,
                   bootId, dispatch, task, tracked, doomed, kill, rollback>>

\* Faulty variant: a run without a task is left in cancel_requested.
DispatchCancelToTask(r) ==
    /\ canceller[r] = "dispatch"
    /\ canceller' = [canceller EXCEPT ![r] = "none"]
    /\ IF At(r, "idle") THEN UNCHANGED task
       ELSE task' = [task EXCEPT ![r].signal = IF @ = "none" THEN "CANCELLED" ELSE @]
    /\ UNCHANGED <<projectVars, state, cleanup, attempt, expected, requestVars, lease,
                   assetVars, bootId, dispatch, tracked, doomed, kill, boundVars>>
\* Only the first abort sets the reason of an AbortSignal.
DispatchCancel(r) ==
    /\ canceller[r] = "dispatch"
    /\ IF At(r, "idle")
       THEN canceller' = [canceller EXCEPT ![r] = "finish"] /\ UNCHANGED task
       ELSE /\ canceller' = [canceller EXCEPT ![r] = "none"]
            /\ task' = [task EXCEPT ![r].signal = IF @ = "none" THEN "CANCELLED" ELSE @]
    /\ UNCHANGED <<projectVars, state, cleanup, attempt, expected, requestVars, lease,
                   assetVars, bootId, dispatch, tracked, doomed, kill, boundVars>>

\* With no task in this process the request itself runs finishCancelled, whose
\* SELECT takes no lock ...
ReadForCancel(r) ==
    /\ canceller[r] = "finish"
    /\ canceller' = [canceller EXCEPT ![r] = IF state[r] \in Terminal THEN "none" ELSE "write"]
    /\ UNCHANGED <<projectVars, state, cleanup, attempt, expected, requestVars, lease,
                   assetVars, bootId, dispatch, task, tracked, doomed, kill, boundVars>>

\* ... and whose UPDATE is by id alone.
WriteCancelled(r) ==
    /\ canceller[r] = "write"
    /\ EndRun(r, "cancelled", "confirmed")
    /\ canceller' = [canceller EXCEPT ![r] = "none"]
    /\ UNCHANGED <<current, attempt, expected, requestVars, lease, assetVars,
                   bootId, dispatch, task, tracked, doomed, kill, boundVars>>

-----------------------------------------------------------------------------
(* Timeouts, restarts and the provider.                                      *)

\* The progress watchdog, or the sweep on an expired candidate.
RunTimeout(r) ==
    /\ task[r].pc \in Working /\ ~Aborted(r) /\ Spend("faults")
    /\ task' = [task EXCEPT ![r].signal = "RUN_TIMEOUT"]
    /\ UNCHANGED <<projectVars, state, cleanup, attempt, expected, requestVars, lease,
                   assetVars, bootId, dispatch, tracked, doomed, kill, canceller, rollback>>

\* The process dies and the next one claims the stale runs before it serves
\* anything: claim_stale_runs is awaited before the routes and the queue start.
Restart ==
    /\ bootId < MaxBoots
    /\ bootId' = bootId + 1
    /\ dispatch' = [r \in Runs |-> "none"]
    /\ task' = [r \in Runs |-> NoTask]
    /\ tracked' = {} /\ doomed' = {}
    /\ kill' = [d \in Destroyers |-> NoKill]
    /\ canceller' = [r \in Runs |-> "none"]
    /\ state' = [r \in Runs |-> IF state[r] \in Live THEN "interrupted" ELSE state[r]]
    /\ cleanup' = [r \in Runs |-> IF state[r] \in Live THEN "pending" ELSE cleanup[r]]
    /\ UNCHANGED <<projectVars, attempt, expected, requestVars, lease, assetVars, boundVars>>

Stale(r) == boot[r] # bootId /\ cleanup[r] = "pending"

\* recoverOnce destroys the sandboxes the stale run has rows for ...
RecoverKill(c) ==
    /\ Stale(c[1]) /\ row[c] \in OpenRows /\ remote[c] = "live"
    /\ remote' = [remote EXCEPT ![c] = "gone"]
    /\ UNCHANGED <<projectVars, state, cleanup, attempt, expected, requestVars, lease,
                   revision, row, processVars, boundVars>>

\* Faulty variant: a run that never had a sandbox is not settled.
SettleRunWithSandboxes(r) ==
    /\ Stale(r)
    /\ \E a \in Attempts : row[<<r, a>>] \in OpenRows
    /\ \A a \in Attempts : row[<<r, a>>] \in OpenRows => remote[<<r, a>>] # "live"
    /\ EndRun(r, state[r], "confirmed")
    /\ row' = [c \in Candidates |-> IF c[1] = r /\ row[c] \in OpenRows
                                    THEN "destroyed" ELSE row[c]]
    /\ UNCHANGED <<current, attempt, expected, requestVars, lease, revision, remote,
                   processVars, boundVars>>

\* ... and settles the run once every one of them is confirmed.
SettleRecoveredRun(r) ==
    /\ Stale(r)
    /\ \A a \in Attempts : row[<<r, a>>] \in OpenRows => remote[<<r, a>>] # "live"
    /\ EndRun(r, state[r], "confirmed")
    /\ row' = [c \in Candidates |-> IF c[1] = r /\ row[c] \in OpenRows
                                    THEN "destroyed" ELSE row[c]]
    /\ UNCHANGED <<current, attempt, expected, requestVars, lease, revision, remote,
                   processVars, boundVars>>

\* Nobody renews the lease of a sandbox whose task is over.
RemoteExpire(c) ==
    /\ remote[c] = "live" /\ At(c[1], "idle")
    /\ remote' = [remote EXCEPT ![c] = "gone"]
    /\ UNCHANGED <<projectVars, state, cleanup, attempt, expected, requestVars, lease,
                   revision, row, processVars, boundVars>>

-----------------------------------------------------------------------------
(* A rollback holds the same project lock; its own states are not modelled   *)
(* here.                                                                     *)

\* Faulty variant: any other saved version can be the target.
BeginRollbackToAny(v) ==
    /\ operation = None /\ v # current /\ revision[v] # "none" /\ Spend("rollbacks")
    /\ operation' = RollbackOp /\ rollback' = v
    /\ UNCHANGED <<current, state, cleanup, attempt, expected, requestVars, lease,
                   assetVars, processVars>>

BeginRollback(v) ==
    /\ operation = None /\ v # current /\ revision[v] = "accepted" /\ Spend("rollbacks")
    /\ operation' = RollbackOp /\ rollback' = v
    /\ UNCHANGED <<current, state, cleanup, attempt, expected, requestVars, lease,
                   assetVars, processVars>>

EndRollback ==
    /\ operation = RollbackOp
    /\ operation' = None /\ rollback' = None
    /\ current' \in {current, rollback}
    /\ UNCHANGED <<state, cleanup, attempt, expected, requestVars, lease,
                   assetVars, processVars, budget>>

-----------------------------------------------------------------------------

TaskStep(r) ==
    \/ TaskError(r) \/ StartCoordinator(r) \/ SubmitPlan(r) \/ RequestClarification(r)
    \/ StartBuilder(r) \/ CreateSandbox(r) \/ RegisterSandbox(r) \/ Build(r)
    \/ Unwind(r) \/ UnwindCallback(r) \/ HandleResult(r) \/ FinishBuildFailure(r)
    \/ SaveCandidate(r) \/ QueueReviewer(r)
    \/ \E verdict \in {"passed", "failed", "blocked"} : FinishReview(r, verdict)
    \/ ReleaseRejected(r) \/ PrepareRepair(r) \/ Reconcile(r) \/ EndTask(r)
    \/ FinishTask(r) \/ Settle(r) \/ TaskDestroy(r)

DestroyStep(d) == \/ KillRemote(d) \/ MarkDestroyed(d)
                  \/ ConfirmCleanup(d) \/ MarkCleanupPending(d)

DispatchStep(r) == \/ ClaimNextQueuedRun(r) \/ PrepareDispatch(r) \/ ParkDispatch(r)
                   \/ DispatchError(r) \/ StartTask(r) \/ RecoverStrandedClaim(r)

CancelStep(r) == DispatchCancel(r) \/ ReadForCancel(r) \/ WriteCancelled(r)

Next ==
    \/ \E r \in Runs : \/ \E chosen \in BOOLEAN : Accept(r, chosen)
                       \/ DispatchStep(r) \/ TaskStep(r)
                       \/ RequestCancel(r) \/ CancelStep(r)
                       \/ RunTimeout(r) \/ AbortKill(r) \/ SettleRecoveredRun(r)
    \/ \E d \in Destroyers : DestroyStep(d)
    \/ \E c \in Candidates : \/ SweepDestroy(c) \/ RecoverKill(c)
                             \/ RemoteExpire(c) \/ BeginRollback(c)
    \/ Restart
    \/ EndRollback

Spec == Init /\ [][Next]_vars

-----------------------------------------------------------------------------
(* Properties                                                                *)

Versions == Candidates \cup {None}

ProjectType == /\ operation \in Runs \cup {None, RollbackOp}
               /\ current \in Versions /\ rollback \in Versions
StateType   == state \in [Runs -> States]
CleanupType == cleanup \in [Runs -> Cleanups]
LeaseType   == lease \in [Runs -> {"none", "held", "released"}]
RequestType == /\ attempt \in [Runs -> Attempts] /\ expected \in [Runs -> Versions]
               /\ selected \in [Runs -> BOOLEAN] /\ earlier \in [Runs -> SUBSET Runs]
               /\ boot \in [Runs -> 0..MaxBoots] /\ bootId \in 0..MaxBoots
AssetType   == /\ revision \in [Candidates -> Revisions]
               /\ row \in [Candidates -> RowStates]
               /\ remote \in [Candidates -> {"none", "live", "gone"}]
               /\ tracked \subseteq Candidates /\ doomed \subseteq Candidates
ProcessType == /\ dispatch \in [Runs -> {"none", "prepare", "start"}]
               /\ canceller \in [Runs -> {"none", "dispatch", "finish", "write"}]
TaskType    == task \in [Runs -> Tasks]
KillType    == kill \in [Destroyers -> [stage : Stages, cand : Candidates]]
BudgetType  == budget \in [cancels : 0..MaxCancels, faults : 0..MaxFaults,
                          rollbacks : 0..MaxRollbacks]

\* The rows, the sandboxes, the tasks and the destroys stay in their value sets;
\* in particular no run starts more attempts than the limit.
TypeOK == /\ ProjectType /\ StateType /\ CleanupType /\ LeaseType /\ RequestType
          /\ AssetType /\ ProcessType /\ TaskType /\ KillType /\ BudgetType

\* A project runs one generation at a time: a run that is under way holds the
\* project (operation_id), whatever the cancel requests, sweeps, stranded-claim
\* recovery and rollbacks around it do.
LockHeld == \A r \in Runs : state[r] \in Live => operation = r

\* A run that reports its cleanup as confirmed left no registered sandbox alive.
ReclaimedWhenConfirmed ==
    \A c \in Candidates :
        cleanup[c[1]] = "confirmed" /\ row[c] # "none" => remote[c] # "live"

\* While results can still be accepted, the base the run was started on is the
\* project's current version: what it accepts never overwrites another version.
BaseIsCurrent ==
    \A r \in Runs : state[r] \in Live \ {"accepted", "cancel_requested"}
                     => expected[r] = current

\* A repair starts after the sandbox of the rejected attempt is confirmed gone.
OneSandboxPerRun ==
    \A r \in Runs : state[r] \in Live =>
        \A a \in Attempts : a < attempt[r] => remote[<<r, a>>] # "live"

\* No sandbox leaks: what has an open row of this boot is known to the sweep.
OpenRowTracked ==
    \A c \in Candidates : row[c] \in OpenRows /\ boot[c[1]] = bootId => c \in tracked

\* A preview the review accepted is not killed by the task that made it, also
\* when the response to the commit was lost.
AcceptedPreviewKept ==
    \A r \in Runs : state[r] = "completed" /\ task[r].pc # "idle" =>
        remote[Cand(r)] = "live"

\* A stop request is never reverted to work or to success, and a run that is
\* completed stays so, whatever late result, sweep, settlement or finishCancelled
\* is still under way.
Irreversible ==
    \A r \in Runs :
        /\ state[r] = "cancel_requested" =>
             state'[r] \in {"cancel_requested", "cancelled", "failed", "interrupted"}
        /\ state[r] = "completed" => state'[r] = "completed"
        /\ state[r] \in Terminal => state'[r] \in Terminal
NoReversal == [][Irreversible]_vars

\* The project's accepted versions behave as ProjectVersions says.
Project == INSTANCE ProjectVersions WITH
              Holders <- Runs, Rollback <- RollbackOp, Versions <- Candidates,
              Nobody <- None, holder <- operation,
              history <- {c \in Candidates : revision[c] = "accepted"}
VersionsKept == Project!Spec

-----------------------------------------------------------------------------
(* Liveness                                                                  *)

\* What the event loop, the scheduler's tick, the sweep's and the recovery's
\* timers always get to.  The sweep visits every resource on each of its passes,
\* so it cannot pass over one for ever: strong fairness.  Requests, timeouts and
\* crashes are under no fairness.
Fairness ==
    /\ \A r \in Runs : /\ WF_vars(TaskStep(r)) /\ WF_vars(DestroyStep(r))
                       /\ WF_vars(DispatchStep(r)) /\ WF_vars(CancelStep(r))
                       /\ WF_vars(SettleRecoveredRun(r))
    /\ WF_vars(DestroyStep(Sweep))
    /\ \A c \in Candidates : SF_vars(SweepDestroy(c)) /\ WF_vars(RecoverKill(c))
    /\ WF_vars(EndRollback)
FairSpec == Spec /\ Fairness

\* Every task of the executor comes to its end, whatever fails under it, unless
\* its run's cleanup stays pending on a project that was given back, where
\* confirmCleanup refuses every retry.
TaskSettles == \A r \in Runs : []<>(cleanup[r] = "pending" => operation = r)
                                 => (~At(r, "idle") ~> At(r, "idle"))

\* A stop request is answered with a terminal state.
StopEnds == \A r \in Runs : state[r] = "cancel_requested" ~> state[r] \in Terminal

\* A cleanup that is pending when the run is over, with a registered sandbox the
\* process still tracks, does not stay pending.
TrackedCleanupResolves ==
    \A c \in Candidates :
        (/\ c \in tracked /\ row[c] # "none"
         /\ state[c[1]] \in Terminal /\ cleanup[c[1]] = "pending")
        ~> (cleanup[c[1]] # "pending")

\* Every run gives the project back for the next request: it finishes or is stopped,
\* its claim is parked, or the recovery after a restart settles it.  Only a cleanup
\* that this process leaves pending may keep the project.
ProjectFreed ==
    \A r \in Runs : []<>(cleanup[r] # "pending" \/ Stale(r))
                     => (operation = r ~> operation # r)
=============================================================================

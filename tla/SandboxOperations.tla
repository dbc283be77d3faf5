-------------------------- MODULE SandboxOperations --------------------------
(***************************************************************************)
(* Rollbacks, restores, their previews and queued runs on one ceiling: the *)
(* scheduler's round (generation/scheduler.ts), the reclaim of an idle     *)
(* preview (migration 024), a restart, and what holds of them together.    *)
(***************************************************************************)
EXTENDS Rollback, PreviewRestore

\* claim_next_queued_run, for a run of a free project.
ClaimJob(j) ==
    /\ status[j] = "queued" /\ lock[Home[j]] = None /\ ReserveCapacity
    /\ status' = [status EXCEPT ![j] = "working"]
    /\ lock' = [lock EXCEPT ![Home[j]] = j]
    /\ UNCHANGED <<current, error, bound, row, lapsed, remote, memory, faults, boots>>

\* The run's end: RunLifecycle tells how.  This one leaves no preview.
EndJob(j) ==
    /\ status[j] = "working"
    /\ status' = [status EXCEPT ![j] = "ended"]
    /\ lock' = Release(j)
    /\ UNCHANGED <<current, error, bound, row, lapsed, remote, memory, faults, boots>>

\* preview_reclaim_candidates: active previews of free projects.
Candidates == {s \in Operations : row[s] = "active" /\ s \notin lapsed /\ lock[Home[s]] = None}

\* tick: an idle preview is put to sleep when nothing fits and a run of a free
\* project waits.  The executor only destroys a sandbox it tracks; which of several
\* candidates comes first is left open.
SleepIdlePreview(s) ==
    /\ ~ReserveCapacity
    /\ \E j \in Jobs : status[j] = "queued" /\ lock[Home[j]] = None
    /\ s \in Candidates /\ s \in resources /\ s \notin sweeping
    /\ sweeping' = sweeping \union {s}
    /\ UNCHANGED <<durable, lapsed, remote, phase, aborted, claims, retained, unregistered,
                   resources, killed, failing, bootClaims, cancelling, faults, boots>>

\* The process dies and the next one recovers before it serves: recoverOnce.  Runs
\* at work are ended, restores and rollbacks are claimed, and only the committed
\* rollbacks' previews find an owner again.
Restart ==
    /\ boots < MaxBoots /\ boots' = boots + 1
    /\ status' = [o \in Operations \union Jobs |->
          IF o \in Jobs THEN IF status[o] = "working" THEN "ended" ELSE status[o]
          ELSE IF o \in Rollbacks THEN RecoveredRollback(o)
          ELSE IF Recoverable(o) THEN "failed" ELSE status[o]]
    /\ error' = [o \in Operations |->
          IF error[o] = "none" /\ (\/ o \in Rollbacks /\ RecoveredRollback(o) # status[o]
                                   \/ o \in Restores /\ StaleRestore(o))
          THEN "FAILED" ELSE error[o]]
    /\ lock' = [p \in Projects |->
          IF lock[p] \in Jobs \/ (lock[p] \in Restores /\ Recoverable(lock[p])) THEN None ELSE lock[p]]
    /\ claims' = {b \in Rollbacks : StaleRollback(b)}
    /\ retained' = {b \in Rollbacks : status[b] = "committed" /\ OpenRow(b)}
    /\ bootClaims' = {r \in Restores : StaleRestore(r) /\ r \in bound}
    /\ phase' = [o \in Operations |-> "idle"]
    /\ aborted' = {} /\ unregistered' = {} /\ resources' = {} /\ sweeping' = {}
    /\ killed' = {} /\ failing' = {} /\ cancelling' = {}
    /\ UNCHANGED <<current, bound, row, lapsed, remote, faults>>

RollbackStep(b) ==
    \/ CreateRollback(b) \/ RegisterRollback(b) \/ BuildRollback(b) \/ MarkPrepared(b)
    \/ CommitRollback(b) \/ CatchRollback(b) \/ FailRollback(b) \/ KillRollback(b)
    \/ MarkRollbackDestroyed(b) \/ ReconcileRollback(b) \/ VerifyRollback(b)
    \/ SignalRollback(b) \/ CleanExpiredCommitted(b) \/ KillUnregistered(b)

RestoreStep(r) ==
    \/ CreateRestore(r) \/ RegisterRestore(r) \/ BuildRestore(r) \/ BindRestore(r)
    \/ RecordFailure(r) \/ RetryBootClaim(r)

Next ==
    \/ \E b \in Rollbacks : \/ BeginRollback(b) \/ ClaimQueuedRollback(b) \/ RollbackStep(b)
                            \/ CatchUnread(b) \/ CancelRollback(b) \/ RollbackTimeout(b)
    \/ \E r \in Restores : BeginRestore(r) \/ ClaimQueuedRestore(r) \/ RestoreStep(r)
    \/ \E j \in Jobs : ClaimJob(j) \/ EndJob(j)
    \/ \E s \in Operations : BeginDestroy(s) \/ MarkDestroyed(s) \/ SleepIdlePreview(s) \/ Lapse(s)
    \/ Restart

Spec == LedgerInit /\ [][Next]_vars

\* The process's tasks and timers run, leases end, runs end; nothing makes a user
\* ask, a request fail or a process restart.
Fairness ==
    /\ \A b \in Rollbacks : WF_vars(RollbackStep(b)) /\ WF_vars(ClaimQueuedRollback(b))
    /\ \A r \in Restores : WF_vars(RestoreStep(r)) /\ WF_vars(ClaimQueuedRestore(r))
    /\ \A j \in Jobs : WF_vars(ClaimJob(j)) /\ WF_vars(EndJob(j))
    /\ \A s \in Operations : WF_vars(BeginDestroy(s)) /\ WF_vars(MarkDestroyed(s))
    /\ WF_vars(\E s \in Operations : SleepIdlePreview(s))
FairSpec == Spec /\ Fairness /\ \A s \in Operations : WF_vars(Lapse(s))

-----------------------------------------------------------------------------
TypeOK ==
    /\ lock \in [Projects -> Operations \union Jobs \union {None}]
    /\ current \in [Projects -> Versions]
    /\ \A b \in Rollbacks : status[b] \in RollbackActive \union RollbackEnded \union {"none"}
    /\ \A r \in Restores : status[r] \in RestoreActive \union {"none", "ready", "failed"}
    /\ \A j \in Jobs : status[j] \in {"queued", "working", "ended"}
    /\ error \in [Operations -> {"none", "CANCELLED", "FAILED"}]
    /\ bound \subseteq Operations
    /\ row \in [Operations -> {"none", "creating", "active", "destroyed"}]
    /\ lapsed \subseteq Operations
    /\ remote \in [Operations -> {"none", "alive", "gone"}]
    /\ phase \in [Operations -> {"idle", "create", "register", "build", "prepare", "commit",
                                 "catch", "fail", "kill", "mark", "verify", "bind", "undo", "record"}]
    /\ aborted \union claims \union retained \union unregistered \union cancelling \subseteq Rollbacks
    /\ resources \union sweeping \union killed \subseteq Operations
    /\ failing \union bootClaims \subseteq Restores
    /\ faults \in 0..MaxFaults /\ boots \in 0..MaxBoots

Unfinished(o) ==
    status[o] \in IF o \in Rollbacks THEN RollbackActive
                  ELSE IF o \in Restores THEN RestoreActive ELSE {"working"}

\* The project row's operation is its unfinished operation, through every error
\* path, every retry and every restart: none ends and leaves the project blocked,
\* and none works on after another took the project.
LockFollowsOperation ==
    \A o \in Operations \union Jobs :
        Unfinished(o) <=> lock[Home[o]] = o

\* A sandbox that something still works with or shows: it exists or is being
\* created, and is not one whose rollback was stopped or that was never registered.
InUse ==
    {s \in Operations : /\ remote[s] = "alive" /\ OpenRow(s)
                       /\ ~(s \in Rollbacks /\ error[s] # "none")}
    \union {o \in Operations : phase[o] = "create" /\ Unfinished(o) /\ error[o] = "none"}
    \union {j \in Jobs : status[j] = "working"}

\* Everything admitted by any of the four paths fits under the ceiling.
CapacityKept == Cardinality(InUse) <= Ceiling

\* A live sandbox of an operation has someone who will destroy it or the end of
\* its lease: its task, a claim, a timer's list, or the row of a preview that was
\* delivered.  A create that a restart cut off from its row has only its lease.
Accounted(o) ==
    \/ phase[o] # "idle" \/ o \in claims \/ o \in unregistered \/ o \in resources
    \/ o \in bootClaims \/ o \in cancelling
    \/ status[o] \in {"committed", "ready"}
    \/ o \notin bound /\ boots > 0
SandboxAccounted == \A o \in Operations : remote[o] = "alive" => Accounted(o)

\* What the process no longer carries: the claim's answer or the version's read
\* was lost after the row left the queue.
Stranded(o) ==
    /\ status[o] \in {"preparing", "pending"} /\ phase[o] = "idle"
    /\ o \notin claims \union failing \union bootClaims \union cancelling /\ o \notin bound

\* An operation that left the queue ends, unless it is stranded.
OperationEnds ==
    \A o \in Operations :
        (Unfinished(o) /\ status[o] # "queued") ~> (~Unfinished(o) \/ Stranded(o))
=============================================================================

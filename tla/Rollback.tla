------------------------------ MODULE Rollback ------------------------------
(***************************************************************************)
(* A project returns to an earlier version (data/rollback.ts,              *)
(* generation/rollback.ts, migrations 016 and 023): the target is rebuilt  *)
(* in a sandbox of its own, checked, recorded as prepared and committed.   *)
(* A task of the process carries a rollback from "preparing"; what it      *)
(* cannot finish becomes a claim that the process reconciles.              *)
(***************************************************************************)
EXTENDS SandboxLedger

\* rollbacks.status
RollbackEnded == {"committed", "failed", "cancelled"}
RollbackActive == {"queued", "preparing", "prepared", "cancel_requested", "cleanup_pending"}

StartRollback(b) == phase' = [phase EXCEPT ![b] = IF @ = "idle" THEN "create" ELSE @]

\* begin: refused unless the project stands at the expected version and is free;
\* reserve_rollback_slot decides between a slot and the queue.
BeginRollback(b) ==
    LET p == Home[b] IN
    /\ status[b] = "none" /\ lock[p] = None /\ current[p] = "new"
    /\ lock' = [lock EXCEPT ![p] = b]
    /\ \/ /\ ReserveCapacity
          /\ status' = [status EXCEPT ![b] = "preparing"] /\ StartRollback(b)
       \/ /\ ~ReserveCapacity
          /\ status' = [status EXCEPT ![b] = "queued"] /\ UNCHANGED phase
    /\ UNCHANGED <<current, error, bound, row, lapsed, remote, aborted, claims, retained,
                   unregistered, resources, sweeping, killed, failing, bootClaims, cancelling,
                   faults, boots>>

\* claim_next_queued_rollback and the hand-over.  When the answer of the claim is
\* lost, the rollback is "preparing" and nothing carries it until the next boot.
ClaimQueuedRollback(b) ==
    /\ status[b] = "queued" /\ lock[Home[b]] = b /\ ReserveCapacity
    /\ status' = [status EXCEPT ![b] = "preparing"]
    /\ \/ NoFault /\ StartRollback(b)
       \/ Fault /\ UNCHANGED phase
    /\ UNCHANGED <<lock, current, error, bound, row, lapsed, remote, aborted, claims,
                   retained, unregistered, resources, sweeping, killed, failing, bootClaims,
                   cancelling, boots>>

-----------------------------------------------------------------------------
(* The task: create, register, build, prepare, commit.                     *)

RestMemory == <<claims, retained, unregistered, resources, sweeping, killed, failing,
                bootClaims, cancelling>>
RollbackGoes(b, to) == phase' = [phase EXCEPT ![b] = to]

\* The sources do not load, the signal is raised, or the provider refuses.
CreateRollback(b) ==
    /\ b \in Rollbacks /\ phase[b] = "create"
    /\ \/ /\ b \notin aborted
          /\ remote' = [remote EXCEPT ![b] = "alive"]
          /\ RollbackGoes(b, "register")
       \/ UNCHANGED remote /\ RollbackGoes(b, "catch")
    /\ UNCHANGED <<durable, lapsed, aborted, RestMemory, faults, boots>>

DoRegisterRollback(b) ==
    /\ IF status[b] \in {"preparing", "cancel_requested"} /\ lock[Home[b]] = b
       THEN /\ row' = [row EXCEPT ![b] = "creating"]
            /\ bound' = bound \union {b}
       ELSE UNCHANGED <<row, bound>>
    /\ UNCHANGED <<lock, current, status, error>>

RegisterRollback(b) ==
    /\ b \in Rollbacks /\ phase[b] = "register"
    /\ \/ /\ NoFault /\ DoRegisterRollback(b)
          /\ \/ b \in bound' /\ RollbackGoes(b, "build") /\ UNCHANGED remote
             \/ b \notin bound' /\ RollbackGoes(b, "catch") /\ KillTried(b)
       \/ /\ Fault /\ (DoRegisterRollback(b) \/ UNCHANGED durable)
          /\ RollbackGoes(b, "catch") /\ KillTried(b)
    /\ UNCHANGED <<lapsed, aborted, RestMemory, boots>>

\* The build and its checks; a failure or an abort destroys the sandbox on the way
\* out without waiting for a confirmation.
BuildRollback(b) ==
    /\ b \in Rollbacks /\ phase[b] = "build"
    /\ \/ b \notin aborted /\ RollbackGoes(b, "prepare") /\ UNCHANGED remote
       \/ RollbackGoes(b, "catch") /\ KillTried(b)
    /\ UNCHANGED <<durable, lapsed, aborted, RestMemory, faults, boots>>

DoMarkPrepared(b) ==
    /\ status' = [status EXCEPT ![b] =
            IF @ = "preparing" /\ lock[Home[b]] = b /\ row[b] = "creating" THEN "prepared" ELSE @]
    /\ UNCHANGED <<lock, current, error, bound, row>>

MarkPrepared(b) ==
    /\ phase[b] = "prepare"
    /\ \/ b \in aborted /\ UNCHANGED durable /\ NoFault /\ RollbackGoes(b, "catch")
       \/ /\ b \notin aborted /\ NoFault /\ DoMarkPrepared(b)
          /\ RollbackGoes(b, IF status'[b] = "prepared" THEN "commit" ELSE "catch")
       \/ /\ b \notin aborted /\ Fault /\ (DoMarkPrepared(b) \/ UNCHANGED durable)
          /\ RollbackGoes(b, "catch")
    /\ UNCHANGED <<lapsed, remote, aborted, RestMemory, boots>>

Committable(b) ==
    /\ status[b] = "prepared" /\ lock[Home[b]] = b /\ current[Home[b]] = "new"
    /\ row[b] = "creating" /\ b \notin lapsed

\* One transaction: the preview becomes active, the project moves to the target and
\* is free, the rollback is committed.
DoCommitRollback(b) ==
    /\ IF Committable(b)
       THEN /\ row' = [row EXCEPT ![b] = "active"]
            /\ current' = [current EXCEPT ![Home[b]] = "old"]
            /\ lock' = Release(b)
            /\ status' = [status EXCEPT ![b] = "committed"]
       ELSE UNCHANGED <<row, current, lock, status>>
    /\ UNCHANGED <<error, bound>>

CommitRollback(b) ==
    /\ phase[b] = "commit"
    /\ \/ /\ NoFault /\ DoCommitRollback(b)
          /\ \/ /\ status'[b] = "committed" /\ RollbackGoes(b, "idle")
                /\ retained' = retained \union {b}
             \/ status'[b] # "committed" /\ RollbackGoes(b, "catch") /\ UNCHANGED retained
       \/ /\ Fault /\ (DoCommitRollback(b) \/ UNCHANGED durable)
          /\ RollbackGoes(b, "catch") /\ UNCHANGED retained
    /\ UNCHANGED <<lapsed, remote, aborted, claims, unregistered, resources, sweeping, killed,
                   failing, bootClaims, cancelling, boots>>

-----------------------------------------------------------------------------
(* The error path.                                                         *)

\* The row is read.  A sandbox the row does not name is destroyed as an orphan; an
\* unreadable row and a prepared rollback nobody stopped become claims; everything
\* else is cleaned up here.
OrphanKill(b, named) ==
    IF remote[b] # "none" /\ ~named
    THEN \/ KillConfirmed(b) /\ NoFault /\ UNCHANGED unregistered
         \/ KillUnconfirmed(b) /\ Fault /\ unregistered' = unregistered \union {b}
    ELSE UNCHANGED <<remote, unregistered>> /\ NoFault

CatchRollback(b) ==
    /\ b \in Rollbacks /\ phase[b] = "catch"
    /\ \/ /\ status[b] = "committed"
          /\ retained' = retained \union {b}
          /\ RollbackGoes(b, "idle")
          /\ NoFault /\ UNCHANGED <<remote, unregistered, claims>>
       \/ /\ status[b] # "committed" /\ OrphanKill(b, b \in bound)
          /\ IF status[b] = "prepared" /\ b \notin aborted
             THEN claims' = claims \union {b} /\ RollbackGoes(b, "idle")
             ELSE UNCHANGED claims /\ RollbackGoes(b, "fail")
          /\ UNCHANGED retained
    /\ UNCHANGED <<durable, lapsed, aborted, resources, sweeping, killed, failing, bootClaims,
                   cancelling, boots>>

\* The row cannot be read either: fresh is null, and a sandbox that was created
\* counts as one the row does not name.
CatchUnread(b) ==
    /\ b \in Rollbacks /\ phase[b] = "catch" /\ Fault
    /\ IF remote[b] = "none" THEN UNCHANGED remote ELSE KillConfirmed(b)
    /\ claims' = claims \union {b}
    /\ RollbackGoes(b, "idle")
    /\ UNCHANGED <<durable, lapsed, aborted, retained, unregistered, resources, sweeping, killed,
                   failing, bootClaims, cancelling, boots>>

\* Faulty variant: the project is free before the sandbox is gone.
DoFailRollbackAtOnce(b) ==
    IF status[b] \in RollbackEnded THEN UNCHANGED durable
    ELSE /\ status' = [status EXCEPT ![b] = IF b \in bound THEN "cleanup_pending" ELSE "failed"]
         /\ error' = [error EXCEPT ![b] = IF @ = "CANCELLED" THEN @ ELSE "FAILED"]
         /\ lock' = Release(b)
         /\ UNCHANGED <<current, bound, row>>

\* cleanup: the durable row decides again before anything is destroyed.
DoFailRollback(b) ==
    LET cleaning == b \in bound /\ row[b] # "destroyed"
        stopped == error[b] = "CANCELLED"
    IN
    IF status[b] \in RollbackEnded THEN UNCHANGED durable
    ELSE /\ status' = [status EXCEPT ![b] = IF cleaning THEN "cleanup_pending"
                                            ELSE IF stopped THEN "cancelled" ELSE "failed"]
         /\ error' = [error EXCEPT ![b] = IF stopped THEN "CANCELLED" ELSE "FAILED"]
         /\ lock' = IF cleaning THEN lock ELSE Release(b)
         /\ UNCHANGED <<current, bound, row>>

FailRollback(b) ==
    /\ phase[b] = "fail"
    /\ \/ /\ NoFault /\ DoFailRollback(b)
          /\ LET over == status'[b] = "committed" \/ b \notin bound IN
             /\ RollbackGoes(b, IF over THEN "idle" ELSE "kill")
             /\ claims' = IF over THEN claims \ {b} ELSE claims
       \/ /\ Fault /\ (DoFailRollback(b) \/ UNCHANGED durable)
          /\ RollbackGoes(b, "idle") /\ claims' = claims \union {b}
    /\ UNCHANGED <<lapsed, remote, aborted, retained, unregistered, resources, sweeping, killed,
                   failing, bootClaims, cancelling, boots>>

\* Faulty variant: a kill that was not confirmed is not claimed.
KillRollbackOnce(b) ==
    /\ phase[b] = "kill"
    /\ \/ KillConfirmed(b) /\ NoFault /\ RollbackGoes(b, "mark")
       \/ KillUnconfirmed(b) /\ Fault /\ RollbackGoes(b, "idle")
    /\ UNCHANGED <<durable, lapsed, aborted, claims, retained, unregistered, resources, sweeping,
                   killed, failing, bootClaims, cancelling, boots>>

KillRollback(b) ==
    /\ phase[b] = "kill"
    /\ \/ KillConfirmed(b) /\ NoFault /\ RollbackGoes(b, "mark") /\ UNCHANGED claims
       \/ /\ KillUnconfirmed(b) /\ Fault
          /\ RollbackGoes(b, "idle") /\ claims' = claims \union {b}
    /\ UNCHANGED <<durable, lapsed, aborted, retained, unregistered, resources, sweeping, killed,
                   failing, bootClaims, cancelling, boots>>

DoMarkRollbackDestroyed(b) ==
    IF status[b] = "committed" THEN UNCHANGED durable
    ELSE /\ row' = [row EXCEPT ![b] = "destroyed"]
         /\ status' = [status EXCEPT ![b] = IF error[b] = "CANCELLED" THEN "cancelled" ELSE "failed"]
         /\ lock' = Release(b)
         /\ UNCHANGED <<current, error, bound>>

MarkRollbackDestroyed(b) ==
    /\ phase[b] = "mark"
    /\ RollbackGoes(b, "idle")
    /\ \/ NoFault /\ DoMarkRollbackDestroyed(b) /\ claims' = claims \ {b}
       \/ /\ Fault /\ (DoMarkRollbackDestroyed(b) \/ UNCHANGED durable)
          /\ claims' = claims \union {b}
    /\ UNCHANGED <<lapsed, remote, aborted, retained, unregistered, resources, sweeping, killed,
                   failing, bootClaims, cancelling, boots>>

-----------------------------------------------------------------------------
(* Claims, the timer and the user's stop.                                  *)

\* reconcile: an ended rollback is dropped (a committed one without being kept for
\* its cleanup), a prepared one is checked again, any other is cleaned up.
ReconcileRollback(b) ==
    /\ b \in claims /\ phase[b] = "idle"
    /\ \/ /\ status[b] \in RollbackEnded
          /\ claims' = claims \ {b} /\ UNCHANGED phase
       \/ /\ status[b] \notin RollbackEnded /\ UNCHANGED claims
          /\ RollbackGoes(b, IF status[b] = "prepared" /\ b \in bound THEN "verify" ELSE "fail")
    /\ UNCHANGED <<durable, lapsed, remote, aborted, retained, unregistered, resources, sweeping,
                   killed, failing, bootClaims, cancelling, faults, boots>>

\* verifiedEndpoint and commit.  An error within the lease is left to the next
\* round, an error after it ends the rollback.
VerifyRollback(b) ==
    /\ phase[b] = "verify"
    /\ LET refused == RollbackGoes(b, IF b \in lapsed THEN "fail" ELSE "idle")
                      /\ UNCHANGED <<claims, retained>>
       IN
       \/ /\ NoFault /\ b \notin lapsed /\ remote[b] = "alive" /\ DoCommitRollback(b)
          /\ \/ /\ status'[b] = "committed" /\ RollbackGoes(b, "idle")
                /\ retained' = retained \union {b} /\ claims' = claims \ {b}
             \/ status'[b] # "committed" /\ refused
       \/ /\ (b \in lapsed \/ remote[b] = "gone") /\ NoFault /\ UNCHANGED durable /\ refused
       \/ /\ Fault /\ remote[b] = "alive" /\ (DoCommitRollback(b) \/ UNCHANGED durable) /\ refused
    /\ UNCHANGED <<lapsed, remote, aborted, unregistered, resources, sweeping, killed,
                   failing, bootClaims, cancelling, boots>>

\* cancel: the request is stored, then the task is aborted or, without a task, the
\* rollback is claimed.
CancelRollback(b) ==
    /\ status[b] \in RollbackActive \ {"cleanup_pending", "cancel_requested"}
    /\ lock[Home[b]] = b /\ b \notin cancelling
    /\ status' = [status EXCEPT ![b] = "cancel_requested"]
    /\ error' = [error EXCEPT ![b] = "CANCELLED"]
    /\ cancelling' = cancelling \union {b}
    /\ UNCHANGED <<lock, current, bound, row, lapsed, remote, phase, aborted, claims,
                   retained, unregistered, resources, sweeping, killed, failing, bootClaims,
                   faults, boots>>

SignalRollback(b) ==
    /\ b \in cancelling
    /\ cancelling' = cancelling \ {b}
    /\ IF phase[b] = "idle" THEN claims' = claims \union {b} /\ UNCHANGED aborted
                            ELSE aborted' = aborted \union {b} /\ UNCHANGED claims
    /\ UNCHANGED <<durable, lapsed, remote, phase, retained, unregistered, resources, sweeping,
                   killed, failing, bootClaims, faults, boots>>

\* The limit on a rollback's work raises the same signal and stores nothing.
RollbackTimeout(b) ==
    /\ b \in Rollbacks /\ phase[b] \in {"create", "build", "prepare"} /\ b \notin aborted
    /\ aborted' = aborted \union {b}
    /\ UNCHANGED <<durable, lapsed, remote, phase, RestMemory, faults, boots>>

\* The timer: an expired committed preview is destroyed and its row settled, and an
\* orphan's kill is tried again.
CleanExpiredCommitted(b) ==
    /\ b \in retained /\ b \in lapsed
    /\ row' = [row EXCEPT ![b] = "destroyed"]
    /\ retained' = retained \ {b}
    /\ KillConfirmed(b)
    /\ UNCHANGED <<lock, current, status, error, bound, lapsed, phase, aborted, claims,
                   unregistered, resources, sweeping, killed, failing, bootClaims, cancelling,
                   faults, boots>>

KillUnregistered(b) ==
    /\ b \in unregistered
    /\ KillConfirmed(b)
    /\ unregistered' = unregistered \ {b}
    /\ UNCHANGED <<durable, lapsed, phase, aborted, claims, retained, resources, sweeping,
                   killed, failing, bootClaims, cancelling, faults, boots>>

\* Faulty variant: the rollback is ended like a run, its sandbox forgotten.
RecoveredRollbackAsRun(b) ==
    IF status[b] = "preparing" THEN "interrupted" ELSE status[b]

\* claim_stale_rollbacks: what a previous process carried is claimed, and only a
\* prepared rollback keeps its status.
StaleRollback(b) == status[b] \in {"preparing", "prepared", "cancel_requested", "cleanup_pending"}
RecoveredRollback(b) ==
    IF StaleRollback(b) /\ status[b] # "prepared" THEN "cleanup_pending" ELSE status[b]
=============================================================================

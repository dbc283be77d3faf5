--------------------------- MODULE PreviewRestore ---------------------------
(***************************************************************************)
(* The preview of a saved version is built again (data/generation.ts,      *)
(* generation/executor.ts, migrations 010, 013 and 022).  The executor     *)
(* tracks the restore's sandbox like every other of its resources, and a   *)
(* failure that could not be stored is stored again by a timer.            *)
(***************************************************************************)
EXTENDS SandboxLedger

\* preview_restores.status
RestoreActive == {"queued", "pending"}

BeginRestore(r) ==
    LET p == Home[r] IN
    /\ status[r] = "none" /\ lock[p] = None
    /\ lock' = [lock EXCEPT ![p] = r]
    /\ status' = [status EXCEPT ![r] = IF ReserveCapacity THEN "pending" ELSE "queued"]
    /\ phase' = [phase EXCEPT ![r] = IF ReserveCapacity THEN "create" ELSE @]
    /\ UNCHANGED <<current, error, bound, row, lapsed, remote, aborted, claims, retained,
                   unregistered, resources, sweeping, killed, failing, bootClaims, cancelling,
                   faults, boots>>

\* claim_next_queued_restore and, in a transaction of its own, the version to build.
\* When that read fails the restore is "pending" and nothing carries it.
ClaimQueuedRestore(r) ==
    /\ status[r] = "queued" /\ lock[Home[r]] = r /\ ReserveCapacity
    /\ status' = [status EXCEPT ![r] = "pending"]
    /\ \/ NoFault /\ phase' = [phase EXCEPT ![r] = "create"]
       \/ Fault /\ UNCHANGED phase
    /\ UNCHANGED <<lock, current, error, bound, row, lapsed, remote, aborted, claims,
                   retained, unregistered, resources, sweeping, killed, failing, bootClaims,
                   cancelling, boots>>

-----------------------------------------------------------------------------
(* The task: create and track, register, build, bind.                      *)

RestoreMemory == <<aborted, claims, retained, unregistered, bootClaims, cancelling>>
RestoreGoes(r, to) == phase' = [phase EXCEPT ![r] = to]
Carried(r) == status[r] = "pending" /\ error[r] = "none" /\ lock[Home[r]] = r

CreateRestore(r) ==
    /\ r \in Restores /\ phase[r] = "create"
    /\ \/ /\ remote' = [remote EXCEPT ![r] = "alive"]
          /\ resources' = resources \union {r}
          /\ RestoreGoes(r, "register")
       \/ RestoreGoes(r, "record") /\ UNCHANGED <<remote, resources>>
    /\ UNCHANGED <<durable, lapsed, RestoreMemory, sweeping, killed, failing, faults, boots>>

DoRegisterRestore(r) ==
    /\ IF Carried(r) THEN row' = [row EXCEPT ![r] = "creating"] /\ bound' = bound \union {r}
                     ELSE UNCHANGED <<row, bound>>
    /\ UNCHANGED <<lock, current, status, error>>

RegisterRestore(r) ==
    /\ r \in Restores /\ phase[r] = "register"
    /\ \/ /\ NoFault /\ DoRegisterRestore(r)
          /\ \/ r \in bound' /\ RestoreGoes(r, "build") /\ UNCHANGED remote
             \/ r \notin bound' /\ RestoreGoes(r, "undo") /\ KillTried(r)
       \/ /\ Fault /\ (DoRegisterRestore(r) \/ UNCHANGED durable)
          /\ RestoreGoes(r, "undo") /\ KillTried(r)
    /\ UNCHANGED <<lapsed, RestoreMemory, resources, sweeping, killed, failing, boots>>

\* A failed build and the limit on a restore's work destroy the sandbox on the way
\* out without waiting for a confirmation.
BuildRestore(r) ==
    /\ r \in Restores /\ phase[r] = "build"
    /\ \/ RestoreGoes(r, "bind") /\ UNCHANGED remote
       \/ RestoreGoes(r, "undo") /\ KillTried(r)
    /\ UNCHANGED <<durable, lapsed, RestoreMemory, resources, sweeping, killed, failing, faults, boots>>

DoBindRestore(r) ==
    /\ IF Carried(r) /\ row[r] = "creating"
       THEN /\ row' = [row EXCEPT ![r] = "active"]
            /\ status' = [status EXCEPT ![r] = "ready"]
            /\ lock' = Release(r)
       ELSE UNCHANGED <<row, status, lock>>
    /\ UNCHANGED <<current, error, bound>>

BindRestore(r) ==
    /\ phase[r] = "bind"
    /\ \/ NoFault /\ DoBindRestore(r) /\ RestoreGoes(r, IF status'[r] = "ready" THEN "idle" ELSE "undo")
       \/ Fault /\ (DoBindRestore(r) \/ UNCHANGED durable) /\ RestoreGoes(r, "undo")
    /\ UNCHANGED <<lapsed, remote, RestoreMemory, resources, sweeping, killed, failing, boots>>

-----------------------------------------------------------------------------
(* The executor's destroy, for a restore and for the sweep.                *)

\* destroy marks the resource, asks for the kill, and records a confirmed one in a
\* transaction of its own.  A restore's task that destroys goes on in any case.
BeginDestroy(s) ==
    /\ s \in resources /\ s \notin killed
    /\ \/ s \in Restores /\ phase[s] = "undo"
       \/ /\ s \in lapsed \/ s \in sweeping
          /\ phase[s] = "idle"
    /\ sweeping' = sweeping \union {s}
    /\ \/ KillConfirmed(s) /\ NoFault /\ killed' = killed \union {s}
       \/ KillUnconfirmed(s) /\ Fault /\ UNCHANGED killed
    /\ phase' = [o \in Operations |->
                    IF o = s /\ phase[s] = "undo" /\ s \notin killed' THEN "record" ELSE phase[o]]
    /\ UNCHANGED <<durable, lapsed, RestoreMemory, resources, failing, boots>>

\* markRestoreSandboxDestroyed.
DoMarkDestroyed(s) ==
    LET named == s \in bound
        over == s \in Restores /\ status[s] = "pending" /\ error[s] # "none"
    IN
    /\ row' = IF named THEN [row EXCEPT ![s] = "destroyed"] ELSE row
    /\ IF named /\ over
       THEN status' = [status EXCEPT ![s] = "failed"] /\ lock' = Release(s)
       ELSE UNCHANGED <<status, lock>>
    /\ UNCHANGED <<current, error, bound>>

MarkDestroyed(s) ==
    /\ s \in killed
    /\ killed' = killed \ {s}
    /\ \/ /\ NoFault /\ DoMarkDestroyed(s)
          /\ resources' = resources \ {s} /\ sweeping' = sweeping \ {s}
       \/ /\ Fault /\ (DoMarkDestroyed(s) \/ UNCHANGED durable)
          /\ UNCHANGED <<resources, sweeping>>
    /\ phase' = [o \in Operations |-> IF o = s /\ phase[s] = "undo" THEN "record" ELSE phase[o]]
    /\ UNCHANGED <<lapsed, remote, RestoreMemory, failing, boots>>

-----------------------------------------------------------------------------
(* failRestore and its retries.                                            *)

DoFailRestore(r) ==
    LET cleaning == r \in bound /\ row[r] # "destroyed" IN
    IF status[r] # "pending" THEN UNCHANGED durable
    ELSE /\ error' = [error EXCEPT ![r] = "FAILED"]
         /\ status' = [status EXCEPT ![r] = IF cleaning THEN "pending" ELSE "failed"]
         /\ lock' = IF cleaning THEN lock ELSE Release(r)
         /\ UNCHANGED <<current, bound, row>>

\* Faulty variant: a failure that could not be stored is not stored again.
RecordFailureOnce(r) ==
    /\ r \in Restores /\ phase[r] = "record"
    /\ phase' = [phase EXCEPT ![r] = "idle"]
    /\ \/ NoFault /\ DoFailRestore(r)
       \/ Fault /\ (DoFailRestore(r) \/ UNCHANGED durable)
    /\ UNCHANGED <<lapsed, remote, RestoreMemory, resources, sweeping, killed, failing, boots>>

RecordFailure(r) ==
    /\ \/ r \in Restores /\ phase[r] = "record"
       \/ r \in failing
    /\ phase' = [phase EXCEPT ![r] = "idle"]
    /\ \/ NoFault /\ DoFailRestore(r) /\ failing' = failing \ {r}
       \/ Fault /\ (DoFailRestore(r) \/ UNCHANGED durable) /\ failing' = failing \union {r}
    /\ UNCHANGED <<lapsed, remote, RestoreMemory, resources, sweeping, killed, boots>>

\* claim_stale_restores and recover_stale_restores: a restore with a sandbox waits
\* for its cleanup, one without ends.
StaleRestore(r) == status[r] = "pending"
Recoverable(r) == StaleRestore(r) /\ (r \notin bound \/ row[r] = "destroyed")

\* retryBootRestoreClaims
RetryBootClaim(r) ==
    /\ r \in bootClaims
    /\ \/ /\ KillConfirmed(r)
          /\ \/ NoFault /\ DoMarkDestroyed(r) /\ bootClaims' = bootClaims \ {r}
             \/ Fault /\ (DoMarkDestroyed(r) \/ UNCHANGED durable) /\ UNCHANGED bootClaims
       \/ KillUnconfirmed(r) /\ Fault /\ UNCHANGED <<durable, bootClaims>>
    /\ UNCHANGED <<lapsed, phase, aborted, claims, retained, unregistered, resources, sweeping,
                   killed, failing, cancelling, boots>>
=============================================================================

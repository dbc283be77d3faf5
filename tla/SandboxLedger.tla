---------------------------- MODULE SandboxLedger ----------------------------
(***************************************************************************)
(* What the operations that create a sandbox share: the project row with   *)
(* its current version and its operation lock, the sandbox rows, the       *)
(* remote sandboxes, and the count of taken slots every admission draws on *)
(* (migrations 019-024).  Rollback and PreviewRestore add the operations,  *)
(* SandboxOperations composes them with the scheduler.                     *)
(*                                                                         *)
(* Every operation creates at most one sandbox, so a sandbox is named by   *)
(* the operation that created it.  Jobs are the runs that wait in the      *)
(* queue: what a run does between its claim and its end is RunLifecycle's. *)
(***************************************************************************)
EXTENDS FiniteSets, Integers

CONSTANTS Projects, Rollbacks, Restores, Jobs,
          Home,         \* the project of an operation or a job
          Ceiling,      \* maxOperations
          MaxFaults,    \* lost requests, lost answers and unconfirmed kills
          MaxBoots,     \* restarts
          None

Operations == Rollbacks \union Restores

\* Two versions are enough: the one a rollback leaves and the one it returns to.
Versions == {"new", "old"}

ASSUME LedgerAssumption ==
    /\ IsFiniteSet(Operations) /\ IsFiniteSet(Jobs)
    /\ Ceiling \in Nat \ {0} /\ MaxFaults \in Nat /\ MaxBoots \in Nat
    /\ None \notin Operations \union Jobs
    /\ Home \in [Operations \union Jobs -> Projects]
    /\ Rollbacks \intersect Restores = {} /\ Operations \intersect Jobs = {}

VARIABLES
    lock,       \* projects.operation_id
    current,    \* projects.current_revision_id
    status,     \* the status of a rollback, a restore and a job
    error,      \* error_code of a rollback or a restore
    bound,      \* the operations whose row names their sandbox
    row,        \* sandboxes.state
    lapsed,     \* the sandboxes whose lease has run out
    remote      \* the sandboxes at the provider
durable == <<lock, current, status, error, bound, row>>

VARIABLES
    phase,      \* where the one task of an operation stands in this process
    aborted,    \* the operations whose abort signal is raised
    claims,     \* rollbacks the process still has to reconcile
    retained,   \* committed rollbacks whose preview this process will clean
    unregistered, \* sandboxes a rollback created and could not register
    resources,  \* the executor's sandboxes
    sweeping,   \* those of them marked cleanupPending
    killed,     \* those of them whose kill was confirmed and not yet recorded
    failing,    \* pendingRestoreFailures
    bootClaims, \* restores whose sandbox the boot found
    cancelling  \* rollbacks whose cancel is stored and not yet signalled
memory == <<phase, aborted, claims, retained, unregistered, resources, sweeping,
            killed, failing, bootClaims, cancelling>>

VARIABLES faults, boots
vars == <<durable, lapsed, remote, memory, faults, boots>>

-----------------------------------------------------------------------------
Live(s) == row[s] \in {"creating", "active"} /\ s \notin lapsed

\* Rows whose sandbox is not yet gone.
OpenRow(s) == row[s] \in {"creating", "active"}

\* Faulty variant: only registered sandboxes and runs are counted.
OccupiedByRows ==
    Cardinality({s \in Operations : Live(s)})
    + Cardinality({j \in Jobs : status[j] = "working"})

\* A slot is taken by a live row, by a run at work, and by an operation that was
\* admitted and has not registered its sandbox.
Occupied ==
    Cardinality({s \in Operations : Live(s)})
    + Cardinality({j \in Jobs : status[j] = "working"})
    + Cardinality({b \in Rollbacks : status[b] \in {"preparing", "prepared"} /\ b \notin bound})
    + Cardinality({r \in Restores : status[r] = "pending" /\ r \notin bound})

ReserveCapacity == Occupied < Ceiling

Fault == faults < MaxFaults /\ faults' = faults + 1
NoFault == UNCHANGED faults

Release(o) == [p \in Projects |-> IF lock[p] = o THEN None ELSE lock[p]]

\* What destroyCandidateSandbox can answer: the sandbox is gone, or nothing is
\* confirmed and it may be alive or not.
KillConfirmed(s) == remote' = [remote EXCEPT ![s] = "gone"]
KillUnconfirmed(s) == remote' = remote \/ KillConfirmed(s)

\* A best-effort kill whose answer nobody reads.
KillTried(s) == UNCHANGED remote \/ KillConfirmed(s)

\* The provider ends a sandbox at the end of its lease.  A lease outlives the
\* tasks that build in its sandbox.
Lapse(s) ==
    /\ remote[s] = "alive" \/ OpenRow(s)
    /\ s \notin lapsed
    /\ phase[s] \notin {"register", "build", "prepare", "bind"}
    /\ lapsed' = lapsed \union {s}
    /\ remote' = [remote EXCEPT ![s] = "gone"]
    /\ UNCHANGED <<durable, memory, faults, boots>>

LedgerInit ==
    /\ lock = [p \in Projects |-> None]
    /\ current = [p \in Projects |-> "new"]
    /\ status = [o \in Operations \union Jobs |-> IF o \in Jobs THEN "queued" ELSE "none"]
    /\ error = [o \in Operations |-> "none"]
    /\ bound = {}
    /\ row = [s \in Operations |-> "none"]
    /\ lapsed = {}
    /\ remote = [s \in Operations |-> "none"]
    /\ phase = [o \in Operations |-> "idle"]
    /\ resources = {}
    /\ aborted = {} /\ claims = {} /\ retained = {} /\ unregistered = {}
    /\ sweeping = {} /\ killed = {} /\ failing = {} /\ bootClaims = {} /\ cancelling = {}
    /\ faults = 0 /\ boots = 0
=============================================================================

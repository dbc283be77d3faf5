--------------------------- MODULE MCRunLifecycle ---------------------------
(***************************************************************************)
(* RunLifecycle as TLC checks it on small instances (MCRunLifecycle*.cfg), *)
(* and the statements of the documents and comments that the code does not *)
(* keep: TLC finds a behaviour of the model that violates each.            *)
(***************************************************************************)
EXTENDS RunLifecycle

\* The behaviours in which the sweep is idle, for the runs about versions: a sweep
\* changes neither the current version nor the base of a run.
SweeplessNext ==
    \/ \E r \in Runs : \/ \E chosen \in BOOLEAN : Accept(r, chosen)
                       \/ DispatchStep(r) \/ TaskStep(r)
                       \/ RequestCancel(r) \/ CancelStep(r)
                       \/ RunTimeout(r) \/ AbortKill(r) \/ SettleRecoveredRun(r)
                       \/ DestroyStep(r)
    \/ \E c \in Candidates : RecoverKill(c) \/ RemoteExpire(c) \/ BeginRollback(c)
    \/ Restart
    \/ EndRollback
SweeplessSpec == Init /\ [][SweeplessNext]_vars

\* TRD 4.x (docs/TRD.md:431, :235): a sandbox whose create returns after the stop
\* request is registered and destroyed, and a pending cleanup is resolved before
\* the project is unblocked.  registerSandbox refuses the stopped run, the sandbox
\* never gets a row, and the cleanup is pending until the next restart.
UnregisteredCleanupResolves ==
    \A r \in Runs :
        (/\ cleanup[r] = "pending" /\ state[r] \in Terminal
         /\ remote[Cand(r)] # "none" /\ row[Cand(r)] = "none")
        ~> (cleanup[r] # "pending")

\* models/service.ts: the lease on a credential is released when the run ends.
\* A stop that finds no task ends the run and keeps the lease.
LeaseReleased == \A r \in Runs : state[r] \in Terminal ~> lease[r] # "held"

\* executor.ts: a stop the user asked for is not recorded as a failure.  A task
\* that fails between the stop's transaction and the abort records one.
StopIsNotFailure ==
    [][\A r \in Runs : state[r] = "cancel_requested" => state'[r] # "failed"]_vars
=============================================================================

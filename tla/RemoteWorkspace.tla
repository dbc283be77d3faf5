-------------------------- MODULE RemoteWorkspace ---------------------------
(***************************************************************************)
(* The process's view of one remote sandbox (runtime/workspace.ts): its    *)
(* creation, which a stop does not interrupt, its lease, the commands and  *)
(* files of the builder, and its destruction, which every failure, stop    *)
(* and failed command asks for and only one call at a time carries out.    *)
(* The sandbox service is external: calls may fail before or after they    *)
(* took effect, and a killed sandbox may go on running for a while.        *)
(***************************************************************************)
EXTENDS Naturals

CONSTANTS Lifetime,   \* seconds of a lease
          MaxClock, Polls,
          None

VARIABLES making,     \* where create() is; what its caller was told
          entry,      \* the state of the resource
          writable, cleanup,
          cloud,      \* the sandbox itself
          leaseEnd, reported, renewing, wallClock,
          halted,     \* the signal of the run
          shell,      \* a command of the builder: where its wait() is
          process, unread, \* the command itself; output of it that was not read yet
          files
workspace == <<making, entry, writable, cleanup, cloud, leaseEnd, reported, renewing,
               wallClock, halted, shell, process, unread, files>>
lease == <<leaseEnd, reported, renewing, wallClock>>
running == <<shell, process, unread>>

Init ==
    /\ making = "none" /\ entry = "none" /\ writable = FALSE /\ cleanup = None
    /\ cloud = "none" /\ leaseEnd = 0 /\ reported = 0 /\ renewing = None /\ wallClock = 0
    /\ halted = FALSE /\ files = "none"
    /\ shell = "none" /\ process = "none" /\ unread = FALSE

Tick ==
    /\ wallClock < MaxClock /\ wallClock' = wallClock + 1
    /\ UNCHANGED <<making, entry, writable, cleanup, cloud, leaseEnd, reported, renewing, halted, running, files>>
\* The service kills a sandbox whose lease is over.
Expire ==
    /\ cloud = "running" /\ wallClock > leaseEnd /\ cloud' = "gone"
    /\ UNCHANGED <<making, entry, writable, cleanup, lease, halted, running, files>>

-----------------------------------------------------------------------------
\* destroy: one cleanup at a time, none after a confirmed one.
Destroy ==
    IF entry \in {"destroyed", "destroying"} THEN UNCHANGED <<entry, writable, cleanup>>
    ELSE entry' = "destroying" /\ writable' = FALSE /\ cleanup' = Polls + 1

\* create: the request is not interrupted by a stop, so that a late sandbox is known;
\* until its first renewal the service gives it three minutes, one tick here.
Create ==
    /\ making = "none" /\ ~halted /\ making' = "creating"
    /\ cloud' \in {"none", "running"} /\ leaseEnd' = IF cloud' = "running" THEN wallClock + 1 ELSE 0
    /\ UNCHANGED <<entry, writable, cleanup, reported, renewing, wallClock, halted, running, files>>
\* The answer arrives, or the request fails with or without a sandbox behind it.
Created ==
    /\ making = "creating"
    /\ \/ /\ cloud # "none" /\ making' = "recording" /\ entry' = "active" /\ writable' = TRUE
          /\ reported' = wallClock + Lifetime
       \/ making' = "failed" /\ UNCHANGED <<entry, writable, reported>>
    /\ UNCHANGED <<cleanup, cloud, leaseEnd, renewing, wallClock, halted, running, files>>

\* onAbort: registered with the resource, so a stop destroys it from then on.
Halt ==
    /\ ~halted /\ halted' = TRUE
    /\ IF entry = "active" THEN Destroy ELSE UNCHANGED <<entry, writable, cleanup>>
    /\ UNCHANGED <<making, cloud, lease, running, files>>

\* onCreated has recorded the handle; the lease is renewed to its full length.
Recorded ==
    /\ making = "recording" /\ ~halted /\ making' = "renewing"
    /\ UNCHANGED <<entry, writable, cleanup, cloud, lease, halted, running, files>>
FirstRenewal ==
    /\ making = "renewing" /\ cloud = "running" /\ making' = "renewed"
    /\ leaseEnd' = wallClock + Lifetime
    /\ UNCHANGED <<entry, writable, cleanup, cloud, reported, renewing, wallClock, halted, running, files>>
Returned ==
    /\ making = "renewed" /\ ~halted /\ making' = "handle"
    /\ UNCHANGED <<entry, writable, cleanup, cloud, lease, halted, running, files>>
\* Recording or renewal failed, or the run was stopped meanwhile.
CreateFails ==
    /\ making \in {"recording", "renewing", "renewed"} /\ making' = "undoing" /\ Destroy
    /\ UNCHANGED <<cloud, lease, halted, running, files>>
\* The caller learns whether the sandbox is gone.
Undone ==
    /\ making = "undoing" /\ cleanup = None
    /\ making' = IF entry = "destroyed" THEN "rejected" ELSE "CLEANUP_PENDING"
    /\ UNCHANGED <<entry, writable, cleanup, cloud, lease, halted, running, files>>

-----------------------------------------------------------------------------
\* kill: a sandbox that is not found counts as killed; any other error ends the cleanup.
Kill ==
    /\ cleanup = Polls + 1
    /\ \/ cleanup' = Polls /\ entry' = entry /\ cloud' \in {cloud, "gone"}
       \/ cleanup' = None /\ entry' = "cleanup_pending" /\ cloud' \in {cloud, "gone"}
    /\ UNCHANGED <<making, writable, lease, halted, running, files>>
\* isRunning, six times: confirmed when it no longer runs, pending otherwise.
Poll ==
    /\ cleanup # None /\ cleanup <= Polls
    /\ \/ cloud = "gone" /\ entry' = "destroyed" /\ cleanup' = None
       \/ cloud = "running" /\ cleanup > 1 /\ entry' = entry /\ cleanup' = cleanup - 1
       \/ (cloud = "gone" \/ cleanup = 1) /\ entry' = "cleanup_pending" /\ cleanup' = None
    /\ cloud' = cloud /\ UNCHANGED <<making, writable, lease, halted, running, files>>
\* The kill takes effect late.
Dies ==
    /\ cloud = "running" /\ ((cleanup # None /\ cleanup <= Polls) \/ entry = "cleanup_pending")
    /\ cloud' = "gone" /\ UNCHANGED <<making, entry, writable, cleanup, lease, halted, running, files>>
\* The owner of the run asks again.
Retry ==
    /\ making # "undoing" /\ entry \in {"active", "cleanup_pending"} /\ Destroy
    /\ UNCHANGED <<making, cloud, lease, halted, running, files>>

-----------------------------------------------------------------------------
InUse == making = "handle" /\ entry = "active"
\* renewLease: the deadline is measured before the request, whose answer may be late;
\* a sandbox that is being destroyed meanwhile is not renewed.
RenewLease ==
    /\ InUse /\ ~halted /\ renewing = None
    /\ renewing' = [end |-> wallClock + Lifetime, at |-> "sent"]
    /\ UNCHANGED <<making, entry, writable, cleanup, cloud, leaseEnd, reported, wallClock, halted, running, files>>
RemoteRenew ==
    /\ renewing # None /\ renewing.at = "sent" /\ cloud = "running"
    /\ leaseEnd' = wallClock + Lifetime /\ renewing' = [renewing EXCEPT !.at = "done"]
    /\ UNCHANGED <<making, entry, writable, cleanup, cloud, reported, wallClock, halted, running, files>>
renewLease ==
    /\ renewing # None /\ renewing' = None
    /\ reported' = IF renewing.at = "done" /\ entry = "active" /\ ~halted THEN renewing.end ELSE reported
    /\ UNCHANGED <<making, entry, writable, cleanup, cloud, leaseEnd, wallClock, halted, running, files>>

\* exec: a command of the builder, while it may write; connection.run starts it in the
\* background.
Run == shell' = "logs" /\ process' = "running" /\ unread' = FALSE
Exec ==
    /\ InUse /\ writable /\ ~halted /\ shell \in {"none", "result"} /\ Run
    /\ UNCHANGED <<making, entry, writable, cleanup, cloud, lease, halted, files>>
Rest == UNCHANGED <<making, entry, writable, cleanup, cloud, lease, halted, files>>
\* It prints and exits at any time, and with its sandbox.
Prints == process = "running" /\ unread' = TRUE /\ UNCHANGED <<shell, process>> /\ Rest
Exits == process = "running" /\ process' = "exited" /\ UNCHANGED <<shell, unread>> /\ Rest
\* wait: the logs are read, then the status is asked for, again and again.
ReadLogs ==
    /\ shell = "logs" /\ cloud = "running" /\ shell' = "status" /\ unread' = FALSE
    /\ UNCHANGED process /\ Rest
\* Faulty variant: the logs of the last round are the output.
AskedOnly ==
    /\ shell = "status" /\ cloud = "running"
    /\ shell' = IF process = "exited" THEN "result" ELSE "logs"
    /\ UNCHANGED <<process, unread>> /\ Rest
AskStatus ==
    /\ shell = "status" /\ cloud = "running"
    /\ shell' = IF process = "exited" THEN "drain" ELSE "logs"
    /\ UNCHANGED <<process, unread>> /\ Rest
\* What it printed after the last look is read once more before the result is returned.
DrainLogs ==
    /\ shell = "drain" /\ cloud = "running" /\ ~halted /\ shell' = "result" /\ unread' = FALSE
    /\ UNCHANGED process /\ Rest
\* An error, the command's own deadline and a stop destroy the sandbox, because nothing
\* else ends what the command started.
ExecFails ==
    /\ shell \in {"logs", "status", "drain"} /\ shell' = "none" /\ Destroy
    /\ UNCHANGED <<making, cloud, lease, halted, process, unread, files>>
\* io: a file request is staged and then executed by the helper; that it may write is
\* looked at before only.
Stage(op) ==
    /\ InUse /\ files = "none" /\ files' = op
    /\ UNCHANGED <<making, entry, writable, cleanup, cloud, lease, halted, running>>
Read == Stage("read")
Write == writable /\ Stage("write")
IoEnds ==
    /\ files # "none" /\ files' = "none"
    /\ UNCHANGED <<making, entry, writable, cleanup, cloud, lease, halted, running>>
\* revokeWriters: the builder may no longer write, its processes are killed.
RevokeWriters ==
    /\ InUse /\ writable /\ writable' = FALSE
    /\ process' = IF process = "running" THEN "exited" ELSE process
    /\ UNCHANGED <<making, entry, cleanup, cloud, lease, halted, shell, unread, files>>

Next ==
    \/ Tick \/ Expire \/ Create \/ Created \/ Halt \/ Recorded \/ FirstRenewal \/ Returned \/ CreateFails \/ Undone
    \/ Kill \/ Poll \/ Dies \/ Retry \/ RenewLease \/ RemoteRenew \/ renewLease
    \/ Exec \/ Prints \/ Exits \/ ReadLogs \/ AskStatus \/ DrainLogs \/ ExecFails
    \/ Read \/ Write \/ IoEnds \/ RevokeWriters

-----------------------------------------------------------------------------
TypeOK ==
    /\ entry \in {"none", "active", "destroying", "destroyed", "cleanup_pending"}
    /\ (entry = "destroying") = (cleanup # None) /\ (writable => entry = "active")
    /\ cloud \in {"none", "running", "gone"} /\ wallClock \in 0..MaxClock
    /\ shell \in {"none", "logs", "status", "drain", "result"}
    /\ process \in {"none", "running", "exited"} /\ unread \in BOOLEAN /\ files \in {"none", "read", "write"}

\* A creation that is reported as failed, and not as CLEANUP_PENDING, leaves nothing
\* running that the process knows of; nor does a confirmed destruction, whatever other
\* stops, failures and retries asked for it at the same time.
RejectedIsGone == making = "rejected" \/ entry = "destroyed" => cloud = "gone"

\* A result holds all that the command printed, however its output and its end fall
\* between the requests that ask for them.
OutputIsWhole == shell = "result" => process = "exited" /\ ~unread

\* workspace.ts:318-320: the deadline that renewLease reports never exceeds the lease
\* the service granted, however slow the request and whatever happens meanwhile.
ReportedWithinLease == making = "handle" => reported <= leaseEnd
=============================================================================

---------------------------- MODULE CheckSession ----------------------------
(***************************************************************************)
(* One session of a check seen from its clock (runReview of                *)
(* generation/review.ts).  Two deadlines run: the work's, and, a reserve   *)
(* later, that of the whole session.  Every remote operation is raced      *)
(* against the signals of its scope, since it may never answer.  What is   *)
(* found counts only when the sandbox held the same source before and      *)
(* after, and is handed on only when the browser is closed.                *)
(***************************************************************************)
EXTENDS Naturals, FiniteSets

CONSTANTS Waits, Shots,      \* explicit waits and screenshots of a plan
          Window,            \* what is left for the work
          MaxArtifacts, None

VARIABLES at,                \* the operation that is awaited
          workOver, deadlineOver, cancelled, leaseLost, active,
          finishing,         \* the work's deadline does not count any more
          source,            \* whether the sandbox holds the bound source
          connected, chrome, artifacts,
          result, incomplete, marker, failure,
          basis,             \* the source the result was found on
          receipt
check == <<at, workOver, deadlineOver, cancelled, leaseLost, active, finishing, source, connected,
           chrome, artifacts, result, incomplete, marker, failure, basis, receipt>>
clock == <<workOver, deadlineOver, cancelled, leaseLost, active, source>>
found == <<result, incomplete, marker, basis>>
Rest == UNCHANGED <<workOver, deadlineOver, cancelled, active, source, receipt>>

Init ==
    /\ at = "admit" /\ workOver = FALSE /\ deadlineOver = FALSE /\ cancelled = FALSE
    /\ leaseLost = FALSE /\ active = TRUE /\ finishing = FALSE /\ source = "bound"
    /\ connected = FALSE /\ chrome = "none" /\ artifacts = 0
    /\ result = None /\ incomplete = FALSE /\ marker = FALSE /\ failure = None
    /\ basis = None /\ receipt = None

-----------------------------------------------------------------------------
\* The signals an operation is raced against.
finalSignal == cancelled \/ leaseLost \/ deadlineOver
signal == finalSignal \/ workOver
Scope(op) ==
    CASE op \in {"admit", "connect", "verify", "work"} -> signal
      [] op \in {"renew", "renewing", "verifyAgain", "confirm"} -> finalSignal
      [] op \in {"close", "release"} -> deadlineOver

\* The timers, and what the run, its role and the sandbox do meanwhile.
WorkTimer ==
    /\ ~finishing /\ ~workOver /\ workOver' = TRUE
    /\ UNCHANGED <<at, deadlineOver, cancelled, leaseLost, active, finishing, source, connected,
                   chrome, artifacts, found, failure, receipt>>
DeadlineTimer ==
    /\ receipt = None /\ ~deadlineOver /\ (workOver \/ finishing) /\ deadlineOver' = TRUE
    /\ UNCHANGED <<at, workOver, cancelled, leaseLost, active, finishing, source, connected,
                   chrome, artifacts, found, failure, receipt>>
Meanwhile ==
    /\ receipt = None
    /\ \/ ~cancelled /\ cancelled' = TRUE /\ UNCHANGED <<active, source>>
       \/ active /\ active' = FALSE /\ UNCHANGED <<cancelled, source>>
       \/ source = "bound" /\ source' = "changed" /\ UNCHANGED <<cancelled, active>>
    /\ UNCHANGED <<at, workOver, deadlineOver, leaseLost, finishing, connected, chrome,
                   artifacts, found, failure, receipt>>

\* bounded: the operation failed (why), or a signal of its scope came first.
Fails(op, why) ==
    /\ at = op
    /\ why = "signal" => Scope(op)
    /\ failure' = why /\ at' = "caught"
    /\ Rest /\ UNCHANGED <<leaseLost, finishing, connected, chrome, artifacts, found>>

\* admitVerification: the waits must fit what is left, the screenshots the record; a
\* plan that does not fit is not run at all.
admitVerification(waits, shots, left) == left > 0 /\ waits <= left /\ shots <= MaxArtifacts
Admit ==
    /\ at = "admit" /\ ~signal
    /\ \E waits \in Waits, shots \in Shots, left \in 0..Window :
          IF admitVerification(waits, shots, left)
          THEN active /\ at' = "connect" /\ UNCHANGED <<failure, incomplete>>
          ELSE at' = "caught" /\ failure' = "capacity" /\ incomplete' = TRUE
    /\ Rest /\ UNCHANGED <<leaseLost, finishing, connected, chrome, artifacts, result, marker, basis>>
Connect ==
    /\ at = "connect" /\ ~signal /\ connected' = TRUE /\ at' = "renew"
    /\ Rest /\ UNCHANGED <<leaseLost, finishing, chrome, artifacts, found, failure>>

\* ensureLease: before the work, and with any event of it.  A renewal that was not
\* confirmed and recorded ends the session, unless a signal did.
ensureLease(op, next) ==
    /\ at = op
    /\ \/ ~finalSignal /\ at' = next /\ UNCHANGED <<leaseLost, failure>>
       \/ ~finalSignal /\ leaseLost' = TRUE /\ failure' = "lease" /\ at' = "caught"
    /\ Rest /\ UNCHANGED <<finishing, connected, chrome, artifacts, found>>
Event ==
    /\ at = "work" /\ at' = "renewing"
    /\ Rest /\ UNCHANGED <<leaseLost, finishing, connected, chrome, artifacts, found, failure>>

\* verifyVersion: the list of the sandbox's files and the marker the preview serves.
verifyVersion ==
    /\ at = "verify" /\ ~signal /\ active
    /\ IF source = "bound" THEN at' = "work" /\ chrome' = "open" /\ UNCHANGED failure
       ELSE at' = "caught" /\ failure' = "mismatch" /\ UNCHANGED chrome
    /\ Rest /\ UNCHANGED <<leaseLost, finishing, connected, artifacts, found>>

\* A screenshot is kept once it is stored; beyond the limit the check stops.
saveScreenshot ==
    /\ at = "work" /\ ~signal /\ active
    /\ IF artifacts < MaxArtifacts THEN artifacts' = artifacts + 1 /\ UNCHANGED <<at, failure>>
       ELSE at' = "caught" /\ failure' = "limit" /\ UNCHANGED artifacts
    /\ Rest /\ UNCHANGED <<leaseLost, finishing, connected, chrome, found>>

\* The session has a result.  The model's one is preserved when the work's window
\* ends under it, and says so unless it was complete by then.
Work ==
    /\ at = "work" /\ ~finalSignal
    /\ result' = "found" /\ incomplete' \in BOOLEAN
    /\ basis' = source /\ finishing' = TRUE /\ at' = "verifyAgain"
    /\ Rest /\ UNCHANGED <<leaseLost, connected, chrome, artifacts, marker, failure>>
verifyAgain ==
    /\ at = "verifyAgain" /\ ~finalSignal /\ active
    /\ IF source = "bound" THEN marker' = TRUE /\ at' = "close" /\ UNCHANGED failure
       ELSE at' = "caught" /\ failure' = "mismatch" /\ UNCHANGED marker
    /\ Rest /\ UNCHANGED <<leaseLost, finishing, connected, chrome, artifacts, result, incomplete, basis>>

\* catch: the run's own end, a role that is not active any more and a failed model are
\* passed on; the end of the window and everything else leave a result with every
\* behaviour blocked.
Rethrown == leaseLost \/ cancelled \/ (~workOver /\ (failure = "passedOn" \/ (failure = "signal" /\ deadlineOver)))
Catch ==
    /\ at = "caught" /\ at' = "close" /\ finishing' = TRUE
    /\ IF Rethrown THEN failure' = "thrown" /\ UNCHANGED <<result, incomplete>>
       ELSE failure' = None /\ result' = "blocked" /\ incomplete' = (incomplete \/ workOver)
    /\ Rest /\ UNCHANGED <<leaseLost, connected, chrome, artifacts, marker, basis>>

\* finally: the browser is closed whatever ended the session (RemoteBrowser), and only
\* the last deadline ends the wait for it; the client is released.
Close ==
    /\ at = "close"
    /\ IF ~connected THEN at' = "confirm" /\ UNCHANGED <<chrome, failure>>
       ELSE /\ at' = "release"
            /\ \/ ~deadlineOver /\ chrome' = (IF chrome = "open" THEN "closed" ELSE chrome) /\ UNCHANGED failure
               \/ failure' = "thrown" /\ UNCHANGED chrome
    /\ Rest /\ UNCHANGED <<leaseLost, finishing, connected, artifacts, found>>
Release ==
    /\ at = "release" /\ at' = "confirm"
    /\ Rest /\ UNCHANGED <<leaseLost, finishing, connected, chrome, artifacts, found, failure>>

\* finalActive, and the receipt: the only way a result leaves the session.
Confirm ==
    /\ at = "confirm" /\ at' = "done"
    /\ receipt' = IF failure = "thrown" \/ finalSignal \/ ~active THEN "none"
                  ELSE IF result = "found" THEN "found" ELSE "blocked"
    /\ UNCHANGED <<clock, finishing, connected, chrome, artifacts, found, failure>>

Operations == {"admit", "connect", "renew", "renewing", "verify", "work", "verifyAgain"}
Next ==
    \/ WorkTimer \/ DeadlineTimer \/ Meanwhile
    \/ \E op \in Operations :
          \/ Fails(op, "signal")
          \/ op # "renew" /\ Fails(op, "remote")
          \/ op \in {"admit", "verify", "work", "verifyAgain"} /\ Fails(op, "passedOn")
    \/ Admit \/ Connect \/ ensureLease("renew", "verify") \/ ensureLease("renewing", "work") \/ Event
    \/ verifyVersion \/ saveScreenshot \/ Work \/ verifyAgain \/ Catch
    \/ Close \/ Release \/ Confirm

-----------------------------------------------------------------------------
CheckTypeOK ==
    /\ at \in {"admit", "connect", "renew", "renewing", "verify", "work", "verifyAgain", "caught",
               "close", "release", "confirm", "done"}
    /\ {workOver, deadlineOver, cancelled, leaseLost, active, finishing, incomplete, marker} \subseteq BOOLEAN
    /\ artifacts \in 0..MaxArtifacts /\ receipt \in {None, "none", "found", "blocked"}

\* Work that outlives its window, a source that changes under the check, an operation
\* that fails after the result is there: what was found leaves the session only when it
\* was found on the bound source, confirmed to be there still, with the browser closed.
FoundIsBound == receipt = "found" => basis = "bound" /\ marker /\ chrome = "closed"

\* Any operation may hang, the close included: the session ends by its deadline.  The
\* timers fire, and a race that a signal has decided ends.
Expiry ==
    \/ \E op \in Operations : Fails(op, "signal")
    \/ Catch
    \/ deadlineOver /\ (Close \/ Release \/ Confirm)
SessionEnds == <>(at = "done")
=============================================================================

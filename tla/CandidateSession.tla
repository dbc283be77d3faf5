-------------------------- MODULE CandidateSession --------------------------
(***************************************************************************)
(* One candidate while it is made (runCandidate of                         *)
(* generation/candidate.ts), and the three clocks it is made against.  Its *)
(* sandbox has a lease at the provider; whatever is reported goes through  *)
(* one chain, which renews the lease when it gets short and saves the      *)
(* event; and what counts as progress (the gate and the watchdog of        *)
(* generation/progress-watchdog.ts) puts off the end of the run.           *)
(* Meanwhile the user may stop the run, every call may fail and a call     *)
(* takes time; the workspace is prepared, the builder thinks and the       *)
(* candidate is built for as long as the watchdog lets them, and report    *)
(* nothing.  Clocks are what is left of them, in units of the longest      *)
(* call, half a minute; what the builder does inside is BuilderSession's   *)
(* subject, what becomes of the run is RunLifecycle's.                     *)
(***************************************************************************)
EXTENDS Naturals, Sequences

CONSTANTS Initial,      \* timeoutSeconds of a new sandbox
          Segment,      \* SANDBOX_LEASE_SEGMENT_MS
          Threshold,    \* SANDBOX_LEASE_RENEW_THRESHOLD_MS
          Request,      \* MODEL_REQUEST_TIMEOUT_MS
          Idle,         \* RUN_IDLE_TIMEOUT_MS
          MaxRequests,  \* what the limits on tool calls and retries allow of them
          MaxQueue, None

\* What the budgets owe each other.
ASSUME Budgets ==
    /\ {Initial, Segment, Threshold, Request, Idle, MaxRequests} \subseteq Nat
    /\ Initial <= Segment /\ Initial < Idle /\ Request > 0
    /\ Threshold > Request + 2 /\ Segment > Threshold + 2
    /\ None \notin Nat /\ None \notin {"CANCELLED", "RUN_TIMEOUT"}

VARIABLES stage,        \* where runCandidate is
          reports,      \* eventTail: the events that wait, the head being dealt with
          serving,      \* what the chain does for the head
          remote,       \* left of the lease at the provider
          row, handle,  \* what the row and runCandidate believe is left
          asked,        \* what the renewal under way will report
          silent,       \* since the chain came to rest, up to one more than a request
          overlong,     \* history: longer than a request, and nothing dealt with since
          slow,         \* since the calls under way began
          idle,         \* left until the watchdog
          request, credited,            \* of the model; what the gate has let through
          signal, eventFailure, leaseFailure,
          record        \* of the reports: all saved, the rest cut off, or a gap
lease == <<remote, row, handle, asked>>
silence == <<silent, overlong>>
progress == <<idle, request, credited>>
failures == <<signal, eventFailure, leaseFailure>>
candidate == <<stage, reports, serving, lease, silence, slow, progress, failures, record>>

Report(kind) == [kind |-> kind, request |-> request]
Aborted == signal # None \/ eventFailure \/ leaseFailure
Underway == stage \in {"preparing", "making", "building", "flushing", "retaining"}
Working == stage = "created" \/ Underway

Init ==
    /\ stage = "creating" /\ reports = <<>> /\ serving = "idle"
    /\ remote = 0 /\ row = 0 /\ handle = 0 /\ asked = None
    /\ silent = 0 /\ overlong = FALSE /\ slow = 0 /\ idle = Idle /\ request = 1 /\ credited = {}
    /\ signal = None /\ eventFailure = FALSE /\ leaseFailure = FALSE /\ record = "all"

-----------------------------------------------------------------------------
\* workspace.create: a sandbox whose short lease has run since it was asked for, and while
\* it got ready; registered with the lease it is going to have, or not; or there is none.
Create ==
    /\ stage = "creating" /\ ~Aborted
    /\ \/ /\ \E ready \in 0..Initial : remote' = Initial - ready /\ idle' = idle - ready
          /\ handle' = Segment
          /\ \/ stage' = "created" /\ row' = Segment
             \/ stage' = "ending" /\ row' \in {0, Segment}
       \/ stage' = "draining" /\ UNCHANGED <<remote, row, handle, idle>>
    /\ UNCHANGED <<reports, serving, asked, silence, slow, request, credited, failures, record>>
\* Its first renewal, which a sandbox that is gone does not have; the sandbox is reported.
Provision ==
    /\ stage = "created" /\ slow' = 0
    /\ \/ /\ ~Aborted /\ remote > 0 /\ remote' = Segment
          /\ stage' = "preparing" /\ reports' = <<Report("noise")>>
       \/ remote' \in {remote, IF remote > 0 THEN Segment ELSE 0} /\ stage' = "ending" /\ UNCHANGED reports
    /\ UNCHANGED <<serving, row, handle, asked, silence, progress, failures, record>>

\* initializeReactWorkspace is through, and the next stage is reported; so are the builder,
\* which is told of the fixed build, and the build.  Each waits for what it reported.
Proceed(from, to, kind) ==
    /\ stage = from /\ reports = <<>> /\ ~Aborted
    /\ stage' = to /\ reports' = <<Report(kind)>> /\ silent' = 0
    /\ UNCHANGED <<serving, lease, overlong, slow, progress, failures, record>>
Prepare == Proceed("preparing", "making", "generating")
StartBuild == Proceed("making", "building", "building")
FinishBuild == Proceed("building", "flushing", "previewing")

\* sink, until the builder hears of the abort: a stream begins or anything else is reported,
\* any number of times; after a tool, whether it succeeded or not, and after a provider
\* error that is announced the model is asked again.
Emit ==
    /\ stage = "making" /\ ~Aborted /\ Len(reports) < MaxQueue /\ silent' = 0
    /\ \/ /\ \E kind \in {"stream", "noise"} : reports' = Append(reports, Report(kind))
          /\ UNCHANGED request
       \/ /\ request <= MaxRequests /\ request' = request + 1
          /\ \E kind \in {"tool", "noise", "retry"} : reports' = Append(reports, Report(kind))
    /\ UNCHANGED <<stage, serving, lease, overlong, slow, idle, credited, failures, record>>

-----------------------------------------------------------------------------
\* The chain.  The head is done with; after a failure nothing more is saved.
Done == reports' = Tail(reports) /\ serving' = "idle" /\ slow' = 0 /\ overlong' = FALSE
\* Faulty variant: only the event that failed is left out.
LatchedNever == FALSE
Latched == eventFailure \/ leaseFailure
Drop ==
    /\ serving = "idle" /\ reports # <<>> /\ Latched /\ Done /\ record' = "cut"
    /\ UNCHANGED <<stage, lease, silent, progress, failures>>

\* Faulty variant: renewed when less is left than a request may take.
ShortOfRequest(left) == left <= Request
Short(left) == left <= Threshold
\* Faulty variant: the new deadline is counted from the answer.
MeasuredAfter == None
Measured == Segment
\* ensureLease looks at the lease; after an abort nobody does.
BeginRenewal ==
    /\ serving = "idle" /\ reports # <<>> /\ ~Latched /\ ~Aborted /\ Short(handle)
    /\ serving' = "renewing" /\ asked' = Measured
    /\ UNCHANGED <<stage, reports, remote, row, handle, silence, slow, progress, failures, record>>
BeginSaving ==
    /\ serving = "idle" /\ reports # <<>> /\ ~Latched /\ (Aborted \/ ~Short(handle))
    /\ serving' = "saving"
    /\ UNCHANGED <<stage, reports, lease, silence, slow, progress, failures, record>>
LeaseFails ==
    /\ leaseFailure' = TRUE /\ Done /\ asked' = None /\ record' = "cut"
    /\ UNCHANGED <<signal, eventFailure>>
Renewed == IF asked = None THEN Segment ELSE asked
\* The provider renews what is still there, or not; the answer may be lost, and a stop
\* refuses it.
RenewLease ==
    /\ serving = "renewing"
    /\ \/ /\ remote > 0 /\ remote' = Segment /\ ~Aborted /\ serving' = "registering" /\ slow' = 0
          /\ UNCHANGED <<reports, overlong, asked, failures, record>>
       \/ remote' \in {remote, IF remote > 0 THEN Segment ELSE 0} /\ LeaseFails
    /\ UNCHANGED <<stage, row, handle, silent, progress>>
\* updateSandboxExpiry; a run that is being stopped is refused.
RegisterRenewal ==
    /\ serving = "registering" /\ row' \in {row, Renewed}
    /\ \/ /\ row' = Renewed /\ handle' = Renewed /\ serving' = "saving" /\ asked' = None /\ slow' = 0
          /\ UNCHANGED <<reports, overlong, failures, record>>
       \/ LeaseFails /\ UNCHANGED handle
    /\ UNCHANGED <<stage, remote, silent, progress>>

\* createMeaningfulProgressGate: one credit for the stream of a request, one for its retry,
\* one for a tool that succeeded; setPhase gives one for each stage.
\* Faulty variant: every report is taken for progress.
MeaningfulAlways(e) == TRUE
Meaningful(e) == e.kind # "noise" /\ e \notin credited
\* appendEvent puts off the deadline of the run, and touch that of the watchdog.
PutOff(e) ==
    IF Meaningful(e) THEN idle' = Idle /\ credited' = credited \union {e}
                     ELSE UNCHANGED <<idle, credited>>
\* recordEvent; it fails, if not otherwise, when the run is being stopped.
SaveEvent ==
    /\ serving = "saving"
    /\ \/ /\ signal = None /\ record' = IF record = "all" THEN "all" ELSE "gap"
          /\ PutOff(Head(reports)) /\ UNCHANGED failures
       \/ /\ eventFailure' = TRUE /\ record' = "cut"
          /\ UNCHANGED <<idle, credited, signal, leaseFailure>>
    /\ Done /\ UNCHANGED <<stage, lease, silent, request>>

-----------------------------------------------------------------------------
\* An error of the preparation, the builder or the build, or the signal.
Break ==
    /\ stage \in {"preparing", "making", "building"} /\ stage' = "ending"
    /\ UNCHANGED <<reports, serving, lease, silence, slow, progress, failures, record>>
\* Faulty variant: what waits is not waited for.
FlushedAlways == TRUE
\* flush waits for the chain.
Flushed == reports = <<>>
Flush ==
    /\ stage = "flushing" /\ Flushed
    /\ stage' = IF Aborted THEN "ending" ELSE "retaining"
    /\ UNCHANGED <<reports, serving, lease, silence, slow, progress, failures, record>>
\* The registration that says so and releaseClient, and the candidate is kept.
Retain ==
    /\ stage = "retaining" /\ stage' \in (IF Aborted THEN {"ending"} ELSE {"ending", "retained"})
    /\ slow' = 0
    /\ UNCHANGED <<reports, serving, lease, silence, progress, failures, record>>
\* onAbort: the signal destroys the sandbox at once, whoever still works in it.
AbortDestroy ==
    /\ Working /\ Aborted /\ remote > 0 /\ remote' = 0
    /\ UNCHANGED <<stage, reports, serving, row, handle, asked, silence, slow, progress, failures, record>>
\* What is not kept is destroyed, confirmed or not, and the chain waited for.
Destroy ==
    /\ stage = "ending" /\ stage' = "draining" /\ remote' \in {0, remote}
    /\ UNCHANGED <<reports, serving, row, handle, asked, silence, slow, progress, failures, record>>
End ==
    /\ \/ stage = "draining" /\ reports = <<>>
       \/ stage = "creating" /\ Aborted
    /\ stage' = "ended"
    /\ UNCHANGED <<reports, serving, lease, silence, slow, progress, failures, record>>

\* The user's stop; after another failure it makes no difference here.
Cancel ==
    /\ stage \notin {"retained", "ended"} /\ ~Aborted /\ signal' = "CANCELLED"
    /\ UNCHANGED <<stage, reports, serving, lease, silence, slow, progress, eventFailure,
                   leaseFailure, record>>
\* The sweep of the sandboxes whose time is over ends the run that still works in one.
Sweep ==
    /\ Working /\ ~Aborted /\ handle = 0 /\ signal' = "RUN_TIMEOUT"
    /\ UNCHANGED <<stage, reports, serving, lease, silence, slow, progress, eventFailure,
                   leaseFailure, record>>

\* The calls to the provider and the database that are under way one after the other; none
\* when the workspace is prepared, the builder works or the candidate is built.
Calls == IF stage \in {"created", "retaining"} THEN 2
         ELSE IF serving # "idle" THEN 1 ELSE 0
Unbounded == stage \in {"preparing", "making", "building"} /\ reports = <<>>
\* Half a minute passes; the watchdog fires when its time has come.
Down(n) == IF n > 0 THEN n - 1 ELSE 0
Tick ==
    /\ Working /\ ~Aborted          \* nothing depends on the time it takes to unwind
    /\ Unbounded \/ slow < Calls
    /\ remote' = Down(remote) /\ row' = Down(row) /\ handle' = Down(handle)
    /\ asked' = IF asked = None THEN None ELSE Down(asked)
    /\ idle' = Down(idle)
    /\ silent' = IF Unbounded /\ silent <= Request THEN silent + 1 ELSE silent
    /\ overlong' = (overlong \/ silent' > Request)
    /\ slow' = IF Unbounded THEN slow ELSE slow + 1
    /\ signal' = IF idle' = 0 THEN "RUN_TIMEOUT" ELSE signal
    /\ UNCHANGED <<stage, reports, serving, request, credited, eventFailure, leaseFailure, record>>

Chain == Drop \/ BeginRenewal \/ BeginSaving \/ RenewLease \/ RegisterRenewal \/ SaveEvent
Ends == Provision \/ (Aborted /\ Break) \/ Flush \/ Retain \/ Destroy \/ End
Stops == (stage = "retained" \/ stage = "ended") /\ UNCHANGED candidate
Next == Create \/ Provision \/ Prepare \/ Emit \/ StartBuild \/ FinishBuild \/ Chain \/ Break \/ Flush \/ Retain
        \/ AbortDestroy \/ Destroy \/ End \/ Cancel \/ Sweep \/ Tick \/ Stops
\* Time passes, however busy the chain is; a call answers or times out; what is aborted
\* unwinds.  The workspace, the builder and the build owe nothing.
Fairness == WF_candidate(Create) /\ SF_candidate(Tick) /\ WF_candidate(Chain) /\ WF_candidate(Ends)
Spec == Init /\ [][Next]_candidate /\ Fairness

-----------------------------------------------------------------------------
TypeOK ==
    /\ stage \in {"creating", "created", "preparing", "making", "building", "flushing", "retaining",
                 "retained", "ending", "draining", "ended"}
    /\ serving \in {"idle", "renewing", "registering", "saving"} /\ (serving # "idle" => reports # <<>>)
    /\ remote \in 0..Segment /\ row \in 0..Segment /\ handle \in 0..Segment
    /\ asked \in 0..Segment \union {None}
    /\ idle \in 0..Idle /\ request \in 1..(MaxRequests + 1)
    /\ signal \in {None, "CANCELLED", "RUN_TIMEOUT"} /\ record \in {"all", "cut", "gap"}

\* While the candidate is made, the provider does not take its sandbox and the sweep does
\* not find it, however slow renewals are, unless the workspace, the builder or the build
\* was silent for longer than a request and nothing was dealt with since; and a candidate
\* that is kept has its lease even then.
LeaseHolds ==
    (Underway /\ ~Aborted /\ ~overlong) \/ stage = "retained" => remote > 0 /\ handle > 0

\* Nobody believes in a longer lease than the provider granted, once the first renewal is
\* through: not when an answer was slow, not when one of the two records of it failed.
NotAhead == (Underway /\ ~Aborted) \/ stage = "retained" => handle <= row /\ row <= remote

\* What is saved of a candidate's reports is the first of them, without a gap, and a
\* candidate that is kept has all of them and the lease it believes in.
RecordIsWhole ==
    /\ record # "gap"
    /\ stage = "retained" => reports = <<>> /\ record = "all" /\ ~leaseFailure

\* A candidate is kept or done with in the end: retries that are announced again and again,
\* streams and output without end, a workspace or a build that never answers do not keep it
\* going.
Concludes == <>(stage \in {"retained", "ended"})
=============================================================================

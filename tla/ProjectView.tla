---------------------------- MODULE ProjectView -----------------------------
(***************************************************************************)
(* What the workbench shows of one project (web components/                *)
(* generation-state.ts): one load at a time reads the project, then a run, *)
(* then perhaps the project again, while runs finish, other tabs add runs  *)
(* and a rollback hides the earlier ones.  Each response is a snapshot of  *)
(* the server at the moment it is read; the rest of the load comes later.  *)
(* A project snapshot shows one revision: the accepted one or the later    *)
(* candidate.  Events and timers only ask for another load.                *)
(***************************************************************************)
EXTENDS Naturals, Sequences

CONSTANTS MaxRuns, None

VARIABLES history,    \* server: the project's runs, in order of creation
          revisionNow, \* server: the run whose revision the project shows, 0 for none
          hiddenRuns,  \* server: runs created before the last committed rollback
          answers,     \* runs this tab created, whose acceptance is still on its way
          acceptedRun, \* acceptedId: a run accepted but not yet read, 0 for none
          load,        \* the load in flight
          again,       \* refreshAgain: one more load when this one ends
          seen         \* the view; run 0 stands for none
client == <<acceptedRun, load, again, seen>>
server == <<history, revisionNow, hiddenRuns>>
projectView == <<server, answers, client>>

\* A run ends with a version, or without one: it failed, was stopped or asks for input.
Terminal == {"saved", "unsaved"}
Idle == [at |-> "idle", runId |-> 0, project |-> None, detail |-> None]
Unseen == [run |-> 0, state |-> "none", cleanup |-> "none", project |-> None]

-----------------------------------------------------------------------------
(* The server's answers. *)

\* The repository reads related rows in one statement: the last run to be created, the
\* revision and the last rollback belong together, as do a run and its revision.
readProjectSnapshot ==
    [latestRun |-> Len(history), revision |-> revisionNow, rolledBack |-> hiddenRuns]
readRunSnapshot(n) == history[n]

\* service.projectDetail: runs from before the last rollback are not named.
ProjectNow ==
    LET snapshot == readProjectSnapshot
        latest == IF snapshot.latestRun > snapshot.rolledBack THEN snapshot.latestRun ELSE 0
    IN [run |-> latest,
        state |-> IF latest = 0 THEN "none" ELSE history[latest].state,
        cleanup |-> IF latest = 0 THEN "none" ELSE history[latest].cleanup,
        revision |-> snapshot.revision]
RunNow(n) ==
    LET row == readRunSnapshot(n)
    IN [run |-> n, state |-> row.state, cleanup |-> row.cleanup, parent |-> row.parent]

Create(byThisTab) ==
    /\ Len(history) < MaxRuns
    /\ \E parent \in {0} \union {n \in {Len(history)} \ {0} : history[n].state = "unsaved"} :
         history' = Append(history, [state |-> "open", cleanup |-> "none", parent |-> parent])
    /\ answers' = IF byThisTab THEN answers \union {Len(history) + 1} ELSE answers
    /\ UNCHANGED <<revisionNow, hiddenRuns, client>>
Settle(n) ==
    /\ history[n].state = "open" /\ \A m \in 1..n - 1 : history[m].state # "open"
    /\ \E state \in Terminal :
         /\ history' = [history EXCEPT ![n].state = state, ![n].cleanup = "pending"]
         /\ revisionNow' = IF state = "saved" THEN n ELSE revisionNow
    /\ UNCHANGED <<hiddenRuns, answers, client>>
Confirm(n) ==
    /\ history[n].cleanup = "pending" /\ history' = [history EXCEPT ![n].cleanup = "confirmed"]
    /\ UNCHANGED <<revisionNow, hiddenRuns, answers, client>>
\* A rollback needs the project's lock; queued runs do not hold it.
RollBack ==
    /\ revisionNow > 0 /\ \A n \in DOMAIN history : history[n].cleanup # "pending"
    /\ \E target \in 0..revisionNow - 1 : revisionNow' = target
    /\ hiddenRuns' = Len(history) /\ UNCHANGED <<history, answers, client>>

-----------------------------------------------------------------------------
(* The client. *)

Init ==
    /\ history = <<>> /\ revisionNow = 0 /\ hiddenRuns = 0 /\ answers = {}
    /\ acceptedRun = 0 /\ load = Idle /\ again = FALSE /\ seen = Unseen

\* refresh: a load on its way is not superseded; one trailing load is remembered.
Requested ==
    IF load.at = "idle"
    THEN load' = [Idle EXCEPT !.at = "project"] /\ UNCHANGED again
    ELSE again' = TRUE /\ UNCHANGED load
Refresh == Requested /\ UNCHANGED <<server, answers, acceptedRun, seen>>

FinalSnapshot(p, r) ==
    /\ p.run = r.run /\ p.state = r.state
    /\ r.state = "saved" => p.revision = r.run
\* The polling interval, and the event connection of an active run.
Polling ==
    \/ acceptedRun # 0 /\ seen.run # acceptedRun
    \/ seen.run # 0
       /\ (seen.state \notin Terminal \/ seen.cleanup = "pending" \/ ~FinalSnapshot(seen.project, seen))
Poll == Polling /\ Refresh
\* The window gets the focus; while the interval asks as well, one of the two is enough.
Focus == ~Polling /\ Refresh

\* accepted: the answer of a submission names the new run.
Accepted(n) ==
    /\ n \in answers /\ answers' = answers \ {n}
    /\ acceptedRun' = n /\ Requested /\ UNCHANGED <<server, seen>>

ReadProject ==
    /\ load.at = "project"
    /\ load' = [load EXCEPT !.at = "project read", !.project = ProjectNow]
    /\ UNCHANGED <<server, answers, acceptedRun, again, seen>>
\* The run to read is chosen when the project's answer arrives.
ChooseRun ==
    /\ load.at = "project read"
    /\ LET n == IF acceptedRun # 0 THEN acceptedRun ELSE load.project.run
       IN load' = [load EXCEPT !.at = IF n = 0 THEN "apply" ELSE "run", !.runId = n]
    /\ UNCHANGED <<server, answers, acceptedRun, again, seen>>
\* Faulty variant: the project is not read again.
AfterRunOnce(project, detail) == "apply"
\* A terminal run that the project read does not know yet makes it read the project again.
AfterRun(project, detail) ==
    IF detail.state \in Terminal /\ ~FinalSnapshot(project, detail) THEN "project again" ELSE "apply"
ReadRun ==
    /\ load.at = "run"
    /\ LET detail == RunNow(load.runId)
       IN load' = [load EXCEPT !.runId = 0, !.detail = detail, !.at = AfterRun(load.project, detail)]
    /\ UNCHANGED <<server, answers, acceptedRun, again, seen>>
ReadProjectAgain ==
    /\ load.at = "project again"
    /\ load' = [load EXCEPT !.at = "apply", !.project = ProjectNow]
    /\ UNCHANGED <<server, answers, acceptedRun, again, seen>>

\* finally: the trailing load starts at once.
Ended(more) ==
    /\ load' = IF more THEN [Idle EXCEPT !.at = "project"] ELSE Idle
    /\ again' = FALSE
ReadFails ==
    /\ load.at \in {"project", "run", "project again"} /\ Ended(again)
    /\ UNCHANGED <<server, answers, acceptedRun, seen>>

\* The project may already name a newer run than the one read; an answer is newer than
\* the run it answers.
NamesParent(p, d) == d # None /\ d.parent # 0 /\ d.parent = p.run
Visible(p, d) ==
    IF d = None \/ (p.run # 0 /\ p.run # d.run /\ ~NamesParent(p, d)) THEN p ELSE d
\* setView: a delayed snapshot does not take back a result that is shown.
Delayed(p, r) ==
    /\ seen.run # 0 /\ r.run = seen.run /\ seen.state \in Terminal
    /\ \/ r.state # seen.state
       \/ seen.cleanup = "confirmed" /\ r.cleanup # "confirmed"
       \/ FinalSnapshot(seen.project, seen) /\ ~FinalSnapshot(p, r)
Apply ==
    /\ load.at = "apply"
    /\ LET p == load.project
           d == load.detail
           r == Visible(p, d)
       IN /\ acceptedRun' = IF d # None /\ d.run = acceptedRun THEN 0 ELSE acceptedRun
          /\ seen' = IF Delayed(p, r) THEN seen
                     ELSE [run |-> r.run, state |-> r.state, cleanup |-> r.cleanup, project |-> p]
          /\ Ended(again \/ NamesParent(p, d) \/ (r.run # 0 /\ (d = None \/ r.run # d.run)))
    /\ UNCHANGED <<server, answers>>

Load == ReadProject \/ ChooseRun \/ ReadRun \/ ReadProjectAgain \/ ReadFails \/ Apply
Next ==
    \/ \E byThisTab \in BOOLEAN : Create(byThisTab)
    \/ \E n \in DOMAIN history : Settle(n)
    \/ \E n \in DOMAIN history : Confirm(n)
    \/ \E n \in DOMAIN history : Accepted(n)
    \/ RollBack \/ Focus \/ Poll \/ Load

-----------------------------------------------------------------------------
Snapshots == [run : 0..MaxRuns, state : Terminal \union {"open", "none"},
              cleanup : {"none", "pending", "confirmed"}, revision : 0..MaxRuns]
TypeOK ==
    /\ \A n \in DOMAIN history : history[n].state \in Terminal \union {"open"}
    /\ revisionNow \in 0..MaxRuns /\ hiddenRuns \in 0..MaxRuns /\ answers \subseteq DOMAIN history
    /\ acceptedRun \in 0..Len(history) /\ again \in BOOLEAN
    /\ load.project \in Snapshots \union {None}
    /\ seen.run \in 0..Len(history) /\ seen.project \in Snapshots \union {None}

\* A finished run is never shown next to a project that still says it is running: the
\* project shown with a saved result holds that result, unless it names another run.
ShownIsSaved ==
    seen.run # 0 /\ seen.state \in Terminal /\ seen.project.run = seen.run
        => FinalSnapshot(seen.project, seen)
=============================================================================

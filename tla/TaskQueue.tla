------------------------------ MODULE TaskQueue ------------------------------
(***************************************************************************)
(* The order in which waiting tasks of all accounts are started            *)
(* (migrations 020, 021 and 023, data/generation.ts listTasks and          *)
(* claimNextQueuedRun, generation/scheduler.ts).  A queued task waits for  *)
(* its project and for a slot; whose turn it is follows from the latest    *)
(* dispatch of each account, which is read from the rows of its runs and   *)
(* goes with them when a project is deleted.  Slots that rollbacks,        *)
(* restores and previews take are SandboxOperations' subject.              *)
(***************************************************************************)
EXTENDS Naturals, Sequences, FiniteSets, SequencesExt

CONSTANTS Accounts, Projects, Tasks, None,
          AccountOf,      \* the account of each project
          Ceiling,        \* maxSandboxes
          MaxDeletions    \* projects deleted

ASSUME QueueAssumption ==
    /\ AccountOf \in [Projects -> Accounts] /\ None \notin Projects
    /\ Ceiling \in Nat \ {0} /\ MaxDeletions \in Nat

VARIABLES queue,          \* the queued tasks in the order of created_at
          project,        \* task -> its project, None while the name is unused
          live, cleaning, \* tasks that run; tasks that ended and whose cleanup is pending
          stuck,          \* of these, whose sandbox was never registered
          other,          \* projects held by a rollback or a restore
          served,         \* the projects in the order of their latest dispatched_at
          deletions,
          passed          \* history: passed[a][b], how b came before a while a was ready
vars == <<queue, project, live, cleaning, stuck, other, served, deletions, passed>>

Init ==
    /\ queue = <<>> /\ project = [t \in Tasks |-> None] /\ live = {} /\ cleaning = {}
    /\ stuck = {} /\ other = {} /\ served = <<>> /\ deletions = 0
    /\ passed = [a \in Accounts |-> [b \in Accounts |-> "no"]]

-----------------------------------------------------------------------------
Queued == ToSet(queue)
Account(t) == AccountOf[project[t]]
Place(s, x) == CHOOSE i \in DOMAIN s : s[i] = x
Earlier(t, u) == Place(queue, t) < Place(queue, u)

\* A row leaves; there is one of it at most.
Without(s, x) == IF x \in ToSet(s) THEN RemoveAt(s, Place(s, x)) ELSE s

\* max(dispatched_at) of an account's runs, 0 for NULL.
LastDispatch(a) ==
    LET places == {i \in DOMAIN served : AccountOf[served[i]] = a}
    IN  IF places = {} THEN 0 ELSE CHOOSE i \in places : \A j \in places : j <= i

\* Faulty variant: only the project's operation and its live run are looked at.
BlockedByLock(t) == project[t] \in other \/ \E u \in live : project[u] = project[t]
\* A project's tasks are serial: its operation, a live run, a pending cleanup and an
\* earlier queued task each hold the next one back.
Blocked(t) ==
    \/ project[t] \in other
    \/ \E u \in live \union cleaning : project[u] = project[t]
    \/ \E u \in Queued : project[u] = project[t] /\ Earlier(u, t)
Waiting == {t \in Queued : ~Blocked(t)}
Ready(a) == \E t \in Waiting : Account(t) = a

\* Faulty variants: no turn of accounts; an account that was never served comes last.
BeforeByAge(t, u) == Earlier(t, u)
BeforeNullsLast(t, u) ==
    LET a == LastDispatch(Account(t))  b == LastDispatch(Account(u))
    IN  \/ a # 0 /\ (b = 0 \/ a < b)
        \/ a = b /\ Earlier(t, u)
\* ORDER BY last_dispatch ASC NULLS FIRST, created_at ASC.
Before(t, u) ==
    LET a == LastDispatch(Account(t))  b == LastDispatch(Account(u))
    IN  a < b \/ (a = b /\ Earlier(t, u))

\* Faulty variant: a comparison with NULL counts nobody.
CountedStrictly(t, u) ==
    LET a == LastDispatch(Account(t))  b == LastDispatch(Account(u))
    IN  \/ a # 0 /\ b # 0 /\ a < b
        \/ a = b /\ Earlier(t, u)
\* What queue_candidates counts as ahead of u: a NULL is ahead of everything.
Counted(t, u) ==
    LET a == LastDispatch(Account(t))  b == LastDispatch(Account(u))
    IN  \/ a = 0
        \/ b # 0 /\ a < b
        \/ a = b /\ Earlier(t, u)
Position(u) == Cardinality({t \in Waiting : Counted(t, u)}) + 1

\* listTasks: what an account is shown of its tasks that wait.
listTasks(a) == {<<t, Position(t)>> : t \in {u \in Waiting : Account(u) = a}}

-----------------------------------------------------------------------------
\* How often accounts were passed over: an account that is not ready starts anew.
Records(before) == passed' = [a \in Accounts |-> IF Ready(a)' THEN before[a]
                                                 ELSE [b \in Accounts |-> "no"]]

Submit(t, p) ==
    /\ project[t] = None /\ project' = [project EXCEPT ![t] = p] /\ queue' = Append(queue, t)
    /\ UNCHANGED <<live, cleaning, stuck, other, served, deletions>> /\ Records(passed)
Cancel(t) ==
    /\ t \in Queued /\ queue' = Without(queue, t) /\ project' = [project EXCEPT ![t] = None]
    /\ UNCHANGED <<live, cleaning, stuck, other, served, deletions>> /\ Records(passed)

\* reserve_generation_capacity: a run counts until its sandbox is gone.
FreeSlot == Cardinality(live \union cleaning) < Ceiling

\* One claim of the scheduler: a free slot, the first task that is not blocked, its
\* project's lock and its dispatched_at, in one transaction.
ClaimNextQueuedRun ==
    /\ FreeSlot
    /\ \E t \in Waiting :
          /\ \A u \in Waiting \ {t} : Before(t, u)
          /\ queue' = Without(queue, t) /\ live' = live \union {t}
          /\ served' = Append(Without(served, project[t]), project[t])
          /\ UNCHANGED <<project, cleaning, stuck, other, deletions>>
          /\ Records([a \in Accounts |-> IF a = Account(t) THEN [b \in Accounts |-> "no"]
                      ELSE IF Ready(a) THEN [passed[a] EXCEPT ![Account(t)] = "once"]
                      ELSE passed[a]])

\* A task ends, or is parked before it starts; its sandbox may still have to go.  Nobody
\* destroys one that a stop met before it was registered.
EndTask(t) ==
    /\ t \in live /\ live' = live \ {t}
    /\ \/ cleaning' = cleaning \union {t} /\ stuck' \in {stuck, stuck \union {t}} /\ UNCHANGED project
       \/ project' = [project EXCEPT ![t] = None] /\ UNCHANGED <<cleaning, stuck>>
    /\ UNCHANGED <<queue, other, served, deletions>> /\ Records(passed)
ConfirmCleanup(t) ==
    /\ t \in cleaning \ stuck /\ cleaning' = cleaning \ {t}
    /\ project' = [project EXCEPT ![t] = None]
    /\ UNCHANGED <<queue, live, stuck, other, served, deletions>> /\ Records(passed)
\* The next process claims what the last one left: its live runs are interrupted, and no
\* cleanup waits for a sandbox that has no row.
Restart ==
    /\ live' = {} /\ cleaning' = cleaning \union live /\ stuck' = {}
    /\ UNCHANGED <<queue, project, other, served, deletions>> /\ Records(passed)

\* A rollback or a restore takes the project's lock and gives it back; a run keeps the lock
\* until it is cleaned up after.
Operation(p) ==
    /\ \/ p \in other /\ other' = other \ {p}
       \/ /\ p \notin other /\ \A t \in live \union cleaning : project[t] # p
          /\ other' = other \union {p}
    /\ UNCHANGED <<queue, project, live, cleaning, stuck, served, deletions>> /\ Records(passed)

\* The rows of p are the ones that say when its account was served last.
SaidServed(p) == p \in ToSet(served) /\ Place(served, p) = LastDispatch(AccountOf[p])
\* delete_owned_project: nothing of the project is at work; its runs go with it, and
\* what they said of the account's last dispatch.
DeleteProject(p) ==
    /\ deletions < MaxDeletions /\ deletions' = deletions + 1
    /\ p \notin other /\ \A t \in Tasks : project[t] # p
    /\ served' = Without(served, p)
    /\ UNCHANGED <<queue, project, live, cleaning, stuck, other>>
    /\ Records([a \in Accounts |-> IF SaidServed(p) /\ passed[a][AccountOf[p]] = "once"
                                   THEN [passed[a] EXCEPT ![AccountOf[p]] = "erased"]
                                   ELSE passed[a]])

Next ==
    \/ \E t \in Tasks, p \in Projects : Submit(t, p)
    \/ \E t \in Tasks : Cancel(t) \/ EndTask(t) \/ ConfirmCleanup(t)
    \/ ClaimNextQueuedRun \/ Restart
    \/ \E p \in Projects : Operation(p) \/ DeleteProject(p)
Spec == Init /\ [][Next]_vars

\* The scheduler's timer claims again and again; a task ends by its own watchdog, and its
\* cleanup is retried until it is confirmed (RunLifecycle), unless nobody knows the sandbox.
\* Nothing makes the process restart, nor a rollback or a restore begin or end.
FairSpec ==
    /\ Spec /\ WF_vars(ClaimNextQueuedRun)
    /\ \A t \in Tasks : WF_vars(EndTask(t)) /\ WF_vars(ConfirmCleanup(t))

-----------------------------------------------------------------------------
TypeOK ==
    /\ Queued \union live \union cleaning = {t \in Tasks : project[t] # None}
    /\ Cardinality(live \union cleaning) <= Ceiling /\ stuck \subseteq cleaning
    /\ IsInjective(served) /\ ToSet(served) \subseteq Projects

\* The tasks of one project run one after the other: never two at a time, none while the
\* sandbox of the last one is still to be removed.
ProjectIsSerial ==
    \A t, u \in live \union cleaning : project[t] = project[u] => t = u

\* An account with a backlog is served once and then yields: while another account has a
\* task that could start, it is not served twice before it, unless it deleted the project
\* in between whose rows said that it had been served.  And a task never starts before
\* one of the same project that was submitted earlier.
ServedInTurn ==
    [][\A t \in live' \ live :
          /\ \A a \in Accounts \ {Account(t)} : Ready(a) => passed[a][Account(t)] # "once"
          /\ \A u \in Queued \ {t} : project[u] = project[t] => Earlier(t, u)]_vars

\* The position a task is shown never puts it behind a task that starts later.
PositionsFollowOrder ==
    \A a, b \in Accounts : \A x \in listTasks(a), y \in listTasks(b) :
        x[1] # y[1] /\ Before(x[1], y[1]) => x[2] <= y[2]

\* A task that waits is started in the end, whatever the other accounts submit, unless its
\* project is an operation's again and again.  Only cleanups that nobody can confirm keep it
\* waiting: one of its own project, or as many as there are slots.
Stranded(t) == \/ \E u \in stuck : project[u] = project[t]
               \/ Cardinality(stuck) >= Ceiling
WaitingTaskStarts ==
    \A t \in Tasks : []<>(t \notin Queued \/ project[t] \in other \/ Stranded(t))
=============================================================================

------------------------- MODULE RunLifecycleProofs -------------------------
(***************************************************************************)
(* Proofs about RunLifecycle, for every number of runs, attempts, restarts,*)
(* stops, faults and rollbacks: that its variables have their types; about *)
(* who holds the project: LockHeld, NoReversal, BaseIsCurrent, and that    *)
(* the accepted versions behave as ProjectVersions says; and about the     *)
(* sandboxes of the runs: OpenRowTracked, OneSandboxPerRun,                *)
(* AcceptedPreviewKept, and ReclaimedWhenConfirmed until the first repair. *)
(* LockHeld is not inductive: the recovery ends a stale run in whatever    *)
(* state it is in, and finishCancelled writes without looking.  Every      *)
(* conjunct of the sandboxes' invariant speaks of one run and its          *)
(* candidates, and every action but the restart touches one run: a step    *)
(* keeps the others' part, and has its own run's to show.                  *)
(***************************************************************************)
EXTENDS RunLifecycle, TLAPS

-----------------------------------------------------------------------------
(* What the helpers of the actions do to the types.                          *)

\* The sandbox row of a run's current attempt is one of the candidates.
LEMMA CandType == ASSUME RequestType, NEW r \in Runs PROVE Cand(r) \in Candidates
BY DEF RequestType, Cand, Candidates

\* There is a run to speak of, with a first attempt.
LEMMA SomeCandidate == 1 \in Runs /\ <<1, 0>> \in Candidates /\ Sweep \in Destroyers
<1>1. 1 \in Runs /\ 0 \in Attempts
  BY BoundsAssumption DEF Runs, Attempts
<1> QED BY <1>1 DEF Candidates, Destroyers

\* A task that moves to another place stays a task.
LEMMA GotoType == ASSUME TaskType, NEW r \in Runs, NEW p \in Places, Goto(r, p)
                  PROVE  TaskType'
BY DEF TaskType, Goto, Tasks

\* A task that moves and notes the fate of a commit, of a preview or of its
\* settlement stays a task.
LEMMA NotedType ==
    ASSUME TaskType, NEW r \in Runs, NEW p \in Places, NEW k \in BOOLEAN, NEW j \in BOOLEAN,
           \/ task' = [task EXCEPT ![r].pc = p, ![r].unknown = k]
           \/ task' = [task EXCEPT ![r].unsettled = k, ![r].pc = p]
           \/ task' = [task EXCEPT ![r].kept = k, ![r].pc = p]
           \/ task' = [task EXCEPT ![r].unknown = j, ![r].kept = k, ![r].pc = p]
    PROVE  TaskType'
<1>1. task[r] \in Tasks BY DEF TaskType
<1>2. /\ [task[r] EXCEPT !.pc = p, !.unknown = k] \in Tasks
      /\ [task[r] EXCEPT !.unsettled = k, !.pc = p] \in Tasks
      /\ [task[r] EXCEPT !.kept = k, !.pc = p] \in Tasks
      /\ [task[r] EXCEPT !.unknown = j, !.kept = k, !.pc = p] \in Tasks
  BY <1>1 DEF Tasks
<1> QED BY <1>2 DEF TaskType

\* Asking what became of a commit keeps the task a task.
LEMMA ReconcileType == ASSUME TypeOK, NEW r \in Runs, Reconcile(r) PROVE TaskType'
<1> DEFINE place == IF state[r] \in Terminal THEN "final" ELSE "catch"
<1>1. place \in Places
  BY DEF Places
<1>2. CASE task' = [task EXCEPT ![r].unknown = FALSE,
                                ![r].kept = state[r] = "completed", ![r].pc = place]
  <2>1. CASE state[r] = "completed"
    <3>1. (state[r] = "completed") = TRUE
      BY <2>1, Zenon
    <3>2. task' = [task EXCEPT ![r].unknown = FALSE, ![r].kept = TRUE, ![r].pc = place]
      BY <1>2, <3>1, Zenon
    <3> HIDE DEF place
    <3> QED BY <3>2, <1>1, NotedType DEF TypeOK
  <2>2. CASE state[r] # "completed"
    <3>1. (state[r] = "completed") = FALSE
      BY <2>2, Zenon
    <3>2. task' = [task EXCEPT ![r].unknown = FALSE, ![r].kept = FALSE, ![r].pc = place]
      BY <1>2, <3>1, Zenon
    <3> HIDE DEF place
    <3> QED BY <3>2, <1>1, NotedType DEF TypeOK
  <2> QED BY <2>1, <2>2
<1>3. CASE task' = [task EXCEPT ![r].unsettled = TRUE, ![r].pc = "final"]
  BY <1>3, NotedType DEF TypeOK, Places
<1> QED BY <1>2, <1>3, Zenon DEF Reconcile

\* Telling the task about its verdict keeps it a task.
LEMMA VerdictTaskType == ASSUME TypeOK, NEW r \in Runs, NEW verdict, FinishReview(r, verdict)
                         PROVE  TaskType'
<1> DEFINE passed == verdict = "passed"
          place == IF passed THEN "final"
                   ELSE IF Outcome(r, verdict)[1] = "repairing" THEN "repair" ELSE "release"
<1>1. place \in Places
  BY DEF Places
<1>2. CASE task' = [task EXCEPT ![r].kept = passed, ![r].pc = place]
  <2>1. CASE passed
    <3>1. passed = TRUE
      BY <2>1, Zenon
    <3>2. task' = [task EXCEPT ![r].kept = TRUE, ![r].pc = place]
      BY <1>2, <3>1, Zenon
    <3> HIDE DEF place, passed
    <3> QED BY <3>2, <1>1, NotedType DEF TypeOK
  <2>2. CASE ~passed
    <3>1. passed = FALSE
      BY <2>2, Zenon
    <3>2. task' = [task EXCEPT ![r].kept = FALSE, ![r].pc = place]
      BY <1>2, <3>1, Zenon
    <3> HIDE DEF place, passed
    <3> QED BY <3>2, <1>1, NotedType DEF TypeOK
  <2> QED BY <2>1, <2>2
<1>3. CASE task' = [task EXCEPT ![r].pc = "catch", ![r].unknown = TRUE]
  BY <1>3, NotedType DEF TypeOK, Places
<1> QED BY <1>2, <1>3 DEF FinishReview

\* No task is a task.
LEMMA NoTaskType == NoTask \in Tasks
BY DEF NoTask, Tasks, Places, Signals, Outcomes

\* Spending a bound leaves it a natural number.
LEMMA SpendType == ASSUME BudgetType, NEW b \in {"cancels", "faults", "rollbacks"}, Spend(b)
                   PROVE  BudgetType'
BY BoundsAssumption DEF BudgetType, Spend

\* Releasing a lease leaves it a lease.
LEMMA ReleaseLeaseType == ASSUME LeaseType, NEW r \in Runs, ReleaseLease(r) PROVE LeaseType'
BY DEF LeaseType, ReleaseLease

\* Ending a run writes a state, a cleanup state and the project's holder.
LEMMA EndRunType ==
    ASSUME StateType, CleanupType, operation \in Runs \cup {None, RollbackOp},
           NEW r \in Runs, NEW s \in States, NEW c \in Cleanups, EndRun(r, s, c)
    PROVE  StateType' /\ CleanupType' /\ operation' \in Runs \cup {None, RollbackOp}
BY DEF StateType, CleanupType, EndRun

\* finishFailed keeps the types, whether it writes or not.
LEMMA FinishFailedType ==
    ASSUME StateType, CleanupType, operation \in Runs \cup {None, RollbackOp},
           NEW r \in Runs, NEW c \in Cleanups, FinishFailed(r, c)
    PROVE  StateType' /\ CleanupType' /\ operation' \in Runs \cup {None, RollbackOp}
BY EndRunType DEF FinishFailed, States, Terminal, StateType, CleanupType

\* finishCancelled keeps the types, whether it writes or not.
LEMMA FinishCancelledType ==
    ASSUME StateType, CleanupType, operation \in Runs \cup {None, RollbackOp},
           NEW r \in Runs, NEW c \in Cleanups, FinishCancelled(r, c)
    PROVE  StateType' /\ CleanupType' /\ operation' \in Runs \cup {None, RollbackOp}
BY EndRunType DEF FinishCancelled, States, Terminal, StateType, CleanupType

\* A cleanup is reported as confirmed or as pending.
LEMMA ConfirmedType == \A clean : Confirmed(clean) \in Cleanups
BY DEF Confirmed, Cleanups

\* A destroyer at rest has a well-typed record.
LEMMA NoKillType == NoKill \in [stage : Stages, cand : Candidates]
BY BoundsAssumption DEF NoKill, Stages, Candidates, Runs, Attempts

\* A destroy that a task is done with keeps the types.
LEMMA KillEndedType == ASSUME KillType, NEW r \in Runs, KillEnded(r) PROVE KillType'
BY NoKillType DEF KillType, KillEnded

\* A destroy that moves on keeps the types.
LEMMA NextStageType == ASSUME KillType, NEW d \in Destroyers, NEW s \in Stages, NextStage(d, s)
                       PROVE  KillType'
BY DEF KillType, NextStage

\* A destroy that answers keeps the types.
LEMMA AnswerType == ASSUME KillType, NEW d \in Destroyers, NEW s \in Stages, Answer(d, s)
                    PROVE  KillType'
BY NoKillType DEF KillType, Answer

\* What a destroyer works on is a candidate of a run.
LEMMA KillCandType == ASSUME KillType, NEW d \in Destroyers
                      PROVE  kill[d].cand \in Candidates /\ kill[d].cand[1] \in Runs
BY DEF KillType, Candidates

-----------------------------------------------------------------------------
(* Every action keeps the types.                                             *)

\* The scheduler keeps the types.
LEMMA DispatchType == ASSUME TypeOK, NEW r \in Runs, DispatchStep(r) PROVE TypeOK'
<1>1. CASE ClaimNextQueuedRun(r)
  <2>1. ProjectType'
       BY <1>1 DEF TypeOK, ProjectType, boundVars, ClaimNextQueuedRun
  <2>2. StateType'
       BY <1>1 DEF TypeOK, StateType, States, Live, ClaimNextQueuedRun
  <2>3. RequestType'
       BY <1>1 DEF TypeOK, RequestType, ClaimNextQueuedRun
  <2>4. ProcessType'
       BY <1>1 DEF TypeOK, ProcessType, ClaimNextQueuedRun
  <2>5. CleanupType' /\ LeaseType' /\ AssetType' /\ TaskType' /\ KillType' /\
          BudgetType'
       BY <1>1 DEF TypeOK, CleanupType, LeaseType, AssetType, TaskType, KillType,
          BudgetType, assetVars, boundVars, ClaimNextQueuedRun
  <2> QED BY <2>1, <2>2, <2>3, <2>4, <2>5 DEF TypeOK
<1>2. CASE PrepareDispatch(r)
  <2>1. RequestType'
       BY <1>2 DEF TypeOK, RequestType, ProjectType, DispatchBase, requestVars,
          PrepareDispatch
  <2>2. ProcessType'
       BY <1>2 DEF TypeOK, ProcessType, PrepareDispatch
  <2>3. ProjectType' /\ StateType' /\ CleanupType' /\ LeaseType' /\ AssetType' /\
          TaskType' /\ KillType' /\ BudgetType'
       BY <1>2 DEF TypeOK, ProjectType, StateType, CleanupType, LeaseType, AssetType,
          TaskType, KillType, BudgetType, assetVars, boundVars, projectVars,
          requestVars, PrepareDispatch
  <2> QED BY <2>1, <2>2, <2>3 DEF TypeOK
<1>3. CASE ParkDispatch(r)
  <2>1. ProjectType' /\ StateType' /\ CleanupType'
       BY <1>3, EndRunType DEF TypeOK, States, Terminal, Live, Cleanups, ParkClaim,
          ProjectType, StateType, CleanupType, boundVars, ParkDispatch
  <2>2. LeaseType'
       BY <1>3, ReleaseLeaseType DEF TypeOK, ParkClaim, ParkDispatch
  <2>3. ProcessType'
       BY <1>3 DEF TypeOK, ProcessType, ParkDispatch
  <2>4. RequestType' /\ AssetType' /\ TaskType' /\ KillType' /\ BudgetType'
       BY <1>3 DEF TypeOK, RequestType, AssetType, TaskType, KillType, BudgetType,
          assetVars, boundVars, requestVars, ParkDispatch
  <2> QED BY <2>1, <2>2, <2>3, <2>4 DEF TypeOK
<1>4. CASE DispatchError(r)
  <2>1. ProcessType'
       BY <1>4 DEF TypeOK, ProcessType, DispatchError
  <2>2. BudgetType'
       BY <1>4, SpendType DEF TypeOK, BudgetType, DispatchError
  <2>3. ProjectType' /\ StateType' /\ CleanupType' /\ LeaseType' /\ RequestType'
          /\ AssetType' /\ TaskType' /\ KillType'
       BY <1>4 DEF TypeOK, ProjectType, StateType, CleanupType, LeaseType, RequestType,
          AssetType, TaskType, KillType, assetVars, projectVars, requestVars,
          DispatchError
  <2> QED BY <2>1, <2>2, <2>3 DEF TypeOK
<1>5. CASE StartTask(r)
  <2>1. ProcessType'
       BY <1>5 DEF TypeOK, ProcessType, StartTask
  <2>2. TaskType'
       BY <1>5, NoTaskType DEF TypeOK, TaskType, Tasks, Places, StartTask
  <2>3. ProjectType' /\ StateType' /\ CleanupType' /\ LeaseType' /\ RequestType'
          /\ AssetType' /\ KillType' /\ BudgetType'
       BY <1>5 DEF TypeOK, ProjectType, StateType, CleanupType, LeaseType, RequestType,
          AssetType, KillType, BudgetType, assetVars, boundVars, projectVars,
          requestVars, StartTask
  <2> QED BY <2>1, <2>2, <2>3 DEF TypeOK
<1>6. CASE RecoverStrandedClaim(r)
  <2>1. ProjectType' /\ StateType' /\ CleanupType'
       BY <1>6, EndRunType DEF TypeOK, States, Terminal, Live, Cleanups, ParkClaim,
          ProjectType, StateType, CleanupType, boundVars, RecoverStrandedClaim
  <2>2. LeaseType'
       BY <1>6, ReleaseLeaseType DEF TypeOK, ParkClaim, RecoverStrandedClaim
  <2>3. RequestType' /\ AssetType' /\ ProcessType' /\ TaskType' /\ KillType' /\
          BudgetType'
       BY <1>6 DEF TypeOK, RequestType, AssetType, ProcessType, TaskType, KillType,
          BudgetType, assetVars, boundVars, processVars, requestVars,
          RecoverStrandedClaim
  <2> QED BY <2>1, <2>2, <2>3 DEF TypeOK
<1> QED BY <1>1, <1>2, <1>3, <1>4, <1>5, <1>6 DEF DispatchStep

\* A verdict keeps the types.
LEMMA OutcomeType == ASSUME NEW r \in Runs, NEW verdict
                     PROVE  /\ Outcome(r, verdict)[1] \in States
                            /\ Outcome(r, verdict)[2] \in Revisions
BY DEF Outcome, States, Live, Terminal, Revisions

\* finishReview's transaction keeps the types.
LEMMA FinishReviewType == ASSUME TypeOK, NEW r \in Runs, NEW verdict, FinishReview(r, verdict)
                          PROVE  TypeOK'
<1>1. ProjectType'
     BY CandType DEF TypeOK, ProjectType, FinishReview, Versions, boundVars
<1>2. StateType' /\ CleanupType'
     BY OutcomeType DEF TypeOK, StateType, CleanupType, Cleanups, FinishReview
<1>3. LeaseType'
     BY ReleaseLeaseType DEF TypeOK, LeaseType, FinishReview
<1>4. AssetType'
     BY OutcomeType, CandType DEF TypeOK, AssetType, RowStates, FinishReview
<1>5. TaskType'
     BY VerdictTaskType
<1>6. BudgetType'
     BY SpendType DEF TypeOK, BudgetType, FinishReview
<1>7. RequestType' /\ ProcessType' /\ KillType'
     BY DEF TypeOK, RequestType, ProcessType, KillType, FinishReview, requestVars
<1> QED BY <1>1, <1>2, <1>3, <1>4, <1>5, <1>6, <1>7 DEF TypeOK

\* The steps of an executor task keep the types.
LEMMA TaskStepType == ASSUME TypeOK, NEW r \in Runs, TaskStep(r) PROVE TypeOK'
<1>1. CASE TaskError(r)
  <2>1. TaskType'
    <3>1. PICK k \in {FALSE, At(r, "review")} :
              task' = [task EXCEPT ![r].pc = "catch", ![r].unknown = k]
      BY <1>1 DEF TaskError
    <3>2. k \in BOOLEAN
      BY DEF At
    <3> QED BY <3>1, <3>2, NotedType DEF TypeOK, Places
  <2>2. ProjectType' /\ StateType' /\ CleanupType' /\ LeaseType' /\ RequestType'
          /\ AssetType' /\ ProcessType' /\ BudgetType'
       BY <1>1 DEF TypeOK, ProjectType, StateType, CleanupType, LeaseType, RequestType,
          AssetType, ProcessType, BudgetType, DuringTask, assetVars,
          requestVars, TaskError
  <2>3. KillType'
       BY <1>1, KillEndedType DEF TypeOK, TaskError
  <2> QED BY <2>1, <2>2, <2>3 DEF TypeOK
<1>2. CASE StartCoordinator(r)
  <2>1. StateType'
       BY <1>2 DEF TypeOK, StateType, States, Live, StartCoordinator
  <2>2. TaskType'
       BY <1>2, GotoType DEF TypeOK, Places, StartCoordinator
  <2>3. ProjectType' /\ CleanupType' /\ LeaseType' /\ RequestType' /\ AssetType'
          /\ ProcessType' /\ KillType' /\ BudgetType'
       BY <1>2 DEF TypeOK, ProjectType, CleanupType, LeaseType, RequestType, AssetType,
          ProcessType, KillType, BudgetType, DuringTask, assetVars, requestVars,
          StartCoordinator
  <2> QED BY <2>1, <2>2, <2>3 DEF TypeOK
<1>3. CASE SubmitPlan(r)
  <2>1. StateType'
       BY <1>3 DEF TypeOK, StateType, States, Live, SubmitPlan
  <2>2. TaskType'
       BY <1>3, GotoType DEF TypeOK, Places, SubmitPlan
  <2>3. ProjectType' /\ CleanupType' /\ LeaseType' /\ RequestType' /\ AssetType'
          /\ ProcessType' /\ KillType' /\ BudgetType'
       BY <1>3 DEF TypeOK, ProjectType, CleanupType, LeaseType, RequestType, AssetType,
          ProcessType, KillType, BudgetType, DuringTask, assetVars, requestVars,
          SubmitPlan
  <2> QED BY <2>1, <2>2, <2>3 DEF TypeOK
<1>4. CASE RequestClarification(r)
  <2>1. ProjectType' /\ StateType' /\ CleanupType'
       BY <1>4, EndRunType DEF TypeOK, States, Terminal, Live, Cleanups, ProjectType,
          StateType, CleanupType, DuringTask, RequestClarification
  <2>2. LeaseType'
       BY <1>4, ReleaseLeaseType DEF TypeOK, RequestClarification
  <2>3. TaskType'
       BY <1>4, GotoType DEF TypeOK, Places, RequestClarification
  <2>4. RequestType' /\ AssetType' /\ ProcessType' /\ KillType' /\ BudgetType'
       BY <1>4 DEF TypeOK, RequestType, AssetType, ProcessType, KillType, BudgetType,
          DuringTask, assetVars, requestVars, RequestClarification
  <2> QED BY <2>1, <2>2, <2>3, <2>4 DEF TypeOK
<1>5. CASE StartBuilder(r)
  <2>1. StateType'
       BY <1>5 DEF TypeOK, StateType, States, Live, StartBuilder
  <2>2. RequestType'
       BY <1>5, BoundsAssumption DEF TypeOK, RequestType, Attempts, DuringTask,
          requestVars, StartBuilder
  <2>3. TaskType'
       BY <1>5, GotoType DEF TypeOK, Places, StartBuilder
  <2>4. ProjectType' /\ CleanupType' /\ LeaseType' /\ AssetType' /\ ProcessType'
          /\ KillType' /\ BudgetType'
       BY <1>5 DEF TypeOK, ProjectType, CleanupType, LeaseType, AssetType, ProcessType,
          KillType, BudgetType, DuringTask, assetVars, requestVars, StartBuilder
  <2> QED BY <2>1, <2>2, <2>3, <2>4 DEF TypeOK
<1>6. CASE CreateSandbox(r)
  <2>1. AssetType'
       BY <1>6, CandType DEF TypeOK, AssetType, CreateSandbox
  <2>2. TaskType'
       BY <1>6, GotoType DEF TypeOK, TaskType, Tasks, Places, Outcomes, CreateSandbox
  <2>3. BudgetType'
       BY <1>6, SpendType DEF TypeOK, BudgetType, CreateSandbox
  <2>4. ProjectType' /\ StateType' /\ CleanupType' /\ LeaseType' /\ RequestType'
          /\ ProcessType' /\ KillType'
       BY <1>6 DEF TypeOK, ProjectType, StateType, CleanupType, LeaseType, RequestType,
          ProcessType, KillType, DuringTask, requestVars, CreateSandbox
  <2> QED BY <2>1, <2>2, <2>3, <2>4 DEF TypeOK
<1>7. CASE RegisterSandbox(r)
  <2>1. AssetType'
       BY <1>7, CandType DEF TypeOK, AssetType, RowStates, RegisterSandbox
  <2>2. TaskType'
       BY <1>7, GotoType DEF TypeOK, TaskType, Tasks, Places, Outcomes, RegisterSandbox
  <2>3. ProjectType' /\ StateType' /\ CleanupType' /\ LeaseType' /\ RequestType'
          /\ ProcessType' /\ KillType' /\ BudgetType'
       BY <1>7 DEF TypeOK, ProjectType, StateType, CleanupType, LeaseType, RequestType,
          ProcessType, KillType, BudgetType, DuringTask, requestVars,
          RegisterSandbox
  <2> QED BY <2>1, <2>2, <2>3 DEF TypeOK
<1>8. CASE Build(r)
  <2>1. TaskType'
       BY <1>8, GotoType DEF TypeOK, TaskType, Tasks, Places, Outcomes, Build
  <2>2. ProjectType' /\ StateType' /\ CleanupType' /\ LeaseType' /\ RequestType'
          /\ AssetType' /\ ProcessType' /\ KillType' /\ BudgetType'
       BY <1>8 DEF TypeOK, ProjectType, StateType, CleanupType, LeaseType, RequestType,
          AssetType, ProcessType, KillType, BudgetType, DuringTask, assetVars,
          requestVars, Build
  <2> QED BY <2>1, <2>2 DEF TypeOK
<1>9. CASE Unwind(r)
  <2>1. AssetType'
       BY <1>9, CandType DEF TypeOK, AssetType, Unwind
  <2>2. TaskType'
       BY <1>9 DEF TypeOK, TaskType, Tasks, Places, Signals, Outcomes, Unwind
  <2>3. BudgetType'
       BY <1>9, SpendType DEF TypeOK, BudgetType, Unwind
  <2>4. ProjectType' /\ StateType' /\ CleanupType' /\ LeaseType' /\ RequestType'
          /\ ProcessType' /\ KillType'
       BY <1>9 DEF TypeOK, ProjectType, StateType, CleanupType, LeaseType, RequestType,
          ProcessType, KillType, DuringTask, requestVars, Unwind
  <2> QED BY <2>1, <2>2, <2>3, <2>4 DEF TypeOK
<1>10. CASE UnwindCallback(r)
  <2>1. CleanupType'
       BY <1>10 DEF TypeOK, CleanupType, Cleanups, UnwindCallback
  <2>2. AssetType'
       BY <1>10, CandType DEF TypeOK, AssetType, RowStates, UnwindCallback
  <2>3. TaskType'
       BY <1>10, GotoType DEF TypeOK, Places, UnwindCallback
  <2>4. ProjectType' /\ StateType' /\ LeaseType' /\ RequestType' /\ ProcessType'
          /\ KillType' /\ BudgetType'
       BY <1>10 DEF TypeOK, ProjectType, StateType, LeaseType, RequestType,
          ProcessType, KillType, BudgetType, DuringTask, requestVars,
          UnwindCallback
  <2> QED BY <2>1, <2>2, <2>3, <2>4 DEF TypeOK
<1>11. CASE HandleResult(r)
  <2>1. ProjectType' /\ StateType' /\ CleanupType'
       BY <1>11, FinishFailedType, ConfirmedType DEF TypeOK, States, Terminal, Live,
          Cleanups, ProjectType, StateType, CleanupType, DuringTask, HandleResult
  <2>2. AssetType'
       BY <1>11, CandType DEF TypeOK, AssetType, Revisions, HandleResult
  <2>3. TaskType'
       BY <1>11, GotoType DEF TypeOK, Places, HandleResult
  <2>4. LeaseType' /\ RequestType' /\ ProcessType' /\ KillType' /\ BudgetType'
       BY <1>11 DEF TypeOK, LeaseType, RequestType, ProcessType, KillType, BudgetType,
          DuringTask, requestVars, HandleResult
  <2> QED BY <2>1, <2>2, <2>3, <2>4 DEF TypeOK
<1>12. CASE FinishBuildFailure(r)
  <2>1. ProjectType' /\ StateType' /\ CleanupType'
       BY <1>12, FinishFailedType DEF TypeOK, States, Terminal, Live, Cleanups,
          ProjectType, StateType, CleanupType, DuringTask, FinishBuildFailure
  <2>2. LeaseType'
       BY <1>12, ReleaseLeaseType DEF TypeOK, LeaseType, FinishBuildFailure
  <2>3. TaskType'
       BY <1>12, GotoType DEF TypeOK, Places, FinishBuildFailure
  <2>4. RequestType' /\ AssetType' /\ ProcessType' /\ KillType' /\ BudgetType'
       BY <1>12 DEF TypeOK, RequestType, AssetType, ProcessType, KillType, BudgetType,
          DuringTask, assetVars, requestVars, FinishBuildFailure
  <2> QED BY <2>1, <2>2, <2>3, <2>4 DEF TypeOK
<1>13. CASE SaveCandidate(r)
  <2>1. AssetType'
       BY <1>13, CandType DEF TypeOK, AssetType, Revisions, SaveCandidate
  <2>2. TaskType'
       BY <1>13, GotoType DEF TypeOK, Places, SaveCandidate
  <2>3. ProjectType' /\ StateType' /\ CleanupType' /\ LeaseType' /\ RequestType'
          /\ ProcessType' /\ KillType' /\ BudgetType'
       BY <1>13 DEF TypeOK, ProjectType, StateType, CleanupType, LeaseType,
          RequestType, ProcessType, KillType, BudgetType, DuringTask, requestVars,
          SaveCandidate
  <2> QED BY <2>1, <2>2, <2>3 DEF TypeOK
<1>14. CASE QueueReviewer(r)
  <2>1. AssetType'
       BY <1>14, CandType DEF TypeOK, AssetType, RowStates, QueueReviewer
  <2>2. StateType'
       BY <1>14 DEF TypeOK, StateType, States, Live, QueueReviewer
  <2>3. TaskType'
       BY <1>14, GotoType DEF TypeOK, Places, QueueReviewer
  <2>4. ProjectType' /\ CleanupType' /\ LeaseType' /\ RequestType' /\ ProcessType'
          /\ KillType' /\ BudgetType'
       BY <1>14 DEF TypeOK, ProjectType, CleanupType, LeaseType, RequestType,
          ProcessType, KillType, BudgetType, DuringTask, requestVars,
          QueueReviewer
  <2> QED BY <2>1, <2>2, <2>3, <2>4 DEF TypeOK
<1>15. CASE ReleaseRejected(r)
  <2>1. KillType'
       BY <1>15, KillEndedType DEF TypeOK, ReleaseRejected
  <2>2. TaskType'
       BY <1>15, GotoType DEF TypeOK, Places, ReleaseRejected
  <2>3. ProjectType' /\ StateType' /\ CleanupType' /\ LeaseType' /\ RequestType'
          /\ AssetType' /\ ProcessType' /\ BudgetType'
       BY <1>15 DEF TypeOK, ProjectType, StateType, CleanupType, LeaseType,
          RequestType, AssetType, ProcessType, BudgetType, DuringTask, assetVars,
          requestVars, ReleaseRejected
  <2> QED BY <2>1, <2>2, <2>3 DEF TypeOK
<1>16. CASE PrepareRepair(r)
  <2>1. ProjectType' /\ StateType' /\ CleanupType'
       BY <1>16, FinishFailedType DEF TypeOK, States, Terminal, Live, Cleanups,
          ProjectType, StateType, CleanupType, DuringTask, PrepareRepair
  <2>2. TaskType'
       BY <1>16, GotoType DEF TypeOK, Places, PrepareRepair
  <2>3. KillType'
       BY <1>16, KillEndedType DEF TypeOK, PrepareRepair
  <2>4. LeaseType' /\ RequestType' /\ AssetType' /\ ProcessType' /\ BudgetType'
       BY <1>16 DEF TypeOK, LeaseType, RequestType, AssetType, ProcessType, BudgetType,
          DuringTask, assetVars, requestVars, PrepareRepair
  <2> QED BY <2>1, <2>2, <2>3, <2>4 DEF TypeOK
<1>17. CASE Reconcile(r)
  <2>1. TaskType'
       BY <1>17, ReconcileType
  <2>2. BudgetType'
       BY <1>17, SpendType DEF TypeOK, BudgetType, Reconcile
  <2>3. ProjectType' /\ StateType' /\ CleanupType' /\ LeaseType' /\ RequestType'
          /\ AssetType' /\ ProcessType' /\ KillType'
       BY <1>17 DEF TypeOK, ProjectType, StateType, CleanupType, LeaseType,
          RequestType, AssetType, ProcessType, KillType, DuringTask, assetVars,
          requestVars, Reconcile
  <2> QED BY <2>1, <2>2, <2>3 DEF TypeOK
<1>18. CASE EndTask(r)
  <2>1. ProjectType' /\ StateType' /\ CleanupType'
       BY <1>18, FinishFailedType, FinishCancelledType, ConfirmedType DEF TypeOK,
          States, Terminal, Live, Cleanups, EndByCatch, ProjectType, StateType,
          CleanupType, DuringTask, EndTask
  <2>2. TaskType'
       BY <1>18, GotoType, NotedType DEF TypeOK, Places, EndTask
  <2>3. BudgetType'
       BY <1>18, SpendType DEF TypeOK, BudgetType, EndTask
  <2>4. KillType'
       BY <1>18, KillEndedType DEF TypeOK, EndTask
  <2>5. LeaseType' /\ RequestType' /\ AssetType' /\ ProcessType'
       BY <1>18 DEF TypeOK, LeaseType, RequestType, AssetType, ProcessType, DuringTask,
          assetVars, requestVars, EndTask
  <2> QED BY <2>1, <2>2, <2>3, <2>4, <2>5 DEF TypeOK
<1>19. CASE FinishTask(r)
  <2>1. LeaseType'
       BY <1>19, ReleaseLeaseType DEF TypeOK, LeaseType, FinishTask
  <2>2. KillType'
       BY <1>19, KillEndedType DEF TypeOK, FinishTask
  <2>3. TaskType'
    <3>1. CASE task' = [task EXCEPT ![r] = NoTask]
      BY <3>1, NoTaskType DEF TypeOK, TaskType
    <3>2. CASE Goto(r, "settle")
      BY <3>2, GotoType DEF TypeOK, Places
    <3> QED BY <1>19, <3>1, <3>2 DEF FinishTask
  <2>4. BudgetType'
       BY <1>19, SpendType DEF TypeOK, BudgetType, FinishTask
  <2>5. ProjectType' /\ StateType' /\ CleanupType' /\ RequestType' /\ AssetType'
          /\ ProcessType'
       BY <1>19 DEF TypeOK, ProjectType, StateType, CleanupType, RequestType,
          AssetType, ProcessType, DuringTask, assetVars, requestVars, FinishTask
  <2> QED BY <2>1, <2>2, <2>3, <2>4, <2>5 DEF TypeOK
<1>20. CASE Settle(r)
  <2>1. ProjectType' /\ StateType' /\ CleanupType'
       BY <1>20, EndRunType, FinishFailedType, FinishCancelledType, ConfirmedType DEF
          TypeOK, States, Terminal, Live, Cleanups, StateType, ProjectType,
          CleanupType, DuringTask, Settle
  <2>2. LeaseType'
       BY <1>20, ReleaseLeaseType DEF TypeOK, Settle
  <2>3. KillType'
       BY <1>20, KillEndedType DEF TypeOK, Settle
  <2>4. TaskType'
       BY <1>20, NoTaskType DEF TypeOK, TaskType, Settle
  <2>5. RequestType' /\ AssetType' /\ ProcessType' /\ BudgetType'
       BY <1>20 DEF TypeOK, RequestType, AssetType, ProcessType, BudgetType,
          DuringTask, assetVars, requestVars, Settle
  <2> QED BY <2>1, <2>2, <2>3, <2>4, <2>5 DEF TypeOK
<1>21. CASE TaskDestroy(r)
  <2>1. AssetType'
       BY <1>21, CandType DEF TypeOK, BeginKill, AssetType, assetVars, TaskDestroy
  <2>2. KillType'
       BY <1>21, CandType DEF TypeOK, BeginKill, KillType, Destroyers, Stages,
          TaskDestroy
  <2>3. ProjectType' /\ StateType' /\ CleanupType' /\ LeaseType' /\ RequestType'
          /\ ProcessType' /\ TaskType' /\ BudgetType'
       BY <1>21 DEF TypeOK, ProjectType, StateType, CleanupType, LeaseType,
          RequestType, ProcessType, TaskType, BudgetType, DuringKill, assetVars,
          requestVars, TaskDestroy, BeginKill
  <2> QED BY <2>1, <2>2, <2>3 DEF TypeOK
<1>22. CASE \E verdict \in {"passed", "failed", "blocked"} : FinishReview(r, verdict)
     BY <1>22, FinishReviewType
<1> QED BY <1>1, <1>2, <1>3, <1>4, <1>5, <1>6, <1>7, <1>8, <1>9, <1>10, <1>11,
        <1>12, <1>13, <1>14, <1>15, <1>16, <1>17, <1>18, <1>19, <1>20, <1>21,
        <1>22 DEF TaskStep

\* A destroy keeps the types.
LEMMA DestroyType == ASSUME TypeOK, NEW d \in Destroyers, DestroyStep(d) PROVE TypeOK'
<1>1. CASE KillRemote(d)
  <2>1. AssetType'
       BY <1>1, KillCandType DEF TypeOK, AssetType, KillRemote
  <2>2. KillType'
       BY <1>1, NextStageType DEF TypeOK, Stages, KillRemote
  <2>3. BudgetType'
       BY <1>1, SpendType DEF TypeOK, BudgetType, KillRemote
  <2>4. ProjectType' /\ StateType' /\ CleanupType' /\ LeaseType' /\ RequestType'
          /\ ProcessType' /\ TaskType'
       BY <1>1 DEF TypeOK, ProjectType, StateType, CleanupType, LeaseType, RequestType,
          ProcessType, TaskType, DuringKill, requestVars, KillRemote
  <2> QED BY <2>1, <2>2, <2>3, <2>4 DEF TypeOK
<1>2. CASE MarkDestroyed(d)
  <2>1. AssetType'
       BY <1>2, KillCandType DEF TypeOK, AssetType, RowStates, MarkDestroyed
  <2>2. KillType'
       BY <1>2, NextStageType, AnswerType DEF TypeOK, Stages, MarkDestroyed
  <2>3. ProjectType' /\ StateType' /\ CleanupType' /\ LeaseType' /\ RequestType'
          /\ ProcessType' /\ TaskType' /\ BudgetType'
       BY <1>2 DEF TypeOK, ProjectType, StateType, CleanupType, LeaseType, RequestType,
          ProcessType, TaskType, BudgetType, DuringKill, requestVars,
          MarkDestroyed
  <2> QED BY <2>1, <2>2, <2>3 DEF TypeOK
<1>3. CASE ConfirmCleanup(d)
  <2>1. ProjectType' /\ StateType' /\ CleanupType'
       BY <1>3, EndRunType, KillCandType DEF TypeOK, States, Terminal, Live, Cleanups,
          StateType, ProjectType, CleanupType, DuringKill, ConfirmCleanup
  <2>2. AssetType'
       BY <1>3 DEF TypeOK, AssetType, assetVars, ConfirmCleanup
  <2>3. KillType'
       BY <1>3, AnswerType DEF TypeOK, Stages, ConfirmCleanup
  <2>4. LeaseType' /\ RequestType' /\ ProcessType' /\ TaskType' /\ BudgetType'
       BY <1>3 DEF TypeOK, LeaseType, RequestType, ProcessType, TaskType, BudgetType,
          DuringKill, assetVars, requestVars, ConfirmCleanup
  <2> QED BY <2>1, <2>2, <2>3, <2>4 DEF TypeOK
<1>4. CASE MarkCleanupPending(d)
  <2>1. CleanupType'
       BY <1>4, KillCandType DEF TypeOK, CleanupType, Cleanups, MarkCleanupPending
  <2>2. KillType'
       BY <1>4, AnswerType DEF TypeOK, Stages, MarkCleanupPending
  <2>3. ProjectType' /\ StateType' /\ LeaseType' /\ RequestType' /\ AssetType' /\
          ProcessType' /\ TaskType' /\ BudgetType'
       BY <1>4 DEF TypeOK, ProjectType, StateType, LeaseType, RequestType, AssetType,
          ProcessType, TaskType, BudgetType, DuringKill, assetVars, requestVars,
          MarkCleanupPending
  <2> QED BY <2>1, <2>2, <2>3 DEF TypeOK
<1> QED BY <1>1, <1>2, <1>3, <1>4 DEF DestroyStep

\* A stop request keeps the types.
LEMMA CancelType == ASSUME TypeOK, NEW r \in Runs, CancelStep(r) PROVE TypeOK'
<1>1. CASE DispatchCancel(r)
  <2>1. ProcessType'
       BY <1>1 DEF TypeOK, ProcessType, DispatchCancel
  <2>2. TaskType'
       BY <1>1 DEF TypeOK, TaskType, Tasks, Places, Signals, Outcomes, DispatchCancel
  <2>3. ProjectType' /\ StateType' /\ CleanupType' /\ LeaseType' /\ RequestType'
          /\ AssetType' /\ KillType' /\ BudgetType'
       BY <1>1 DEF TypeOK, ProjectType, StateType, CleanupType, LeaseType, RequestType,
          AssetType, KillType, BudgetType, assetVars, boundVars, projectVars,
          requestVars, DispatchCancel
  <2> QED BY <2>1, <2>2, <2>3 DEF TypeOK
<1>2. CASE ReadForCancel(r)
  <2>1. ProcessType'
       BY <1>2 DEF TypeOK, ProcessType, ReadForCancel
  <2>2. ProjectType' /\ StateType' /\ CleanupType' /\ LeaseType' /\ RequestType'
          /\ AssetType' /\ TaskType' /\ KillType' /\ BudgetType'
       BY <1>2 DEF TypeOK, ProjectType, StateType, CleanupType, LeaseType, RequestType,
          AssetType, TaskType, KillType, BudgetType, assetVars, boundVars,
          projectVars, requestVars, ReadForCancel
  <2> QED BY <2>1, <2>2 DEF TypeOK
<1>3. CASE WriteCancelled(r)
  <2>1. ProjectType' /\ StateType' /\ CleanupType'
       BY <1>3, EndRunType DEF TypeOK, States, Terminal, Live, Cleanups, ProjectType,
          StateType, CleanupType, boundVars, WriteCancelled
  <2>2. ProcessType'
       BY <1>3 DEF TypeOK, ProcessType, WriteCancelled
  <2>3. LeaseType' /\ RequestType' /\ AssetType' /\ TaskType' /\ KillType' /\
          BudgetType'
       BY <1>3 DEF TypeOK, LeaseType, RequestType, AssetType, TaskType, KillType,
          BudgetType, assetVars, boundVars, requestVars, WriteCancelled
  <2> QED BY <2>1, <2>2, <2>3 DEF TypeOK
<1> QED BY <1>1, <1>2, <1>3 DEF CancelStep

\* The other steps of a run keep the types.
LEMMA RunStepType ==
    ASSUME TypeOK, NEW r \in Runs, NEW chosen \in BOOLEAN,
           Accept(r, chosen) \/ RequestCancel(r) \/ RunTimeout(r) \/ AbortKill(r)
           \/ SettleRecoveredRun(r)
    PROVE  TypeOK'
<1>1. CASE Accept(r, chosen)
  <2>1. StateType'
       BY <1>1 DEF TypeOK, StateType, States, Accept
  <2>2. RequestType'
       BY <1>1 DEF TypeOK, RequestType, ProjectType, processVars, Accept
  <2>3. LeaseType'
       BY <1>1 DEF TypeOK, LeaseType, Accept
  <2>4. ProjectType' /\ CleanupType' /\ AssetType' /\ ProcessType' /\ TaskType' /\
          KillType' /\ BudgetType'
       BY <1>1 DEF TypeOK, ProjectType, CleanupType, AssetType, ProcessType, TaskType,
          KillType, BudgetType, assetVars, boundVars, processVars, projectVars,
          Accept
  <2> QED BY <2>1, <2>2, <2>3, <2>4 DEF TypeOK
<1>2. CASE RequestCancel(r)
  <2>1. ProjectType' /\ StateType' /\ CleanupType'
       BY <1>2, EndRunType DEF TypeOK, States, Terminal, Live, Cleanups, ProjectType,
          StateType, CleanupType, RequestCancel
  <2>2. LeaseType'
       BY <1>2, ReleaseLeaseType DEF TypeOK, LeaseType, RequestCancel
  <2>3. ProcessType'
       BY <1>2 DEF TypeOK, ProcessType, RequestCancel
  <2>4. BudgetType'
       BY <1>2, SpendType DEF TypeOK, RequestCancel
  <2>5. RequestType' /\ AssetType' /\ TaskType' /\ KillType'
       BY <1>2 DEF TypeOK, RequestType, AssetType, TaskType, KillType, assetVars,
          requestVars, RequestCancel
  <2> QED BY <2>1, <2>2, <2>3, <2>4, <2>5 DEF TypeOK
<1>3. CASE RunTimeout(r)
  <2>1. TaskType'
       BY <1>3 DEF TypeOK, TaskType, Tasks, Places, Signals, Outcomes, RunTimeout
  <2>2. BudgetType'
       BY <1>3, SpendType DEF TypeOK, RunTimeout
  <2>3. ProjectType' /\ StateType' /\ CleanupType' /\ LeaseType' /\ RequestType'
          /\ AssetType' /\ ProcessType' /\ KillType'
       BY <1>3 DEF TypeOK, ProjectType, StateType, CleanupType, LeaseType, RequestType,
          AssetType, ProcessType, KillType, assetVars, projectVars, requestVars,
          RunTimeout
  <2> QED BY <2>1, <2>2, <2>3 DEF TypeOK
<1>4. CASE AbortKill(r)
  <2>1. AssetType'
       BY <1>4, CandType DEF TypeOK, AssetType, processVars, AbortKill
  <2>2. ProjectType' /\ StateType' /\ CleanupType' /\ LeaseType' /\ RequestType'
          /\ ProcessType' /\ TaskType' /\ KillType' /\ BudgetType'
       BY <1>4 DEF TypeOK, ProjectType, StateType, CleanupType, LeaseType, RequestType,
          ProcessType, TaskType, KillType, BudgetType, boundVars, processVars,
          projectVars, requestVars, AbortKill
  <2> QED BY <2>1, <2>2 DEF TypeOK
<1>5. CASE SettleRecoveredRun(r)
  <2>1. ProjectType' /\ StateType' /\ CleanupType'
       BY <1>5, EndRunType DEF TypeOK, States, Terminal, Live, Cleanups, StateType,
          ProjectType, CleanupType, boundVars, SettleRecoveredRun
  <2>2. AssetType'
       BY <1>5 DEF TypeOK, AssetType, RowStates, processVars, SettleRecoveredRun
  <2>3. LeaseType' /\ RequestType' /\ ProcessType' /\ TaskType' /\ KillType' /\
          BudgetType'
       BY <1>5 DEF TypeOK, LeaseType, RequestType, ProcessType, TaskType, KillType,
          BudgetType, boundVars, processVars, requestVars, SettleRecoveredRun
  <2> QED BY <2>1, <2>2, <2>3 DEF TypeOK
<1> QED BY <1>1, <1>2, <1>3, <1>4, <1>5

\* The steps about one sandbox or version keep the types.
LEMMA CandidateStepType ==
    ASSUME TypeOK, NEW c \in Candidates,
           SweepDestroy(c) \/ RecoverKill(c) \/ RemoteExpire(c) \/ BeginRollback(c)
    PROVE  TypeOK'
<1>1. CASE SweepDestroy(c)
  <2>1. AssetType'
       BY <1>1 DEF TypeOK, BeginKill, AssetType, assetVars, SweepDestroy
  <2>2. KillType'
       BY <1>1 DEF TypeOK, BeginKill, KillType, Destroyers, Stages, SweepDestroy
  <2>3. ProjectType' /\ StateType' /\ CleanupType' /\ LeaseType' /\ RequestType'
          /\ ProcessType' /\ TaskType' /\ BudgetType'
       BY <1>1 DEF TypeOK, ProjectType, StateType, CleanupType, LeaseType, RequestType,
          ProcessType, TaskType, BudgetType, DuringKill, assetVars, requestVars,
          SweepDestroy, BeginKill
  <2> QED BY <2>1, <2>2, <2>3 DEF TypeOK
<1>2. CASE RecoverKill(c)
  <2>1. AssetType'
       BY <1>2 DEF TypeOK, AssetType, processVars, RecoverKill
  <2>2. ProjectType' /\ StateType' /\ CleanupType' /\ LeaseType' /\ RequestType'
          /\ ProcessType' /\ TaskType' /\ KillType' /\ BudgetType'
       BY <1>2 DEF TypeOK, ProjectType, StateType, CleanupType, LeaseType, RequestType,
          ProcessType, TaskType, KillType, BudgetType, boundVars, processVars,
          projectVars, requestVars, RecoverKill
  <2> QED BY <2>1, <2>2 DEF TypeOK
<1>3. CASE RemoteExpire(c)
  <2>1. AssetType'
       BY <1>3 DEF TypeOK, AssetType, processVars, RemoteExpire
  <2>2. ProjectType' /\ StateType' /\ CleanupType' /\ LeaseType' /\ RequestType'
          /\ ProcessType' /\ TaskType' /\ KillType' /\ BudgetType'
       BY <1>3 DEF TypeOK, ProjectType, StateType, CleanupType, LeaseType, RequestType,
          ProcessType, TaskType, KillType, BudgetType, boundVars, processVars,
          projectVars, requestVars, RemoteExpire
  <2> QED BY <2>1, <2>2 DEF TypeOK
<1>4. CASE BeginRollback(c)
  <2>1. ProjectType'
       BY <1>4 DEF TypeOK, ProjectType, Versions, BeginRollback
  <2>2. BudgetType'
       BY <1>4, SpendType DEF TypeOK, BeginRollback
  <2>3. StateType' /\ CleanupType' /\ LeaseType' /\ RequestType' /\ AssetType' /\
          ProcessType' /\ TaskType' /\ KillType'
       BY <1>4 DEF TypeOK, StateType, CleanupType, LeaseType, RequestType, AssetType,
          ProcessType, TaskType, KillType, assetVars, processVars, requestVars,
          BeginRollback
  <2> QED BY <2>1, <2>2, <2>3 DEF TypeOK
<1> QED BY <1>1, <1>2, <1>3, <1>4

\* A restart keeps the types.
LEMMA RestartType == ASSUME TypeOK, Restart PROVE TypeOK'
<1>1. ProjectType' /\ LeaseType' /\ BudgetType'
     BY DEF TypeOK, ProjectType, LeaseType, BudgetType, Restart, projectVars, boundVars
<1>2. StateType' /\ CleanupType'
     BY DEF TypeOK, StateType, CleanupType, Restart, States, Live, Terminal, Cleanups
<1>3. RequestType' /\ AssetType' /\ ProcessType'
     BY BoundsAssumption DEF TypeOK, RequestType, AssetType, ProcessType, Restart,
        requestVars, assetVars
<1>4. TaskType' /\ KillType'
     BY NoTaskType, NoKillType DEF TaskType, KillType, Restart
<1> QED BY <1>1, <1>2, <1>3, <1>4 DEF TypeOK

\* The end of a rollback keeps the types.
LEMMA EndRollbackType == ASSUME TypeOK, EndRollback PROVE TypeOK'
<1>1. ProjectType'
     BY DEF TypeOK, ProjectType, EndRollback, Versions
<1>2. /\ StateType' /\ CleanupType' /\ LeaseType' /\ RequestType' /\ AssetType'
      /\ ProcessType' /\ TaskType' /\ KillType' /\ BudgetType'
     BY DEF TypeOK, StateType, CleanupType, LeaseType, RequestType, AssetType, ProcessType,
        TaskType, KillType, BudgetType, EndRollback, requestVars, assetVars, processVars
<1> QED BY <1>1, <1>2 DEF TypeOK

\* The initial state has the types.
LEMMA InitType == Init => TypeOK
<1> SUFFICES ASSUME Init PROVE TypeOK
  OBVIOUS
<1>1. ProjectType /\ StateType /\ CleanupType /\ LeaseType
     BY DEF Init, ProjectType, StateType, CleanupType, LeaseType, States, Cleanups, Versions
<1>2. RequestType /\ AssetType /\ ProcessType
     BY BoundsAssumption DEF Init, RequestType, AssetType, ProcessType, Attempts, Versions,
        Revisions, RowStates
<1>3. TaskType /\ KillType
     BY NoTaskType, NoKillType DEF Init, TaskType, KillType
<1>4. BudgetType
     BY BoundsAssumption DEF Init, BudgetType
<1> QED BY <1>1, <1>2, <1>3, <1>4 DEF TypeOK

\* Every step keeps the types.
LEMMA NextType == ASSUME TypeOK, [Next]_vars PROVE TypeOK'
<1>1. ASSUME NEW r \in Runs, NEW chosen \in BOOLEAN,
             Accept(r, chosen) \/ RequestCancel(r) \/ RunTimeout(r) \/ AbortKill(r)
             \/ SettleRecoveredRun(r)
      PROVE  TypeOK'
  BY <1>1, RunStepType
<1>2. ASSUME NEW r \in Runs, DispatchStep(r) \/ TaskStep(r) \/ CancelStep(r) PROVE TypeOK'
  BY <1>2, DispatchType, TaskStepType, CancelType
<1>3. ASSUME NEW d \in Destroyers, DestroyStep(d) PROVE TypeOK'
  BY <1>3, DestroyType
<1>4. ASSUME NEW c \in Candidates,
             SweepDestroy(c) \/ RecoverKill(c) \/ RemoteExpire(c) \/ BeginRollback(c)
      PROVE  TypeOK'
  BY <1>4, CandidateStepType
<1>5. CASE Restart
  BY <1>5, RestartType
<1>6. CASE EndRollback
  BY <1>6, EndRollbackType
<1>7. CASE UNCHANGED vars
  BY <1>7 DEF vars, projectVars, requestVars, assetVars, processVars, boundVars, TypeOK,
     ProjectType, StateType, CleanupType, LeaseType, RequestType, AssetType, ProcessType,
     TaskType, KillType, BudgetType
<1> QED BY <1>1, <1>2, <1>3, <1>4, <1>5, <1>6, <1>7 DEF Next

\* The rows, the sandboxes, the tasks and the destroys stay in their value sets.
THEOREM TypeCorrect == Spec => []TypeOK
BY InitType, NextType, PTL DEF Spec

-----------------------------------------------------------------------------
\* A restart leaves no run of an earlier process alive, so the recovery cannot
\* free a project under a run of this one.
LiveOfThisBoot == \A r \in Runs : state[r] \in Live => boot[r] = bootId
\* A stop request that is still being carried out is for a run that was stopped,
\* or that its own task ended meanwhile: finishCancelled never meets a success.
StopsUnderWay == \A r \in Runs : canceller[r] # "none" =>
                     state[r] \in {"cancel_requested", "cancelled", "failed"}
\* The inductive invariant of the project lock.
LockInv == LockHeld /\ LiveOfThisBoot /\ StopsUnderWay

\* A step that touches neither the states of the runs nor the project's holder.
LEMMA QuietStep ==
    ASSUME LockInv, UNCHANGED <<operation, state, boot, bootId, canceller>>
    PROVE  LockInv' /\ Irreversible
BY DEF LockInv, LockHeld, LiveOfThisBoot, StopsUnderWay, Irreversible

\* A transaction that ends a run frees the project only from that run.
LEMMA EndRunStep ==
    ASSUME TypeOK, LockInv, NEW r \in Runs, NEW s \in Terminal, NEW c, EndRun(r, s, c),
           UNCHANGED <<boot, bootId, canceller>>,
           s # state[r] => state[r] \notin Terminal,
           state[r] = "cancel_requested" \/ canceller[r] # "none"
               => s \in {state[r], "cancelled", "failed"}
    PROVE  LockInv' /\ Irreversible
BY NamesAssumption DEF LockInv, LockHeld, LiveOfThisBoot, StopsUnderWay, Irreversible,
   EndRun, TypeOK, StateType,
   Terminal, Live, Runs

\* A result of an active run that leaves it active.
LEMMA WorkStep ==
    ASSUME TypeOK, LockInv, NEW r \in Runs, Active(r),
           NEW s \in Live \ {"cancel_requested"}, state' = [state EXCEPT ![r] = s],
           UNCHANGED <<operation, boot, bootId, canceller>>
    PROVE  LockInv' /\ Irreversible
BY NamesAssumption DEF LockInv, LockHeld, LiveOfThisBoot, StopsUnderWay, Irreversible,
   Active, TypeOK, StateType, Terminal, Live, Runs

\* A result of an active run that ends it and frees the project.
LEMMA VerdictStep ==
    ASSUME TypeOK, LockInv, NEW r \in Runs, Active(r),
           NEW s \in Terminal, state' = [state EXCEPT ![r] = s], operation' = None,
           UNCHANGED <<boot, bootId, canceller>>
    PROVE  LockInv' /\ Irreversible
BY NamesAssumption DEF LockInv, LockHeld, LiveOfThisBoot, StopsUnderWay, Irreversible,
   Active, TypeOK, StateType, Terminal, Live, Runs

\* finishFailed leaves an ended run alone and ends any other.
LEMMA FinishFailedStep ==
    ASSUME TypeOK, LockInv, NEW r \in Runs, NEW c, FinishFailed(r, c),
           UNCHANGED <<boot, bootId, canceller>>
    PROVE  LockInv' /\ Irreversible
<1>1. CASE state[r] \in Terminal
  BY <1>1, QuietStep DEF FinishFailed
<1>2. CASE state[r] \notin Terminal
  BY <1>2, EndRunStep DEF FinishFailed, Terminal
<1> QED BY <1>1, <1>2

\* finishCancelled in a task does the same.
LEMMA FinishCancelledStep ==
    ASSUME TypeOK, LockInv, NEW r \in Runs, NEW c, FinishCancelled(r, c),
           UNCHANGED <<boot, bootId, canceller>>
    PROVE  LockInv' /\ Irreversible
<1>1. CASE state[r] \in Terminal
  BY <1>1, QuietStep DEF FinishCancelled
<1>2. CASE state[r] \notin Terminal
  BY <1>2, EndRunStep DEF FinishCancelled, Terminal
<1> QED BY <1>1, <1>2

\* The scheduler gives a project that nothing holds to one run.
LEMMA DispatchLock ==
    ASSUME TypeOK, LockInv, NEW r \in Runs, DispatchStep(r)
    PROVE  LockInv' /\ Irreversible
<1>1. CASE ClaimNextQueuedRun(r)
  BY <1>1, NamesAssumption DEF ClaimNextQueuedRun, requestVars, projectVars,
     processVars, LockInv, LockHeld, LiveOfThisBoot, StopsUnderWay, Irreversible,
     Terminal, Live, TypeOK, StateType, RequestType
<1>2. CASE PrepareDispatch(r)
  BY <1>2, QuietStep DEF PrepareDispatch, requestVars, projectVars, processVars
<1>3. CASE ParkDispatch(r)
  BY <1>3, EndRunStep DEF ParkDispatch, ParkClaim, Active, LockInv, StopsUnderWay, Live,
     Terminal, requestVars, projectVars, processVars
<1>4. CASE DispatchError(r)
  BY <1>4, QuietStep DEF DispatchError, requestVars, projectVars, processVars
<1>5. CASE StartTask(r)
  BY <1>5, QuietStep DEF StartTask, requestVars, projectVars, processVars
<1>6. CASE RecoverStrandedClaim(r)
  BY <1>6, EndRunStep DEF RecoverStrandedClaim, ParkClaim, Active, LockInv,
     StopsUnderWay, Live, Terminal, requestVars, projectVars, processVars
<1> QED BY <1>1, <1>2, <1>3, <1>4, <1>5, <1>6 DEF DispatchStep

\* A task ends or moves its own run only.
LEMMA TaskLock ==
    ASSUME TypeOK, LockInv, NEW r \in Runs, TaskStep(r)
    PROVE  LockInv' /\ Irreversible
<1>1. CASE TaskError(r)
  BY <1>1, QuietStep DEF TaskError, requestVars, DuringTask
<1>2. CASE StartCoordinator(r)
  BY <1>2, WorkStep DEF StartCoordinator, requestVars, DuringTask, Live, Terminal
<1>3. CASE SubmitPlan(r)
  BY <1>3, WorkStep DEF SubmitPlan, requestVars, DuringTask, Live, Terminal
<1>4. CASE RequestClarification(r)
  BY <1>4, EndRunStep DEF RequestClarification, ParkClaim, Active, LockInv,
     StopsUnderWay, Live, Terminal, requestVars, DuringTask
<1>5. CASE StartBuilder(r)
  BY <1>5, WorkStep DEF StartBuilder, requestVars, DuringTask, Live, Terminal
<1>6. CASE CreateSandbox(r)
  BY <1>6, QuietStep DEF CreateSandbox, requestVars, DuringTask
<1>7. CASE RegisterSandbox(r)
  BY <1>7, QuietStep DEF RegisterSandbox, requestVars, DuringTask
<1>8. CASE Build(r)
  BY <1>8, QuietStep DEF Build, requestVars, DuringTask
<1>9. CASE Unwind(r)
  BY <1>9, QuietStep DEF Unwind, requestVars, DuringTask
<1>10. CASE UnwindCallback(r)
  BY <1>10, QuietStep DEF UnwindCallback, requestVars, DuringTask
<1>11. CASE HandleResult(r)
  <2>1. CASE FinishFailed(r, Confirmed(task[r].clean))
    BY <1>11, <2>1, FinishFailedStep DEF HandleResult, requestVars, DuringTask
  <2>2. CASE UNCHANGED <<state, operation>>
    BY <1>11, <2>2, QuietStep DEF HandleResult, requestVars, DuringTask
  <2> QED BY <1>11, <2>1, <2>2 DEF HandleResult
<1>12. CASE FinishBuildFailure(r)
  <2>1. CASE FinishFailed(r, "pending")
    BY <1>12, <2>1, FinishFailedStep DEF FinishBuildFailure, requestVars, DuringTask
  <2>2. CASE Active(r) /\ state' = [state EXCEPT ![r] = "repairing"] /\ UNCHANGED operation
    BY <1>12, <2>2, WorkStep DEF FinishBuildFailure, requestVars, DuringTask, Live, Terminal
  <2>3. CASE Active(r) /\ state' = [state EXCEPT ![r] = "needs_changes"] /\ operation' = None
    BY <1>12, <2>3, VerdictStep DEF FinishBuildFailure, requestVars, DuringTask, Live,
       Terminal
  <2> QED BY <1>12, <2>1, <2>2, <2>3 DEF FinishBuildFailure
<1>13. CASE SaveCandidate(r)
  BY <1>13, QuietStep DEF SaveCandidate, requestVars, DuringTask
<1>14. CASE QueueReviewer(r)
  BY <1>14, WorkStep DEF QueueReviewer, requestVars, DuringTask, Live, Terminal
<1>15. CASE ReleaseRejected(r)
  BY <1>15, QuietStep DEF ReleaseRejected, requestVars, DuringTask
<1>16. CASE PrepareRepair(r)
  <2>1. CASE FinishFailed(r, "pending")
    BY <1>16, <2>1, FinishFailedStep DEF PrepareRepair, requestVars, DuringTask
  <2>2. CASE UNCHANGED <<state, operation>>
    BY <1>16, <2>2, QuietStep DEF PrepareRepair, requestVars, DuringTask
  <2> QED BY <1>16, <2>1, <2>2 DEF PrepareRepair
<1>17. CASE Reconcile(r)
  BY <1>17, QuietStep DEF Reconcile, requestVars, DuringTask
<1>18. CASE EndTask(r)
  <2>1. CASE EndByCatch(r)
    BY <1>18, <2>1, FinishFailedStep, FinishCancelledStep DEF EndTask, EndByCatch,
       requestVars, DuringTask
  <2>2. CASE UNCHANGED <<state, operation>>
    BY <1>18, <2>2, QuietStep DEF EndTask, requestVars, DuringTask
  <2> QED BY <1>18, <2>1, <2>2 DEF EndTask
<1>19. CASE FinishTask(r)
  BY <1>19, QuietStep DEF FinishTask, requestVars, DuringTask
<1>20. CASE Settle(r)
  <2> DEFINE c == Confirmed(Cand(r) \notin tracked)
  <2>1. CASE FinishFailed(r, c) \/ FinishCancelled(r, c)
    BY <1>20, <2>1, FinishFailedStep, FinishCancelledStep DEF Settle, requestVars, DuringTask
  <2>2. CASE state[r] \in Terminal /\ EndRun(r, state[r], c)
    BY <1>20, <2>2, EndRunStep DEF Settle, Terminal, requestVars, DuringTask
  <2>3. CASE UNCHANGED <<state, operation>>
    BY <1>20, <2>3, QuietStep DEF Settle, requestVars, DuringTask
  <2> QED BY <1>20, <2>1, <2>2, <2>3 DEF Settle
<1>21. CASE TaskDestroy(r)
  BY <1>21, QuietStep DEF TaskDestroy, BeginKill, requestVars, DuringKill
<1>22. ASSUME NEW verdict, FinishReview(r, verdict) PROVE LockInv' /\ Irreversible
  <2> DEFINE s == Outcome(r, verdict)[1]
  <2>1. s = "repairing" \/ s \in Terminal
    BY DEF Outcome, Terminal
  <2>2. /\ Active(r) /\ state' = [state EXCEPT ![r] = s]
        /\ UNCHANGED <<boot, bootId, canceller>>
    BY <1>22 DEF FinishReview, Reviewable, requestVars
  <2>3. IF s = "repairing" THEN UNCHANGED operation ELSE operation' = None
    BY <1>22 DEF FinishReview
  <2> HIDE DEF s
  <2>4. CASE s = "repairing"
    <3>1. s \in Live \ {"cancel_requested"}
      BY <2>4 DEF Live
    <3> QED BY <2>2, <2>3, <2>4, <3>1, WorkStep
  <2> QED BY <2>1, <2>2, <2>3, <2>4, VerdictStep
<1> QED BY <1>1, <1>2, <1>3, <1>4, <1>5, <1>6, <1>7, <1>8, <1>9, <1>10, <1>11, <1>12,
   <1>13, <1>14, <1>15, <1>16, <1>17, <1>18, <1>19, <1>20, <1>21, <1>22 DEF TaskStep

\* A destroy frees the project only from the run whose sandbox is gone.
LEMMA DestroyLock ==
    ASSUME TypeOK, LockInv, NEW d \in Destroyers, DestroyStep(d)
    PROVE  LockInv' /\ Irreversible
<1>1. CASE KillRemote(d) \/ MarkDestroyed(d) \/ MarkCleanupPending(d)
  BY <1>1, QuietStep DEF KillRemote, MarkDestroyed, MarkCleanupPending, requestVars,
     DuringKill
<1>2. CASE ConfirmCleanup(d)
  <2> DEFINE r == kill[d].cand[1]
  <2>1. r \in Runs
    BY DEF TypeOK, KillType, Candidates
  <2>2. CASE state[r] \in Terminal /\ EndRun(r, state[r], "confirmed")
    BY <1>2, <2>1, <2>2, EndRunStep DEF ConfirmCleanup, Terminal, requestVars, DuringKill
  <2>3. CASE UNCHANGED <<state, operation>>
    BY <1>2, <2>3, QuietStep DEF ConfirmCleanup, requestVars, DuringKill
  <2> QED BY <1>2, <2>2, <2>3 DEF ConfirmCleanup
<1> QED BY <1>1, <1>2 DEF DestroyStep

\* A stop keeps the project until it ended the run.
LEMMA CancelLock ==
    ASSUME TypeOK, LockInv, NEW r \in Runs, RequestCancel(r) \/ CancelStep(r)
    PROVE  LockInv' /\ Irreversible
<1>1. CASE RequestCancel(r)
  <2>1. CASE state[r] = "queued" /\ EndRun(r, "cancelled", "confirmed") /\ UNCHANGED canceller
    BY <1>1, <2>1, EndRunStep DEF RequestCancel, LockInv, StopsUnderWay, Terminal,
       requestVars, projectVars
  <2>2. CASE /\ state[r] \in Live /\ operation = r /\ UNCHANGED operation
             /\ state' = [state EXCEPT ![r] = "cancel_requested"]
             /\ canceller' = [canceller EXCEPT ![r] = "dispatch"]
    BY <1>1, <2>2 DEF RequestCancel, requestVars, projectVars, LockInv, LockHeld,
       LiveOfThisBoot, StopsUnderWay, Irreversible, Terminal, Live, TypeOK, StateType,
       ProcessType
  <2> QED BY <1>1, <2>1, <2>2 DEF RequestCancel
<1>2. CASE DispatchCancel(r) \/ ReadForCancel(r)
  <2>1. canceller[r] # "none" /\ UNCHANGED <<state, operation, boot, bootId>>
    BY <1>2 DEF DispatchCancel, ReadForCancel, requestVars, projectVars
  <2>2. \E p : canceller' = [canceller EXCEPT ![r] = p]
    BY <1>2 DEF DispatchCancel, ReadForCancel
  <2> QED BY <2>1, <2>2 DEF LockInv, LockHeld, LiveOfThisBoot, StopsUnderWay,
     Irreversible, TypeOK, ProcessType
<1>3. CASE WriteCancelled(r)
  BY <1>3 DEF WriteCancelled, EndRun, requestVars, projectVars, LockInv, LockHeld,
     LiveOfThisBoot, StopsUnderWay, Irreversible, Terminal, Live, TypeOK, StateType,
     ProcessType
<1> QED BY <1>1, <1>2, <1>3 DEF CancelStep

\* No other step takes the project from a run that is alive.
LEMMA OtherLock ==
    ASSUME TypeOK, LockInv, NEW r \in Runs, NEW c \in Candidates, NEW chosen \in BOOLEAN,
           \/ Accept(r, chosen) \/ RunTimeout(r) \/ AbortKill(r) \/ SettleRecoveredRun(r)
           \/ SweepDestroy(c) \/ RecoverKill(c) \/ RemoteExpire(c) \/ BeginRollback(c)
           \/ Restart \/ EndRollback
    PROVE  LockInv' /\ Irreversible
<1>1. CASE Accept(r, chosen)
  BY <1>1 DEF Accept, requestVars, projectVars, processVars, LockInv, LockHeld,
     LiveOfThisBoot, StopsUnderWay, Irreversible, Terminal, Live, TypeOK, StateType,
     RequestType
<1>2. CASE \/ RunTimeout(r) \/ AbortKill(r) \/ SweepDestroy(c)
           \/ RecoverKill(c) \/ RemoteExpire(c)
  BY <1>2, QuietStep DEF RunTimeout, AbortKill, SweepDestroy, BeginKill, RecoverKill,
     RemoteExpire, DuringKill, requestVars, projectVars, processVars
<1>3. CASE SettleRecoveredRun(r)
  <2>1. state[r] \notin Live /\ EndRun(r, state[r], "confirmed")
       /\ UNCHANGED <<boot, bootId, canceller>>
    BY <1>3 DEF SettleRecoveredRun, Stale, LockInv, LiveOfThisBoot, requestVars,
       projectVars, processVars
  <2> QED BY <2>1, NamesAssumption DEF LockInv, LockHeld, LiveOfThisBoot, StopsUnderWay,
     Irreversible, EndRun, TypeOK, StateType
<1>4. CASE BeginRollback(c)
  BY <1>4, NamesAssumption DEF BeginRollback, requestVars, projectVars, processVars,
     LockInv, LockHeld, LiveOfThisBoot, StopsUnderWay, Irreversible
<1>5. CASE Restart
  BY <1>5 DEF Restart, LockInv, LockHeld, LiveOfThisBoot, StopsUnderWay, Irreversible,
     Terminal, Live
<1>6. CASE EndRollback
  BY <1>6, NamesAssumption DEF EndRollback, requestVars, projectVars, processVars,
     LockInv, LockHeld, LiveOfThisBoot, StopsUnderWay, Irreversible
<1> QED BY <1>1, <1>2, <1>3, <1>4, <1>5, <1>6

-----------------------------------------------------------------------------

\* No run is alive, and no stop is under way, at the start.
LEMMA InitLock == Init => LockInv
BY DEF Init, LockInv, LockHeld, LiveOfThisBoot, StopsUnderWay, Live

\* Every step keeps the lock and reverts no outcome.
LEMMA NextLock == ASSUME TypeOK, LockInv, [Next]_vars PROVE LockInv' /\ Irreversible
<1>1. ASSUME NEW r \in Runs, NEW c \in Candidates, NEW chosen \in BOOLEAN,
             \/ Accept(r, chosen) \/ RunTimeout(r) \/ AbortKill(r) \/ SettleRecoveredRun(r)
             \/ SweepDestroy(c) \/ RecoverKill(c) \/ RemoteExpire(c) \/ BeginRollback(c)
             \/ Restart \/ EndRollback
      PROVE  LockInv' /\ Irreversible
  BY <1>1, OtherLock
<1>2. ASSUME NEW r \in Runs,
             DispatchStep(r) \/ TaskStep(r) \/ RequestCancel(r) \/ CancelStep(r)
      PROVE  LockInv' /\ Irreversible
  BY <1>2, DispatchLock, TaskLock, CancelLock
<1>3. ASSUME NEW d \in Destroyers, DestroyStep(d) PROVE LockInv' /\ Irreversible
  BY <1>3, DestroyLock
<1>4. CASE UNCHANGED vars
  BY <1>4, QuietStep DEF vars, projectVars, requestVars, processVars
<1> QED BY <1>1, <1>2, <1>3, <1>4, SomeCandidate DEF Next

\* A run that is under way holds its project, whatever stops, sweeps, recoveries,
\* restarts and rollbacks happen around it: one generation at a time.
THEOREM ProjectLockHeld == Spec => []LockHeld
<1>1. LockInv => LockHeld
  BY DEF LockInv
<1> QED BY <1>1, TypeCorrect, InitLock, NextLock, PTL DEF Spec

\* No late result, settlement or sweep turns a stop into work or success, and a
\* completed run stays completed.
THEOREM OutcomesIrreversible == Spec => NoReversal
<1> QED BY TypeCorrect, InitLock, NextLock, PTL DEF Spec, NoReversal

-----------------------------------------------------------------------------
(* The base of a run.                                                        *)

\* Results of run r can be accepted, now or once its task starts.
Based(r) == /\ state[r] \in Live \ {"cancel_requested"}
            /\ state[r] = "accepted" => dispatch[r] = "start" \/ ~At(r, "idle")
BaseOf(r) == /\ Based(r) => expected[r] = current
             /\ state[r] \in {"absent", "queued"} => dispatch[r] = "none" /\ At(r, "idle")
BaseInv == \A r \in Runs : BaseOf(r)

\* A step of a task on a run changes no other run, and no base.
LEMMA TaskStepBase ==
    ASSUME TypeOK, BaseInv, NEW r \in Runs, ~At(r, "idle"),
           UNCHANGED <<current, expected, dispatch>>,
           \A s \in Runs \ {r} : state'[s] = state[s] /\ task'[s] = task[s],
           state'[r] # state[r] => \/ state'[r] \in Terminal
                                   \/ /\ state[r] \in Live \ {"cancel_requested"}
                                      /\ state'[r] \in Live
    PROVE  BaseInv'
<1>1. BaseOf(r)'
  BY DEF BaseInv, BaseOf, Based, At, Terminal, Live
<1>2. \A s \in Runs \ {r} : BaseOf(s)'
  BY DEF BaseInv, BaseOf, Based, At
<1> QED BY <1>1, <1>2 DEF BaseInv

\* A step that starts no task and moves no run leaves the bases as they are.
LEMMA QuietBase ==
    ASSUME BaseInv, UNCHANGED <<current, expected, dispatch, state, task>>
    PROVE  BaseInv'
BY DEF BaseInv, BaseOf, Based, At

\* A run that ends has no base to keep.
LEMMA EndRunBase ==
    ASSUME TypeOK, BaseInv, NEW r \in Runs, NEW s, NEW c, EndRun(r, s, c),
           s \in Terminal \/ s = state[r],
           UNCHANGED <<current, expected, task>>,
           UNCHANGED dispatch \/ dispatch' = [dispatch EXCEPT ![r] = "none"]
    PROVE  BaseInv'
<1>1. BaseOf(r)'
  BY DEF BaseInv, BaseOf, Based, At, Terminal, Live, EndRun, TypeOK, StateType, ProcessType
<1>2. \A q \in Runs \ {r} : BaseOf(q)'
  BY DEF BaseInv, BaseOf, Based, At, EndRun, TypeOK, StateType, ProcessType
<1> QED BY <1>1, <1>2 DEF BaseInv

\* A task keeps the bases of all runs.
LEMMA TaskBase == ASSUME TypeOK, LockInv, BaseInv, NEW r \in Runs, TaskStep(r) PROVE BaseInv'
<1>1. CASE TaskError(r)
  <2>1. ~At(r, "idle")
    BY <1>1 DEF TaskError, At
  <2> QED BY <1>1, <2>1, TaskStepBase DEF TaskError, DuringTask, TypeOK, TaskType
<1>2. CASE StartCoordinator(r)
  <2>1. ~At(r, "idle")
    BY <1>2 DEF StartCoordinator, At
  <2>2. \A s \in Runs \ {r} : state'[s] = state[s] /\ task'[s] = task[s]
    BY <1>2 DEF StartCoordinator, Goto, TypeOK, StateType, TaskType
  <2>3. state'[r] # state[r] => \/ state'[r] \in Terminal
                                \/ /\ state[r] \in Live \ {"cancel_requested"}
                                   /\ state'[r] \in Live
    BY <1>2 DEF StartCoordinator, Active, Live, TypeOK, StateType
  <2> QED BY <1>2, <2>1, <2>2, <2>3, TaskStepBase DEF StartCoordinator, DuringTask
<1>3. CASE SubmitPlan(r)
  <2>1. ~At(r, "idle")
    BY <1>3 DEF SubmitPlan, At
  <2>2. \A s \in Runs \ {r} : state'[s] = state[s] /\ task'[s] = task[s]
    BY <1>3 DEF SubmitPlan, Goto, TypeOK, StateType, TaskType
  <2>3. state'[r] # state[r] => \/ state'[r] \in Terminal
                                \/ /\ state[r] \in Live \ {"cancel_requested"}
                                   /\ state'[r] \in Live
    BY <1>3 DEF SubmitPlan, Active, Live, TypeOK, StateType
  <2> QED BY <1>3, <2>1, <2>2, <2>3, TaskStepBase DEF SubmitPlan, DuringTask
<1>4. CASE RequestClarification(r)
  <2>1. ~At(r, "idle")
    BY <1>4 DEF RequestClarification, At
  <2>2. \A s \in Runs \ {r} : state'[s] = state[s] /\ task'[s] = task[s]
    BY <1>4 DEF RequestClarification, Goto, EndRun, TypeOK, StateType, TaskType
  <2>3. state'[r] # state[r] => \/ state'[r] \in Terminal
                                \/ /\ state[r] \in Live \ {"cancel_requested"}
                                   /\ state'[r] \in Live
    BY <1>4 DEF RequestClarification, EndRun, Terminal, TypeOK, StateType
  <2> QED BY <1>4, <2>1, <2>2, <2>3, TaskStepBase DEF RequestClarification, DuringTask
<1>5. CASE StartBuilder(r)
  <2>1. ~At(r, "idle")
    BY <1>5 DEF StartBuilder, At
  <2>2. \A s \in Runs \ {r} : state'[s] = state[s] /\ task'[s] = task[s]
    BY <1>5 DEF StartBuilder, Goto, TypeOK, StateType, TaskType
  <2>3. state'[r] # state[r] => \/ state'[r] \in Terminal
                                \/ /\ state[r] \in Live \ {"cancel_requested"}
                                   /\ state'[r] \in Live
    BY <1>5 DEF StartBuilder, Active, Live, TypeOK, StateType
  <2> QED BY <1>5, <2>1, <2>2, <2>3, TaskStepBase DEF StartBuilder, DuringTask
<1>6. CASE CreateSandbox(r)
  <2>1. ~At(r, "idle")
    BY <1>6 DEF CreateSandbox, At
  <2>2. \A s \in Runs \ {r} : state'[s] = state[s] /\ task'[s] = task[s]
    BY <1>6 DEF CreateSandbox, Goto, TypeOK, StateType, TaskType
  <2>3. state'[r] # state[r] => \/ state'[r] \in Terminal
                                \/ /\ state[r] \in Live \ {"cancel_requested"}
                                   /\ state'[r] \in Live
    BY <1>6 DEF CreateSandbox
  <2> QED BY <1>6, <2>1, <2>2, <2>3, TaskStepBase DEF CreateSandbox, DuringTask
<1>7. CASE RegisterSandbox(r)
  <2>1. ~At(r, "idle")
    BY <1>7 DEF RegisterSandbox, At
  <2>2. \A s \in Runs \ {r} : state'[s] = state[s] /\ task'[s] = task[s]
    BY <1>7 DEF RegisterSandbox, Goto, TypeOK, StateType, TaskType
  <2>3. state'[r] # state[r] => \/ state'[r] \in Terminal
                                \/ /\ state[r] \in Live \ {"cancel_requested"}
                                   /\ state'[r] \in Live
    BY <1>7 DEF RegisterSandbox
  <2> QED BY <1>7, <2>1, <2>2, <2>3, TaskStepBase DEF RegisterSandbox, DuringTask
<1>8. CASE Build(r)
  <2>1. ~At(r, "idle")
    BY <1>8 DEF Build, At
  <2>2. \A s \in Runs \ {r} : state'[s] = state[s] /\ task'[s] = task[s]
    BY <1>8 DEF Build, Goto, TypeOK, StateType, TaskType
  <2>3. state'[r] # state[r] => \/ state'[r] \in Terminal
                                \/ /\ state[r] \in Live \ {"cancel_requested"}
                                   /\ state'[r] \in Live
    BY <1>8 DEF Build
  <2> QED BY <1>8, <2>1, <2>2, <2>3, TaskStepBase DEF Build, DuringTask
<1>9. CASE Unwind(r)
  <2>1. ~At(r, "idle")
    BY <1>9 DEF Unwind, At
  <2>2. \A s \in Runs \ {r} : state'[s] = state[s] /\ task'[s] = task[s]
    BY <1>9 DEF Unwind, TypeOK, StateType, TaskType
  <2>3. state'[r] # state[r] => \/ state'[r] \in Terminal
                                \/ /\ state[r] \in Live \ {"cancel_requested"}
                                   /\ state'[r] \in Live
    BY <1>9 DEF Unwind
  <2> QED BY <1>9, <2>1, <2>2, <2>3, TaskStepBase DEF Unwind, DuringTask
<1>10. CASE UnwindCallback(r)
  <2>1. ~At(r, "idle")
    BY <1>10 DEF UnwindCallback, At
  <2>2. \A s \in Runs \ {r} : state'[s] = state[s] /\ task'[s] = task[s]
    BY <1>10 DEF UnwindCallback, Goto, TypeOK, StateType, TaskType
  <2>3. state'[r] # state[r] => \/ state'[r] \in Terminal
                                \/ /\ state[r] \in Live \ {"cancel_requested"}
                                   /\ state'[r] \in Live
    BY <1>10 DEF UnwindCallback
  <2> QED BY <1>10, <2>1, <2>2, <2>3, TaskStepBase DEF UnwindCallback, DuringTask
<1>11. CASE HandleResult(r)
  <2>1. ~At(r, "idle")
    BY <1>11 DEF HandleResult, At
  <2>2. \A s \in Runs \ {r} : state'[s] = state[s] /\ task'[s] = task[s]
    BY <1>11 DEF HandleResult, Goto, FinishFailed, EndRun, TypeOK, StateType, TaskType
  <2>3. state'[r] # state[r] => \/ state'[r] \in Terminal
                                \/ /\ state[r] \in Live \ {"cancel_requested"}
                                   /\ state'[r] \in Live
    BY <1>11 DEF HandleResult, FinishFailed, EndRun, Terminal, TypeOK, StateType
  <2> QED BY <1>11, <2>1, <2>2, <2>3, TaskStepBase DEF HandleResult, DuringTask
<1>12. CASE FinishBuildFailure(r)
  <2>1. ~At(r, "idle")
    BY <1>12 DEF FinishBuildFailure, At
  <2>2. \A s \in Runs \ {r} : state'[s] = state[s] /\ task'[s] = task[s]
    BY <1>12 DEF FinishBuildFailure, Goto, FinishFailed, EndRun, TypeOK, StateType, TaskType
  <2>3. state'[r] # state[r] => \/ state'[r] \in Terminal
                                \/ /\ state[r] \in Live \ {"cancel_requested"}
                                   /\ state'[r] \in Live
    BY <1>12 DEF FinishBuildFailure, FinishFailed, EndRun, Active, Live, Terminal,
       TypeOK, StateType
  <2> QED BY <1>12, <2>1, <2>2, <2>3, TaskStepBase DEF FinishBuildFailure, DuringTask
<1>13. CASE SaveCandidate(r)
  <2>1. ~At(r, "idle")
    BY <1>13 DEF SaveCandidate, At
  <2>2. \A s \in Runs \ {r} : state'[s] = state[s] /\ task'[s] = task[s]
    BY <1>13 DEF SaveCandidate, Goto, TypeOK, StateType, TaskType
  <2>3. state'[r] # state[r] => \/ state'[r] \in Terminal
                                \/ /\ state[r] \in Live \ {"cancel_requested"}
                                   /\ state'[r] \in Live
    BY <1>13 DEF SaveCandidate
  <2> QED BY <1>13, <2>1, <2>2, <2>3, TaskStepBase DEF SaveCandidate, DuringTask
<1>14. CASE QueueReviewer(r)
  <2>1. ~At(r, "idle")
    BY <1>14 DEF QueueReviewer, At
  <2>2. \A s \in Runs \ {r} : state'[s] = state[s] /\ task'[s] = task[s]
    BY <1>14 DEF QueueReviewer, Goto, TypeOK, StateType, TaskType
  <2>3. state'[r] # state[r] => \/ state'[r] \in Terminal
                                \/ /\ state[r] \in Live \ {"cancel_requested"}
                                   /\ state'[r] \in Live
    BY <1>14 DEF QueueReviewer, Active, Live, TypeOK, StateType
  <2> QED BY <1>14, <2>1, <2>2, <2>3, TaskStepBase DEF QueueReviewer, DuringTask
<1>15. CASE ReleaseRejected(r)
  <2>1. ~At(r, "idle")
    BY <1>15 DEF ReleaseRejected, At
  <2>2. \A s \in Runs \ {r} : state'[s] = state[s] /\ task'[s] = task[s]
    BY <1>15 DEF ReleaseRejected, Goto, TypeOK, StateType, TaskType
  <2>3. state'[r] # state[r] => \/ state'[r] \in Terminal
                                \/ /\ state[r] \in Live \ {"cancel_requested"}
                                   /\ state'[r] \in Live
    BY <1>15 DEF ReleaseRejected
  <2> QED BY <1>15, <2>1, <2>2, <2>3, TaskStepBase DEF ReleaseRejected, DuringTask
<1>16. CASE PrepareRepair(r)
  <2>1. ~At(r, "idle")
    BY <1>16 DEF PrepareRepair, At
  <2>2. \A s \in Runs \ {r} : state'[s] = state[s] /\ task'[s] = task[s]
    BY <1>16 DEF PrepareRepair, Goto, FinishFailed, EndRun, TypeOK, StateType, TaskType
  <2>3. state'[r] # state[r] => \/ state'[r] \in Terminal
                                \/ /\ state[r] \in Live \ {"cancel_requested"}
                                   /\ state'[r] \in Live
    BY <1>16 DEF PrepareRepair, FinishFailed, EndRun, Terminal, TypeOK, StateType
  <2> QED BY <1>16, <2>1, <2>2, <2>3, TaskStepBase DEF PrepareRepair, DuringTask
<1>17. CASE Reconcile(r)
  <2>1. ~At(r, "idle")
    BY <1>17 DEF Reconcile, At
  <2>2. \A s \in Runs \ {r} : state'[s] = state[s] /\ task'[s] = task[s]
    BY <1>17 DEF Reconcile, TypeOK, StateType, TaskType
  <2>3. state'[r] # state[r] => \/ state'[r] \in Terminal
                                \/ /\ state[r] \in Live \ {"cancel_requested"}
                                   /\ state'[r] \in Live
    BY <1>17 DEF Reconcile
  <2> QED BY <1>17, <2>1, <2>2, <2>3, TaskStepBase DEF Reconcile, DuringTask
<1>18. CASE EndTask(r)
  <2>1. ~At(r, "idle")
    BY <1>18 DEF EndTask, At
  <2>2. \A s \in Runs \ {r} : state'[s] = state[s] /\ task'[s] = task[s]
    BY <1>18 DEF EndTask, Goto, EndByCatch, FinishCancelled, FinishFailed, EndRun,
       TypeOK, StateType, TaskType
  <2>3. state'[r] # state[r] => \/ state'[r] \in Terminal
                                \/ /\ state[r] \in Live \ {"cancel_requested"}
                                   /\ state'[r] \in Live
    BY <1>18 DEF EndTask, EndByCatch, FinishCancelled, FinishFailed, EndRun, Terminal,
       TypeOK, StateType
  <2> QED BY <1>18, <2>1, <2>2, <2>3, TaskStepBase DEF EndTask, DuringTask
<1>19. CASE FinishTask(r)
  <2>1. ~At(r, "idle")
    BY <1>19 DEF FinishTask, At
  <2>2. \A s \in Runs \ {r} : state'[s] = state[s] /\ task'[s] = task[s]
    BY <1>19 DEF FinishTask, Goto, TypeOK, StateType, TaskType
  <2>3. state'[r] # state[r] => \/ state'[r] \in Terminal
                                \/ /\ state[r] \in Live \ {"cancel_requested"}
                                   /\ state'[r] \in Live
    BY <1>19 DEF FinishTask
  <2> QED BY <1>19, <2>1, <2>2, <2>3, TaskStepBase DEF FinishTask, DuringTask
<1>20. CASE Settle(r)
  <2>1. ~At(r, "idle")
    BY <1>20 DEF Settle, At
  <2>2. \A s \in Runs \ {r} : state'[s] = state[s] /\ task'[s] = task[s]
    BY <1>20 DEF Settle, FinishCancelled, FinishFailed, EndRun, TypeOK, StateType, TaskType
  <2>3. state'[r] # state[r] => \/ state'[r] \in Terminal
                                \/ /\ state[r] \in Live \ {"cancel_requested"}
                                   /\ state'[r] \in Live
    BY <1>20 DEF Settle, FinishCancelled, FinishFailed, EndRun, Terminal, TypeOK, StateType
  <2> QED BY <1>20, <2>1, <2>2, <2>3, TaskStepBase DEF Settle, DuringTask
<1>21. CASE TaskDestroy(r)
  BY <1>21, QuietBase DEF TaskDestroy, BeginKill, DuringKill
<1>22. ASSUME NEW verdict, FinishReview(r, verdict) PROVE BaseInv'
  <2>1. /\ Active(r) /\ At(r, "review") /\ expected[r] = current
        /\ UNCHANGED <<expected, dispatch>>
    BY <1>22 DEF FinishReview, Reviewable
  <2>2. \A s \in Runs \ {r} :
            state'[s] = state[s] /\ task'[s] = task[s] /\ state[s] \notin Live
    BY <1>22, <2>1 DEF FinishReview, TypeOK, StateType, TaskType, Active, LockInv, LockHeld
  <2>3. state'[r] \in Terminal \/ (state'[r] = "repairing" /\ UNCHANGED current)
    <3> DEFINE s == Outcome(r, verdict)[1]
    <3>1. (s = "repairing" \/ s \in Terminal) /\ (verdict = "passed" => s \in Terminal)
      BY DEF Outcome, Terminal
    <3>2. state'[r] = s /\ (verdict # "passed" => UNCHANGED current)
      BY <1>22 DEF FinishReview, TypeOK, StateType
    <3> HIDE DEF s
    <3> QED BY <3>1, <3>2
  <2>4. BaseOf(r)'
    BY <2>1, <2>3 DEF BaseOf, Based, Terminal, Live
  <2>5. \A s \in Runs \ {r} : BaseOf(s)'
    BY <2>1, <2>2 DEF BaseInv, BaseOf, Based, At
  <2> QED BY <2>4, <2>5 DEF BaseInv
<1> QED BY <1>1, <1>2, <1>3, <1>4, <1>5, <1>6, <1>7, <1>8, <1>9, <1>10, <1>11, <1>12,
   <1>13, <1>14, <1>15, <1>16, <1>17, <1>18, <1>19, <1>20, <1>21, <1>22 DEF TaskStep

\* The scheduler starts a run on the current version or parks it.
LEMMA DispatchBaseStep ==
    ASSUME TypeOK, LockInv, BaseInv, NEW r \in Runs, DispatchStep(r) PROVE BaseInv'
<1>1. CASE ClaimNextQueuedRun(r)
  BY <1>1 DEF ClaimNextQueuedRun, BaseInv, BaseOf, Based, At, Live, TypeOK, StateType,
     ProcessType
<1>2. CASE PrepareDispatch(r)
  BY <1>2 DEF PrepareDispatch, DispatchBase, projectVars, BaseInv, BaseOf, Based, At,
     TypeOK, RequestType, ProcessType
<1>3. CASE ParkDispatch(r)
  BY <1>3, EndRunBase DEF ParkDispatch, ParkClaim, Terminal
<1>4. CASE DispatchError(r)
  BY <1>4 DEF DispatchError, projectVars, BaseInv, BaseOf, Based, At, TypeOK, ProcessType
<1>5. CASE StartTask(r)
  BY <1>5 DEF StartTask, projectVars, BaseInv, BaseOf, Based, At, TypeOK, TaskType,
     ProcessType
<1>6. CASE RecoverStrandedClaim(r)
  BY <1>6, EndRunBase DEF RecoverStrandedClaim, ParkClaim, processVars, Terminal
<1> QED BY <1>1, <1>2, <1>3, <1>4, <1>5, <1>6 DEF DispatchStep

\* A destroy moves no base.
LEMMA DestroyBase ==
    ASSUME TypeOK, BaseInv, NEW d \in Destroyers, DestroyStep(d) PROVE BaseInv'
<1>1. CASE KillRemote(d) \/ MarkDestroyed(d) \/ MarkCleanupPending(d)
  BY <1>1, QuietBase DEF KillRemote, MarkDestroyed, MarkCleanupPending, DuringKill
<1>2. CASE ConfirmCleanup(d)
  <2> DEFINE r == kill[d].cand[1]
  <2>1. r \in Runs
    BY DEF TypeOK, KillType, Candidates
  <2>2. CASE EndRun(r, state[r], "confirmed")
    BY <1>2, <2>1, <2>2, EndRunBase DEF ConfirmCleanup, DuringKill
  <2>3. CASE UNCHANGED <<state, operation>>
    BY <1>2, <2>3, QuietBase DEF ConfirmCleanup, DuringKill
  <2> QED BY <1>2, <2>2, <2>3 DEF ConfirmCleanup
<1> QED BY <1>1, <1>2 DEF DestroyStep

\* A stop moves no base.
LEMMA CancelBase ==
    ASSUME TypeOK, BaseInv, NEW r \in Runs, RequestCancel(r) \/ CancelStep(r) PROVE BaseInv'
<1>1. CASE RequestCancel(r)
  <2>1. CASE EndRun(r, "cancelled", "confirmed")
    BY <1>1, <2>1, EndRunBase DEF RequestCancel, Terminal
  <2>2. CASE state[r] \in Live /\ state' = [state EXCEPT ![r] = "cancel_requested"]
    BY <1>1, <2>2 DEF RequestCancel, BaseInv, BaseOf, Based, At, Live, TypeOK, StateType
  <2> QED BY <1>1, <2>1, <2>2 DEF RequestCancel
<1>2. CASE DispatchCancel(r)
  <2>1. CASE At(r, "idle")
    BY <1>2, <2>1, QuietBase DEF DispatchCancel, projectVars
  <2>2. CASE ~At(r, "idle")
    BY <1>2, <2>2, TaskStepBase DEF DispatchCancel, projectVars, TypeOK, TaskType
  <2> QED BY <2>1, <2>2
<1>3. CASE ReadForCancel(r)
  BY <1>3, QuietBase DEF ReadForCancel, projectVars
<1>4. CASE WriteCancelled(r)
  BY <1>4, EndRunBase DEF WriteCancelled, Terminal
<1> QED BY <1>1, <1>2, <1>3, <1>4 DEF CancelStep

\* A rollback, the only other writer of the current version, meets no live run.
LEMMA OtherBase ==
    ASSUME TypeOK, LockInv, BaseInv, NEW r \in Runs, NEW c \in Candidates,
           NEW chosen \in BOOLEAN,
           \/ Accept(r, chosen) \/ RunTimeout(r) \/ AbortKill(r) \/ SettleRecoveredRun(r)
           \/ SweepDestroy(c) \/ RecoverKill(c) \/ RemoteExpire(c) \/ BeginRollback(c)
           \/ Restart \/ EndRollback
    PROVE  BaseInv'
<1>1. CASE Accept(r, chosen)
  BY <1>1 DEF Accept, projectVars, processVars, BaseInv, BaseOf, Based, At, Live,
     TypeOK, StateType, RequestType
<1>2. CASE RunTimeout(r)
  <2>1. ~At(r, "idle")
    BY <1>2 DEF RunTimeout, Working, At
  <2> QED BY <1>2, <2>1, TaskStepBase DEF RunTimeout, projectVars, TypeOK, TaskType
<1>3. CASE AbortKill(r) \/ SweepDestroy(c) \/ RecoverKill(c) \/ RemoteExpire(c)
  BY <1>3, QuietBase DEF AbortKill, SweepDestroy, BeginKill, RecoverKill, RemoteExpire,
     DuringKill, projectVars, processVars
<1>4. CASE SettleRecoveredRun(r)
  BY <1>4, EndRunBase DEF SettleRecoveredRun, processVars
<1>5. CASE BeginRollback(c)
  BY <1>5, QuietBase DEF BeginRollback, processVars
<1>6. CASE Restart
  BY <1>6 DEF Restart, projectVars, BaseInv, BaseOf, Based, At, Live, NoTask
<1>7. CASE EndRollback
  <2>1. \A s \in Runs : state[s] \notin Live
    BY <1>7, NamesAssumption DEF EndRollback, LockInv, LockHeld
  <2> QED BY <1>7, <2>1 DEF EndRollback, processVars, BaseInv, BaseOf, Based, At
<1> QED BY <1>1, <1>2, <1>3, <1>4, <1>5, <1>6, <1>7

-----------------------------------------------------------------------------

\* No run has a base at the start.
LEMMA InitBase == Init => BaseInv
BY DEF Init, BaseInv, BaseOf, Based, At, NoTask, Live

\* Every step keeps the bases.
LEMMA NextBase == ASSUME TypeOK, LockInv, BaseInv, [Next]_vars PROVE BaseInv'
<1>1. ASSUME NEW r \in Runs, NEW c \in Candidates, NEW chosen \in BOOLEAN,
             \/ Accept(r, chosen) \/ RunTimeout(r) \/ AbortKill(r) \/ SettleRecoveredRun(r)
             \/ SweepDestroy(c) \/ RecoverKill(c) \/ RemoteExpire(c) \/ BeginRollback(c)
             \/ Restart \/ EndRollback
      PROVE  BaseInv'
  BY <1>1, OtherBase
<1>2. ASSUME NEW r \in Runs,
             DispatchStep(r) \/ TaskStep(r) \/ RequestCancel(r) \/ CancelStep(r)
      PROVE  BaseInv'
  BY <1>2, DispatchBaseStep, TaskBase, CancelBase
<1>3. ASSUME NEW d \in Destroyers, DestroyStep(d) PROVE BaseInv'
  BY <1>3, DestroyBase
<1>4. CASE UNCHANGED vars
  BY <1>4, QuietBase DEF vars, projectVars, requestVars, processVars
<1> QED BY <1>1, <1>2, <1>3, <1>4, SomeCandidate DEF Next

\* As long as a result of a run can be accepted, the base it was started on is
\* the project's current version: nothing accepted is overwritten unseen.
THEOREM BaseStaysCurrent == Spec => []BaseIsCurrent
<1>1. BaseInv => BaseIsCurrent
  BY DEF BaseInv, BaseOf, Based, BaseIsCurrent, Live
<1> QED BY <1>1, TypeCorrect, InitLock, NextLock, InitBase, NextBase, PTL DEF Spec

-----------------------------------------------------------------------------
(* The accepted versions of a project behave as ProjectVersions says: every  *)
(* step of RunLifecycle is a step of the abstract project, or none.          *)

\* The versions a project ever accepted.
History == {c \in Candidates : revision[c] = "accepted"}

\* A version is accepted together with its run's completion, and a rollback
\* returns to a version that was.
VersionsInv ==
    /\ \A c \in Candidates : revision[c] = "accepted" => state[c[1]] = "completed"
    /\ operation = RollbackOp => rollback \in History

\* One step of the abstract project, or none.
VersionStep == [Project!Next]_<<operation, current, History>>

\* A step that writes no version, and at most takes the project from its holder.
LEMMA NoVersionStep ==
    ASSUME VersionsInv, Irreversible, UNCHANGED <<current, revision, rollback>>,
           operation' = operation \/ (operation # None /\ operation' = None)
    PROVE  VersionsInv' /\ VersionStep
<1>1. History' = History
  BY DEF History
<1>2. VersionsInv'
  BY <1>1, NamesAssumption DEF VersionsInv, History, Irreversible, Candidates
<1>3. CASE operation' = operation
  BY <1>1, <1>2, <1>3 DEF VersionStep
<1>4. CASE operation # None /\ operation' = None
  <2>1. Project!Release
    BY <1>4 DEF Project!Release
  <2> QED BY <1>2, <2>1 DEF VersionStep, Project!Next
<1> QED BY <1>2, <1>3, <1>4

\* A build or a save of an active run writes a version that is not accepted.
LEMMA SaveStep ==
    ASSUME TypeOK, VersionsInv, Irreversible, NEW r \in Runs, Active(r),
           NEW s, s # "accepted", revision' = [revision EXCEPT ![Cand(r)] = s],
           UNCHANGED <<operation, current, rollback>>
    PROVE  VersionsInv' /\ VersionStep
<1>1. Cand(r) \in Candidates /\ revision[Cand(r)] # "accepted"
  BY DEF TypeOK, RequestType, Cand, Candidates, VersionsInv, Active, Live
<1>2. History' = History
  BY <1>1 DEF History, TypeOK, AssetType
<1>3. VersionsInv'
  BY <1>1, <1>2 DEF VersionsInv, History, Irreversible, Candidates, TypeOK, AssetType
<1> QED BY <1>2, <1>3 DEF VersionStep

\* Ending a run writes no version.
LEMMA EndRunVersion ==
    ASSUME VersionsInv, Irreversible, NEW r \in Runs, NEW s, NEW c, EndRun(r, s, c),
           UNCHANGED <<current, revision, rollback>>
    PROVE  VersionsInv' /\ VersionStep
BY NoVersionStep, NamesAssumption DEF EndRun

\* A verdict accepts the candidate of the run that holds the project, or none.
LEMMA FinishReviewVersion ==
    ASSUME TypeOK, VersionsInv, Irreversible, NEW r \in Runs, NEW verdict,
           FinishReview(r, verdict)
    PROVE  VersionsInv' /\ VersionStep
<1> DEFINE o == Outcome(r, verdict)
<1>1. PICK c \in Candidates : /\ c = Cand(r) /\ c[1] = r /\ Active(r) /\ operation = r
                              /\ revision[c] = "candidate"
  BY DEF FinishReview, Reviewable, Active, TypeOK, RequestType, Cand, Candidates
<1>2. CASE verdict = "passed"
  <2>1. /\ state' = [state EXCEPT ![r] = "completed"]
        /\ revision' = [revision EXCEPT ![c] = "accepted"]
        /\ current' = c /\ operation' = None /\ UNCHANGED rollback
    BY <1>1, <1>2 DEF FinishReview, Outcome
  <2>2. History' = History \cup {c} /\ c \notin History
    BY <1>1, <2>1 DEF History, TypeOK, AssetType
  <2>3. VersionsInv'
    BY <1>1, <2>1, NamesAssumption DEF VersionsInv, History, TypeOK, AssetType,
       StateType, Candidates
  <2>4. Project!Promote(c)
    BY <1>1, <2>1, <2>2 DEF Project!Promote, History
  <2>5. Project!Next
    BY <2>4 DEF Project!Next
  <2> QED BY <2>3, <2>5 DEF VersionStep
<1>3. CASE verdict # "passed"
  <2>1. o[2] # "accepted" /\ revision' = [revision EXCEPT ![c] = o[2]]
    BY <1>1, <1>3 DEF FinishReview, Outcome
  <2>2. UNCHANGED <<current, rollback>> /\ (UNCHANGED operation \/ operation' = None)
    BY <1>3 DEF FinishReview
  <2>3. History' = History
    BY <1>1, <2>1 DEF History, TypeOK, AssetType
  <2>4. VersionsInv'
    BY <1>1, <2>1, <2>2, <2>3, NamesAssumption DEF VersionsInv, History, Irreversible,
       Candidates, TypeOK, AssetType
  <2>5. CASE UNCHANGED operation
    BY <2>2, <2>3, <2>4, <2>5 DEF VersionStep
  <2>6. CASE operation' = None
    BY <1>1, <2>2, <2>3, <2>4, <2>6, NamesAssumption DEF VersionStep, Project!Next,
       Project!Release, History
  <2> QED BY <2>2, <2>5, <2>6
<1> QED BY <1>2, <1>3

\* A rollback returns to a version of the history.
LEMMA RollbackVersion ==
    ASSUME VersionsInv, NEW c \in Candidates, BeginRollback(c) \/ EndRollback
    PROVE  VersionsInv' /\ VersionStep
<1>1. History' = History
  BY DEF BeginRollback, EndRollback, History, assetVars
<1>2. CASE BeginRollback(c)
  <2>1. VersionsInv'
    BY <1>1, <1>2 DEF BeginRollback, VersionsInv, History, assetVars
  <2>2. Project!Acquire(RollbackOp)
    BY <1>1, <1>2 DEF BeginRollback, Project!Acquire, History
  <2> QED BY <2>1, <2>2 DEF VersionStep, Project!Next
<1>3. CASE EndRollback
  <2>1. VersionsInv'
    BY <1>1, <1>3, NamesAssumption DEF EndRollback, VersionsInv, History, assetVars
  <2>2. CASE current' = current
    <3>1. Project!Release
      BY <1>3, <2>2, NamesAssumption DEF EndRollback, Project!Release, assetVars
    <3> QED BY <2>1, <3>1 DEF VersionStep, Project!Next
  <2>3. CASE current' = rollback
    <3>1. Project!Return(rollback) /\ rollback \in Candidates
      BY <1>1, <1>3, <2>3 DEF EndRollback, VersionsInv, Project!Return, History
    <3> QED BY <2>1, <3>1 DEF VersionStep, Project!Next
  <2> QED BY <1>3, <2>1, <2>2, <2>3 DEF EndRollback
<1> QED BY <1>2, <1>3

\* Of the steps of a task, only a build, a save and a verdict write versions.
LEMMA TaskVersion ==
    ASSUME TypeOK, VersionsInv, Irreversible, NEW r \in Runs, TaskStep(r)
    PROVE  VersionsInv' /\ VersionStep
<1>1. CASE TaskError(r)
  BY <1>1, NoVersionStep DEF TaskError, DuringTask, assetVars
<1>2. CASE StartCoordinator(r)
  BY <1>2, NoVersionStep DEF StartCoordinator, DuringTask, assetVars
<1>3. CASE SubmitPlan(r)
  BY <1>3, NoVersionStep DEF SubmitPlan, DuringTask, assetVars
<1>4. CASE RequestClarification(r)
  BY <1>4, NoVersionStep, NamesAssumption DEF RequestClarification, EndRun, DuringTask,
     assetVars
<1>5. CASE StartBuilder(r)
  BY <1>5, NoVersionStep DEF StartBuilder, DuringTask, assetVars
<1>6. CASE CreateSandbox(r)
  BY <1>6, NoVersionStep DEF CreateSandbox, DuringTask
<1>7. CASE RegisterSandbox(r)
  BY <1>7, NoVersionStep DEF RegisterSandbox, DuringTask
<1>8. CASE Build(r)
  BY <1>8, NoVersionStep DEF Build, DuringTask, assetVars
<1>9. CASE Unwind(r)
  BY <1>9, NoVersionStep DEF Unwind, DuringTask
<1>10. CASE UnwindCallback(r)
  BY <1>10, NoVersionStep DEF UnwindCallback, DuringTask
<1>11. CASE FinishBuildFailure(r)
  BY <1>11, NoVersionStep, NamesAssumption DEF FinishBuildFailure, FinishFailed, EndRun,
     Active, assetVars, DuringTask
<1>12. CASE QueueReviewer(r)
  BY <1>12, NoVersionStep DEF QueueReviewer, DuringTask
<1>13. CASE ReleaseRejected(r)
  BY <1>13, NoVersionStep DEF ReleaseRejected, DuringTask, assetVars
<1>14. CASE PrepareRepair(r)
  BY <1>14, NoVersionStep, NamesAssumption DEF PrepareRepair, FinishFailed, EndRun,
     DuringTask, assetVars
<1>15. CASE Reconcile(r)
  BY <1>15, NoVersionStep DEF Reconcile, DuringTask, assetVars
<1>16. CASE EndTask(r)
  BY <1>16, NoVersionStep, NamesAssumption DEF EndTask, EndByCatch, FinishFailed,
     FinishCancelled, EndRun, DuringTask, assetVars
<1>17. CASE FinishTask(r)
  BY <1>17, NoVersionStep DEF FinishTask, DuringTask, assetVars
<1>18. CASE Settle(r)
  BY <1>18, NoVersionStep, NamesAssumption DEF Settle, FinishFailed, FinishCancelled,
     EndRun, DuringTask, assetVars
<1>19. CASE TaskDestroy(r)
  BY <1>19, NoVersionStep DEF TaskDestroy, BeginKill, DuringKill, assetVars
<1>20. CASE HandleResult(r)
  <2>1. CASE UNCHANGED revision
    BY <1>20, <2>1, NoVersionStep, NamesAssumption DEF HandleResult, FinishFailed,
       EndRun, DuringTask
  <2>2. CASE /\ Active(r) /\ UNCHANGED operation
             /\ revision' = [revision EXCEPT ![Cand(r)] = "broken"]
    BY <1>20, <2>2, SaveStep DEF HandleResult, DuringTask
  <2> QED BY <1>20, <2>1, <2>2 DEF HandleResult
<1>21. CASE SaveCandidate(r)
  BY <1>21, SaveStep DEF SaveCandidate, DuringTask
<1>22. CASE \E verdict \in {"passed", "failed", "blocked"} : FinishReview(r, verdict)
  BY <1>22, FinishReviewVersion
<1> QED BY <1>1, <1>2, <1>3, <1>4, <1>5, <1>6, <1>7, <1>8, <1>9, <1>10, <1>11, <1>12,
   <1>13, <1>14, <1>15, <1>16, <1>17, <1>18, <1>19, <1>20, <1>21, <1>22 DEF TaskStep

\* Stops, destroys and dispatches write no version.
LEMMA OtherVersion ==
    ASSUME TypeOK, LockInv, VersionsInv, Irreversible, NEW r \in Runs, NEW d \in Destroyers,
           NEW c \in Candidates, NEW chosen \in BOOLEAN,
           \/ DispatchStep(r) \/ RequestCancel(r) \/ CancelStep(r) \/ DestroyStep(d)
           \/ Accept(r, chosen) \/ RunTimeout(r) \/ AbortKill(r) \/ SettleRecoveredRun(r)
           \/ SweepDestroy(c) \/ RecoverKill(c) \/ RemoteExpire(c) \/ Restart
    PROVE  VersionsInv' /\ VersionStep
<1>1. CASE ClaimNextQueuedRun(r)
  <2>1. VersionsInv' /\ History' = History
    BY <1>1, NamesAssumption DEF ClaimNextQueuedRun, boundVars, assetVars, VersionsInv,
       History,
       Irreversible, Candidates
  <2>2. Project!Acquire(r)
    BY <1>1 DEF ClaimNextQueuedRun, Project!Acquire, assetVars
  <2> QED BY <2>1, <2>2 DEF VersionStep, Project!Next
<1>2. CASE PrepareDispatch(r) \/ DispatchError(r) \/ StartTask(r)
  BY <1>2, NoVersionStep DEF PrepareDispatch, DispatchError, StartTask, projectVars,
     assetVars, boundVars
<1>3. CASE ParkDispatch(r) \/ RecoverStrandedClaim(r)
  BY <1>3, NoVersionStep, NamesAssumption DEF ParkDispatch, RecoverStrandedClaim,
     ParkClaim, EndRun,
     assetVars, boundVars
<1>4. CASE RequestCancel(r) \/ CancelStep(r)
  BY <1>4, NoVersionStep, NamesAssumption DEF RequestCancel, CancelStep, DispatchCancel,
     ReadForCancel,
     WriteCancelled, EndRun, projectVars, assetVars, boundVars
<1>5. CASE KillRemote(d) \/ MarkDestroyed(d) \/ MarkCleanupPending(d)
  BY <1>5, NoVersionStep DEF KillRemote, MarkDestroyed, MarkCleanupPending, DuringKill,
     assetVars
<1>6. CASE ConfirmCleanup(d)
  BY <1>6, NoVersionStep, NamesAssumption, KillCandType DEF ConfirmCleanup, DuringKill,
     EndRun, assetVars, TypeOK
<1>7. CASE \/ Accept(r, chosen) \/ RunTimeout(r) \/ AbortKill(r)
           \/ RecoverKill(c) \/ RemoteExpire(c) \/ Restart
  BY <1>7, NoVersionStep DEF Accept, RunTimeout, AbortKill, RecoverKill, RemoteExpire,
     Restart, projectVars, assetVars, boundVars
<1>8. CASE SweepDestroy(c)
  BY <1>8, NoVersionStep DEF SweepDestroy, BeginKill, DuringKill, assetVars
<1>9. CASE SettleRecoveredRun(r)
  BY <1>9, NoVersionStep, NamesAssumption DEF SettleRecoveredRun, EndRun, boundVars
<1> QED BY <1>1, <1>2, <1>3, <1>4, <1>5, <1>6, <1>7, <1>8, <1>9 DEF DispatchStep, DestroyStep

-----------------------------------------------------------------------------

\* There is no version at the start.
LEMMA InitVersions == Init => VersionsInv /\ Project!Init
BY NamesAssumption DEF Init, VersionsInv, Project!Init

\* Every step is a step of the abstract project.
LEMMA NextVersions ==
    ASSUME TypeOK, LockInv, VersionsInv, [Next]_vars PROVE VersionsInv' /\ VersionStep
<1>1. Irreversible
  BY NextLock
<1>2. ASSUME NEW r \in Runs, NEW d \in Destroyers, NEW c \in Candidates,
             NEW chosen \in BOOLEAN,
             \/ DispatchStep(r) \/ RequestCancel(r) \/ CancelStep(r) \/ DestroyStep(d)
             \/ Accept(r, chosen) \/ RunTimeout(r) \/ AbortKill(r) \/ SettleRecoveredRun(r)
             \/ SweepDestroy(c) \/ RecoverKill(c) \/ RemoteExpire(c) \/ Restart
      PROVE  VersionsInv' /\ VersionStep
  BY <1>1, <1>2, OtherVersion
<1>3. ASSUME NEW r \in Runs, TaskStep(r) PROVE VersionsInv' /\ VersionStep
  BY <1>1, <1>3, TaskVersion
<1>4. ASSUME NEW c \in Candidates, BeginRollback(c) \/ EndRollback
      PROVE  VersionsInv' /\ VersionStep
  BY <1>4, RollbackVersion
<1>5. CASE UNCHANGED vars
  BY <1>1, <1>5, NoVersionStep DEF vars, projectVars, assetVars, boundVars
<1> QED BY <1>2, <1>3, <1>4, <1>5, SomeCandidate DEF Next

\* RunLifecycle implements ProjectVersions: a version is accepted once, by the
\* run that holds the project, no version is lost, and a rollback returns to one
\* that was accepted.
THEOREM ImplementsProjectVersions == Spec => VersionsKept
<1>1. VersionStep
      => [Project!Next]_<<operation, current, {c \in Candidates : revision[c] = "accepted"}>>
  BY DEF VersionStep, History
<1> QED BY <1>1, TypeCorrect, InitLock, NextLock, InitVersions, NextVersions, PTL
    DEF Spec, VersionsKept, Project!Spec

-----------------------------------------------------------------------------
(* What becomes of the sandboxes of the runs.                                *)

\* The candidates of a run, and one that has neither a row nor a sandbox yet.
Mine(r) == {c \in Candidates : c[1] = r}
Unborn(c) == row[c] = "none" /\ remote[c] = "none"

\* A sandbox is created once, for the attempt under way, after the claim.
Births(r) ==
    /\ \A c \in Mine(r) : c[2] > attempt[r] => Unborn(c)
    /\ state[r] \in {"absent", "queued"} => dispatch[r] = "none"
    /\ state[r] \in {"absent", "queued"} \/ dispatch[r] # "none" =>
           At(r, "idle") /\ \A c \in Mine(r) : Unborn(c)
    /\ \/ task[r].pc \in {"coordinate", "plan", "create"}
       \/ At(r, "attempt") /\ state[r] = "building"
       => Unborn(Cand(r))
    /\ At(r, "register") => row[Cand(r)] = "none" /\ remote[Cand(r)] # "none"
    /\ task[r].pc \in {"build", "save", "bind", "review", "repair"} => row[Cand(r)] # "none"

\* The runs a task or the scheduler works on were claimed by this process.
Boots(r) ==
    /\ boot[r] <= bootId
    /\ ~At(r, "idle") \/ dispatch[r] # "none" => boot[r] = bootId

\* What a row, the process's list and the attempt say of a sandbox.
Ledger(r) ==
    \A c \in Mine(r) :
        /\ c \in tracked \cup doomed => remote[c] # "none"
        /\ boot[r] = bootId /\ row[c] \in OpenRows => c \in tracked
        /\ boot[r] = bootId /\ row[c] # "none" /\ remote[c] = "live" => c \in tracked
        /\ row[c] = "destroyed" \/ c[2] < attempt[r] => remote[c] # "live"

\* Someone is destroying candidate c.
Struck(d, c) == kill[d].stage # "none" /\ kill[d].cand = c

\* How far a destroy has come.
Kills(r) ==
    \A d \in Destroyers : \A c \in Mine(r) : Struck(d, c) =>
        /\ remote[c] # "none"
        /\ kill[d].stage \in {"mark", "confirm", "done"} => remote[c] # "live"
        /\ kill[d].stage \in {"confirm", "done"} => row[c] = "destroyed"

\* A task destroys the sandbox of its own attempt, and waits for the answer.
OwnKill(r) ==
    kill[r].stage # "none" =>
        /\ kill[r].cand = Cand(r)
        /\ task[r].pc \in {"release", "repair", "catch", "final", "settle"}

\* A candidate that was not built or was rejected is gone before the next attempt.
Results(r) ==
    /\ At(r, "unwound") /\ task[r].clean => remote[Cand(r)] # "live"
    /\ /\ task[r].pc \in {"result", "broken"} /\ task[r].clean
       /\ row[Cand(r)] # "none" \/ task[r].outcome = "broken"
       => remote[Cand(r)] # "live"
    /\ At(r, "broken") => task[r].outcome = "broken"
    /\ At(r, "repair") => state[r] # "building"
    /\ At(r, "attempt") /\ state[r] = "repairing" => remote[Cand(r)] # "live"

\* The sandbox of the attempt under way, and the one that was accepted, are nobody's
\* to destroy; only an abort kills one that is not accepted.
Spared(r) ==
    /\ task[r].pc \in {"register", "build"} => remote[Cand(r)] = "live" \/ Aborted(r)
    /\ task[r].pc \in {"save", "bind", "review"} => remote[Cand(r)] = "live"
    /\ \/ task[r].pc \in {"register", "build", "save", "bind", "review"}
       \/ state[r] = "completed" /\ ~At(r, "idle")
       => Cand(r) \notin doomed /\ \A d \in Destroyers : ~Struck(d, Cand(r))
    /\ state[r] = "completed" => dispatch[r] = "none"
    /\ state[r] = "completed" /\ ~At(r, "idle") =>
           /\ task[r].pc \in {"catch", "final", "settle"} /\ remote[Cand(r)] = "live"
           /\ At(r, "catch") => task[r].unknown
           /\ At(r, "final") => Keeps(r)

\* When a run is over.
Endings(r) ==
    /\ cleanup[r] = "confirmed" => state[r] \in Terminal
    /\ state[r] \in {"absent", "queued"} => cleanup[r] = "clear"
    /\ At(r, "release") \/ (At(r, "final") /\ ~task[r].unsettled) => state[r] \in Terminal
    /\ state[r] \in Live /\ At(r, "idle") => \A c \in Mine(r) : row[c] = "none"
    /\ canceller[r] = "write" \/ (canceller[r] = "finish" /\ state[r] = "cancel_requested")
           => \A c \in Mine(r) : row[c] = "none"

\* What a confirmed cleanup says of a run's only sandbox.
Emptied(r) == attempt[r] = 0 /\ cleanup[r] = "confirmed" =>
                  \A c \in Mine(r) : row[c] # "none" => remote[c] # "live"

RunInv(r) == /\ Births(r) /\ Boots(r) /\ Ledger(r) /\ Kills(r)
             /\ OwnKill(r) /\ Results(r) /\ Spared(r) /\ Endings(r) /\ Emptied(r)
SandboxInv == \A r \in Runs : RunInv(r)

-----------------------------------------------------------------------------
(* What a step leaves alone.                                                 *)

\* The parts of a run's state that a step may leave alone: the request and who works
\* on it, the rows, the remote sandboxes, the process's lists, the destroys.
RequestKept(r) ==
    /\ attempt'[r] = attempt[r] /\ boot'[r] = boot[r] /\ bootId' = bootId
    /\ dispatch'[r] = dispatch[r] /\ canceller'[r] = canceller[r]
RowsKept(r)    == \A c \in Mine(r) : row'[c] = row[c]
RemotesKept(r) == \A c \in Mine(r) : remote'[c] = remote[c]
ListsKept(r)   == \A c \in Mine(r) : /\ c \in tracked' <=> c \in tracked
                                     /\ c \in doomed' <=> c \in doomed
AssetsKept(r)  == RowsKept(r) /\ RemotesKept(r) /\ ListsKept(r)
KillKept(d, r) == \A c \in Mine(r) : /\ Struck(d, c)' <=> Struck(d, c)
                                     /\ Struck(d, c) => kill'[d].stage = kill[d].stage
KillsKept(r)   == kill'[r] = kill[r] /\ \A d \in Destroyers : KillKept(d, r)
OutcomeKept(r) == state'[r] = state[r] /\ cleanup'[r] = cleanup[r]

\* A run that a step does not touch, with its candidates and their destroys.
SameRun(r) == /\ OutcomeKept(r) /\ RequestKept(r) /\ task'[r] = task[r]
              /\ AssetsKept(r) /\ KillsKept(r)
OthersSame(r) == \A x \in Runs : x # r => SameRun(x)

\* What a step does to the run it touches: its task goes on, one row or sandbox
\* changes, a destroy of the task's own has had its answer, the run ends.
Stands(r, p) == /\ task'[r].pc = p /\ task'[r].signal = task[r].signal
                /\ task'[r].outcome = task[r].outcome /\ task'[r].clean = task[r].clean
                /\ task'[r].unknown = task[r].unknown /\ task'[r].kept = task[r].kept
                /\ task'[r].unsettled = task[r].unsettled
RowSet(r, c, v)    == row'[c] = v /\ \A x \in Mine(r) : x # c => row'[x] = row[x]
RemoteSet(r, c, v) == remote'[c] = v /\ \A x \in Mine(r) : x # c => remote'[x] = remote[x]
Signalled(r) == /\ task'[r].pc = task[r].pc /\ task'[r].signal # "none"
                /\ task'[r].outcome = task[r].outcome /\ task'[r].clean = task[r].clean
                /\ task'[r].unknown = task[r].unknown /\ task'[r].kept = task[r].kept
                /\ task'[r].unsettled = task[r].unsettled
OwnKillEnds(r)  == kill'[r].stage = "none" /\ \A d \in Destroyers : d # r => KillKept(d, r)
Finished(r, s, c) ==
    IF state[r] \in Terminal THEN OutcomeKept(r) ELSE state'[r] = s /\ cleanup'[r] = c

\* The candidate of the attempt under way is the run's; a run's candidate is a pair.
LEMMA CandMine ==
    ASSUME TypeOK, NEW r \in Runs
    PROVE  /\ Cand(r) \in Mine(r) /\ Cand(r)[1] = r
           /\ Cand(r)[2] = attempt[r] /\ attempt[r] \in Nat
BY BoundsAssumption DEF TypeOK, RequestType, Attempts, Cand, Mine, Candidates

LEMMA MinePair ==
    ASSUME NEW r, NEW c \in Mine(r)
    PROVE  c = <<r, c[2]>> /\ c[2] \in Attempts
BY DEF Mine, Candidates

\* A task that destroyed its sandbox, or whose process does not list it, has none left.
LEMMA NothingLeft ==
    ASSUME TypeOK, NEW r \in Runs, RunInv(r), ~At(r, "idle"), row[Cand(r)] # "none",
           kill[r].stage = "done" \/ Cand(r) \notin tracked
    PROVE  remote[Cand(r)] # "live"
<1>1. Cand(r) \in Mine(r)
  BY CandMine
<1>2. CASE kill[r].stage = "done"
  BY <1>1, <1>2 DEF RunInv, OwnKill, Kills, Struck, Destroyers
<1>3. CASE Cand(r) \notin tracked
  BY <1>1, <1>3 DEF RunInv, Boots, Ledger
<1>4. QED
  BY <1>2, <1>3

\* A step that touches no destroy.
LEMMA KillUntouched ==
    ASSUME kill' = kill, NEW r
    PROVE  KillsKept(r)
BY DEF KillsKept, KillKept, Struck

\* The part of a run that a step does not touch stays true.
LEMMA SameRunKept ==
    ASSUME TypeOK, NEW r \in Runs, RunInv(r), SameRun(r)
    PROVE  RunInv(r)'
<1>1. Cand(r)' = Cand(r) /\ Cand(r) \in Mine(r)
  BY CandMine DEF SameRun, RequestKept, Cand
<1> USE DEF SameRun, OutcomeKept, RequestKept, AssetsKept, RowsKept, RemotesKept, ListsKept,
            KillsKept, KillKept, RunInv, At
<1>2. Births(r)' /\ Boots(r)' /\ Ledger(r)'
  BY <1>1 DEF Births, Boots, Ledger, Unborn, Mine
<1>3. Kills(r)' /\ OwnKill(r)' /\ Results(r)' /\ Spared(r)' /\ Endings(r)' /\ Emptied(r)'
  BY <1>1 DEF Kills, OwnKill, Results, Spared, Endings, Emptied, Mine, Aborted, Keeps,
                  Struck
<1>4. QED
  BY <1>2, <1>3

\* A step that touches one run keeps the invariant if it keeps that run's part.
LEMMA StepOfRun ==
    ASSUME TypeOK, SandboxInv, NEW r \in Runs, OthersSame(r), RunInv(r)'
    PROVE  SandboxInv'
BY SameRunKept DEF SandboxInv, OthersSame

\* Before the first repair a run has one sandbox.
LEMMA OnlyCand ==
    ASSUME TypeOK, NEW r \in Runs, Births(r), attempt[r] = 0,
           NEW c \in Mine(r), row[c] # "none"
    PROVE  c = Cand(r)
<1>1. c \in Runs \X Attempts /\ c[1] = r /\ ~(c[2] > 0)
  BY DEF Births, Unborn, Mine, Candidates
<1>2. c[2] \in Nat /\ c = <<c[1], c[2]>>
  BY <1>1, BoundsAssumption DEF Attempts
<1>3. c[2] = 0
  BY <1>1, <1>2
<1>4. QED
  BY <1>1, <1>2, <1>3 DEF Cand

\* A confirmed cleanup stays true of a run's only sandbox.
LEMMA EmptiedKept ==
    ASSUME TypeOK, NEW r \in Runs, RunInv(r), attempt'[r] = attempt[r],
           \A c \in Mine(r) : remote'[c] = remote[c] /\ (row'[c] # "none" => row[c] # "none"),
           \/ cleanup'[r] # "confirmed" \/ cleanup[r] = "confirmed"
           \/ row[Cand(r)] # "none" => remote[Cand(r)] # "live"
    PROVE  Emptied(r)'
<1> SUFFICES ASSUME attempt[r] = 0, cleanup'[r] = "confirmed",
                    NEW c \in Mine(r), row[c] # "none"
             PROVE  remote[c] # "live"
  BY DEF Emptied, Mine
<1>1. c = Cand(r)
  BY OnlyCand DEF RunInv
<1>2. QED
  BY <1>1 DEF RunInv, Emptied

-----------------------------------------------------------------------------
(* Every action keeps the invariant.                                         *)

\* The request and its dispatch: nothing of the run is at the provider yet.
LEMMA AcceptKeeps ==
    ASSUME TypeOK, LockInv, SandboxInv, NEW r \in Runs, NEW chosen, Accept(r, chosen)
    PROVE  SandboxInv'
<1>1. /\ RunInv(r) /\ attempt[r] \in Nat
      /\ Cand(r) \in Mine(r) /\ Cand(r)[1] = r /\ Cand(r)[2] = attempt[r]
  BY CandMine DEF SandboxInv
<1>2. OthersSame(r)
  BY <1>1
     DEF OthersSame, SameRun, OutcomeKept, RequestKept, AssetsKept, RowsKept, RemotesKept,
         ListsKept, KillsKept, KillKept, Mine, Struck, Cand, TypeOK, StateType, CleanupType,
         RequestType, AssetType, ProcessType, TaskType, KillType, requestVars, projectVars,
         processVars, assetVars, Accept
<1>3. state[r] = "absent" /\ state'[r] = "queued"
  BY DEF TypeOK, StateType, requestVars, projectVars, processVars, assetVars, Accept
<1>4. cleanup'[r] = cleanup[r]
  BY DEF requestVars, projectVars, processVars, assetVars, Accept
<1>5. attempt'[r] = attempt[r] /\ bootId' = bootId /\ canceller'[r] = canceller[r]
  BY DEF requestVars, projectVars, processVars, assetVars, Accept
<1>6. boot'[r] = bootId /\ dispatch'[r] = dispatch[r]
  BY DEF TypeOK, ProcessType, RequestType, requestVars, projectVars, processVars, assetVars,
         Accept
<1>7. task'[r] = task[r] /\ AssetsKept(r)
  BY DEF AssetsKept, RowsKept, RemotesKept, ListsKept, requestVars, projectVars,
         processVars, assetVars, Accept
<1>8. KillsKept(r)
  BY KillUntouched DEF requestVars, projectVars, processVars, assetVars, Accept
<1>9. /\ Births(r)' /\ Ledger(r)' /\ Kills(r)' /\ OwnKill(r)'
      /\ Results(r)' /\ Spared(r)' /\ Endings(r)' /\ Emptied(r)'
  BY <1>1, <1>3, <1>4, <1>5, <1>6, <1>7, <1>8
     DEF RunInv, Births, Ledger, Kills, OwnKill, Results, Spared, Endings, Emptied, Unborn,
         OpenRows, Struck, Aborted, Keeps, Terminal, Live, At, Mine, AssetsKept, RowsKept,
         RemotesKept, ListsKept, KillsKept, KillKept, Cand
<1>10. Boots(r)'
  BY <1>1, <1>3, <1>4, <1>5, <1>6, <1>7, <1>8
     DEF RunInv, Boots, Births, Ledger, Kills, OwnKill, Results, Spared, Endings, Emptied,
         Unborn, OpenRows, Struck, Aborted, Keeps, Terminal, Live, At, Mine, AssetsKept,
         RowsKept, RemotesKept, ListsKept, KillsKept, KillKept, Candidates, Cand, Runs,
         Attempts, TypeOK, StateType, RequestType, AssetType
<1>11. QED
  BY <1>2, <1>9, <1>10, StepOfRun DEF RunInv

LEMMA ClaimNextQueuedRunKeeps ==
    ASSUME TypeOK, LockInv, SandboxInv, NEW r \in Runs, ClaimNextQueuedRun(r)
    PROVE  SandboxInv'
<1>1. /\ RunInv(r) /\ attempt[r] \in Nat
      /\ Cand(r) \in Mine(r) /\ Cand(r)[1] = r /\ Cand(r)[2] = attempt[r]
  BY CandMine DEF SandboxInv
<1>2. OthersSame(r)
  BY <1>1
     DEF OthersSame, SameRun, OutcomeKept, RequestKept, AssetsKept, RowsKept, RemotesKept,
         ListsKept, KillsKept, KillKept, Mine, Struck, Cand, TypeOK, StateType, CleanupType,
         RequestType, AssetType, ProcessType, TaskType, KillType, requestVars, assetVars,
         ClaimNextQueuedRun
<1>3. state[r] = "queued" /\ state'[r] = "accepted"
  BY DEF TypeOK, StateType, requestVars, assetVars, ClaimNextQueuedRun
<1>4. cleanup'[r] = cleanup[r]
  BY DEF requestVars, assetVars, ClaimNextQueuedRun
<1>5. attempt'[r] = attempt[r] /\ bootId' = bootId /\ canceller'[r] = canceller[r]
  BY DEF requestVars, assetVars, ClaimNextQueuedRun
<1>6. boot'[r] = bootId /\ dispatch'[r] = "prepare"
  BY DEF TypeOK, ProcessType, RequestType, requestVars, assetVars, ClaimNextQueuedRun
<1>7. task'[r] = task[r] /\ AssetsKept(r)
  BY DEF AssetsKept, RowsKept, RemotesKept, ListsKept, requestVars, assetVars,
         ClaimNextQueuedRun
<1>8. KillsKept(r)
  BY KillUntouched DEF requestVars, assetVars, ClaimNextQueuedRun
<1>9. /\ Births(r)' /\ Ledger(r)' /\ Kills(r)' /\ OwnKill(r)'
      /\ Results(r)' /\ Spared(r)' /\ Endings(r)' /\ Emptied(r)'
  BY <1>1, <1>3, <1>4, <1>5, <1>6, <1>7, <1>8
     DEF RunInv, Births, Ledger, Kills, OwnKill, Results, Spared, Endings, Emptied, Unborn,
         OpenRows, Struck, Aborted, Keeps, Terminal, Live, At, Mine, AssetsKept, RowsKept,
         RemotesKept, ListsKept, KillsKept, KillKept, Cand
<1>10. Boots(r)'
  BY <1>1, <1>3, <1>4, <1>5, <1>6, <1>7, <1>8
     DEF RunInv, Boots, Births, Ledger, Kills, OwnKill, Results, Spared, Endings, Emptied,
         Unborn, OpenRows, Struck, Aborted, Keeps, Terminal, Live, At, Mine, AssetsKept,
         RowsKept, RemotesKept, ListsKept, KillsKept, KillKept, Candidates, Cand, Runs,
         Attempts, TypeOK, StateType, RequestType, AssetType
<1>11. QED
  BY <1>2, <1>9, <1>10, StepOfRun DEF RunInv

LEMMA PrepareDispatchKeeps ==
    ASSUME TypeOK, LockInv, SandboxInv, NEW r \in Runs, PrepareDispatch(r)
    PROVE  SandboxInv'
<1>1. /\ RunInv(r) /\ attempt[r] \in Nat
      /\ Cand(r) \in Mine(r) /\ Cand(r)[1] = r /\ Cand(r)[2] = attempt[r]
  BY CandMine DEF SandboxInv
<1>2. OthersSame(r)
  BY <1>1
     DEF OthersSame, SameRun, OutcomeKept, RequestKept, AssetsKept, RowsKept, RemotesKept,
         ListsKept, KillsKept, KillKept, Mine, Struck, Cand, TypeOK, StateType, CleanupType,
         RequestType, AssetType, ProcessType, TaskType, KillType, requestVars, projectVars,
         processVars, assetVars, PrepareDispatch
<1>3. dispatch[r] = "prepare" /\ dispatch'[r] = "start"
  BY DEF TypeOK, ProcessType, requestVars, projectVars, processVars, assetVars,
         PrepareDispatch
<1>4. boot'[r] = boot[r]
  BY DEF requestVars, projectVars, processVars, assetVars, PrepareDispatch
<1>5. attempt'[r] = attempt[r] /\ bootId' = bootId /\ canceller'[r] = canceller[r]
  BY DEF requestVars, projectVars, processVars, assetVars, PrepareDispatch
<1>6. OutcomeKept(r) /\ task'[r] = task[r] /\ AssetsKept(r)
  BY DEF AssetsKept, RowsKept, RemotesKept, ListsKept, OutcomeKept, requestVars,
         projectVars, processVars, assetVars, PrepareDispatch
<1>7. KillsKept(r)
  BY KillUntouched DEF requestVars, projectVars, processVars, assetVars, PrepareDispatch
<1>8. /\ Births(r)' /\ Boots(r)' /\ Ledger(r)' /\ Kills(r)' /\ OwnKill(r)'
      /\ Results(r)' /\ Spared(r)' /\ Endings(r)' /\ Emptied(r)'
  BY <1>1, <1>3, <1>4, <1>5, <1>6, <1>7
     DEF RunInv, Births, Boots, Ledger, Kills, OwnKill, Results, Spared, Endings, Emptied,
         Unborn, OpenRows, Struck, Aborted, Keeps, Terminal, Live, At, Mine, AssetsKept,
         RowsKept, RemotesKept, ListsKept, KillsKept, KillKept, OutcomeKept, Cand
<1>9. QED
  BY <1>2, <1>8, StepOfRun DEF RunInv

LEMMA ParkDispatchKeeps ==
    ASSUME TypeOK, LockInv, SandboxInv, NEW r \in Runs, ParkDispatch(r)
    PROVE  SandboxInv'
<1>1. /\ RunInv(r) /\ attempt[r] \in Nat
      /\ Cand(r) \in Mine(r) /\ Cand(r)[1] = r /\ Cand(r)[2] = attempt[r]
  BY CandMine DEF SandboxInv
<1>2. OthersSame(r)
  BY <1>1
     DEF OthersSame, SameRun, OutcomeKept, RequestKept, AssetsKept, RowsKept, RemotesKept,
         ListsKept, KillsKept, KillKept, Mine, Struck, Cand, TypeOK, StateType, CleanupType,
         RequestType, AssetType, ProcessType, TaskType, KillType, requestVars, projectVars,
         processVars, assetVars, ParkClaim, EndRun, ParkDispatch
<1>3. dispatch[r] = "prepare" /\ dispatch'[r] = "none"
  BY DEF TypeOK, ProcessType, requestVars, projectVars, processVars, assetVars, ParkClaim,
         EndRun, ParkDispatch
<1>4. boot'[r] = boot[r]
  BY DEF requestVars, projectVars, processVars, assetVars, ParkClaim, EndRun, ParkDispatch
<1>5. attempt'[r] = attempt[r] /\ bootId' = bootId /\ canceller'[r] = canceller[r]
  BY DEF requestVars, projectVars, processVars, assetVars, ParkClaim, EndRun, ParkDispatch
<1>6. state[r] = "accepted" /\ state'[r] = "needs_input"
  BY DEF TypeOK, StateType, requestVars, projectVars, processVars, assetVars, ParkClaim,
         EndRun, ParkDispatch
<1>7. cleanup'[r] = "confirmed"
  BY DEF TypeOK, CleanupType, requestVars, projectVars, processVars, assetVars, ParkClaim,
         EndRun, ParkDispatch
<1>8. task'[r] = task[r] /\ AssetsKept(r)
  BY DEF AssetsKept, RowsKept, RemotesKept, ListsKept, requestVars, projectVars,
         processVars, assetVars, ParkClaim, EndRun, ParkDispatch
<1>9. KillsKept(r)
  BY KillUntouched
     DEF requestVars, projectVars, processVars, assetVars, ParkClaim, EndRun, ParkDispatch
<1>10. /\ Births(r)' /\ Boots(r)' /\ Ledger(r)' /\ Kills(r)' /\ OwnKill(r)'
       /\ Results(r)' /\ Spared(r)' /\ Endings(r)' /\ Emptied(r)'
  BY <1>1, <1>3, <1>4, <1>5, <1>6, <1>7, <1>8, <1>9
     DEF RunInv, Births, Boots, Ledger, Kills, OwnKill, Results, Spared, Endings, Emptied,
         Unborn, OpenRows, Struck, Aborted, Keeps, Terminal, Live, At, Mine, AssetsKept,
         RowsKept, RemotesKept, ListsKept, KillsKept, KillKept, Cand
<1>11. QED
  BY <1>2, <1>10, StepOfRun DEF RunInv

LEMMA DispatchErrorKeeps ==
    ASSUME TypeOK, LockInv, SandboxInv, NEW r \in Runs, DispatchError(r)
    PROVE  SandboxInv'
<1>1. /\ RunInv(r) /\ attempt[r] \in Nat
      /\ Cand(r) \in Mine(r) /\ Cand(r)[1] = r /\ Cand(r)[2] = attempt[r]
  BY CandMine DEF SandboxInv
<1>2. OthersSame(r)
  BY <1>1
     DEF OthersSame, SameRun, OutcomeKept, RequestKept, AssetsKept, RowsKept, RemotesKept,
         ListsKept, KillsKept, KillKept, Mine, Struck, Cand, TypeOK, StateType, CleanupType,
         RequestType, AssetType, ProcessType, TaskType, KillType, requestVars, projectVars,
         processVars, assetVars, DispatchError
<1>3. dispatch[r] = "prepare" /\ dispatch'[r] = "none"
  BY DEF TypeOK, ProcessType, requestVars, projectVars, processVars, assetVars,
         DispatchError
<1>4. boot'[r] = boot[r]
  BY DEF requestVars, projectVars, processVars, assetVars, DispatchError
<1>5. attempt'[r] = attempt[r] /\ bootId' = bootId /\ canceller'[r] = canceller[r]
  BY DEF requestVars, projectVars, processVars, assetVars, DispatchError
<1>6. OutcomeKept(r) /\ task'[r] = task[r] /\ AssetsKept(r)
  BY DEF AssetsKept, RowsKept, RemotesKept, ListsKept, OutcomeKept, requestVars,
         projectVars, processVars, assetVars, DispatchError
<1>7. KillsKept(r)
  BY KillUntouched DEF requestVars, projectVars, processVars, assetVars, DispatchError
<1>8. /\ Births(r)' /\ Boots(r)' /\ Ledger(r)' /\ Kills(r)' /\ OwnKill(r)'
      /\ Results(r)' /\ Spared(r)' /\ Endings(r)' /\ Emptied(r)'
  BY <1>1, <1>3, <1>4, <1>5, <1>6, <1>7
     DEF RunInv, Births, Boots, Ledger, Kills, OwnKill, Results, Spared, Endings, Emptied,
         Unborn, OpenRows, Struck, Aborted, Keeps, Terminal, Live, At, Mine, AssetsKept,
         RowsKept, RemotesKept, ListsKept, KillsKept, KillKept, OutcomeKept, Cand
<1>9. QED
  BY <1>2, <1>8, StepOfRun DEF RunInv

LEMMA StartTaskKeeps ==
    ASSUME TypeOK, LockInv, SandboxInv, NEW r \in Runs, StartTask(r)
    PROVE  SandboxInv'
<1>1. /\ RunInv(r) /\ attempt[r] \in Nat
      /\ Cand(r) \in Mine(r) /\ Cand(r)[1] = r /\ Cand(r)[2] = attempt[r]
  BY CandMine DEF SandboxInv
<1>2. OthersSame(r)
  BY <1>1
     DEF OthersSame, SameRun, OutcomeKept, RequestKept, AssetsKept, RowsKept, RemotesKept,
         ListsKept, KillsKept, KillKept, Mine, Struck, Cand, TypeOK, StateType, CleanupType,
         RequestType, AssetType, ProcessType, TaskType, KillType, requestVars, projectVars,
         processVars, assetVars, NoTask, StartTask
<1>3. dispatch[r] = "start" /\ dispatch'[r] = "none"
  BY DEF TypeOK, ProcessType, requestVars, projectVars, processVars, assetVars, NoTask,
         StartTask
<1>4. boot'[r] = boot[r]
  BY DEF requestVars, projectVars, processVars, assetVars, NoTask, StartTask
<1>5. attempt'[r] = attempt[r] /\ bootId' = bootId /\ canceller'[r] = canceller[r]
  BY DEF requestVars, projectVars, processVars, assetVars, NoTask, StartTask
<1>6. task'[r].pc = "coordinate"
  BY DEF TypeOK, TaskType, Tasks, NoTask, requestVars, projectVars, processVars, assetVars,
         StartTask
<1>7. OutcomeKept(r) /\ AssetsKept(r)
  BY DEF AssetsKept, RowsKept, RemotesKept, ListsKept, OutcomeKept, requestVars,
         projectVars, processVars, assetVars, NoTask, StartTask
<1>8. KillsKept(r)
  BY KillUntouched DEF requestVars, projectVars, processVars, assetVars, NoTask, StartTask
<1>9. /\ Births(r)' /\ Boots(r)' /\ Ledger(r)' /\ Kills(r)' /\ OwnKill(r)'
      /\ Results(r)' /\ Spared(r)' /\ Endings(r)' /\ Emptied(r)'
  BY <1>1, <1>3, <1>4, <1>5, <1>6, <1>7, <1>8
     DEF RunInv, Births, Boots, Ledger, Kills, OwnKill, Results, Spared, Endings, Emptied,
         Unborn, OpenRows, Struck, Aborted, Keeps, Terminal, Live, At, Mine, AssetsKept,
         RowsKept, RemotesKept, ListsKept, KillsKept, KillKept, OutcomeKept, Cand, LockInv,
         StopsUnderWay, LiveOfThisBoot
<1>10. QED
  BY <1>2, <1>9, StepOfRun DEF RunInv

LEMMA RecoverStrandedClaimKeeps ==
    ASSUME TypeOK, LockInv, SandboxInv, NEW r \in Runs, RecoverStrandedClaim(r)
    PROVE  SandboxInv'
<1>1. /\ RunInv(r) /\ attempt[r] \in Nat
      /\ Cand(r) \in Mine(r) /\ Cand(r)[1] = r /\ Cand(r)[2] = attempt[r]
  BY CandMine DEF SandboxInv
<1>2. OthersSame(r)
  BY <1>1
     DEF OthersSame, SameRun, OutcomeKept, RequestKept, AssetsKept, RowsKept, RemotesKept,
         ListsKept, KillsKept, KillKept, Mine, Struck, Cand, TypeOK, StateType, CleanupType,
         RequestType, AssetType, ProcessType, TaskType, KillType, requestVars, projectVars,
         processVars, assetVars, ParkClaim, EndRun, RecoverStrandedClaim
<1>3. state[r] = "accepted" /\ state'[r] = "needs_input"
  BY DEF TypeOK, StateType, requestVars, projectVars, processVars, assetVars, ParkClaim,
         EndRun, RecoverStrandedClaim
<1>4. cleanup'[r] = "confirmed"
  BY DEF TypeOK, CleanupType, requestVars, projectVars, processVars, assetVars, ParkClaim,
         EndRun, RecoverStrandedClaim
<1>5. \A c \in Mine(r) : row[c] \notin OpenRows
  BY MinePair DEF RecoverStrandedClaim
<1>6. RequestKept(r) /\ task'[r] = task[r] /\ AssetsKept(r)
  BY DEF RequestKept, AssetsKept, RowsKept, RemotesKept, ListsKept, requestVars,
         projectVars, processVars, assetVars, ParkClaim, EndRun, RecoverStrandedClaim
<1>7. KillsKept(r)
  BY KillUntouched
     DEF requestVars, projectVars, processVars, assetVars, ParkClaim, EndRun,
         RecoverStrandedClaim
<1>8. /\ Births(r)' /\ Boots(r)' /\ Ledger(r)' /\ Kills(r)'
      /\ OwnKill(r)' /\ Results(r)' /\ Spared(r)' /\ Endings(r)'
  BY <1>1, <1>3, <1>4, <1>5, <1>6, <1>7
     DEF RunInv, Births, Boots, Ledger, Kills, OwnKill, Results, Spared, Endings, Unborn,
         OpenRows, Struck, Aborted, Keeps, Terminal, Live, At, Mine, RequestKept,
         AssetsKept, RowsKept, RemotesKept, ListsKept, KillsKept, KillKept, Cand
<1>9. Emptied(r)'
  <2>1. row[Cand(r)] # "none" => remote[Cand(r)] # "live"
    BY <1>1, <1>5 DEF RunInv, Ledger, TypeOK, AssetType, RowStates, OpenRows, Mine
  <2>2. QED
    BY <1>1, <1>6, <2>1, EmptiedKept DEF RequestKept, AssetsKept, RowsKept, RemotesKept
<1>10. QED
  BY <1>2, <1>8, <1>9, StepOfRun DEF RunInv

\* The task's way through one attempt.  An error keeps the sandbox in the list, so that
\* the end of the task finds it.
LEMMA TaskErrorKeeps ==
    ASSUME TypeOK, LockInv, SandboxInv, NEW r \in Runs, TaskError(r)
    PROVE  SandboxInv'
<1>1. /\ RunInv(r) /\ attempt[r] \in Nat
      /\ Cand(r) \in Mine(r) /\ Cand(r)[1] = r /\ Cand(r)[2] = attempt[r]
  BY CandMine DEF SandboxInv
<1>2. OthersSame(r)
  <2> SUFFICES ASSUME NEW x \in Runs, x # r PROVE SameRun(x)
    BY DEF OthersSame
  <2>1. OutcomeKept(x) /\ RequestKept(x) /\ task'[x] = task[x]
    BY DEF OutcomeKept, RequestKept, TypeOK, StateType, CleanupType, TaskType, Tasks,
           DuringTask, requestVars, assetVars, KillEnded, NoKill, TaskError
  <2>2. AssetsKept(x)
    BY DEF AssetsKept, RowsKept, RemotesKept, ListsKept, Mine, TypeOK, AssetType,
           DuringTask, requestVars, assetVars, KillEnded, NoKill, TaskError
  <2>3. kill'[x] = kill[x]
    BY DEF TypeOK, KillType, Destroyers, DuringTask, requestVars, assetVars, KillEnded,
           NoKill, TaskError
  <2>4. \A e \in Destroyers : KillKept(e, x)
    <3>1. kill[r].stage # "none" => kill[r].cand[1] = r
      BY <1>1 DEF RunInv, OwnKill
    <3>2. /\ kill'[r].stage = "none"
          /\ \A e \in Destroyers : e # r => kill'[e] = kill[e]
      BY DEF TypeOK, KillType, Destroyers, DuringTask, requestVars, assetVars, KillEnded,
             NoKill, TaskError
    <3>3. QED
      BY <3>1, <3>2 DEF KillKept, Struck, Mine
  <2>5. QED
    BY <2>1, <2>2, <2>3, <2>4 DEF SameRun, KillsKept
<1>3. task[r].pc \in {"coordinate", "plan", "attempt", "result", "broken", "save", "bind",
                     "review", "repair"}
  BY DEF DuringTask, requestVars, assetVars, KillEnded, NoKill, TaskError
<1>4. task'[r].pc = "catch"
  BY DEF TypeOK, TaskType, Tasks, DuringTask, requestVars, assetVars, KillEnded, NoKill,
         TaskError
<1>5. OutcomeKept(r) /\ RequestKept(r) /\ AssetsKept(r)
  BY DEF RequestKept, AssetsKept, RowsKept, RemotesKept, ListsKept, OutcomeKept, DuringTask,
         requestVars, assetVars, KillEnded, NoKill, TaskError
<1>6. OwnKillEnds(r)
  BY <1>1
     DEF OwnKillEnds, KillKept, Struck, Mine, TypeOK, KillType, RunInv, OwnKill, Destroyers,
         DuringTask, requestVars, assetVars, KillEnded, NoKill, TaskError
<1>7. /\ Births(r)' /\ Boots(r)' /\ Ledger(r)' /\ Kills(r)' /\ OwnKill(r)'
      /\ Results(r)' /\ Spared(r)' /\ Endings(r)' /\ Emptied(r)'
  BY <1>1, <1>3, <1>4, <1>5, <1>6
     DEF RunInv, Births, Boots, Ledger, Kills, OwnKill, Results, Spared, Endings, Emptied,
         Unborn, OpenRows, Struck, Aborted, Keeps, Terminal, Live, At, Mine, RequestKept,
         AssetsKept, RowsKept, RemotesKept, ListsKept, OutcomeKept, OwnKillEnds, KillKept,
         Cand
<1>8. QED
  BY <1>2, <1>7, StepOfRun DEF RunInv

LEMMA StartCoordinatorKeeps ==
    ASSUME TypeOK, LockInv, SandboxInv, NEW r \in Runs, StartCoordinator(r)
    PROVE  SandboxInv'
<1>1. /\ RunInv(r) /\ attempt[r] \in Nat
      /\ Cand(r) \in Mine(r) /\ Cand(r)[1] = r /\ Cand(r)[2] = attempt[r]
  BY CandMine DEF SandboxInv
<1>2. OthersSame(r)
  BY <1>1
     DEF OthersSame, SameRun, OutcomeKept, RequestKept, AssetsKept, RowsKept, RemotesKept,
         ListsKept, KillsKept, KillKept, Mine, Struck, Cand, TypeOK, StateType, CleanupType,
         RequestType, AssetType, ProcessType, TaskType, KillType, DuringTask, requestVars,
         assetVars, Active, Goto, StartCoordinator
<1>3. At(r, "coordinate")
  BY DEF At, DuringTask, requestVars, assetVars, Active, Goto, StartCoordinator
<1>4. state[r] = "accepted" /\ state'[r] = "planning"
  BY DEF TypeOK, StateType, DuringTask, requestVars, assetVars, Active, Goto,
         StartCoordinator
<1>5. cleanup'[r] = cleanup[r]
  BY DEF DuringTask, requestVars, assetVars, Active, Goto, StartCoordinator
<1>6. Stands(r, "plan")
  BY DEF Stands, TypeOK, TaskType, Tasks, DuringTask, requestVars, assetVars, Active, Goto,
         StartCoordinator
<1>7. RequestKept(r) /\ AssetsKept(r)
  BY DEF RequestKept, AssetsKept, RowsKept, RemotesKept, ListsKept, DuringTask, requestVars,
         assetVars, Active, Goto, StartCoordinator
<1>8. KillsKept(r)
  BY KillUntouched DEF DuringTask, requestVars, assetVars, Active, Goto, StartCoordinator
<1>9. /\ Births(r)' /\ Boots(r)' /\ Ledger(r)' /\ Kills(r)' /\ OwnKill(r)'
      /\ Results(r)' /\ Spared(r)' /\ Endings(r)' /\ Emptied(r)'
  BY <1>1, <1>3, <1>4, <1>5, <1>6, <1>7, <1>8
     DEF RunInv, Births, Boots, Ledger, Kills, OwnKill, Results, Spared, Endings, Emptied,
         Unborn, OpenRows, Struck, Aborted, Keeps, Terminal, Live, At, Mine, RequestKept,
         AssetsKept, RowsKept, RemotesKept, ListsKept, KillsKept, KillKept, Stands, Cand
<1>10. QED
  BY <1>2, <1>9, StepOfRun DEF RunInv

LEMMA SubmitPlanKeeps ==
    ASSUME TypeOK, LockInv, SandboxInv, NEW r \in Runs, SubmitPlan(r)
    PROVE  SandboxInv'
<1>1. /\ RunInv(r) /\ attempt[r] \in Nat
      /\ Cand(r) \in Mine(r) /\ Cand(r)[1] = r /\ Cand(r)[2] = attempt[r]
  BY CandMine DEF SandboxInv
<1>2. OthersSame(r)
  BY <1>1
     DEF OthersSame, SameRun, OutcomeKept, RequestKept, AssetsKept, RowsKept, RemotesKept,
         ListsKept, KillsKept, KillKept, Mine, Struck, Cand, TypeOK, StateType, CleanupType,
         RequestType, AssetType, ProcessType, TaskType, KillType, DuringTask, requestVars,
         assetVars, Active, Goto, SubmitPlan
<1>3. At(r, "plan")
  BY DEF At, DuringTask, requestVars, assetVars, Active, Goto, SubmitPlan
<1>4. state[r] = "planning" /\ state'[r] = "building"
  BY DEF TypeOK, StateType, DuringTask, requestVars, assetVars, Active, Goto, SubmitPlan
<1>5. cleanup'[r] = cleanup[r]
  BY DEF DuringTask, requestVars, assetVars, Active, Goto, SubmitPlan
<1>6. Stands(r, "attempt")
  BY DEF Stands, TypeOK, RequestType, TaskType, Tasks, DuringTask, requestVars, assetVars,
         Active, Goto, SubmitPlan
<1>7. RequestKept(r) /\ AssetsKept(r)
  BY DEF RequestKept, AssetsKept, RowsKept, RemotesKept, ListsKept, DuringTask, requestVars,
         assetVars, Active, Goto, SubmitPlan
<1>8. KillsKept(r)
  BY KillUntouched DEF DuringTask, requestVars, assetVars, Active, Goto, SubmitPlan
<1>9. /\ Births(r)' /\ Boots(r)' /\ Ledger(r)' /\ Kills(r)' /\ OwnKill(r)'
      /\ Results(r)' /\ Spared(r)' /\ Endings(r)' /\ Emptied(r)'
  BY <1>1, <1>3, <1>4, <1>5, <1>6, <1>7, <1>8
     DEF RunInv, Births, Boots, Ledger, Kills, OwnKill, Results, Spared, Endings, Emptied,
         Unborn, OpenRows, Struck, Aborted, Keeps, Terminal, Live, At, Mine, RequestKept,
         AssetsKept, RowsKept, RemotesKept, ListsKept, KillsKept, KillKept, Stands, Cand
<1>10. QED
  BY <1>2, <1>9, StepOfRun DEF RunInv

LEMMA RequestClarificationKeeps ==
    ASSUME TypeOK, LockInv, SandboxInv, NEW r \in Runs, RequestClarification(r)
    PROVE  SandboxInv'
<1>1. /\ RunInv(r) /\ attempt[r] \in Nat
      /\ Cand(r) \in Mine(r) /\ Cand(r)[1] = r /\ Cand(r)[2] = attempt[r]
  BY CandMine DEF SandboxInv
<1>2. OthersSame(r)
  BY <1>1
     DEF OthersSame, SameRun, OutcomeKept, RequestKept, AssetsKept, RowsKept, RemotesKept,
         ListsKept, KillsKept, KillKept, Mine, Struck, Cand, TypeOK, StateType, CleanupType,
         RequestType, AssetType, ProcessType, TaskType, KillType, DuringTask, requestVars,
         assetVars, Active, Goto, EndRun, RequestClarification
<1>3. At(r, "plan")
  BY DEF At, DuringTask, requestVars, assetVars, Active, Goto, EndRun, RequestClarification
<1>4. state[r] = "planning" /\ state'[r] = "needs_input"
  BY DEF TypeOK, StateType, DuringTask, requestVars, assetVars, Active, Goto, EndRun,
         RequestClarification
<1>5. cleanup'[r] = "confirmed"
  BY DEF TypeOK, CleanupType, DuringTask, requestVars, assetVars, Active, Goto, EndRun,
         RequestClarification
<1>6. Stands(r, "final")
  BY DEF Stands, TypeOK, TaskType, Tasks, DuringTask, requestVars, assetVars, Active, Goto,
         EndRun, RequestClarification
<1>7. RequestKept(r) /\ AssetsKept(r)
  BY DEF RequestKept, AssetsKept, RowsKept, RemotesKept, ListsKept, DuringTask, requestVars,
         assetVars, Active, Goto, EndRun, RequestClarification
<1>8. KillsKept(r)
  BY KillUntouched
     DEF DuringTask, requestVars, assetVars, Active, Goto, EndRun, RequestClarification
<1>9. /\ Births(r)' /\ Boots(r)' /\ Ledger(r)' /\ Kills(r)'
      /\ OwnKill(r)' /\ Results(r)' /\ Spared(r)' /\ Endings(r)'
  BY <1>1, <1>3, <1>4, <1>5, <1>6, <1>7, <1>8
     DEF RunInv, Births, Boots, Ledger, Kills, OwnKill, Results, Spared, Endings, Unborn,
         OpenRows, Struck, Aborted, Keeps, Terminal, Live, At, Mine, RequestKept,
         AssetsKept, RowsKept, RemotesKept, ListsKept, KillsKept, KillKept, Stands, Cand
<1>10. Emptied(r)'
  <2>1. row[Cand(r)] = "none"
    BY <1>1, <1>3 DEF RunInv, Births, Unborn, At
  <2>2. QED
    BY <1>1, <1>7, <2>1, EmptiedKept DEF RequestKept, AssetsKept, RowsKept, RemotesKept
<1>11. QED
  BY <1>2, <1>9, <1>10, StepOfRun DEF RunInv

LEMMA StartBuilderKeeps ==
    ASSUME TypeOK, LockInv, SandboxInv, NEW r \in Runs, StartBuilder(r)
    PROVE  SandboxInv'
<1>1. /\ RunInv(r) /\ attempt[r] \in Nat
      /\ Cand(r) \in Mine(r) /\ Cand(r)[1] = r /\ Cand(r)[2] = attempt[r]
  BY CandMine DEF SandboxInv
<1>2. OthersSame(r)
  BY <1>1
     DEF OthersSame, SameRun, OutcomeKept, RequestKept, AssetsKept, RowsKept, RemotesKept,
         ListsKept, KillsKept, KillKept, Mine, Struck, Cand, TypeOK, StateType, CleanupType,
         RequestType, AssetType, ProcessType, TaskType, KillType, DuringTask, requestVars,
         assetVars, Active, Goto, StartBuilder
<1>3. At(r, "attempt") /\ state'[r] = "building"
  BY DEF At, TypeOK, RequestType, StateType, TaskType, Tasks, DuringTask, requestVars,
         assetVars, Active, Goto, StartBuilder
<1>4. \/ state[r] = "building" /\ attempt'[r] = attempt[r]
      \/ state[r] = "repairing" /\ attempt'[r] = attempt[r] + 1 /\ attempt'[r] \in Attempts
  BY <1>1, BoundsAssumption DEF Attempts, TypeOK, RequestType, StartBuilder
<1>5. cleanup'[r] = cleanup[r]
  BY DEF DuringTask, requestVars, assetVars, Active, Goto, StartBuilder
<1>6. boot'[r] = boot[r] /\ bootId' = bootId /\ dispatch'[r] = dispatch[r]
  BY DEF DuringTask, requestVars, assetVars, Active, Goto, StartBuilder
<1>7. canceller'[r] = canceller[r]
  BY DEF DuringTask, requestVars, assetVars, Active, Goto, StartBuilder
<1>8. Stands(r, "create")
  BY DEF Stands, TypeOK, TaskType, Tasks, DuringTask, requestVars, assetVars, Active, Goto,
         StartBuilder
<1>9. AssetsKept(r)
  BY DEF AssetsKept, RowsKept, RemotesKept, ListsKept, DuringTask, requestVars, assetVars,
         Active, Goto, StartBuilder
<1>10. KillsKept(r)
  BY KillUntouched DEF DuringTask, requestVars, assetVars, Active, Goto, StartBuilder
<1>11. /\ Boots(r)' /\ Kills(r)' /\ OwnKill(r)' /\ Results(r)'
       /\ Spared(r)' /\ Endings(r)' /\ Emptied(r)'
  BY <1>1, <1>3, <1>4, <1>5, <1>6, <1>7, <1>8, <1>9, <1>10
     DEF RunInv, Boots, Kills, OwnKill, Results, Spared, Endings, Emptied, Struck, Aborted,
         Keeps, Terminal, Live, At, Mine, AssetsKept, RowsKept, RemotesKept, ListsKept,
         KillsKept, KillKept, Stands, Cand
<1>12. Births(r)'
  <2>1. Cand(r)' = <<r, attempt'[r]>> /\ Cand(r)' \in Mine(r)
    BY <1>1, <1>4 DEF Cand, Mine, Candidates
  <2>2. Unborn(<<r, attempt'[r]>>)
    BY <1>1, <1>3, <1>4, <2>1 DEF RunInv, Births, Cand, At
  <2>3. \A c \in Mine(r) : c[2] > attempt'[r] => Unborn(c)
    BY <1>1, <1>4, MinePair, BoundsAssumption DEF Attempts, RunInv, Births
  <2>4. QED
    BY <1>1, <1>3, <1>6, <1>8, <1>9, <2>1, <2>2, <2>3
       DEF RunInv, Births, Unborn, At, Mine, Stands, AssetsKept, RowsKept, RemotesKept
<1>13. Ledger(r)'
  <2>1. \A c \in Mine(r) : c[2] < attempt'[r] => remote[c] # "live"
    <3> SUFFICES ASSUME NEW c \in Mine(r), c[2] < attempt'[r] PROVE remote[c] # "live"
      OBVIOUS
    <3>1. c = <<r, c[2]>> /\ c[2] \in Nat
      BY MinePair, BoundsAssumption DEF Attempts
    <3>2. CASE c[2] < attempt[r]
      BY <1>1, <3>2 DEF RunInv, Ledger
    <3>3. CASE c[2] = attempt[r] /\ state[r] = "repairing"
      BY <1>1, <1>3, <3>1, <3>3 DEF RunInv, Results, Cand
    <3>4. QED
      BY <1>1, <1>4, <3>1, <3>2, <3>3
  <2>2. QED
    BY <1>1, <1>6, <1>9, <2>1
       DEF RunInv, Ledger, Mine, AssetsKept, RowsKept, RemotesKept, ListsKept
<1>14. QED
  BY <1>2, <1>11, <1>12, <1>13, StepOfRun DEF RunInv

\* A create makes a sandbox that no row and no destroy knows yet; when its answer is lost
\* there will never be a row.
LEMMA CreateSandboxKeeps ==
    ASSUME TypeOK, LockInv, SandboxInv, NEW r \in Runs, CreateSandbox(r)
    PROVE  SandboxInv'
<1>1. /\ RunInv(r) /\ attempt[r] \in Nat
      /\ Cand(r) \in Mine(r) /\ Cand(r)[1] = r /\ Cand(r)[2] = attempt[r]
  BY CandMine DEF SandboxInv
<1>2. OthersSame(r)
  BY <1>1
     DEF OthersSame, SameRun, OutcomeKept, RequestKept, AssetsKept, RowsKept, RemotesKept,
         ListsKept, KillsKept, KillKept, Mine, Struck, Cand, TypeOK, StateType, CleanupType,
         RequestType, AssetType, ProcessType, TaskType, KillType, DuringTask, requestVars,
         Goto, CreateSandbox
<1>3. At(r, "create")
  BY DEF At, DuringTask, requestVars, Goto, CreateSandbox
<1>4. \/ RemoteSet(r, Cand(r), "live") /\ Stands(r, "register")
      \/ /\ task'[r].pc = "result" /\ task'[r].outcome = "failed"
         /\ RemotesKept(r) \/ RemoteSet(r, Cand(r), "live")
  BY <1>1
     DEF RemotesKept, Stands, RemoteSet, Mine, Cand, TypeOK, AssetType, TaskType, Tasks,
         DuringTask, requestVars, Goto, CreateSandbox
<1>5. OutcomeKept(r) /\ RequestKept(r) /\ RowsKept(r) /\ ListsKept(r)
  BY DEF RequestKept, RowsKept, ListsKept, OutcomeKept, DuringTask, requestVars, Goto,
         CreateSandbox
<1>6. KillsKept(r)
  BY KillUntouched DEF DuringTask, requestVars, Goto, CreateSandbox
<1>7. Births(r)'
  BY <1>1, <1>3, <1>4, <1>5, <1>6
     DEF RunInv, Births, Unborn, At, Mine, RequestKept, RowsKept, RemotesKept, ListsKept,
         KillsKept, KillKept, OutcomeKept, Stands, RemoteSet, Cand
<1>8. Boots(r)'
  BY <1>1, <1>3, <1>4, <1>5, <1>6
     DEF RunInv, Boots, At, Mine, RequestKept, RowsKept, RemotesKept, ListsKept, KillsKept,
         KillKept, OutcomeKept, Stands, RemoteSet, Cand
<1>9. OwnKill(r)'
  BY <1>1, <1>3, <1>4, <1>5, <1>6
     DEF RunInv, OwnKill, At, Mine, RequestKept, RowsKept, RemotesKept, ListsKept,
         KillsKept, KillKept, OutcomeKept, Stands, RemoteSet, Cand
<1>10. Endings(r)'
  BY <1>1, <1>3, <1>4, <1>5, <1>6
     DEF RunInv, Endings, Terminal, Live, At, Mine, RequestKept, RowsKept, RemotesKept,
         ListsKept, KillsKept, KillKept, OutcomeKept, Stands, RemoteSet, Cand
<1>11. Ledger(r)'
  BY <1>1, <1>3, <1>4, <1>5, <1>6
     DEF RunInv, Ledger, Births, Kills, Results, OpenRows, Unborn, Struck, At, Mine,
         RequestKept, RowsKept, RemotesKept, ListsKept, KillsKept, KillKept, OutcomeKept,
         Stands, RemoteSet, Cand
<1>12. Kills(r)'
  BY <1>1, <1>3, <1>4, <1>5, <1>6
     DEF RunInv, Kills, Births, Ledger, Struck, Unborn, OpenRows, At, Mine, RequestKept,
         RowsKept, RemotesKept, ListsKept, KillsKept, KillKept, OutcomeKept, Stands,
         RemoteSet, Cand, Destroyers
<1>13. Results(r)'
  BY <1>1, <1>3, <1>4, <1>5, <1>6
     DEF RunInv, Results, Births, Boots, Ledger, Kills, OwnKill, Unborn, OpenRows, Struck,
         At, Mine, RequestKept, RowsKept, RemotesKept, ListsKept, KillsKept, KillKept,
         OutcomeKept, Stands, RemoteSet, Cand
<1>14. Spared(r)'
  BY <1>1, <1>3, <1>4, <1>5, <1>6
     DEF RunInv, Spared, Births, Ledger, Kills, OwnKill, Struck, Aborted, Keeps, Terminal,
         Unborn, OpenRows, At, Mine, RequestKept, RowsKept, RemotesKept, ListsKept,
         KillsKept, KillKept, OutcomeKept, Stands, RemoteSet, Cand, Destroyers
<1>15. Emptied(r)'
  BY <1>1, <1>3, <1>4, <1>5, <1>6
     DEF RunInv, Emptied, Births, Ledger, Endings, Terminal, Unborn, OpenRows, Live, At,
         Mine, RequestKept, RowsKept, RemotesKept, ListsKept, KillsKept, KillKept,
         OutcomeKept, Stands, RemoteSet, Cand, LockInv, StopsUnderWay, LiveOfThisBoot
<1>16. QED
  BY <1>2, <1>7, <1>8, <1>9, <1>10, <1>11, <1>12, <1>13, <1>14, <1>15, StepOfRun DEF RunInv

LEMMA RegisterSandboxKeeps ==
    ASSUME TypeOK, LockInv, SandboxInv, NEW r \in Runs, RegisterSandbox(r)
    PROVE  SandboxInv'
<1>1. /\ RunInv(r) /\ attempt[r] \in Nat
      /\ Cand(r) \in Mine(r) /\ Cand(r)[1] = r /\ Cand(r)[2] = attempt[r]
  BY CandMine DEF SandboxInv
<1>2. OthersSame(r)
  BY <1>1
     DEF OthersSame, SameRun, OutcomeKept, RequestKept, AssetsKept, RowsKept, RemotesKept,
         ListsKept, KillsKept, KillKept, Mine, Struck, Cand, TypeOK, StateType, CleanupType,
         RequestType, AssetType, ProcessType, TaskType, KillType, DuringTask, requestVars,
         Active, Goto, RegisterSandbox
<1>3. At(r, "register")
  BY DEF At, DuringTask, requestVars, Active, Goto, RegisterSandbox
<1>4. tracked' = tracked \cup {Cand(r)} /\ doomed' = doomed
  BY DEF Cand, DuringTask, requestVars, Active, Goto, RegisterSandbox
<1>5. \/ /\ state[r] \in Live \ {"cancel_requested"}
         /\ RowSet(r, Cand(r), "candidate") /\ Stands(r, "build")
      \/ RowsKept(r) /\ task'[r].pc = "unwind"
  BY <1>1
     DEF RowsKept, Stands, RowSet, Mine, Cand, Live, TypeOK, AssetType, StateType, TaskType,
         Tasks, DuringTask, requestVars, Active, Goto, RegisterSandbox
<1>6. OutcomeKept(r) /\ RequestKept(r) /\ RemotesKept(r)
  BY DEF RequestKept, RemotesKept, OutcomeKept, DuringTask, requestVars, Active, Goto,
         RegisterSandbox
<1>7. KillsKept(r)
  BY KillUntouched DEF DuringTask, requestVars, Active, Goto, RegisterSandbox
<1>8. Births(r)'
  BY <1>1, <1>3, <1>4, <1>5, <1>6, <1>7
     DEF RunInv, Births, Unborn, At, Mine, RequestKept, RowsKept, RemotesKept, KillsKept,
         KillKept, OutcomeKept, Stands, RowSet, Cand, Live
<1>9. Boots(r)'
  BY <1>1, <1>3, <1>4, <1>5, <1>6, <1>7
     DEF RunInv, Boots, At, Mine, RequestKept, RowsKept, RemotesKept, KillsKept, KillKept,
         OutcomeKept, Stands, RowSet, Cand, Live
<1>10. OwnKill(r)'
  BY <1>1, <1>3, <1>4, <1>5, <1>6, <1>7
     DEF RunInv, OwnKill, At, Mine, RequestKept, RowsKept, RemotesKept, KillsKept, KillKept,
         OutcomeKept, Stands, RowSet, Cand, Live
<1>11. Results(r)'
  BY <1>1, <1>3, <1>4, <1>5, <1>6, <1>7
     DEF RunInv, Results, At, Mine, RequestKept, RowsKept, RemotesKept, KillsKept, KillKept,
         OutcomeKept, Stands, RowSet, Cand, Live
<1>12. Spared(r)'
  BY <1>1, <1>3, <1>4, <1>5, <1>6, <1>7
     DEF RunInv, Spared, Struck, Aborted, Keeps, Terminal, At, Mine, RequestKept, RowsKept,
         RemotesKept, KillsKept, KillKept, OutcomeKept, Stands, RowSet, Cand, Live
<1>13. Ledger(r)'
  BY <1>1, <1>3, <1>4, <1>5, <1>6, <1>7
     DEF RunInv, Ledger, Births, Kills, Results, OpenRows, Unborn, Struck, At, Mine,
         RequestKept, RowsKept, RemotesKept, KillsKept, KillKept, OutcomeKept, Stands,
         RowSet, Cand, Live
<1>14. Kills(r)'
  BY <1>1, <1>3, <1>4, <1>5, <1>6, <1>7
     DEF RunInv, Kills, Births, Ledger, Struck, Unborn, OpenRows, At, Mine, RequestKept,
         RowsKept, RemotesKept, KillsKept, KillKept, OutcomeKept, Stands, RowSet, Cand,
         Destroyers, Live
<1>15. Endings(r)'
  BY <1>1, <1>3, <1>4, <1>5, <1>6, <1>7
     DEF RunInv, Endings, Births, Spared, Terminal, Live, Unborn, Struck, Aborted, Keeps,
         At, Mine, RequestKept, RowsKept, RemotesKept, KillsKept, KillKept, OutcomeKept,
         Stands, RowSet, Cand, LockInv, StopsUnderWay, LiveOfThisBoot
<1>16. Emptied(r)'
  BY <1>1, <1>3, <1>4, <1>5, <1>6, <1>7
     DEF RunInv, Emptied, Births, Ledger, Endings, Terminal, Unborn, OpenRows, Live, At,
         Mine, RequestKept, RowsKept, RemotesKept, KillsKept, KillKept, OutcomeKept, Stands,
         RowSet, Cand, LockInv, StopsUnderWay, LiveOfThisBoot
<1>17. QED
  BY <1>2, <1>8, <1>9, <1>10, <1>11, <1>12, <1>13, <1>14, <1>15, <1>16, StepOfRun DEF RunInv

\* From the registration on the sandbox is in the list and in its row.
LEMMA BuildKeeps ==
    ASSUME TypeOK, LockInv, SandboxInv, NEW r \in Runs, Build(r)
    PROVE  SandboxInv'
<1>1. /\ RunInv(r) /\ attempt[r] \in Nat
      /\ Cand(r) \in Mine(r) /\ Cand(r)[1] = r /\ Cand(r)[2] = attempt[r]
  BY CandMine DEF SandboxInv
<1>2. OthersSame(r)
  BY <1>1
     DEF OthersSame, SameRun, OutcomeKept, RequestKept, AssetsKept, RowsKept, RemotesKept,
         ListsKept, KillsKept, KillKept, Mine, Struck, Cand, TypeOK, StateType, CleanupType,
         RequestType, AssetType, ProcessType, TaskType, KillType, DuringTask, requestVars,
         assetVars, Goto, Build
<1>3. At(r, "build")
  BY DEF At, DuringTask, requestVars, assetVars, Goto, Build
<1>4. \/ ~Aborted(r) /\ Stands(r, "save")
      \/ task'[r].pc = "unwind"
  BY DEF Stands, Aborted, TypeOK, TaskType, Tasks, DuringTask, requestVars, assetVars, Goto,
         Build
<1>5. OutcomeKept(r) /\ RequestKept(r) /\ AssetsKept(r)
  BY DEF RequestKept, AssetsKept, RowsKept, RemotesKept, ListsKept, OutcomeKept, DuringTask,
         requestVars, assetVars, Goto, Build
<1>6. KillsKept(r)
  BY KillUntouched DEF DuringTask, requestVars, assetVars, Goto, Build
<1>7. /\ Births(r)' /\ Boots(r)' /\ Ledger(r)' /\ Kills(r)' /\ OwnKill(r)'
      /\ Results(r)' /\ Spared(r)' /\ Endings(r)' /\ Emptied(r)'
  BY <1>1, <1>3, <1>4, <1>5, <1>6
     DEF RunInv, Births, Boots, Ledger, Kills, OwnKill, Results, Spared, Endings, Emptied,
         Unborn, OpenRows, Struck, Aborted, Keeps, Terminal, Live, At, Mine, RequestKept,
         AssetsKept, RowsKept, RemotesKept, ListsKept, KillsKept, KillKept, OutcomeKept,
         Stands, Cand
<1>8. QED
  BY <1>2, <1>7, StepOfRun DEF RunInv

LEMMA UnwindKeeps ==
    ASSUME TypeOK, LockInv, SandboxInv, NEW r \in Runs, Unwind(r)
    PROVE  SandboxInv'
<1>1. /\ RunInv(r) /\ attempt[r] \in Nat
      /\ Cand(r) \in Mine(r) /\ Cand(r)[1] = r /\ Cand(r)[2] = attempt[r]
  BY CandMine DEF SandboxInv
<1>2. OthersSame(r)
  BY <1>1
     DEF OthersSame, SameRun, OutcomeKept, RequestKept, AssetsKept, RowsKept, RemotesKept,
         ListsKept, KillsKept, KillKept, Mine, Struck, Cand, TypeOK, StateType, CleanupType,
         RequestType, AssetType, ProcessType, TaskType, KillType, DuringTask, requestVars,
         Unwind
<1>3. At(r, "unwind")
  BY DEF At, DuringTask, requestVars, Unwind
<1>4. task'[r].pc = "unwound" /\ task'[r].outcome = task[r].outcome
  BY DEF TypeOK, TaskType, Tasks, DuringTask, requestVars, Unwind
<1>5. \/ RemoteSet(r, Cand(r), "gone")
      \/ RemotesKept(r) /\ ~task'[r].clean
  BY <1>1
     DEF RemotesKept, RemoteSet, Mine, Cand, TypeOK, AssetType, TaskType, Tasks, DuringTask,
         requestVars, Unwind
<1>6. OutcomeKept(r) /\ RequestKept(r) /\ RowsKept(r) /\ ListsKept(r)
  BY DEF RequestKept, RowsKept, ListsKept, OutcomeKept, DuringTask, requestVars, Unwind
<1>7. KillsKept(r)
  BY KillUntouched DEF DuringTask, requestVars, Unwind
<1>8. /\ Births(r)' /\ Boots(r)' /\ Ledger(r)' /\ Kills(r)' /\ OwnKill(r)'
      /\ Results(r)' /\ Spared(r)' /\ Endings(r)' /\ Emptied(r)'
  BY <1>1, <1>3, <1>4, <1>5, <1>6, <1>7
     DEF RunInv, Births, Boots, Ledger, Kills, OwnKill, Results, Spared, Endings, Emptied,
         Unborn, OpenRows, Struck, Aborted, Keeps, Terminal, Live, At, Mine, RequestKept,
         RowsKept, RemotesKept, ListsKept, KillsKept, KillKept, OutcomeKept, RemoteSet, Cand
<1>9. QED
  BY <1>2, <1>8, StepOfRun DEF RunInv

LEMMA UnwindCallbackKeeps ==
    ASSUME TypeOK, LockInv, SandboxInv, NEW r \in Runs, UnwindCallback(r)
    PROVE  SandboxInv'
<1>1. /\ RunInv(r) /\ attempt[r] \in Nat
      /\ Cand(r) \in Mine(r) /\ Cand(r)[1] = r /\ Cand(r)[2] = attempt[r]
  BY CandMine DEF SandboxInv
<1>2. OthersSame(r)
  BY <1>1
     DEF OthersSame, SameRun, OutcomeKept, RequestKept, AssetsKept, RowsKept, RemotesKept,
         ListsKept, KillsKept, KillKept, Mine, Struck, Cand, TypeOK, StateType, CleanupType,
         RequestType, AssetType, ProcessType, TaskType, KillType, DuringTask, requestVars,
         Goto, UnwindCallback
<1>3. At(r, "unwound") /\ Stands(r, "result")
  BY DEF Stands, At, TypeOK, TaskType, Tasks, DuringTask, requestVars, Goto, UnwindCallback
<1>4. state'[r] = state[r] /\ cleanup'[r] \in {cleanup[r], "pending"}
  BY DEF TypeOK, CleanupType, StateType, DuringTask, requestVars, Goto, UnwindCallback
<1>5. \/ RowsKept(r) /\ ListsKept(r) /\ (~task[r].clean \/ row[Cand(r)] = "none")
      \/ /\ task[r].clean /\ row[Cand(r)] # "none" /\ RowSet(r, Cand(r), "destroyed")
         /\ tracked' = tracked \ {Cand(r)} /\ doomed' = doomed \ {Cand(r)}
  BY <1>1
     DEF RowsKept, ListsKept, RowSet, Mine, Cand, TypeOK, AssetType, TaskType, Tasks,
         DuringTask, requestVars, Goto, UnwindCallback
<1>6. RequestKept(r) /\ RemotesKept(r)
  BY DEF RequestKept, RemotesKept, DuringTask, requestVars, Goto, UnwindCallback
<1>7. KillsKept(r)
  BY KillUntouched DEF DuringTask, requestVars, Goto, UnwindCallback
<1>8. /\ Births(r)' /\ Boots(r)' /\ Ledger(r)' /\ Kills(r)' /\ OwnKill(r)'
      /\ Results(r)' /\ Spared(r)' /\ Endings(r)' /\ Emptied(r)'
  BY <1>1, <1>3, <1>4, <1>5, <1>6, <1>7
     DEF RunInv, Births, Boots, Ledger, Kills, OwnKill, Results, Spared, Endings, Emptied,
         Unborn, OpenRows, Struck, Aborted, Keeps, Terminal, Live, At, Mine, RequestKept,
         RowsKept, RemotesKept, ListsKept, KillsKept, KillKept, Stands, RowSet, Cand
<1>9. QED
  BY <1>2, <1>8, StepOfRun DEF RunInv

LEMMA HandleResultKeeps ==
    ASSUME TypeOK, LockInv, SandboxInv, NEW r \in Runs, HandleResult(r)
    PROVE  SandboxInv'
<1>1. /\ RunInv(r) /\ attempt[r] \in Nat
      /\ Cand(r) \in Mine(r) /\ Cand(r)[1] = r /\ Cand(r)[2] = attempt[r]
  BY CandMine DEF SandboxInv
<1>2. OthersSame(r)
  BY <1>1
     DEF OthersSame, SameRun, OutcomeKept, RequestKept, AssetsKept, RowsKept, RemotesKept,
         ListsKept, KillsKept, KillKept, Mine, Struck, Cand, TypeOK, StateType, CleanupType,
         RequestType, AssetType, ProcessType, TaskType, KillType, DuringTask, requestVars,
         Active, Goto, Confirmed, assetVars, FinishFailed, EndRun, HandleResult
<1>3. At(r, "result")
  BY DEF At, DuringTask, requestVars, Active, Goto, Confirmed, assetVars, FinishFailed,
         EndRun, HandleResult
<1>4. \/ OutcomeKept(r) /\ Stands(r, "catch")
      \/ /\ task[r].outcome = "failed" /\ Stands(r, "final")
         /\ Finished(r, "failed", Confirmed(task[r].clean))
      \/ task[r].outcome = "broken" /\ OutcomeKept(r) /\ Stands(r, "broken")
  BY DEF OutcomeKept, Stands, Finished, Confirmed, TypeOK, CleanupType, StateType, TaskType,
         Tasks, DuringTask, requestVars, Active, Goto, assetVars, FinishFailed, EndRun,
         HandleResult
<1>5. RequestKept(r) /\ AssetsKept(r)
  BY DEF RequestKept, AssetsKept, RowsKept, RemotesKept, ListsKept, DuringTask, requestVars,
         Active, Goto, Confirmed, assetVars, FinishFailed, EndRun, HandleResult
<1>6. KillsKept(r)
  BY KillUntouched
     DEF DuringTask, requestVars, Active, Goto, Confirmed, assetVars, FinishFailed, EndRun,
         HandleResult
<1>7. /\ Births(r)' /\ Boots(r)' /\ Ledger(r)' /\ Kills(r)'
      /\ OwnKill(r)' /\ Results(r)' /\ Spared(r)' /\ Endings(r)'
  BY <1>1, <1>3, <1>4, <1>5, <1>6
     DEF RunInv, Births, Boots, Ledger, Kills, OwnKill, Results, Spared, Endings, Unborn,
         OpenRows, Struck, Aborted, Keeps, Terminal, Live, At, Mine, RequestKept,
         AssetsKept, RowsKept, RemotesKept, ListsKept, KillsKept, KillKept, OutcomeKept,
         Stands, Finished, Confirmed, Cand
<1>8. Emptied(r)'
  <2>1. cleanup'[r] # "confirmed" \/ cleanup[r] = "confirmed" \/ task[r].clean
    BY <1>4 DEF Finished, OutcomeKept, Confirmed
  <2>2. task[r].clean /\ row[Cand(r)] # "none" => remote[Cand(r)] # "live"
    BY <1>1, <1>3 DEF RunInv, Results, At
  <2>3. QED
    BY <1>1, <1>5, <2>1, <2>2, EmptiedKept
       DEF RequestKept, AssetsKept, RowsKept, RemotesKept
<1>9. QED
  BY <1>2, <1>7, <1>8, StepOfRun DEF RunInv

LEMMA FinishBuildFailureKeeps ==
    ASSUME TypeOK, LockInv, SandboxInv, NEW r \in Runs, FinishBuildFailure(r)
    PROVE  SandboxInv'
<1>1. /\ RunInv(r) /\ attempt[r] \in Nat
      /\ Cand(r) \in Mine(r) /\ Cand(r)[1] = r /\ Cand(r)[2] = attempt[r]
  BY CandMine DEF SandboxInv
<1>2. OthersSame(r)
  BY <1>1
     DEF OthersSame, SameRun, OutcomeKept, RequestKept, AssetsKept, RowsKept, RemotesKept,
         ListsKept, KillsKept, KillKept, Mine, Struck, Cand, TypeOK, StateType, CleanupType,
         RequestType, AssetType, ProcessType, TaskType, KillType, DuringTask, requestVars,
         assetVars, Active, Goto, FinishFailed, EndRun, FinishBuildFailure
<1>3. At(r, "broken")
  BY DEF At, DuringTask, requestVars, assetVars, Active, Goto, FinishFailed, EndRun,
         FinishBuildFailure
<1>4. \/ Finished(r, "failed", "pending") /\ Stands(r, "final")
      \/ /\ task[r].clean /\ state[r] = "building" /\ cleanup'[r] = cleanup[r]
         /\ \/ state'[r] = "repairing" /\ Stands(r, "attempt")
            \/ state'[r] = "needs_changes" /\ Stands(r, "final")
  BY DEF Stands, Finished, OutcomeKept, TypeOK, CleanupType, RequestType, StateType,
         TaskType, Tasks, DuringTask, requestVars, assetVars, Active, Goto, FinishFailed,
         EndRun, FinishBuildFailure
<1>5. RequestKept(r) /\ AssetsKept(r)
  BY DEF RequestKept, AssetsKept, RowsKept, RemotesKept, ListsKept, DuringTask, requestVars,
         assetVars, Active, Goto, FinishFailed, EndRun, FinishBuildFailure
<1>6. KillsKept(r)
  BY KillUntouched
     DEF DuringTask, requestVars, assetVars, Active, Goto, FinishFailed, EndRun,
         FinishBuildFailure
<1>7. /\ Births(r)' /\ Boots(r)' /\ Ledger(r)' /\ Kills(r)' /\ OwnKill(r)'
      /\ Results(r)' /\ Spared(r)' /\ Endings(r)' /\ Emptied(r)'
  BY <1>1, <1>3, <1>4, <1>5, <1>6
     DEF RunInv, Births, Boots, Ledger, Kills, OwnKill, Results, Spared, Endings, Emptied,
         Unborn, OpenRows, Struck, Aborted, Keeps, Terminal, Live, At, Mine, RequestKept,
         AssetsKept, RowsKept, RemotesKept, ListsKept, KillsKept, KillKept, Stands,
         Finished, OutcomeKept, Cand
<1>8. QED
  BY <1>2, <1>7, StepOfRun DEF RunInv

LEMMA SaveCandidateKeeps ==
    ASSUME TypeOK, LockInv, SandboxInv, NEW r \in Runs, SaveCandidate(r)
    PROVE  SandboxInv'
<1>1. /\ RunInv(r) /\ attempt[r] \in Nat
      /\ Cand(r) \in Mine(r) /\ Cand(r)[1] = r /\ Cand(r)[2] = attempt[r]
  BY CandMine DEF SandboxInv
<1>2. OthersSame(r)
  BY <1>1
     DEF OthersSame, SameRun, OutcomeKept, RequestKept, AssetsKept, RowsKept, RemotesKept,
         ListsKept, KillsKept, KillKept, Mine, Struck, Cand, TypeOK, StateType, CleanupType,
         RequestType, AssetType, ProcessType, TaskType, KillType, DuringTask, requestVars,
         Active, Goto, SaveCandidate
<1>3. At(r, "save") /\ Stands(r, "bind")
  BY DEF Stands, At, TypeOK, TaskType, Tasks, DuringTask, requestVars, Active, Goto,
         SaveCandidate
<1>4. OutcomeKept(r) /\ RequestKept(r) /\ AssetsKept(r)
  BY DEF RequestKept, AssetsKept, RowsKept, RemotesKept, ListsKept, OutcomeKept, DuringTask,
         requestVars, Active, Goto, SaveCandidate
<1>5. KillsKept(r)
  BY KillUntouched DEF DuringTask, requestVars, Active, Goto, SaveCandidate
<1>6. /\ Births(r)' /\ Boots(r)' /\ Ledger(r)' /\ Kills(r)' /\ OwnKill(r)'
      /\ Results(r)' /\ Spared(r)' /\ Endings(r)' /\ Emptied(r)'
  BY <1>1, <1>3, <1>4, <1>5
     DEF RunInv, Births, Boots, Ledger, Kills, OwnKill, Results, Spared, Endings, Emptied,
         Unborn, OpenRows, Struck, Aborted, Keeps, Terminal, Live, At, Mine, RequestKept,
         AssetsKept, RowsKept, RemotesKept, ListsKept, KillsKept, KillKept, OutcomeKept,
         Stands, Cand
<1>7. QED
  BY <1>2, <1>6, StepOfRun DEF RunInv

LEMMA QueueReviewerKeeps ==
    ASSUME TypeOK, LockInv, SandboxInv, NEW r \in Runs, QueueReviewer(r)
    PROVE  SandboxInv'
<1>1. /\ RunInv(r) /\ attempt[r] \in Nat
      /\ Cand(r) \in Mine(r) /\ Cand(r)[1] = r /\ Cand(r)[2] = attempt[r]
  BY CandMine DEF SandboxInv
<1>2. OthersSame(r)
  BY <1>1
     DEF OthersSame, SameRun, OutcomeKept, RequestKept, AssetsKept, RowsKept, RemotesKept,
         ListsKept, KillsKept, KillKept, Mine, Struck, Cand, TypeOK, StateType, CleanupType,
         RequestType, AssetType, ProcessType, TaskType, KillType, DuringTask, requestVars,
         Active, Goto, QueueReviewer
<1>3. At(r, "bind") /\ Stands(r, "review")
  BY DEF Stands, At, TypeOK, TaskType, Tasks, DuringTask, requestVars, Active, Goto,
         QueueReviewer
<1>4. state[r] = "building" /\ state'[r] = "verifying"
  BY DEF TypeOK, StateType, DuringTask, requestVars, Active, Goto, QueueReviewer
<1>5. cleanup'[r] = cleanup[r]
  BY DEF DuringTask, requestVars, Active, Goto, QueueReviewer
<1>6. row[Cand(r)] = "candidate" /\ RowSet(r, Cand(r), "candidate-preview")
  BY <1>1
     DEF RowSet, Mine, Cand, TypeOK, AssetType, DuringTask, requestVars, Active, Goto,
         QueueReviewer
<1>7. RequestKept(r) /\ RemotesKept(r) /\ ListsKept(r)
  BY DEF RequestKept, RemotesKept, ListsKept, DuringTask, requestVars, Active, Goto,
         QueueReviewer
<1>8. KillsKept(r)
  BY KillUntouched DEF DuringTask, requestVars, Active, Goto, QueueReviewer
<1>9. /\ Births(r)' /\ Boots(r)' /\ Ledger(r)' /\ Kills(r)' /\ OwnKill(r)'
      /\ Results(r)' /\ Spared(r)' /\ Endings(r)' /\ Emptied(r)'
  BY <1>1, <1>3, <1>4, <1>5, <1>6, <1>7, <1>8
     DEF RunInv, Births, Boots, Ledger, Kills, OwnKill, Results, Spared, Endings, Emptied,
         Unborn, OpenRows, Struck, Aborted, Keeps, Terminal, Live, At, Mine, RequestKept,
         RemotesKept, ListsKept, KillsKept, KillKept, Stands, RowSet, Cand
<1>10. QED
  BY <1>2, <1>9, StepOfRun DEF RunInv

\* The verdict: an accepted candidate is in nobody's hands, a rejected one is released.
LEMMA FinishReviewKeeps ==
    ASSUME TypeOK, LockInv, SandboxInv, NEW r \in Runs, NEW verdict, FinishReview(r, verdict)
    PROVE  SandboxInv'
<1>1. /\ RunInv(r) /\ attempt[r] \in Nat
      /\ Cand(r) \in Mine(r) /\ Cand(r)[1] = r /\ Cand(r)[2] = attempt[r]
  BY CandMine DEF SandboxInv
<1>2. OthersSame(r)
  BY <1>1
     DEF OthersSame, SameRun, OutcomeKept, RequestKept, AssetsKept, RowsKept, RemotesKept,
         ListsKept, KillsKept, KillKept, Mine, Struck, Cand, TypeOK, StateType, CleanupType,
         RequestType, AssetType, ProcessType, TaskType, KillType, requestVars, Reviewable,
         Active, Outcome, FinishReview
<1>3. At(r, "review") /\ row[Cand(r)] = "candidate-preview"
  BY DEF At, Cand, requestVars, Reviewable, Active, Outcome, FinishReview
<1>4. state[r] = "verifying" /\ cleanup'[r] = "clear"
  BY DEF TypeOK, CleanupType, StateType, requestVars, Reviewable, Active, Outcome,
         FinishReview
<1>5. \/ state'[r] = "completed" /\ RowSet(r, Cand(r), "preview")
      \/ state'[r] \in {"failed", "repairing", "needs_changes"} /\ RowsKept(r)
  BY <1>1
     DEF RowsKept, RowSet, Mine, Cand, TypeOK, AssetType, StateType, requestVars,
         Reviewable, Active, Outcome, FinishReview
<1>6. \/ task'[r].pc = "catch" /\ task'[r].unknown
      \/ state'[r] = "completed" /\ task'[r].pc = "final" /\ task'[r].kept
      \/ state'[r] = "repairing" /\ task'[r].pc = "repair"
      \/ state'[r] \in {"failed", "needs_changes"} /\ task'[r].pc = "release"
  <2>1. CASE verdict = "passed"
    <3>1. Outcome(r, verdict)[1] = "completed"
      BY <2>1 DEF Outcome
    <3>2. state'[r] = "completed"
      BY <3>1 DEF TypeOK, StateType, FinishReview
    <3>3. \/ task' = [task EXCEPT ![r].kept = (verdict = "passed"), ![r].pc = "final"]
          \/ task' = [task EXCEPT ![r].pc = "catch", ![r].unknown = TRUE]
      BY <2>1 DEF FinishReview
    <3>4. QED
      BY <2>1, <3>2, <3>3 DEF TypeOK, TaskType, Tasks
  <2>2. CASE verdict = "blocked"
    BY <1>1, <2>2 DEF TypeOK, StateType, TaskType, Tasks, Outcome, FinishReview
  <2>3. CASE verdict \notin {"passed", "blocked"}
    BY <1>1, <2>3 DEF TypeOK, StateType, TaskType, Tasks, Outcome, FinishReview
  <2>4. QED
    BY <2>1, <2>2, <2>3
<1>7. RequestKept(r) /\ RemotesKept(r) /\ ListsKept(r)
  BY DEF RequestKept, RemotesKept, ListsKept, requestVars, Reviewable, Active, Outcome,
         FinishReview
<1>8. KillsKept(r)
  BY KillUntouched DEF requestVars, Reviewable, Active, Outcome, FinishReview
<1>9. /\ Births(r)' /\ Boots(r)' /\ Ledger(r)' /\ Kills(r)' /\ OwnKill(r)'
      /\ Results(r)' /\ Spared(r)' /\ Endings(r)' /\ Emptied(r)'
  BY <1>1, <1>3, <1>4, <1>5, <1>6, <1>7, <1>8
     DEF RunInv, Births, Boots, Ledger, Kills, OwnKill, Results, Spared, Endings, Emptied,
         Unborn, OpenRows, Struck, Aborted, Keeps, Terminal, Live, At, Mine, RequestKept,
         RowsKept, RemotesKept, ListsKept, KillsKept, KillKept, RowSet, Cand
<1>10. QED
  BY <1>2, <1>9, StepOfRun DEF RunInv

\* A rejected attempt's sandbox is gone, in its row as well, before the next begins.
LEMMA ReleaseRejectedKeeps ==
    ASSUME TypeOK, LockInv, SandboxInv, NEW r \in Runs, ReleaseRejected(r)
    PROVE  SandboxInv'
<1>1. /\ RunInv(r) /\ attempt[r] \in Nat
      /\ Cand(r) \in Mine(r) /\ Cand(r)[1] = r /\ Cand(r)[2] = attempt[r]
  BY CandMine DEF SandboxInv
<1>2. OthersSame(r)
  <2> SUFFICES ASSUME NEW x \in Runs, x # r PROVE SameRun(x)
    BY DEF OthersSame
  <2>1. OutcomeKept(x) /\ RequestKept(x) /\ task'[x] = task[x]
    BY DEF OutcomeKept, RequestKept, TypeOK, StateType, CleanupType, TaskType, Tasks,
           DuringTask, requestVars, assetVars, Goto, DestroyAnswered, KillEnded, NoKill,
           ReleaseRejected
  <2>2. AssetsKept(x)
    BY DEF AssetsKept, RowsKept, RemotesKept, ListsKept, Mine, TypeOK, AssetType,
           DuringTask, requestVars, assetVars, Goto, DestroyAnswered, KillEnded, NoKill,
           ReleaseRejected
  <2>3. kill'[x] = kill[x]
    BY DEF TypeOK, KillType, Destroyers, DuringTask, requestVars, assetVars, Goto,
           DestroyAnswered, KillEnded, NoKill, ReleaseRejected
  <2>4. \A e \in Destroyers : KillKept(e, x)
    <3>1. kill[r].stage # "none" => kill[r].cand[1] = r
      BY <1>1 DEF RunInv, OwnKill
    <3>2. /\ kill'[r].stage = "none"
          /\ \A e \in Destroyers : e # r => kill'[e] = kill[e]
      BY DEF TypeOK, KillType, Destroyers, DuringTask, requestVars, assetVars, Goto,
             DestroyAnswered, KillEnded, NoKill, ReleaseRejected
    <3>3. QED
      BY <3>1, <3>2 DEF KillKept, Struck, Mine
  <2>5. QED
    BY <2>1, <2>2, <2>3, <2>4 DEF SameRun, KillsKept
<1>3. At(r, "release") /\ Stands(r, "final")
  BY DEF Stands, At, TypeOK, TaskType, Tasks, DuringTask, requestVars, assetVars, Goto,
         DestroyAnswered, KillEnded, NoKill, ReleaseRejected
<1>4. OutcomeKept(r) /\ RequestKept(r) /\ AssetsKept(r)
  BY DEF RequestKept, AssetsKept, RowsKept, RemotesKept, ListsKept, OutcomeKept, DuringTask,
         requestVars, assetVars, Goto, DestroyAnswered, KillEnded, NoKill, ReleaseRejected
<1>5. OwnKillEnds(r)
  BY <1>1
     DEF OwnKillEnds, KillKept, Struck, Mine, TypeOK, KillType, RunInv, OwnKill, Destroyers,
         DuringTask, requestVars, assetVars, Goto, DestroyAnswered, KillEnded, NoKill,
         ReleaseRejected
<1>6. /\ Births(r)' /\ Boots(r)' /\ Ledger(r)' /\ Kills(r)' /\ OwnKill(r)'
      /\ Results(r)' /\ Spared(r)' /\ Endings(r)' /\ Emptied(r)'
  BY <1>1, <1>3, <1>4, <1>5
     DEF RunInv, Births, Boots, Ledger, Kills, OwnKill, Results, Spared, Endings, Emptied,
         Unborn, OpenRows, Struck, Aborted, Keeps, Terminal, Live, At, Mine, RequestKept,
         AssetsKept, RowsKept, RemotesKept, ListsKept, OutcomeKept, Stands, OwnKillEnds,
         KillKept, Cand
<1>7. QED
  BY <1>2, <1>6, StepOfRun DEF RunInv

LEMMA PrepareRepairKeeps ==
    ASSUME TypeOK, LockInv, SandboxInv, NEW r \in Runs, PrepareRepair(r)
    PROVE  SandboxInv'
<1>1. /\ RunInv(r) /\ attempt[r] \in Nat
      /\ Cand(r) \in Mine(r) /\ Cand(r)[1] = r /\ Cand(r)[2] = attempt[r]
  BY CandMine DEF SandboxInv
<1>2. OthersSame(r)
  <2> SUFFICES ASSUME NEW x \in Runs, x # r PROVE SameRun(x)
    BY DEF OthersSame
  <2>1. OutcomeKept(x) /\ RequestKept(x) /\ task'[x] = task[x]
    BY DEF OutcomeKept, RequestKept, TypeOK, StateType, CleanupType, TaskType, Tasks,
           DuringTask, requestVars, assetVars, Goto, DestroyAnswered, KillEnded, NoKill,
           FinishFailed, EndRun, PrepareRepair
  <2>2. AssetsKept(x)
    BY DEF AssetsKept, RowsKept, RemotesKept, ListsKept, Mine, TypeOK, AssetType,
           DuringTask, requestVars, assetVars, Goto, DestroyAnswered, KillEnded, NoKill,
           FinishFailed, EndRun, PrepareRepair
  <2>3. kill'[x] = kill[x]
    BY DEF TypeOK, KillType, Destroyers, DuringTask, requestVars, assetVars, Goto,
           DestroyAnswered, KillEnded, NoKill, FinishFailed, EndRun, PrepareRepair
  <2>4. \A e \in Destroyers : KillKept(e, x)
    <3>1. kill[r].stage # "none" => kill[r].cand[1] = r
      BY <1>1 DEF RunInv, OwnKill
    <3>2. /\ kill'[r].stage = "none"
          /\ \A e \in Destroyers : e # r => kill'[e] = kill[e]
      BY DEF TypeOK, KillType, Destroyers, DuringTask, requestVars, assetVars, Goto,
             DestroyAnswered, KillEnded, NoKill, FinishFailed, EndRun, PrepareRepair
    <3>3. QED
      BY <3>1, <3>2 DEF KillKept, Struck, Mine
  <2>5. QED
    BY <2>1, <2>2, <2>3, <2>4 DEF SameRun, KillsKept
<1>3. At(r, "repair")
  BY DEF At, DuringTask, requestVars, assetVars, Goto, DestroyAnswered, KillEnded, NoKill,
         FinishFailed, EndRun, PrepareRepair
<1>4. \/ Finished(r, "failed", "pending") /\ Stands(r, "final")
      \/ /\ OutcomeKept(r) /\ Stands(r, "attempt")
         /\ kill[r].stage = "done" \/ Cand(r) \notin tracked
  BY DEF OutcomeKept, Stands, Finished, Cand, TypeOK, CleanupType, KillType, RequestType,
         StateType, TaskType, Tasks, Destroyers, DuringTask, requestVars, assetVars, Goto,
         DestroyAnswered, KillEnded, NoKill, FinishFailed, EndRun, PrepareRepair
<1>5. RequestKept(r) /\ AssetsKept(r)
  BY DEF RequestKept, AssetsKept, RowsKept, RemotesKept, ListsKept, DuringTask, requestVars,
         assetVars, Goto, DestroyAnswered, KillEnded, NoKill, FinishFailed, EndRun,
         PrepareRepair
<1>6. OwnKillEnds(r)
  BY <1>1
     DEF OwnKillEnds, KillKept, Struck, Mine, TypeOK, KillType, RunInv, OwnKill, Destroyers,
         DuringTask, requestVars, assetVars, Goto, DestroyAnswered, KillEnded, NoKill,
         FinishFailed, EndRun, PrepareRepair
<1>7. task'[r].pc = "attempt" => remote[Cand(r)] # "live"
  BY <1>1, <1>3, <1>4, NothingLeft DEF RunInv, Births, At, Stands
<1>8. Boots(r)'
  BY <1>1, <1>3, <1>4, <1>5, <1>6, <1>7
     DEF RunInv, Boots, At, Mine, RequestKept, AssetsKept, RowsKept, RemotesKept, ListsKept,
         OutcomeKept, Stands, OwnKillEnds, KillKept, Finished, Cand
<1>9. Ledger(r)'
  BY <1>1, <1>3, <1>4, <1>5, <1>6, <1>7
     DEF RunInv, Ledger, OpenRows, At, Mine, RequestKept, AssetsKept, RowsKept, RemotesKept,
         ListsKept, OutcomeKept, Stands, OwnKillEnds, KillKept, Finished, Cand
<1>10. Kills(r)'
  BY <1>1, <1>3, <1>4, <1>5, <1>6, <1>7
     DEF RunInv, Kills, Struck, At, Mine, RequestKept, AssetsKept, RowsKept, RemotesKept,
         ListsKept, OutcomeKept, Stands, OwnKillEnds, KillKept, Finished, Cand
<1>11. OwnKill(r)'
  BY <1>1, <1>3, <1>4, <1>5, <1>6, <1>7
     DEF RunInv, OwnKill, At, Mine, RequestKept, AssetsKept, RowsKept, RemotesKept,
         ListsKept, OutcomeKept, Stands, OwnKillEnds, KillKept, Finished, Cand
<1>12. Spared(r)'
  BY <1>1, <1>3, <1>4, <1>5, <1>6, <1>7
     DEF RunInv, Spared, Struck, Aborted, Keeps, Terminal, At, Mine, RequestKept,
         AssetsKept, RowsKept, RemotesKept, ListsKept, OutcomeKept, Stands, OwnKillEnds,
         KillKept, Finished, Cand
<1>13. Endings(r)'
  BY <1>1, <1>3, <1>4, <1>5, <1>6, <1>7
     DEF RunInv, Endings, Terminal, Live, At, Mine, RequestKept, AssetsKept, RowsKept,
         RemotesKept, ListsKept, OutcomeKept, Stands, OwnKillEnds, KillKept, Finished, Cand
<1>14. Emptied(r)'
  BY <1>1, <1>3, <1>4, <1>5, <1>6, <1>7
     DEF RunInv, Emptied, Terminal, At, Mine, RequestKept, AssetsKept, RowsKept,
         RemotesKept, ListsKept, OutcomeKept, Stands, OwnKillEnds, KillKept, Finished, Cand
<1>15. Births(r)'
  BY <1>1, <1>3, <1>4, <1>5, <1>6, <1>7
     DEF RunInv, Births, Boots, Ledger, Kills, OwnKill, Results, Spared, Endings, Emptied,
         Unborn, OpenRows, Struck, Aborted, Keeps, Terminal, Live, At, Mine, RequestKept,
         AssetsKept, RowsKept, RemotesKept, ListsKept, OutcomeKept, Stands, OwnKillEnds,
         KillKept, Finished, Cand
<1>16. Results(r)'
  BY <1>1, <1>3, <1>4, <1>5, <1>6, <1>7
     DEF RunInv, Results, Births, Boots, Ledger, Kills, OwnKill, Spared, Endings, Emptied,
         Unborn, OpenRows, Struck, Aborted, Keeps, Terminal, Live, At, Mine, RequestKept,
         AssetsKept, RowsKept, RemotesKept, ListsKept, OutcomeKept, Stands, OwnKillEnds,
         KillKept, Finished, Candidates, Cand, Runs, Attempts, TypeOK, StateType,
         RequestType, AssetType
<1>17. QED
  BY <1>2, <1>8, <1>9, <1>10, <1>11, <1>12, <1>13, <1>14, <1>15, <1>16, StepOfRun DEF RunInv

\* The end of the task: what it leaves is either kept as accepted, or destroyed, or known to
\* the sweep.
LEMMA ReconcileKeeps ==
    ASSUME TypeOK, LockInv, SandboxInv, NEW r \in Runs, Reconcile(r)
    PROVE  SandboxInv'
<1>1. /\ RunInv(r) /\ attempt[r] \in Nat
      /\ Cand(r) \in Mine(r) /\ Cand(r)[1] = r /\ Cand(r)[2] = attempt[r]
  BY CandMine DEF SandboxInv
<1>2. OthersSame(r)
  BY <1>1
     DEF OthersSame, SameRun, OutcomeKept, RequestKept, AssetsKept, RowsKept, RemotesKept,
         ListsKept, KillsKept, KillKept, Mine, Struck, Cand, TypeOK, StateType, CleanupType,
         RequestType, AssetType, ProcessType, TaskType, KillType, DuringTask, requestVars,
         assetVars, Reconcile
<1>3. At(r, "catch") /\ task[r].unknown
  BY DEF At, DuringTask, requestVars, assetVars, Reconcile
<1>4. \/ task'[r].pc = "catch" /\ state[r] \notin Terminal
      \/ /\ task'[r].pc = "final" /\ state[r] \in Terminal
         /\ state[r] = "completed" => task'[r].kept
      \/ task'[r].pc = "final" /\ task'[r].unsettled /\ task'[r].unknown
  BY DEF Terminal, TypeOK, StateType, TaskType, Tasks, DuringTask, requestVars, assetVars,
         Reconcile
<1>5. OutcomeKept(r) /\ RequestKept(r) /\ AssetsKept(r)
  BY DEF RequestKept, AssetsKept, RowsKept, RemotesKept, ListsKept, OutcomeKept, DuringTask,
         requestVars, assetVars, Reconcile
<1>6. KillsKept(r)
  BY KillUntouched DEF DuringTask, requestVars, assetVars, Reconcile
<1>7. /\ Births(r)' /\ Boots(r)' /\ Ledger(r)' /\ Kills(r)'
      /\ OwnKill(r)' /\ Results(r)' /\ Endings(r)' /\ Emptied(r)'
  BY <1>1, <1>3, <1>4, <1>5, <1>6
     DEF RunInv, Births, Boots, Ledger, Kills, OwnKill, Results, Endings, Emptied, Unborn,
         OpenRows, Struck, Terminal, Live, At, Mine, RequestKept, AssetsKept, RowsKept,
         RemotesKept, ListsKept, KillsKept, KillKept, OutcomeKept, Cand
<1>8. Spared(r)'
  <2>1. (state[r] = "completed") => task'[r].pc = "final" /\ Keeps(r)'
    BY <1>4 DEF Keeps, Terminal
  <2>2. task'[r].pc \in {"catch", "final"}
    BY <1>4
  <2>3. QED
    BY <1>1, <1>3, <1>5, <1>6, <2>1, <2>2
       DEF RunInv, Spared, At, OutcomeKept, RequestKept, AssetsKept, RemotesKept, ListsKept,
           KillsKept, KillKept, Cand, Mine
<1>9. QED
  BY <1>2, <1>7, <1>8, StepOfRun DEF RunInv

LEMMA EndTaskKeeps ==
    ASSUME TypeOK, LockInv, SandboxInv, NEW r \in Runs, EndTask(r)
    PROVE  SandboxInv'
<1>1. /\ RunInv(r) /\ attempt[r] \in Nat
      /\ Cand(r) \in Mine(r) /\ Cand(r)[1] = r /\ Cand(r)[2] = attempt[r]
  BY CandMine DEF SandboxInv
<1>2. OthersSame(r)
  <2> SUFFICES ASSUME NEW x \in Runs, x # r PROVE SameRun(x)
    BY DEF OthersSame
  <2>1. OutcomeKept(x) /\ RequestKept(x) /\ task'[x] = task[x]
    BY DEF OutcomeKept, RequestKept, TypeOK, StateType, CleanupType, TaskType, Tasks,
           DuringTask, requestVars, assetVars, Goto, DestroyAnswered, KillEnded, NoKill,
           EndByCatch, Confirmed, FinishCancelled, FinishFailed, EndRun, EndTask
  <2>2. AssetsKept(x)
    BY DEF AssetsKept, RowsKept, RemotesKept, ListsKept, Mine, TypeOK, AssetType,
           DuringTask, requestVars, assetVars, Goto, DestroyAnswered, KillEnded, NoKill,
           EndByCatch, Confirmed, FinishCancelled, FinishFailed, EndRun, EndTask
  <2>3. kill'[x] = kill[x]
    BY DEF TypeOK, KillType, Destroyers, DuringTask, requestVars, assetVars, Goto,
           DestroyAnswered, KillEnded, NoKill, EndByCatch, Confirmed, FinishCancelled,
           FinishFailed, EndRun, EndTask
  <2>4. \A e \in Destroyers : KillKept(e, x)
    <3>1. kill[r].stage # "none" => kill[r].cand[1] = r
      BY <1>1 DEF RunInv, OwnKill
    <3>2. /\ kill'[r].stage = "none"
          /\ \A e \in Destroyers : e # r => kill'[e] = kill[e]
      BY DEF TypeOK, KillType, Destroyers, DuringTask, requestVars, assetVars, Goto,
             DestroyAnswered, KillEnded, NoKill, EndByCatch, Confirmed, FinishCancelled,
             FinishFailed, EndRun, EndTask
    <3>3. QED
      BY <3>1, <3>2 DEF KillKept, Struck, Mine
  <2>5. QED
    BY <2>1, <2>2, <2>3, <2>4 DEF SameRun, KillsKept
<1>3. At(r, "catch") /\ ~task[r].unknown /\ task'[r].pc = "final"
  BY DEF At, TypeOK, TaskType, Tasks, DuringTask, requestVars, assetVars, Goto,
         DestroyAnswered, KillEnded, NoKill, EndByCatch, Confirmed, FinishCancelled,
         FinishFailed, EndRun, EndTask
<1>4. \/ OutcomeKept(r)
      \/ /\ state[r] \notin Terminal /\ state'[r] \in {"failed", "cancelled"}
         /\ \/ cleanup'[r] = "pending"
            \/ /\ cleanup'[r] = "confirmed"
               /\ kill[r].stage = "done" \/ Cand(r) \notin tracked
  BY DEF OutcomeKept, Cand, Terminal, TypeOK, CleanupType, KillType, StateType, Destroyers,
         DuringTask, requestVars, assetVars, Goto, DestroyAnswered, KillEnded, NoKill,
         EndByCatch, Confirmed, FinishCancelled, FinishFailed, EndRun, EndTask
<1>5. OutcomeKept(r) => state[r] \in Terminal \/ task'[r].unsettled
  BY DEF OutcomeKept, Terminal, TypeOK, CleanupType, StateType, TaskType, Tasks, DuringTask,
         requestVars, assetVars, Goto, DestroyAnswered, KillEnded, NoKill, EndByCatch,
         Confirmed, FinishCancelled, FinishFailed, EndRun, EndTask
<1>6. RequestKept(r) /\ AssetsKept(r)
  BY DEF RequestKept, AssetsKept, RowsKept, RemotesKept, ListsKept, DuringTask, requestVars,
         assetVars, Goto, DestroyAnswered, KillEnded, NoKill, EndByCatch, Confirmed,
         FinishCancelled, FinishFailed, EndRun, EndTask
<1>7. OwnKillEnds(r)
  BY <1>1
     DEF OwnKillEnds, KillKept, Struck, Mine, TypeOK, KillType, RunInv, OwnKill, Destroyers,
         DuringTask, requestVars, assetVars, Goto, DestroyAnswered, KillEnded, NoKill,
         EndByCatch, Confirmed, FinishCancelled, FinishFailed, EndRun, EndTask
<1>8. row[Cand(r)] # "none" /\ state'[r] # state[r] /\ cleanup'[r] = "confirmed"
        => remote[Cand(r)] # "live"
  BY <1>1, <1>3, <1>4, NothingLeft DEF At, OutcomeKept
<1>9. /\ Births(r)' /\ Boots(r)' /\ Ledger(r)' /\ Kills(r)'
      /\ OwnKill(r)' /\ Results(r)' /\ Spared(r)' /\ Endings(r)'
  BY <1>1, <1>3, <1>4, <1>5, <1>6, <1>7, <1>8
     DEF RunInv, Births, Boots, Ledger, Kills, OwnKill, Results, Spared, Endings, Unborn,
         OpenRows, Struck, Aborted, Keeps, Terminal, Live, At, Mine, RequestKept,
         AssetsKept, RowsKept, RemotesKept, ListsKept, OutcomeKept, OwnKillEnds, KillKept,
         Cand
<1>10. Emptied(r)'
  <2>1. cleanup'[r] # "confirmed" \/ cleanup[r] = "confirmed" \/ state'[r] # state[r]
    BY <1>4 DEF OutcomeKept, Terminal
  <2>2. QED
    BY <1>1, <1>6, <1>8, <2>1, EmptiedKept
       DEF RequestKept, AssetsKept, RowsKept, RemotesKept
<1>11. QED
  BY <1>2, <1>9, <1>10, StepOfRun DEF RunInv

LEMMA FinishTaskKeeps ==
    ASSUME TypeOK, LockInv, SandboxInv, NEW r \in Runs, FinishTask(r)
    PROVE  SandboxInv'
<1>1. /\ RunInv(r) /\ attempt[r] \in Nat
      /\ Cand(r) \in Mine(r) /\ Cand(r)[1] = r /\ Cand(r)[2] = attempt[r]
  BY CandMine DEF SandboxInv
<1>2. OthersSame(r)
  <2> SUFFICES ASSUME NEW x \in Runs, x # r PROVE SameRun(x)
    BY DEF OthersSame
  <2>1. OutcomeKept(x) /\ RequestKept(x) /\ task'[x] = task[x]
    BY DEF OutcomeKept, RequestKept, TypeOK, StateType, CleanupType, TaskType, Tasks,
           DuringTask, requestVars, assetVars, Goto, DestroyAnswered, KillEnded, NoKill,
           NoTask, FinishTask
  <2>2. AssetsKept(x)
    BY DEF AssetsKept, RowsKept, RemotesKept, ListsKept, Mine, TypeOK, AssetType,
           DuringTask, requestVars, assetVars, Goto, DestroyAnswered, KillEnded, NoKill,
           NoTask, FinishTask
  <2>3. kill'[x] = kill[x]
    BY DEF TypeOK, KillType, Destroyers, DuringTask, requestVars, assetVars, Goto,
           DestroyAnswered, KillEnded, NoKill, NoTask, FinishTask
  <2>4. \A e \in Destroyers : KillKept(e, x)
    <3>1. kill[r].stage # "none" => kill[r].cand[1] = r
      BY <1>1 DEF RunInv, OwnKill
    <3>2. /\ kill'[r].stage = "none"
          /\ \A e \in Destroyers : e # r => kill'[e] = kill[e]
      BY DEF TypeOK, KillType, Destroyers, DuringTask, requestVars, assetVars, Goto,
             DestroyAnswered, KillEnded, NoKill, NoTask, FinishTask
    <3>3. QED
      BY <3>1, <3>2 DEF KillKept, Struck, Mine
  <2>5. QED
    BY <2>1, <2>2, <2>3, <2>4 DEF SameRun, KillsKept
<1>3. At(r, "final")
  BY DEF At, NoTask, DuringTask, requestVars, assetVars, Goto, DestroyAnswered, KillEnded,
         NoKill, FinishTask
<1>4. \/ Stands(r, "settle")
      \/ ~task[r].unsettled /\ task'[r].pc = "idle"
  BY DEF Stands, TypeOK, TaskType, Tasks, NoTask, DuringTask, requestVars, assetVars, Goto,
         DestroyAnswered, KillEnded, NoKill, FinishTask
<1>5. OutcomeKept(r) /\ RequestKept(r) /\ AssetsKept(r)
  BY DEF RequestKept, AssetsKept, RowsKept, RemotesKept, ListsKept, OutcomeKept, DuringTask,
         requestVars, assetVars, Goto, DestroyAnswered, KillEnded, NoKill, NoTask,
         FinishTask
<1>6. OwnKillEnds(r)
  BY <1>1
     DEF OwnKillEnds, KillKept, Struck, Mine, TypeOK, KillType, RunInv, OwnKill, Destroyers,
         DuringTask, requestVars, assetVars, Goto, DestroyAnswered, KillEnded, NoKill,
         NoTask, FinishTask
<1>7. /\ Births(r)' /\ Boots(r)' /\ Ledger(r)' /\ Kills(r)' /\ OwnKill(r)'
      /\ Results(r)' /\ Spared(r)' /\ Endings(r)' /\ Emptied(r)'
  BY <1>1, <1>3, <1>4, <1>5, <1>6
     DEF RunInv, Births, Boots, Ledger, Kills, OwnKill, Results, Spared, Endings, Emptied,
         Unborn, OpenRows, Struck, Aborted, Keeps, Terminal, Live, At, Mine, RequestKept,
         AssetsKept, RowsKept, RemotesKept, ListsKept, OutcomeKept, Stands, OwnKillEnds,
         KillKept, Cand
<1>8. QED
  BY <1>2, <1>7, StepOfRun DEF RunInv

LEMMA SettleKeeps ==
    ASSUME TypeOK, LockInv, SandboxInv, NEW r \in Runs, Settle(r)
    PROVE  SandboxInv'
<1>1. /\ RunInv(r) /\ attempt[r] \in Nat
      /\ Cand(r) \in Mine(r) /\ Cand(r)[1] = r /\ Cand(r)[2] = attempt[r]
  BY CandMine DEF SandboxInv
<1>2. OthersSame(r)
  <2> SUFFICES ASSUME NEW x \in Runs, x # r PROVE SameRun(x)
    BY DEF OthersSame
  <2>1. OutcomeKept(x) /\ RequestKept(x) /\ task'[x] = task[x]
    BY DEF OutcomeKept, RequestKept, TypeOK, StateType, CleanupType, TaskType, Tasks,
           DuringTask, requestVars, assetVars, DestroyAnswered, KillEnded, NoKill, NoTask,
           Confirmed, FinishCancelled, FinishFailed, EndRun, Settle
  <2>2. AssetsKept(x)
    BY DEF AssetsKept, RowsKept, RemotesKept, ListsKept, Mine, TypeOK, AssetType,
           DuringTask, requestVars, assetVars, DestroyAnswered, KillEnded, NoKill, NoTask,
           Confirmed, FinishCancelled, FinishFailed, EndRun, Settle
  <2>3. kill'[x] = kill[x]
    BY DEF TypeOK, KillType, Destroyers, DuringTask, requestVars, assetVars,
           DestroyAnswered, KillEnded, NoKill, NoTask, Confirmed, FinishCancelled,
           FinishFailed, EndRun, Settle
  <2>4. \A e \in Destroyers : KillKept(e, x)
    <3>1. kill[r].stage # "none" => kill[r].cand[1] = r
      BY <1>1 DEF RunInv, OwnKill
    <3>2. /\ kill'[r].stage = "none"
          /\ \A e \in Destroyers : e # r => kill'[e] = kill[e]
      BY DEF TypeOK, KillType, Destroyers, DuringTask, requestVars, assetVars,
             DestroyAnswered, KillEnded, NoKill, NoTask, Confirmed, FinishCancelled,
             FinishFailed, EndRun, Settle
    <3>3. QED
      BY <3>1, <3>2 DEF KillKept, Struck, Mine
  <2>5. QED
    BY <2>1, <2>2, <2>3, <2>4 DEF SameRun, KillsKept
<1>3. At(r, "settle") /\ task'[r].pc = "idle"
  BY DEF At, TypeOK, TaskType, Tasks, NoTask, DuringTask, requestVars, assetVars,
         DestroyAnswered, KillEnded, NoKill, Confirmed, FinishCancelled, FinishFailed,
         EndRun, Settle
<1>4. \/ state[r] \in Terminal /\ state'[r] = state[r]
      \/ state[r] \notin Terminal /\ state'[r] \in {"failed", "cancelled"}
  BY DEF Terminal, TypeOK, StateType, DuringTask, requestVars, assetVars, DestroyAnswered,
         KillEnded, NoKill, NoTask, Confirmed, FinishCancelled, FinishFailed, EndRun, Settle
<1>5. \/ cleanup'[r] = "pending"
      \/ state'[r] = state[r] /\ cleanup'[r] = cleanup[r]
      \/ cleanup'[r] = "confirmed" /\ Cand(r) \notin tracked
  <2>1. CASE state[r] \in Terminal
    BY <2>1 DEF Confirmed, TypeOK, CleanupType, StateType, EndRun, Settle
  <2>2. CASE state[r] \notin Terminal
    <3>1. cleanup' = [cleanup EXCEPT ![r] = Confirmed(Cand(r) \notin tracked)]
      BY <2>2 DEF FinishCancelled, FinishFailed, EndRun, Settle
    <3>2. cleanup'[r] = Confirmed(Cand(r) \notin tracked)
      BY <3>1 DEF TypeOK, CleanupType
    <3>3. QED
      BY <3>2 DEF Confirmed
  <2>3. QED
    BY <2>1, <2>2
<1>6. RequestKept(r) /\ AssetsKept(r)
  BY DEF RequestKept, AssetsKept, RowsKept, RemotesKept, ListsKept, DuringTask, requestVars,
         assetVars, DestroyAnswered, KillEnded, NoKill, NoTask, Confirmed, FinishCancelled,
         FinishFailed, EndRun, Settle
<1>7. OwnKillEnds(r)
  BY <1>1
     DEF OwnKillEnds, KillKept, Struck, Mine, TypeOK, KillType, RunInv, OwnKill, Destroyers,
         DuringTask, requestVars, assetVars, DestroyAnswered, KillEnded, NoKill, NoTask,
         Confirmed, FinishCancelled, FinishFailed, EndRun, Settle
<1>8. /\ Births(r)' /\ Boots(r)' /\ Ledger(r)' /\ Kills(r)'
      /\ OwnKill(r)' /\ Results(r)' /\ Spared(r)' /\ Endings(r)'
  BY <1>1, <1>3, <1>4, <1>5, <1>6, <1>7
     DEF RunInv, Births, Boots, Ledger, Kills, OwnKill, Results, Spared, Endings, Unborn,
         OpenRows, Struck, Aborted, Keeps, Terminal, Live, At, Mine, RequestKept,
         AssetsKept, RowsKept, RemotesKept, ListsKept, OwnKillEnds, KillKept, Cand
<1>9. Emptied(r)'
  <2>1. row[Cand(r)] # "none" /\ Cand(r) \notin tracked => remote[Cand(r)] # "live"
    BY <1>1, <1>3, NothingLeft DEF At
  <2>2. QED
    BY <1>1, <1>5, <1>6, <2>1, EmptiedKept
       DEF RequestKept, AssetsKept, RowsKept, RemotesKept
<1>10. QED
  BY <1>2, <1>8, <1>9, StepOfRun DEF RunInv

\* A destroy, from its start to the write of its outcome.
LEMMA TaskDestroyKeeps ==
    ASSUME TypeOK, LockInv, SandboxInv, NEW r \in Runs, TaskDestroy(r)
    PROVE  SandboxInv'
<1>1. /\ RunInv(r) /\ attempt[r] \in Nat
      /\ Cand(r) \in Mine(r) /\ Cand(r)[1] = r /\ Cand(r)[2] = attempt[r]
  BY CandMine DEF SandboxInv
<1>2. OthersSame(r)
  BY <1>1
     DEF OthersSame, SameRun, OutcomeKept, RequestKept, AssetsKept, RowsKept, RemotesKept,
         ListsKept, KillsKept, KillKept, Mine, Struck, Cand, TypeOK, StateType, CleanupType,
         RequestType, AssetType, ProcessType, TaskType, KillType, DuringKill, requestVars,
         assetVars, BeginKill, TaskDestroy
<1>3. Cand(r) \in tracked /\ tracked' = tracked /\ doomed' = doomed \cup {Cand(r)}
  BY DEF Cand, DuringKill, requestVars, assetVars, BeginKill, TaskDestroy
<1>4. \/ task[r].pc \in {"release", "repair"}
      \/ At(r, "catch") /\ ~task[r].unknown
      \/ At(r, "final") /\ ~Keeps(r)
      \/ At(r, "settle") /\ state[r] # "completed"
  BY DEF Keeps, At, DuringKill, requestVars, assetVars, BeginKill, TaskDestroy
<1>5. kill[r].stage = "none" /\ kill'[r].stage = "kill" /\ kill'[r].cand = Cand(r)
  BY DEF Cand, TypeOK, KillType, Destroyers, DuringKill, requestVars, assetVars, BeginKill,
         TaskDestroy
<1>6. \A d \in Destroyers : d # r => kill'[d] = kill[d]
  BY DEF DuringKill, requestVars, assetVars, BeginKill, TaskDestroy
<1>7. OutcomeKept(r) /\ RequestKept(r) /\ task'[r] = task[r] /\ RowsKept(r) /\ RemotesKept(r)
  BY DEF RequestKept, RowsKept, RemotesKept, OutcomeKept, DuringKill, requestVars,
         assetVars, BeginKill, TaskDestroy
<1>8. /\ Births(r)' /\ Boots(r)' /\ Ledger(r)' /\ Kills(r)' /\ OwnKill(r)'
      /\ Results(r)' /\ Spared(r)' /\ Endings(r)' /\ Emptied(r)'
  BY <1>1, <1>3, <1>4, <1>5, <1>6, <1>7
     DEF RunInv, Births, Boots, Ledger, Kills, OwnKill, Results, Spared, Endings, Emptied,
         Unborn, OpenRows, Struck, Aborted, Keeps, Terminal, Live, At, Mine, RequestKept,
         RowsKept, RemotesKept, OutcomeKept, Cand
<1>9. QED
  BY <1>2, <1>8, StepOfRun DEF RunInv

LEMMA KillRemoteKeeps ==
    ASSUME TypeOK, LockInv, SandboxInv, NEW d \in Destroyers,
           NEW r \in Runs, NEW c \in Mine(r), kill[d].cand = c, KillRemote(d)
    PROVE  SandboxInv'
<1>1. /\ RunInv(r) /\ attempt[r] \in Nat
      /\ Cand(r) \in Mine(r) /\ Cand(r)[1] = r /\ Cand(r)[2] = attempt[r]
  BY CandMine DEF SandboxInv
<1>2. (d \in Runs => d = r) /\ c[1] = r /\ kill[d].stage # "none"
  BY <1>1, CandMine
     DEF SandboxInv, RunInv, OwnKill, Mine, DuringKill, requestVars, NextStage, KillRemote
<1>3. OthersSame(r)
  <2> SUFFICES ASSUME NEW x \in Runs, x # r PROVE SameRun(x)
    BY DEF OthersSame
  <2>1. OutcomeKept(x) /\ RequestKept(x) /\ task'[x] = task[x]
    BY <1>2
       DEF OutcomeKept, RequestKept, TypeOK, StateType, CleanupType, DuringKill,
           requestVars, NextStage, KillRemote
  <2>2. AssetsKept(x)
    BY <1>2
       DEF AssetsKept, RowsKept, RemotesKept, ListsKept, Mine, TypeOK, AssetType,
           DuringKill, requestVars, NextStage, KillRemote
  <2>3. d # x /\ Sweep # x /\ kill'[x] = kill[x]
    BY <1>2, NamesAssumption
       DEF TypeOK, KillType, Destroyers, DuringKill, requestVars, NextStage, KillRemote
  <2>4. \A e \in Destroyers : KillKept(e, x)
    BY <1>2
       DEF KillKept, Struck, Mine, TypeOK, KillType, Destroyers, DuringKill, requestVars,
           NextStage, KillRemote
  <2>5. QED
    BY <2>1, <2>2, <2>3, <2>4 DEF SameRun, KillsKept
<1>4. Struck(d, c) /\ kill[d].stage = "kill" /\ kill'[d].cand = c
  BY <1>2
     DEF Struck, TypeOK, KillType, Destroyers, DuringKill, requestVars, NextStage,
         KillRemote
<1>5. \/ RemoteSet(r, c, "gone") /\ kill'[d].stage = "mark"
      \/ RemotesKept(r) /\ kill'[d].stage = "park"
  BY <1>2
     DEF RemotesKept, RemoteSet, Mine, TypeOK, AssetType, KillType, Destroyers, DuringKill,
         requestVars, NextStage, KillRemote
<1>6. \A e \in Destroyers : e # d => kill'[e] = kill[e]
  BY <1>2 DEF TypeOK, KillType, DuringKill, requestVars, NextStage, KillRemote
<1>7. OutcomeKept(r) /\ RequestKept(r) /\ task'[r] = task[r] /\ RowsKept(r) /\ ListsKept(r)
  BY <1>2
     DEF RequestKept, RowsKept, ListsKept, OutcomeKept, DuringKill, requestVars, NextStage,
         KillRemote
<1>8. Births(r)' /\ Boots(r)' /\ Ledger(r)' /\ Kills(r)'
  BY <1>1, <1>2, <1>4, <1>5, <1>6, <1>7
     DEF RunInv, Births, Boots, Ledger, Kills, Unborn, OpenRows, Struck, At, Mine,
         RequestKept, RowsKept, RemotesKept, ListsKept, OutcomeKept, RemoteSet, Cand,
         Destroyers
<1>9. OwnKill(r)' /\ Results(r)' /\ Spared(r)' /\ Endings(r)'
  BY <1>1, <1>2, <1>4, <1>5, <1>6, <1>7
     DEF RunInv, OwnKill, Results, Spared, Endings, Struck, Aborted, Keeps, Terminal, Live,
         At, Mine, RequestKept, RowsKept, RemotesKept, ListsKept, OutcomeKept, RemoteSet,
         Cand, Destroyers
<1>10. Emptied(r)'
  BY <1>1, <1>2, <1>4, <1>5, <1>6, <1>7
     DEF RunInv, Emptied, Terminal, At, Mine, RequestKept, RowsKept, RemotesKept, ListsKept,
         OutcomeKept, RemoteSet, Cand
<1>11. QED
  BY <1>3, <1>8, <1>9, <1>10, StepOfRun DEF RunInv

LEMMA MarkDestroyedKeeps ==
    ASSUME TypeOK, LockInv, SandboxInv, NEW d \in Destroyers,
           NEW r \in Runs, NEW c \in Mine(r), kill[d].cand = c, MarkDestroyed(d)
    PROVE  SandboxInv'
<1>1. /\ RunInv(r) /\ attempt[r] \in Nat
      /\ Cand(r) \in Mine(r) /\ Cand(r)[1] = r /\ Cand(r)[2] = attempt[r]
  BY CandMine DEF SandboxInv
<1>2. (d \in Runs => d = r) /\ c[1] = r /\ kill[d].stage # "none"
  BY <1>1, CandMine
     DEF SandboxInv, RunInv, OwnKill, Mine, DuringKill, requestVars, NextStage, Answer,
         NoKill, MarkDestroyed
<1>3. OthersSame(r)
  <2> SUFFICES ASSUME NEW x \in Runs, x # r PROVE SameRun(x)
    BY DEF OthersSame
  <2>1. OutcomeKept(x) /\ RequestKept(x) /\ task'[x] = task[x]
    BY <1>2
       DEF OutcomeKept, RequestKept, TypeOK, StateType, CleanupType, DuringKill,
           requestVars, NextStage, Answer, NoKill, MarkDestroyed
  <2>2. AssetsKept(x)
    BY <1>2
       DEF AssetsKept, RowsKept, RemotesKept, ListsKept, Mine, TypeOK, AssetType,
           DuringKill, requestVars, NextStage, Answer, NoKill, MarkDestroyed
  <2>3. d # x /\ Sweep # x /\ kill'[x] = kill[x]
    BY <1>2, NamesAssumption
       DEF TypeOK, KillType, Destroyers, DuringKill, requestVars, NextStage, Answer, NoKill,
           MarkDestroyed
  <2>4. \A e \in Destroyers : KillKept(e, x)
    BY <1>2
       DEF KillKept, Struck, Mine, TypeOK, KillType, Destroyers, DuringKill, requestVars,
           NextStage, Answer, NoKill, MarkDestroyed
  <2>5. QED
    BY <2>1, <2>2, <2>3, <2>4 DEF SameRun, KillsKept
<1>4. Struck(d, c) /\ kill[d].stage = "mark" /\ (kill'[d].stage # "none" => kill'[d].cand = c)
  BY <1>2
     DEF Struck, TypeOK, KillType, Destroyers, DuringKill, requestVars, NextStage, Answer,
         NoKill, MarkDestroyed
<1>5. \/ RowsKept(r) /\ kill'[d].stage \in {"none", "failed"}
      \/ RowSet(r, c, "destroyed") /\ row[c] # "none" /\ kill'[d].stage = "confirm"
  BY <1>2
     DEF RowsKept, RowSet, Mine, TypeOK, AssetType, KillType, Destroyers, DuringKill,
         requestVars, NextStage, Answer, NoKill, MarkDestroyed
<1>6. \A e \in Destroyers : e # d => kill'[e] = kill[e]
  BY <1>2
     DEF TypeOK, KillType, DuringKill, requestVars, NextStage, Answer, NoKill, MarkDestroyed
<1>7. OutcomeKept(r) /\ RequestKept(r) /\ task'[r] = task[r] /\ RemotesKept(r) /\ ListsKept(r)
  BY <1>2
     DEF RequestKept, RemotesKept, ListsKept, OutcomeKept, DuringKill, requestVars,
         NextStage, Answer, NoKill, MarkDestroyed
<1>8. /\ Births(r)' /\ Boots(r)' /\ Ledger(r)' /\ Kills(r)' /\ OwnKill(r)'
      /\ Results(r)' /\ Spared(r)' /\ Endings(r)' /\ Emptied(r)'
  BY <1>1, <1>2, <1>4, <1>5, <1>6, <1>7
     DEF RunInv, Births, Boots, Ledger, Kills, OwnKill, Results, Spared, Endings, Emptied,
         Unborn, OpenRows, Struck, Aborted, Keeps, Terminal, Live, At, Mine, RequestKept,
         RowsKept, RemotesKept, ListsKept, OutcomeKept, RowSet, Cand, Destroyers
<1>9. QED
  BY <1>3, <1>8, StepOfRun DEF RunInv

LEMMA ConfirmCleanupKeeps ==
    ASSUME TypeOK, LockInv, SandboxInv, NEW d \in Destroyers,
           NEW r \in Runs, NEW c \in Mine(r), kill[d].cand = c, ConfirmCleanup(d)
    PROVE  SandboxInv'
<1>1. /\ RunInv(r) /\ attempt[r] \in Nat
      /\ Cand(r) \in Mine(r) /\ Cand(r)[1] = r /\ Cand(r)[2] = attempt[r]
  BY CandMine DEF SandboxInv
<1>2. (d \in Runs => d = r) /\ c[1] = r /\ kill[d].stage # "none"
  BY <1>1, CandMine
     DEF SandboxInv, RunInv, OwnKill, Mine, DuringKill, requestVars, assetVars, Answer,
         NoKill, EndRun, ConfirmCleanup
<1>3. OthersSame(r)
  <2> SUFFICES ASSUME NEW x \in Runs, x # r PROVE SameRun(x)
    BY DEF OthersSame
  <2>1. OutcomeKept(x) /\ RequestKept(x) /\ task'[x] = task[x]
    BY <1>2
       DEF OutcomeKept, RequestKept, TypeOK, StateType, CleanupType, DuringKill,
           requestVars, assetVars, Answer, NoKill, EndRun, ConfirmCleanup
  <2>2. AssetsKept(x)
    BY <1>2
       DEF AssetsKept, RowsKept, RemotesKept, ListsKept, Mine, TypeOK, AssetType,
           DuringKill, requestVars, assetVars, Answer, NoKill, EndRun, ConfirmCleanup
  <2>3. d # x /\ Sweep # x /\ kill'[x] = kill[x]
    BY <1>2, NamesAssumption
       DEF TypeOK, KillType, Destroyers, DuringKill, requestVars, assetVars, Answer, NoKill,
           EndRun, ConfirmCleanup
  <2>4. \A e \in Destroyers : KillKept(e, x)
    BY <1>2
       DEF KillKept, Struck, Mine, TypeOK, KillType, Destroyers, DuringKill, requestVars,
           assetVars, Answer, NoKill, EndRun, ConfirmCleanup
  <2>5. QED
    BY <2>1, <2>2, <2>3, <2>4 DEF SameRun, KillsKept
<1>4. Struck(d, c) /\ kill[d].stage = "confirm" /\ (kill'[d].stage # "none" => kill'[d].cand = c)
  BY <1>2
     DEF Struck, TypeOK, KillType, Destroyers, DuringKill, requestVars, assetVars, Answer,
         NoKill, EndRun, ConfirmCleanup
<1>5. \/ kill'[d].stage \in {"none", "failed"} /\ OutcomeKept(r) /\ ListsKept(r)
      \/ /\ kill'[d].stage \in {"none", "done"}
         /\ tracked' = tracked \ {c} /\ doomed' = doomed \ {c}
         /\ \/ OutcomeKept(r)
            \/ state[r] \in Terminal /\ state'[r] = state[r] /\ cleanup'[r] = "confirmed"
  BY <1>2
     DEF ListsKept, OutcomeKept, Terminal, TypeOK, CleanupType, KillType, StateType,
         Destroyers, DuringKill, requestVars, assetVars, Answer, NoKill, EndRun,
         ConfirmCleanup
<1>6. \A e \in Destroyers : e # d => kill'[e] = kill[e]
  BY <1>2
     DEF TypeOK, KillType, DuringKill, requestVars, assetVars, Answer, NoKill, EndRun,
         ConfirmCleanup
<1>7. RequestKept(r) /\ task'[r] = task[r] /\ RowsKept(r) /\ RemotesKept(r)
  BY <1>2
     DEF RequestKept, RowsKept, RemotesKept, DuringKill, requestVars, assetVars, Answer,
         NoKill, EndRun, ConfirmCleanup
<1>8. /\ Births(r)' /\ Boots(r)' /\ Ledger(r)' /\ Kills(r)'
      /\ OwnKill(r)' /\ Results(r)' /\ Spared(r)' /\ Endings(r)'
  BY <1>1, <1>2, <1>4, <1>5, <1>6, <1>7
     DEF RunInv, Births, Boots, Ledger, Kills, OwnKill, Results, Spared, Endings, Unborn,
         OpenRows, Struck, Aborted, Keeps, Terminal, Live, At, Mine, RequestKept, RowsKept,
         RemotesKept, ListsKept, OutcomeKept, Cand, Destroyers
<1>9. Emptied(r)'
  <2>1. row[c] = "destroyed" /\ remote[c] # "live"
    BY <1>1, <1>4 DEF RunInv, Kills
  <2>2. attempt[r] = 0 => c = Cand(r)
    BY <1>1, <2>1, OnlyCand DEF RunInv
  <2>3. QED
    BY <1>1, <1>7, <2>1, <2>2, EmptiedKept DEF RequestKept, RowsKept, RemotesKept, Emptied, Mine
<1>10. QED
  BY <1>3, <1>8, <1>9, StepOfRun DEF RunInv

LEMMA MarkCleanupPendingKeeps ==
    ASSUME TypeOK, LockInv, SandboxInv, NEW d \in Destroyers,
           NEW r \in Runs, NEW c \in Mine(r), kill[d].cand = c, MarkCleanupPending(d)
    PROVE  SandboxInv'
<1>1. /\ RunInv(r) /\ attempt[r] \in Nat
      /\ Cand(r) \in Mine(r) /\ Cand(r)[1] = r /\ Cand(r)[2] = attempt[r]
  BY CandMine DEF SandboxInv
<1>2. (d \in Runs => d = r) /\ c[1] = r /\ kill[d].stage # "none"
  BY <1>1, CandMine
     DEF SandboxInv, RunInv, OwnKill, Mine, DuringKill, requestVars, assetVars, Answer,
         NoKill, MarkCleanupPending
<1>3. OthersSame(r)
  <2> SUFFICES ASSUME NEW x \in Runs, x # r PROVE SameRun(x)
    BY DEF OthersSame
  <2>1. OutcomeKept(x) /\ RequestKept(x) /\ task'[x] = task[x]
    BY <1>2
       DEF OutcomeKept, RequestKept, TypeOK, StateType, CleanupType, DuringKill,
           requestVars, assetVars, Answer, NoKill, MarkCleanupPending
  <2>2. AssetsKept(x)
    BY <1>2
       DEF AssetsKept, RowsKept, RemotesKept, ListsKept, Mine, TypeOK, AssetType,
           DuringKill, requestVars, assetVars, Answer, NoKill, MarkCleanupPending
  <2>3. d # x /\ Sweep # x /\ kill'[x] = kill[x]
    BY <1>2, NamesAssumption
       DEF TypeOK, KillType, Destroyers, DuringKill, requestVars, assetVars, Answer, NoKill,
           MarkCleanupPending
  <2>4. \A e \in Destroyers : KillKept(e, x)
    BY <1>2
       DEF KillKept, Struck, Mine, TypeOK, KillType, Destroyers, DuringKill, requestVars,
           assetVars, Answer, NoKill, MarkCleanupPending
  <2>5. QED
    BY <2>1, <2>2, <2>3, <2>4 DEF SameRun, KillsKept
<1>4. Struck(d, c) /\ kill[d].stage = "park" /\ kill'[d].stage \in {"none", "failed"}
  BY <1>2
     DEF Struck, TypeOK, KillType, Destroyers, DuringKill, requestVars, assetVars, Answer,
         NoKill, MarkCleanupPending
<1>5. kill'[d].stage # "none" => kill'[d].cand = c
  BY <1>2 DEF DuringKill, requestVars, assetVars, Answer, NoKill, MarkCleanupPending
<1>6. state'[r] = state[r] /\ cleanup'[r] \in {cleanup[r], "pending"}
  BY <1>2 DEF DuringKill, requestVars, assetVars, Answer, NoKill, MarkCleanupPending
<1>7. \A e \in Destroyers : e # d => kill'[e] = kill[e]
  BY <1>2 DEF DuringKill, requestVars, assetVars, Answer, NoKill, MarkCleanupPending
<1>8. RequestKept(r) /\ task'[r] = task[r] /\ AssetsKept(r)
  BY <1>2
     DEF RequestKept, AssetsKept, RowsKept, RemotesKept, ListsKept, DuringKill, requestVars,
         assetVars, Answer, NoKill, MarkCleanupPending
<1>9. /\ Births(r)' /\ Boots(r)' /\ Ledger(r)' /\ Kills(r)' /\ OwnKill(r)'
      /\ Results(r)' /\ Spared(r)' /\ Endings(r)' /\ Emptied(r)'
  BY <1>1, <1>2, <1>4, <1>5, <1>6, <1>7, <1>8
     DEF RunInv, Births, Boots, Ledger, Kills, OwnKill, Results, Spared, Endings, Emptied,
         Unborn, OpenRows, Struck, Aborted, Keeps, Terminal, Live, At, Mine, RequestKept,
         AssetsKept, RowsKept, RemotesKept, ListsKept, Cand, Destroyers
<1>10. QED
  BY <1>3, <1>9, StepOfRun DEF RunInv

\* A stop: it reaches the run's end by itself only if no sandbox was ever registered.
LEMMA RequestCancelKeeps ==
    ASSUME TypeOK, LockInv, SandboxInv, NEW r \in Runs, RequestCancel(r)
    PROVE  SandboxInv'
<1>1. /\ RunInv(r) /\ attempt[r] \in Nat
      /\ Cand(r) \in Mine(r) /\ Cand(r)[1] = r /\ Cand(r)[2] = attempt[r]
  BY CandMine DEF SandboxInv
<1>2. OthersSame(r)
  BY <1>1
     DEF OthersSame, SameRun, OutcomeKept, RequestKept, AssetsKept, RowsKept, RemotesKept,
         ListsKept, KillsKept, KillKept, Mine, Struck, Cand, TypeOK, StateType, CleanupType,
         RequestType, AssetType, ProcessType, TaskType, KillType, requestVars, assetVars,
         EndRun, RequestCancel
<1>3. \/ /\ state[r] = "queued" /\ state'[r] = "cancelled" /\ cleanup'[r] = "confirmed"
         /\ canceller'[r] = canceller[r]
      \/ /\ state[r] \in Live /\ state'[r] = "cancel_requested" /\ canceller'[r] = "dispatch"
         /\ cleanup'[r] \in {cleanup[r], "pending"}
  BY DEF Live, TypeOK, CleanupType, ProcessType, StateType, requestVars, assetVars, EndRun,
         RequestCancel
<1>4. attempt'[r] = attempt[r] /\ boot'[r] = boot[r] /\ bootId' = bootId
      /\ dispatch'[r] = dispatch[r]
  BY DEF requestVars, assetVars, EndRun, RequestCancel
<1>5. task'[r] = task[r] /\ AssetsKept(r)
  BY DEF AssetsKept, RowsKept, RemotesKept, ListsKept, requestVars, assetVars, EndRun,
         RequestCancel
<1>6. KillsKept(r)
  BY KillUntouched DEF requestVars, assetVars, EndRun, RequestCancel
<1>7. /\ Births(r)' /\ Boots(r)' /\ Ledger(r)' /\ Kills(r)' /\ OwnKill(r)'
      /\ Results(r)' /\ Spared(r)' /\ Endings(r)' /\ Emptied(r)'
  BY <1>1, <1>3, <1>4, <1>5, <1>6
     DEF RunInv, Births, Boots, Ledger, Kills, OwnKill, Results, Spared, Endings, Emptied,
         Unborn, OpenRows, Struck, Aborted, Keeps, Terminal, Live, At, Mine, AssetsKept,
         RowsKept, RemotesKept, ListsKept, KillsKept, KillKept, Cand, LockInv,
         StopsUnderWay, LiveOfThisBoot
<1>8. QED
  BY <1>2, <1>7, StepOfRun DEF RunInv

LEMMA DispatchCancelKeeps ==
    ASSUME TypeOK, LockInv, SandboxInv, NEW r \in Runs, DispatchCancel(r)
    PROVE  SandboxInv'
<1>1. /\ RunInv(r) /\ attempt[r] \in Nat
      /\ Cand(r) \in Mine(r) /\ Cand(r)[1] = r /\ Cand(r)[2] = attempt[r]
  BY CandMine DEF SandboxInv
<1>2. OthersSame(r)
  BY <1>1
     DEF OthersSame, SameRun, OutcomeKept, RequestKept, AssetsKept, RowsKept, RemotesKept,
         ListsKept, KillsKept, KillKept, Mine, Struck, Cand, TypeOK, StateType, CleanupType,
         RequestType, AssetType, ProcessType, TaskType, KillType, requestVars, projectVars,
         processVars, assetVars, DispatchCancel
<1>3. canceller[r] = "dispatch"
  BY DEF requestVars, projectVars, processVars, assetVars, DispatchCancel
<1>4. \/ At(r, "idle") /\ canceller'[r] = "finish" /\ task'[r] = task[r]
      \/ canceller'[r] = "none" /\ Signalled(r)
  BY DEF Signalled, At, TypeOK, ProcessType, TaskType, Tasks, requestVars, projectVars,
         processVars, assetVars, DispatchCancel
<1>5. attempt'[r] = attempt[r] /\ boot'[r] = boot[r] /\ bootId' = bootId
      /\ dispatch'[r] = dispatch[r]
  BY DEF requestVars, projectVars, processVars, assetVars, DispatchCancel
<1>6. OutcomeKept(r) /\ AssetsKept(r)
  BY DEF AssetsKept, RowsKept, RemotesKept, ListsKept, OutcomeKept, requestVars,
         projectVars, processVars, assetVars, DispatchCancel
<1>7. KillsKept(r)
  BY KillUntouched DEF requestVars, projectVars, processVars, assetVars, DispatchCancel
<1>8. /\ Births(r)' /\ Boots(r)' /\ Ledger(r)' /\ Kills(r)' /\ OwnKill(r)'
      /\ Results(r)' /\ Spared(r)' /\ Endings(r)' /\ Emptied(r)'
  BY <1>1, <1>3, <1>4, <1>5, <1>6, <1>7
     DEF RunInv, Births, Boots, Ledger, Kills, OwnKill, Results, Spared, Endings, Emptied,
         Unborn, OpenRows, Struck, Aborted, Keeps, Terminal, Live, At, Mine, AssetsKept,
         RowsKept, RemotesKept, ListsKept, KillsKept, KillKept, OutcomeKept, Signalled,
         Cand, LockInv, StopsUnderWay, LiveOfThisBoot
<1>9. QED
  BY <1>2, <1>8, StepOfRun DEF RunInv

LEMMA ReadForCancelKeeps ==
    ASSUME TypeOK, LockInv, SandboxInv, NEW r \in Runs, ReadForCancel(r)
    PROVE  SandboxInv'
<1>1. /\ RunInv(r) /\ attempt[r] \in Nat
      /\ Cand(r) \in Mine(r) /\ Cand(r)[1] = r /\ Cand(r)[2] = attempt[r]
  BY CandMine DEF SandboxInv
<1>2. OthersSame(r)
  BY <1>1
     DEF OthersSame, SameRun, OutcomeKept, RequestKept, AssetsKept, RowsKept, RemotesKept,
         ListsKept, KillsKept, KillKept, Mine, Struck, Cand, TypeOK, StateType, CleanupType,
         RequestType, AssetType, ProcessType, TaskType, KillType, requestVars, projectVars,
         processVars, assetVars, ReadForCancel
<1>3. canceller[r] = "finish"
  BY DEF requestVars, projectVars, processVars, assetVars, ReadForCancel
<1>4. canceller'[r] = IF state[r] \in Terminal THEN "none" ELSE "write"
  BY DEF Terminal, TypeOK, ProcessType, StateType, requestVars, projectVars, processVars,
         assetVars, ReadForCancel
<1>5. attempt'[r] = attempt[r] /\ boot'[r] = boot[r] /\ bootId' = bootId
      /\ dispatch'[r] = dispatch[r]
  BY DEF requestVars, projectVars, processVars, assetVars, ReadForCancel
<1>6. OutcomeKept(r) /\ task'[r] = task[r] /\ AssetsKept(r)
  BY DEF AssetsKept, RowsKept, RemotesKept, ListsKept, OutcomeKept, requestVars,
         projectVars, processVars, assetVars, ReadForCancel
<1>7. KillsKept(r)
  BY KillUntouched DEF requestVars, projectVars, processVars, assetVars, ReadForCancel
<1>8. /\ Births(r)' /\ Boots(r)' /\ Ledger(r)' /\ Kills(r)' /\ OwnKill(r)'
      /\ Results(r)' /\ Spared(r)' /\ Endings(r)' /\ Emptied(r)'
  BY <1>1, <1>3, <1>4, <1>5, <1>6, <1>7
     DEF RunInv, Births, Boots, Ledger, Kills, OwnKill, Results, Spared, Endings, Emptied,
         Unborn, OpenRows, Struck, Aborted, Keeps, Terminal, Live, At, Mine, AssetsKept,
         RowsKept, RemotesKept, ListsKept, KillsKept, KillKept, OutcomeKept, Cand, LockInv,
         StopsUnderWay, LiveOfThisBoot
<1>9. QED
  BY <1>2, <1>8, StepOfRun DEF RunInv

LEMMA WriteCancelledKeeps ==
    ASSUME TypeOK, LockInv, SandboxInv, NEW r \in Runs, WriteCancelled(r)
    PROVE  SandboxInv'
<1>1. /\ RunInv(r) /\ attempt[r] \in Nat
      /\ Cand(r) \in Mine(r) /\ Cand(r)[1] = r /\ Cand(r)[2] = attempt[r]
  BY CandMine DEF SandboxInv
<1>2. OthersSame(r)
  BY <1>1
     DEF OthersSame, SameRun, OutcomeKept, RequestKept, AssetsKept, RowsKept, RemotesKept,
         ListsKept, KillsKept, KillKept, Mine, Struck, Cand, TypeOK, StateType, CleanupType,
         RequestType, AssetType, ProcessType, TaskType, KillType, requestVars, assetVars,
         EndRun, WriteCancelled
<1>3. canceller[r] = "write" /\ canceller'[r] = "none"
  BY DEF TypeOK, ProcessType, requestVars, assetVars, EndRun, WriteCancelled
<1>4. state'[r] = "cancelled" /\ cleanup'[r] = "confirmed"
  BY DEF TypeOK, CleanupType, StateType, requestVars, assetVars, EndRun, WriteCancelled
<1>5. attempt'[r] = attempt[r] /\ boot'[r] = boot[r] /\ bootId' = bootId
      /\ dispatch'[r] = dispatch[r]
  BY DEF requestVars, assetVars, EndRun, WriteCancelled
<1>6. task'[r] = task[r] /\ AssetsKept(r)
  BY DEF AssetsKept, RowsKept, RemotesKept, ListsKept, requestVars, assetVars, EndRun,
         WriteCancelled
<1>7. KillsKept(r)
  BY KillUntouched DEF requestVars, assetVars, EndRun, WriteCancelled
<1>8. /\ Births(r)' /\ Boots(r)' /\ Ledger(r)' /\ Kills(r)' /\ OwnKill(r)'
      /\ Results(r)' /\ Spared(r)' /\ Endings(r)' /\ Emptied(r)'
  BY <1>1, <1>3, <1>4, <1>5, <1>6, <1>7
     DEF RunInv, Births, Boots, Ledger, Kills, OwnKill, Results, Spared, Endings, Emptied,
         Unborn, OpenRows, Struck, Aborted, Keeps, Terminal, Live, At, Mine, AssetsKept,
         RowsKept, RemotesKept, ListsKept, KillsKept, KillKept, Cand, LockInv,
         StopsUnderWay, LiveOfThisBoot
<1>9. QED
  BY <1>2, <1>8, StepOfRun DEF RunInv

\* What comes from outside of the task: the watchdog, the abort's kill, recovery, the
\* sweep and the provider.
LEMMA RunTimeoutKeeps ==
    ASSUME TypeOK, LockInv, SandboxInv, NEW r \in Runs, RunTimeout(r)
    PROVE  SandboxInv'
<1>1. /\ RunInv(r) /\ attempt[r] \in Nat
      /\ Cand(r) \in Mine(r) /\ Cand(r)[1] = r /\ Cand(r)[2] = attempt[r]
  BY CandMine DEF SandboxInv
<1>2. OthersSame(r)
  BY <1>1
     DEF OthersSame, SameRun, OutcomeKept, RequestKept, AssetsKept, RowsKept, RemotesKept,
         ListsKept, KillsKept, KillKept, Mine, Struck, Cand, TypeOK, StateType, CleanupType,
         RequestType, AssetType, ProcessType, TaskType, KillType, requestVars, projectVars,
         processVars, assetVars, RunTimeout
<1>3. Signalled(r) /\ OutcomeKept(r) /\ RequestKept(r) /\ AssetsKept(r)
  BY DEF RequestKept, AssetsKept, RowsKept, RemotesKept, ListsKept, OutcomeKept, Signalled,
         TypeOK, AssetType, CleanupType, ProcessType, RequestType, StateType, TaskType,
         Tasks, requestVars, projectVars, processVars, assetVars, RunTimeout
<1>4. KillsKept(r)
  BY KillUntouched DEF requestVars, projectVars, processVars, assetVars, RunTimeout
<1>5. /\ Births(r)' /\ Boots(r)' /\ Ledger(r)' /\ Kills(r)' /\ OwnKill(r)'
      /\ Results(r)' /\ Spared(r)' /\ Endings(r)' /\ Emptied(r)'
  BY <1>1, <1>3, <1>4
     DEF RunInv, Births, Boots, Ledger, Kills, OwnKill, Results, Spared, Endings, Emptied,
         Unborn, OpenRows, Struck, Aborted, Keeps, Terminal, Live, At, Mine, RequestKept,
         AssetsKept, RowsKept, RemotesKept, ListsKept, KillsKept, KillKept, OutcomeKept,
         Signalled, Cand
<1>6. QED
  BY <1>2, <1>5, StepOfRun DEF RunInv

LEMMA AbortKillKeeps ==
    ASSUME TypeOK, LockInv, SandboxInv, NEW r \in Runs, AbortKill(r)
    PROVE  SandboxInv'
<1>1. /\ RunInv(r) /\ attempt[r] \in Nat
      /\ Cand(r) \in Mine(r) /\ Cand(r)[1] = r /\ Cand(r)[2] = attempt[r]
  BY CandMine DEF SandboxInv
<1>2. OthersSame(r)
  BY <1>1
     DEF OthersSame, SameRun, OutcomeKept, RequestKept, AssetsKept, RowsKept, RemotesKept,
         ListsKept, KillsKept, KillKept, Mine, Struck, Cand, TypeOK, StateType, CleanupType,
         RequestType, AssetType, ProcessType, TaskType, KillType, requestVars, projectVars,
         processVars, assetVars, AbortKill
<1>3. task[r].pc \in {"register", "build"} /\ Aborted(r)
  BY DEF Aborted, requestVars, projectVars, processVars, assetVars, AbortKill
<1>4. RemoteSet(r, Cand(r), "gone")
  BY <1>1
     DEF RemoteSet, Mine, Cand, TypeOK, AssetType, requestVars, projectVars, processVars,
         assetVars, AbortKill
<1>5. OutcomeKept(r) /\ RequestKept(r) /\ task'[r] = task[r] /\ RowsKept(r) /\ ListsKept(r)
  BY DEF RequestKept, RowsKept, ListsKept, OutcomeKept, requestVars, projectVars,
         processVars, assetVars, AbortKill
<1>6. KillsKept(r)
  BY KillUntouched DEF requestVars, projectVars, processVars, assetVars, AbortKill
<1>7. Births(r)' /\ Boots(r)' /\ Ledger(r)' /\ Kills(r)'
  BY <1>1, <1>3, <1>4, <1>5, <1>6
     DEF RunInv, Births, Boots, Ledger, Kills, Unborn, OpenRows, Struck, At, Mine,
         RequestKept, RowsKept, ListsKept, KillsKept, KillKept, OutcomeKept, RemoteSet,
         Aborted, Cand
<1>8. OwnKill(r)' /\ Results(r)' /\ Spared(r)' /\ Endings(r)'
  BY <1>1, <1>3, <1>4, <1>5, <1>6
     DEF RunInv, OwnKill, Results, Spared, Endings, Struck, Aborted, Keeps, Terminal, Live,
         At, Mine, RequestKept, RowsKept, ListsKept, KillsKept, KillKept, OutcomeKept,
         RemoteSet, Cand
<1>9. Emptied(r)'
  BY <1>1, <1>3, <1>4, <1>5, <1>6
     DEF RunInv, Emptied, Terminal, At, Mine, RequestKept, RowsKept, ListsKept, KillsKept,
         KillKept, OutcomeKept, RemoteSet, Aborted, Cand
<1>10. QED
  BY <1>2, <1>7, <1>8, <1>9, StepOfRun DEF RunInv

LEMMA SettleRecoveredRunKeeps ==
    ASSUME TypeOK, LockInv, SandboxInv, NEW r \in Runs, SettleRecoveredRun(r)
    PROVE  SandboxInv'
<1>1. /\ RunInv(r) /\ attempt[r] \in Nat
      /\ Cand(r) \in Mine(r) /\ Cand(r)[1] = r /\ Cand(r)[2] = attempt[r]
  BY CandMine DEF SandboxInv
<1>2. OthersSame(r)
  BY <1>1
     DEF OthersSame, SameRun, OutcomeKept, RequestKept, AssetsKept, RowsKept, RemotesKept,
         ListsKept, KillsKept, KillKept, Mine, Struck, Cand, TypeOK, StateType, CleanupType,
         RequestType, AssetType, ProcessType, TaskType, KillType, requestVars, processVars,
         EndRun, Stale, SettleRecoveredRun
<1>3. boot[r] # bootId /\ cleanup[r] = "pending"
  BY DEF requestVars, processVars, EndRun, Stale, SettleRecoveredRun
<1>4. state'[r] = state[r] /\ cleanup'[r] = "confirmed"
  BY DEF TypeOK, CleanupType, StateType, requestVars, processVars, EndRun, Stale,
         SettleRecoveredRun
<1>5. \A c \in Mine(r) : row[c] \in OpenRows => remote[c] # "live"
  BY MinePair DEF SettleRecoveredRun
<1>6. \A c \in Mine(r) : row'[c] = IF row[c] \in OpenRows THEN "destroyed" ELSE row[c]
  BY DEF Mine, OpenRows, requestVars, processVars, EndRun, Stale, SettleRecoveredRun
<1>7. RequestKept(r) /\ task'[r] = task[r] /\ RemotesKept(r) /\ ListsKept(r)
  BY DEF RequestKept, RemotesKept, ListsKept, requestVars, processVars, EndRun, Stale,
         SettleRecoveredRun
<1>8. KillsKept(r)
  BY KillUntouched DEF requestVars, processVars, EndRun, Stale, SettleRecoveredRun
<1>9. /\ Births(r)' /\ Boots(r)' /\ Ledger(r)' /\ Kills(r)'
      /\ OwnKill(r)' /\ Results(r)' /\ Spared(r)'
  BY <1>1, <1>3, <1>4, <1>5, <1>6, <1>7, <1>8
     DEF RunInv, Births, Boots, Ledger, Kills, OwnKill, Results, Spared, Unborn, OpenRows,
         Struck, Aborted, Keeps, Terminal, At, Mine, RequestKept, RemotesKept, ListsKept,
         KillsKept, KillKept, Cand
<1>10. Endings(r)'
  <2>1. state[r] \in Terminal
    BY <1>1, <1>3 DEF RunInv, Endings, LockInv, LiveOfThisBoot, TypeOK, StateType, States
  <2>2. \A c \in Mine(r) : row[c] = "none" => row'[c] = "none"
    BY <1>6 DEF OpenRows
  <2>3. QED
    BY <1>1, <1>3, <1>4, <1>7, <2>1, <2>2
       DEF RunInv, Endings, At, Mine, RequestKept, Terminal, Live
<1>11. Emptied(r)'
  <2>1. row[Cand(r)] # "none" => remote[Cand(r)] # "live"
    BY <1>1, <1>5 DEF RunInv, Ledger, TypeOK, AssetType, RowStates, OpenRows, Mine
  <2>2. QED
    BY <1>1, <1>6, <1>7, <2>1, EmptiedKept DEF RequestKept, RemotesKept, OpenRows
<1>12. QED
  BY <1>2, <1>9, <1>10, <1>11, StepOfRun DEF RunInv

LEMMA SweepDestroyKeeps ==
    ASSUME TypeOK, LockInv, SandboxInv, NEW r \in Runs, NEW c \in Mine(r), SweepDestroy(c)
    PROVE  SandboxInv'
<1>1. /\ RunInv(r) /\ attempt[r] \in Nat
      /\ Cand(r) \in Mine(r) /\ Cand(r)[1] = r /\ Cand(r)[2] = attempt[r]
  BY CandMine DEF SandboxInv
<1>2. c[1] = r
  BY DEF Mine
<1>3. OthersSame(r)
  BY <1>1, <1>2, NamesAssumption
     DEF OthersSame, SameRun, OutcomeKept, RequestKept, AssetsKept, RowsKept, RemotesKept,
         ListsKept, KillsKept, KillKept, Mine, Struck, Cand, TypeOK, StateType, CleanupType,
         RequestType, AssetType, ProcessType, TaskType, KillType, Destroyers, RunInv,
         OwnKill, DuringKill, requestVars, assetVars, BeginKill, SweepDestroy
<1>4. c \in tracked /\ (c \in doomed \/ At(r, "idle"))
  BY <1>2, <1>1
     DEF At, TypeOK, TaskType, Tasks, DuringKill, requestVars, assetVars, BeginKill,
         SweepDestroy
<1>5. tracked' = tracked /\ doomed' = doomed \cup {c}
  BY <1>2 DEF DuringKill, requestVars, assetVars, BeginKill, SweepDestroy
<1>6. kill[Sweep].stage = "none" /\ kill'[Sweep].stage = "kill" /\ kill'[Sweep].cand = c
  BY <1>2
     DEF TypeOK, KillType, Destroyers, DuringKill, requestVars, assetVars, BeginKill,
         SweepDestroy
<1>7. \A d \in Destroyers : d # Sweep => kill'[d] = kill[d]
  BY <1>2 DEF DuringKill, requestVars, assetVars, BeginKill, SweepDestroy
<1>8. r # Sweep
  BY <1>2, NamesAssumption DEF DuringKill, requestVars, assetVars, BeginKill, SweepDestroy
<1>9. OutcomeKept(r) /\ RequestKept(r) /\ task'[r] = task[r] /\ RowsKept(r) /\ RemotesKept(r)
  BY <1>2
     DEF RequestKept, RowsKept, RemotesKept, OutcomeKept, DuringKill, requestVars,
         assetVars, BeginKill, SweepDestroy
<1>10. /\ Births(r)' /\ Boots(r)' /\ Ledger(r)' /\ Kills(r)' /\ OwnKill(r)'
       /\ Results(r)' /\ Spared(r)' /\ Endings(r)' /\ Emptied(r)'
  BY <1>1, <1>2, <1>4, <1>5, <1>6, <1>7, <1>8, <1>9
     DEF RunInv, Births, Boots, Ledger, Kills, OwnKill, Results, Spared, Endings, Emptied,
         Unborn, OpenRows, Struck, Aborted, Keeps, Terminal, Live, At, Mine, RequestKept,
         RowsKept, RemotesKept, OutcomeKept, Cand, Destroyers
<1>11. QED
  BY <1>3, <1>10, StepOfRun DEF RunInv

LEMMA RecoverKillKeeps ==
    ASSUME TypeOK, LockInv, SandboxInv, NEW r \in Runs, NEW c \in Mine(r), RecoverKill(c)
    PROVE  SandboxInv'
<1>1. /\ RunInv(r) /\ attempt[r] \in Nat
      /\ Cand(r) \in Mine(r) /\ Cand(r)[1] = r /\ Cand(r)[2] = attempt[r]
  BY CandMine DEF SandboxInv
<1>2. c[1] = r
  BY DEF Mine
<1>3. OthersSame(r)
  BY <1>1, <1>2, NamesAssumption
     DEF OthersSame, SameRun, OutcomeKept, RequestKept, AssetsKept, RowsKept, RemotesKept,
         ListsKept, KillsKept, KillKept, Mine, Struck, Cand, TypeOK, StateType, CleanupType,
         RequestType, AssetType, ProcessType, TaskType, KillType, Destroyers, RunInv,
         OwnKill, requestVars, projectVars, processVars, assetVars, Stale, RecoverKill
<1>4. boot[r] # bootId
  BY <1>2 DEF requestVars, projectVars, processVars, assetVars, Stale, RecoverKill
<1>5. remote[c] = "live" /\ RemoteSet(r, c, "gone")
  BY <1>2
     DEF RemoteSet, Mine, TypeOK, AssetType, requestVars, projectVars, processVars,
         assetVars, Stale, RecoverKill
<1>6. OutcomeKept(r) /\ RequestKept(r) /\ task'[r] = task[r] /\ RowsKept(r) /\ ListsKept(r)
  BY <1>2
     DEF RequestKept, RowsKept, ListsKept, OutcomeKept, requestVars, projectVars,
         processVars, assetVars, Stale, RecoverKill
<1>7. KillsKept(r)
  BY KillUntouched DEF requestVars, projectVars, processVars, assetVars, Stale, RecoverKill
<1>8. /\ Births(r)' /\ Boots(r)' /\ Ledger(r)' /\ Kills(r)' /\ OwnKill(r)'
      /\ Results(r)' /\ Spared(r)' /\ Endings(r)' /\ Emptied(r)'
  BY <1>1, <1>2, <1>4, <1>5, <1>6, <1>7
     DEF RunInv, Births, Boots, Ledger, Kills, OwnKill, Results, Spared, Endings, Emptied,
         Unborn, OpenRows, Struck, Aborted, Keeps, Terminal, Live, At, Mine, RequestKept,
         RowsKept, ListsKept, KillsKept, KillKept, OutcomeKept, RemoteSet, Cand, Destroyers
<1>9. QED
  BY <1>3, <1>8, StepOfRun DEF RunInv

LEMMA RemoteExpireKeeps ==
    ASSUME TypeOK, LockInv, SandboxInv, NEW r \in Runs, NEW c \in Mine(r), RemoteExpire(c)
    PROVE  SandboxInv'
<1>1. /\ RunInv(r) /\ attempt[r] \in Nat
      /\ Cand(r) \in Mine(r) /\ Cand(r)[1] = r /\ Cand(r)[2] = attempt[r]
  BY CandMine DEF SandboxInv
<1>2. c[1] = r
  BY DEF Mine
<1>3. OthersSame(r)
  BY <1>1, <1>2, NamesAssumption
     DEF OthersSame, SameRun, OutcomeKept, RequestKept, AssetsKept, RowsKept, RemotesKept,
         ListsKept, KillsKept, KillKept, Mine, Struck, Cand, TypeOK, StateType, CleanupType,
         RequestType, AssetType, ProcessType, TaskType, KillType, Destroyers, RunInv,
         OwnKill, requestVars, projectVars, processVars, assetVars, RemoteExpire
<1>4. At(r, "idle")
  BY <1>2 DEF At, requestVars, projectVars, processVars, assetVars, RemoteExpire
<1>5. remote[c] = "live" /\ RemoteSet(r, c, "gone")
  BY <1>2
     DEF RemoteSet, Mine, TypeOK, AssetType, requestVars, projectVars, processVars,
         assetVars, RemoteExpire
<1>6. OutcomeKept(r) /\ RequestKept(r) /\ task'[r] = task[r] /\ RowsKept(r) /\ ListsKept(r)
  BY <1>2
     DEF RequestKept, RowsKept, ListsKept, OutcomeKept, requestVars, projectVars,
         processVars, assetVars, RemoteExpire
<1>7. KillsKept(r)
  BY KillUntouched DEF requestVars, projectVars, processVars, assetVars, RemoteExpire
<1>8. /\ Births(r)' /\ Boots(r)' /\ Ledger(r)' /\ Kills(r)' /\ OwnKill(r)'
      /\ Results(r)' /\ Spared(r)' /\ Endings(r)' /\ Emptied(r)'
  BY <1>1, <1>2, <1>4, <1>5, <1>6, <1>7
     DEF RunInv, Births, Boots, Ledger, Kills, OwnKill, Results, Spared, Endings, Emptied,
         Unborn, OpenRows, Struck, Aborted, Keeps, Terminal, Live, At, Mine, RequestKept,
         RowsKept, ListsKept, KillsKept, KillKept, OutcomeKept, RemoteSet, Cand, Destroyers
<1>9. QED
  BY <1>3, <1>8, StepOfRun DEF RunInv

-----------------------------------------------------------------------------
(* The other steps, and the theorems.                                        *)

\* A step that touches no run, or nothing at all.
LEMMA OtherKeeps ==
    ASSUME TypeOK, SandboxInv,
           UNCHANGED <<state, cleanup, attempt, boot, bootId, dispatch, canceller, task,
                       row, remote, tracked, doomed, kill>>
    PROVE  SandboxInv'
<1> SUFFICES ASSUME NEW r \in Runs PROVE RunInv(r)'
  BY DEF SandboxInv
<1>1. SameRun(r)
  BY KillUntouched DEF SameRun, OutcomeKept, RequestKept, AssetsKept, RowsKept, RemotesKept,
                       ListsKept
<1>2. QED
  BY <1>1, SameRunKept DEF SandboxInv

\* The next process starts with no task and no list, and with no live run: what it finds
\* is of an earlier boot.
LEMMA RestartKeeps ==
    ASSUME TypeOK, LockInv, SandboxInv, Restart
    PROVE  SandboxInv'
<1> SUFFICES ASSUME NEW r \in Runs PROVE RunInv(r)'
  BY DEF SandboxInv
<1>1. RunInv(r)
  BY DEF SandboxInv
<1>2. /\ boot'[r] = boot[r] /\ attempt'[r] = attempt[r] /\ row' = row /\ remote' = remote
      /\ tracked' = {} /\ doomed' = {}
      /\ dispatch'[r] = "none" /\ canceller'[r] = "none" /\ At(r, "idle")'
      /\ \A d \in Destroyers : kill'[d].stage = "none"
  BY DEF Restart, requestVars, assetVars, NoTask, NoKill, At
<1>3. boot'[r] # bootId' /\ boot'[r] <= bootId'
  BY <1>1, <1>2 DEF RunInv, Boots, Restart, TypeOK, RequestType, ProcessType
<1>4. /\ state'[r] = IF state[r] \in Live THEN "interrupted" ELSE state[r]
      /\ cleanup'[r] = IF state[r] \in Live THEN "pending" ELSE cleanup[r]
  BY DEF Restart
<1>5. Births(r)' /\ Boots(r)' /\ Ledger(r)'
  BY <1>1, <1>2, <1>3, <1>4 DEF RunInv, Births, Boots, Ledger, Unborn, Mine, At
<1>6. Kills(r)' /\ OwnKill(r)' /\ Results(r)' /\ Spared(r)'
  BY <1>1, <1>2, <1>4 DEF RunInv, Kills, OwnKill, Struck, Results, Spared, At, Live, Destroyers
<1>7. Endings(r)' /\ Emptied(r)'
  BY <1>1, <1>2, <1>4 DEF RunInv, Endings, Emptied, Mine, At, Live, Terminal
<1>8. QED
  BY <1>5, <1>6, <1>7 DEF RunInv

\* Nothing has a row or a sandbox in the beginning.
LEMMA InitSandbox == Init => SandboxInv
BY DEF Init, SandboxInv, RunInv, Births, Boots, Ledger, Kills, OwnKill, Results, Spared,
       Endings, Emptied, Unborn, Mine, Struck, At, NoTask, NoKill, Destroyers, OpenRows, Live,
       Terminal

\* Every step keeps the invariant.
LEMMA NextSandbox == ASSUME TypeOK, LockInv, SandboxInv, [Next]_vars PROVE SandboxInv'
<1>1. ASSUME NEW r \in Runs, NEW chosen \in BOOLEAN,
             \/ Accept(r, chosen) \/ RequestCancel(r) \/ RunTimeout(r) \/ AbortKill(r)
             \/ SettleRecoveredRun(r)
      PROVE  SandboxInv'
  BY <1>1, AcceptKeeps, RequestCancelKeeps, RunTimeoutKeeps, AbortKillKeeps,
     SettleRecoveredRunKeeps
<1>2. ASSUME NEW r \in Runs, DispatchStep(r) PROVE SandboxInv'
  BY <1>2, ClaimNextQueuedRunKeeps, PrepareDispatchKeeps, ParkDispatchKeeps,
     DispatchErrorKeeps, StartTaskKeeps, RecoverStrandedClaimKeeps DEF DispatchStep
<1>3. ASSUME NEW r \in Runs, TaskStep(r) PROVE SandboxInv'
  BY <1>3, TaskErrorKeeps, StartCoordinatorKeeps, SubmitPlanKeeps, RequestClarificationKeeps,
     StartBuilderKeeps, CreateSandboxKeeps, RegisterSandboxKeeps, BuildKeeps, UnwindKeeps,
     UnwindCallbackKeeps, HandleResultKeeps, FinishBuildFailureKeeps, SaveCandidateKeeps,
     QueueReviewerKeeps, FinishReviewKeeps, ReleaseRejectedKeeps, PrepareRepairKeeps,
     ReconcileKeeps, EndTaskKeeps, FinishTaskKeeps, SettleKeeps, TaskDestroyKeeps
     DEF TaskStep
<1>4. ASSUME NEW r \in Runs, CancelStep(r) PROVE SandboxInv'
  BY <1>4, DispatchCancelKeeps, ReadForCancelKeeps, WriteCancelledKeeps DEF CancelStep
<1>5. ASSUME NEW c \in Candidates PROVE c[1] \in Runs /\ c \in Mine(c[1])
  BY DEF Candidates, Mine
<1>6. ASSUME NEW d \in Destroyers, DestroyStep(d) PROVE SandboxInv'
  <2>1. kill[d].cand \in Candidates
    BY DEF TypeOK, KillType
  <2>2. QED
    BY <1>5, <1>6, <2>1, KillRemoteKeeps, MarkDestroyedKeeps, ConfirmCleanupKeeps,
       MarkCleanupPendingKeeps DEF DestroyStep
<1>7. ASSUME NEW c \in Candidates, SweepDestroy(c) \/ RecoverKill(c) \/ RemoteExpire(c)
      PROVE  SandboxInv'
  BY <1>5, <1>7, SweepDestroyKeeps, RecoverKillKeeps, RemoteExpireKeeps
<1>8. ASSUME NEW c \in Candidates, BeginRollback(c) \/ EndRollback \/ UNCHANGED vars
      PROVE  SandboxInv'
  BY <1>8, OtherKeeps DEF BeginRollback, EndRollback, vars, requestVars, assetVars,
                          processVars, projectVars, boundVars
<1>9. CASE Restart
  BY <1>9, RestartKeeps
<1>10. QED
  BY <1>1, <1>2, <1>3, <1>4, <1>6, <1>7, <1>8, <1>9, SomeCandidate DEF Next

\* No sandbox leaks: whatever lost response, abort, cleanup or restart happens, a sandbox
\* whose row this process still has to close is one that the process's sweep knows.
THEOREM OpenRowsTracked == Spec => []OpenRowTracked
<1>1. SandboxInv => OpenRowTracked
  BY DEF SandboxInv, RunInv, Ledger, Mine, Candidates, OpenRowTracked
<1>2. QED
  BY <1>1, TypeCorrect, InitLock, NextLock, InitSandbox, NextSandbox, PTL DEF Spec

\* A repair never runs beside the sandbox it replaces.
THEOREM OneSandbox == Spec => []OneSandboxPerRun
<1>1. SandboxInv => OneSandboxPerRun
  <2> SUFFICES ASSUME SandboxInv, NEW r \in Runs, NEW a \in Attempts, a < attempt[r]
               PROVE  remote[<<r, a>>] # "live"
    BY DEF OneSandboxPerRun
  <2>1. <<r, a>> \in Mine(r) /\ <<r, a>>[2] = a
    BY DEF Mine, Candidates
  <2>2. QED
    BY <2>1 DEF SandboxInv, RunInv, Ledger
<1>2. QED
  BY <1>1, TypeCorrect, InitLock, NextLock, InitSandbox, NextSandbox, PTL DEF Spec

\* The preview that the review accepted outlives its task: no catch block, finally block,
\* settlement or sweep of that task destroys it, also when the commit's response was lost.
THEOREM AcceptedPreviewStays == Spec => []AcceptedPreviewKept
<1>1. SandboxInv => AcceptedPreviewKept
  BY DEF SandboxInv, RunInv, Spared, At, AcceptedPreviewKept
<1>2. QED
  BY <1>1, TypeCorrect, InitLock, NextLock, InitSandbox, NextSandbox, PTL DEF Spec

\* Until a first repair a confirmed cleanup is the truth: no sandbox that has a row still
\* runs.  After one it need not be, and run `repair' of the project shows how: the sweep of
\* an earlier attempt's sandbox confirms the cleanup of the run, whose current sandbox is
\* alive.
THEOREM ReclaimedBeforeRepair ==
    Spec => []((\A r \in Runs : attempt[r] = 0) => ReclaimedWhenConfirmed)
<1>1. SandboxInv => ((\A r \in Runs : attempt[r] = 0) => ReclaimedWhenConfirmed)
  BY DEF SandboxInv, RunInv, Emptied, Mine, Candidates, ReclaimedWhenConfirmed
<1>2. QED
  BY <1>1, TypeCorrect, InitLock, NextLock, InitSandbox, NextSandbox, PTL DEF Spec

=============================================================================

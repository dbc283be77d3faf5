-------------------------- MODULE MCComponents --------------------------
(***************************************************************************)
(* The components that run inside a task, beside it or in the browser, as  *)
(* TLC checks them on small instances: a behaviour picks one of them and   *)
(* lets it run.  What they do to each other is modelled by RunLifecycle,   *)
(* SandboxOperations and EventStream, and within each of them by its own   *)
(* environment; here their promises are stated side by side.               *)
(***************************************************************************)
EXTENDS Naturals, FiniteSets
\* Nobody and nothing; and the sizes of the instances that the proofs leave open.
CONSTANTS None,
          ReviewBehaviors, RenderBehaviors, ReviewTools, ReviewActions,
          ReviewShots, ReviewRefs,                                 \* ReviewSession
          LoopBehaviors, LoopRequired, LoopAttempts,               \* ReviewLoop
          CheckWaits, CheckShots, CheckWindow, CheckArtifacts,     \* CheckSession
          ReplayBehaviors, ReplayScripts, ReplaySetups, ReplayEvidence,  \* ScriptedReplay
          ProgramBehaviors, ProgramNames, ProgramChunk, ProgramCalls,
          ProgramSessions, ProgramRevised,                         \* VerificationPrograms
          Users, MaxEpoch, MaxNotices,                             \* WorkspaceSession
          Profiles, Refs, Connections,
          MaxVersions, MaxProfiles, TestsPerMinute,                \* ModelProfiles
          Publishers, MaxRevisions, MaxRestarts,                   \* PublishedApp
          Sessions, Issuers, Sandboxes, MaxEntries, MaxGrants,     \* PreviewGateway
          MaxTexts, MaxSubmissions, SubmissionWire,                \* RunSubmission
          MaxRequests, RequestWire,                                \* RollbackRequest
          MaxImports, ImportPosts,                                 \* TemplateImport
          BuildWrites, BuildProbes,                                \* TrustedBuild
          CoordinatorTools, CoordinatorAttempts, CoordinatorTail,  \* CoordinatorSession
          BuilderCalls, BuilderQueued, BuilderChunks,              \* BuilderSession
          SourcePaths, SourceTexts, SourceRevisions, MaxImages,    \* SourceSnapshots
          ViewRuns,                                                \* ProjectView
          AppKeys, AppSlots, AppPages, MaxRecords, MaxSaves, AppPosts,  \* AppData
          BrowserClosers, BrowserOps,                              \* RemoteBrowser
          LeaseTime, WorkspaceClock, WorkspacePolls,               \* RemoteWorkspace
          TokenStreams, TokenRoles, TokenEstimates, TokenLimit, TokenMost,  \* TokenLedger
          PlannedMost, LoweredLimits,                              \* CapacityModel
          NoteBytes, NoteDetails, NoteReferences, NoteLengths, NoteSteps,
          NoteEvents, NoteFrame,                                   \* CheckpointSummary
          PlanIds, PlanGroups, PlanTexts, PlanVersions, PlanTextBytes, PlanLinkBytes,
          MostPlanned, MostReplaced, MostPlanBytes                 \* PlanLineage
\* A gateway's call that asks about no grant is not one that asks about a grant.
ASSUME NoGrantAssumption == None \notin [token : Nat, session : Sessions]
\* No key is not a key, no result is not a preview, and no failure is none of the failures.
ASSUME NoKeyAssumption == None \notin Nat
ASSUME NoNameAssumption ==
    None \notin {"preview", "ROLE_NOT_ACTIVE", "TOOL_BUDGET_EXCEEDED", "AGENT_OUTPUT_INVALID",
                 "EVENT_APPEND_FAILED", "found", "passed", "failed", "blocked"}
\* A program is there or is not; what must pass is of the plan; a plan has an order.
ASSUME NoProgramAssumption == None \notin ProgramNames
\* An assertion is one of those that a program may hold.
ASSUME ScriptsAssumption ==
    \A s \in ReplayScripts : s.assertion # None =>
        /\ s.assertion.kind \in
              {"target-count", "target-text", "target-value", "text", "control", "console"}
        /\ s.assertion.negated \in BOOLEAN
ASSUME PlanAssumption == LoopRequired \subseteq LoopBehaviors /\ ReplayBehaviors \subseteq Nat
\* A coordinator that submitted nothing is asked once more.
ASSUME AttemptsAssumption == CoordinatorAttempts \in Nat \ {0, 1}
\* A browser with an operation has one; a lease that is being renewed is one.
ASSUME NoWorkAssumption ==
    None \notin [kind : {"open", "observe", "act", "program"},
                 step : {"check", "command", "look", "ready", "run", "end"}]
ASSUME NoRenewalAssumption == None \notin [end : Nat, at : {"sent", "done"}]
ASSUME BrowserAssumption == BrowserOps \in Nat
ASSUME LeaseAssumption == {LeaseTime, WorkspaceClock, WorkspacePolls} \subseteq Nat
ASSUME TokensAssumption ==
    /\ IsFiniteSet(TokenStreams) /\ TokenEstimates \subseteq Nat
    /\ TokenLimit \in Nat \union {None} /\ TokenMost \in Nat /\ None # "reported"
\* A limit that is not lowered is none; a plan that was not assessed has no assessment.
ASSUME CapacityAssumption ==
    PlannedMost \in Nat /\ LoweredLimits \subseteq Nat \union {None}
\* What a note takes is counted.
ASSUME NoteAssumption ==
    /\ {NoteBytes, NoteDetails, NoteSteps, NoteEvents, NoteFrame} \subseteq Nat
    /\ NoteReferences \subseteq Nat /\ NoteLengths \subseteq Nat
\* There are ids and texts; a behaviour of a plan of old has no group.
ASSUME LineageAssumption ==
    /\ PlanIds \in Nat \ {0} /\ PlanVersions \in Nat /\ PlanTexts # {} /\ None \notin PlanGroups
    /\ PlanTextBytes \in [PlanTexts -> Nat]
    /\ {PlanLinkBytes, MostPlanned, MostReplaced, MostPlanBytes} \subseteq Nat
ASSUME SizesAssumption ==
    {MaxImports, MaxRequests, ProgramRevised} \subseteq Nat /\ MaxTexts \in Nat \ {0}

VARIABLES part,   \* the component of this behaviour
          evidence, sessionShots, sessionView, drafts, failedInput, pageError,
          sessionSpent, sessionTurn, decision, sessionOutcome,
          loopAt, reviewers, ledger, loopReceipt, loopSpent, loopLate, verdict, attempt,
          checkAt, workOver, deadlineOver, cancelled, leaseLost, checkActive, finishing,
          source, connected, checkChrome, artifacts, checkResult, incomplete,
          checkMarker, failure, basis, checkReceipt,
          summaryItem, summaryEvents, base, summaryPhase, index, bytes, truncated,
          summaryOutcome,
          setup, script, selected, pass, replayCurrent, stepAt, resolved, looks, acted,
          replayShown, adrift, admitted, signal, found, capture, judged, replayItem,
          noted,
          required, programsStored, programsActive, programsSession, programsAt, plan,
          programsPending, rest, tries, failures, calls, reply, programsLate,
          programsUsed,
          stopped, shut, begun, operating, work, inFlight, browserView, aborted,
          command, stray, browserChrome, closer, ops,
          making, entry, writable, workspaceCleanup, cloud, leaseEnd, reported,
          renewing, wallClock, halted, shell, process, unread, files,
          tokensPhase, reserved, accounted, charged, sample, tokensPending, failedRole,
          tokensUsed,
          planned, lowered, assessment,
          stage, prompts, refusals, toolCalls, choice, fatal, halt, chain, unsaved,
          started, coordinatorEnded, inPlace, delivered,
          builderTurn, callNo, builderOutcome, chunks, batch, dropped, batches, pumping,
          owner, builderEvents, log, eventLost, stopping, builderEnded,
          gate, seeded, tree, right, leftover, staged, listed, checked, compiled,
          buildMarker, buildServed, probes, buildHalt, buildResult,
          importPage, importKept, made, importPosts, importAnswers, imports, asked,
          state, importStep, stop, importBuilt, importStored, opened, sandbox, row,
          importCleanup, importCurrent, unknown,
          objects, sourceBuilt, sourceStep, reference, sourceVerified, rows, reviewed,
          sourceServed, images, sourceShots,
          history, revisionNow, hiddenRuns, viewAnswers, acceptedRun, load, again, seen,
          draft, texts, storage, storedDraft, storedKey, sending, unconfirmed,
          startFlag, textOf, wire, answer, accepted, excused,
          requestKeys, held, storedHeld, shownOp, post, mail, requestStatus, told,
          requestKept,
          clientSession, notices, ending, leaving, clientStatus, user, epoch,
          initialized, authenticating, tasks, request, pageOwner,
          saved, versions, modelsKeys, leases, test, tests, proofs, modelsVerified,
          alive, busy, head, eligible, publishedShown, directory, link, aside,
          publishing, deleting, died, blocked,
          kind, open, records, dataPosts, acceptedAs, removed, value, dataPage, savedBy,
          signedIn, entries, expired, tokens, issuing, answered, cookie,
          plans, planCurrent, planWaiting, planWork

\* The replays of ScriptedReplay: what a program does, what it asserts and whether that
\* fits what is checked, and how its behaviour is judged.
MCAssertion(says, negated, scoped) == [kind |-> says, negated |-> negated, scoped |-> scoped]
MCScript(steps, assertion, visual, initial, renders) ==
    [steps |-> steps, assertion |-> assertion, fits |-> TRUE, visual |-> visual,
     initial |-> initial, renders |-> renders]
MCScripts ==
    {MCScript(<<"open", "click", "keys">>, MCAssertion("target-text", TRUE, TRUE), FALSE, "fresh", FALSE),
     MCScript(<<"open", "click", "keys">>, MCAssertion("text", TRUE, FALSE), FALSE, "fresh", FALSE),
     MCScript(<<"click", "capture">>, MCAssertion("target-value", FALSE, FALSE), FALSE, "continue", FALSE),
     MCScript(<<"click", "capture">>, MCAssertion("target-count", TRUE, FALSE), FALSE, "continue", FALSE),
     MCScript(<<"open", "click", "capture">>, MCAssertion("control", FALSE, FALSE), TRUE, "fresh", FALSE),
     MCScript(<<"open">>, MCAssertion("text", FALSE, FALSE), FALSE, "fresh", TRUE),
     MCScript(<<"open">>, MCAssertion("console", TRUE, FALSE), FALSE, "fresh", TRUE),
     MCScript(<<>>, None, FALSE, "continue", FALSE)}
MCSetups == {[native |-> TRUE, judge |-> TRUE, resolver |-> TRUE],
             [native |-> FALSE, judge |-> TRUE, resolver |-> FALSE],
             [native |-> FALSE, judge |-> FALSE, resolver |-> TRUE]}
\* What the texts of a plan take of it.
MCTextBytes == [x \in PlanTexts |-> IF x = "x" THEN 1 ELSE 2]
\* The streams of a run: two of its builder, one of its reviewer.
MCRoles == <<"builder", "builder", "reviewer">>

Session == INSTANCE ReviewSession WITH
    Behaviors <- ReviewBehaviors, RenderOnly <- RenderBehaviors, MaxTools <- ReviewTools,
    MaxUnrecorded <- ReviewActions, MaxShots <- ReviewShots, MaxRefs <- ReviewRefs, shots <- sessionShots, view <- sessionView,
    spent <- sessionSpent, turn <- sessionTurn, outcome <- sessionOutcome
Loop == INSTANCE ReviewLoop WITH
    Behaviors <- LoopBehaviors, Required <- LoopRequired, MaxAttempt <- LoopAttempts,
    NoReceipt <- None, at <- loopAt, receipt <- loopReceipt, spent <- loopSpent,
    late <- loopLate
Check == INSTANCE CheckSession WITH
    Waits <- CheckWaits, Shots <- CheckShots, Window <- CheckWindow,
    MaxArtifacts <- CheckArtifacts, at <- checkAt,
    active <- checkActive, chrome <- checkChrome, result <- checkResult,
    marker <- checkMarker, receipt <- checkReceipt
Summary == INSTANCE CheckpointSummary WITH
    MaxSummary <- NoteBytes, MaxDetails <- NoteDetails, References <- NoteReferences,
    Lengths <- NoteLengths, Steps <- NoteSteps, Events <- NoteEvents, Frame <- NoteFrame,
    item <- summaryItem, events <- summaryEvents,
    phase <- summaryPhase, outcome <- summaryOutcome
Replay == INSTANCE ScriptedReplay WITH
    Behaviors <- ReplayBehaviors, Scripts <- ReplayScripts, Setups <- ReplaySetups,
    MaxEvidence <- ReplayEvidence,
    current <- replayCurrent, shown <- replayShown, item <- replayItem
Programs == INSTANCE VerificationPrograms WITH
    Behaviors <- ProgramBehaviors, Programs <- ProgramNames, Chunk <- ProgramChunk,
    MaxToolCalls <- ProgramCalls, MaxSessions <- ProgramSessions,
    MaxRevised <- ProgramRevised, stored <- programsStored,
    active <- programsActive, session <- programsSession, at <- programsAt,
    pending <- programsPending, late <- programsLate, used <- programsUsed
Browser == INSTANCE RemoteBrowser WITH
    Closers <- BrowserClosers, MaxOps <- BrowserOps, view <- browserView,
    chrome <- browserChrome
Workspace == INSTANCE RemoteWorkspace WITH
    Lifetime <- LeaseTime, MaxClock <- WorkspaceClock, Polls <- WorkspacePolls,
    cleanup <- workspaceCleanup
Tokens == INSTANCE TokenLedger WITH
    Streams <- TokenStreams, RoleOf <- TokenRoles, Estimates <- TokenEstimates,
    LimitTokens <- TokenLimit, MostUsed <- TokenMost, phase <- tokensPhase,
    pending <- tokensPending, used <- tokensUsed
Capacity == INSTANCE CapacityModel WITH
    MaxBehaviours <- PlannedMost, Overrides <- LoweredLimits
Coordinator == INSTANCE CoordinatorSession WITH
    MaxTools <- CoordinatorTools, MaxAttempts <- CoordinatorAttempts,
    MaxTail <- CoordinatorTail, ended <- coordinatorEnded
Builder == INSTANCE BuilderSession WITH
    MaxCalls <- BuilderCalls, MaxQueued <- BuilderQueued, MaxChunks <- BuilderChunks, turn <- builderTurn,
    outcome <- builderOutcome, events <- builderEvents, ended <- builderEnded
Build == INSTANCE TrustedBuild WITH
    MaxWrites <- BuildWrites, MaxProbes <- BuildProbes, marker <- buildMarker, served <- buildServed,
    result <- buildResult
Import == INSTANCE TemplateImport WITH
    MaxKeys <- MaxImports, MaxPosts <- ImportPosts, page <- importPage, kept <- importKept,
    posts <- importPosts, answers <- importAnswers, step <- importStep,
    built <- importBuilt, stored <- importStored, cleanup <- importCleanup,
    current <- importCurrent
Source == INSTANCE SourceSnapshots WITH
    Paths <- SourcePaths, Texts <- SourceTexts, MaxRevisions <- SourceRevisions,
    MaxShots <- MaxImages,
    built <- sourceBuilt, step <- sourceStep, verified <- sourceVerified,
    served <- sourceServed, shots <- sourceShots
View == INSTANCE ProjectView WITH
    MaxRuns <- ViewRuns, answers <- viewAnswers
Submission == INSTANCE RunSubmission WITH
    MaxKeys <- MaxSubmissions, MaxWire <- SubmissionWire
Request == INSTANCE RollbackRequest WITH
    MaxWire <- RequestWire, keys <- requestKeys, status <- requestStatus,
    kept <- requestKept
Client == INSTANCE WorkspaceSession WITH
    session <- clientSession, status <- clientStatus
Models == INSTANCE ModelProfiles WITH keys <- modelsKeys, verified <- modelsVerified
Published == INSTANCE PublishedApp WITH shown <- publishedShown
Data == INSTANCE AppData WITH
    Keys <- AppKeys, Slots <- AppSlots, Pages <- AppPages, MaxPosts <- AppPosts,
    posts <- dataPosts, page <- dataPage
Gateway == INSTANCE PreviewGateway
Plans == INSTANCE PlanLineage WITH
    Size <- PlanIds, Groups <- PlanGroups, Texts <- PlanTexts, MaxVersions <- PlanVersions,
    TextBytes <- PlanTextBytes, LinkBytes <- PlanLinkBytes, MostBehaviors <- MostPlanned,
    MostReplacements <- MostReplaced, MostBytes <- MostPlanBytes,
    versions <- plans, current <- planCurrent, waiting <- planWaiting, work <- planWork

\* No reference is not that of a snapshot.
ASSUME NoReferenceAssumption ==
    \A r \in 1..SourceRevisions, bundle \in Source!Files : Source!Reference(r, bundle) # None

-----------------------------------------------------------------------------
SessionVars == <<evidence, sessionShots, sessionView, drafts, failedInput, pageError,
    sessionSpent, sessionTurn, decision, sessionOutcome>>
LoopVars == <<loopAt, reviewers, ledger, loopReceipt, loopSpent, loopLate, verdict,
    attempt>>
CheckVars == <<checkAt, workOver, deadlineOver, cancelled, leaseLost, checkActive,
    finishing, source, connected, checkChrome, artifacts, checkResult, incomplete,
    checkMarker, failure, basis, checkReceipt>>
SummaryVars == <<summaryItem, summaryEvents, base, summaryPhase, index, bytes,
    truncated, summaryOutcome>>
ReplayVars == <<setup, script, selected, pass, replayCurrent, stepAt, resolved, looks,
    acted, replayShown, adrift, admitted, signal, found, capture, judged, replayItem,
    noted>>
ProgramsVars == <<required, programsStored, programsActive, programsSession, programsAt,
    plan, programsPending, rest, tries, failures, calls, reply, programsLate,
    programsUsed>>
BrowserVars == <<stopped, shut, begun, operating, work, inFlight, browserView, aborted,
    command, stray, browserChrome, closer, ops>>
WorkspaceVars == <<making, entry, writable, workspaceCleanup, cloud, leaseEnd, reported,
    renewing, wallClock, halted, shell, process, unread, files>>
TokensVars == <<tokensPhase, reserved, accounted, charged, sample, tokensPending,
    failedRole, tokensUsed>>
CapacityVars == <<planned, lowered, assessment>>
CoordinatorVars == <<stage, prompts, refusals, toolCalls, choice, fatal, halt, chain,
    unsaved, started, coordinatorEnded, inPlace, delivered>>
BuilderVars == <<builderTurn, callNo, builderOutcome, chunks, batch, dropped, batches,
    pumping, owner, builderEvents, log, eventLost, stopping, builderEnded>>
BuildVars == <<gate, seeded, tree, right, leftover, staged, listed, checked, compiled,
    buildMarker, buildServed, probes, buildHalt, buildResult>>
ImportVars == <<importPage, importKept, made, importPosts, importAnswers, imports,
    asked, state, importStep, stop, importBuilt, importStored, opened, sandbox, row,
    importCleanup, importCurrent, unknown>>
SourceVars == <<objects, sourceBuilt, sourceStep, reference, sourceVerified, rows,
    reviewed, sourceServed, images, sourceShots>>
ViewVars == <<history, revisionNow, hiddenRuns, viewAnswers, acceptedRun, load, again,
    seen>>
SubmissionVars == <<draft, texts, storage, storedDraft, storedKey, sending, unconfirmed,
    startFlag, textOf, wire, answer, accepted, excused>>
RequestVars == <<requestKeys, held, storedHeld, shownOp, post, mail, requestStatus,
    told, requestKept>>
ClientVars == <<clientSession, notices, ending, leaving, clientStatus, user, epoch,
    initialized, authenticating, tasks, request, pageOwner>>
ModelsVars == <<saved, versions, modelsKeys, leases, test, tests, proofs,
    modelsVerified>>
PublishedVars == <<alive, busy, head, eligible, publishedShown, directory, link, aside,
    publishing, deleting, died, blocked>>
DataVars == <<kind, open, records, dataPosts, acceptedAs, removed, value, dataPage,
    savedBy>>
GatewayVars == <<signedIn, entries, expired, tokens, issuing, answered, cookie>>
PlansVars == <<plans, planCurrent, planWaiting, planWork>>

Parts ==
    {"Session", "Loop", "Check", "Summary", "Replay", "Programs", "Browser",
     "Workspace", "Tokens", "Capacity", "Coordinator", "Builder", "Build", "Import",
     "Source", "View", "Submission", "Request", "Client", "Models", "Published", "Data",
     "Gateway", "Plans"}
\* A component that is not of this behaviour has no state; the step of a release is one of
\* every behaviour, so it stays as it starts.
Init ==
    /\ part \in Parts
    /\ IF part = "Session" THEN Session!Init
       ELSE /\ evidence = None /\ sessionShots = None /\ sessionView = None
            /\ drafts = None /\ failedInput = None /\ pageError = None
            /\ sessionSpent = None /\ sessionTurn = None /\ decision = None
            /\ sessionOutcome = None
    /\ IF part = "Check" THEN Check!Init
       ELSE /\ checkAt = None /\ workOver = None /\ deadlineOver = None
            /\ cancelled = None /\ leaseLost = None /\ checkActive = None
            /\ finishing = None /\ source = None /\ connected = None
            /\ checkChrome = None /\ artifacts = None /\ checkResult = None
            /\ incomplete = None /\ checkMarker = None /\ failure = None /\ basis = None
            /\ checkReceipt = None
    /\ IF part = "Programs" THEN Programs!Init
       ELSE /\ required = None /\ programsStored = None /\ programsActive = None
            /\ programsSession = None /\ programsAt = None /\ plan = None
            /\ programsPending = None /\ rest = None /\ tries = None /\ failures = None
            /\ calls = None /\ reply = None /\ programsLate = None
            /\ programsUsed = None
    /\ IF part = "Browser" THEN Browser!Init
       ELSE /\ stopped = None /\ shut = None /\ begun = None /\ operating = None
            /\ work = None /\ inFlight = None /\ browserView = None /\ aborted = None
            /\ command = None /\ stray = None /\ browserChrome = None /\ closer = None
            /\ ops = None
    /\ IF part = "Workspace" THEN Workspace!Init
       ELSE /\ making = None /\ entry = None /\ writable = None
            /\ workspaceCleanup = None /\ cloud = None /\ leaseEnd = None
            /\ reported = None /\ renewing = None /\ wallClock = None /\ halted = None
            /\ shell = None /\ process = None /\ unread = None /\ files = None
    /\ IF part = "Tokens" THEN Tokens!Init
       ELSE /\ tokensPhase = None /\ reserved = None /\ accounted = None
            /\ charged = None /\ sample = None /\ tokensPending = None
            /\ failedRole = None /\ tokensUsed = None
    /\ IF part = "Coordinator" THEN Coordinator!Init
       ELSE /\ stage = None /\ prompts = None /\ refusals = None /\ toolCalls = None
            /\ choice = None /\ fatal = None /\ halt = None /\ chain = None
            /\ unsaved = None /\ started = None /\ coordinatorEnded = None
            /\ inPlace = None /\ delivered = None
    /\ IF part = "Builder" THEN Builder!Init
       ELSE /\ builderTurn = None /\ callNo = None /\ builderOutcome = None
            /\ chunks = None /\ batch = None /\ dropped = None /\ batches = None
            /\ pumping = None /\ owner = None /\ builderEvents = None /\ log = None
            /\ eventLost = None /\ stopping = None /\ builderEnded = None
    /\ IF part = "Import" THEN Import!Init
       ELSE /\ importPage = None /\ importKept = None /\ made = None
            /\ importPosts = None /\ importAnswers = None /\ imports = None
            /\ asked = None /\ state = None /\ importStep = None /\ stop = None
            /\ importBuilt = None /\ importStored = None /\ opened = None
            /\ sandbox = None /\ row = None /\ importCleanup = None
            /\ importCurrent = None /\ unknown = None
    /\ IF part = "Source" THEN Source!Init
       ELSE /\ objects = None /\ sourceBuilt = None /\ sourceStep = None
            /\ reference = None /\ sourceVerified = None /\ rows = None
            /\ reviewed = None /\ sourceServed = None /\ images = None
            /\ sourceShots = None
    /\ IF part = "View" THEN View!Init
       ELSE /\ history = None /\ revisionNow = None /\ hiddenRuns = None
            /\ viewAnswers = None /\ acceptedRun = None /\ load = None /\ again = None
            /\ seen = None
    /\ IF part = "Models" THEN Models!Init
       ELSE /\ saved = None /\ versions = None /\ modelsKeys = None /\ leases = None
            /\ test = None /\ tests = None /\ proofs = None /\ modelsVerified = None
    /\ Published!Init
    /\ IF part = "Gateway" THEN Gateway!Init
       ELSE /\ signedIn = None /\ entries = None /\ expired = None /\ tokens = None
            /\ issuing = None /\ answered = None /\ cookie = None
    /\ IF part = "Loop" THEN Loop!Init
       ELSE /\ loopAt = None /\ reviewers = None /\ ledger = None /\ loopReceipt = None
            /\ loopSpent = None /\ loopLate = None /\ verdict = None /\ attempt = None
    /\ IF part = "Summary" THEN Summary!Init
       ELSE /\ summaryItem = None /\ summaryEvents = None /\ base = None
            /\ summaryPhase = None /\ index = None /\ bytes = None /\ truncated = None
            /\ summaryOutcome = None
    /\ IF part = "Replay" THEN Replay!Init
       ELSE /\ setup = None /\ script = None /\ selected = None /\ pass = None
            /\ replayCurrent = None /\ stepAt = None /\ resolved = None /\ looks = None
            /\ acted = None /\ replayShown = None /\ adrift = None /\ admitted = None
            /\ signal = None /\ found = None /\ capture = None /\ judged = None
            /\ replayItem = None /\ noted = None
    /\ IF part = "Capacity" THEN Capacity!Init
       ELSE /\ planned = None /\ lowered = None /\ assessment = None
    /\ IF part = "Build" THEN Build!Init
       ELSE /\ gate = None /\ seeded = None /\ tree = None /\ right = None
            /\ leftover = None /\ staged = None /\ listed = None /\ checked = None
            /\ compiled = None /\ buildMarker = None /\ buildServed = None
            /\ probes = None /\ buildHalt = None /\ buildResult = None
    /\ IF part = "Submission" THEN Submission!Init
       ELSE /\ draft = None /\ texts = None /\ storage = None /\ storedDraft = None
            /\ storedKey = None /\ sending = None /\ unconfirmed = None
            /\ startFlag = None /\ textOf = None /\ wire = None /\ answer = None
            /\ accepted = None /\ excused = None
    /\ IF part = "Request" THEN Request!Init
       ELSE /\ requestKeys = None /\ held = None /\ storedHeld = None /\ shownOp = None
            /\ post = None /\ mail = None /\ requestStatus = None /\ told = None
            /\ requestKept = None
    /\ IF part = "Client" THEN Client!Init
       ELSE /\ clientSession = None /\ notices = None /\ ending = None /\ leaving = None
            /\ clientStatus = None /\ user = None /\ epoch = None /\ initialized = None
            /\ authenticating = None /\ tasks = None /\ request = None
            /\ pageOwner = None
    /\ IF part = "Data" THEN Data!Init
       ELSE /\ kind = None /\ open = None /\ records = None /\ dataPosts = None
            /\ acceptedAs = None /\ removed = None /\ value = None /\ dataPage = None
            /\ savedBy = None
    /\ IF part = "Plans" THEN Plans!Init
       ELSE /\ plans = None /\ planCurrent = None /\ planWaiting = None /\ planWork = None
Next ==
    /\ UNCHANGED part
    /\ IF part = "Session" THEN Session!Next ELSE UNCHANGED SessionVars
    /\ IF part = "Loop" THEN Loop!Next ELSE UNCHANGED LoopVars
    /\ IF part = "Check" THEN Check!Next ELSE UNCHANGED CheckVars
    /\ IF part = "Summary" THEN Summary!Next ELSE UNCHANGED SummaryVars
    /\ IF part = "Replay" THEN Replay!Next ELSE UNCHANGED ReplayVars
    /\ IF part = "Programs" THEN Programs!Next ELSE UNCHANGED ProgramsVars
    /\ IF part = "Browser" THEN Browser!Next ELSE UNCHANGED BrowserVars
    /\ IF part = "Workspace" THEN Workspace!Next ELSE UNCHANGED WorkspaceVars
    /\ IF part = "Tokens" THEN Tokens!Next ELSE UNCHANGED TokensVars
    /\ IF part = "Capacity" THEN Capacity!Next ELSE UNCHANGED CapacityVars
    /\ IF part = "Coordinator" THEN Coordinator!Next ELSE UNCHANGED CoordinatorVars
    /\ IF part = "Builder" THEN Builder!Next ELSE UNCHANGED BuilderVars
    /\ IF part = "Build" THEN Build!Next ELSE UNCHANGED BuildVars
    /\ IF part = "Import" THEN Import!Next ELSE UNCHANGED ImportVars
    /\ IF part = "Source" THEN Source!Next ELSE UNCHANGED SourceVars
    /\ IF part = "View" THEN View!Next ELSE UNCHANGED ViewVars
    /\ IF part = "Submission" THEN Submission!Next ELSE UNCHANGED SubmissionVars
    /\ IF part = "Request" THEN Request!Next ELSE UNCHANGED RequestVars
    /\ IF part = "Client" THEN Client!Next ELSE UNCHANGED ClientVars
    /\ IF part = "Models" THEN Models!Next ELSE UNCHANGED ModelsVars
    /\ IF part = "Published" THEN Published!Next ELSE UNCHANGED PublishedVars
    /\ IF part = "Data" THEN Data!Next ELSE UNCHANGED DataVars
    /\ IF part = "Gateway" THEN Gateway!Next ELSE UNCHANGED GatewayVars
    /\ IF part = "Plans" THEN Plans!Next ELSE UNCHANGED PlansVars
vars ==
    <<part, SessionVars, LoopVars, CheckVars, SummaryVars, ReplayVars, ProgramsVars,
      BrowserVars, WorkspaceVars, TokensVars, CapacityVars, CoordinatorVars,
      BuilderVars, BuildVars, ImportVars, SourceVars, ViewVars, SubmissionVars,
      RequestVars, ClientVars, ModelsVars, PublishedVars, DataVars,
      GatewayVars, PlansVars>>

\* What the components' own timers and the loop of the run's executor go on doing.
Fairness ==
    /\ WF_LoopVars(part = "Loop" /\ Loop!Next)
    /\ WF_CheckVars(part = "Check" /\ Check!WorkTimer)
    /\ WF_CheckVars(part = "Check" /\ Check!DeadlineTimer)
    /\ WF_CheckVars(part = "Check" /\ Check!Expiry)
Spec == Init /\ [][Next]_vars /\ Fairness

-----------------------------------------------------------------------------
TypeOK ==
    CASE part = "Session" -> Session!TypeOK
      [] part = "Loop" -> Loop!TypeOK
      [] part = "Check" -> Check!CheckTypeOK
      [] part = "Summary" -> Summary!SummaryTypeOK
      [] part = "Replay" -> Replay!TypeOK
      [] part = "Programs" -> Programs!ProgramsTypeOK
      [] part = "Browser" -> Browser!TypeOK
      [] part = "Workspace" -> Workspace!TypeOK
      [] part = "Tokens" -> Tokens!TypeOK
      [] part = "Capacity" -> Capacity!CapacityTypeOK
      [] part = "Coordinator" -> Coordinator!TypeOK
      [] part = "Builder" -> Builder!TypeOK
      [] part = "Build" -> Build!TypeOK
      [] part = "Import" -> Import!ImportTypeOK
      [] part = "Source" -> Source!SourceTypeOK
      [] part = "View" -> View!TypeOK
      [] part = "Submission" -> Submission!TypeOK
      [] part = "Request" -> Request!TypeOK
      [] part = "Client" -> Client!TypeOK
      [] part = "Models" -> Models!ModelTypeOK
      [] part = "Published" -> Published!PublishedTypeOK
      [] part = "Data" -> Data!DataTypeOK
      [] part = "Gateway" -> Gateway!GatewayTypeOK
      [] part = "Plans" -> Plans!TypeOK

\* A check that passed showed what it is about, and what was found out is kept until it is
\* used: in the reviewer's own session, over the sessions of the loop that retry and
\* continue it, in the receipt of a session whose deadline, lease or browser may have
\* failed it, and when a program is replayed that was saved for the behaviour
\* (PassedIsShown, AcceptedIsWhole, FoundIsBound, PassedIsProved, NotedIsKept, JudgedAlike).
ChecksAreHonest ==
    CASE part = "Session" -> Session!PassedIsShown
      [] part = "Loop" -> Loop!AcceptedIsWhole
      [] part = "Check" -> Check!FoundIsBound
      [] part = "Replay" -> Replay!PassedIsProved /\ Replay!NotedIsKept
      [] part = "Programs" -> Programs!JudgedAlike
      [] OTHER -> TRUE
\* Checking ends: the loop of sessions although each one may ask for another, and a
\* session although any operation of it may hang (LoopEnds, SessionEnds).
ChecksEnd ==
    /\ part = "Loop" => Loop!LoopEnds
    /\ part = "Check" => Check!SessionEnds
\* Limits bind, and bind nothing else: the ledger of a run's tokens, the checks of a batch,
\* the bytes of a summary, which says when it left something out, the output of a command,
\* the lifetime of a sandbox and of a browser that were given up; and what the versions
\* before a plan promised binds it too, and refuses no increment that the schema has room
\* for (BudgetHolds, SplitCanRun, SummaryIsMarked, ConfirmedIsClosed, RejectedIsGone,
\* OutputIsWhole, ReportedWithinLease, PromisesKept, IncrementIsWhole).
LimitsHold ==
    CASE part = "Tokens" -> Tokens!BudgetHolds
      [] part = "Capacity" -> Capacity!SplitCanRun
      [] part = "Summary" -> Summary!SummaryIsMarked
      [] part = "Browser" -> Browser!ConfirmedIsClosed
      [] part = "Workspace" -> /\ Workspace!RejectedIsGone /\ Workspace!OutputIsWhole
                                /\ Workspace!ReportedWithinLease
      [] part = "Plans" -> Plans!PromisesKept /\ Plans!IncrementIsWhole
      [] OTHER -> TRUE
\* A version is what its record says, from the session that made it to the page that shows
\* it: a coordinator's decision comes after the events that led to it and a builder's tool
\* calls within their turns, what was built is what was written and checked, of a candidate
\* as of an imported template, what was stored is what was built, and the workbench shows
\* a finished run as it was saved (DecidedOnRecord, LogIsNested, BuildIsBound,
\* ImportIsWhole, SourceIsKept, ShownIsSaved).
VersionIsBound ==
    CASE part = "Coordinator" -> Coordinator!DecidedOnRecord
      [] part = "Builder" -> Builder!LogIsNested
      [] part = "Build" -> Build!BuildIsBound
      [] part = "Import" -> Import!ImportIsWhole
      [] part = "Source" -> Source!SourceIsKept
      [] part = "View" -> View!ShownIsSaved
      [] OTHER -> TRUE
\* A request made once acts once, however often it is sent: a run, a rollback, a project
\* from a template, a visitor's answer (OneRunPerText, RunningIsHeld, OneProjectPerImport,
\* AnswersHold).
AskedOnce ==
    CASE part = "Submission" -> Submission!OneRunPerText
      [] part = "Request" -> Request!RunningIsHeld
      [] part = "Import" -> Import!OneProjectPerImport
      [] part = "Data" -> Data!AnswersHold
      [] OTHER -> TRUE
\* Access follows the one it was given to: a page never shows what was loaded for another
\* user, a lease that a run holds keeps its key usable whatever is deleted or tested
\* meanwhile, and opening a preview again never multiplies its grants
\* (AnswersStayPrivate, LeaseIsHonoured, GrantsHold).
AccessIsKept ==
    CASE part = "Client" -> Client!AnswersStayPrivate
      [] part = "Models" -> Models!LeaseIsHonoured
      [] part = "Gateway" -> Gateway!GrantsHold
      [] OTHER -> TRUE
\* A published application is served whole and from an eligible version, and a deletion
\* that is refused takes nothing down (ServedIsWhole, RefusedDeletionKeeps).
ReleaseIsKept ==
    /\ [](part = "Published" => Published!ServedIsWhole)
    /\ Published!RefusedDeletionKeeps
=============================================================================

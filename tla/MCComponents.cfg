CONSTANTS
    None = None
    ReviewBehaviors = {"B1"}
    RenderBehaviors = {}
    ReviewTools = 4
    ReviewActions = 2
    ReviewShots = 2
    ReviewRefs = 1
    LoopBehaviors = {"B1", "B2"}
    LoopRequired = {"B1", "B2"}
    LoopAttempts = 2
    CheckWaits = {1, 3}
    CheckShots = {0, 3}
    CheckWindow = 2
    CheckArtifacts = 2
    ReplayBehaviors = {1, 2}
    ReplayScripts <- MCScripts
    ReplaySetups <- MCSetups
    ReplayEvidence = 4
    ProgramBehaviors = {"B1", "B2"}
    ProgramNames = {"p", "q"}
    ProgramChunk = 1
    ProgramCalls = 2
    ProgramSessions = 2
    ProgramRevised = 1
    Users = {"u1", "u2"}
    MaxEpoch = 4
    MaxNotices = 1
    Profiles = {"p1"}
    Refs = {"r1"}
    Connections = {"a", "b"}
    MaxVersions = 2
    MaxProfiles = 2
    TestsPerMinute = 1
    Publishers = {"p1", "p2"}
    MaxRevisions = 2
    MaxRestarts = 1
    Sessions = {"s1", "s2"}
    Issuers = {"i1", "i2"}
    Sandboxes = {"x", "y"}
    MaxEntries = 2
    MaxGrants = 2
    MaxTexts = 2
    MaxSubmissions = 2
    SubmissionWire = 2
    MaxRequests = 2
    RequestWire = 2
    MaxImports = 2
    ImportPosts = 2
    BuildWrites = 5
    BuildProbes = 2
    CoordinatorTools = 3
    CoordinatorAttempts = 3
    CoordinatorTail = 2
    BuilderCalls = 2
    BuilderQueued = 1
    BuilderChunks = 3
    SourcePaths = {"p", "q"}
    SourceTexts = {"t", "bad"}
    SourceRevisions = 2
    MaxImages = 1
    ViewRuns = 2
    AppKeys = {"k1", "k2"}
    AppSlots = {"s1", "s2"}
    AppPages = {"g1", "g2"}
    MaxRecords = 2
    MaxSaves = 4
    AppPosts = 2
    BrowserClosers = {"reviewer", "deadline"}
    BrowserOps = 2
    LeaseTime = 2
    WorkspaceClock = 3
    WorkspacePolls = 2
    TokenStreams = {1, 2, 3}
    TokenRoles <- MCRoles
    TokenEstimates = {1, 2}
    TokenLimit = 4
    TokenMost = 3
    PlannedMost = 90
    LoweredLimits = {30, None}
    NoteBytes = 8
    NoteDetails = 1
    NoteReferences = {2, 9}
    NoteLengths = {0, 4}
    NoteSteps = 1
    NoteEvents = 2
    NoteFrame = 1
    PlanIds = 4
    PlanGroups = {"g1", "g2"}
    PlanTexts = {"x", "y"}
    PlanVersions = 3
    PlanTextBytes <- MCTextBytes
    PlanLinkBytes = 1
    MostPlanned = 3
    MostReplaced = 2
    MostPlanBytes = 4
SPECIFICATION Spec
INVARIANTS
    TypeOK
    ChecksAreHonest
    LimitsHold
    VersionIsBound
    AskedOnce
    AccessIsKept
PROPERTIES
    ChecksEnd
    ReleaseIsKept
\* every component may come to its end
CHECK_DEADLOCK FALSE

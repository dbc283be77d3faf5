\* One run with a repair, a stop, two faults and a restart. The system may end.
SPECIFICATION FairSpec
CONSTANTS
    MaxRuns = 1
    MaxAttempt = 1
    MaxBoots = 1
    MaxCancels = 1
    MaxFaults = 2
    MaxRollbacks = 0
    None = None
    RollbackOp = RollbackOp
    Sweep = Sweep
CHECK_DEADLOCK FALSE
INVARIANTS
    OneSandboxPerRun
    AcceptedPreviewKept
PROPERTIES
    TaskSettles
    StopEnds
    TrackedCleanupResolves
    ProjectFreed

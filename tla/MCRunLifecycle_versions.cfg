\* Three queued runs and a rollback between them; the sweep is idle. The system may end.
SPECIFICATION SweeplessSpec
CONSTANTS
    MaxRuns = 3
    MaxAttempt = 0
    MaxBoots = 0
    MaxCancels = 0
    MaxFaults = 0
    MaxRollbacks = 1
    None = None
    RollbackOp = RollbackOp
    Sweep = Sweep
CHECK_DEADLOCK FALSE
INVARIANTS
    BaseIsCurrent
PROPERTIES
    VersionsKept

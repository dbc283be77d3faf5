\* A stop while the sandbox is being created.
SPECIFICATION FairSpec
CONSTANTS
    MaxRuns = 1
    MaxAttempt = 0
    MaxBoots = 0
    MaxCancels = 1
    MaxFaults = 0
    MaxRollbacks = 0
    None = None
    RollbackOp = RollbackOp
    Sweep = Sweep
CHECK_DEADLOCK FALSE
PROPERTIES
    UnregisteredCleanupResolves

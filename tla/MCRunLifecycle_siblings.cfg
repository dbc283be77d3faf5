\* Two runs of one project with a stop, a fault and a restart. The system may end.
SPECIFICATION Spec
CONSTANTS
    MaxRuns = 2
    MaxAttempt = 0
    MaxBoots = 1
    MaxCancels = 1
    MaxFaults = 1
    MaxRollbacks = 0
    None = None
    RollbackOp = RollbackOp
    Sweep = Sweep
CHECK_DEADLOCK FALSE
INVARIANTS
    TypeOK
    LockHeld
    ReclaimedWhenConfirmed
    OpenRowTracked
PROPERTIES
    NoReversal

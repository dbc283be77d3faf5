\* A repair while the sweep is still destroying the first sandbox.
SPECIFICATION Spec
CONSTANTS
    MaxRuns = 1
    MaxAttempt = 1
    MaxBoots = 0
    MaxCancels = 0
    MaxFaults = 1
    MaxRollbacks = 0
    None = None
    RollbackOp = RollbackOp
    Sweep = Sweep
CHECK_DEADLOCK FALSE
INVARIANTS
    ReclaimedWhenConfirmed

\* A rollback, a restore and a queued run on one slot. The system may end.
SPECIFICATION FairSpec
CONSTANTS
    p1 = p1
    p2 = p2
    b1 = b1
    r1 = r1
    j1 = j1
    Projects = {p1, p2}
    Rollbacks = {b1}
    Restores = {r1}
    Jobs = {j1}
    Home <- MCHome
    Ceiling = 1
    MaxFaults = 2
    MaxBoots = 1
    None = None
CHECK_DEADLOCK FALSE
INVARIANTS
    TypeOK
    LockFollowsOperation
    CapacityKept
    SandboxAccounted
PROPERTIES
    OperationEnds

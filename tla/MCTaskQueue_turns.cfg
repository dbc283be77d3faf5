CONSTANTS
    alice = alice
    bob = bob
    pa = pa
    pb = pb
    pc = pc
    Accounts <- MCAccounts
    Projects <- MCProjects
    AccountOf <- MCAccountOf
    Tasks = {t1, t2, t3}
    None = None
    Ceiling = 2
    MaxDeletions = 1
SPECIFICATION FairSpec
INVARIANTS
    ProjectIsSerial
    PositionsFollowOrder
PROPERTIES
    ServedInTurn
    WaitingTaskStarts

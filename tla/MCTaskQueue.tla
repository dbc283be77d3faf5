----------------------------- MODULE MCTaskQueue -----------------------------
EXTENDS TaskQueue
\* Two accounts, one of them with two projects.
CONSTANTS alice, bob, pa, pb, pc
MCAccounts == {alice, bob}
MCProjects == {pa, pb, pc}
MCAccountOf == [p \in MCProjects |-> IF p = pa THEN alice ELSE bob]
=============================================================================

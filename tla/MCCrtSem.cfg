\* A waiter is posted once before it runs.
SPECIFICATION FairSpec
CONSTANTS
    Lists = {"todo"}
    Items = {c1, c2, c3}
    Sems = {s1, s2}
    Flags = {"normal", "critical"}
    OnePost = TRUE
    MaxValue = 2
    NULL = NULL
    First = First
INVARIANTS
    TypeOK
    WaiterUnqueued
    NoLostWakeup
    QueueSound
PROPERTY
    OvertakenOnlyByCritical
\* Every coroutine may end, or wait for a post that never comes.
CHECK_DEADLOCK FALSE

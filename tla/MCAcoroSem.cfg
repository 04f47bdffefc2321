\* Three coroutines, two workers, one semaphore, both priorities; background
\* routines need not return.
SPECIFICATION SemFairSpec
CONSTANTS
    Coros = {c1, c2, c3}
    Creators = {main}
    Manager = manager
    WorkerCount = 2
    PipeCap = 3
    Ops = {"bg_run"}
    MaxSteps = 1
    NULL = NULL
    Sems = {s1}
    Flags = {"normal", "critical"}
    OnePost = TRUE
    MaxValue = 2
INVARIANTS
    WaiterOnItsWay
    CriticalFirst
    IdleMeansWaiting
PROPERTIES
    PostedWaiterRuns
    FirstCallTaken
\* Every coroutine may end, or wait for a post or a routine that never comes.
CHECK_DEADLOCK FALSE

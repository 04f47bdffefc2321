\* Two environments, one after the other.
SPECIFICATION EnvFairSpec
CONSTANTS
    Coros = {c1, c2}
    Creators = {main}
    Manager = manager
    WorkerCount = 2
    PipeCap = 2
    Ops = {"bg_run", "msleep"}
    MaxSteps = 1
    NULL = NULL
    MaxEnvs = 2
    WaitsForCalls = TRUE
INVARIANTS
    QueuesOutliveUsers
    CleanShutdown
PROPERTIES
    DestroyReturns
    CoroutinesEndInEnv
\* The process may stay without an environment.
CHECK_DEADLOCK FALSE

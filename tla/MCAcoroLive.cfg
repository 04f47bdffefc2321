\* Refinement and liveness: two coroutines, two workers, every slow call.
SPECIFICATION FairSpec
CONSTANTS
    Coros = {c1, c2}
    Creators = {main}
    Manager = manager
    WorkerCount = 2
    PipeCap = 2
    Ops = {"disk_open", "disk_read", "disk_write", "sock_read", "sock_write",
           "tcp_blocked_connect", "tcp_timeout_connect", "msleep", "bg_run",
           "tcp_accept"}
    MaxSteps = 1
    NULL = NULL
PROPERTIES
    ImplementsLife
    CarriesCalls
    EveryCoroutineEnds
    EveryCallReturns
\* The process idles once every coroutine has ended.
CHECK_DEADLOCK FALSE

\* Safety: three coroutines, two workers, one application thread.
SPECIFICATION Spec
CONSTANTS
    Coros = {c1, c2, c3}
    Creators = {main}
    Manager = manager
    WorkerCount = 2
    PipeCap = 3
    Ops = {"bg_run", "tcp_timeout_connect"}
    MaxSteps = 2
    NULL = NULL
SYMMETRY Symmetry
INVARIANTS
    TypeOK
    SingleOwner
    TokensMatch
    NoAbort
    ContextSaved
    ServedOnce
    PipeHasRoom
    IdleMeansDone
\* The process idles once every coroutine has ended.
CHECK_DEADLOCK FALSE

\* More coroutines than a pipe holds bytes, all calls to one worker.
SPECIFICATION Spec
CONSTANTS
    Coros = {c1, c2, c3}
    Creators = {main}
    Manager = manager
    WorkerCount = 1
    PipeCap = 2
    Ops = {"bg_run"}
    MaxSteps = 1
    NULL = NULL
SYMMETRY Symmetry
INVARIANT PipeHasRoom
CHECK_DEADLOCK FALSE

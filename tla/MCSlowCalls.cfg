\* Safety: two coroutines, two workers, one call of each kind that a
\* handler of its own serves.
SPECIFICATION Spec
CONSTANTS
    Tasks = {t1, t2}
    Workers = {w1, w2}
    Kinds = {"disk_read", "sock_read", "tcp_blocked_connect",
             "tcp_timeout_connect", "msleep", "tcp_accept"}
    Counts = {0, 2}
    IntHalf = 4
    MaxCalls = 2
    NULL = NULL
SYMMETRY Symmetry
INVARIANTS
    TypeOK
    WatchersStopped
    NeverForgotten
    NotifiedOnce
    IoResult
    NoSocketLeft
\* The coroutines stop after MaxCalls calls.
CHECK_DEADLOCK FALSE

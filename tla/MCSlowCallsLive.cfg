\* Liveness: two coroutines in two loops, every slow call, no help from peers.
SPECIFICATION FairSpec
CONSTANTS
    Tasks = {t1, t2}
    Workers = {w1, w2}
    Kinds = {"disk_open", "disk_read", "disk_write", "sock_read", "sock_write",
             "tcp_blocked_connect", "tcp_timeout_connect", "msleep", "bg_run",
             "tcp_accept"}
    Counts = {1}
    IntHalf = 4
    MaxCalls = 1
    NULL = NULL
PROPERTIES
    ServesCalls
    TimedCallsReturn
CHECK_DEADLOCK FALSE

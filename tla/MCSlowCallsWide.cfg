\* A transfer of as many bytes as an int cannot hold.
SPECIFICATION Spec
CONSTANTS
    Tasks = {t1}
    Workers = {w1}
    Kinds = {"sock_read"}
    Counts = {4}
    IntHalf = 4
    MaxCalls = 1
    NULL = NULL
INVARIANT IoResult
CHECK_DEADLOCK FALSE

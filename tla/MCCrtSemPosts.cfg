\* A waiter may be posted again before it runs.
SPECIFICATION Spec
CONSTANTS
    Lists = {"todo"}
    Items = {c1, c2}
    Sems = {s1, s2}
    Flags = {"normal"}
    OnePost = FALSE
    MaxValue = 2
    NULL = NULL
    First = First
SYMMETRY Symmetry
INVARIANT WaiterUnqueued
CHECK_DEADLOCK FALSE

\* Two servers in two loops, more clients than descriptors.
SPECIFICATION FairSpec
CONSTANTS
    Servers = {c1, c2}
    Clients = {k1, k2, k3}
    Workers = {w1, w2}
    FdLimit = 3
    Backlog = 2
INVARIANTS
    OneReceiver
    NothingLeftOpen
PROPERTY EveryClientAccepted
\* The servers may fail to get a socket.
CHECK_DEADLOCK FALSE

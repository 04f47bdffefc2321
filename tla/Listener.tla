------------------------------ MODULE Listener ------------------------------
(***************************************************************************)
(* Listening sockets: crt_tcp_prepare_sock(), crt_set_nonblock() and       *)
(* crt_tcp_accept() of src/src/acoro.c, with several coroutines accepting  *)
(* on one socket in several event loops, and connections closed with       *)
(* crt_sock_close(). The server coroutines do what a server has to do with *)
(* these functions: prepare the socket, accept, and hand each connection   *)
(* to a coroutine of its own that closes it at its end. They follow        *)
(* example/echo_server2.c, which has one server and does not look at what  *)
(* crt_tcp_accept() returns; these do, and accept again if it failed.      *)
(*                                                                         *)
(* The kernel is external: the descriptor table (lowest free number first, *)
(* a new descriptor blocks), one port, and the queue of connections that   *)
(* listen() keeps. How a call reaches a worker and comes back is in module *)
(* Acoro; here a coroutine's call is started by whichever worker takes it. *)
(***************************************************************************)
EXTENDS Integers, Sequences, FiniteSets, FiniteSetsExt, Functions

CONSTANTS
    Servers,   \* the coroutines that accept
    Clients,   \* the peers that connect
    Workers,   \* the background workers
    FdLimit,   \* the process's descriptor limit
    Backlog    \* how many connections listen() queues (128)

\* No descriptor, no peer, no loop.
NONE == 0

ASSUME ListenerAssumption ==
    /\ FdLimit \in Nat \ {0} /\ Backlog \in Nat \ {0}
    /\ NONE \notin Clients /\ NONE \notin Workers

Fds == 1 .. FdLimit

\* What crt_tcp_prepare_sock() returns instead of a descriptor.
CRT_ERR_SOCKET == -1

CRT_ERR_SET_NONBLOCK == -4

\* Those of bind(), listen() and setsockopt().
PrepareErrors == {-2, -3, -5}

VARIABLES
    desc,      \* what each descriptor is: "free", "socket", "listener", "conn"
    nonblock,  \* the descriptors with O_NONBLOCK
    peer,      \* the client at the other end of a connection
    backlog,   \* the connections not yet accepted
    client,    \* each client: "new", "queued", "accepted", "closed", "refused"
    listenfd,  \* the socket the servers accept on
    pc,        \* where each server coroutine is
    ret,       \* what its last call returned
    err,       \* its ret.err_code
    watch,     \* the event loop its accept watcher is active in
    pending,   \* the watchers each loop still has to call in this iteration
    held       \* the connections handed to coroutines of their own

kernelVars == <<desc, nonblock, peer, backlog, client>>
vars == <<kernelVars, listenfd, pc, ret, err, watch, pending, held>>

Init ==
    /\ desc = [f \in Fds |-> "free"]
    /\ nonblock = {}
    /\ peer = [f \in Fds |-> NONE]
    /\ backlog = <<>>
    /\ client = [k \in Clients |-> "new"]
    /\ listenfd = NONE
    /\ pc = [c \in Servers |-> "start"]
    /\ ret = [c \in Servers |-> NONE]
    /\ err = [c \in Servers |-> "0"]
    /\ watch = [c \in Servers |-> NONE]
    /\ pending = [w \in Workers |-> {}]
    /\ held = {}

Goto(c, from, to) == pc[c] = from /\ pc' = [pc EXCEPT ![c] = to]

Returns(c, r, e) ==
    /\ ret' = [ret EXCEPT ![c] = r]
    /\ err' = [err EXCEPT ![c] = e]

-----------------------------------------------------------------------------
(* The kernel *)

Free == {f \in Fds : desc[f] = "free"}

NewFd == Min(Free)

Listening == {f \in Fds : desc[f] = "listener"}

\* close(): with a listening socket go the connections in its queue.
Close(f) ==
    /\ desc' = [desc EXCEPT ![f] = "free"]
    /\ nonblock' = nonblock \ {f}
    /\ peer' = [peer EXCEPT ![f] = NONE]
    /\ IF desc[f] = "listener"
         THEN /\ backlog' = <<>>
              /\ client' = [k \in Clients |-> IF k \in Range(backlog)
                                                THEN "refused" ELSE client[k]]
         ELSE /\ client' = [k \in Clients |-> IF k = peer[f]
                                                THEN "closed" ELSE client[k]]
              /\ UNCHANGED backlog

Connect(k) ==
    /\ client[k] = "new"
    /\ \/ /\ Listening # {}
          /\ Len(backlog) < Backlog
          /\ backlog' = Append(backlog, k)
          /\ client' = [client EXCEPT ![k] = "queued"]
       \/ /\ Listening = {}
          /\ client' = [client EXCEPT ![k] = "refused"]
          /\ UNCHANGED backlog
    /\ UNCHANGED <<desc, nonblock, peer, listenfd, pc, ret, err, watch,
                   pending, held>>

-----------------------------------------------------------------------------
(* crt_tcp_prepare_sock(), on the manager thread: while a coroutine is in  *)
(* it no other coroutine runs, but workers and clients do.                 *)

Preparing == {c \in Servers : pc[c] \in {"socket", "nonblock"}}

\* socket() fails: the descriptor table is full, or for reasons of its own.
PrepareNoSocket(c) ==
    /\ Goto(c, "start", "end")
    /\ Returns(c, CRT_ERR_SOCKET, "errno")
    /\ UNCHANGED <<kernelVars, listenfd, watch, pending, held>>

PrepareSocket(c) ==
    /\ Goto(c, "start", "socket")
    /\ Free # {}
    /\ desc' = [desc EXCEPT ![NewFd] = "socket"]
    /\ ret' = [ret EXCEPT ![c] = NewFd]
    /\ UNCHANGED <<nonblock, peer, backlog, client, listenfd, err, watch,
                   pending, held>>

\* Mutant: the socket is not closed on the way out.
PrepareFailsOpen(c, code) ==
    /\ Goto(c, "socket", "end")
    /\ Returns(c, code, "errno")
    /\ UNCHANGED <<kernelVars, listenfd, watch, pending, held>>

\* setsockopt(), bind() or listen() fails: bind() whenever the port is taken,
\* the others for reasons of their own. The socket is closed.
PrepareFails(c, code) ==
    /\ Goto(c, "socket", "end")
    /\ Close(ret[c])
    /\ Returns(c, code, "errno")
    /\ UNCHANGED <<listenfd, watch, pending, held>>

\* From listen() on clients can connect.
PrepareListen(c) ==
    /\ Goto(c, "socket", "nonblock")
    /\ Listening = {}
    /\ desc' = [desc EXCEPT ![ret[c]] = "listener"]
    /\ UNCHANGED <<nonblock, peer, backlog, client, listenfd, ret, err, watch,
                   pending, held>>

\* crt_set_nonblock() succeeds; the coroutine has its socket.
PrepareDone(c) ==
    /\ Goto(c, "nonblock", "serve")
    /\ nonblock' = nonblock \cup {ret[c]}
    /\ listenfd' = ret[c]
    /\ UNCHANGED <<desc, peer, backlog, client, ret, err, watch, pending, held>>

\* crt_set_nonblock() fails: clients may already be queued.
PrepareUndone(c) ==
    /\ Goto(c, "nonblock", "end")
    /\ Close(ret[c])
    /\ Returns(c, CRT_ERR_SET_NONBLOCK, "errno")
    /\ UNCHANGED <<listenfd, watch, pending, held>>

\* A server that is told of the socket another one prepared.
Join(c) ==
    /\ Goto(c, "start", "serve")
    /\ listenfd # NONE
    /\ UNCHANGED <<kernelVars, listenfd, ret, err, watch, pending, held>>

-----------------------------------------------------------------------------
(* crt_tcp_accept() *)

Accept(c) ==
    /\ Goto(c, "serve", "called")
    /\ UNCHANGED <<kernelVars, listenfd, ret, err, watch, pending, held>>

\* do_tcp_accept(): ev_io_start() in the loop of the worker that took the call.
DoAccept(w, c) ==
    /\ Goto(c, "called", "watching")
    /\ watch' = [watch EXCEPT ![c] = w]
    /\ UNCHANGED <<kernelVars, listenfd, ret, err, pending, held>>

\* epoll_wait() returns: libev will call every watcher of the socket.
Poll(w) ==
    /\ pending[w] = {}
    /\ backlog # <<>>
    /\ \E c \in Servers : watch[c] = w
    /\ pending' = [pending EXCEPT ![w] = {c \in Servers : watch[c] = w}]
    /\ UNCHANGED <<kernelVars, listenfd, pc, ret, err, watch, held>>

\* ev_tcp_accept(): accept() may find that another callback, in this loop or
\* another, has taken the connection; or that there is no descriptor for it.
\* (On a blocking socket it would not return before the next connection.)
AcceptEvent(w, c) ==
    /\ Goto(c, "watching", "done")
    /\ c \in pending[w]
    /\ pending' = [pending EXCEPT ![w] = @ \ {c}]
    /\ watch' = [watch EXCEPT ![c] = NONE]
    /\ UNCHANGED <<listenfd, held>>

\* The result of crt_set_nonblock() is ignored: if it has failed, the server
\* gets a descriptor that blocks.
AcceptOne(w, c) ==
    /\ AcceptEvent(w, c)
    /\ backlog # <<>> /\ Free # {}
    /\ desc' = [desc EXCEPT ![NewFd] = "conn"]
    /\ nonblock' \in {nonblock, nonblock \cup {NewFd}}
    /\ peer' = [peer EXCEPT ![NewFd] = Head(backlog)]
    /\ client' = [client EXCEPT ![Head(backlog)] = "accepted"]
    /\ backlog' = Tail(backlog)
    /\ Returns(c, NewFd, "0")

AcceptNone(w, c) ==
    /\ AcceptEvent(w, c)
    /\ backlog = <<>>
    /\ listenfd \in nonblock
    /\ Returns(c, -1, "EAGAIN")
    /\ UNCHANGED kernelVars

\* Mutant: a callback that fails returns without telling the manager.
AcceptFullSilent(w, c) ==
    /\ Goto(c, "watching", "end")
    /\ c \in pending[w]
    /\ backlog # <<>> /\ Free = {}
    /\ pending' = [pending EXCEPT ![w] = @ \ {c}]
    /\ watch' = [watch EXCEPT ![c] = NONE]
    /\ UNCHANGED <<kernelVars, listenfd, ret, err, held>>

AcceptFull(w, c) ==
    /\ AcceptEvent(w, c)
    /\ backlog # <<>> /\ Free = {}
    /\ Returns(c, -1, "EMFILE")
    /\ UNCHANGED kernelVars

\* The server coroutine (external: the application) has the result: a
\* connection gets a coroutine of its own.
Serve(c) ==
    /\ Goto(c, "done", "serve")
    /\ held' = IF ret[c] \in Fds THEN held \cup {ret[c]} ELSE held
    /\ UNCHANGED <<kernelVars, listenfd, ret, err, watch, pending>>

\* Mutant: the descriptor is closed again later.
CloseConnTwice(f) ==
    /\ f \in held
    /\ Preparing = {}
    /\ Close(f)
    /\ UNCHANGED <<listenfd, pc, ret, err, watch, pending, held>>

\* crt_sock_close(), at the end of connection_processor().
CloseConn(f) ==
    /\ f \in held
    /\ Preparing = {}
    /\ held' = held \ {f}
    /\ Close(f)
    /\ UNCHANGED <<listenfd, pc, ret, err, watch, pending>>

-----------------------------------------------------------------------------

Server(c) ==
    /\ Preparing \subseteq {c}
    /\ \/ PrepareNoSocket(c) \/ PrepareSocket(c)
       \/ \E code \in PrepareErrors : PrepareFails(c, code)
       \/ PrepareListen(c) \/ PrepareDone(c) \/ PrepareUndone(c) \/ Join(c)
       \/ Accept(c) \/ Serve(c)

Start(c) == \E w \in Workers : DoAccept(w, c)

Loop(w) ==
    \/ Poll(w)
    \/ \E c \in Servers : AcceptOne(w, c) \/ AcceptNone(w, c) \/ AcceptFull(w, c)

Next ==
    \/ \E k \in Clients : Connect(k)
    \/ \E c \in Servers : Server(c) \/ Start(c)
    \/ \E w \in Workers : Loop(w)
    \/ \E f \in Fds : CloseConn(f)

Spec == Init /\ [][Next]_vars

\* Threads keep running, and connections come to an end.
FairSpec ==
    /\ Spec
    /\ \A c \in Servers : WF_vars(Server(c)) /\ WF_vars(Start(c))
    /\ \A w \in Workers : WF_vars(Loop(w))
    /\ \A f \in Fds : WF_vars(CloseConn(f))

-----------------------------------------------------------------------------
(* Properties *)

\* The servers that have just been given a connection.
Fresh == {c \in Servers : pc[c] = "done" /\ ret[c] \in Fds}

\* Each connection is accepted by one coroutine, once: the clients that are
\* connected are those of the queue and of the connections in the servers'
\* and the processors' hands, each at one descriptor.
OneReceiver ==
    /\ IsInjective(backlog)
    /\ Range(backlog) = {k \in Clients : client[k] = "queued"}
    /\ \A c \in Fresh : ret[c] \notin held /\ desc[ret[c]] = "conn"
    /\ \A c, d \in Fresh : ret[c] = ret[d] => c = d
    /\ \A k \in Clients :
         Cardinality({f \in held \cup {ret[c] : c \in Fresh} : peer[f] = k}) =
           IF client[k] = "accepted" THEN 1 ELSE 0

\* No descriptor is left open that nobody holds, whichever step of
\* crt_tcp_prepare_sock() or of an accept has failed.
NothingLeftOpen ==
    \A f \in Fds : desc[f] # "free" =>
        \/ f = listenfd
        \/ f \in held
        \/ \E c \in Servers : ret[c] = f /\ pc[c] \in {"socket", "nonblock", "done"}

\* A connection in the queue of the servers' socket is accepted: neither a
\* lost race, nor a full descriptor table, nor an event loop that serves
\* another coroutine first keeps it there.
EveryClientAccepted ==
    \A k \in Clients :
        client[k] = "queued" /\ listenfd # NONE ~> client[k] \in {"accepted", "closed"}

=============================================================================

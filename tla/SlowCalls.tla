----------------------------- MODULE SlowCalls -----------------------------
(***************************************************************************)
(* What a background worker does with a slow call once it has shifted the  *)
(* task from doing_queue: do_task() and its handlers in src/src/acoro.c,   *)
(* the libev callbacks that finish a call started in the worker's event    *)
(* loop, and the result the coroutine reads. Module Acoro has the queues   *)
(* on both sides; there a call is one DoSync, or a DoAsync and a Callback. *)
(*                                                                         *)
(* A worker runs one handler or callback at a time. The kernel (read,      *)
(* write, connect, accept ...) and libev are external: a system call has   *)
(* any outcome the code distinguishes, and a loop iteration makes any set  *)
(* of the active watchers pending, which are then called in any order.     *)
(* A step is one handler or callback, except that the transfer loop of     *)
(* ev_sock_read()/ev_sock_write() takes one step for each system call.     *)
(***************************************************************************)
EXTENDS Integers, FiniteSets

CONSTANTS
    Tasks,     \* the coroutines that make slow calls
    Workers,   \* the background workers
    Kinds,     \* the calls this instance makes
    Counts,    \* the byte counts they ask for
    IntHalf,   \* the int type holds -IntHalf .. IntHalf - 1 (2^31)
    MaxCalls,  \* bound: calls per task
    NULL

DiskKinds == {"disk_open", "disk_read", "disk_write"}

SockKinds == {"sock_read", "sock_write"}

AllKinds == DiskKinds \cup SockKinds \cup
            {"tcp_blocked_connect", "tcp_timeout_connect", "msleep",
             "tcp_accept", "bg_run"}

ASSUME SlowCallsAssumption ==
    /\ Kinds \subseteq AllKinds
    /\ Counts \subseteq Nat
    /\ IntHalf \in Nat \ {0}
    /\ MaxCalls \in Nat
    /\ NULL \notin Tasks

\* The watchers of a task: ec.sock_watcher and ec.sock_timer.
Watchers == Tasks \X {"io", "timer"}

\* A pending watcher and what libev passes to its callback. Timers are never
\* given EV_ERROR.
Events == Watchers \X {"ready", "error"}

\* Descriptors are told apart from -1 only.
AnyFd == 0

\* The error codes the code tells apart; "other" is any other errno value.
Errors == {"ok", "EWOULDBLOCK", "ENODEV", "other"}

VARIABLES
    st,       \* where the call is: "coro", "doing", "loop" or "done"
    kind,     \* task_ptr->action, as the call that was made
    count,    \* args.io_arg.count
    timed,    \* whether timeout_ms # 0
    have,     \* ec.have_io
    need,     \* ec.need_io
    val,      \* ret.val
    err,      \* ret.err_code
    retval,   \* what the call returned to the coroutine
    active,   \* the active watchers of each worker's loop
    pending,  \* the events each worker's loop has yet to deliver
    xfer,     \* the task whose transfer loop the worker is in
    moved,    \* auxiliary: bytes the kernel took or gave for this call
    cut,      \* auxiliary: what cut the call short: "no", "eof" or "timeout"
    sock,     \* auxiliary: the socket this call opened is still open
    notes,    \* auxiliary: how often the manager was told of this call
    calls     \* auxiliary: calls made, for the bound

argVars  == <<kind, count, timed, calls>>
ioVars   == <<have, need, moved, cut>>
loopVars == <<active, pending>>
vars == <<st, argVars, ioVars, val, err, retval, loopVars, xfer, sock, notes>>

Init ==
    /\ st = [t \in Tasks |-> "coro"]
    /\ kind \in [Tasks -> {"bg_run"}]
    /\ count = [t \in Tasks |-> 0]
    /\ timed = [t \in Tasks |-> FALSE]
    /\ calls = [t \in Tasks |-> 0]
    /\ have = [t \in Tasks |-> 0]
    /\ need = [t \in Tasks |-> 0]
    /\ moved = [t \in Tasks |-> 0]
    /\ cut = [t \in Tasks |-> "no"]
    /\ val = [t \in Tasks |-> 0]
    /\ err = [t \in Tasks |-> "ok"]
    /\ retval = [t \in Tasks |-> 0]
    /\ active = [w \in Workers |-> {}]
    /\ pending = [w \in Workers |-> {}]
    /\ xfer = [w \in Workers |-> NULL]
    /\ sock = [t \in Tasks |-> FALSE]
    /\ notes = [t \in Tasks |-> 0]

\* An int made from a wider integer.
ToInt(n) == ((n + IntHalf) % (2 * IntHalf)) - IntHalf

-----------------------------------------------------------------------------
(* The coroutine. *)

\* coroutine_set_*(): the arguments are stored and the task is handed over.
\* Only socket calls and connects have a timeout; crt_tcp_timeout_connect()
\* with 0 has none, and with -1 it is the blocked connect.
Call(t, k, n, timeout) ==
    /\ st[t] = "coro"
    /\ calls[t] < MaxCalls
    /\ timeout => k \in SockKinds \cup {"tcp_timeout_connect"}
    /\ st' = [st EXCEPT ![t] = "doing"]
    /\ kind' = [kind EXCEPT ![t] = k]
    /\ count' = [count EXCEPT ![t] = n]
    /\ timed' = [timed EXCEPT ![t] = timeout]
    /\ calls' = [calls EXCEPT ![t] = @ + 1]
    /\ moved' = [moved EXCEPT ![t] = 0]
    /\ cut' = [cut EXCEPT ![t] = "no"]
    /\ sock' = [sock EXCEPT ![t] = FALSE]
    /\ UNCHANGED <<have, need, val, err, retval, loopVars, xfer, notes>>

\* The manager switches back to the coroutine: coroutine_get_retval().
Return(t) ==
    /\ st[t] = "done"
    /\ st' = [st EXCEPT ![t] = "coro"]
    /\ retval' = [retval EXCEPT ![t] = ToInt(val[t])]
    /\ notes' = [notes EXCEPT ![t] = @ - 1]
    /\ UNCHANGED <<argVars, ioVars, val, err, loopVars, xfer, sock>>

-----------------------------------------------------------------------------
(* do_task(): the handlers. The worker is between two callbacks.           *)

Take(w, t, kinds) ==
    /\ xfer[w] = NULL
    /\ st[t] = "doing"
    /\ kind[t] \in kinds

\* The result is in the task and coroutine_notify_manager() is called.
Notify(t, v, e) ==
    /\ val' = [val EXCEPT ![t] = v]
    /\ err' = [err EXCEPT ![t] = e]
    /\ st' = [st EXCEPT ![t] = "done"]
    /\ notes' = [notes EXCEPT ![t] = @ + 1]

\* What read(2), write(2) and open(2) return to the disk handlers: at most
\* what was asked for, or -1 and errno.
DiskResult(t) ==
    {<<-1, "other">>} \cup
    IF kind[t] = "disk_open" THEN {<<AnyFd, "ok">>}
                             ELSE (0 .. count[t]) \X {"ok"}

DoDisk(w, t) ==
    /\ Take(w, t, DiskKinds)
    /\ \E r \in DiskResult(t) :
         /\ Notify(t, r[1], r[2])
         /\ moved' = [moved EXCEPT ![t] = IF r[1] > 0 THEN r[1] ELSE 0]
    /\ UNCHANGED <<argVars, have, need, cut, retval, loopVars, xfer, sock>>

\* The routine's own int result is passed on, with error code 0.
DoBgRun(w, t) ==
    /\ Take(w, t, {"bg_run"})
    /\ \E r \in {-1, 0} : Notify(t, r, "ok")
    /\ UNCHANGED <<argVars, ioVars, retval, loopVars, xfer, sock>>

\* socket(), setsockopt() and connect() in turn; the socket is closed when a
\* later one fails.
DoBlockedConnect(w, t) ==
    /\ Take(w, t, {"tcp_blocked_connect"})
    /\ \/ Notify(t, -1, "other") /\ UNCHANGED sock
       \/ Notify(t, AnyFd, "ok") /\ sock' = [sock EXCEPT ![t] = TRUE]
    /\ UNCHANGED <<argVars, ioVars, retval, loopVars, xfer>>

\* ev_io_start() and ev_timer_start() on the worker's own loop.
StartWatchers(w, ws) ==
    active' = [active EXCEPT ![w] = @ \cup ws]

\* Mutant: no timer for a call with a timeout.
NoTimer(t) == {}

\* The timer of a call whose timeout_ms is not 0.
Timer(t) == IF timed[t] THEN {<<t, "timer">>} ELSE {}

InLoop(t) ==
    /\ st' = [st EXCEPT ![t] = "loop"]
    /\ UNCHANGED <<val, err, notes>>

\* do_sock_read(), do_sock_write()
DoSock(w, t) ==
    /\ Take(w, t, SockKinds)
    /\ StartWatchers(w, {<<t, "io">>} \cup Timer(t))
    /\ have' = [have EXCEPT ![t] = 0]
    /\ need' = [need EXCEPT ![t] = count[t]]
    /\ InLoop(t)
    /\ UNCHANGED <<argVars, moved, cut, retval, pending, xfer, sock>>

\* Mutant: a connect that ends at once is reported by its handler and, as for
\* a synchronous call, by new_event_handler().
DoTimeoutConnectTwice(w, t) ==
    /\ Take(w, t, {"tcp_timeout_connect"})
    /\ val' = [val EXCEPT ![t] = -1]
    /\ err' = [err EXCEPT ![t] = "other"]
    /\ st' = [st EXCEPT ![t] = "done"]
    /\ notes' = [notes EXCEPT ![t] = @ + 2]
    /\ UNCHANGED <<argVars, ioVars, retval, loopVars, xfer, sock>>

\* The same calls on a nonblocking socket: an outcome at once, or
\* EINPROGRESS and the watchers.
DoTimeoutConnect(w, t) ==
    /\ Take(w, t, {"tcp_timeout_connect"})
    /\ \/ Notify(t, -1, "other") /\ UNCHANGED <<sock, active>>
       \/ /\ Notify(t, AnyFd, "ok")
          /\ sock' = [sock EXCEPT ![t] = TRUE]
          /\ UNCHANGED active
       \/ /\ sock' = [sock EXCEPT ![t] = TRUE]
          /\ StartWatchers(w, {<<t, "io">>} \cup Timer(t))
          /\ InLoop(t)
    /\ UNCHANGED <<argVars, ioVars, retval, pending, xfer>>

DoMsleep(w, t) ==
    /\ Take(w, t, {"msleep"})
    /\ StartWatchers(w, {<<t, "timer">>})
    /\ InLoop(t)
    /\ UNCHANGED <<argVars, ioVars, retval, pending, xfer, sock>>

DoAccept(w, t) ==
    /\ Take(w, t, {"tcp_accept"})
    /\ StartWatchers(w, {<<t, "io">>})
    /\ InLoop(t)
    /\ UNCHANGED <<argVars, ioVars, retval, pending, xfer, sock>>

-----------------------------------------------------------------------------
(* libev (external). *)

\* One iteration of ev_run(): descriptors that turn out to be invalid have
\* their watchers stopped and called with EV_ERROR (fd_kill), and other active
\* watchers become ready. A timer that expires is stopped first: none of the
\* library's timers repeats. A listening socket is not closed under accept().
Poll(w, ready, dead) ==
    /\ xfer[w] = NULL
    /\ pending[w] = {}
    /\ ready \cup dead # {}
    /\ \A x \in dead : x[2] = "io" /\ kind[x[1]] # "tcp_accept"
    /\ pending' = [pending EXCEPT ![w] = (ready \X {"ready"}) \cup (dead \X {"error"})]
    /\ active' = [active EXCEPT ![w] = {x \in @ \ dead : x \in ready => x[2] = "io"}]
    /\ UNCHANGED <<st, argVars, ioVars, val, err, retval, xfer, sock, notes>>

\* The loop takes an event from its pending list and calls the watcher.
Invoked(w, t, which, event) ==
    /\ xfer[w] = NULL
    /\ << <<t, which>>, event>> \in pending[w]

\* The pending list once an event has been taken and watchers ws have been
\* stopped: stopping a watcher also clears its pending event.
Stop(w, ws) ==
    /\ active' = [active EXCEPT ![w] = @ \ ws]
    /\ pending' = [pending EXCEPT ![w] = {e \in @ : e[1] \notin ws}]

-----------------------------------------------------------------------------
(* The callbacks. *)

\* Mutant: the timer is left running.
SockStopIoOnly(w, t, v, e) ==
    /\ Stop(w, {<<t, "io">>})
    /\ Notify(t, ToInt(v), e)

\* ev_sock_stop(task_ptr, int retval, err_code), then the notification; also
\* ev_sock_connect_stop().
SockStop(w, t, v, e) ==
    /\ Stop(w, {<<t, "io">>} \cup Timer(t))
    /\ Notify(t, ToInt(v), e)

\* Mutant: a timeout reports an error even if bytes were moved.
SockTimeoutForgetful(w, t) ==
    /\ kind[t] \in SockKinds
    /\ Invoked(w, t, "timer", "ready")
    /\ SockStop(w, t, -1, "EWOULDBLOCK")
    /\ cut' = [cut EXCEPT ![t] = "timeout"]
    /\ UNCHANGED <<argVars, have, need, moved, retval, xfer, sock>>

\* ev_sock_timeout()
SockTimeout(w, t) ==
    /\ kind[t] \in SockKinds
    /\ Invoked(w, t, "timer", "ready")
    /\ IF have[t] = 0 THEN SockStop(w, t, -1, "EWOULDBLOCK")
                      ELSE SockStop(w, t, have[t], "ok")
    /\ cut' = [cut EXCEPT ![t] = "timeout"]
    /\ UNCHANGED <<argVars, have, need, moved, retval, xfer, sock>>

\* ev_sock_read(), ev_sock_write() up to the transfer loop.
SockEvent(w, t) ==
    /\ kind[t] \in SockKinds
    /\ \/ /\ Invoked(w, t, "io", "error")
          /\ SockStop(w, t, -1, "ENODEV")
          /\ UNCHANGED xfer
       \/ /\ Invoked(w, t, "io", "ready")
          /\ need[t] = 0
          /\ SockStop(w, t, have[t], "ok")
          /\ UNCHANGED xfer
       \/ /\ Invoked(w, t, "io", "ready")
          /\ need[t] > 0
          /\ xfer' = [xfer EXCEPT ![w] = t]
          /\ pending' = [pending EXCEPT ![w] = @ \ {<< <<t, "io">>, "ready">>}]
          /\ UNCHANGED <<active, val, err, st, notes>>
    /\ UNCHANGED <<argVars, ioVars, retval, sock>>

\* Mutant: need_io is reduced by have_io.
TransferMiscounts(w, t, n) ==
    /\ xfer[w] = t
    /\ n \in 1 .. need[t]
    /\ moved' = [moved EXCEPT ![t] = @ + n]
    /\ have' = [have EXCEPT ![t] = @ + n]
    /\ need' = [need EXCEPT ![t] = @ - have'[t]]
    /\ IF n = need[t]
       THEN SockStop(w, t, have[t] + n, "ok") /\ xfer' = [xfer EXCEPT ![w] = NULL]
       ELSE UNCHANGED <<xfer, loopVars, val, err, st, notes>>
    /\ UNCHANGED <<argVars, cut, retval, sock>>

\* The transfer loop: read(2) or write(2) moves n bytes. The loop ends when
\* nothing is needed any more.
Transfer(w, t, n) ==
    /\ xfer[w] = t
    /\ n \in 1 .. need[t]
    /\ moved' = [moved EXCEPT ![t] = @ + n]
    /\ have' = [have EXCEPT ![t] = @ + n]
    /\ need' = [need EXCEPT ![t] = @ - n]
    /\ IF n = need[t]
       THEN SockStop(w, t, have[t] + n, "ok") /\ xfer' = [xfer EXCEPT ![w] = NULL]
       ELSE UNCHANGED <<xfer, loopVars, val, err, st, notes>>
    /\ UNCHANGED <<argVars, cut, retval, sock>>

\* It returns 0, with errno still 0: the end of the stream.
TransferEof(w, t) ==
    /\ xfer[w] = t
    /\ SockStop(w, t, have[t], "ok")
    /\ cut' = [cut EXCEPT ![t] = "eof"]
    /\ xfer' = [xfer EXCEPT ![w] = NULL]
    /\ UNCHANGED <<argVars, have, need, moved, retval, sock>>

\* Mutant: EAGAIN stops the watchers as an error does.
TransferFailsStops(w, t) ==
    /\ xfer[w] = t
    /\ xfer' = [xfer EXCEPT ![w] = NULL]
    /\ \/ /\ Stop(w, {<<t, "io">>} \cup Timer(t))
          /\ UNCHANGED <<val, err, st, notes>>
       \/ SockStop(w, t, -1, "other")
    /\ UNCHANGED <<argVars, ioVars, retval, sock>>

\* It returns -1. EINTR tries again, which changes nothing here; EAGAIN
\* leaves the watchers active for later; any other error ends the call.
TransferFails(w, t) ==
    /\ xfer[w] = t
    /\ xfer' = [xfer EXCEPT ![w] = NULL]
    /\ \/ UNCHANGED <<loopVars, val, err, st, notes>>
       \/ SockStop(w, t, -1, "other")
    /\ UNCHANGED <<argVars, ioVars, retval, sock>>

\* ev_sock_connect_timeout(): the socket stays open.
ConnectTimeout(w, t) ==
    /\ kind[t] = "tcp_timeout_connect"
    /\ Invoked(w, t, "timer", "ready")
    /\ SockStop(w, t, -1, "EWOULDBLOCK")
    /\ cut' = [cut EXCEPT ![t] = "timeout"]
    /\ UNCHANGED <<argVars, have, need, moved, retval, xfer, sock>>

\* Mutant: a refused connection's socket is not closed.
ConnectEventUnclosed(w, t) ==
    /\ kind[t] = "tcp_timeout_connect"
    /\ \/ Invoked(w, t, "io", "error") /\ SockStop(w, t, -1, "ENODEV")
       \/ /\ Invoked(w, t, "io", "ready")
          /\ \E e \in Errors : SockStop(w, t, -1, e)
       \/ Invoked(w, t, "io", "ready") /\ SockStop(w, t, AnyFd, "ok")
    /\ UNCHANGED <<argVars, ioVars, retval, xfer, sock>>

\* ev_sock_connect(). A refused connection is reported with whatever errno
\* holds: getsockopt() has succeeded and put the reason elsewhere.
ConnectEvent(w, t) ==
    /\ kind[t] = "tcp_timeout_connect"
    /\ \/ /\ Invoked(w, t, "io", "error")
          /\ sock' = [sock EXCEPT ![t] = FALSE]
          /\ SockStop(w, t, -1, "ENODEV")
       \/ /\ Invoked(w, t, "io", "ready")
          /\ sock' = [sock EXCEPT ![t] = FALSE]
          /\ \E e \in Errors : SockStop(w, t, -1, e)
       \/ /\ Invoked(w, t, "io", "ready")
          /\ SockStop(w, t, AnyFd, "ok")
          /\ UNCHANGED sock
    /\ UNCHANGED <<argVars, ioVars, retval, xfer>>

\* timer_timeout()
SleepOver(w, t) ==
    /\ kind[t] = "msleep"
    /\ Invoked(w, t, "timer", "ready")
    /\ Stop(w, {<<t, "timer">>})
    /\ Notify(t, 0, "ok")
    /\ UNCHANGED <<argVars, ioVars, retval, xfer, sock>>

\* ev_tcp_accept(): another coroutine may have taken the connection.
AcceptEvent(w, t) ==
    /\ kind[t] = "tcp_accept"
    /\ Invoked(w, t, "io", "ready")
    /\ Stop(w, {<<t, "io">>})
    /\ \/ Notify(t, AnyFd, "ok") /\ sock' = [sock EXCEPT ![t] = TRUE]
       \/ Notify(t, -1, "EWOULDBLOCK") /\ UNCHANGED sock
       \/ Notify(t, -1, "other") /\ UNCHANGED sock
    /\ UNCHANGED <<argVars, ioVars, retval, xfer>>

-----------------------------------------------------------------------------

Coroutine(t) ==
    \/ \E k \in Kinds, n \in Counts, timeout \in BOOLEAN : Call(t, k, n, timeout)
    \/ Return(t)

Handle(w, t) ==
    \/ DoDisk(w, t) \/ DoBgRun(w, t) \/ DoBlockedConnect(w, t) \/ DoSock(w, t)
    \/ DoTimeoutConnect(w, t) \/ DoMsleep(w, t) \/ DoAccept(w, t)

PollSome(w) ==
    \E ready \in SUBSET active[w] : \E dead \in SUBSET (active[w] \ ready) :
        Poll(w, ready, dead)

Moves(w, t) ==
    \/ \E n \in 1 .. need[t] : Transfer(w, t, n)
    \/ TransferEof(w, t) \/ TransferFails(w, t)

Callback(w, t) ==
    \/ SockTimeout(w, t) \/ SockEvent(w, t) \/ Moves(w, t)
    \/ ConnectTimeout(w, t) \/ ConnectEvent(w, t)
    \/ SleepOver(w, t) \/ AcceptEvent(w, t)

Next ==
    \/ \E t \in Tasks : Coroutine(t)
    \/ \E w \in Workers : PollSome(w)
    \/ \E w \in Workers, t \in Tasks : Handle(w, t) \/ Callback(w, t)

Spec == Init /\ [][Next]_vars

\* The loop of every worker goes on, some worker takes a task that was handed
\* over (module Acoro has the bytes and the queue that see to it), and time
\* passes: a timer that stays active is found expired by some iteration of
\* its loop. Nothing is assumed of a peer.
Expire(w, t) ==
    \E ready \in SUBSET active[w] : \E dead \in SUBSET (active[w] \ ready) :
        <<t, "timer">> \in ready /\ Poll(w, ready, dead)

Fairness ==
    /\ \A w \in Workers : WF_vars(\E t \in Tasks : Callback(w, t))
    /\ \A t \in Tasks : SF_vars(\E w \in Workers : Handle(w, t))
    /\ \A w \in Workers, t \in Tasks : SF_vars(Expire(w, t))

FairSpec == Spec /\ Fairness

-----------------------------------------------------------------------------
(* Properties *)

\* Every variable has its type.
TypeOK ==
    /\ st \in [Tasks -> {"coro", "doing", "loop", "done"}]
    /\ kind \in [Tasks -> AllKinds]
    /\ count \in [Tasks -> Nat]
    /\ timed \in [Tasks -> BOOLEAN]
    /\ calls \in [Tasks -> 0 .. MaxCalls]
    /\ have \in [Tasks -> Nat]
    /\ need \in [Tasks -> Nat]
    /\ moved \in [Tasks -> Nat]
    /\ cut \in [Tasks -> {"no", "eof", "timeout"}]
    /\ val \in [Tasks -> Int]
    /\ err \in [Tasks -> Errors]
    /\ retval \in [Tasks -> Int]
    /\ active \in [Workers -> SUBSET Watchers]
    /\ pending \in [Workers -> SUBSET Events]
    /\ xfer \in [Workers -> Tasks \cup {NULL}]
    /\ sock \in [Tasks -> BOOLEAN]
    /\ notes \in [Tasks -> Int]

\* A worker's loop has something of the task: an active watcher, an event
\* still to be delivered, or the task's transfer loop.
Holds(w, t) ==
    \/ xfer[w] = t
    \/ \E x \in active[w] : x[1] = t
    \/ \E e \in pending[w] : e[1][1] = t

\* The timer and the descriptor may both be ready in one iteration, and the
\* task may be freed or its watchers initialised again as soon as the manager
\* has been told. By then no loop may hold anything of the task, and while
\* the call is in progress exactly one loop may.
WatchersStopped ==
    \A t \in Tasks :
        /\ \A w \in Workers : Holds(w, t) => st[t] = "loop"
        /\ \A v, w \in Workers : Holds(v, t) /\ Holds(w, t) => v = w

\* A call in progress is never forgotten by its loop: its descriptor is still
\* watched (a return on EAGAIN leaves the watcher active), and if it has a
\* timeout the timer is running or about to be delivered.
Watched(w, t) ==
    /\ kind[t] # "msleep" =>
         \/ <<t, "io">> \in active[w]
         \/ << <<t, "io">>, "error">> \in pending[w]
    /\ timed[t] \/ kind[t] = "msleep" =>
         \/ <<t, "timer">> \in active[w]
         \/ << <<t, "timer">>, "ready">> \in pending[w]

NeverForgotten ==
    \A t \in Tasks : st[t] = "loop" => \E w \in Workers : Watched(w, t)

\* coroutine_notify_manager() is called exactly once for each call: a second
\* time would put the task into todo_queue twice.
NotifiedOnce ==
    \A t \in Tasks : notes[t] = IF st[t] = "done" THEN 1 ELSE 0

\* What the caller of a read or a write is told, which the comment in
\* test_acoro.c:466 sets out for a timeout: if bytes were moved, how many,
\* and no error; if it was too late for any, -1 and EWOULDBLOCK. Fewer bytes
\* than asked for means the end of the stream or a timeout. Only an error
\* makes bytes that were moved disappear.
IoResult ==
    \A t \in Tasks :
        st[t] = "coro" /\ calls[t] > 0 /\ kind[t] \in SockKinds =>
            \/ /\ err[t] = "ok"
               /\ retval[t] = moved[t]
               /\ moved[t] < count[t] => cut[t] \in {"eof", "timeout"}
            \/ retval[t] = -1 /\ err[t] = "EWOULDBLOCK" /\ moved[t] = 0 /\ cut[t] = "timeout"
            \/ retval[t] = -1 /\ err[t] \in {"ENODEV", "other"}

\* A connect that fails closes the socket it opened, whichever of its steps
\* failed; only a connect that timed out leaves it behind.
NoSocketLeft ==
    \A t \in Tasks :
        st[t] = "done" /\ kind[t] \in {"tcp_blocked_connect", "tcp_timeout_connect"} =>
            (sock[t] <=> val[t] # -1 \/ cut[t] = "timeout")

\* A task as module CallService sees it.
InProgress(t) == st[t] \in {"doing", "loop"}

Calls == INSTANCE CallService
    WITH state <- st,
         call  <- [t \in Tasks |-> IF InProgress(t) THEN kind[t] ELSE NULL],
         where <- [t \in Tasks |-> IF \E w \in Workers : Holds(w, t)
                                     THEN CHOOSE w \in Workers : Holds(w, t)
                                     ELSE NULL]

\* The handlers and callbacks serve slow calls as module CallService says:
\* what the core of module Acoro relies on.
ServesCalls == Calls!Spec

\* A call with a timeout returns even if its peer never does anything, and a
\* sleep ends.
TimedCallsReturn ==
    \A t \in Tasks :
        st[t] = "loop" /\ (timed[t] \/ kind[t] = "msleep") ~> st[t] = "done"

=============================================================================

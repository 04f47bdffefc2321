--------------------------- MODULE SlowCallsProof ---------------------------
(***************************************************************************)
(* Proofs about module SlowCalls, for every number of tasks, workers and   *)
(* calls, and for every byte count.                                        *)
(*                                                                         *)
(* The invariant is a conjunction over the tasks: what the event loops     *)
(* hold of a task, by where its call is. A handler or callback changes one *)
(* task in one loop, so that a step is a change of that task and a frame   *)
(* for the others; only an iteration of a loop (Poll) touches several.     *)
(***************************************************************************)
EXTENDS SlowCalls, TLAPS

\* The watcher is active in the loop, or its event is still to be delivered.
Attached(w, t, which) ==
    \/ <<t, which>> \in active[w]
    \/ \E e \in {"ready", "error"} : << <<t, which>>, e>> \in pending[w]

Uses(w, t) == xfer[w] = t \/ Attached(w, t, "io") \/ Attached(w, t, "timer")

\* Only a call in progress uses a loop, and only one.
InOneLoop(t) ==
    /\ \A w \in Workers : Uses(w, t) => st[t] = "loop"
    /\ \A v, w \in Workers : Uses(v, t) /\ Uses(w, t) => v = w

\* A loop has no other watchers of a task than those the callbacks of its
\* kind of call stop.
RightWatchers(t) ==
    /\ timed[t] => kind[t] \in SockKinds \cup {"tcp_timeout_connect"}
    /\ \A w \in Workers :
         /\ Attached(w, t, "io") => kind[t] # "msleep"
         /\ Attached(w, t, "timer") => timed[t] \/ kind[t] = "msleep"
         /\ xfer[w] = t => kind[t] \in SockKinds

\* A descriptor that is ready is still watched, also during the transfer; one
\* that is invalid is not. Timers do not fail.
RightEvents(t) ==
    \A w \in Workers :
        /\ << <<t, "io">>, "ready">> \in pending[w] \/ xfer[w] = t =>
             <<t, "io">> \in active[w]
        /\ << <<t, "timer">>, "error">> \notin pending[w]

Remembered(t) == st[t] = "loop" => \E w \in Workers : Watched(w, t)

Noted(t) == notes[t] = IF st[t] = "done" THEN 1 ELSE 0

\* The socket of a connect, by where the call is.
Connects == {"tcp_blocked_connect", "tcp_timeout_connect"}

SocketKept(t) ==
    kind[t] \in Connects =>
        /\ st[t] = "doing" => ~sock[t] /\ cut[t] = "no"
        /\ st[t] = "loop" => sock[t] /\ cut[t] = "no"
        /\ st[t] = "done" => (sock[t] <=> val[t] # -1 \/ cut[t] = "timeout")

TaskOK(t) ==
    /\ InOneLoop(t) /\ RightWatchers(t) /\ RightEvents(t)
    /\ Remembered(t) /\ Noted(t) /\ SocketKept(t)

IInv == TypeOK /\ \A t \in Tasks : TaskOK(t)

-----------------------------------------------------------------------------
(* The bytes of a read or a write. *)

\* What the caller is told, if it is told value v.
Told(t, v) ==
    \/ /\ err[t] = "ok"
       /\ v = moved[t]
       /\ moved[t] < count[t] => cut[t] \in {"eof", "timeout"}
    \/ v = -1 /\ err[t] = "EWOULDBLOCK" /\ moved[t] = 0 /\ cut[t] = "timeout"
    \/ v = -1 /\ err[t] \in {"ENODEV", "other"}

BytesOK(t) ==
    kind[t] \in SockKinds =>
        /\ calls[t] > 0
        /\ count[t] \in Counts
        /\ st[t] = "doing" => moved[t] = 0 /\ cut[t] = "no"
        /\ st[t] = "loop" => /\ have[t] = moved[t] /\ have[t] + need[t] = count[t]
                             /\ cut[t] = "no"
                             /\ \A w \in Workers : xfer[w] = t => need[t] > 0
        /\ st[t] = "done" => moved[t] <= count[t] /\ Told(t, val[t])
        /\ st[t] = "coro" => Told(t, retval[t])

BytesInv == \A t \in Tasks : BytesOK(t)

-----------------------------------------------------------------------------
(* Conversions. *)

\* An int made from a wider integer is an int, and is the integer if it fits.
LEMMA ToIntFacts ==
    \A n \in Int : /\ ToInt(n) \in Int
                   /\ n \in -IntHalf .. IntHalf - 1 => ToInt(n) = n
BY SlowCallsAssumption DEF ToInt

-----------------------------------------------------------------------------
(* Frames: what a step that leaves a task alone preserves of it. *)

\* The step does not change the task, nor what any loop holds of it.
SameTask(t) ==
    /\ st'[t] = st[t] /\ kind'[t] = kind[t] /\ timed'[t] = timed[t]
    /\ notes'[t] = notes[t] /\ sock'[t] = sock[t] /\ cut'[t] = cut[t]
    /\ val'[t] = val[t]

SameLoop(w, t) ==
    /\ xfer'[w] = t <=> xfer[w] = t
    /\ \A which \in {"io", "timer"} :
         /\ <<t, which>> \in active'[w] <=> <<t, which>> \in active[w]
         /\ \A e \in {"ready", "error"} :
              << <<t, which>>, e>> \in pending'[w] <=>
              << <<t, which>>, e>> \in pending[w]

\* What a loop has of a task stays the same.
LEMMA SameUses ==
    ASSUME NEW w \in Workers, NEW t \in Tasks, SameLoop(w, t)
    PROVE  /\ Uses(w, t)' <=> Uses(w, t)
           /\ Attached(w, t, "io")' <=> Attached(w, t, "io")
           /\ Attached(w, t, "timer")' <=> Attached(w, t, "timer")
BY DEF SameLoop, Uses, Attached

\* A task that is left alone keeps its part of the invariant.
LEMMA Frame ==
    ASSUME NEW t \in Tasks, TaskOK(t), SameTask(t),
           \A w \in Workers : SameLoop(w, t)
    PROVE  TaskOK(t)'
<1>1. InOneLoop(t)' /\ RightWatchers(t)'
  <2>1. \A w \in Workers : xfer'[w] = t <=> xfer[w] = t
    BY DEF SameLoop
  <2> QED
    BY SameUses, <2>1 DEF TaskOK, SameTask, InOneLoop, RightWatchers
<1>2. RightEvents(t)'
  BY DEF TaskOK, SameLoop, RightEvents
<1>3. Remembered(t)'
  BY DEF TaskOK, SameTask, SameLoop, Remembered, Watched
<1>4. Noted(t)' /\ SocketKept(t)'
  BY DEF TaskOK, SameTask, Noted, SocketKept
<1> QED
  BY <1>1, <1>2, <1>3, <1>4 DEF TaskOK

\* A call that is not in progress has nothing in any loop.
LEMMA NotInLoop ==
    ASSUME NEW t \in Tasks, TaskOK(t), st[t] # "loop"
    PROVE  \A w \in Workers : ~Uses(w, t)
BY DEF TaskOK, InOneLoop

-----------------------------------------------------------------------------
(* Types. *)

\* The state the coroutines start from is well typed.
LEMMA InitTypes == Init => TypeOK
BY SlowCallsAssumption DEF Init, TypeOK, AllKinds, Errors

\* What Notify() stores is well typed.
LEMMA NotifyTypes ==
    ASSUME TypeOK, NEW t \in Tasks, NEW v \in Int, NEW e \in Errors,
           Notify(t, v, e)
    PROVE  /\ val' \in [Tasks -> Int]
           /\ err' \in [Tasks -> Errors]
           /\ st' \in [Tasks -> {"coro", "doing", "loop", "done"}]
           /\ notes' \in [Tasks -> Int]
BY DEF TypeOK, Notify

\* A handler, which serves its call or starts it in its loop.
LEMMA HandleTypes ==
    ASSUME TypeOK, NEW w \in Workers, NEW t \in Tasks, Handle(w, t)
    PROVE  TypeOK'
<1> USE DEF argVars, ioVars, loopVars
<1>e. /\ {"ok", "EWOULDBLOCK", "ENODEV", "other"} = Errors
      /\ -1 \in Int /\ 0 \in Int /\ AnyFd \in Int
  BY DEF Errors, AnyFd
<1>1. CASE DoDisk(w, t)
  <2>1. PICK r \in DiskResult(t) :
          /\ Notify(t, r[1], r[2])
          /\ moved' = [moved EXCEPT ![t] = IF r[1] > 0 THEN r[1] ELSE 0]
    BY <1>1 DEF DoDisk
  <2>2. r[1] \in Int /\ r[2] \in Errors /\ (r[1] > 0 => r[1] \in Nat)
    BY <1>e DEF DiskResult, TypeOK
  <2> QED
    BY <1>1, <2>1, <2>2, NotifyTypes DEF DoDisk, TypeOK
<1>2. CASE DoBgRun(w, t)
  BY <1>2, <1>e, NotifyTypes DEF DoBgRun, TypeOK
<1>3. CASE DoBlockedConnect(w, t)
  <2>1. PICK v \in Int, e \in Errors : Notify(t, v, e)
    BY <1>3, <1>e DEF DoBlockedConnect
  <2>2. sock' \in [Tasks -> BOOLEAN] /\ UNCHANGED <<argVars, ioVars, retval, loopVars, xfer>>
    BY <1>3 DEF DoBlockedConnect, TypeOK
  <2> QED
    BY <2>1, <2>2, NotifyTypes DEF TypeOK
<1>4. CASE DoSock(w, t)
  BY <1>4 DEF DoSock, TypeOK, StartWatchers, Timer, InLoop, Watchers
<1>5. CASE DoTimeoutConnect(w, t)
  <2>1. \/ \E v \in Int, e \in Errors : Notify(t, v, e) /\ UNCHANGED active
        \/ StartWatchers(w, {<<t, "io">>} \cup Timer(t)) /\ InLoop(t)
    BY <1>5, <1>e DEF DoTimeoutConnect
  <2>2. sock' \in [Tasks -> BOOLEAN] /\ UNCHANGED <<argVars, ioVars, retval, pending, xfer>>
    BY <1>5 DEF DoTimeoutConnect, TypeOK
  <2>3. CASE \E v \in Int, e \in Errors : Notify(t, v, e) /\ UNCHANGED active
    BY <2>2, <2>3, NotifyTypes DEF TypeOK
  <2>4. CASE StartWatchers(w, {<<t, "io">>} \cup Timer(t)) /\ InLoop(t)
    BY <2>2, <2>4 DEF TypeOK, StartWatchers, Timer, InLoop, Watchers
  <2> QED
    BY <2>1, <2>3, <2>4
<1>6. CASE DoMsleep(w, t)
  BY <1>6 DEF DoMsleep, TypeOK, StartWatchers, InLoop, Watchers
<1>7. CASE DoAccept(w, t)
  BY <1>7 DEF DoAccept, TypeOK, StartWatchers, InLoop, Watchers
<1> QED
  BY <1>1, <1>2, <1>3, <1>4, <1>5, <1>6, <1>7 DEF Handle

\* Stopping watchers keeps the loops well typed.
LEMMA StopTypes ==
    ASSUME TypeOK, NEW w \in Workers, NEW ws, Stop(w, ws)
    PROVE  active' \in [Workers -> SUBSET Watchers] /\
           pending' \in [Workers -> SUBSET Events]
BY DEF TypeOK, Stop

\* What SockStop() stores is well typed.
LEMMA SockStopTypes ==
    ASSUME TypeOK, NEW w \in Workers, NEW t \in Tasks, NEW v \in Int,
           NEW e \in Errors, SockStop(w, t, v, e)
    PROVE  /\ active' \in [Workers -> SUBSET Watchers]
           /\ pending' \in [Workers -> SUBSET Events]
           /\ val' \in [Tasks -> Int]
           /\ err' \in [Tasks -> Errors]
           /\ st' \in [Tasks -> {"coro", "doing", "loop", "done"}]
           /\ notes' \in [Tasks -> Int]
<1>1. Stop(w, {<<t, "io">>} \cup Timer(t)) /\ Notify(t, ToInt(v), e)
  BY DEF SockStop
<1>2. ToInt(v) \in Int
  BY ToIntFacts
<1> QED
  BY <1>1, <1>2, StopTypes DEF TypeOK, Notify

\* A callback.
LEMMA CallbackTypes ==
    ASSUME TypeOK, NEW w \in Workers, NEW t \in Tasks, Callback(w, t)
    PROVE  TypeOK'
<1> USE DEF argVars, ioVars, loopVars
<1>e. {"ok", "EWOULDBLOCK", "ENODEV", "other"} = Errors /\ -1 \in Int
      /\ have[t] \in Int /\ AnyFd \in Int
  BY DEF Errors, TypeOK, AnyFd
<1>1. CASE SockTimeout(w, t)
  BY <1>1, <1>e, SockStopTypes DEF SockTimeout, TypeOK
<1>2. CASE SockEvent(w, t)
  <2>1. CASE \/ SockStop(w, t, -1, "ENODEV") /\ UNCHANGED xfer
             \/ SockStop(w, t, have[t], "ok") /\ UNCHANGED xfer
    BY <1>2, <1>e, <2>1, SockStopTypes DEF SockEvent, TypeOK
  <2>2. CASE /\ xfer' = [xfer EXCEPT ![w] = t]
             /\ pending' = [pending EXCEPT ![w] = @ \ {<< <<t, "io">>, "ready">>}]
             /\ UNCHANGED <<active, val, err, st, notes>>
    BY <1>2, <2>2 DEF SockEvent, TypeOK
  <2> QED
    BY <1>2, <2>1, <2>2 DEF SockEvent
<1>3. ASSUME NEW n \in 1 .. need[t], Transfer(w, t, n)
      PROVE  TypeOK'
  <2>1. have[t] + n \in Nat /\ need[t] - n \in Nat /\ moved[t] + n \in Nat
    BY DEF TypeOK
  <2>2. have' \in [Tasks -> Nat] /\ need' \in [Tasks -> Nat] /\ moved' \in [Tasks -> Nat]
    BY <1>3, <2>1 DEF Transfer, TypeOK
  <2>3. CASE n = need[t]
    <3>1. SockStop(w, t, have[t] + n, "ok") /\ xfer' = [xfer EXCEPT ![w] = NULL]
      BY <1>3, <2>3 DEF Transfer
    <3>2. have[t] + n \in Int /\ "ok" \in Errors
      BY <1>e, <2>1
    <3>3. /\ active' \in [Workers -> SUBSET Watchers]
          /\ pending' \in [Workers -> SUBSET Events]
          /\ val' \in [Tasks -> Int]
          /\ err' \in [Tasks -> Errors]
          /\ st' \in [Tasks -> {"coro", "doing", "loop", "done"}]
          /\ notes' \in [Tasks -> Int]
      BY <3>1, <3>2, SockStopTypes
    <3>4. UNCHANGED <<argVars, cut, retval, sock>>
      BY <1>3 DEF Transfer
    <3> QED
      BY <2>2, <3>1, <3>3, <3>4 DEF TypeOK
  <2>4. CASE n # need[t]
    BY <1>3, <2>2, <2>4 DEF Transfer, TypeOK
  <2> QED
    BY <2>3, <2>4
<1>4. CASE TransferEof(w, t)
  BY <1>4, <1>e, SockStopTypes DEF TransferEof, TypeOK
<1>5. CASE TransferFails(w, t)
  BY <1>5, <1>e, SockStopTypes DEF TransferFails, TypeOK
<1>6. CASE ConnectTimeout(w, t)
  BY <1>6, <1>e, SockStopTypes DEF ConnectTimeout, TypeOK
<1>7. CASE ConnectEvent(w, t)
  <2>1. PICK v \in Int, e \in Errors : SockStop(w, t, v, e)
    BY <1>7, <1>e DEF ConnectEvent
  <2> QED
    BY <1>7, <2>1, SockStopTypes DEF ConnectEvent, TypeOK
<1>8. CASE SleepOver(w, t)
  BY <1>8, <1>e, StopTypes DEF SleepOver, Notify, TypeOK
<1>9. CASE AcceptEvent(w, t)
  <2>1. PICK v \in Int, e \in Errors : Notify(t, v, e)
    BY <1>9, <1>e DEF AcceptEvent
  <2>2. sock' \in [Tasks -> BOOLEAN]
    BY <1>9 DEF AcceptEvent, TypeOK
  <2>3. /\ active' \in [Workers -> SUBSET Watchers]
        /\ pending' \in [Workers -> SUBSET Events]
    BY <1>9, StopTypes DEF AcceptEvent
  <2>4. UNCHANGED <<argVars, ioVars, retval, xfer>>
    BY <1>9 DEF AcceptEvent
  <2> QED
    BY <2>1, <2>2, <2>3, <2>4, NotifyTypes DEF TypeOK
<1> QED
  BY <1>1, <1>2, <1>3, <1>4, <1>5, <1>6, <1>7, <1>8, <1>9 DEF Callback, Moves

\* Every step keeps the types.
LEMMA NextTypes == TypeOK /\ [Next]_vars => TypeOK'
<1> SUFFICES ASSUME TypeOK, [Next]_vars PROVE TypeOK'
  OBVIOUS
<1>1. ASSUME NEW t \in Tasks, Coroutine(t)
      PROVE  TypeOK'
  <2>1. ASSUME NEW k \in Kinds, NEW n \in Counts, NEW timeout \in BOOLEAN,
               Call(t, k, n, timeout)
        PROVE  TypeOK'
    BY <2>1, SlowCallsAssumption DEF Call, TypeOK, loopVars
  <2>2. CASE Return(t)
    BY <2>2, ToIntFacts DEF Return, TypeOK, argVars, ioVars, loopVars
  <2> QED
    BY <1>1, <2>1, <2>2 DEF Coroutine
<1>2. ASSUME NEW w \in Workers, PollSome(w)
      PROVE  TypeOK'
  <2>0. PICK ready \in SUBSET active[w] :
          \E dead \in SUBSET (active[w] \ ready) : Poll(w, ready, dead)
    BY <1>2 DEF PollSome
  <2>1. PICK dead \in SUBSET (active[w] \ ready) : Poll(w, ready, dead)
    BY <2>0
  <2>2. active[w] \subseteq Watchers
    BY DEF TypeOK
  <2>3. (ready \X {"ready"}) \cup (dead \X {"error"}) \in SUBSET Events
    BY <2>2 DEF Events
  <2>4. pending' \in [Workers -> SUBSET Events] /\ active' \in [Workers -> SUBSET Watchers]
    BY <2>1, <2>2, <2>3 DEF Poll, TypeOK
  <2> QED
    BY <2>1, <2>4 DEF Poll, TypeOK, argVars, ioVars
<1>3. CASE UNCHANGED vars
  BY <1>3 DEF vars, TypeOK, argVars, ioVars, loopVars
<1> QED
  BY <1>1, <1>2, <1>3, HandleTypes, CallbackTypes DEF Next

-----------------------------------------------------------------------------
(* What the handlers and callbacks have in common. *)

\* The step changes nothing of the tasks other than t.
OthersAlone(t) ==
    \A u \in Tasks \ {t} : SameTask(u) /\ \A w \in Workers : SameLoop(w, u)

\* A step that concerns one task.
LEMMA OneTask ==
    ASSUME IInv, TypeOK', NEW t \in Tasks, OthersAlone(t), TaskOK(t)'
    PROVE  IInv'
BY Frame DEF IInv, OthersAlone

\* The call is answered by its handler: it never had anything in a loop.
LEMMA AnsweredAtOnce ==
    ASSUME IInv, TypeOK', NEW t \in Tasks, NEW v, NEW e,
           st[t] = "doing", Notify(t, v, e),
           UNCHANGED <<argVars, loopVars, xfer>>,
           \A u \in Tasks \ {t} : sock'[u] = sock[u] /\ cut'[u] = cut[u],
           kind[t] \in Connects => (sock'[t] <=> v # -1 \/ cut'[t] = "timeout")
    PROVE  IInv' /\ OthersAlone(t)
<1> USE DEF argVars, loopVars
<1>1. OthersAlone(t)
  BY DEF OthersAlone, SameTask, SameLoop, Notify, IInv, TypeOK
<1>2. \A w \in Workers : SameLoop(w, t)
  BY DEF SameLoop
<1>3. \A w \in Workers : ~Uses(w, t)'
  BY <1>2, NotInLoop, SameUses DEF IInv
<1>4. st'[t] = "done" /\ val'[t] = v /\ notes'[t] = 1
  BY DEF Notify, IInv, TypeOK, TaskOK, Noted
<1>5. InOneLoop(t)' /\ RightEvents(t)'
  BY <1>3 DEF InOneLoop, RightEvents, Uses, Attached
<1>6. RightWatchers(t)'
  BY <1>3 DEF IInv, TaskOK, RightWatchers, Uses
<1>7. Remembered(t)' /\ Noted(t)' /\ SocketKept(t)'
  BY <1>4 DEF Remembered, Noted, SocketKept
<1> QED
  BY <1>1, <1>5, <1>6, <1>7, OneTask DEF TaskOK

\* The call is started in the loop of w, with the watchers its kind needs.
LEMMA StartedInLoop ==
    ASSUME IInv, TypeOK', NEW w \in Workers, NEW t \in Tasks,
           NEW ws \in SUBSET {<<t, "io">>, <<t, "timer">>},
           st[t] = "doing", StartWatchers(w, ws), InLoop(t),
           UNCHANGED <<argVars, pending, xfer, cut>>,
           <<t, "io">> \in ws <=> kind[t] # "msleep",
           <<t, "timer">> \in ws <=> timed[t] \/ kind[t] = "msleep",
           \A u \in Tasks \ {t} : sock'[u] = sock[u],
           kind[t] \in Connects => sock'[t]
    PROVE  IInv' /\ OthersAlone(t)
<1> USE DEF argVars, loopVars
<1>1. /\ st' = [st EXCEPT ![t] = "loop"] /\ UNCHANGED <<val, err, notes>>
      /\ active' = [active EXCEPT ![w] = @ \cup ws]
  BY DEF InLoop, StartWatchers
<1>2. OthersAlone(t)
  BY <1>1 DEF OthersAlone, SameTask, SameLoop, IInv, TypeOK
<1>3. \A v \in Workers : ~Uses(v, t)
  BY NotInLoop DEF IInv
<1>4. /\ \A v \in Workers :
           /\ <<t, "io">> \in active'[v] <=> v = w /\ kind[t] # "msleep"
           /\ <<t, "timer">> \in active'[v] <=>
                v = w /\ (timed[t] \/ kind[t] = "msleep")
           /\ xfer'[v] # t
           /\ \A which \in {"io", "timer"}, e \in {"ready", "error"} :
                << <<t, which>>, e>> \notin pending'[v]
      /\ st'[t] = "loop"
  <2>0. active \in [Workers -> SUBSET Watchers]
    BY DEF IInv, TypeOK
  <2>1. active'[w] = active[w] \cup ws /\ \A v \in Workers : v # w => active'[v] = active[v]
    BY <1>1, <2>0
  <2>2. \A v \in Workers :
          /\ xfer[v] # t /\ <<t, "io">> \notin active[v] /\ <<t, "timer">> \notin active[v]
          /\ \A which \in {"io", "timer"}, e \in {"ready", "error"} :
               << <<t, which>>, e>> \notin pending[v]
    BY <1>3 DEF Uses, Attached
  <2>3. st'[t] = "loop"
    BY <1>1 DEF IInv, TypeOK
  <2> QED
    BY <2>1, <2>2, <2>3
<1>5. InOneLoop(t)' /\ RightEvents(t)'
  BY <1>4 DEF InOneLoop, RightEvents, Uses, Attached
<1>6. RightWatchers(t)'
  BY <1>4 DEF IInv, TaskOK, RightWatchers, Uses, Attached
<1>7. Remembered(t)'
  <2>1. Watched(w, t)'
    BY <1>4 DEF Watched
  <2> QED
    BY <2>1 DEF Remembered
<1>8. Noted(t)' /\ SocketKept(t)'
  BY <1>4, <1>1 DEF IInv, TaskOK, Noted, SocketKept
<1> QED
  BY <1>2, <1>5, <1>6, <1>7, <1>8, OneTask DEF TaskOK

\* A callback stops the task's watchers and tells the manager.
LEMMA AnsweredInLoop ==
    ASSUME IInv, TypeOK', NEW w \in Workers, NEW t \in Tasks, NEW v, NEW e,
           NEW ws \in SUBSET {<<t, "io">>, <<t, "timer">>},
           Uses(w, t), xfer[w] \in {NULL, t}, Stop(w, ws), Notify(t, v, e),
           UNCHANGED argVars,
           xfer' = [xfer EXCEPT ![w] = NULL],
           kind[t] # "msleep" => <<t, "io">> \in ws,
           timed[t] \/ kind[t] = "msleep" => <<t, "timer">> \in ws,
           \A u \in Tasks \ {t} : sock'[u] = sock[u] /\ cut'[u] = cut[u],
           kind[t] \in Connects => (sock'[t] <=> v # -1 \/ cut'[t] = "timeout")
    PROVE  IInv' /\ OthersAlone(t)
<1> USE SlowCallsAssumption DEF argVars, loopVars
<1>1. /\ val' = [val EXCEPT ![t] = v] /\ st' = [st EXCEPT ![t] = "done"]
      /\ notes' = [notes EXCEPT ![t] = @ + 1]
      /\ active' = [active EXCEPT ![w] = @ \ ws]
      /\ pending' = [pending EXCEPT ![w] = {x \in @ : x[1] \notin ws}]
  BY DEF Notify, Stop
<1>2. ASSUME NEW u \in Tasks \ {t}
      PROVE  SameTask(u) /\ \A x \in Workers : SameLoop(x, u)
  <2>1. SameTask(u)
    BY <1>1 DEF SameTask, IInv, TypeOK
  <2>2. \A which \in {"io", "timer"} : <<u, which>> \notin ws
    OBVIOUS
  <2>3. \A x \in Workers : xfer'[x] = u <=> xfer[x] = u
    BY DEF IInv, TypeOK
  <2> QED
    BY <1>1, <2>1, <2>2, <2>3 DEF SameLoop, IInv, TypeOK
<1>3. st[t] = "loop" /\ \A x \in Workers : x # w => ~Uses(x, t)
  BY DEF IInv, TaskOK, InOneLoop
<1>4. /\ <<t, "io">> \in active[w] => <<t, "io">> \in ws
      /\ <<t, "timer">> \in active[w] => <<t, "timer">> \in ws
      /\ \A x \in {"ready", "error"} :
           /\ << <<t, "io">>, x>> \in pending[w] => <<t, "io">> \in ws
           /\ << <<t, "timer">>, x>> \in pending[w] => <<t, "timer">> \in ws
  BY DEF IInv, TaskOK, RightWatchers, Attached
<1>5. ~Uses(w, t)'
  <2>1. /\ active'[w] = active[w] \ ws
        /\ pending'[w] = {x \in pending[w] : x[1] \notin ws}
        /\ xfer'[w] = NULL
    BY <1>1 DEF IInv, TypeOK
  <2>2. <<t, "io">> \notin active'[w] /\ <<t, "timer">> \notin active'[w]
    BY <1>4, <2>1
  <2>3. \A x \in {"ready", "error"} :
          << <<t, "io">>, x>> \notin pending'[w] /\ << <<t, "timer">>, x>> \notin pending'[w]
    BY <1>4, <2>1
  <2> QED
    BY <2>1, <2>2, <2>3 DEF Uses, Attached
<1>6. ASSUME NEW x \in Workers, x # w
      PROVE  ~Uses(x, t)'
  <2>1. active'[x] = active[x] /\ pending'[x] = pending[x] /\ xfer'[x] = xfer[x]
    BY <1>1, <1>6 DEF IInv, TypeOK
  <2> QED
    BY <1>3, <1>6, <2>1 DEF Uses, Attached
<1>7. \A x \in Workers : ~Uses(x, t)'
  BY <1>5, <1>6
<1>8. st'[t] = "done" /\ val'[t] = v /\ notes'[t] = 1
  BY <1>1, <1>3 DEF IInv, TypeOK, TaskOK, Noted
<1>9. InOneLoop(t)' /\ RightEvents(t)'
  BY <1>7 DEF InOneLoop, RightEvents, Uses, Attached
<1>10. RightWatchers(t)'
  BY <1>7 DEF IInv, TaskOK, RightWatchers, Uses
<1>11. Remembered(t)' /\ Noted(t)' /\ SocketKept(t)'
  BY <1>8 DEF Remembered, Noted, SocketKept
<1> QED
  BY <1>2, <1>9, <1>10, <1>11, OneTask DEF TaskOK, OthersAlone

-----------------------------------------------------------------------------
(* The inductive invariant, action by action. *)

\* No call has been made yet.
LEMMA InitInv == Init => IInv
<1> SUFFICES ASSUME Init PROVE IInv
  OBVIOUS
<1>1. TypeOK
  BY InitTypes
<1>2. ASSUME NEW t \in Tasks
      PROVE  TaskOK(t)
  <2>1. \A w \in Workers : ~Uses(w, t)
    BY SlowCallsAssumption DEF Init, Uses, Attached
  <2>2. InOneLoop(t) /\ RightWatchers(t) /\ RightEvents(t)
    BY <2>1 DEF Init, InOneLoop, RightWatchers, RightEvents, Uses, Attached
  <2>3. Remembered(t) /\ Noted(t) /\ SocketKept(t)
    BY DEF Init, Remembered, Noted, SocketKept
  <2> QED
    BY <2>2, <2>3 DEF TaskOK
<1> QED
  BY <1>1, <1>2 DEF IInv

\* coroutine_set_*(): a new call, with nothing left in a loop.
LEMMA CallInv ==
    ASSUME IInv, TypeOK', NEW t \in Tasks, NEW k \in Kinds, NEW n \in Counts,
           NEW timeout \in BOOLEAN, Call(t, k, n, timeout)
    PROVE  IInv' /\ OthersAlone(t)
<1> USE DEF loopVars
<1>1. OthersAlone(t)
  BY DEF OthersAlone, SameTask, SameLoop, Call, IInv, TypeOK
<1>2. \A w \in Workers : SameLoop(w, t)
  BY DEF SameLoop, Call
<1>3. \A w \in Workers : ~Uses(w, t)'
  BY <1>2, NotInLoop, SameUses DEF IInv, Call
<1>4. /\ st'[t] = "doing" /\ notes'[t] = 0 /\ sock'[t] = FALSE /\ cut'[t] = "no"
      /\ timed'[t] = timeout /\ kind'[t] = k
  BY DEF Call, IInv, TypeOK, TaskOK, Noted
<1>5. InOneLoop(t)' /\ RightEvents(t)'
  BY <1>3 DEF InOneLoop, RightEvents, Uses, Attached
<1>6. RightWatchers(t)'
  BY <1>3, <1>4 DEF Call, RightWatchers, Uses
<1>7. Remembered(t)' /\ Noted(t)' /\ SocketKept(t)'
  BY <1>4 DEF Remembered, Noted, SocketKept
<1> QED
  BY <1>1, <1>5, <1>6, <1>7, OneTask DEF TaskOK

\* coroutine_get_retval(): the notification has been used.
LEMMA ReturnInv ==
    ASSUME IInv, TypeOK', NEW t \in Tasks, Return(t)
    PROVE  IInv' /\ OthersAlone(t)
<1> USE DEF loopVars, argVars, ioVars
<1>1. OthersAlone(t)
  BY DEF OthersAlone, SameTask, SameLoop, Return, IInv, TypeOK
<1>2. \A w \in Workers : SameLoop(w, t)
  BY DEF SameLoop, Return
<1>3. \A w \in Workers : ~Uses(w, t)'
  BY <1>2, NotInLoop, SameUses DEF IInv, Return
<1>4. st'[t] = "coro" /\ notes'[t] = 0
  BY DEF Return, IInv, TypeOK, TaskOK, Noted
<1>5. InOneLoop(t)' /\ RightEvents(t)'
  BY <1>3 DEF InOneLoop, RightEvents, Uses, Attached
<1>6. RightWatchers(t)'
  BY <1>3 DEF Return, RightWatchers, Uses, IInv, TaskOK
<1>7. Remembered(t)' /\ Noted(t)' /\ SocketKept(t)'
  BY <1>4 DEF Remembered, Noted, SocketKept
<1> QED
  BY <1>1, <1>5, <1>6, <1>7, OneTask DEF TaskOK

\* do_task()
LEMMA HandleInv ==
    ASSUME IInv, TypeOK', NEW w \in Workers, NEW t \in Tasks, Handle(w, t)
    PROVE  IInv' /\ OthersAlone(t)
<1> USE DEF argVars, ioVars, loopVars, Take
<1>1. CASE DoDisk(w, t)
  <2>1. PICK r \in DiskResult(t) : Notify(t, r[1], r[2])
    BY <1>1 DEF DoDisk
  <2>2. st[t] = "doing" /\ kind[t] \notin Connects
        /\ UNCHANGED <<argVars, loopVars, xfer, sock, cut>>
    BY <1>1 DEF DoDisk, DiskKinds, Connects
  <2> QED
    BY <2>1, <2>2, AnsweredAtOnce
<1>2. CASE DoBgRun(w, t)
  <2>1. PICK r \in {-1, 0} : Notify(t, r, "ok")
    BY <1>2 DEF DoBgRun
  <2>2. st[t] = "doing" /\ kind[t] \notin Connects
        /\ UNCHANGED <<argVars, loopVars, xfer, sock, cut>>
    BY <1>2 DEF DoBgRun, Connects
  <2> QED
    BY <2>1, <2>2, AnsweredAtOnce
<1>3. CASE DoBlockedConnect(w, t)
  <2>1. st[t] = "doing" /\ kind[t] \in Connects
        /\ UNCHANGED <<argVars, loopVars, xfer, cut>>
    BY <1>3 DEF DoBlockedConnect, Connects
  <2>2. ~sock[t] /\ cut[t] = "no"
    BY <2>1 DEF IInv, TaskOK, SocketKept
  <2>3. CASE Notify(t, -1, "other") /\ UNCHANGED sock
    BY <2>1, <2>2, <2>3, AnsweredAtOnce
  <2>4. CASE Notify(t, AnyFd, "ok") /\ sock' = [sock EXCEPT ![t] = TRUE]
    <3>1. sock'[t] /\ \A u \in Tasks \ {t} : sock'[u] = sock[u]
      BY <2>4 DEF IInv, TypeOK
    <3>2. AnyFd # -1
      BY DEF AnyFd
    <3> QED
      BY <2>1, <2>4, <3>1, <3>2, AnsweredAtOnce
  <2> QED
    BY <1>3, <2>3, <2>4 DEF DoBlockedConnect
<1>4. CASE DoSock(w, t)
  <2>1. /\ st[t] = "doing" /\ kind[t] \notin Connects /\ kind[t] # "msleep"
        /\ StartWatchers(w, {<<t, "io">>} \cup Timer(t)) /\ InLoop(t)
        /\ UNCHANGED <<argVars, pending, xfer, sock, cut>>
    BY <1>4 DEF DoSock, SockKinds, Connects
  <2>2. /\ {<<t, "io">>} \cup Timer(t) \in SUBSET {<<t, "io">>, <<t, "timer">>}
        /\ <<t, "timer">> \in {<<t, "io">>} \cup Timer(t) <=> timed[t]
    BY DEF Timer
  <2> QED
    BY <2>1, <2>2, StartedInLoop
<1>5. CASE DoTimeoutConnect(w, t)
  <2>1. /\ st[t] = "doing" /\ kind[t] \in Connects /\ kind[t] # "msleep"
        /\ UNCHANGED <<argVars, pending, xfer, cut>>
    BY <1>5 DEF DoTimeoutConnect, Connects
  <2>2. ~sock[t] /\ cut[t] = "no"
    BY <2>1 DEF IInv, TaskOK, SocketKept
  <2>3. CASE Notify(t, -1, "other") /\ UNCHANGED <<sock, active>>
    BY <2>1, <2>2, <2>3, AnsweredAtOnce
  <2>4. CASE sock' = [sock EXCEPT ![t] = TRUE]
    <3>1. sock'[t] /\ \A u \in Tasks \ {t} : sock'[u] = sock[u]
      BY <2>4 DEF IInv, TypeOK
    <3>2. CASE Notify(t, AnyFd, "ok") /\ UNCHANGED active
      <4>1. AnyFd # -1
        BY DEF AnyFd
      <4> QED
        BY <2>1, <3>1, <3>2, <4>1, AnsweredAtOnce
    <3>3. CASE StartWatchers(w, {<<t, "io">>} \cup Timer(t)) /\ InLoop(t)
      <4>1. /\ {<<t, "io">>} \cup Timer(t) \in SUBSET {<<t, "io">>, <<t, "timer">>}
            /\ <<t, "timer">> \in {<<t, "io">>} \cup Timer(t) <=> timed[t]
        BY DEF Timer
      <4> QED
        BY <2>1, <3>1, <3>3, <4>1, StartedInLoop
    <3> QED
      BY <1>5, <2>2, <3>1, <3>2, <3>3 DEF DoTimeoutConnect
  <2> QED
    BY <1>5, <2>3, <2>4 DEF DoTimeoutConnect
<1>6. CASE DoMsleep(w, t)
  <2>1. /\ st[t] = "doing" /\ kind[t] = "msleep" /\ kind[t] \notin Connects
        /\ StartWatchers(w, {<<t, "timer">>}) /\ InLoop(t)
        /\ UNCHANGED <<argVars, pending, xfer, sock, cut>>
    BY <1>6 DEF DoMsleep, Connects
  <2>2. /\ {<<t, "timer">>} \in SUBSET {<<t, "io">>, <<t, "timer">>}
        /\ <<t, "io">> \notin {<<t, "timer">>}
    OBVIOUS
  <2> QED
    BY <2>1, <2>2, StartedInLoop
<1>7. CASE DoAccept(w, t)
  <2>1. /\ st[t] = "doing" /\ kind[t] = "tcp_accept" /\ kind[t] \notin Connects
        /\ StartWatchers(w, {<<t, "io">>}) /\ InLoop(t)
        /\ UNCHANGED <<argVars, pending, xfer, sock, cut>>
    BY <1>7 DEF DoAccept, Connects
  <2>2. /\ {<<t, "io">>} \in SUBSET {<<t, "io">>, <<t, "timer">>}
        /\ <<t, "timer">> \notin {<<t, "io">>}
    OBVIOUS
  <2>3. ~timed[t]
    BY <2>1 DEF IInv, TaskOK, RightWatchers, SockKinds
  <2> QED
    BY <2>1, <2>2, <2>3, StartedInLoop
<1> QED
  BY <1>1, <1>2, <1>3, <1>4, <1>5, <1>6, <1>7 DEF Handle

\* ev_sock_stop() and ev_sock_connect_stop(), called for a task of this loop.
LEMMA SockStopInv ==
    ASSUME IInv, TypeOK', NEW w \in Workers, NEW t \in Tasks, NEW v, NEW e,
           Uses(w, t), xfer[w] \in {NULL, t}, SockStop(w, t, v, e),
           kind[t] # "msleep",
           UNCHANGED argVars,
           xfer' = [xfer EXCEPT ![w] = NULL],
           \A u \in Tasks \ {t} : sock'[u] = sock[u] /\ cut'[u] = cut[u],
           kind[t] \in Connects =>
             (sock'[t] <=> ToInt(v) # -1 \/ cut'[t] = "timeout")
    PROVE  IInv' /\ OthersAlone(t)
<1> DEFINE ws == {<<t, "io">>} \cup Timer(t)
<1>1. /\ ws \in SUBSET {<<t, "io">>, <<t, "timer">>}
      /\ <<t, "io">> \in ws
      /\ timed[t] => <<t, "timer">> \in ws
  BY DEF Timer
<1>2. Stop(w, ws) /\ Notify(t, ToInt(v), e)
  BY DEF SockStop
<1> HIDE DEF ws
<1> QED
  BY <1>1, <1>2, AnsweredInLoop

\* An event that is delivered is one of this loop's.
LEMMA InvokedUses ==
    ASSUME IInv, NEW w \in Workers, NEW t \in Tasks,
           NEW which \in {"io", "timer"}, NEW e \in {"ready", "error"},
           Invoked(w, t, which, e)
    PROVE  /\ Uses(w, t) /\ xfer[w] = NULL /\ xfer = [xfer EXCEPT ![w] = NULL]
           /\ st[t] = "loop"
<1>1. Uses(w, t) /\ xfer[w] = NULL
  BY DEF Invoked, Uses, Attached
<1>2. xfer = [xfer EXCEPT ![w] = NULL]
  BY <1>1 DEF IInv, TypeOK
<1> QED
  BY <1>1, <1>2 DEF IInv, TaskOK, InOneLoop

\* ev_sock_timeout()
LEMMA SockTimeoutInv ==
    ASSUME IInv, TypeOK', NEW w \in Workers, NEW t \in Tasks, SockTimeout(w, t)
    PROVE  IInv' /\ OthersAlone(t)
<1>1. PICK v, e : SockStop(w, t, v, e)
  BY DEF SockTimeout
<1>2. kind[t] \notin Connects /\ kind[t] # "msleep"
  BY DEF SockTimeout, SockKinds, Connects
<1>3. Uses(w, t) /\ xfer[w] = NULL /\ xfer = [xfer EXCEPT ![w] = NULL]
  BY InvokedUses DEF SockTimeout
<1>4. UNCHANGED <<argVars, xfer, sock>> /\ \A u \in Tasks \ {t} : cut'[u] = cut[u]
  BY DEF SockTimeout, IInv, TypeOK
<1> QED
  BY <1>1, <1>2, <1>3, <1>4, SockStopInv

\* A transfer ends the call.
LEMMA TransferEnds ==
    ASSUME IInv, TypeOK', NEW w \in Workers, NEW t \in Tasks, NEW v, NEW e,
           xfer[w] = t, SockStop(w, t, v, e), xfer' = [xfer EXCEPT ![w] = NULL],
           UNCHANGED <<argVars, sock>>,
           \A u \in Tasks \ {t} : cut'[u] = cut[u]
    PROVE  IInv' /\ OthersAlone(t)
<1>1. Uses(w, t)
  BY DEF Uses
<1>2. kind[t] \in SockKinds
  BY DEF IInv, TaskOK, RightWatchers
<1>3. kind[t] \notin Connects /\ kind[t] # "msleep"
  BY <1>2 DEF SockKinds, Connects
<1> QED
  BY <1>1, <1>3, SockStopInv

\* A transfer starts, goes on or is left for later: the watchers of the task
\* stay as they are.
LEMMA TransferGoesOn ==
    ASSUME IInv, TypeOK', NEW w \in Workers, NEW t \in Tasks,
           <<t, "io">> \in active[w],
           \/ xfer' = [xfer EXCEPT ![w] = NULL] /\ xfer[w] = t
           \/ /\ xfer' = [xfer EXCEPT ![w] = t]
              /\ kind[t] \in SockKinds
              /\ xfer[w] \in {NULL, t},
           pending' = [pending EXCEPT ![w] = @ \ {<< <<t, "io">>, "ready">>}]
             \/ UNCHANGED pending,
           UNCHANGED <<argVars, active, val, st, notes, sock, cut>>
    PROVE  IInv' /\ OthersAlone(t)
<1> USE SlowCallsAssumption DEF argVars
<1>1. /\ \A x \in Workers : x # w => xfer'[x] = xfer[x] /\ pending'[x] = pending[x]
      /\ xfer[w] \in {NULL, t} /\ xfer'[w] \in {NULL, t}
      /\ pending'[w] \in {pending[w], pending[w] \ {<< <<t, "io">>, "ready">>}}
  BY DEF IInv, TypeOK
<1>2. OthersAlone(t)
  <2>1. ASSUME NEW u \in Tasks \ {t}, NEW x \in Workers
        PROVE  SameLoop(x, u)
    <3>1. CASE x = w
      <4>1. xfer'[x] # u /\ xfer[x] # u
        BY <1>1, <3>1
      <4>2. \A which \in {"io", "timer"}, e \in {"ready", "error"} :
              << <<u, which>>, e>> \in pending'[x] <=> << <<u, which>>, e>> \in pending[x]
        BY <1>1, <3>1
      <4> QED
        BY <4>1, <4>2 DEF SameLoop
    <3>2. CASE x # w
      BY <1>1, <3>2 DEF SameLoop
    <3> QED
      BY <3>1, <3>2
  <2>2. \A u \in Tasks \ {t} : SameTask(u)
    BY DEF SameTask
  <2> QED
    BY <2>1, <2>2 DEF OthersAlone
<1>3. \A x \in Workers : Uses(x, t)' => Uses(x, t)
  <2>1. ASSUME NEW x \in Workers, Uses(x, t)'
        PROVE  Uses(x, t)
    <3>1. CASE x = w
      BY <3>1 DEF Uses, Attached
    <3>2. CASE x # w
      BY <1>1, <2>1, <3>2 DEF Uses, Attached
    <3> QED
      BY <3>1, <3>2
  <2> QED
    BY <2>1
<1>4. InOneLoop(t)'
  BY <1>3 DEF IInv, TaskOK, InOneLoop
<1>5. \A x \in Workers, which \in {"io", "timer"} :
        Attached(x, t, which)' => Attached(x, t, which)
  BY <1>1 DEF Attached
<1>6. RightWatchers(t)'
  BY <1>1, <1>5 DEF IInv, TaskOK, RightWatchers
<1>7. RightEvents(t)'
  BY <1>1 DEF IInv, TaskOK, RightEvents
<1>8. Remembered(t)'
  <2>1. \A x \in Workers : Watched(x, t) => Watched(x, t)'
    BY <1>1 DEF Watched
  <2> QED
    BY <2>1 DEF IInv, TaskOK, Remembered
<1>9. Noted(t)' /\ SocketKept(t)'
  BY DEF IInv, TaskOK, Noted, SocketKept
<1> QED
  BY <1>2, <1>4, <1>6, <1>7, <1>8, <1>9, OneTask DEF TaskOK

\* ev_sock_read(), ev_sock_write(), up to their transfer loop.
LEMMA SockEventInv ==
    ASSUME IInv, TypeOK', NEW w \in Workers, NEW t \in Tasks, SockEvent(w, t)
    PROVE  IInv' /\ OthersAlone(t)
<1>1. kind[t] \in SockKinds /\ kind[t] \notin Connects /\ kind[t] # "msleep"
      /\ UNCHANGED <<argVars, cut, sock>>
  BY DEF SockEvent, SockKinds, Connects, ioVars
<1>2. PICK e \in {"ready", "error"} : Invoked(w, t, "io", e)
  BY DEF SockEvent
<1>3. Uses(w, t) /\ xfer[w] = NULL /\ xfer = [xfer EXCEPT ![w] = NULL]
  BY <1>2, InvokedUses
<1>4. CASE \E v, x : SockStop(w, t, v, x) /\ UNCHANGED xfer
  BY <1>1, <1>3, <1>4, SockStopInv
<1>5. CASE /\ Invoked(w, t, "io", "ready")
           /\ xfer' = [xfer EXCEPT ![w] = t]
           /\ pending' = [pending EXCEPT ![w] = @ \ {<< <<t, "io">>, "ready">>}]
           /\ UNCHANGED <<active, val, err, st, notes>>
  <2>1. <<t, "io">> \in active[w]
    BY <1>5 DEF Invoked, IInv, TaskOK, RightEvents
  <2> QED
    BY <1>1, <1>3, <1>5, <2>1, TransferGoesOn
<1> QED
  BY <1>4, <1>5 DEF SockEvent

\* The transfer loop.
LEMMA MovesInv ==
    ASSUME IInv, TypeOK', NEW w \in Workers, NEW t \in Tasks, Moves(w, t)
    PROVE  IInv' /\ OthersAlone(t)
<1>0. /\ xfer[w] = t /\ UNCHANGED <<argVars, sock>>
      /\ \A u \in Tasks \ {t} : cut'[u] = cut[u]
  BY DEF Moves, Transfer, TransferEof, TransferFails, IInv, TypeOK, ioVars
<1>1. kind[t] \in SockKinds /\ <<t, "io">> \in active[w]
  BY <1>0 DEF IInv, TaskOK, RightWatchers, RightEvents
<1>2. xfer = [xfer EXCEPT ![w] = t]
  BY <1>0 DEF IInv, TypeOK
<1>3. ASSUME NEW n \in 1 .. need[t], Transfer(w, t, n)
      PROVE  IInv' /\ OthersAlone(t)
  <2>1. CASE n = need[t]
    <3>1. SockStop(w, t, have[t] + n, "ok") /\ xfer' = [xfer EXCEPT ![w] = NULL]
      BY <1>3, <2>1 DEF Transfer
    <3> QED
      BY <1>0, <3>1, TransferEnds
  <2>2. CASE n # need[t]
    <3>1. UNCHANGED <<xfer, active, pending, val, st, notes, cut>>
      BY <1>3, <2>2 DEF Transfer, loopVars
    <3> QED
      BY <1>0, <1>1, <1>2, <3>1, TransferGoesOn
  <2> QED
    BY <2>1, <2>2
<1>4. CASE TransferEof(w, t)
  <2>1. SockStop(w, t, have[t], "ok") /\ xfer' = [xfer EXCEPT ![w] = NULL]
    BY <1>4 DEF TransferEof
  <2> QED
    BY <1>0, <2>1, TransferEnds
<1>5. CASE TransferFails(w, t)
  <2>1. CASE SockStop(w, t, -1, "other")
    <3>1. xfer' = [xfer EXCEPT ![w] = NULL]
      BY <1>5 DEF TransferFails
    <3> QED
      BY <1>0, <2>1, <3>1, TransferEnds
  <2>2. CASE UNCHANGED <<loopVars, val, err, st, notes>>
    <3>1. xfer' = [xfer EXCEPT ![w] = NULL]
          /\ UNCHANGED <<active, pending, val, st, notes, cut>>
      BY <1>5, <2>2 DEF TransferFails, loopVars, ioVars
    <3> QED
      BY <1>0, <1>1, <3>1, TransferGoesOn
  <2> QED
    BY <1>5, <2>1, <2>2 DEF TransferFails
<1> QED
  BY <1>3, <1>4, <1>5 DEF Moves

\* ev_sock_connect_timeout(), ev_sock_connect()
LEMMA ConnectInv ==
    ASSUME IInv, TypeOK', NEW w \in Workers, NEW t \in Tasks,
           ConnectTimeout(w, t) \/ ConnectEvent(w, t)
    PROVE  IInv' /\ OthersAlone(t)
<1>1. kind[t] = "tcp_timeout_connect" /\ kind[t] \in Connects /\ kind[t] # "msleep"
      /\ UNCHANGED <<argVars, xfer>>
  BY DEF ConnectTimeout, ConnectEvent, Connects
<1>2. \E which \in {"io", "timer"}, e \in {"ready", "error"} : Invoked(w, t, which, e)
  BY DEF ConnectTimeout, ConnectEvent
<1>3. /\ Uses(w, t) /\ xfer[w] = NULL /\ xfer = [xfer EXCEPT ![w] = NULL]
      /\ st[t] = "loop"
  BY <1>2, InvokedUses
<1>4. sock[t] /\ cut[t] = "no"
  BY <1>1, <1>3 DEF IInv, TaskOK, SocketKept
<1>5. ToInt(-1) = -1 /\ ToInt(AnyFd) # -1
  BY ToIntFacts, SlowCallsAssumption DEF AnyFd
<1>6. CASE ConnectTimeout(w, t)
  <2>1. SockStop(w, t, -1, "EWOULDBLOCK") /\ UNCHANGED sock
    BY <1>6 DEF ConnectTimeout
  <2>2. cut'[t] = "timeout" /\ \A u \in Tasks \ {t} : cut'[u] = cut[u]
    BY <1>6 DEF ConnectTimeout, IInv, TypeOK
  <2> QED
    BY <1>1, <1>3, <1>4, <2>1, <2>2, SockStopInv
<1>7. CASE ConnectEvent(w, t)
  <2>0. UNCHANGED cut
    BY <1>7 DEF ConnectEvent, ioVars
  <2>1. CASE (\E e : SockStop(w, t, -1, e)) /\ sock' = [sock EXCEPT ![t] = FALSE]
    <3>1. ~sock'[t] /\ \A u \in Tasks \ {t} : sock'[u] = sock[u]
      BY <2>1 DEF IInv, TypeOK
    <3> QED
      BY <1>1, <1>3, <1>4, <1>5, <2>0, <2>1, <3>1, SockStopInv
  <2>2. CASE SockStop(w, t, AnyFd, "ok") /\ UNCHANGED sock
    BY <1>1, <1>3, <1>4, <1>5, <2>0, <2>2, SockStopInv
  <2> QED
    BY <1>7, <2>1, <2>2 DEF ConnectEvent
<1> QED
  BY <1>6, <1>7

\* timer_timeout(), ev_tcp_accept()
LEMMA OtherCallbacksInv ==
    ASSUME IInv, TypeOK', NEW w \in Workers, NEW t \in Tasks,
           SleepOver(w, t) \/ AcceptEvent(w, t)
    PROVE  IInv' /\ OthersAlone(t)
<1> USE DEF ioVars
<1>1. CASE SleepOver(w, t)
  <2>1. /\ Uses(w, t) /\ xfer[w] = NULL /\ xfer = [xfer EXCEPT ![w] = NULL]
    BY <1>1, InvokedUses DEF SleepOver
  <2>2. /\ kind[t] = "msleep" /\ kind[t] \notin Connects
        /\ Stop(w, {<<t, "timer">>}) /\ Notify(t, 0, "ok")
        /\ UNCHANGED <<argVars, xfer, sock, cut>>
    BY <1>1 DEF SleepOver, Connects
  <2>3. {<<t, "timer">>} \in SUBSET {<<t, "io">>, <<t, "timer">>}
    OBVIOUS
  <2> QED
    BY <2>1, <2>2, <2>3, AnsweredInLoop
<1>2. CASE AcceptEvent(w, t)
  <2>1. /\ Uses(w, t) /\ xfer[w] = NULL /\ xfer = [xfer EXCEPT ![w] = NULL]
    BY <1>2, InvokedUses DEF AcceptEvent
  <2>2. /\ kind[t] = "tcp_accept" /\ kind[t] \notin Connects
        /\ Stop(w, {<<t, "io">>}) /\ UNCHANGED <<argVars, xfer, cut>>
    BY <1>2 DEF AcceptEvent, Connects
  <2>3. PICK v, e : Notify(t, v, e)
    BY <1>2 DEF AcceptEvent
  <2>4. \A u \in Tasks \ {t} : sock'[u] = sock[u]
    BY <1>2 DEF AcceptEvent, IInv, TypeOK
  <2>5. {<<t, "io">>} \in SUBSET {<<t, "io">>, <<t, "timer">>}
    OBVIOUS
  <2>6. ~timed[t]
    BY <2>2 DEF IInv, TaskOK, RightWatchers, SockKinds
  <2> QED
    BY <2>1, <2>2, <2>3, <2>4, <2>5, <2>6, AnsweredInLoop
<1> QED
  BY <1>1, <1>2

\* One iteration of a loop: a watcher that was active is active or pending.
LEMMA PollInv ==
    ASSUME IInv, TypeOK', NEW w \in Workers, PollSome(w)
    PROVE  IInv'
<1> USE DEF argVars, ioVars, loopVars
<1>1. PICK ready \in SUBSET active[w] :
        \E dead \in SUBSET (active[w] \ ready) : Poll(w, ready, dead)
  BY DEF PollSome
<1>2. PICK dead \in SUBSET (active[w] \ ready) : Poll(w, ready, dead)
  BY <1>1
<1>3. /\ pending[w] = {} /\ xfer[w] = NULL
      /\ \A x \in dead : x[2] = "io"
      /\ UNCHANGED <<st, kind, timed, notes, sock, cut, val, xfer>>
      /\ active'[w] = {x \in active[w] \ dead : x \in ready => x[2] = "io"}
      /\ pending'[w] = (ready \X {"ready"}) \cup (dead \X {"error"})
      /\ \A v \in Workers : v # w => active'[v] = active[v] /\ pending'[v] = pending[v]
  BY <1>2 DEF Poll, IInv, TypeOK
<1>4. ASSUME NEW u \in Tasks
      PROVE  TaskOK(u)'
  <2>0. TaskOK(u)
    BY DEF IInv
  <2>1. /\ <<u, "io">> \in active'[w] <=> <<u, "io">> \in active[w] \ dead
        /\ <<u, "timer">> \in active'[w] <=> <<u, "timer">> \in active[w] \ ready
        /\ <<u, "timer">> \notin dead
    BY <1>3
  <2>2. \A which \in {"io", "timer"} :
          /\ << <<u, which>>, "ready">> \in pending'[w] <=> <<u, which>> \in ready
          /\ << <<u, which>>, "error">> \in pending'[w] <=> <<u, which>> \in dead
    BY <1>3
  <2>3. \A which \in {"io", "timer"} : Attached(w, u, which)' => Attached(w, u, which)
    BY <2>1, <2>2 DEF Attached
  <2>4. ASSUME NEW v \in Workers, v # w
        PROVE  SameLoop(v, u)
    BY <1>3, <2>4 DEF SameLoop
  <2>5. \A v \in Workers : Uses(v, u)' => Uses(v, u)
    <3>1. Uses(w, u)' => Uses(w, u)
      BY <1>3, <2>3 DEF Uses
    <3> QED
      BY <2>4, <3>1, SameUses
  <2>6. InOneLoop(u)'
    BY <1>3, <2>0, <2>5 DEF TaskOK, InOneLoop
  <2>7. RightWatchers(u)'
    BY <1>3, <2>0, <2>3, <2>4, SameUses DEF TaskOK, RightWatchers, SameLoop
  <2>8. RightEvents(u)'
    <3>1. ASSUME NEW v \in Workers
          PROVE  /\ << <<u, "io">>, "ready">> \in pending'[v] \/ xfer'[v] = u =>
                      <<u, "io">> \in active'[v]
                 /\ << <<u, "timer">>, "error">> \notin pending'[v]
      <4>1. CASE v = w
        <5>1. xfer'[w] # u
          BY <1>3, SlowCallsAssumption
        <5> QED
          BY <2>1, <2>2, <4>1, <5>1
      <4>2. CASE v # w
        BY <1>3, <2>0, <4>2 DEF TaskOK, RightEvents
      <4> QED
        BY <4>1, <4>2
    <3> QED
      BY <3>1 DEF RightEvents
  <2>9. Remembered(u)'
    <3>1. ASSUME NEW v \in Workers, Watched(v, u)
          PROVE  Watched(v, u)'
      <4>1. CASE v = w
        BY <1>3, <2>1, <2>2, <3>1, <4>1 DEF Watched
      <4>2. CASE v # w
        BY <1>3, <3>1, <4>2 DEF Watched
      <4> QED
        BY <4>1, <4>2
    <3> QED
      BY <1>3, <2>0, <3>1 DEF TaskOK, Remembered
  <2>10. Noted(u)' /\ SocketKept(u)'
    BY <1>3, <2>0 DEF TaskOK, Noted, SocketKept
  <2> QED
    BY <2>6, <2>7, <2>8, <2>9, <2>10 DEF TaskOK
<1> QED
  BY <1>4 DEF IInv

\* Every step preserves the invariant.
LEMMA NextInv == IInv /\ [Next]_vars => IInv'
<1> SUFFICES ASSUME IInv, [Next]_vars PROVE IInv'
  OBVIOUS
<1>0. TypeOK'
  BY NextTypes DEF IInv
<1>1. ASSUME NEW t \in Tasks, Coroutine(t)
      PROVE  IInv'
  BY <1>0, <1>1, CallInv, ReturnInv DEF Coroutine
<1>2. ASSUME NEW w \in Workers, NEW t \in Tasks, Callback(w, t)
      PROVE  IInv'
  BY <1>0, <1>2, SockTimeoutInv, SockEventInv, MovesInv, ConnectInv,
     OtherCallbacksInv DEF Callback
<1>3. CASE UNCHANGED vars
  <2>1. \A u \in Tasks : SameTask(u) /\ \A w \in Workers : SameLoop(w, u)
    BY <1>3 DEF vars, argVars, ioVars, loopVars, SameTask, SameLoop
  <2> QED
    BY <1>0, <2>1, Frame DEF IInv
<1> QED
  BY <1>0, <1>1, <1>2, <1>3, PollInv, HandleInv DEF Next

\* The invariant holds in every reachable state.
THEOREM InvHolds == Spec => []IInv
<1> QED
  BY InitInv, NextInv, PTL DEF Spec

-----------------------------------------------------------------------------
(* What it implies. *)

\* Every variable of the workers and their calls keeps its type.
THEOREM TypeCorrect == Spec => []TypeOK
<1>1. IInv => TypeOK
  BY DEF IInv
<1> QED
  BY <1>1, InvHolds, PTL

\* To hold something of a task is to use the loop for it.
LEMMA HoldsUses ==
    ASSUME TypeOK, NEW w \in Workers, NEW t \in Tasks
    PROVE  Holds(w, t) <=> Uses(w, t)
<1>1. active[w] \subseteq Watchers /\ pending[w] \subseteq Events
  BY DEF TypeOK
<1>2. (\E x \in active[w] : x[1] = t) <=>
      (<<t, "io">> \in active[w] \/ <<t, "timer">> \in active[w])
  BY <1>1 DEF Watchers
<1>3. (\E e \in pending[w] : e[1][1] = t) <=>
      (\E which \in {"io", "timer"}, e \in {"ready", "error"} :
          << <<t, which>>, e>> \in pending[w])
  <2>1. ASSUME NEW e \in pending[w], e[1][1] = t
        PROVE  \E which \in {"io", "timer"}, x \in {"ready", "error"} :
                   << <<t, which>>, x>> \in pending[w]
    <3>1. e \in Watchers \X {"ready", "error"}
      BY <1>1, <2>1 DEF Events
    <3>2. PICK y \in Watchers, x \in {"ready", "error"} : e = <<y, x>>
      BY <3>1
    <3>3. PICK u \in Tasks, which \in {"io", "timer"} : y = <<u, which>>
      BY <3>2 DEF Watchers
    <3>4. e[1] = y /\ y[1] = u
      BY <3>2, <3>3
    <3>5. u = t
      BY <2>1, <3>4
    <3> QED
      BY <2>1, <3>2, <3>3, <3>5
  <2>2. ASSUME NEW which \in {"io", "timer"}, NEW x \in {"ready", "error"},
               << <<t, which>>, x>> \in pending[w]
        PROVE  \E e \in pending[w] : e[1][1] = t
    <3>1. << <<t, which>>, x>>[1] = <<t, which>> /\ <<t, which>>[1] = t
      OBVIOUS
    <3>2. << <<t, which>>, x>>[1][1] = t
      BY <3>1
    <3> QED
      BY <2>2, <3>2
  <2> QED
    BY <2>1, <2>2
<1> QED
  BY <1>2, <1>3 DEF Holds, Uses, Attached

\* Once the manager has been told of a call, no event loop holds a watcher,
\* an event or a transfer of it, and a call in progress is in one loop only.
THEOREM WatchersAreStopped == Spec => []WatchersStopped
<1>1. IInv => WatchersStopped
  BY HoldsUses DEF IInv, TaskOK, InOneLoop, WatchersStopped
<1> QED
  BY <1>1, InvHolds, PTL

\* A call that was started in a loop stays watched by it until it ends.
THEOREM CallsAreRemembered == Spec => []NeverForgotten
<1>1. IInv => NeverForgotten
  BY DEF IInv, TaskOK, Remembered, NeverForgotten
<1> QED
  BY <1>1, InvHolds, PTL

\* The manager is told of each call exactly once.
THEOREM ManagerToldOnce == Spec => []NotifiedOnce
<1>1. IInv => NotifiedOnce
  BY DEF IInv, TaskOK, Noted, NotifiedOnce
<1> QED
  BY <1>1, InvHolds, PTL

\* A connect that fails closes its socket, unless it timed out.
THEOREM SocketsAreClosed == Spec => []NoSocketLeft
<1>1. IInv => NoSocketLeft
  BY DEF IInv, TaskOK, SocketKept, Connects, NoSocketLeft
<1> QED
  BY <1>1, InvHolds, PTL

-----------------------------------------------------------------------------
(* The bytes of a read or a write. The results fit into an int only if the *)
(* byte counts do: coroutine_get_retval() and ev_sock_stop() convert them. *)

SameBytes(u) ==
    /\ st'[u] = st[u] /\ kind'[u] = kind[u] /\ calls'[u] = calls[u]
    /\ count'[u] = count[u] /\ moved'[u] = moved[u] /\ cut'[u] = cut[u]
    /\ have'[u] = have[u] /\ need'[u] = need[u]
    /\ val'[u] = val[u] /\ err'[u] = err[u] /\ retval'[u] = retval[u]
    /\ \A w \in Workers : xfer'[w] = u => xfer[w] = u

\* A step that concerns one task.
LEMMA OneTaskBytes ==
    ASSUME BytesInv, NEW t \in Tasks, \A u \in Tasks \ {t} : SameBytes(u),
           BytesOK(t)'
    PROVE  BytesInv'
<1>1. ASSUME NEW u \in Tasks, SameBytes(u), BytesOK(u)
      PROVE  BytesOK(u)'
  BY <1>1 DEF SameBytes, BytesOK, Told
<1> QED
  BY <1>1 DEF BytesInv

\* The parts of Notify(), which SockStop() and the handlers end in.
LEMMA NotifyParts ==
    ASSUME TypeOK, NEW t \in Tasks, NEW v, NEW e, Notify(t, v, e)
    PROVE  /\ st'[t] = "done" /\ val'[t] = v /\ err'[t] = e
           /\ \A u \in Tasks \ {t} :
                st'[u] = st[u] /\ val'[u] = val[u] /\ err'[u] = err[u]
BY DEF Notify, TypeOK

\* Calls other than reads and writes have no bytes to account for.
LEMMA OtherKindsBytes ==
    ASSUME IInv, BytesInv, NEW t \in Tasks, kind[t] \notin SockKinds,
           \/ \E v, e : Notify(t, v, e)
           \/ InLoop(t),
           \A u \in Tasks \ {t} : moved'[u] = moved[u] /\ cut'[u] = cut[u],
           UNCHANGED <<argVars, have, need, retval, xfer>>
    PROVE  BytesInv'
<1>1. \A u \in Tasks \ {t} : st'[u] = st[u] /\ val'[u] = val[u] /\ err'[u] = err[u]
  BY NotifyParts DEF InLoop, IInv, TypeOK
<1>2. \A u \in Tasks \ {t} : SameBytes(u)
  BY <1>1 DEF SameBytes, argVars
<1>3. BytesOK(t)'
  BY DEF BytesOK, argVars
<1> QED
  BY <1>2, <1>3, OneTaskBytes

\* The coroutine makes a call, or reads its result.
LEMMA CoroutineBytes ==
    ASSUME \A n \in Counts : n < IntHalf,
           IInv, BytesInv, NEW t \in Tasks, Coroutine(t)
    PROVE  BytesInv'
<1> USE DEF argVars, ioVars, loopVars
<1>1. ASSUME NEW k \in Kinds, NEW n \in Counts, NEW timeout \in BOOLEAN,
             Call(t, k, n, timeout)
      PROVE  BytesInv'
  <2>1. \A u \in Tasks \ {t} : SameBytes(u)
    BY <1>1 DEF Call, SameBytes, IInv, TypeOK
  <2>2. /\ st'[t] = "doing" /\ calls'[t] > 0 /\ count'[t] \in Counts
        /\ moved'[t] = 0 /\ cut'[t] = "no"
    BY <1>1 DEF Call, IInv, TypeOK
  <2>3. BytesOK(t)'
    BY <2>2 DEF BytesOK
  <2> QED
    BY <2>1, <2>3, OneTaskBytes
<1>2. CASE Return(t)
  <2>1. \A u \in Tasks \ {t} : SameBytes(u)
    BY <1>2 DEF Return, SameBytes, IInv, TypeOK
  <2>2. ASSUME kind[t] \in SockKinds
        PROVE  retval'[t] = val[t] /\ Told(t, val[t])
    <3>1. st[t] = "done"
      BY <1>2 DEF Return
    <3>2. count[t] \in Counts /\ moved[t] <= count[t] /\ Told(t, val[t])
      BY <2>2, <3>1 DEF BytesInv, BytesOK
    <3>3. count[t] \in Nat /\ moved[t] \in Nat /\ count[t] < IntHalf /\ val[t] \in Int
      BY <3>2, SlowCallsAssumption DEF IInv, TypeOK
    <3>4. val[t] = moved[t] \/ val[t] = -1
      BY <3>2 DEF Told
    <3>5. val[t] \in -IntHalf .. IntHalf - 1
      BY <3>2, <3>3, <3>4, SlowCallsAssumption
    <3>6. ToInt(val[t]) = val[t]
      BY <3>3, <3>5, ToIntFacts
    <3> QED
      BY <1>2, <3>2, <3>6 DEF Return, IInv, TypeOK
  <2>3. st'[t] = "coro" /\ UNCHANGED <<kind, calls, count, moved, cut, err>>
    BY <1>2 DEF Return, IInv, TypeOK
  <2>4. BytesOK(t)'
    BY <2>2, <2>3 DEF BytesInv, BytesOK, Told
  <2> QED
    BY <2>1, <2>4, OneTaskBytes
<1> QED
  BY <1>1, <1>2 DEF Coroutine

\* A handler: do_sock_read() and do_sock_write() reset the counters.
LEMMA HandleBytes ==
    ASSUME IInv, BytesInv, NEW w \in Workers, NEW t \in Tasks, Handle(w, t)
    PROVE  BytesInv'
<1> USE DEF ioVars
<1>1. CASE DoSock(w, t)
  <2>1. /\ st[t] = "doing" /\ kind[t] \in SockKinds /\ st'[t] = "loop"
        /\ have'[t] = 0 /\ need'[t] = count[t]
        /\ UNCHANGED <<argVars, moved, cut, retval, xfer, val, err>>
        /\ \A u \in Tasks \ {t} : st'[u] = st[u] /\ have'[u] = have[u] /\ need'[u] = need[u]
    BY <1>1 DEF DoSock, Take, InLoop, IInv, TypeOK
  <2>2. \A u \in Tasks \ {t} : SameBytes(u)
    BY <2>1 DEF SameBytes, argVars
  <2>3. \A x \in Workers : xfer[x] # t
    BY <2>1, NotInLoop DEF IInv, Uses
  <2>4. count[t] \in Nat
    BY DEF IInv, TypeOK
  <2>5. BytesOK(t)'
    BY <2>1, <2>3, <2>4 DEF BytesInv, BytesOK, argVars
  <2> QED
    BY <2>2, <2>5, OneTaskBytes
<1>2. CASE DoDisk(w, t)
  <2>1. kind[t] \notin SockKinds /\ (\E v, e : Notify(t, v, e))
        /\ UNCHANGED <<argVars, have, need, cut, retval, xfer>>
    BY <1>2 DEF DoDisk, Take, DiskKinds, SockKinds
  <2>2. \A u \in Tasks \ {t} : moved'[u] = moved[u]
    BY <1>2 DEF DoDisk, IInv, TypeOK
  <2> QED
    BY <2>1, <2>2, OtherKindsBytes
<1>3. CASE DoBgRun(w, t) \/ DoBlockedConnect(w, t) \/ DoTimeoutConnect(w, t)
           \/ DoMsleep(w, t) \/ DoAccept(w, t)
  <2>1. /\ kind[t] \notin SockKinds
        /\ (\E v, e : Notify(t, v, e)) \/ InLoop(t)
        /\ UNCHANGED <<argVars, have, need, cut, moved, retval, xfer>>
    BY <1>3 DEF DoBgRun, DoBlockedConnect, DoTimeoutConnect, DoMsleep, DoAccept,
                Take, SockKinds
  <2> QED
    BY <2>1, OtherKindsBytes
<1> QED
  BY <1>1, <1>2, <1>3 DEF Handle

\* A callback ends a read or a write, and tells value v.
LEMMA EndBytes ==
    ASSUME IInv, BytesInv, NEW w \in Workers, NEW t \in Tasks, NEW v, NEW e,
           kind[t] \in SockKinds, SockStop(w, t, v, e),
           UNCHANGED <<argVars, retval>>,
           moved'[t] <= count[t],
           Told(t, ToInt(v))',
           \A u \in Tasks \ {t} : /\ moved'[u] = moved[u] /\ cut'[u] = cut[u]
                                  /\ have'[u] = have[u] /\ need'[u] = need[u],
           \A u \in Tasks, x \in Workers : xfer'[x] = u => xfer[x] = u
    PROVE  BytesInv'
<1>1. Notify(t, ToInt(v), e)
  BY DEF SockStop
<1>2. /\ st'[t] = "done" /\ val'[t] = ToInt(v) /\ err'[t] = e
      /\ \A u \in Tasks \ {t} :
           st'[u] = st[u] /\ val'[u] = val[u] /\ err'[u] = err[u]
  BY <1>1, NotifyParts DEF IInv
<1>3. \A u \in Tasks \ {t} : SameBytes(u)
  BY <1>2 DEF SameBytes, argVars
<1>4. BytesOK(t)'
  BY <1>2 DEF BytesInv, BytesOK, Told, argVars
<1> QED
  BY <1>3, <1>4, OneTaskBytes

\* A callback of a read or a write.
LEMMA SockBytes ==
    ASSUME \A n \in Counts : n < IntHalf,
           IInv, BytesInv, NEW w \in Workers, NEW t \in Tasks,
           SockTimeout(w, t) \/ SockEvent(w, t) \/ Moves(w, t)
    PROVE  BytesInv'
<1> USE DEF argVars, ioVars, loopVars
<1>1. kind[t] \in SockKinds /\ st[t] = "loop"
  <2>1. CASE Moves(w, t)
    <3>1. xfer[w] = t
      BY <2>1 DEF Moves, Transfer, TransferEof, TransferFails
    <3> QED
      BY <3>1 DEF IInv, TaskOK, RightWatchers, InOneLoop, Uses
  <2>2. CASE SockTimeout(w, t) \/ SockEvent(w, t)
    <3>1. \E which \in {"io", "timer"}, e \in {"ready", "error"} : Invoked(w, t, which, e)
      BY <2>2 DEF SockTimeout, SockEvent
    <3> QED
      BY <2>2, <3>1, InvokedUses DEF SockTimeout, SockEvent
  <2> QED
    BY <2>1, <2>2
<1>2. /\ have[t] = moved[t] /\ have[t] + need[t] = count[t] /\ cut[t] = "no"
      /\ count[t] \in Counts
      /\ \A x \in Workers : xfer[x] = t => need[t] > 0
  BY <1>1 DEF BytesInv, BytesOK
<1>3. /\ have[t] \in Nat /\ need[t] \in Nat /\ moved[t] \in Nat
      /\ count[t] \in Nat /\ count[t] < IntHalf
  BY <1>2, SlowCallsAssumption DEF IInv, TypeOK
<1>4. /\ \A n \in 0 .. count[t] : ToInt(n) = n
      /\ ToInt(-1) = -1
      /\ have[t] \in 0 .. count[t]
  BY <1>2, <1>3, ToIntFacts, SlowCallsAssumption
<1>5. \A v, e : SockStop(w, t, v, e) => err'[t] = e
  <2>1. ASSUME NEW v, NEW e, SockStop(w, t, v, e)
        PROVE  err'[t] = e
    BY <2>1 DEF SockStop, Notify, IInv, TypeOK
  <2> QED
    BY <2>1
<1>6. CASE SockTimeout(w, t)
  <2>1. /\ UNCHANGED <<argVars, have, need, moved, retval, xfer>>
        /\ cut'[t] = "timeout" /\ \A u \in Tasks \ {t} : cut'[u] = cut[u]
    BY <1>6 DEF SockTimeout, IInv, TypeOK
  <2>2. CASE have[t] = 0
    <3>1. SockStop(w, t, -1, "EWOULDBLOCK")
      BY <1>6, <2>2 DEF SockTimeout
    <3>2. Told(t, ToInt(-1))'
      BY <1>2, <1>4, <1>5, <2>1, <2>2, <3>1 DEF Told
    <3> QED
      BY <1>1, <1>2, <1>3, <2>1, <3>1, <3>2, EndBytes
  <2>3. CASE have[t] # 0
    <3>1. SockStop(w, t, have[t], "ok")
      BY <1>6, <2>3 DEF SockTimeout
    <3>2. ASSUME NEW v, v = have[t]
          PROVE  Told(t, ToInt(v))'
      BY <1>2, <1>4, <1>5, <2>1, <3>1, <3>2 DEF Told
    <3> QED
      BY <1>1, <1>2, <1>3, <2>1, <3>1, <3>2, EndBytes
  <2> QED
    BY <2>2, <2>3
<1>7. CASE SockEvent(w, t)
  <2>1. UNCHANGED <<argVars, have, need, moved, cut, retval>>
    BY <1>7 DEF SockEvent
  <2>2. CASE SockStop(w, t, -1, "ENODEV") /\ UNCHANGED xfer
    <3>1. Told(t, ToInt(-1))'
      BY <1>4, <1>5, <2>2 DEF Told
    <3> QED
      BY <1>1, <1>2, <1>3, <2>1, <2>2, <3>1, EndBytes
  <2>3. CASE need[t] = 0 /\ SockStop(w, t, have[t], "ok") /\ UNCHANGED xfer
    <3>1. ASSUME NEW v, v = have[t]
          PROVE  Told(t, ToInt(v))'
      BY <1>2, <1>3, <1>4, <1>5, <2>1, <2>3, <3>1 DEF Told
    <3> QED
      BY <1>1, <1>2, <1>3, <2>1, <2>3, <3>1, EndBytes
  <2>4. CASE need[t] > 0 /\ xfer' = [xfer EXCEPT ![w] = t]
             /\ UNCHANGED <<val, err, st>>
    <3>1. \A u \in Tasks \ {t} : SameBytes(u)
      BY <2>1, <2>4 DEF SameBytes, IInv, TypeOK
    <3>2. BytesOK(t)'
      BY <1>1, <1>2, <2>1, <2>4 DEF BytesInv, BytesOK
    <3> QED
      BY <3>1, <3>2, OneTaskBytes
  <2> QED
    BY <1>7, <2>2, <2>3, <2>4 DEF SockEvent
<1>8. ASSUME NEW n \in 1 .. need[t], Transfer(w, t, n)
      PROVE  BytesInv'
  <2>1. /\ moved'[t] = moved[t] + n /\ have'[t] = have[t] + n /\ need'[t] = need[t] - n
        /\ \A u \in Tasks \ {t} : moved'[u] = moved[u] /\ have'[u] = have[u]
                                  /\ need'[u] = need[u]
        /\ UNCHANGED <<argVars, cut, retval>>
    BY <1>8 DEF Transfer, IInv, TypeOK
  <2>2. CASE n = need[t]
    <3>1. SockStop(w, t, have[t] + n, "ok") /\ xfer' = [xfer EXCEPT ![w] = NULL]
      BY <1>8, <2>2 DEF Transfer
    <3>2. have[t] + n = count[t] /\ moved'[t] = count[t] /\ count[t] \in 0 .. count[t]
      BY <1>2, <1>3, <2>1, <2>2
    <3>3. ASSUME NEW v, v = have[t] + n
          PROVE  Told(t, ToInt(v))'
      <4>1. ToInt(v) = count[t] /\ err'[t] = "ok" /\ count'[t] = count[t]
        BY <1>4, <1>5, <2>1, <3>1, <3>2, <3>3
      <4> QED
        BY <1>3, <3>2, <4>1 DEF Told
    <3>4. \A u \in Tasks, x \in Workers : xfer'[x] = u => xfer[x] = u
      BY <3>1, SlowCallsAssumption DEF IInv, TypeOK
    <3>5. moved'[t] <= count[t]
      BY <1>3, <3>2
    <3> QED
      BY <1>1, <2>1, <3>1, <3>3, <3>4, <3>5, EndBytes
  <2>3. CASE n # need[t]
    <3>1. UNCHANGED <<xfer, val, err, st>>
      BY <1>8, <2>3 DEF Transfer
    <3>2. \A u \in Tasks \ {t} : SameBytes(u)
      BY <2>1, <3>1 DEF SameBytes
    <3>3. have'[t] = moved'[t] /\ have'[t] + need'[t] = count[t] /\ need'[t] > 0
      BY <1>2, <1>3, <2>1, <2>3
    <3>4. BytesOK(t)'
      BY <1>1, <2>1, <3>1, <3>3 DEF BytesInv, BytesOK
    <3> QED
      BY <3>2, <3>4, OneTaskBytes
  <2> QED
    BY <2>2, <2>3
<1>9. CASE TransferEof(w, t)
  <2>1. /\ UNCHANGED <<argVars, have, need, moved, retval>>
        /\ cut'[t] = "eof" /\ \A u \in Tasks \ {t} : cut'[u] = cut[u]
        /\ SockStop(w, t, have[t], "ok")
        /\ \A u \in Tasks, x \in Workers : xfer'[x] = u => xfer[x] = u
    BY <1>9, SlowCallsAssumption DEF TransferEof, IInv, TypeOK
  <2>2. ASSUME NEW v, v = have[t]
        PROVE  Told(t, ToInt(v))'
    BY <1>2, <1>4, <1>5, <2>1, <2>2 DEF Told
  <2> QED
    BY <1>1, <1>2, <1>3, <2>1, <2>2, EndBytes
<1>10. CASE TransferFails(w, t)
  <2>1. UNCHANGED <<argVars, have, need, moved, cut, retval>>
        /\ \A u \in Tasks, x \in Workers : xfer'[x] = u => xfer[x] = u
    BY <1>10, SlowCallsAssumption DEF TransferFails, IInv, TypeOK
  <2>2. CASE SockStop(w, t, -1, "other")
    <3>1. Told(t, ToInt(-1))'
      BY <1>4, <1>5, <2>2 DEF Told
    <3> QED
      BY <1>1, <1>2, <1>3, <2>1, <2>2, <3>1, EndBytes
  <2>3. CASE UNCHANGED <<val, err, st>>
    <3>1. \A u \in Tasks : SameBytes(u)
      BY <2>1, <2>3 DEF SameBytes
    <3>2. BytesOK(t)'
      BY <1>1, <2>1, <2>3 DEF BytesInv, BytesOK
    <3> QED
      BY <3>1, <3>2, OneTaskBytes
  <2> QED
    BY <1>10, <2>2, <2>3 DEF TransferFails
<1> QED
  BY <1>6, <1>7, <1>8, <1>9, <1>10 DEF Moves

\* Every step keeps the account of the bytes, if all counts are ints.
LEMMA NextBytes ==
    ASSUME \A n \in Counts : n < IntHalf
    PROVE  IInv /\ BytesInv /\ [Next]_vars => BytesInv'
<1> SUFFICES ASSUME IInv, BytesInv, [Next]_vars PROVE BytesInv'
  OBVIOUS
<1> USE DEF argVars, ioVars, loopVars
<1>1. ASSUME NEW w \in Workers, NEW t \in Tasks, Callback(w, t)
      PROVE  BytesInv'
  <2>1. CASE SockTimeout(w, t) \/ SockEvent(w, t) \/ Moves(w, t)
    BY <2>1, SockBytes
  <2>2. CASE ConnectTimeout(w, t) \/ ConnectEvent(w, t) \/ SleepOver(w, t)
             \/ AcceptEvent(w, t)
    <3>1. /\ kind[t] \notin SockKinds
          /\ \E v, e : Notify(t, v, e)
          /\ UNCHANGED <<argVars, have, need, moved, retval, xfer>>
      BY <2>2 DEF ConnectTimeout, ConnectEvent, SleepOver, AcceptEvent, SockStop,
                  SockKinds
    <3>2. \A u \in Tasks \ {t} : cut'[u] = cut[u]
      BY <2>2 DEF ConnectTimeout, ConnectEvent, SleepOver, AcceptEvent, IInv, TypeOK
    <3> QED
      BY <3>1, <3>2, OtherKindsBytes
  <2> QED
    BY <1>1, <2>1, <2>2 DEF Callback
<1>2. CASE UNCHANGED vars \/ \E w \in Workers : PollSome(w)
  <2>1. \A u \in Tasks : SameBytes(u)
    BY <1>2 DEF vars, PollSome, Poll, SameBytes
  <2> QED
    BY <2>1 DEF BytesInv, BytesOK, Told, SameBytes
<1> QED
  BY <1>1, <1>2, CoroutineBytes, HandleBytes DEF Next

\* A read or a write tells its caller how many bytes were moved, why they are
\* fewer than it asked for, and loses count of them only on an error; provided
\* that an int can hold the byte counts asked for.
THEOREM ResultsAreTrue ==
    ASSUME \A n \in Counts : n < IntHalf
    PROVE  Spec => []IoResult
<1>1. Init => BytesInv
  BY DEF Init, BytesInv, BytesOK, SockKinds
<1>2. IInv /\ BytesInv /\ [Next]_vars => BytesInv'
  BY NextBytes
<1>3. BytesInv => IoResult
  BY DEF BytesInv, BytesOK, Told, IoResult
<1> QED
  BY <1>1, <1>2, <1>3, InvHolds, PTL DEF Spec

-----------------------------------------------------------------------------
(* The contract with the core, module CallService: the refinement mapping  *)
(* in functions of a task, which a step changes for one task only.         *)

CallOf(t) == IF InProgress(t) THEN kind[t] ELSE NULL

Where(t) == IF \E w \in Workers : Holds(w, t)
              THEN CHOOSE w \in Workers : Holds(w, t)
              ELSE NULL

CallMap  == [t \in Tasks |-> CallOf(t)]
WhereMap == [t \in Tasks |-> Where(t)]

\* A call in progress is where a loop uses it, and no other is anywhere.
Placed ==
    \A t \in Tasks :
        /\ st[t] = "loop" => Where(t) \in Workers /\ Uses(Where(t), t)
        /\ st[t] # "loop" => Where(t) = NULL

\* The loops decide where a call is.
LEMMA WhereIs == IInv => Placed
<1> SUFFICES ASSUME IInv, NEW t \in Tasks
             PROVE  /\ st[t] = "loop" => Where(t) \in Workers /\ Uses(Where(t), t)
                    /\ st[t] # "loop" => Where(t) = NULL
  BY DEF Placed
<1>0. TypeOK /\ TaskOK(t)
  BY DEF IInv
<1>1. CASE st[t] = "loop"
  <2>1. PICK w \in Workers : Watched(w, t)
    BY <1>0, <1>1 DEF TaskOK, Remembered
  <2>2. Uses(w, t)
    BY <2>1 DEF Watched, Uses, Attached
  <2>3. Holds(w, t)
    BY <1>0, <2>2, HoldsUses
  <2>4. Where(t) \in Workers /\ Holds(Where(t), t)
    BY <2>3 DEF Where
  <2> QED
    BY <1>0, <1>1, <2>4, HoldsUses
<1>2. CASE st[t] # "loop"
  <2>1. \A w \in Workers : ~Holds(w, t)
    BY <1>0, <1>2, NotInLoop, HoldsUses
  <2> QED
    BY <1>2, <2>1 DEF Where
<1> QED
  BY <1>1, <1>2

\* A call stays in its loop while it is in progress.
LEMMA WhereStays ==
    ASSUME IInv, IInv', NEW t \in Tasks, st'[t] = st[t],
           \A w \in Workers : Uses(w, t)' => Uses(w, t)
    PROVE  Where(t)' = Where(t)
<1>0. Placed /\ Placed'
  BY WhereIs, PTL
<1>1. /\ st[t] = "loop" => Where(t) \in Workers /\ Uses(Where(t), t)
      /\ st[t] # "loop" => Where(t) = NULL
  BY <1>0 DEF Placed
<1>2. (/\ st[t] = "loop" => Where(t) \in Workers /\ Uses(Where(t), t)
       /\ st[t] # "loop" => Where(t) = NULL)'
  BY <1>0 DEF Placed
<1>3. CASE st[t] = "loop"
  <2>1. PICK w \in Workers : w = Where(t)' /\ Uses(w, t)'
    BY <1>2, <1>3
  <2>2. Uses(w, t)
    BY <2>1
  <2>3. w = Where(t)
    BY <1>1, <1>3, <2>2 DEF IInv, TaskOK, InOneLoop
  <2> QED
    BY <2>1, <2>3
<1>4. CASE st[t] # "loop"
  BY <1>1, <1>2, <1>4
<1> QED
  BY <1>3, <1>4

\* The tasks that a step leaves alone look the same to the core.
LEMMA OthersLookSame ==
    ASSUME IInv, IInv', NEW t \in Tasks, OthersAlone(t), NEW s, st'[t] = s
    PROVE  /\ st' = [st EXCEPT ![t] = s]
           /\ CallMap' = [CallMap EXCEPT ![t] = CallOf(t)']
           /\ WhereMap' = [WhereMap EXCEPT ![t] = Where(t)']
<1>1. ASSUME NEW u \in Tasks, u # t
      PROVE  st'[u] = st[u] /\ CallOf(u)' = CallOf(u) /\ Where(u)' = Where(u)
  <2>1. SameTask(u) /\ \A w \in Workers : SameLoop(w, u)
    BY <1>1 DEF OthersAlone
  <2>2. \A w \in Workers : Uses(w, u)' => Uses(w, u)
    BY <2>1, SameUses
  <2>3. st'[u] = st[u] /\ kind'[u] = kind[u]
    BY <2>1 DEF SameTask
  <2> QED
    BY <2>2, <2>3, WhereStays DEF CallOf, InProgress
<1>2. /\ st \in [Tasks -> {"coro", "doing", "loop", "done"}]
      /\ st' \in [Tasks -> {"coro", "doing", "loop", "done"}]
  BY DEF IInv, TypeOK
<1> QED
  BY <1>1, <1>2 DEF CallMap, WhereMap

\* The application's half of a call: handed over, and returned.
LEMMA CoroutineServes ==
    ASSUME IInv, IInv', NEW t \in Tasks, OthersAlone(t), Coroutine(t)
    PROVE  Calls!HandOver(t) \/ Calls!Return(t)
<1>0. /\ IInv => Placed
      /\ (IInv => Placed)'
  BY WhereIs, PTL
<1>1. ASSUME NEW k \in Kinds, NEW n \in Counts, NEW timeout \in BOOLEAN,
             Call(t, k, n, timeout)
      PROVE  Calls!HandOver(t)
  <2>1. st[t] = "coro" /\ st'[t] = "doing" /\ kind'[t] = k
    BY <1>1 DEF Call, IInv, TypeOK
  <2>2. Where(t) = NULL /\ Where(t)' = NULL /\ CallOf(t)' = k
    BY <1>0, <2>1 DEF Placed, CallOf, InProgress
  <2>3. /\ st' = [st EXCEPT ![t] = "doing"]
        /\ CallMap' = [CallMap EXCEPT ![t] = k]
        /\ WhereMap' = [WhereMap EXCEPT ![t] = NULL]
    BY <2>1, <2>2, OthersLookSame
  <2>4. WhereMap' = WhereMap
    BY <2>2, <2>3 DEF WhereMap
  <2>5. k \in Calls!SyncCalls \cup Calls!LoopCalls
    BY SlowCallsAssumption DEF Calls!SyncCalls, Calls!LoopCalls, AllKinds,
                               DiskKinds, SockKinds
  <2> QED
    BY <2>1, <2>3, <2>4, <2>5
       DEF Calls!HandOver, Calls!Goto, CallMap, WhereMap, CallOf, Where
<1>2. CASE Return(t)
  <2>1. st[t] = "done" /\ st'[t] = "coro"
    BY <1>2 DEF Return, IInv, TypeOK
  <2>2. Where(t) = NULL /\ Where(t)' = NULL /\ CallOf(t) = NULL /\ CallOf(t)' = NULL
    BY <1>0, <2>1 DEF Placed, CallOf, InProgress
  <2>3. /\ st' = [st EXCEPT ![t] = "coro"]
        /\ CallMap' = [CallMap EXCEPT ![t] = NULL]
        /\ WhereMap' = [WhereMap EXCEPT ![t] = NULL]
    BY <2>1, <2>2, OthersLookSame
  <2>4. CallMap' = CallMap /\ WhereMap' = WhereMap
    BY <2>2, <2>3 DEF CallMap, WhereMap
  <2> QED
    BY <2>1, <2>3, <2>4 DEF Calls!Return, Calls!Goto, CallMap, WhereMap, CallOf, Where
<1> QED
  BY <1>1, <1>2 DEF Coroutine

\* A handler serves its call at once or starts it in its worker's loop.
LEMMA HandlerServes ==
    ASSUME IInv, IInv', NEW w \in Workers, NEW t \in Tasks, OthersAlone(t),
           Handle(w, t)
    PROVE  Calls!ServeAtOnce(t) \/ \E v \in Workers : Calls!StartInLoop(t, v)
<1>0. /\ IInv => Placed
      /\ (IInv => Placed)'
  BY WhereIs, PTL
<1>1. /\ st[t] = "doing" /\ CallOf(t) = kind[t]
      /\ kind'[t] = kind[t]
      /\ \/ (\E v, e : Notify(t, v, e)) /\ kind[t] \in Calls!SyncCalls
         \/ InLoop(t) /\ kind[t] \in Calls!LoopCalls
  BY DEF Handle, DoDisk, DoBgRun, DoBlockedConnect, DoSock, DoTimeoutConnect,
         DoMsleep, DoAccept, Take, CallOf, InProgress, argVars,
         Calls!SyncCalls, Calls!LoopCalls, DiskKinds, SockKinds
<1>2. Where(t) = NULL
  BY <1>0, <1>1 DEF Placed
<1>3. CASE (\E v, e : Notify(t, v, e)) /\ kind[t] \in Calls!SyncCalls
  <2>1. st'[t] = "done"
    BY <1>3, NotifyParts DEF IInv
  <2>2. Where(t)' = NULL /\ CallOf(t)' = NULL
    BY <1>0, <2>1 DEF Placed, CallOf, InProgress
  <2>3. /\ st' = [st EXCEPT ![t] = "done"]
        /\ CallMap' = [CallMap EXCEPT ![t] = NULL]
        /\ WhereMap' = [WhereMap EXCEPT ![t] = NULL]
    BY <2>1, <2>2, OthersLookSame
  <2>4. WhereMap' = WhereMap /\ CallMap[t] \in Calls!SyncCalls
    BY <1>1, <1>2, <1>3, <2>3 DEF WhereMap, CallMap
  <2> QED
    BY <1>1, <2>3, <2>4
       DEF Calls!ServeAtOnce, Calls!Goto, CallMap, WhereMap, CallOf, Where
<1>4. CASE InLoop(t) /\ kind[t] \in Calls!LoopCalls
  <2>1. st'[t] = "loop"
    BY <1>4 DEF InLoop, IInv, TypeOK
  <2>2. PICK v \in Workers : v = Where(t)'
    BY <1>0, <2>1 DEF Placed
  <2>3. CallOf(t)' = CallOf(t)
    BY <1>1, <2>1 DEF CallOf, InProgress
  <2>4. /\ st' = [st EXCEPT ![t] = "loop"]
        /\ CallMap' = [CallMap EXCEPT ![t] = CallOf(t)]
        /\ WhereMap' = [WhereMap EXCEPT ![t] = v]
    BY <2>1, <2>2, <2>3, OthersLookSame
  <2>5. CallMap' = CallMap /\ CallMap[t] \in Calls!LoopCalls
    BY <1>1, <1>4, <2>4 DEF CallMap
  <2>6. Calls!StartInLoop(t, v)
    BY <1>1, <2>4, <2>5
       DEF Calls!StartInLoop, Calls!Goto, CallMap, WhereMap, CallOf, Where
  <2> QED
    BY <2>6
<1> QED
  BY <1>1, <1>3, <1>4

\* Nothing of a call that the core sees has changed.
Unseen == UNCHANGED <<st, CallMap, WhereMap>>

\* A callback ends its call, or leaves it as it is.
LEMMA CallbackServes ==
    ASSUME IInv, IInv', NEW w \in Workers, NEW t \in Tasks, OthersAlone(t),
           Callback(w, t)
    PROVE  Calls!ServeInLoop(t) \/ Unseen
<1> USE DEF argVars, ioVars, loopVars
<1>0. /\ IInv => Placed
      /\ (IInv => Placed)'
  BY WhereIs, PTL
<1>1. st[t] = "loop"
  <2>1. CASE Moves(w, t)
    <3>1. xfer[w] = t
      BY <2>1 DEF Moves, Transfer, TransferEof, TransferFails
    <3> QED
      BY <3>1 DEF IInv, TaskOK, InOneLoop, Uses
  <2>2. CASE ~Moves(w, t)
    <3>1. \E which \in {"io", "timer"}, e \in {"ready", "error"} : Invoked(w, t, which, e)
      BY <2>2 DEF Callback, SockTimeout, SockEvent, ConnectTimeout, ConnectEvent,
                  SleepOver, AcceptEvent
    <3> QED
      BY <3>1, InvokedUses
  <2> QED
    BY <2>1, <2>2
<1>2. \/ \E v, e : Notify(t, v, e)
      \/ /\ UNCHANGED <<st, kind, active>>
         /\ xfer' = [xfer EXCEPT ![w] = NULL] \/ UNCHANGED xfer
         /\ UNCHANGED pending
      \/ /\ UNCHANGED <<st, kind, active>>
         /\ xfer' = [xfer EXCEPT ![w] = t]
         /\ Invoked(w, t, "io", "ready")
         /\ pending' = [pending EXCEPT ![w] = @ \ {<< <<t, "io">>, "ready">>}]
  <2>1. CASE Moves(w, t)
    BY <2>1 DEF Moves, Transfer, TransferEof, TransferFails, SockStop
  <2>2. CASE SockEvent(w, t)
    BY <2>2 DEF SockEvent, SockStop
  <2>3. CASE ~Moves(w, t) /\ ~SockEvent(w, t)
    BY <2>3 DEF Callback, SockTimeout, ConnectTimeout, ConnectEvent, SleepOver,
                AcceptEvent, SockStop
  <2> QED
    BY <2>1, <2>2, <2>3
<1>3. CASE \E v, e : Notify(t, v, e)
  <2>1. st'[t] = "done"
    BY <1>3, NotifyParts DEF IInv
  <2>2. Where(t)' = NULL /\ CallOf(t)' = NULL
    BY <1>0, <2>1 DEF Placed, CallOf, InProgress
  <2>3. /\ st' = [st EXCEPT ![t] = "done"]
        /\ CallMap' = [CallMap EXCEPT ![t] = NULL]
        /\ WhereMap' = [WhereMap EXCEPT ![t] = NULL]
    BY <2>1, <2>2, OthersLookSame
  <2> QED
    BY <1>1, <2>3 DEF Calls!ServeInLoop, Calls!Goto, CallMap, WhereMap, CallOf, Where
<1>4. CASE ~\E v, e : Notify(t, v, e)
  <2>1. UNCHANGED <<st, kind, active>>
    BY <1>2, <1>4
  <2>2. \A x \in Workers : Uses(x, t)' => Uses(x, t)
    <3>0. /\ xfer \in [Workers -> Tasks \cup {NULL}]
          /\ pending \in [Workers -> SUBSET Events]
      BY DEF IInv, TypeOK
    <3>1. \A x \in Workers : pending'[x] \subseteq pending[x]
      BY <1>2, <1>4, <3>0
    <3>2. \A x \in Workers : xfer'[x] = t => Uses(x, t)
      BY <1>2, <1>4, <3>0, SlowCallsAssumption DEF Uses, Attached, Invoked
    <3>3. ASSUME NEW x \in Workers, NEW which \in {"io", "timer"}, Attached(x, t, which)'
          PROVE  Attached(x, t, which)
      BY <2>1, <3>1, <3>3 DEF Attached
    <3> QED
      BY <3>2, <3>3 DEF Uses
  <2>3. Where(t)' = Where(t) /\ CallOf(t)' = CallOf(t)
    BY <2>1, <2>2, WhereStays DEF CallOf, InProgress
  <2>4. /\ CallMap' = [CallMap EXCEPT ![t] = CallOf(t)]
        /\ WhereMap' = [WhereMap EXCEPT ![t] = Where(t)]
    BY <2>3, OthersLookSame
  <2> QED
    BY <2>1, <2>4 DEF Unseen, CallMap, WhereMap
<1> QED
  BY <1>3, <1>4

\* An iteration of a loop delivers its events to the callbacks, and no more.
LEMMA PollUnseen ==
    ASSUME IInv, IInv', NEW w \in Workers, PollSome(w)
    PROVE  Unseen
<1>1. PICK ready \in SUBSET active[w] :
        \E dead \in SUBSET (active[w] \ ready) : Poll(w, ready, dead)
  BY DEF PollSome
<1>2. PICK dead \in SUBSET (active[w] \ ready) : Poll(w, ready, dead)
  BY <1>1
<1>3. /\ UNCHANGED <<st, kind, xfer>>
      /\ \A x \in Workers : active'[x] \subseteq active[x]
      /\ \A x \in Workers : \A e \in pending'[x] : e \in pending[x] \/ e[1] \in active[x]
  BY <1>2 DEF Poll, IInv, TypeOK, argVars
<1>4. ASSUME NEW u \in Tasks
      PROVE  Where(u)' = Where(u) /\ CallOf(u)' = CallOf(u)
  <2>1. ASSUME NEW x \in Workers, NEW which \in {"io", "timer"}, Attached(x, u, which)'
        PROVE  Attached(x, u, which)
    <3>1. CASE <<u, which>> \in active'[x]
      BY <1>3, <3>1 DEF Attached
    <3>2. ASSUME NEW e \in {"ready", "error"}, << <<u, which>>, e>> \in pending'[x]
          PROVE  Attached(x, u, which)
      <4>1. << <<u, which>>, e>>[1] = <<u, which>>
        OBVIOUS
      <4> QED
        BY <1>3, <3>2, <4>1 DEF Attached
    <3> QED
      BY <2>1, <3>1, <3>2 DEF Attached
  <2>2. \A x \in Workers : Uses(x, u)' => Uses(x, u)
    BY <1>3, <2>1 DEF Uses
  <2> QED
    BY <1>3, <2>2, WhereStays DEF CallOf, InProgress
<1> QED
  BY <1>3, <1>4 DEF Unseen, CallMap, WhereMap

\* The handlers, the callbacks and the event loops keep the contract of
\* module CallService: each call is served once, at once or by a callback of
\* the one loop it was started in, and does not return before.
THEOREM CallsAreServed == Spec => ServesCalls
<1>1. Init => Calls!Init
  <2> SUFFICES ASSUME Init PROVE Calls!Init
    OBVIOUS
  <2>1. IInv /\ Placed
    BY InitInv, WhereIs
  <2>2. \A t \in Tasks : st[t] = "coro" /\ Where(t) = NULL /\ CallOf(t) = NULL
    BY <2>1 DEF Init, Placed, CallOf, InProgress
  <2>3. CallMap = [t \in Tasks |-> NULL] /\ WhereMap = [t \in Tasks |-> NULL]
    BY <2>2 DEF CallMap, WhereMap
  <2> QED
    BY <2>3 DEF Init, Calls!Init, CallMap, WhereMap, CallOf, Where
<1>2. IInv /\ IInv' /\ [Next]_vars => [Calls!Next]_(Calls!callVars)
  <2> SUFFICES ASSUME IInv, IInv', [Next]_vars
               PROVE  Calls!Next \/ UNCHANGED Calls!callVars
    OBVIOUS
  <2>0. TypeOK'
    BY DEF IInv
  <2>1. Unseen => UNCHANGED Calls!callVars
    BY DEF Unseen, Calls!callVars, CallMap, WhereMap, CallOf, Where
  <2>2. ASSUME NEW t \in Tasks, Coroutine(t)
        PROVE  Calls!Next
    <3>1. OthersAlone(t)
      BY <2>0, <2>2, CallInv, ReturnInv DEF Coroutine
    <3> QED
      BY <2>2, <3>1, CoroutineServes DEF Calls!Next
  <2>3. ASSUME NEW w \in Workers, NEW t \in Tasks, Handle(w, t)
        PROVE  Calls!Next
    <3>1. OthersAlone(t)
      BY <2>0, <2>3, HandleInv
    <3> QED
      BY <2>3, <3>1, HandlerServes DEF Calls!Next
  <2>4. ASSUME NEW w \in Workers, NEW t \in Tasks, Callback(w, t)
        PROVE  Calls!Next \/ Unseen
    <3>1. OthersAlone(t)
      BY <2>0, <2>4, SockTimeoutInv, SockEventInv, MovesInv, ConnectInv,
         OtherCallbacksInv DEF Callback
    <3> QED
      BY <2>4, <3>1, CallbackServes DEF Calls!Next
  <2>5. CASE UNCHANGED vars
    BY <2>5 DEF vars, argVars, loopVars, Calls!callVars, InProgress, Holds
  <2> QED
    BY <2>1, <2>2, <2>3, <2>4, <2>5, PollUnseen DEF Next
<1> QED
  BY <1>1, <1>2, InvHolds, PTL DEF Spec, ServesCalls, Calls!Spec

=============================================================================

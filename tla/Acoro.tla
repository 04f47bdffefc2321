------------------------------- MODULE Acoro -------------------------------
(***************************************************************************)
(* The run-time core of src/src/acoro.c: crt_create(), the manager thread  *)
(* that runs every coroutine (new_manager), the hand-over of a slow call   *)
(* to the background workers (coroutine_notify_background_worker,          *)
(* new_event_handler, do_task, the libev callbacks) and the way back       *)
(* (coroutine_notify_manager).                                             *)
(*                                                                         *)
(* Threads: the manager thread, which also runs the coroutines' own code;  *)
(* the background workers, each in its own event loop; and application     *)
(* threads outside the library ("creators"), which only call crt_create(). *)
(* A step of the model is what a thread does between two accesses to state *)
(* that another thread can see: one locked queue operation, one semaphore  *)
(* operation, one pipe operation, one context switch.                      *)
(*                                                                         *)
(* Both task queues are sequences here; module BsdQueue shows that this is *)
(* what the linked lists of bsdqueue.h implement. What a handler does with *)
(* its call is in module SlowCalls, the coroutine semaphores in CrtSem.    *)
(***************************************************************************)
EXTENDS Integers, Sequences, FiniteSets, Functions

CONSTANTS
    Coros,        \* the task structures crt_create() may allocate
    Creators,     \* application threads that call crt_create()
    Manager,      \* the manager thread (MANAGER_CNT is 1)
    WorkerCount,  \* coroutine_env.background_worker_count
    PipeCap,      \* how many bytes a worker's pipe holds (65536 on Linux)
    Ops,          \* the slow calls the coroutines of this instance make
    MaxSteps,     \* bound: slow calls and yields per coroutine
    NULL

Workers == 0 .. WorkerCount - 1

Callers == Creators \cup {Manager}   \* the threads that run crt_create()

\* The slow calls: what do_task() does at once, and what it starts in the
\* worker's event loop. A connect with a timeout may do either.
SyncOps == {"disk_open", "disk_read", "disk_write", "tcp_blocked_connect",
            "tcp_timeout_connect", "bg_run"}

AsyncOps == {"sock_read", "sock_write", "tcp_timeout_connect", "msleep",
             "tcp_accept"}

AllOps == SyncOps \cup AsyncOps

\* Mutant: a handler that forgets to store the done action.
DoneActionForgotten == [op \in AllOps |-> op]

\* The action a task carries once its call has been served.
DoneAction ==
    [disk_open           |-> "disk_open_done",
     disk_read           |-> "disk_read_done",
     disk_write          |-> "disk_write_done",
     tcp_blocked_connect |-> "tcp_blocked_connect_done",
     tcp_timeout_connect |-> "tcp_timeout_connect_done",
     bg_run              |-> "bg_run_done",
     sock_read           |-> "sock_done",
     sock_write          |-> "sock_done",
     msleep              |-> "msleep_done",
     tcp_accept          |-> "tcp_accept_done"]

\* The actions on which new_manager() switches back into a coroutine.
Resumable == {"sched_yield", "disk_open_done", "disk_read_done",
              "disk_write_done", "sock_done", "tcp_blocked_connect_done",
              "tcp_timeout_connect_done", "msleep_done", "bg_run_done",
              "tcp_accept_done", "sem_activation"}

ActionT == AllOps \cup Resumable \cup {"new_coroutine", "finished_coroutine"}

\* Where a task structure is: who may touch it next.
Place == {"unborn",    \* not allocated yet
          "creating",  \* in a crt_create() call, not yet pushed
          "todo",      \* in todo_queue
          "manager",   \* shifted by the manager, not yet switched to
          "running",   \* its coroutine executes on the manager thread
          "doing",     \* in doing_queue
          "worker",    \* in a background worker's hands
          "loop",      \* its watchers are active in a worker's event loop
          "waiting",   \* stored in a crt_sem_t (module AcoroSem)
          "exiting",   \* crt_exit() was called, not yet freed
          "leaked",    \* its routine returned without crt_exit()
          "freed"}

ASSUME ConstantsAssumption ==
    /\ IsFiniteSet(Coros)
    /\ IsFiniteSet(Creators)
    /\ Manager \notin Creators
    /\ WorkerCount \in Nat \ {0}
    /\ PipeCap \in Nat \ {0}
    /\ Ops \subseteq AllOps
    /\ MaxSteps \in Nat
    /\ NULL \notin Coros
    /\ NULL \notin Workers

VARIABLES
    action,   \* task_ptr->action
    place,    \* auxiliary: where each task structure is
    owed,     \* auxiliary: calls handed over by the coroutine, not yet served
    steps,    \* auxiliary: slow calls and yields made, for the bound
    stacks,   \* the tasks whose stack is allocated
    saved,    \* the tasks whose task_context holds a suspended coroutine
    todo,     \* coroutine_env.todo_queue
    doing,    \* coroutine_env.doing_queue
    sem,      \* coroutine_env.manager_sem[0]
    bytes,    \* the bytes in the pipes, each named by the ticket that sent it
    bgid,     \* coroutine_env.info.bg_worker_id, the next ticket
    cid,      \* coroutine_env.info.cid
    ran,      \* coroutine_env.info.ran
    mpc,      \* where the manager thread is
    mtask,    \* task_ptr of new_manager()
    curr,     \* coroutine_env.curr_task_ptr[0]
    cpc,      \* where each caller is in crt_create()
    cnew,     \* the task each caller is creating
    wpc,      \* where each background worker is
    wtask,    \* the task each background worker is handling
    loop      \* the worker in whose loop the task's watchers are active

taskVars    == <<action, place, owed, steps, stacks, saved>>
managerVars == <<mpc, mtask, curr, ran>>
createVars  == <<cpc, cnew, cid>>
workerVars  == <<wpc, wtask, loop>>
pipeVars    == <<bytes, bgid>>
vars == <<taskVars, managerVars, createVars, workerVars, pipeVars,
          todo, doing, sem>>

Init ==
    /\ action = [c \in Coros |-> "new_coroutine"]
    /\ place  = [c \in Coros |-> "unborn"]
    /\ owed   = [c \in Coros |-> 0]
    /\ steps  = [c \in Coros |-> 0]
    /\ stacks = {}
    /\ saved  = {}
    /\ todo   = <<>>
    /\ doing  = <<>>
    /\ sem    = 0
    /\ bytes  = {}
    /\ bgid   = 0
    /\ cid    = 0
    /\ ran    = 0
    /\ mpc    = "sem_wait"
    /\ mtask  = NULL
    /\ curr   = NULL
    /\ cpc    = [t \in Callers |-> "idle"]
    /\ cnew   = [t \in Callers |-> NULL]
    /\ wpc    = [w \in Workers |-> "poll"]
    /\ wtask  = [w \in Workers |-> NULL]
    /\ loop   = [c \in Coros |-> NULL]

\* A task structure changes hands.
Move(c, p) == place' = [place EXCEPT ![c] = p]

-----------------------------------------------------------------------------
(* crt_create(), by an application thread or by a running coroutine.       *)

CreateAlloc(t, c) ==
    /\ cpc[t] = "idle"
    /\ t = Manager => mpc = "coro"
    /\ place[c] = "unborn"
    /\ cid' = cid + 1
    /\ action' = [action EXCEPT ![c] = "new_coroutine"]
    /\ Move(c, "creating")
    /\ cnew' = [cnew EXCEPT ![t] = c]
    /\ cpc' = [cpc EXCEPT ![t] = "push"]
    /\ UNCHANGED <<owed, steps, stacks, saved, managerVars, workerVars,
                   pipeVars, todo, doing, sem>>

CreatePush(t) ==
    /\ cpc[t] = "push"
    /\ todo' = Append(todo, cnew[t])
    /\ Move(cnew[t], "todo")
    /\ cnew' = [cnew EXCEPT ![t] = NULL]
    /\ cpc' = [cpc EXCEPT ![t] = "post"]
    /\ UNCHANGED <<action, owed, steps, stacks, saved, managerVars, cid,
                   workerVars, pipeVars, doing, sem>>

CreatePost(t) ==
    /\ cpc[t] = "post"
    /\ sem' = sem + 1
    /\ cpc' = [cpc EXCEPT ![t] = "idle"]
    /\ UNCHANGED <<taskVars, managerVars, cnew, cid, workerVars, pipeVars,
                   todo, doing>>

-----------------------------------------------------------------------------
(* The manager thread: new_manager().                                      *)

ManagerGoto(from, to) == mpc = from /\ mpc' = to

\* Mutant: the manager does not wait.
SemWaitUnchecked ==
    /\ ManagerGoto("sem_wait", "shift")
    /\ sem' = sem - 1
    /\ UNCHANGED <<taskVars, mtask, curr, ran, createVars, workerVars,
                   pipeVars, todo, doing>>

SemWait ==
    /\ ManagerGoto("sem_wait", "shift")
    /\ sem > 0
    /\ sem' = sem - 1
    /\ UNCHANGED <<taskVars, mtask, curr, ran, createVars, workerVars,
                   pipeVars, todo, doing>>

ShiftTodo ==
    /\ ManagerGoto("shift", "switch")
    /\ todo # <<>>
    /\ mtask' = Head(todo)
    /\ todo' = Tail(todo)
    /\ Move(Head(todo), "manager")
    /\ UNCHANGED <<action, owed, steps, stacks, saved, curr, ran, createVars,
                   workerVars, pipeVars, doing, sem>>

\* case act_new_coroutine: allocate the stack and enter the routine.
Launch ==
    /\ ManagerGoto("switch", "coro")
    /\ action[mtask] = "new_coroutine"
    /\ stacks' = stacks \cup {mtask}
    /\ curr' = mtask
    /\ Move(mtask, "running")
    /\ UNCHANGED <<action, owed, steps, saved, mtask, ran, createVars,
                   workerVars, pipeVars, todo, doing, sem>>

\* case act_sched_yield and the done actions: swapcontext() into the task.
Resume ==
    /\ ManagerGoto("switch", "coro")
    /\ action[mtask] \in Resumable
    /\ curr' = mtask
    /\ saved' = saved \ {mtask}
    /\ Move(mtask, "running")
    /\ UNCHANGED <<action, owed, steps, stacks, mtask, ran, createVars,
                   workerVars, pipeVars, todo, doing, sem>>

\* case act_finished_coroutine, reached by goto loop. The code frees what
\* curr_task_ptr points to, not task_ptr.
Finish ==
    /\ ManagerGoto("switch", "sem_wait")
    /\ action[mtask] = "finished_coroutine"
    /\ stacks' = stacks \ {curr}
    /\ Move(curr, "freed")
    /\ ran' = ran + 1
    /\ UNCHANGED <<action, owed, steps, saved, mtask, curr, createVars,
                   workerVars, pipeVars, todo, doing, sem>>

\* Mutant: no goto loop for a finished coroutine.
BackForgetful ==
    /\ ManagerGoto("back", "sem_wait")
    /\ UNCHANGED <<taskVars, mtask, curr, ran, createVars, workerVars,
                   pipeVars, todo, doing, sem>>

\* swapcontext() has returned in new_manager(): read the task's action.
Back ==
    /\ mpc = "back"
    /\ mpc' = IF action[mtask] = "finished_coroutine" THEN "switch"
                                                       ELSE "sem_wait"
    /\ UNCHANGED <<taskVars, mtask, curr, ran, createVars, workerVars,
                   pipeVars, todo, doing, sem>>

-----------------------------------------------------------------------------
(* The running coroutine, on the manager thread.                           *)

Running(from, to) == ManagerGoto(from, to) /\ cpc[Manager] = "idle"

\* crt_disk_*, crt_tcp_*, crt_msleep, crt_bg_run: fill the task in and push
\* it to doing_queue.
Submit(op) ==
    /\ Running("coro", "notify")
    /\ steps[curr] < MaxSteps
    /\ steps' = [steps EXCEPT ![curr] = @ + 1]
    /\ action' = [action EXCEPT ![curr] = op]
    /\ owed' = [owed EXCEPT ![curr] = @ + 1]
    /\ doing' = Append(doing, curr)
    /\ Move(curr, "doing")
    /\ UNCHANGED <<stacks, saved, mtask, curr, ran, createVars, workerVars,
                   pipeVars, todo, sem>>

\* The pipe a ticket goes to, and the bytes waiting in a worker's pipe.
PipeOf(n) == n % WorkerCount

Pipe(w) == {n \in bytes : PipeOf(n) = w}

\* Mutant: every worker is notified of every call.
NotifyEveryWorker ==
    /\ Running("notify", "swap")
    /\ bytes' = bytes \cup bgid .. bgid + WorkerCount - 1
    /\ bgid' = bgid + WorkerCount
    /\ UNCHANGED <<taskVars, mtask, curr, ran, createVars, workerVars, todo,
                   doing, sem>>

\* The rest of coroutine_notify_background_worker(): take a ticket, write
\* one byte to that worker's pipe.
NotifyWorker ==
    /\ Running("notify", "swap")
    /\ Cardinality(Pipe(PipeOf(bgid))) < PipeCap
    /\ bytes' = bytes \cup {bgid}
    /\ bgid' = bgid + 1
    /\ UNCHANGED <<taskVars, mtask, curr, ran, createVars, workerVars, todo,
                   doing, sem>>

\* crt_sched_yield(): queue the task, post, switch.
YieldPush ==
    /\ Running("coro", "yield_post")
    /\ steps[curr] < MaxSteps
    /\ steps' = [steps EXCEPT ![curr] = @ + 1]
    /\ action' = [action EXCEPT ![curr] = "sched_yield"]
    /\ todo' = Append(todo, curr)
    /\ Move(curr, "todo")
    /\ UNCHANGED <<owed, stacks, saved, mtask, curr, ran, createVars,
                   workerVars, pipeVars, doing, sem>>

\* Mutant: the yielding coroutine does not post.
YieldPostForgotten ==
    /\ Running("yield_post", "swap")
    /\ UNCHANGED <<taskVars, mtask, curr, ran, createVars, workerVars,
                   pipeVars, todo, doing, sem>>

YieldPost ==
    /\ Running("yield_post", "swap")
    /\ sem' = sem + 1
    /\ UNCHANGED <<taskVars, mtask, curr, ran, createVars, workerVars,
                   pipeVars, todo, doing>>

\* Mutant: setcontext(manager_context).
SwapOutUnsaved ==
    /\ Running("swap", "back")
    /\ UNCHANGED <<taskVars, mtask, curr, ran, createVars, workerVars,
                   pipeVars, todo, doing, sem>>

\* swapcontext(task_context, manager_context)
SwapOut ==
    /\ Running("swap", "back")
    /\ saved' = saved \cup {curr}
    /\ UNCHANGED <<action, place, owed, steps, stacks, mtask, curr, ran,
                   createVars, workerVars, pipeVars, todo, doing, sem>>

\* crt_exit(): mark the task and return into manager_context.
Exit ==
    /\ Running("coro", "back")
    /\ action' = [action EXCEPT ![curr] = "finished_coroutine"]
    /\ Move(curr, "exiting")
    /\ UNCHANGED <<owed, steps, stacks, saved, mtask, curr, ran, createVars,
                   workerVars, pipeVars, todo, doing, sem>>

\* The routine returns without crt_exit(), as in example/coro_in_coro.c.
Return ==
    /\ Running("coro", "back")
    /\ Move(curr, "leaked")
    /\ UNCHANGED <<action, owed, steps, stacks, saved, mtask, curr, ran,
                   createVars, workerVars, pipeVars, todo, doing, sem>>

-----------------------------------------------------------------------------
(* The background workers: new_event_handler(), do_task(), the callbacks.  *)

WorkerGoto(w, from, to) == wpc[w] = from /\ wpc' = [wpc EXCEPT ![w] = to]

\* Mutant: one event reads every byte there is.
ReadPipeDrain(w) ==
    /\ WorkerGoto(w, "poll", "shift")
    /\ Pipe(w) # {}
    /\ bytes' = bytes \ Pipe(w)
    /\ UNCHANGED <<taskVars, managerVars, createVars, wtask, loop, bgid, todo,
                   doing, sem>>

ReadPipe(w) ==
    /\ WorkerGoto(w, "poll", "shift")
    /\ \E n \in Pipe(w) :
         /\ \A m \in Pipe(w) : n <= m
         /\ bytes' = bytes \ {n}
    /\ UNCHANGED <<taskVars, managerVars, createVars, wtask, loop, bgid, todo,
                   doing, sem>>

\* Mutant: the newest call first.
ShiftDoingLast(w) ==
    /\ WorkerGoto(w, "shift", "do_task")
    /\ doing # <<>>
    /\ wtask' = [wtask EXCEPT ![w] = doing[Len(doing)]]
    /\ doing' = SubSeq(doing, 1, Len(doing) - 1)
    /\ Move(doing[Len(doing)], "worker")
    /\ UNCHANGED <<action, owed, steps, stacks, saved, managerVars,
                   createVars, loop, pipeVars, todo, sem>>

ShiftDoing(w) ==
    /\ WorkerGoto(w, "shift", "do_task")
    /\ doing # <<>>
    /\ wtask' = [wtask EXCEPT ![w] = Head(doing)]
    /\ doing' = Tail(doing)
    /\ Move(Head(doing), "worker")
    /\ UNCHANGED <<action, owed, steps, stacks, saved, managerVars,
                   createVars, loop, pipeVars, todo, sem>>

\* The call has been served: result and done action are in the task.
Serve(c) ==
    /\ action' = [action EXCEPT ![c] = DoneAction[@]]
    /\ owed' = [owed EXCEPT ![c] = @ - 1]

DoSync(w) ==
    /\ WorkerGoto(w, "do_task", "push")
    /\ action[wtask[w]] \in SyncOps
    /\ Serve(wtask[w])
    /\ UNCHANGED <<place, steps, stacks, saved, managerVars, createVars,
                   wtask, loop, pipeVars, todo, doing, sem>>

\* Mutant: do_task() returns 0 for a call it has only started.
DoAsyncNotifies(w) ==
    /\ WorkerGoto(w, "do_task", "push")
    /\ action[wtask[w]] \in AsyncOps
    /\ loop' = [loop EXCEPT ![wtask[w]] = w]
    /\ UNCHANGED <<taskVars, managerVars, createVars, wtask, pipeVars, todo,
                   doing, sem>>

DoAsync(w) ==
    /\ WorkerGoto(w, "do_task", "poll")
    /\ action[wtask[w]] \in AsyncOps
    /\ loop' = [loop EXCEPT ![wtask[w]] = w]
    /\ wtask' = [wtask EXCEPT ![w] = NULL]
    /\ Move(wtask[w], "loop")
    /\ UNCHANGED <<action, owed, steps, stacks, saved, managerVars,
                   createVars, pipeVars, todo, doing, sem>>

\* Mutant: the callback leaves a watcher active.
CallbackUnstopped(w, c) ==
    /\ WorkerGoto(w, "poll", "push")
    /\ loop[c] = w
    /\ wtask' = [wtask EXCEPT ![w] = c]
    /\ Serve(c)
    /\ Move(c, "worker")
    /\ UNCHANGED <<steps, stacks, saved, managerVars, createVars, loop,
                   pipeVars, todo, doing, sem>>

\* The last callback of an operation started in the loop: it stops the
\* task's watchers and stores the result.
Callback(w, c) ==
    /\ WorkerGoto(w, "poll", "push")
    /\ loop[c] = w
    /\ loop' = [loop EXCEPT ![c] = NULL]
    /\ wtask' = [wtask EXCEPT ![w] = c]
    /\ Serve(c)
    /\ Move(c, "worker")
    /\ UNCHANGED <<steps, stacks, saved, managerVars, createVars, pipeVars,
                   todo, doing, sem>>

\* Mutant: the served task jumps the queue.
PushTodoFirst(w) ==
    /\ WorkerGoto(w, "push", "post")
    /\ todo' = <<wtask[w]>> \o todo
    /\ Move(wtask[w], "todo")
    /\ wtask' = [wtask EXCEPT ![w] = NULL]
    /\ UNCHANGED <<action, owed, steps, stacks, saved, managerVars,
                   createVars, loop, pipeVars, doing, sem>>

\* coroutine_notify_manager()
PushTodo(w) ==
    /\ WorkerGoto(w, "push", "post")
    /\ todo' = Append(todo, wtask[w])
    /\ Move(wtask[w], "todo")
    /\ wtask' = [wtask EXCEPT ![w] = NULL]
    /\ UNCHANGED <<action, owed, steps, stacks, saved, managerVars,
                   createVars, loop, pipeVars, doing, sem>>

\* Mutant: the worker does not post.
PostManagerForgotten(w) ==
    /\ WorkerGoto(w, "post", "poll")
    /\ UNCHANGED <<taskVars, managerVars, createVars, wtask, loop, pipeVars,
                   todo, doing, sem>>

PostManager(w) ==
    /\ WorkerGoto(w, "post", "poll")
    /\ sem' = sem + 1
    /\ UNCHANGED <<taskVars, managerVars, createVars, wtask, loop, pipeVars,
                   todo, doing>>

-----------------------------------------------------------------------------

Create(t) == (\E c \in Coros : CreateAlloc(t, c)) \/ CreatePush(t) \/ CreatePost(t)

ManagerLoop == SemWait \/ ShiftTodo \/ Launch \/ Resume \/ Finish \/ Back

Coroutine ==
    \/ \E op \in Ops : Submit(op)
    \/ NotifyWorker \/ YieldPush \/ YieldPost \/ SwapOut \/ Exit \/ Return

Worker(w) ==
    \/ ReadPipe(w) \/ ShiftDoing(w) \/ DoSync(w) \/ DoAsync(w)
    \/ \E c \in Coros : Callback(w, c)
    \/ PushTodo(w) \/ PostManager(w)

Next ==
    \/ \E t \in Callers : Create(t)
    \/ ManagerLoop
    \/ Coroutine
    \/ \E w \in Workers : Worker(w)

Spec == Init /\ [][Next]_vars

\* Every thread keeps running. The application is not obliged to create
\* coroutines, but a coroutine that runs goes on until it gives the manager
\* thread back, and a watcher that is active is eventually called (the peer
\* answers or a timer expires).
Fairness ==
    /\ \A t \in Callers : WF_vars(CreatePush(t) \/ CreatePost(t))
    /\ WF_vars(ManagerLoop)
    /\ WF_vars(Coroutine)
    /\ \A w \in Workers : WF_vars(Worker(w))

FairSpec == Spec /\ Fairness

-----------------------------------------------------------------------------
(* Properties *)

ManagerPcs == {"sem_wait", "shift", "switch", "coro", "notify", "yield_post",
               "swap", "back", "sem_post"}

WorkerPcs == {"poll", "shift", "do_task", "push", "post"}

\* Every variable has its type; the pipes hold only tickets already taken.
TypeOK ==
    /\ action \in [Coros -> ActionT]
    /\ place \in [Coros -> Place]
    /\ owed \in [Coros -> Int]
    /\ steps \in [Coros -> 0 .. MaxSteps]
    /\ stacks \subseteq Coros
    /\ saved \subseteq Coros
    /\ todo \in Seq(Coros)
    /\ doing \in Seq(Coros)
    /\ sem \in Nat
    /\ bgid \in Nat
    /\ bytes \subseteq 0 .. bgid - 1
    /\ cid \in Nat
    /\ ran \in Nat
    /\ mpc \in ManagerPcs
    /\ mtask \in Coros \cup {NULL}
    /\ curr \in Coros \cup {NULL}
    /\ cpc \in [Callers -> {"idle", "push", "post"}]
    /\ cnew \in [Callers -> Coros \cup {NULL}]
    /\ wpc \in [Workers -> WorkerPcs]
    /\ wtask \in [Workers -> Coros \cup {NULL}]
    /\ loop \in [Coros -> Workers \cup {NULL}]

Queued ==
    /\ IsInjective(todo)
    /\ IsInjective(doing)
    /\ \A c \in Coros :
         /\ place[c] = "todo" <=> c \in Range(todo)
         /\ place[c] = "doing" <=> c \in Range(doing)

Created ==
    /\ \A c \in Coros : place[c] = "creating" <=> \E t \in Callers : cnew[t] = c
    /\ \A t, u \in Callers : cnew[t] = cnew[u] /\ cnew[t] # NULL => t = u

Handled ==
    /\ \A c \in Coros : place[c] = "worker" <=> \E w \in Workers : wtask[w] = c
    /\ \A v, w \in Workers : wtask[v] = wtask[w] /\ wtask[v] # NULL => v = w

Active ==
    \A c \in Coros :
        /\ place[c] = "loop" <=> loop[c] # NULL
        /\ place[c] = "running" <=> mpc \in {"coro", "sem_post"} /\ curr = c

\* Both queues link a task through the same LINK_NEXT_PTR and no lock
\* protects its other fields, so a task must never be reachable by two
\* threads: it is in at most one queue, once, and no worker, event loop,
\* crt_create() call or running coroutine holds a task that is anywhere else.
SingleOwner == Queued /\ Created /\ Handled /\ Active

\* The threads that are at a given point.
At(pcs, p) == {x \in DOMAIN pcs : pcs[x] = p}

\* A worker takes whatever task is first, not the one its byte was written
\* for, and a semaphore unit is not tied to a task either. Yet the units in
\* manager_sem and the bytes in the pipes always cover the queues exactly,
\* counting the posts, writes and shifts that threads are in the middle of.
TokensMatch ==
    /\ Len(todo) = sem + Cardinality(At(cpc, "post"))
                       + Cardinality(At(wpc, "post"))
                       + (IF mpc \in {"yield_post", "sem_post", "shift"}
                            THEN 1 ELSE 0)
    /\ Len(doing) = Cardinality(bytes)
                       + Cardinality(At(wpc, "shift"))
                       + (IF mpc = "notify" THEN 1 ELSE 0)

\* The assertions on a shifted task (acoro.c:293, :1063), which the list macro
\* would already have crashed on, and the abort()s for an unexpected action
\* (:366, :1039) are never reached.
NoAbort ==
    /\ mpc = "shift" => todo # <<>>
    /\ mpc = "switch" => action[mtask] \in
                           Resumable \cup {"new_coroutine", "finished_coroutine"}
    /\ \A w \in Workers :
         /\ wpc[w] = "shift" => doing # <<>>
         /\ wpc[w] = "do_task" => action[wtask[w]] \in AllOps

\* The task is handed over before swapcontext() saves the coroutine: a worker
\* may have served it and pushed it back by then. The manager never switches
\* to a coroutine whose context has not been saved, nor to one that ended.
ContextSaved ==
    mpc = "switch" /\ action[mtask] \in Resumable =>
        mtask \in saved /\ mtask \in stacks /\ place[mtask] = "manager"

\* A call is served exactly once, between the coroutine's hand-over and its
\* next turn: a coroutine that runs has its result, and no call is lost or
\* served again.
ServedOnce ==
    \A c \in Coros :
        owed[c] = IF \/ place[c] \in {"doing", "loop"}
                     \/ \E w \in Workers : wtask[w] = c /\ wpc[w] # "push"
                  THEN 1 ELSE 0

\* The write of the notification byte does not find the pipe full: the
\* assertion at acoro.c:1217.
PipeHasRoom ==
    mpc = "notify" => Cardinality(Pipe(PipeOf(bgid))) < PipeCap

\* When no thread has anything left to do, no task is stranded in a queue, a
\* loop or a worker: every coroutine created has ended, its task and stack
\* are freed and counted unless its routine returned without crt_exit().
Idle ==
    /\ mpc = "sem_wait" /\ sem = 0
    /\ \A t \in Callers : cpc[t] = "idle"
    /\ \A w \in Workers : wpc[w] = "poll" /\ Pipe(w) = {}
    /\ \A c \in Coros : loop[c] = NULL

IdleMeansDone ==
    Idle =>
        /\ \A c \in Coros : place[c] \in {"unborn", "freed", "leaked"}
        /\ stacks = {c \in Coros : place[c] = "leaked"}
        /\ cid = ran + Cardinality(stacks)

\* What the core promises the application, as module CoroLife states it:
\* coroutines run one at a time, in the order in which they became ready.
StateOf ==
    [unborn |-> "unborn", creating |-> "unborn",
     todo |-> "ready", manager |-> "ready", running |-> "running",
     doing |-> "blocked", worker |-> "blocked", loop |-> "blocked",
     waiting |-> "blocked",
     exiting |-> "gone", leaked |-> "gone", freed |-> "gone"]

ReadyQueue ==
    IF mpc = "switch" /\ place[mtask] = "manager" THEN <<mtask>> \o todo
                                                  ELSE todo

Life == INSTANCE CoroLife WITH st <- [c \in Coros |-> StateOf[place[c]]],
                               rq <- ReadyQueue

ImplementsLife == Life!Spec

\* A task as module CallService sees it.
CallState(c) ==
    CASE owed[c] = 1 /\ loop[c] # NULL -> "loop"
      [] owed[c] = 1 /\ loop[c] = NULL -> "doing"
      [] OTHER -> IF /\ action[c] \in Range(DoneAction)
                     /\ place[c] \in {"worker", "todo", "manager"}
                  THEN "done" ELSE "coro"

Calls == INSTANCE CallService
    WITH Tasks <- Coros,
         state <- [c \in Coros |-> CallState(c)],
         call  <- [c \in Coros |-> IF owed[c] = 1 THEN action[c] ELSE NULL],
         where <- loop

\* The core carries slow calls as module CallService says: what the handlers
\* of module SlowCalls rely on.
CarriesCalls == Calls!Spec

\* Every coroutine that is created eventually ends.
EveryCoroutineEnds ==
    \A c \in Coros :
        place[c] = "creating" ~> place[c] \in {"freed", "leaked"}

\* Every slow call returns to the coroutine that made it.
EveryCallReturns ==
    \A c \in Coros : place[c] = "doing" ~> place[c] = "running"

=============================================================================

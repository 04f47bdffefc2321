---------------------------- MODULE EnvLifecycle ----------------------------
(***************************************************************************)
(* init_coroutine_env() and destroy_coroutine_env() around the core of     *)
(* module Acoro: the queues, pipes, event loops and threads it runs on are *)
(* made and unmade, and the next environment starts from what was left.    *)
(*                                                                         *)
(* The application's main thread makes both calls. Threads end by deferred *)
(* pthread_cancel(): a cancelled thread runs on to its next cancellation   *)
(* point (sem_wait(), write(), epoll_wait(), read() and whatever a         *)
(* coroutine or background routine calls) and dies there.                  *)
(***************************************************************************)
EXTENDS Acoro

CONSTANTS
    MaxEnvs,        \* bound: calls of init_coroutine_env()
    WaitsForCalls   \* whether the application waits for its coroutines' last
                    \* calls before it calls destroy_coroutine_env()

ASSUME EnvAssumption ==
    /\ MaxEnvs \in Nat
    /\ WaitsForCalls \in BOOLEAN
    /\ Manager \notin Workers

VARIABLES
    epc,        \* where the main thread is in the two calls
    nth,        \* the worker its loop is at
    envs,       \* auxiliary: environments made, for the bound
    queues,     \* the task queues that are allocated
    threads,    \* the library's threads that exist
    cancelled,  \* those with a pending pthread_cancel()
    pipes,      \* the workers whose two pipe ends are open
    loops       \* the workers whose event loop exists

envVars == <<epc, nth, envs, queues, threads, cancelled, pipes, loops>>

EnvInit ==
    /\ Init
    /\ epc = "down"
    /\ nth = 0
    /\ envs = 0
    /\ queues = {}
    /\ threads = {}
    /\ cancelled = {}
    /\ pipes = {}
    /\ loops = {}

MainGoto(from, to) == epc = from /\ epc' = to

-----------------------------------------------------------------------------
(* init_coroutine_env() *)

\* memset(), the queues, the arrays, the semaphore and the manager thread. A
\* coroutine of the last environment that has not ended is forgotten, not
\* freed; a crt_create() under way in another thread goes on.
InitManager ==
    /\ MainGoto("down", "init")
    /\ envs < MaxEnvs
    /\ envs' = envs + 1
    /\ queues' = {"todo", "doing"}
    /\ threads' = threads \cup {Manager}
    /\ nth' = 0
    /\ todo' = <<>> /\ doing' = <<>>
    /\ sem' = 0 /\ bgid' = 0 /\ cid' = 0 /\ ran' = 0
    /\ curr' = NULL /\ mtask' = NULL
    /\ mpc' = "sem_wait"
    /\ place' = [c \in Coros |-> IF place[c] \in {"unborn", "creating", "freed"}
                                    THEN place[c] ELSE "leaked"]
    /\ UNCHANGED <<action, owed, steps, stacks, saved, cpc, cnew, workerVars,
                   bytes, cancelled, pipes, loops>>

\* One turn of the worker loop: the pipe, then the thread.
InitWorker ==
    /\ epc = "init"
    /\ pipes' = pipes \cup {nth}
    /\ threads' = threads \cup {nth}
    /\ wpc' = [wpc EXCEPT ![nth] = "poll"]
    /\ wtask' = [wtask EXCEPT ![nth] = NULL]
    /\ nth' = nth + 1
    /\ epc' = IF nth + 1 = WorkerCount THEN "up" ELSE "init"
    /\ UNCHANGED <<taskVars, managerVars, createVars, loop, pipeVars, todo,
                   doing, sem, envs, queues, cancelled, loops>>

\* Mutant: no watcher on the pipe, so that ev_run() returns at once.
WorkerStartUnwatched(w) ==
    /\ w \in threads
    /\ w \notin loops
    /\ loops' = loops \cup {w}
    /\ threads' = threads \ {w}
    /\ UNCHANGED <<vars, epc, nth, envs, queues, cancelled, pipes>>

\* new_background_worker(), up to ev_run(). There is no cancellation point
\* on the way.
WorkerStart(w) ==
    /\ w \in threads
    /\ w \notin loops
    /\ loops' = loops \cup {w}
    /\ UNCHANGED <<vars, epc, nth, envs, queues, threads, cancelled, pipes>>

-----------------------------------------------------------------------------
(* destroy_coroutine_env() *)

\* The application has waited for its coroutines' last calls: each has ended,
\* or all that it still has to do is to return.
LastCallMade(c) ==
    \/ place[c] \in {"unborn", "exiting", "leaked", "freed"}
    \/ place[c] = "running" /\ steps[c] = MaxSteps

Quiet ==
    /\ \A t \in Callers : cpc[t] = "idle"
    /\ \A c \in Coros : LastCallMade(c)

\* list_destroy(): free the queued tasks (not their stacks), then the queue.
FreeTasks(q) ==
    place' = [c \in Coros |-> IF c \in Range(q) THEN "freed" ELSE place[c]]

\* The code does not check that there is nothing left to do: an application
\* that does not see to it has its threads run on into freed queues, and the
\* model is meant up to there.
DestroyTodo ==
    /\ MainGoto("up", "d_doing")
    /\ WaitsForCalls => Quiet
    /\ FreeTasks(todo)
    /\ todo' = <<>>
    /\ queues' = queues \ {"todo"}
    /\ UNCHANGED <<action, owed, steps, stacks, saved, managerVars, createVars,
                   workerVars, pipeVars, doing, sem, nth, envs, threads,
                   cancelled, pipes, loops>>

DestroyDoing ==
    /\ MainGoto("d_doing", "d_cancel")
    /\ FreeTasks(doing)
    /\ doing' = <<>>
    /\ queues' = queues \ {"doing"}
    /\ UNCHANGED <<action, owed, steps, stacks, saved, managerVars, createVars,
                   workerVars, pipeVars, todo, sem, nth, envs, threads,
                   cancelled, pipes, loops>>

\* pthread_cancel(), and sem_destroy(), which leaves the semaphore as it is.
CancelManager ==
    /\ MainGoto("d_cancel", "d_join")
    /\ cancelled' = cancelled \cup {Manager}
    /\ UNCHANGED <<vars, nth, envs, queues, threads, pipes, loops>>

JoinManager ==
    /\ MainGoto("d_join", "d_worker")
    /\ Manager \notin threads
    /\ nth' = 0
    /\ UNCHANGED <<vars, envs, queues, threads, cancelled, pipes, loops>>

\* Mutant: the worker is not cancelled.
WorkerNotCancelled ==
    /\ MainGoto("d_worker", "d_join_w")
    /\ UNCHANGED <<vars, nth, envs, queues, threads, cancelled, pipes, loops>>

CancelWorker ==
    /\ MainGoto("d_worker", "d_join_w")
    /\ cancelled' = cancelled \cup {nth}
    /\ UNCHANGED <<vars, nth, envs, queues, threads, pipes, loops>>

\* Mutant: the worker is cancelled and not joined.
WorkerNotJoined ==
    /\ epc = "d_join_w"
    /\ nth' = nth + 1
    /\ epc' = IF nth + 1 = WorkerCount THEN "d_close" ELSE "d_worker"
    /\ UNCHANGED <<vars, envs, queues, threads, cancelled, pipes, loops>>

JoinWorker ==
    /\ epc = "d_join_w"
    /\ nth \notin threads
    /\ nth' = nth + 1
    /\ epc' = IF nth + 1 = WorkerCount THEN "d_close" ELSE "d_worker"
    /\ UNCHANGED <<vars, envs, queues, threads, cancelled, pipes, loops>>

ClosePipes ==
    /\ MainGoto("d_close", "d_loops")
    /\ pipes' = {}
    /\ bytes' = {}
    /\ UNCHANGED <<taskVars, managerVars, createVars, workerVars, bgid, todo,
                   doing, sem, nth, envs, queues, threads, cancelled, loops>>

\* ev_loop_destroy() of every loop: a watcher that was active in it never
\* calls back.
DestroyLoops ==
    /\ MainGoto("d_loops", "down")
    /\ loops = Workers
    /\ loops' = {}
    /\ loop' = [c \in Coros |-> NULL]
    /\ cancelled' = {}
    /\ UNCHANGED <<taskVars, managerVars, createVars, wpc, wtask, pipeVars,
                   todo, doing, sem, nth, envs, queues, threads, pipes>>

Main ==
    \/ InitManager \/ InitWorker
    \/ DestroyTodo \/ DestroyDoing \/ CancelManager \/ JoinManager
    \/ CancelWorker \/ JoinWorker \/ ClosePipes \/ DestroyLoops

-----------------------------------------------------------------------------
(* The threads of module Acoro, as long as they exist.                     *)

\* Where a cancelled thread can die, and where it cannot pass alive.
AtPoint(t) ==
    IF t = Manager THEN mpc \in {"sem_wait", "coro", "notify"} /\ cpc[t] = "idle"
                   ELSE t \in loops /\ wpc[t] \in {"poll", "do_task"}

MustDie(t) ==
    /\ t \in cancelled
    /\ IF t = Manager THEN mpc \in {"sem_wait", "notify"} ELSE wpc[t] = "poll"

Die(t) ==
    /\ t \in cancelled \cap threads
    /\ AtPoint(t)
    /\ threads' = threads \ {t}
    /\ UNCHANGED <<vars, epc, nth, envs, queues, cancelled, pipes, loops>>

\* What a thread does with a queue that has been freed is undefined: here it
\* does not get past it.
OnLiveQueues ==
    /\ todo' # todo => "todo" \in queues
    /\ doing' # doing => "doing" \in queues

EnvManager ==
    /\ Manager \in threads /\ ~MustDie(Manager)
    /\ ManagerLoop \/ Coroutine
    /\ OnLiveQueues
    /\ UNCHANGED envVars

EnvWorker(w) ==
    /\ w \in threads \cap loops /\ ~MustDie(w)
    /\ Worker(w)
    /\ OnLiveQueues
    /\ UNCHANGED envVars

\* No crt_create() starts without an environment.
EnvCreate(t) ==
    /\ epc = "up" \/ cpc[t] # "idle"
    /\ t = Manager => Manager \in threads
    /\ Create(t)
    /\ OnLiveQueues
    /\ UNCHANGED envVars

EnvNext ==
    \/ Main
    \/ \E w \in Workers : WorkerStart(w) \/ EnvWorker(w)
    \/ EnvManager
    \/ \E t \in Callers : EnvCreate(t)
    \/ \E t \in Workers \cup {Manager} : Die(t)

EnvSpec == EnvInit /\ [][EnvNext]_<<vars, envVars>>

\* As in module Acoro, and the main thread finishes the call it is in.
EnvFairness ==
    LET v == <<vars, envVars>> IN
    /\ WF_v(epc \notin {"down", "up"} /\ Main)
    /\ WF_v(EnvManager)
    /\ \A w \in Workers : WF_v(WorkerStart(w) \/ EnvWorker(w))
    /\ \A t \in Callers : WF_v(cpc[t] # "idle" /\ EnvCreate(t))
    /\ \A t \in Workers \cup {Manager} : WF_v(MustDie(t) /\ Die(t))

EnvFairSpec == EnvSpec /\ EnvFairness

-----------------------------------------------------------------------------
(* Properties *)

\* destroy_coroutine_env() frees the queues while the manager and the workers
\* still run (acoro.c:1282). If the application has waited for its
\* coroutines' last calls, no thread uses a queue any more: a post that is
\* still under way, or a token left over from an earlier hand-over, cannot
\* send the manager or a worker to a freed queue.
QueuesOutliveUsers ==
    /\ "todo" \notin queues =>
         /\ Manager \in threads => mpc # "shift" /\ sem = 0
         /\ \A w \in Workers \cap threads : wpc[w] # "push"
         /\ \A t \in Callers : cpc[t] = "idle"
    /\ "doing" \notin queues =>
         \A w \in Workers \cap threads : wpc[w] # "shift" /\ Pipe(w) = {}

\* A worker's pipe and event loop are in place for as long as the worker runs
\* in them; ev_loop_destroy() gets only loops that were made, even if the
\* environment is destroyed before its workers have run; and an environment
\* leaves no thread and no descriptor behind, which
\* test_destroy_coroutine_env() looks for with the lowest free descriptor.
CleanShutdown ==
    /\ \A w \in Workers \cap threads : w \in pipes
    /\ epc = "d_loops" => loops = Workers /\ threads = {}
    /\ epc = "down" => threads = {} /\ pipes = {} /\ loops = {} /\ queues = {}

\* destroy_coroutine_env() returns.
DestroyReturns == epc = "d_doing" ~> epc = "down"

\* In every environment, a coroutine that is created ends, or is cut off by
\* the cancellation of its manager thread.
CoroutinesEndInEnv ==
    \A c \in Coros :
        place[c] = "creating" ~> \/ place[c] \in {"freed", "leaked"}
                                 \/ Manager \notin threads

=============================================================================

------------------------------ MODULE AcoroSem ------------------------------
(***************************************************************************)
(* The coroutine semaphores of src/src/acoro.c among the threads of module *)
(* Acoro. crt_sem_post() and crt_sem_wait() run on the manager thread and  *)
(* take no lock, but the todo_queue and manager_sem they use are shared    *)
(* with the workers and with crt_create() in other threads. (Module CrtSem *)
(* has the semaphores alone, on the linked queue.)                         *)
(*                                                                         *)
(* The semaphores have been initialised to 0. The application keeps the    *)
(* rule of acoro.c:1574, one waiting coroutine per semaphore. A waiter     *)
(* that is posted again before it runs is queued again; whether the        *)
(* application does that is the constant OnePost. With OnePost = FALSE the *)
(* model is meant up to the first such post: from there on a sequence is   *)
(* no longer what the linked queue is, and module CrtSem has the links.    *)
(***************************************************************************)
EXTENDS Acoro

CONSTANTS
    Sems,      \* the crt_sem_t objects
    Flags,     \* the priorities they are posted with
    OnePost,   \* whether a waiter is posted only once before it runs
    MaxValue   \* bound: a semaphore's value

ASSUME SemAssumption ==
    /\ Flags \subseteq {"normal", "critical"}
    /\ OnePost \in BOOLEAN
    /\ MaxValue \in Nat \ {0}
    /\ NULL \notin Sems

VARIABLES
    value,    \* sem->value
    waiter,   \* sem->task_ptr
    waits,    \* the semaphore whose crt_sem_wait() loop a coroutine is in
    urgent    \* auxiliary: the last waiter posted critically, until it runs

semVars == <<value, waiter, waits, urgent>>

SemInit ==
    /\ Init
    /\ value  = [s \in Sems |-> 0]
    /\ waiter = [s \in Sems |-> NULL]
    /\ waits  = [c \in Coros |-> NULL]
    /\ urgent = NULL

\* One call of a coroutine, counted for the bound.
CountStep ==
    /\ steps[curr] < MaxSteps
    /\ steps' = [steps EXCEPT ![curr] = @ + 1]

-----------------------------------------------------------------------------
(* crt_sem_wait() *)

\* A coroutine is in the loop for s: it enters it, or it has come back from
\* the swapcontext() in it.
InLoop(s) ==
    \/ /\ waits[curr] = NULL
       /\ \A c \in Coros : waits[c] # s
       /\ CountStep
    \/ waits[curr] = s /\ UNCHANGED steps

Take(s) ==
    /\ Running("coro", "coro")
    /\ InLoop(s)
    /\ value[s] > 0
    /\ value' = [value EXCEPT ![s] = @ - 1]
    /\ waiter' = [waiter EXCEPT ![s] = NULL]
    /\ waits' = [waits EXCEPT ![curr] = NULL]
    /\ UNCHANGED <<action, place, owed, stacks, saved, mtask, curr, ran,
                   createVars, workerVars, pipeVars, todo, doing, sem, urgent>>

\* Mutant: the task yields as well.
BlockQueues(s) ==
    /\ Running("coro", "yield_post")
    /\ InLoop(s)
    /\ value[s] = 0
    /\ waiter' = [waiter EXCEPT ![s] = curr]
    /\ waits' = [waits EXCEPT ![curr] = s]
    /\ todo' = Append(todo, curr)
    /\ action' = [action EXCEPT ![curr] = "sched_yield"]
    /\ Move(curr, "waiting")
    /\ UNCHANGED <<owed, stacks, saved, mtask, curr, ran, createVars,
                   workerVars, pipeVars, doing, sem, value, urgent>>

\* The task is stored in the semaphore and in no queue; SwapOut follows.
Block(s) ==
    /\ Running("coro", "swap")
    /\ InLoop(s)
    /\ value[s] = 0
    /\ waiter' = [waiter EXCEPT ![s] = curr]
    /\ waits' = [waits EXCEPT ![curr] = s]
    /\ Move(curr, "waiting")
    /\ UNCHANGED <<action, owed, stacks, saved, mtask, curr, ran, createVars,
                   workerVars, pipeVars, todo, doing, sem, value, urgent>>

-----------------------------------------------------------------------------
(* crt_sem_post() and crt_sem_priority_post() *)

Posting(s) ==
    /\ waits[curr] = NULL
    /\ CountStep
    /\ value[s] < MaxValue
    /\ value' = [value EXCEPT ![s] = @ + 1]

PostFree(s) ==
    /\ Running("coro", "coro")
    /\ Posting(s)
    /\ waiter[s] = NULL
    /\ UNCHANGED <<action, place, owed, stacks, saved, mtask, curr, ran,
                   createVars, workerVars, pipeVars, todo, doing, sem, waiter,
                   waits, urgent>>

\* Mutant: a critical post puts the waiter behind the others.
PostWaiterLast(s, flag) ==
    /\ Running("coro", "sem_post")
    /\ Posting(s)
    /\ waiter[s] # NULL /\ (OnePost => value[s] = 0)
    /\ action' = [action EXCEPT ![waiter[s]] = "sem_activation"]
    /\ todo' = Append(todo, waiter[s])
    /\ urgent' = IF flag = "critical" THEN waiter[s] ELSE urgent
    /\ Move(waiter[s], "todo")
    /\ UNCHANGED <<owed, stacks, saved, mtask, curr, ran, createVars,
                   workerVars, pipeVars, doing, sem, waiter, waits>>

\* Push the waiter, or Unshift it; then sem_post() in SemPost.
PostWaiter(s, flag) ==
    /\ Running("coro", "sem_post")
    /\ Posting(s)
    /\ waiter[s] # NULL /\ (OnePost => value[s] = 0)
    /\ action' = [action EXCEPT ![waiter[s]] = "sem_activation"]
    /\ IF flag = "critical"
         THEN todo' = <<waiter[s]>> \o todo /\ urgent' = waiter[s]
         ELSE todo' = Append(todo, waiter[s]) /\ UNCHANGED urgent
    /\ Move(waiter[s], "todo")
    /\ UNCHANGED <<owed, stacks, saved, mtask, curr, ran, createVars,
                   workerVars, pipeVars, doing, sem, waiter, waits>>

\* Mutant: the poster does not post the manager.
SemPostForgotten ==
    /\ Running("sem_post", "coro")
    /\ UNCHANGED <<taskVars, mtask, curr, ran, createVars, workerVars,
                   pipeVars, todo, doing, sem, semVars>>

SemPost ==
    /\ Running("sem_post", "coro")
    /\ sem' = sem + 1
    /\ UNCHANGED <<taskVars, mtask, curr, ran, createVars, workerVars,
                   pipeVars, todo, doing, semVars>>

-----------------------------------------------------------------------------

Semaphore ==
    \/ \E s \in Sems :
         \/ Take(s) \/ Block(s) \/ PostFree(s)
         \/ \E flag \in Flags : PostWaiter(s, flag)
    \/ SemPost

\* The steps of module Acoro leave the semaphores alone; a coroutine in the
\* loop of crt_sem_wait() does nothing else.
Beside ==
    /\ urgent' = IF curr' = urgent /\ curr # urgent THEN NULL ELSE urgent
    /\ UNCHANGED <<value, waiter, waits>>

OutOfLoop == mpc = "coro" => waits[curr] = NULL

SemCreate(t) == Create(t) /\ (t = Manager => OutOfLoop) /\ Beside

SemManager == (ManagerLoop \/ (OutOfLoop /\ Coroutine)) /\ Beside

SemWorker(w) == Worker(w) /\ Beside

SemNext ==
    \/ Semaphore \/ SemManager
    \/ \E t \in Callers : SemCreate(t)
    \/ \E w \in Workers : SemWorker(w)

SemSpec == SemInit /\ [][SemNext]_<<vars, semVars>>

\* A background routine keeps its worker thread until it returns.
InRoutine(w) == wpc[w] = "do_task" /\ action[wtask[w]] = "bg_run"

\* As in module Acoro, but background routines need not return.
SemFairness ==
    LET v == <<vars, semVars>> IN
    /\ \A t \in Callers : WF_v(cpc[t] # "idle" /\ SemCreate(t))
    /\ WF_v(Semaphore \/ SemManager)
    /\ \A w \in Workers : WF_v(~InRoutine(w) /\ SemWorker(w))

SemFairSpec == SemSpec /\ SemFairness

-----------------------------------------------------------------------------
(* Properties *)

\* A waiting coroutine is on its way if and only if its semaphore has a unit:
\* then it is in todo_queue or in the manager's hands; otherwise it is stored
\* in the semaphore and in no queue (acoro.c:1571).
WaiterOnItsWay ==
    \A c \in Coros : waits[c] # NULL =>
        /\ waiter[waits[c]] = c
        /\ value[waits[c]] > 0 <=> place[c] \in {"todo", "manager", "running"}
        /\ place[c] = "todo" <=> c \in Range(todo)
        /\ place[c] = "waiting" => c \notin Range(todo) \cup Range(doing)

\* "the coroutine been posted will be ran immediately" (acoro.h:77): whatever
\* workers and other threads push meanwhile, the waiter that was last posted
\* critically is the next coroutine the manager switches to.
CriticalFirst ==
    urgent # NULL => ReadyQueue # <<>> /\ Head(ReadyQueue) = urgent

\* When no thread has anything left to do, every coroutine has ended or waits
\* for a semaphore that has no unit.
IdleMeansWaiting ==
    Idle => \A c \in Coros :
        \/ place[c] \in {"unborn", "freed", "leaked"}
        \/ place[c] = "waiting" /\ value[waits[c]] = 0

\* A waiter that has been posted gets its unit, however busy the workers keep
\* the manager, and even if their background routines never return.
PostedWaiterRuns ==
    \A c \in Coros :
        waits[c] # NULL /\ value[waits[c]] > 0 ~> waits[c] = NULL

\* Bytes go round the workers whether they are busy or not, but the tasks are
\* shared: the first call in doing_queue is taken if any worker that has a
\* byte is not in a background routine, even if the call's own byte went to a
\* worker whose routine never returns (acoro.c:906).
FirstCallTaken ==
    \A c \in Coros, w \in Workers :
        (doing # <<>> /\ Head(doing) = c /\ Pipe(w) # {} /\ ~InRoutine(w))
            ~> c \notin Range(doing)

=============================================================================

# A TLA+ development of async_coro

async_coro is a C library of stackful coroutines. All coroutines run on one
*manager* thread; a coroutine that makes a slow call (disk, socket, connect,
accept, sleep, background routine) is suspended and its call is carried out by
one of several *background worker* threads, each of which runs a libev loop.
The library is `src/src/acoro.c`, `src/src/acoro.h` and the linked lists of
`src/src/bsdqueue.h`. libev is vendored under `src/vendor/`.

This directory holds TLA+ models of the library, TLC runs that check them on
small instances, and TLAPS proofs for instances of every size. `PROJECT.json`
lists the components, the runs, the source lines each definition stands for,
the hazards and the theorems.

## Inventory

| Part | State it keeps | Operations | Interacts through |
|---|---|---|---|
| Manager thread (`new_manager`) | `curr_task_ptr`, `manager_context`, `info.ran` | wait on `manager_sem`, shift `todo_queue`, launch, resume, free | `todo_queue`, `manager_sem`, task structures |
| Coroutine creation (`crt_create`) | task structure, `info.cid` | allocate, push, post | `todo_queue`, from any thread |
| Running coroutine | its context and stack, `task->action`, arguments | yield, slow calls, `crt_exit`, return | `todo_queue`, `doing_queue`, the workers' pipes |
| Background workers | loop, watchers, pipe | read a byte, shift `doing_queue`, `do_task`, callbacks | pipe, `doing_queue`, `todo_queue`, `manager_sem` |
| Slow-call handlers and callbacks | `ec.have_io`, `ec.need_io`, watchers, `ret` | `do_*`, `ev_*` | libev, the kernel |
| Coroutine semaphores | `value`, `task_ptr` | init, wait, post, priority post, destroy | `todo_queue`, on the manager thread |
| Lists (`bsdqueue.h`) | `first`, `last`, `size`, one link field per item | push, unshift, insert, shift, pop, remove, cat, clear | a mutex per list |
| Listening sockets | the descriptor table, the kernel's queue of connections | `crt_tcp_prepare_sock`, `crt_set_nonblock`, `crt_tcp_accept`, `crt_sock_close` | several loops watch one socket |
| Environment | everything above | `init_coroutine_env`, `destroy_coroutine_env` | threads, cancellation |

What is hard in this code:

* A task is handed to the workers *before* the coroutine's context is saved by
  `swapcontext()`. A worker may have served the call by then.
* Each notification byte goes to one worker by round robin, but all workers
  take tasks from one shared queue: bytes and tasks are only matched by number.
* Push and post, shift and wait are separate steps of different threads.
* Both queues link a task through the same field.
* A timer and a descriptor can be ready in the same loop iteration; after the
  first callback the task may already be freed.
* Reads and writes move part of the data and continue later, time out in the
  middle, or fail.
* Pipes are finite, and results pass through an `int`.
* Semaphores keep a pointer to their waiter after posting it, and post it
  through a queue that workers and creators use at the same time.
* Readiness of a listening socket is stale when another loop was faster.
* A background routine that does not return takes its worker with it.
* An environment is destroyed under its own threads: the queues are freed
  first, the threads are cancelled and joined afterwards.
* Functions with several system calls fail halfway, with a socket open.

`PROJECT.json` lists these as hazards with the properties that would catch
them.

## Modules

| Module | What it is |
|---|---|
| `Acoro` | The core: creation, manager, hand-over, workers, way back |
| `CoroLife` | What the core promises: a sequential life of coroutines |
| `AcoroProof` | Inductive invariant and safety theorems about `Acoro`; it implements `CoroLife` and `CallService` |
| `SlowCalls` | Handlers, libev callbacks, results, timeouts, sockets |
| `SlowCallsProof` | Its safety theorems; it implements `CallService` |
| `Stailq` | The macros of `bsdqueue.h` as operators on a memory of pointers |
| `BsdQueue` | Any sequence of legal list operations on two lists |
| `Deque` | What the lists promise: sequences |
| `StailqProof` | Lemmas: what each macro does to the sequences its lists stand for |
| `BsdQueueProof` | Safety theorems about `BsdQueue`; it implements `Deque` |
| `CrtSem` | Coroutine semaphores on the linked `todo_queue` |
| `CrtSemProof` | Its safety theorems, on the lemmas of `StailqProof` |
| `CallService` | The contract of a slow call, implemented by `Acoro` (carrying) and by `SlowCalls` (serving) |
| `AcoroSem` | `Acoro` composed with coroutine semaphores |
| `AcoroSemProof` | Its safety theorems, on the invariant of `AcoroProof` |
| `EnvLifecycle` | `Acoro` between `init_coroutine_env()` and `destroy_coroutine_env()`, several times |
| `EnvLifecycleProof` | Its safety theorems, on the invariant of `AcoroProof` |
| `Listener` | Listening sockets and accepting coroutines over a descriptor table |
| `ListenerProof` | Its safety theorems |
| `MCAcoro`, `MCSlowCalls`, `MCCrtSem` | Symmetry sets for TLC |

### Acoro

The threads are the creators (application threads that call `crt_create()`),
the manager and the workers. A step is what a thread does between two accesses
to state another thread sees: one locked queue operation, one semaphore
operation, one pipe operation, one switch.

| Variable | Code |
|---|---|
| `action` | `task_ptr->action` |
| `todo`, `doing` | `coroutine_env.todo_queue`, `doing_queue`, as sequences |
| `sem` | the value of `manager_sem[0]` |
| `bytes`, `bgid` | the bytes in all pipes, each named by the value of `info.bg_worker_id` that chose its pipe; the counter itself |
| `cid`, `ran` | `info.cid`, `info.ran` |
| `mpc`, `mtask`, `curr` | where the manager thread is, `task_ptr` of `new_manager()`, `curr_task_ptr[0]` |
| `cpc`, `cnew` | where each caller is in `crt_create()`, and its new task |
| `wpc`, `wtask`, `loop` | where each worker is, its task, and whose loop holds a task's watchers |
| `stacks`, `saved` | which stacks are allocated, which contexts hold a suspended coroutine |
| `place`, `owed`, `steps` | auxiliary: where a task is, calls not yet served, the bound |

The actions follow the functions: `CreateAlloc`, `CreatePush`, `CreatePost`
(`crt_create`); `SemWait`, `ShiftTodo`, `Launch`, `Resume`, `Finish`, `Back`
(`new_manager`); `Submit`, `NotifyWorker`, `SwapOut` (a slow call);
`YieldPush`, `YieldPost`, `SwapOut` (`crt_sched_yield`); `Exit`, `Return`;
`ReadPipe`, `ShiftDoing`, `DoSync`, `DoAsync`, `Callback`
(`new_event_handler`, `do_task`, the callbacks); `PushTodo`, `PostManager`
(`coroutine_notify_manager`). A connect with a timeout may end at once or go
to the loop, so it is in both `SyncOps` and `AsyncOps`. `Resumable` contains
`act_sem_activation` because `new_manager()` does; the semaphores themselves
are in `CrtSem`.

### SlowCalls

One call per task at a time: `Call` (the `coroutine_set_*` functions),
`Return` (`coroutine_get_retval`), a `Do...` action per handler and an action
per callback. The transfer loop of `ev_sock_read`/`ev_sock_write` takes one
step per system call, and the two functions share their actions: they differ
only in the system call. The kernel and libev are external. A system call has
any outcome the code tells apart. One loop iteration (`Poll`) makes any set of
active watchers pending, killing any set of bad descriptors on the way; the
pending events are delivered in any order; stopping a watcher clears its
pending event, as `ev_io_stop()` and `ev_timer_stop()` do. `EINTR` repeats the
system call and changes nothing. Integers that pass through an `int` go
through `ToInt`, with the width as the constant `IntHalf`.

### Stailq, BsdQueue and CrtSem

`Stailq` keeps `stqh_last` as an address: of the head's own `stqh_first`, or
of an item's link field. `BsdQueue` applies the macros in any order under the
rule that an item is inserted only when it is in no list. `CrtSem` extends
`Stailq` with one list, `todo_queue`, whose items are the tasks, but does not
need the rule: what a second insertion of a linked item does to the pointers
is part of the model.

### CallService

`Acoro` abstracts from what a handler does and `SlowCalls` from how a task
reaches its handler. `CallService` is what each relies on the other for: a
call is handed over, then either served at once or started in the loop of one
worker and served there, once, and only then returns. The kinds of calls that
may take either way are listed. Both modules are shown to implement it
(`CarriesCalls`, `ServesCalls`).

### AcoroSem

`crt_sem_wait()` and `crt_sem_post()` are added to the steps of a running
coroutine of `Acoro`. `Take` and `Block` are the two ways through the loop of
`crt_sem_wait()` (`waits` remembers that a coroutine is in it); `PostWaiter`
pushes or unshifts the waiter and `SemPost` posts `manager_sem`, with the
steps of workers and creators in between. `CrtSem` has the same functions over
the list's pointers but no other thread.

The code lets a waiter be posted again before it runs, and then queues its
task again (finding 3). Whether the application does so is the constant
`OnePost`; the run and the theorems are about applications that do not. With
`OnePost = FALSE` the model is meant up to the first such post, after which a
sequence is no longer what the linked queue is; `CrtSem` goes on from there on
the pointers.

### EnvLifecycle

The main thread takes the two functions step by step: queues and manager,
then a pipe and a thread per worker; destroy the queues, cancel and join the
manager, cancel and join each worker, close the pipes, destroy the loops. The
steps of `Acoro` happen only in threads that exist. Cancellation is deferred: a
cancelled thread dies at its next cancellation point (`sem_wait`, `write`,
`epoll_wait`) and may die wherever a coroutine or a routine may call one. Task
states, counters, and bytes left in pipes are carried from one environment to
the next exactly as far as the code carries them. What a thread does with a
freed queue is undefined; the model stops the thread there, and
`QueuesOutliveUsers` says that no thread comes there. The code does not check
whether calls are in progress when it frees the queues. The constant
`WaitsForCalls` says whether the application has waited until every coroutine
has made its last slow call (`Quiet`); the run is about one that has. With
`WaitsForCalls = FALSE` the model is meant up to the first use of a freed
queue, and `QueuesOutliveUsers` fails within a few steps: the callback of a
call in progress pushes to a freed queue. `CleanShutdown` holds either way.

### Listener

Server coroutines prepare a socket: `PrepareNoSocket` or `PrepareSocket`, then
`PrepareFails` (`setsockopt()`, `bind()` or `listen()`; the socket is closed)
or `PrepareListen`, then `PrepareDone` or `PrepareUndone`, by what
`crt_set_nonblock()` returns. While one coroutine is in
`crt_tcp_prepare_sock()` no other runs, but workers and clients do. Then they
accept, and hand each connection to a coroutine that closes it.
`ev_tcp_accept()` ignores what `crt_set_nonblock()` returns, so `AcceptOne`
may leave the new descriptor blocking. The kernel is
external: lowest descriptor first, new descriptors block, one port, a bounded
queue of connections. A loop that sees the socket ready calls all its accept
watchers; those that come late find the queue empty, or no free descriptor.

## Runs

| Run | Instance | Shows |
|---|---|---|
| `acoro_safety` | 3 coroutines, 1 creator, 2 workers, 2 steps each | `SingleOwner`, `TokensMatch`, `NoAbort`, `ContextSaved`, `ServedOnce`, `PipeHasRoom`, `IdleMeansDone` |
| `acoro_live` | 2 coroutines, 2 workers, every slow call, fair threads | `ImplementsLife`, `CarriesCalls`, `EveryCoroutineEnds`, `EveryCallReturns` |
| `acoro_pipe_full` | 3 coroutines, 1 worker, a pipe of 2 bytes | a violation of `PipeHasRoom` (finding 1) |
| `slow_calls` | 2 tasks, 2 loops, 2 calls each, transfers of 0 and 2 bytes | `WatchersStopped`, `NeverForgotten`, `NotifiedOnce`, `IoResult`, `NoSocketLeft` |
| `slow_calls_live` | 2 tasks, 2 loops, every slow call | `ServesCalls`, `TimedCallsReturn` |
| `slow_calls_wide` | 1 task, a transfer one byte too large for the `int` | a violation of `IoResult` (finding 2) |
| `bsdqueue` | 2 lists, 3 items | `HeadsAgree`, `ListsApart`, `ImplementsDeque` |
| `crt_sem` | 3 coroutines, 2 semaphores, values up to 2, both priorities, one post per wait | `WaiterUnqueued`, `NoLostWakeup`, `QueueSound`, `OvertakenOnlyByCritical` |
| `crt_sem_two_posts` | 2 coroutines, no limit on posts | a violation of `WaiterUnqueued` (finding 3) |
| `acoro_sem` | 3 coroutines, 1 creator, 2 workers, 1 semaphore, both priorities, one post per wait, routines that may not return | `WaiterOnItsWay`, `CriticalFirst`, `IdleMeansWaiting`, `PostedWaiterRuns`, `FirstCallTaken` |
| `env_lifecycle` | 2 coroutines, 2 workers, 2 environments, an application that waits for its calls | `QueuesOutliveUsers`, `CleanShutdown`, `DestroyReturns`, `CoroutinesEndInEnv` |
| `listener` | 2 servers, 2 loops, 3 clients, 3 descriptors, a queue of 2 | `OneReceiver`, `NothingLeftOpen`, `EveryClientAccepted` |

Each property has a mutant, a plausible bug in one definition, that breaks it.

**Bounds.** Three coroutines and two workers are the least for which a worker
can take a task whose byte went to the other worker while a third task is in
the manager's hands; two steps let a coroutine make a call after an earlier
one came back. `MaxSteps` bounds calls and yields per coroutine; the theorems
remove the bound on everything but liveness. In `slow_calls` a second call
reuses the watchers and fields of the first, and a transfer of two bytes can
stop halfway. Three list items distinguish first, middle and last. The
safety run of `Acoro` uses one synchronous call and the one that can be both:
the other calls differ in nothing but their names there, and `acoro_live` uses
all of them. Only behaviours of `MaxValue` pending units are explored in
`CrtSem`. `acoro_sem` needs a waiter, a poster and a third coroutine whose task
competes for the queue; that a semaphore is used again after a wait is
explored in `crt_sem`, whose coroutines have no step bound; two of them that
wait for and post each other over two semaphores can keep the third waiting,
if the queue lets them. Two environments
are enough because the second one starts from everything the first can leave.
In `listener` a listening socket and two connections fill the descriptor table
while a third client is in the queue.

**Deadlock** is not checked where the program may stop: when every coroutine
has ended or waits for a post that never comes.

**Fairness.** Threads are scheduled by the kernel, so the manager, each worker
and a `crt_create()` call in progress are weakly fair, and so is the main
thread inside `destroy_coroutine_env()`. The application is not obliged to
create coroutines, to post, or to destroy its environment. A running coroutine
goes on until it gives the manager thread back (cooperative scheduling: the
library cannot take it away). In `acoro_live` and `env_lifecycle` a background
routine returns and an operation in a worker's loop is eventually called back;
`acoro_sem` drops the first assumption (`InRoutine`), and `slow_calls_live` the
second: there only timers are fair (time passes and libev feeds every expired
timer), and nothing is assumed of the peers. Taking a task from `doing_queue`
is strongly fair in `SlowCalls` because the queue and the bytes that bring it
about are in `Acoro`. In `listener` the servers, the loops and the end of each
connection are fair; clients need not connect. In `crt_sem` the manager goes
on and a running coroutine gives up the thread at last (`GiveUp`); posts are
not bounded in number. Two coroutines that post each other critically without
end starve the rest of the queue, and `OvertakenOnlyByCritical` says that
nothing else does. `PostedWaiterRuns` is checked for a bounded number of posts
of both priorities.

## What is proved

Every safety property of every passing run, and every refinement, is a
theorem, for every value of the constants that the named assumptions allow.
The assumptions say that sets of coroutines, creators and list items are
finite, that bounds are natural numbers (positive where a C array has that
size), that names of "nothing" (`NULL`, `NONE`, `First`) and of the manager
differ from those of things, and that the kinds of calls and priorities are
the ones the library has. Hypotheses beyond that are stated in the theorems
that need them:

| Hypothesis | Theorems | Why |
|---|---|---|
| a pipe has room for a byte of every coroutine | `PipesNeverFill` | `acoro_pipe_full` |
| byte counts fit an `int` | `ResultsAreTrue` | `slow_calls_wide` |
| `OnePost`: no waiter is posted twice before it runs | all of `CrtSemProof` and `AcoroSemProof` | `crt_sem_two_posts` |
| `WaitsForCalls`: no call is in progress when the environment is destroyed | `QueuesOutlive` and `CoreStaysSafe` of `EnvLifecycleProof` | section EnvLifecycle |

### The core (`AcoroProof`)

* `TypeCorrect`, `SingleOwnership`, `ContextsSaved`, `CallsServedOnce`.
* `TokensCoverQueues`: units and bytes count the queued tasks exactly.
* `NeverAborts`: no shift of an empty queue, no unexpected action.
* `PipesNeverFill`: if a pipe holds a byte for every coroutine, the write at
  `acoro.c:1217` never finds it full (needed: `acoro_pipe_full`).
* `CountersCount`, `NothingStranded`: when all threads are idle every
  coroutine has ended, its task is freed and counted, or its routine returned
  without `crt_exit()`.
* `Refinement`, `CallsAreCarried`: `Acoro` implements `CoroLife` and the
  carrier's side of `CallService`.

None of the properties is inductive. `SingleOwner` says who has a task but not
what a thread at a given point of its code has in its hands, so `IInv` adds
`Held` (program counters against tasks), `Carries` (the action a task has in
each place) and `Contexts` (which tasks have a stack, and that a suspended one
has its context saved unless the manager thread is still on its way out of it:
the window between hand-over and `swapcontext()`). That window is closed
because the same thread must reach `sem_wait` before it can switch to
anything, so `ContextSaved` follows. `TokensMatch` is inductive relative to
`IInv`; `NoAbort` and `IdleMeansDone` follow from both by counting. For the
refinements, each action maps to one abstract step or to none: pushing to
`todo_queue` makes a coroutine ready, `Launch` and `Resume` run the head of
the abstract queue, which is the task in the manager's hands followed by
`todo_queue`.

### Slow calls (`SlowCallsProof`)

* `WatchersAreStopped`: no watcher of a finished call is active or pending.
* `CallsAreRemembered`: a call in the loop has a watcher that can end it.
* `ManagerToldOnce`, `SocketsAreClosed`.
* `ResultsAreTrue`: what a read or write returns is what was moved, if every
  byte count fits the `int` (needed: `slow_calls_wide`).
* `CallsAreServed`: `SlowCalls` implements the server's side of `CallService`.

`IInv` says of each task, by where its call is: all its watchers and events
are in one loop (`InOneLoop`), they are no others than the callbacks of its
kind of call stop (`RightWatchers`), and a descriptor that is ready, or in
transfer, is still watched (`RightEvents`). This makes a timer harmless that
expires in the iteration that delivers the last byte: the callback that ends
the call stops both watchers, which removes both events. `Noted` and `SocketKept` count notifications and follow the socket.
A handler changes one task in one loop; only `Poll` touches several, and it is
proved to be a change that every task's part survives. `ResultsAreTrue` adds
`BytesOK`: `have_io + need_io` is the count the caller asked for, until the
call ends.

### Lists (`StailqProof`, `BsdQueueProof`)

* `HeadsStayRight`, `ListsStayApart`: `stqh_last` and the size agree with the
  links, and no two lists share an item.
* `ListsAreSequences`: `BsdQueue` implements `Deque`.

`HeadsAgree` is not inductive, since it only speaks of the end of a walk.
`Represents(m, q)` says that the pointers of `m` lay out the sequences `q`:
each item links to the next, the last one to nothing, no item occurs twice.
For every macro a lemma says that it takes a memory that represents `q` to one
that represents the changed sequences, and `WalkReads` that a walk over such a
memory reads exactly `q`. The walk is a recursive function; what it reads is
proved by taking the least position where it would differ, which the theorem
`WFMin` of the library provides, as induction over an operator is out of reach.

### Semaphores on the linked queue (`CrtSemProof`)

* `TypeCorrect`, `WaiterStaysUnqueued`, `WakeupsAreKept`, `QueueStaysSound`,
  each under `OnePost`: a waiter is posted once before it runs (needed:
  `crt_sem_two_posts`).

`SemInv` says that the pointers lay out a queue of exactly the coroutines that
are to run, as many as `manager_sem` counts, that the one that waits for a
semaphore is stored in it (`Stored`), and that a live semaphore stores nothing
else (`StoresWaiter`): `crt_sem_wait()` clears `task_ptr` when it takes a
unit, without which a later post would queue a coroutine that runs. A post
inserts a task only where `OnePost` keeps it out of the queue, which is the
premise of the lemmas on insertion.

### Semaphores among the threads (`AcoroSemProof`)

* `WaitersOnTheirWay`, `CriticalRunsFirst`, `IdleWaiters`.
* `CoreStaysSafe`: the core keeps its properties when coroutines block in
  semaphores.

All of them are about applications that post a waiter once before it runs
(`OnePost`). A second post would queue the task a second time, as finding 3
shows, and then no task has one owner any more.

Every step that is not one of the five semaphore operations is a step of
`Acoro`, so `IInv` and `TokensMatch` carry over. `SemInv` adds that a
semaphore and its waiter point at each other (`Paired`) and where the waiter
is by the semaphore's value (`Whereabouts`).

### Environments (`EnvLifecycleProof`)

* `QueuesOutlive`: no thread comes to a queue that has been freed, if the
  application has waited for its coroutines' last calls (`WaitsForCalls`).
* `ShutdownIsClean`: after `destroy_coroutine_env()` nothing of the
  environment is left, whether the application has waited or not.
* `CoreStaysSafe`: the core keeps its properties through any number of
  environments, under `WaitsForCalls`.

`ShutdownIsClean` follows from the order of the steps alone (`EnvParts`). For
the others the argument is that tokens that match leave nothing in the queues, pipes and
semaphore of a quiet application (`QuietFacts`), so the threads that are still
to be cancelled have no reason to touch a queue. `EnvParts` says which
threads, pipes and loops exist at each step of the main thread (`Phases`,
`LoopsMade`); `EnvInv` adds the core's invariant and where a cancelled manager
may have stopped (`CutOff`). A coroutine that
was running when the manager was cancelled is never resumed; its task and
stack are counted as leaked, as those of a routine that returns without
`crt_exit()`.

### Listening sockets (`ListenerProof`)

* `ReceivedOnce`: every connection goes to one coroutine, at one descriptor.
* `NoDescriptorLeaks`: whichever system call fails, the socket is closed.

`ListenInv` says who answers for a descriptor: a socket belongs to the one
coroutine that is preparing it or is the one the servers share (`Prepared`),
every open connection is in the hands of exactly one coroutine
(`Connections`), and the two ends of a connection and the kernel's queue
belong together (`Peers`, `Queue`).

### Only model-checked

Liveness: `EveryCoroutineEnds`, `EveryCallReturns`, `TimedCallsReturn`,
`PostedWaiterRuns`, `FirstCallTaken`, `OvertakenOnlyByCritical`,
`DestroyReturns`, `CoroutinesEndInEnv` and `EveryClientAccepted`. The prover has no rule for fairness or `ENABLED`.
The refinements are proved for the safety parts, which is all that the
abstract specifications state.

## Findings

1. `acoro.c:1217` asserts that the notification byte was written, but the pipe
   is nonblocking and nothing bounds the calls in flight.
2. `acoro.h` announces `ssize_t` results; they pass through `int`, so a socket
   transfer of 2^31 bytes or more returns a wrong count.
3. `crt_sem_post()` queues the waiter again if it is posted twice before it
   runs; the item is linked to itself, and the task stays in `todo_queue`
   after the coroutine has gone on. Posting once per wait is safe (`crt_sem`).

Observed while modelling, and recorded in the hazards without a run:

* a connect that times out leaves its socket open (`acoro.c:748`), which
  `NoSocketLeft` names as the one exception;
* a refused connect is reported with an `errno` that `getsockopt()` did not
  set (`acoro.c:783`);
* `ev_tcp_accept()` uses an uninitialised pointer on `EV_ERROR`
  (`acoro.c:941`), which takes a listening socket that is closed under a
  pending accept;
* `ev_tcp_accept()` ignores a failed `crt_set_nonblock()` (`acoro.c:951`); the
  first read or write of such a connection fails the assertion at
  `acoro.c:499` or `589`;
* `sem_wait()` interrupted by a signal handler on the manager thread
  (`acoro.c:291`) makes it shift an empty queue, which dereferences `NULL` in
  `STAILQ_REMOVE_HEAD` before the assertion at `acoro.c:293` is reached;
* a call whose byte lies in the pipe of a worker that is busy waits although
  other workers are idle, until another call's byte wakes one
  (`acoro.c:1215`);
* `example/echo_server.c:117` waits one second before it destroys the
  environment, for reads that may last five (see `EnvLifecycle`);
* `example/echo_server2.c:63` does not look at the result of
  `crt_tcp_accept()`.

## Not modelled

* `crt_set_block`, `crt_disk_close`: each one system call, without state
  of the library.
* `crt_pthread_mutex_*`: expand to 0.
* Failures of `malloc`, `pipe`, `pthread_create`, which the code ignores.
* Memory: `destroy_coroutine_env()` frees neither its three arrays nor the
  stacks of tasks it finds in the queues.
* More than one manager: `MANAGER_CNT` is 1 and the code asserts it.
* `ev_tcp_accept()` with `EV_ERROR`: undefined behaviour.
* Signals: `sem_wait()` with `EINTR`.
* `CRT_SEM_HIGH_PRIORITY`: aborts, "not implemented now".
* `crt_tcp_prepare_sock()` outside a coroutine, where `curr_task_ptr` is null
  or stale; every caller in the repository is a coroutine.
* The contents of buffers and file names, stack sizes, `makecontext()`
  argument packing.
* The examples, which are applications of the library.

## Plan

Done, in this order: `Acoro` with its runs, its invariant and refinement
proofs; `SlowCalls`; `Stailq`, `BsdQueue`; `CrtSem`; `CallService` with both
refinements; `EnvLifecycle`; `AcoroSem`; `Listener`; then the proofs of
`SlowCalls`, of `CarriesCalls` and `ServesCalls`, of `AcoroSem`,
`EnvLifecycle`, `Listener`, the lists and `CrtSem`.

Next, proofs:

1. Action properties that follow from the invariants: `info.ran` and
   `info.cid` never go back, a freed task's structure is never written again
   within an environment.
2. Semaphores at two levels: `AcoroSem`'s sequence `todo` as the walk of
   `CrtSem`'s pointers, so that the posts of one are those of the other.
3. The premise of `EnvLifecycle` as a theorem: from which states of the core
   the application's wait is over (`Quiet` from `IdleMeansDone`).

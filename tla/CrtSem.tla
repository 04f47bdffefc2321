------------------------------- MODULE CrtSem -------------------------------
(***************************************************************************)
(* The coroutine semaphores of src/src/acoro.c (crt_sem_t), which block a  *)
(* coroutine and not the manager thread, on top of the linked todo_queue.  *)
(*                                                                         *)
(* All of this code runs on the manager thread, so a step is what a        *)
(* coroutine does between two switches, split at each crt_* call. The      *)
(* application keeps the library's rule that one coroutine at most waits   *)
(* for a semaphore at a time (acoro.c:1574), and destroys a semaphore only *)
(* when nobody waits for it.                                               *)
(***************************************************************************)
EXTENDS Stailq

CONSTANTS
    Sems,       \* the crt_sem_t objects the coroutines share
    Flags,      \* the priorities crt_sem_priority_post() is called with
    OnePost,    \* whether a waiter is posted only once before it runs
    MaxValue    \* bound: a semaphore's value

\* The coroutines, by their tasks: the items that todo_queue links.
Coros == Items

ASSUME CrtSemAssumption ==
    /\ Lists = {"todo"}
    /\ NULL \notin Sems
    /\ Flags \subseteq {"normal", "critical"}
    /\ OnePost \in BOOLEAN
    /\ MaxValue \in Nat \ {0}

VARIABLES
    mem,     \* todo_queue and the tasks' link fields
    msem,    \* manager_sem[0]
    curr,    \* the coroutine that runs, NULL in the manager's own context
    at,      \* where each coroutine is
    waits,   \* the semaphore whose crt_sem_wait() loop it is in
    value,   \* sem->value
    waiter,  \* sem->task_ptr
    live     \* the semaphores between crt_sem_init() and crt_sem_destroy()

semVars == <<value, waiter, live>>
vars == <<mem, msem, curr, at, waits, semVars>>

Init ==
    /\ mem = Empty
    /\ msem = 0
    /\ curr = NULL
    /\ at = [c \in Coros |-> "unborn"]
    /\ waits = [c \in Coros |-> NULL]
    /\ value = [s \in Sems |-> 0]
    /\ waiter = [s \in Sems |-> NULL]
    /\ live = {}

\* Push or Unshift to todo_queue, then sem_post().
Queue(m) == mem' = m /\ msem' = msem + 1

\* crt_create(), by any thread.
Create(c) ==
    /\ at[c] = "unborn"
    /\ at' = [at EXCEPT ![c] = "ready"]
    /\ Queue(InsertTail(mem, "todo", c))
    /\ UNCHANGED <<curr, waits, semVars>>

-----------------------------------------------------------------------------
(* The running coroutine. *)

crt_sem_init(s, v) ==
    /\ curr # NULL
    /\ s \notin live
    /\ live' = live \cup {s}
    /\ value' = [value EXCEPT ![s] = v]
    /\ waiter' = [waiter EXCEPT ![s] = NULL]
    /\ UNCHANGED <<mem, msem, curr, at, waits>>

crt_sem_destroy(s) ==
    /\ curr # NULL
    /\ s \in live
    /\ \A c \in Coros : waits[c] # s
    /\ live' = live \ {s}
    /\ UNCHANGED <<mem, msem, curr, at, waits, value, waiter>>

\* Mutant: the semaphore keeps the task that has taken a unit.
TakeKeeps(c, s) ==
    /\ value[s] > 0
    /\ value' = [value EXCEPT ![s] = @ - 1]
    /\ curr' = c
    /\ at' = [at EXCEPT ![c] = "running"]
    /\ waits' = [waits EXCEPT ![c] = NULL]
    /\ UNCHANGED waiter

\* One turn of the loop in crt_sem_wait(): take a unit and go on, or store
\* the task in the semaphore and switch to the manager.
Take(c, s) ==
    /\ value[s] > 0
    /\ value' = [value EXCEPT ![s] = @ - 1]
    /\ waiter' = [waiter EXCEPT ![s] = NULL]
    /\ curr' = c
    /\ at' = [at EXCEPT ![c] = "running"]
    /\ waits' = [waits EXCEPT ![c] = NULL]

\* Mutant: the waiting task is not stored.
BlockUnrecorded(c, s) ==
    /\ value[s] = 0
    /\ waiter' = [waiter EXCEPT ![s] = NULL]
    /\ curr' = NULL
    /\ at' = [at EXCEPT ![c] = "waiting"]
    /\ waits' = [waits EXCEPT ![c] = s]
    /\ UNCHANGED value

Block(c, s) ==
    /\ value[s] = 0
    /\ waiter' = [waiter EXCEPT ![s] = c]
    /\ curr' = NULL
    /\ at' = [at EXCEPT ![c] = "waiting"]
    /\ waits' = [waits EXCEPT ![c] = s]
    /\ UNCHANGED value

\* Mutant: the loop in crt_sem_wait() is an if.
TryOnce(c, s) ==
    /\ value' = [value EXCEPT ![s] = @ - 1]
    /\ waiter' = [waiter EXCEPT ![s] = NULL]
    /\ curr' = c
    /\ at' = [at EXCEPT ![c] = "running"]
    /\ waits' = [waits EXCEPT ![c] = NULL]

Try(c, s) == Take(c, s) \/ Block(c, s)

crt_sem_wait(s) ==
    /\ curr # NULL
    /\ s \in live
    /\ \A c \in Coros : waits[c] # s
    /\ Try(curr, s)
    /\ UNCHANGED <<mem, msem, live>>

\* Mutant: the value is raised and nobody is told.
PostQuietly(s, flag) ==
    /\ curr # NULL
    /\ s \in live
    /\ value[s] < MaxValue
    /\ OnePost /\ waiter[s] # NULL => value[s] = 0
    /\ value' = [value EXCEPT ![s] = @ + 1]
    /\ UNCHANGED <<mem, msem, curr, at, waits, waiter, live>>

\* crt_sem_post() and the critical case of crt_sem_priority_post(), which
\* puts the waiter at the head of the queue.
crt_sem_priority_post(s, flag) ==
    /\ curr # NULL
    /\ s \in live
    /\ value[s] < MaxValue
    /\ OnePost /\ waiter[s] # NULL => value[s] = 0
    /\ value' = [value EXCEPT ![s] = @ + 1]
    /\ IF waiter[s] = NULL THEN UNCHANGED <<mem, msem>>
       ELSE IF flag = "normal" THEN Queue(InsertTail(mem, "todo", waiter[s]))
       ELSE Queue(InsertHead(mem, "todo", waiter[s]))
    /\ UNCHANGED <<curr, at, waits, waiter, live>>

\* Mutant: the task that yields is put at the head of the queue.
YieldFirst ==
    /\ curr # NULL
    /\ Queue(InsertHead(mem, "todo", curr))
    /\ at' = [at EXCEPT ![curr] = "ready"]
    /\ curr' = NULL
    /\ UNCHANGED <<waits, semVars>>

crt_sched_yield ==
    /\ curr # NULL
    /\ Queue(InsertTail(mem, "todo", curr))
    /\ at' = [at EXCEPT ![curr] = "ready"]
    /\ curr' = NULL
    /\ UNCHANGED <<waits, semVars>>

\* crt_exit(): the manager frees the task.
crt_exit ==
    /\ curr # NULL
    /\ at' = [at EXCEPT ![curr] = "freed"]
    /\ curr' = NULL
    /\ UNCHANGED <<mem, msem, waits, semVars>>

-----------------------------------------------------------------------------
(* The manager: wait, shift, switch. A coroutine that comes back inside    *)
(* crt_sem_wait() goes round its loop.                                     *)

Schedule ==
    LET c == mem.first["todo"] IN
    /\ curr = NULL
    /\ msem > 0
    /\ msem' = msem - 1
    /\ mem' = RemoveHead(mem, "todo")
    /\ \/ /\ at[c] = "ready"
          /\ curr' = c
          /\ at' = [at EXCEPT ![c] = "running"]
          /\ UNCHANGED <<waits, semVars>>
       \/ /\ at[c] = "waiting"
          /\ Try(c, waits[c])
          /\ UNCHANGED live

Coroutine ==
    \/ \E s \in Sems :
         \/ \E v \in 0 .. MaxValue : crt_sem_init(s, v)
         \/ \E flag \in Flags : crt_sem_priority_post(s, flag)
         \/ crt_sem_destroy(s) \/ crt_sem_wait(s)
    \/ crt_sched_yield \/ crt_exit

Next == (\E c \in Coros : Create(c)) \/ Schedule \/ Coroutine

Spec == Init /\ [][Next]_vars

\* A running coroutine waits, yields or ends at last, and the manager goes on.
GiveUp == curr # NULL /\ Coroutine /\ curr' = NULL

FairSpec == Spec /\ WF_vars(Schedule) /\ WF_vars(GiveUp)

-----------------------------------------------------------------------------
(* Properties *)

\* Every variable has its type; no semaphore goes below zero.
TypeOK ==
    /\ mem \in Memories
    /\ msem \in Nat
    /\ curr \in Coros \cup {NULL}
    /\ at \in [Coros -> {"unborn", "ready", "running", "waiting", "freed"}]
    /\ waits \in [Coros -> Sems \cup {NULL}]
    /\ value \in [Sems -> 0 .. MaxValue]
    /\ waiter \in [Sems -> Coros \cup {NULL}]
    /\ live \subseteq Sems

\* While a coroutine waits and has not been posted, "the task_ptr is only
\* stored in sem, both doing_queue and todo_queue have no record" of it
\* (acoro.c:1571): a record left there would resume it, or after its end
\* resume freed memory.
WaiterUnqueued ==
    \A c \in Coros :
        at[c] = "waiting" /\ value[waits[c]] = 0 =>
            waiter[waits[c]] = c /\ c \notin Members(mem, "todo")

\* A waiter whose semaphore has a unit is on its way: neither a post that
\* comes before the wait is lost, nor one that comes while the coroutine
\* waits or is queued to go round its loop.
NoLostWakeup ==
    \A c \in Coros :
        at[c] = "waiting" /\ value[waits[c]] > 0 => c \in Members(mem, "todo")

\* todo_queue holds the coroutines that are ready and the waiters that have
\* been posted, each once, as manager_sem counts them: no freed task, no
\* running one.
QueueSound ==
    /\ mem.size["todo"] = msem
    /\ Len(Walk(mem, "todo")) = msem
    /\ Members(mem, "todo") =
         {c \in Coros : \/ at[c] = "ready"
                        \/ at[c] = "waiting" /\ value[waits[c]] > 0}
    /\ Cardinality(Members(mem, "todo")) = msem

\* A waiter is posted critically.
CriticalPost ==
    \E s \in Sems : waiter[s] # NULL /\ crt_sem_priority_post(s, "critical")

\* A task that is queued runs, however the coroutines before it wait for and
\* post each other, unless critical posts, which go before it, never stop.
OvertakenOnlyByCritical ==
    \/ []<><<CriticalPost>>_vars
    \/ \A c \in Coros :
          c \in Members(mem, "todo") ~> c \notin Members(mem, "todo")

=============================================================================

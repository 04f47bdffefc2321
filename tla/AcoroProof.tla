----------------------------- MODULE AcoroProof -----------------------------
(***************************************************************************)
(* Proofs about module Acoro, for every number of coroutines, application  *)
(* threads, workers and steps.                                             *)
(*                                                                         *)
(* The induction rests on where each task structure is (place): the parts  *)
(* of IInv below say what every place implies for the threads' program     *)
(* counters, the task's action and its saved context.                      *)
(***************************************************************************)
EXTENDS Acoro, FiniteSetTheorems, SequenceTheorems, TLAPS

\* Which task a thread holds at which point of its code.
Held ==
    /\ \A t \in Callers : cpc[t] = "push" <=> cnew[t] # NULL
    /\ \A w \in Workers : wpc[w] \in {"do_task", "push"} <=> wtask[w] # NULL
    /\ cpc[Manager] # "idle" => mpc = "coro"
    /\ mpc \in {"coro", "sem_post", "notify", "yield_post", "swap", "back", "switch"} =>
         mtask # NULL
    /\ mpc \in {"coro", "sem_post", "notify", "yield_post", "swap", "back"} =>
         mtask = curr
    /\ \A c \in Coros :
         /\ place[c] = "manager" => mpc = "switch" /\ mtask = c
         /\ place[c] = "exiting" =>
              mpc \in {"back", "switch"} /\ mtask = c /\ curr = c
    /\ mpc = "switch" => place[mtask] \in {"manager", "exiting"}
    /\ mpc \in {"notify", "yield_post", "swap"} =>
         place[curr] \in {"todo", "doing", "worker", "loop", "waiting"}
    /\ mpc = "back" =>
         place[curr] \in {"todo", "doing", "worker", "loop", "waiting", "exiting",
                         "leaked"}

\* Which action a task carries, by where it is.
Carries ==
    \A c \in Coros :
        /\ place[c] \in {"unborn", "creating"} => action[c] = "new_coroutine"
        /\ place[c] \in {"todo", "manager", "running", "waiting", "leaked"} =>
             action[c] \in Resumable \cup {"new_coroutine"}
        /\ place[c] = "doing" => action[c] \in AllOps
        /\ place[c] = "loop" => action[c] \in AsyncOps
        /\ place[c] \in {"exiting", "freed"} => action[c] = "finished_coroutine"
        /\ \A w \in Workers : wtask[w] = c =>
             action[c] \in IF wpc[w] = "do_task" THEN AllOps ELSE Resumable

\* A coroutine that has started and is not running has its stack, and its
\* context is saved unless the manager thread is still on the way out of it.
Suspended(c) ==
    \/ place[c] \in {"doing", "worker", "loop", "waiting"}
    \/ place[c] \in {"todo", "manager"} /\ action[c] # "new_coroutine"

Contexts ==
    \A c \in Coros :
        /\ Suspended(c) =>
             c \in saved \/ (mpc \in {"notify", "yield_post", "swap"} /\ curr = c)
        /\ c \in stacks <=>
             Suspended(c) \/ place[c] \in {"running", "exiting", "leaked"}

IInv == TypeOK /\ SingleOwner /\ Held /\ Carries /\ Contexts /\ ServedOnce

\* What cid and ran count.
Born == {c \in Coros : place[c] # "unborn"}

Freed == {c \in Coros : place[c] = "freed"}

Counted == cid = Cardinality(Born) /\ ran = Cardinality(Freed)

-----------------------------------------------------------------------------
(* Facts about sequences without repetition. *)

\* What pushing a task at the end of a queue does to the queue's elements.
LEMMA AppendFacts ==
    ASSUME NEW S, NEW s \in Seq(S), NEW x \in S
    PROVE  /\ Append(s, x) \in Seq(S)
           /\ Len(Append(s, x)) = Len(s) + 1
           /\ Range(Append(s, x)) = Range(s) \cup {x}
           /\ IsInjective(s) /\ x \notin Range(s) => IsInjective(Append(s, x))
<1> DEFINE a == Append(s, x)
<1>1. /\ a \in Seq(S)
      /\ DOMAIN a = 1 .. Len(s) + 1
      /\ DOMAIN s = 1 .. Len(s)
      /\ Len(s) \in Nat
      /\ Len(a) = Len(s) + 1
      /\ \A i \in 1 .. Len(s) : a[i] = s[i]
      /\ a[Len(s) + 1] = x
  OBVIOUS
<1>2. Range(a) = Range(s) \cup {x}
  BY <1>1 DEF Range
<1>3. ASSUME IsInjective(s), x \notin Range(s)
      PROVE  IsInjective(a)
  BY <1>1, <1>3 DEF Range, IsInjective
<1> QED
  BY <1>1, <1>2, <1>3

\* What shifting the first task off a queue does to the queue's elements.
LEMMA TailFacts ==
    ASSUME NEW S, NEW s \in Seq(S), s # <<>>
    PROVE  /\ Tail(s) \in Seq(S)
           /\ Len(s) \in Nat \ {0}
           /\ Len(Tail(s)) = Len(s) - 1
           /\ Head(s) \in S
           /\ Head(s) \in Range(s)
           /\ IsInjective(s) => /\ Range(Tail(s)) = Range(s) \ {Head(s)}
                               /\ IsInjective(Tail(s))
<1> DEFINE r == Tail(s)
<1>1. /\ r \in Seq(S)
      /\ Len(s) \in Nat \ {0}
      /\ Len(r) = Len(s) - 1
      /\ DOMAIN s = 1 .. Len(s)
      /\ DOMAIN r = 1 .. Len(s) - 1
      /\ Head(s) = s[1]
      /\ \A i \in 1 .. Len(s) - 1 : r[i] = s[i + 1]
  OBVIOUS
<1>2. Head(s) \in S /\ Head(s) \in Range(s)
  BY <1>1 DEF Range
<1>3. ASSUME IsInjective(s)
      PROVE  Range(r) = Range(s) \ {Head(s)}
  <2>1. ASSUME NEW i \in 1 .. Len(s) - 1
        PROVE  r[i] \in Range(s) /\ r[i] # Head(s)
    BY <1>1, <1>3 DEF Range, IsInjective
  <2>2. ASSUME NEW i \in 1 .. Len(s), s[i] # Head(s)
        PROVE  s[i] \in Range(r)
    <3>1. i - 1 \in 1 .. Len(s) - 1 /\ r[i - 1] = s[i]
      BY <1>1, <2>2
    <3> QED
      BY <1>1, <3>1 DEF Range
  <2> QED
    BY <1>1, <2>1, <2>2 DEF Range
<1>4. ASSUME IsInjective(s)
      PROVE  IsInjective(r)
  BY <1>1, <1>4 DEF IsInjective
<1> QED
  BY <1>1, <1>2, <1>3, <1>4

-----------------------------------------------------------------------------
(* Facts about actions. *)

\* Whatever call a worker serves, the manager resumes the coroutine on it.
LEMMA DoneActionFacts ==
    \A op \in AllOps : DoneAction[op] \in Resumable
BY DEF AllOps, SyncOps, AsyncOps, DoneAction, Resumable

\* The kinds of action do not overlap.
LEMMA ActionFacts ==
    /\ Resumable \subseteq ActionT /\ AllOps \subseteq ActionT
    /\ SyncOps \subseteq AllOps /\ AsyncOps \subseteq AllOps
    /\ "new_coroutine" \in ActionT /\ "finished_coroutine" \in ActionT
    /\ "sched_yield" \in Resumable
    /\ "new_coroutine" \notin Resumable /\ "new_coroutine" \notin AllOps
    /\ "finished_coroutine" \notin Resumable
    /\ "finished_coroutine" \notin AllOps
BY DEF AllOps, SyncOps, AsyncOps, Resumable, ActionT

-----------------------------------------------------------------------------
(* What the invariant says of the task a thread is about to move. *)

\* A crt_create() call about to push holds a task that is in no queue.
LEMMA CallerHolds ==
    ASSUME IInv, NEW t \in Callers, cpc[t] = "push"
    PROVE  /\ cnew[t] \in Coros /\ place[cnew[t]] = "creating"
           /\ cnew[t] \notin Range(todo)
<1>1. cnew[t] \in Coros
  BY DEF IInv, TypeOK, Held
<1>2. place[cnew[t]] = "creating"
  BY <1>1 DEF IInv, SingleOwner, Created
<1> QED
  BY <1>1, <1>2 DEF IInv, SingleOwner, Queued

\* The first task of todo_queue is where its place says it is.
LEMMA TodoHead ==
    ASSUME IInv, todo # <<>>
    PROVE  Head(todo) \in Coros /\ place[Head(todo)] = "todo"
<1>1. Head(todo) \in Coros /\ Head(todo) \in Range(todo)
  BY TailFacts DEF IInv, TypeOK
<1> QED
  BY <1>1 DEF IInv, SingleOwner, Queued

\* The first task of doing_queue is there only: no worker handles it.
LEMMA DoingHead ==
    ASSUME IInv, doing # <<>>
    PROVE  /\ Head(doing) \in Coros /\ place[Head(doing)] = "doing"
           /\ \A v \in Workers : wtask[v] # Head(doing)
<1>1. Head(doing) \in Coros /\ Head(doing) \in Range(doing)
  BY TailFacts DEF IInv, TypeOK
<1>2. place[Head(doing)] = "doing"
  BY <1>1 DEF IInv, SingleOwner, Queued
<1> QED
  BY <1>1, <1>2 DEF IInv, SingleOwner, Handled

\* The task new_manager() is about to switch on, by its action.
LEMMA SwitchTask ==
    ASSUME IInv, mpc = "switch"
    PROVE  /\ mtask \in Coros
           /\ action[mtask] \in Resumable \cup {"new_coroutine"} =>
                place[mtask] = "manager"
           /\ action[mtask] = "finished_coroutine" =>
                place[mtask] = "exiting" /\ curr = mtask
BY ActionFacts DEF IInv, TypeOK, Held, Carries

\* The running coroutine's task is in no queue and with no worker.
LEMMA CurrRuns ==
    ASSUME IInv, mpc = "coro"
    PROVE  /\ curr \in Coros /\ place[curr] = "running"
           /\ curr \notin Range(todo) /\ curr \notin Range(doing)
           /\ \A v \in Workers : wtask[v] # curr
<1>1. curr \in Coros
  BY DEF IInv, TypeOK, Held
<1>2. place[curr] = "running"
  BY <1>1 DEF IInv, SingleOwner, Active
<1> QED
  BY <1>1, <1>2 DEF IInv, SingleOwner, Queued, Handled

\* The task a worker handles is in no queue and with no other worker.
LEMMA WorkerHolds ==
    ASSUME IInv, NEW w \in Workers, wpc[w] \in {"do_task", "push"}
    PROVE  /\ wtask[w] \in Coros /\ place[wtask[w]] = "worker"
           /\ wtask[w] \notin Range(todo)
           /\ \A v \in Workers : wtask[v] = wtask[w] => v = w
<1>1. wtask[w] \in Coros
  BY DEF IInv, TypeOK, Held
<1>2. place[wtask[w]] = "worker"
  BY <1>1 DEF IInv, SingleOwner, Handled
<1> QED
  BY <1>1, <1>2, ConstantsAssumption DEF IInv, SingleOwner, Queued, Handled

\* A task whose watchers are active is with no worker.
LEMMA LoopTask ==
    ASSUME IInv, NEW w \in Workers, NEW c \in Coros, loop[c] = w
    PROVE  /\ place[c] = "loop" /\ action[c] \in AsyncOps
           /\ \A v \in Workers : wtask[v] # c
<1>1. place[c] = "loop"
  BY ConstantsAssumption DEF IInv, SingleOwner, Active
<1> QED
  BY <1>1 DEF IInv, SingleOwner, Handled, Carries

-----------------------------------------------------------------------------
(* The inductive invariant, action by action. *)

\* The state init_coroutine_env() leaves satisfies the invariant.
LEMMA InitInv == Init => IInv
<1> SUFFICES ASSUME Init PROVE IInv
  OBVIOUS
<1> USE ConstantsAssumption
<1>1. TypeOK
  BY DEF Init, TypeOK, ActionT, Place, ManagerPcs, WorkerPcs
<1>2. SingleOwner
  BY DEF Init, SingleOwner, Queued, Created, Handled, Active, IsInjective,
         Range
<1>3. Held /\ Carries
  BY DEF Init, Held, Carries, Callers
<1>4. Contexts /\ ServedOnce
  BY DEF Init, Contexts, Suspended, ServedOnce
<1> QED
  BY <1>1, <1>2, <1>3, <1>4 DEF IInv

\* crt_create() counts and fills a new task.
LEMMA CreateAllocInv ==
    ASSUME IInv, NEW t \in Callers, NEW c \in Coros, CreateAlloc(t, c)
    PROVE  IInv'
<1> USE ConstantsAssumption DEF IInv, CreateAlloc, Move, managerVars,
        workerVars, pipeVars
<1>1. TypeOK'
  BY DEF TypeOK, ActionT, Place
<1>2. SingleOwner'
  <2>1. Queued'
    BY DEF TypeOK, SingleOwner, Queued
  <2>2. Created'
    <3>1. cnew[t] = NULL /\ \A u \in Callers : cnew[u] # c
      BY DEF TypeOK, SingleOwner, Created, Held
    <3>2. \A u \in Callers : cnew'[u] = IF u = t THEN c ELSE cnew[u]
      BY DEF TypeOK
    <3>3. \A d \in Coros : place'[d] = IF d = c THEN "creating" ELSE place[d]
      BY DEF TypeOK
    <3> QED
      BY <3>1, <3>2, <3>3 DEF SingleOwner, Created
  <2>3. Handled' /\ Active'
    BY DEF TypeOK, SingleOwner, Handled, Active
  <2> QED
    BY <2>1, <2>2, <2>3 DEF SingleOwner
<1>3. Held'
  BY DEF TypeOK, Held, SingleOwner, Created, Callers
<1>4. Carries'
  BY DEF TypeOK, Carries, SingleOwner, Handled
<1>5. Contexts'
  BY DEF TypeOK, Contexts, Suspended
<1>6. ServedOnce'
  BY DEF TypeOK, ServedOnce, SingleOwner
<1> QED
  BY <1>1, <1>2, <1>3, <1>4, <1>5, <1>6

\* crt_create() pushes the task it has filled.
LEMMA CreatePushInv ==
    ASSUME IInv, NEW t \in Callers, CreatePush(t)
    PROVE  IInv'
<1> USE ConstantsAssumption DEF IInv, CreatePush, Move, managerVars, workerVars, pipeVars
<1> DEFINE c == cnew[t]
<1>0. c \in Coros /\ place[c] = "creating" /\ c \notin Range(todo)
  BY CallerHolds
<1>1. TypeOK'
  BY AppendFacts, <1>0 DEF TypeOK, ActionT, Place, ManagerPcs, WorkerPcs
<1>2. SingleOwner'
  <2>1. Queued'
    BY AppendFacts, <1>0 DEF TypeOK, SingleOwner, Queued
  <2>2. Created'
    BY <1>0 DEF TypeOK, SingleOwner, Created
  <2>3. Handled'
    BY <1>0 DEF TypeOK, SingleOwner, Handled, Held
  <2>4. Active'
    BY <1>0 DEF TypeOK, SingleOwner, Active
  <2> QED
    BY <2>1, <2>2, <2>3, <2>4 DEF SingleOwner
<1>3. Held'
  BY <1>0 DEF TypeOK, Held, SingleOwner, Created, Handled, Active, Callers
<1>4. Carries'
  BY <1>0 DEF TypeOK, Carries, SingleOwner, Handled, Held
<1>5. Contexts'
  BY <1>0 DEF TypeOK, Contexts, Suspended, Carries
<1>6. ServedOnce'
  BY <1>0 DEF TypeOK, ServedOnce, SingleOwner, Handled, Held
<1> QED
  BY <1>1, <1>2, <1>3, <1>4, <1>5, <1>6

\* crt_create() posts the manager's semaphore.
LEMMA CreatePostInv ==
    ASSUME IInv, NEW t \in Callers, CreatePost(t)
    PROVE  IInv'
<1> USE ConstantsAssumption DEF IInv, CreatePost, taskVars, managerVars, workerVars, pipeVars
<1>1. TypeOK'
  BY DEF TypeOK, ActionT, Place, ManagerPcs, WorkerPcs
<1>2. SingleOwner'
  <2>1. Queued'
    BY DEF TypeOK, SingleOwner, Queued
  <2>2. Created'
    BY DEF TypeOK, SingleOwner, Created
  <2>3. Handled'
    BY DEF TypeOK, SingleOwner, Handled, Held
  <2>4. Active'
    BY DEF TypeOK, SingleOwner, Active
  <2> QED
    BY <2>1, <2>2, <2>3, <2>4 DEF SingleOwner
<1>3. Held'
  BY DEF TypeOK, Held, SingleOwner, Created, Handled, Active, Callers
<1>4. Carries'
  BY DEF TypeOK, Carries, SingleOwner, Handled, Held
<1>5. Contexts'
  BY DEF TypeOK, Contexts, Suspended, Held
<1>6. ServedOnce'
  BY DEF TypeOK, ServedOnce, SingleOwner, Handled, Held
<1> QED
  BY <1>1, <1>2, <1>3, <1>4, <1>5, <1>6

\* The manager takes a semaphore unit.
LEMMA SemWaitInv ==
    ASSUME IInv, SemWait
    PROVE  IInv'
<1> USE ConstantsAssumption DEF IInv, SemWait, ManagerGoto, taskVars, createVars, workerVars, pipeVars
<1>1. TypeOK'
  BY DEF TypeOK, ActionT, Place, ManagerPcs, WorkerPcs
<1>2. SingleOwner'
  <2>1. Queued'
    BY DEF TypeOK, SingleOwner, Queued
  <2>2. Created'
    BY DEF TypeOK, SingleOwner, Created
  <2>3. Handled'
    BY DEF TypeOK, SingleOwner, Handled, Held
  <2>4. Active'
    BY DEF TypeOK, SingleOwner, Active
  <2> QED
    BY <2>1, <2>2, <2>3, <2>4 DEF SingleOwner
<1>3. Held'
  BY DEF TypeOK, Held, SingleOwner, Created, Handled, Active, Callers
<1>4. Carries'
  BY DEF TypeOK, Carries, SingleOwner, Handled, Held
<1>5. Contexts'
  BY DEF TypeOK, Contexts, Suspended, Held
<1>6. ServedOnce'
  BY DEF TypeOK, ServedOnce, SingleOwner, Handled, Held
<1> QED
  BY <1>1, <1>2, <1>3, <1>4, <1>5, <1>6

\* The manager takes the first task of todo_queue.
LEMMA ShiftTodoInv ==
    ASSUME IInv, ShiftTodo
    PROVE  IInv'
<1> USE ConstantsAssumption DEF IInv, ShiftTodo, ManagerGoto, Move, createVars, workerVars, pipeVars
<1> DEFINE c == Head(todo)
<1>0. c \in Coros /\ place[c] = "todo"
  BY TodoHead
<1>1. TypeOK'
  BY TailFacts, <1>0 DEF TypeOK, ActionT, Place, ManagerPcs, WorkerPcs
<1>2. SingleOwner'
  <2>1. Queued'
    <3>1. todo \in Seq(Coros) /\ todo # <<>> /\ Queued
      BY DEF TypeOK, SingleOwner
    <3>2. todo' = Tail(todo) /\ doing' = doing
      OBVIOUS
    <3>3. \A d \in Coros : place'[d] = IF d = c THEN "manager" ELSE place[d]
      BY <1>0 DEF TypeOK
    <3>4. Range(todo') = Range(todo) \ {c} /\ IsInjective(todo')
      BY ONLY <3>1, <3>2, TailFacts DEF Queued
    <3> QED
      BY ONLY <1>0, <3>1, <3>2, <3>3, <3>4 DEF Queued
  <2>2. Created'
    BY <1>0 DEF TypeOK, SingleOwner, Created
  <2>3. Handled'
    BY <1>0 DEF TypeOK, SingleOwner, Handled, Held
  <2>4. Active'
    BY <1>0 DEF TypeOK, SingleOwner, Active
  <2> QED
    BY <2>1, <2>2, <2>3, <2>4 DEF SingleOwner
<1>3. Held'
  BY <1>0 DEF TypeOK, Held, SingleOwner, Created, Handled, Active, Callers
<1>4. Carries'
  BY <1>0 DEF TypeOK, Carries, SingleOwner, Handled, Held
<1>5. Contexts'
  BY <1>0 DEF TypeOK, Contexts, Suspended, Held
<1>6. ServedOnce'
  BY <1>0 DEF TypeOK, ServedOnce, SingleOwner, Handled, Held
<1> QED
  BY <1>1, <1>2, <1>3, <1>4, <1>5, <1>6

\* The manager enters a new coroutine.
LEMMA LaunchInv ==
    ASSUME IInv, Launch
    PROVE  IInv'
<1> USE ConstantsAssumption DEF IInv, Launch, ManagerGoto, Move, createVars, workerVars, pipeVars
<1>0. mtask \in Coros /\ place[mtask] = "manager"
  BY SwitchTask
<1>1. TypeOK'
  BY <1>0 DEF TypeOK, ActionT, Place, ManagerPcs, WorkerPcs
<1>2. SingleOwner'
  <2>1. Queued'
    BY <1>0 DEF TypeOK, SingleOwner, Queued
  <2>2. Created'
    BY <1>0 DEF TypeOK, SingleOwner, Created
  <2>3. Handled'
    BY <1>0 DEF TypeOK, SingleOwner, Handled, Held
  <2>4. Active'
    <3>1. \A d \in Coros :
             place'[d] = IF d = mtask THEN "running" ELSE place[d]
      BY <1>0 DEF TypeOK
    <3>2. mpc = "switch" /\ mpc' = "coro" /\ curr' = mtask /\ loop' = loop
      OBVIOUS
    <3> QED
      BY <1>0, <3>1, <3>2 DEF SingleOwner, Active
  <2> QED
    BY <2>1, <2>2, <2>3, <2>4 DEF SingleOwner
<1>3. Held'
  BY <1>0 DEF TypeOK, Held, SingleOwner, Created, Handled, Active, Callers
<1>4. Carries'
  BY <1>0 DEF TypeOK, Carries, SingleOwner, Handled, Held
<1>5. Contexts'
  BY <1>0 DEF TypeOK, Contexts, Suspended, Held
<1>6. ServedOnce'
  BY <1>0 DEF TypeOK, ServedOnce, SingleOwner, Handled, Held
<1> QED
  BY <1>1, <1>2, <1>3, <1>4, <1>5, <1>6

\* The manager switches back into a suspended coroutine.
LEMMA ResumeInv ==
    ASSUME IInv, Resume
    PROVE  IInv'
<1> USE ConstantsAssumption DEF IInv, Resume, ManagerGoto, Move, createVars, workerVars, pipeVars
<1>0. mtask \in Coros /\ place[mtask] = "manager"
  BY SwitchTask
<1>1. TypeOK'
  BY <1>0 DEF TypeOK, ActionT, Place, ManagerPcs, WorkerPcs
<1>2. SingleOwner'
  <2>1. Queued'
    BY <1>0 DEF TypeOK, SingleOwner, Queued
  <2>2. Created'
    BY <1>0 DEF TypeOK, SingleOwner, Created
  <2>3. Handled'
    BY <1>0 DEF TypeOK, SingleOwner, Handled, Held
  <2>4. Active'
    <3>1. \A d \in Coros :
             place'[d] = IF d = mtask THEN "running" ELSE place[d]
      BY <1>0 DEF TypeOK
    <3>2. mpc = "switch" /\ mpc' = "coro" /\ curr' = mtask /\ loop' = loop
      OBVIOUS
    <3> QED
      BY <1>0, <3>1, <3>2 DEF SingleOwner, Active
  <2> QED
    BY <2>1, <2>2, <2>3, <2>4 DEF SingleOwner
<1>3. Held'
  BY <1>0 DEF TypeOK, Held, SingleOwner, Created, Handled, Active, Callers
<1>4. Carries'
  BY <1>0 DEF TypeOK, Carries, SingleOwner, Handled, Held
<1>5. Contexts'
  <2>1. \A d \in Coros :
           place'[d] = IF d = mtask THEN "running" ELSE place[d]
    BY <1>0 DEF TypeOK
  <2>2. Suspended(mtask)
    BY <1>0, ActionFacts DEF Suspended
  <2> QED
    BY <1>0, <2>1, <2>2 DEF Contexts, Suspended
<1>6. ServedOnce'
  BY <1>0 DEF TypeOK, ServedOnce, SingleOwner, Handled, Held
<1> QED
  BY <1>1, <1>2, <1>3, <1>4, <1>5, <1>6

\* The manager frees a coroutine that called crt_exit().
LEMMA FinishInv ==
    ASSUME IInv, Finish
    PROVE  IInv'
<1> USE ConstantsAssumption DEF IInv, Finish, ManagerGoto, Move, createVars, workerVars, pipeVars
<1>0. mtask \in Coros /\ place[mtask] = "exiting" /\ curr = mtask
  BY SwitchTask
<1>1. TypeOK'
  BY <1>0 DEF TypeOK, ActionT, Place, ManagerPcs, WorkerPcs
<1>2. SingleOwner'
  <2>1. Queued'
    BY <1>0 DEF TypeOK, SingleOwner, Queued
  <2>2. Created'
    BY <1>0 DEF TypeOK, SingleOwner, Created
  <2>3. Handled'
    BY <1>0 DEF TypeOK, SingleOwner, Handled, Held
  <2>4. Active'
    BY <1>0 DEF TypeOK, SingleOwner, Active
  <2> QED
    BY <2>1, <2>2, <2>3, <2>4 DEF SingleOwner
<1>3. Held'
  BY <1>0 DEF TypeOK, Held, SingleOwner, Created, Handled, Active, Callers
<1>4. Carries'
  BY <1>0 DEF TypeOK, Carries, SingleOwner, Handled, Held
<1>5. Contexts'
  BY <1>0 DEF TypeOK, Contexts, Suspended, Held
<1>6. ServedOnce'
  BY <1>0 DEF TypeOK, ServedOnce, SingleOwner, Handled, Held
<1> QED
  BY <1>1, <1>2, <1>3, <1>4, <1>5, <1>6

\* The manager is back from a coroutine.
LEMMA BackInv ==
    ASSUME IInv, Back
    PROVE  IInv'
<1> USE ConstantsAssumption DEF IInv, Back, taskVars, createVars, workerVars, pipeVars
<1>0. mtask \in Coros /\ mtask = curr
  BY DEF TypeOK, Held
<1>1. TypeOK'
  BY <1>0 DEF TypeOK, ActionT, Place, ManagerPcs, WorkerPcs
<1>2. SingleOwner'
  <2>1. Queued'
    BY <1>0 DEF TypeOK, SingleOwner, Queued
  <2>2. Created'
    BY <1>0 DEF TypeOK, SingleOwner, Created
  <2>3. Handled'
    BY <1>0 DEF TypeOK, SingleOwner, Handled, Held
  <2>4. Active'
    BY <1>0 DEF TypeOK, SingleOwner, Active
  <2> QED
    BY <2>1, <2>2, <2>3, <2>4 DEF SingleOwner
<1>3. Held'
  <2>1. place[curr] \in {"todo", "doing", "worker", "loop", "waiting", "exiting",
                        "leaked"}
    BY DEF Held
  <2>2. CASE action[mtask] = "finished_coroutine"
    <3>1. place[curr] = "exiting"
      BY <1>0, <2>1, <2>2, ActionFacts DEF Carries, SingleOwner, Handled
    <3> QED
      BY <1>0, <2>2, <3>1 DEF Held
  <2>3. CASE action[mtask] # "finished_coroutine"
    <3>1. \A d \in Coros : place[d] # "exiting" /\ place[d] # "manager"
      BY <1>0, <2>3 DEF Held, Carries
    <3> QED
      BY <1>0, <2>3, <3>1 DEF Held
  <2> QED
    BY <2>2, <2>3
<1>4. Carries'
  BY <1>0 DEF TypeOK, Carries, SingleOwner, Handled, Held
<1>5. Contexts'
  BY <1>0 DEF TypeOK, Contexts, Suspended, Held
<1>6. ServedOnce'
  BY <1>0 DEF TypeOK, ServedOnce, SingleOwner, Handled, Held
<1> QED
  BY <1>1, <1>2, <1>3, <1>4, <1>5, <1>6

\* The running coroutine pushes itself to doing_queue.
LEMMA SubmitInv ==
    ASSUME IInv, NEW op \in Ops, Submit(op)
    PROVE  IInv'
<1> USE ConstantsAssumption DEF IInv, Submit, Running, ManagerGoto, Move, createVars, workerVars, pipeVars
<1>0. curr \in Coros /\ place[curr] = "running" /\ curr \notin Range(doing)
  BY CurrRuns
<1>w. \A v \in Workers : wtask[v] # curr
  BY CurrRuns
<1>1. TypeOK'
  BY AppendFacts, <1>0 DEF TypeOK, ActionT, Place, ManagerPcs, WorkerPcs
<1>2. SingleOwner'
  <2>1. Queued'
    <3>1. /\ Range(doing') = Range(doing) \cup {curr}
          /\ IsInjective(doing')
      BY <1>0, AppendFacts DEF TypeOK, SingleOwner, Queued
    <3>2. \A d \in Coros : place'[d] = IF d = curr THEN "doing" ELSE place[d]
      BY <1>0 DEF TypeOK
    <3> QED
      BY <1>0, <3>1, <3>2 DEF SingleOwner, Queued
  <2>2. Created'
    BY <1>0 DEF TypeOK, SingleOwner, Created
  <2>3. Handled'
    BY <1>0 DEF TypeOK, SingleOwner, Handled, Held
  <2>4. Active'
    BY <1>0 DEF TypeOK, SingleOwner, Active
  <2> QED
    BY <2>1, <2>2, <2>3, <2>4 DEF SingleOwner
<1>3. Held'
  BY <1>0 DEF TypeOK, Held, SingleOwner, Created, Handled, Active, Callers
<1>4. Carries'
  BY <1>0, <1>w, ActionFacts DEF TypeOK, Carries
<1>5. Contexts'
  BY <1>0 DEF TypeOK, Contexts, Suspended, Held
<1>6. ServedOnce'
  <2>1. ASSUME NEW d \in Coros
        PROVE  owed'[d] = IF \/ place'[d] \in {"doing", "loop"}
                             \/ \E v \in Workers : wtask'[v] = d /\ wpc'[v] # "push"
                          THEN 1 ELSE 0
    <3>1. CASE d = curr
      <4>1. owed[curr] = 0
        BY <1>0, <1>w DEF ServedOnce
      <4>2. owed'[curr] = 1 /\ place'[curr] = "doing"
        BY <1>0, <4>1 DEF TypeOK
      <4> QED
        BY <3>1, <4>2
    <3>2. CASE d # curr
      BY <1>0, <1>w, <3>2 DEF TypeOK, ServedOnce
    <3> QED
      BY <3>1, <3>2
  <2> QED
    BY <2>1 DEF ServedOnce
<1> QED
  BY <1>1, <1>2, <1>3, <1>4, <1>5, <1>6

\* The running coroutine writes a byte to a worker's pipe.
LEMMA NotifyWorkerInv ==
    ASSUME IInv, NotifyWorker
    PROVE  IInv'
<1> USE ConstantsAssumption DEF IInv, NotifyWorker, Running, ManagerGoto, taskVars, createVars, workerVars
<1>1. TypeOK'
  BY DEF TypeOK, ActionT, Place, ManagerPcs, WorkerPcs
<1>2. SingleOwner'
  <2>1. Queued'
    BY DEF TypeOK, SingleOwner, Queued
  <2>2. Created'
    BY DEF TypeOK, SingleOwner, Created
  <2>3. Handled'
    BY DEF TypeOK, SingleOwner, Handled, Held
  <2>4. Active'
    BY DEF TypeOK, SingleOwner, Active
  <2> QED
    BY <2>1, <2>2, <2>3, <2>4 DEF SingleOwner
<1>3. Held'
  BY DEF TypeOK, Held, SingleOwner, Created, Handled, Active, Callers
<1>4. Carries'
  BY DEF TypeOK, Carries, SingleOwner, Handled, Held
<1>5. Contexts'
  BY DEF TypeOK, Contexts, Suspended, Held
<1>6. ServedOnce'
  BY DEF TypeOK, ServedOnce, SingleOwner, Handled, Held
<1> QED
  BY <1>1, <1>2, <1>3, <1>4, <1>5, <1>6

\* The running coroutine pushes itself to todo_queue.
LEMMA YieldPushInv ==
    ASSUME IInv, YieldPush
    PROVE  IInv'
<1> USE ConstantsAssumption DEF IInv, YieldPush, Running, ManagerGoto, Move, createVars, workerVars, pipeVars
<1>0. curr \in Coros /\ place[curr] = "running" /\ curr \notin Range(todo)
  BY CurrRuns
<1>w. \A v \in Workers : wtask[v] # curr
  BY CurrRuns
<1>1. TypeOK'
  BY AppendFacts, ActionFacts, <1>0 DEF TypeOK, Place, ManagerPcs
<1>2. SingleOwner'
  <2>1. Queued'
    BY AppendFacts, <1>0 DEF TypeOK, SingleOwner, Queued
  <2>2. Created'
    BY <1>0 DEF TypeOK, SingleOwner, Created
  <2>3. Handled'
    BY <1>0 DEF TypeOK, SingleOwner, Handled, Held
  <2>4. Active'
    BY <1>0 DEF TypeOK, SingleOwner, Active
  <2> QED
    BY <2>1, <2>2, <2>3, <2>4 DEF SingleOwner
<1>3. Held'
  BY <1>0 DEF TypeOK, Held, SingleOwner, Created, Handled, Active, Callers
<1>4. Carries'
  BY <1>0, <1>w, ActionFacts DEF TypeOK, Carries
<1>5. Contexts'
  BY <1>0 DEF TypeOK, Contexts, Suspended, Held
<1>6. ServedOnce'
  BY <1>0 DEF TypeOK, ServedOnce, SingleOwner, Handled, Held
<1> QED
  BY <1>1, <1>2, <1>3, <1>4, <1>5, <1>6

\* The yielding coroutine posts the manager's semaphore.
LEMMA YieldPostInv ==
    ASSUME IInv, YieldPost
    PROVE  IInv'
<1> USE ConstantsAssumption DEF IInv, YieldPost, Running, ManagerGoto, taskVars, createVars, workerVars, pipeVars
<1>1. TypeOK'
  BY DEF TypeOK, ActionT, Place, ManagerPcs, WorkerPcs
<1>2. SingleOwner'
  <2>1. Queued'
    BY DEF TypeOK, SingleOwner, Queued
  <2>2. Created'
    BY DEF TypeOK, SingleOwner, Created
  <2>3. Handled'
    BY DEF TypeOK, SingleOwner, Handled, Held
  <2>4. Active'
    BY DEF TypeOK, SingleOwner, Active
  <2> QED
    BY <2>1, <2>2, <2>3, <2>4 DEF SingleOwner
<1>3. Held'
  BY DEF TypeOK, Held, SingleOwner, Created, Handled, Active, Callers
<1>4. Carries'
  BY DEF TypeOK, Carries, SingleOwner, Handled, Held
<1>5. Contexts'
  BY DEF TypeOK, Contexts, Suspended, Held
<1>6. ServedOnce'
  BY DEF TypeOK, ServedOnce, SingleOwner, Handled, Held
<1> QED
  BY <1>1, <1>2, <1>3, <1>4, <1>5, <1>6

\* swapcontext() saves the coroutine.
LEMMA SwapOutInv ==
    ASSUME IInv, SwapOut
    PROVE  IInv'
<1> USE ConstantsAssumption DEF IInv, SwapOut, Running, ManagerGoto, createVars, workerVars, pipeVars
<1>0. curr \in Coros
  BY DEF TypeOK, Held
<1>1. TypeOK'
  BY <1>0 DEF TypeOK, ActionT, Place, ManagerPcs, WorkerPcs
<1>2. SingleOwner'
  <2>1. Queued'
    BY <1>0 DEF TypeOK, SingleOwner, Queued
  <2>2. Created'
    BY <1>0 DEF TypeOK, SingleOwner, Created
  <2>3. Handled'
    BY <1>0 DEF TypeOK, SingleOwner, Handled, Held
  <2>4. Active'
    BY <1>0 DEF TypeOK, SingleOwner, Active
  <2> QED
    BY <2>1, <2>2, <2>3, <2>4 DEF SingleOwner
<1>3. Held'
  BY <1>0 DEF TypeOK, Held, SingleOwner, Created, Handled, Active, Callers
<1>4. Carries'
  BY <1>0 DEF TypeOK, Carries, SingleOwner, Handled, Held
<1>5. Contexts'
  BY <1>0 DEF TypeOK, Contexts, Suspended, Held
<1>6. ServedOnce'
  BY <1>0 DEF TypeOK, ServedOnce, SingleOwner, Handled, Held
<1> QED
  BY <1>1, <1>2, <1>3, <1>4, <1>5, <1>6

\* The running coroutine calls crt_exit().
LEMMA ExitInv ==
    ASSUME IInv, Exit
    PROVE  IInv'
<1> USE ConstantsAssumption DEF IInv, Exit, Running, ManagerGoto, Move, createVars, workerVars, pipeVars
<1>0. curr \in Coros /\ place[curr] = "running"
  BY CurrRuns
<1>w. \A v \in Workers : wtask[v] # curr
  BY CurrRuns
<1>1. TypeOK'
  BY <1>0 DEF TypeOK, ActionT, Place, ManagerPcs, WorkerPcs
<1>2. SingleOwner'
  <2>1. Queued'
    BY <1>0 DEF TypeOK, SingleOwner, Queued
  <2>2. Created'
    BY <1>0 DEF TypeOK, SingleOwner, Created
  <2>3. Handled'
    BY <1>0 DEF TypeOK, SingleOwner, Handled, Held
  <2>4. Active'
    BY <1>0 DEF TypeOK, SingleOwner, Active
  <2> QED
    BY <2>1, <2>2, <2>3, <2>4 DEF SingleOwner
<1>3. Held'
  BY <1>0 DEF TypeOK, Held, SingleOwner, Created, Handled, Active, Callers
<1>4. Carries'
  BY <1>0, <1>w, ActionFacts DEF TypeOK, Carries
<1>5. Contexts'
  BY <1>0 DEF TypeOK, Contexts, Suspended, Held
<1>6. ServedOnce'
  BY <1>0 DEF TypeOK, ServedOnce, SingleOwner, Handled, Held
<1> QED
  BY <1>1, <1>2, <1>3, <1>4, <1>5, <1>6

\* The coroutine's routine returns without crt_exit().
LEMMA ReturnInv ==
    ASSUME IInv, Return
    PROVE  IInv'
<1> USE ConstantsAssumption DEF IInv, Return, Running, ManagerGoto, Move, createVars, workerVars, pipeVars
<1>0. curr \in Coros /\ place[curr] = "running"
  BY CurrRuns
<1>1. TypeOK'
  BY <1>0 DEF TypeOK, ActionT, Place, ManagerPcs, WorkerPcs
<1>2. SingleOwner'
  <2>1. Queued'
    BY <1>0 DEF TypeOK, SingleOwner, Queued
  <2>2. Created'
    BY <1>0 DEF TypeOK, SingleOwner, Created
  <2>3. Handled'
    BY <1>0 DEF TypeOK, SingleOwner, Handled, Held
  <2>4. Active'
    BY <1>0 DEF TypeOK, SingleOwner, Active
  <2> QED
    BY <2>1, <2>2, <2>3, <2>4 DEF SingleOwner
<1>3. Held'
  BY <1>0 DEF TypeOK, Held, SingleOwner, Created, Handled, Active, Callers
<1>4. Carries'
  BY <1>0 DEF TypeOK, Carries, SingleOwner, Handled, Held
<1>5. Contexts'
  BY <1>0 DEF TypeOK, Contexts, Suspended, Held
<1>6. ServedOnce'
  BY <1>0 DEF TypeOK, ServedOnce, SingleOwner, Handled, Held
<1> QED
  BY <1>1, <1>2, <1>3, <1>4, <1>5, <1>6

\* A worker reads a byte of its pipe.
LEMMA ReadPipeInv ==
    ASSUME IInv, NEW w \in Workers, ReadPipe(w)
    PROVE  IInv'
<1> USE ConstantsAssumption DEF IInv, ReadPipe, WorkerGoto, taskVars, managerVars, createVars
<1>1. TypeOK'
  BY DEF TypeOK, ActionT, Place, ManagerPcs, WorkerPcs
<1>2. SingleOwner'
  <2>1. Queued'
    BY DEF TypeOK, SingleOwner, Queued
  <2>2. Created'
    BY DEF TypeOK, SingleOwner, Created
  <2>3. Handled'
    BY DEF TypeOK, SingleOwner, Handled, Held
  <2>4. Active'
    BY DEF TypeOK, SingleOwner, Active
  <2> QED
    BY <2>1, <2>2, <2>3, <2>4 DEF SingleOwner
<1>3. Held'
  BY DEF TypeOK, Held, SingleOwner, Created, Handled, Active, Callers
<1>4. Carries'
  BY DEF TypeOK, Carries, SingleOwner, Handled, Held
<1>5. Contexts'
  BY DEF TypeOK, Contexts, Suspended, Held
<1>6. ServedOnce'
  BY DEF TypeOK, ServedOnce, SingleOwner, Handled, Held
<1> QED
  BY <1>1, <1>2, <1>3, <1>4, <1>5, <1>6

\* A worker takes the first task of doing_queue.
LEMMA ShiftDoingInv ==
    ASSUME IInv, NEW w \in Workers, ShiftDoing(w)
    PROVE  IInv'
<1> USE ConstantsAssumption DEF IInv, ShiftDoing, WorkerGoto, Move, managerVars, createVars, pipeVars
<1> DEFINE c == Head(doing)
<1>0. c \in Coros /\ place[c] = "doing"
  BY DoingHead
<1>w. wtask[w] = NULL /\ \A v \in Workers : wtask[v] # c
  BY DoingHead DEF TypeOK, Held
<1>f. /\ \A v \in Workers : wtask'[v] = IF v = w THEN c ELSE wtask[v]
      /\ \A v \in Workers : wpc'[v] = IF v = w THEN "do_task" ELSE wpc[v]
      /\ \A d \in Coros : place'[d] = IF d = c THEN "worker" ELSE place[d]
      /\ UNCHANGED <<action, owed, managerVars, createVars>>
  BY <1>0 DEF TypeOK
<1>1. TypeOK'
  BY TailFacts, <1>0 DEF TypeOK, ActionT, Place, ManagerPcs, WorkerPcs
<1>2. SingleOwner'
  <2>1. Queued'
    <3>1. doing \in Seq(Coros) /\ doing # <<>> /\ Queued
      BY DEF TypeOK, SingleOwner
    <3>2. doing' = Tail(doing) /\ todo' = todo
      OBVIOUS
    <3>3. \A d \in Coros : place'[d] = IF d = c THEN "worker" ELSE place[d]
      BY <1>0 DEF TypeOK
    <3>4. Range(doing') = Range(doing) \ {c} /\ IsInjective(doing')
      BY ONLY <3>1, <3>2, TailFacts DEF Queued
    <3> QED
      BY ONLY <1>0, <3>1, <3>2, <3>3, <3>4 DEF Queued
  <2>2. Created'
    BY <1>0 DEF TypeOK, SingleOwner, Created
  <2>3. Handled'
    BY <1>0, <1>w, <1>f DEF SingleOwner, Handled
  <2>4. Active'
    BY <1>0 DEF TypeOK, SingleOwner, Active
  <2> QED
    BY <2>1, <2>2, <2>3, <2>4 DEF SingleOwner
<1>3. Held'
  <2>1. c # NULL /\ Held
    BY <1>0
  <2> QED
    BY <1>0, <1>f, <2>1 DEF Held
<1>4. Carries'
  BY ONLY <1>0, <1>w, <1>f, Carries DEF Carries
<1>5. Contexts'
  BY <1>0 DEF TypeOK, Contexts, Suspended, Held
<1>6. ServedOnce'
  <2>1. ASSUME NEW d \in Coros
        PROVE  owed[d] = IF \/ place'[d] \in {"doing", "loop"}
                            \/ \E v \in Workers : wtask'[v] = d /\ wpc'[v] # "push"
                         THEN 1 ELSE 0
    <3>1. CASE d = c
      BY <1>0, <3>1 DEF TypeOK, ServedOnce
    <3>2. CASE d # c
      BY <1>0, <1>w, <1>f, <3>2 DEF ServedOnce
    <3> QED
      BY <3>1, <3>2
  <2> QED
    BY <2>1 DEF ServedOnce
<1> QED
  BY <1>1, <1>2, <1>3, <1>4, <1>5, <1>6

\* A worker serves a call at once.
LEMMA DoSyncInv ==
    ASSUME IInv, NEW w \in Workers, DoSync(w)
    PROVE  IInv'
<1> USE ConstantsAssumption DEF IInv, DoSync, WorkerGoto, Serve, managerVars, createVars, pipeVars
<1> DEFINE c == wtask[w]
<1>0. c \in Coros /\ place[c] = "worker"
  BY WorkerHolds
<1>1. TypeOK'
  <2>1. TypeOK /\ wpc' = [wpc EXCEPT ![w] = "push"] /\ "push" \in WorkerPcs
    BY DEF WorkerPcs
  <2>2. DoneAction[action[c]] \in ActionT
    BY DoneActionFacts, ActionFacts
  <2>3. /\ action' = [action EXCEPT ![c] = DoneAction[action[c]]]
        /\ owed' = [owed EXCEPT ![c] = owed[c] - 1]
    OBVIOUS
  <2>4. /\ action' \in [Coros -> ActionT] /\ owed' \in [Coros -> Int]
        /\ wpc' \in [Workers -> WorkerPcs]
    BY ONLY <1>0, <2>1, <2>2, <2>3 DEF TypeOK
  <2> QED
    BY ONLY <2>1, <2>4, DoSync(w) DEF TypeOK, DoSync, managerVars, createVars, pipeVars
<1>2. SingleOwner'
  <2>1. Queued'
    BY <1>0 DEF TypeOK, SingleOwner, Queued
  <2>2. Created'
    BY <1>0 DEF TypeOK, SingleOwner, Created
  <2>3. Handled'
    BY <1>0 DEF TypeOK, SingleOwner, Handled, Held
  <2>4. Active'
    BY <1>0 DEF TypeOK, SingleOwner, Active
  <2> QED
    BY <2>1, <2>2, <2>3, <2>4 DEF SingleOwner
<1>3. Held'
  BY <1>0 DEF TypeOK, Held, SingleOwner, Created, Handled, Active, Callers
<1>4. Carries'
  <2>1. action' = [action EXCEPT ![c] = DoneAction[action[c]]]
    OBVIOUS
  <2>2. DoneAction[action[c]] \in Resumable
    BY DoneActionFacts, ActionFacts
  <2>3. \A v \in Workers : wpc'[v] = IF v = w THEN "push" ELSE wpc[v]
    BY DEF TypeOK
  <2>4. \A v \in Workers : wtask[v] = c => v = w
    BY <1>0 DEF SingleOwner, Handled
  <2> QED
    BY <1>0, <2>1, <2>2, <2>3, <2>4 DEF TypeOK, Carries
<1>5. Contexts'
  BY <1>0 DEF TypeOK, Contexts, Suspended, Held
<1>6. ServedOnce'
  BY <1>0 DEF TypeOK, ServedOnce, SingleOwner, Handled, Held
<1> QED
  BY <1>1, <1>2, <1>3, <1>4, <1>5, <1>6

\* A worker starts a call in its event loop.
LEMMA DoAsyncInv ==
    ASSUME IInv, NEW w \in Workers, DoAsync(w)
    PROVE  IInv'
<1> USE ConstantsAssumption DEF IInv, DoAsync, WorkerGoto, Move, managerVars, createVars, pipeVars
<1> DEFINE c == wtask[w]
<1>0. c \in Coros /\ place[c] = "worker"
  BY WorkerHolds
<1>1. TypeOK'
  BY <1>0 DEF TypeOK, ActionT, Place, ManagerPcs, WorkerPcs
<1>2. SingleOwner'
  <2>1. Queued'
    BY <1>0 DEF TypeOK, SingleOwner, Queued
  <2>2. Created'
    BY <1>0 DEF TypeOK, SingleOwner, Created
  <2>3. Handled'
    BY <1>0 DEF TypeOK, SingleOwner, Handled, Held
  <2>4. Active'
    BY <1>0 DEF TypeOK, SingleOwner, Active
  <2> QED
    BY <2>1, <2>2, <2>3, <2>4 DEF SingleOwner
<1>3. Held'
  BY <1>0 DEF TypeOK, Held, SingleOwner, Created, Handled, Active, Callers
<1>4. Carries'
  BY <1>0 DEF TypeOK, Carries, SingleOwner, Handled, Held
<1>5. Contexts'
  BY <1>0 DEF TypeOK, Contexts, Suspended, Held
<1>6. ServedOnce'
  BY <1>0 DEF TypeOK, ServedOnce, SingleOwner, Handled, Held
<1> QED
  BY <1>1, <1>2, <1>3, <1>4, <1>5, <1>6

\* A worker's loop calls the last callback of a call.
LEMMA CallbackInv ==
    ASSUME IInv, NEW w \in Workers, NEW c \in Coros, Callback(w, c)
    PROVE  IInv'
<1> USE ConstantsAssumption DEF IInv, Callback, WorkerGoto, Move, Serve, managerVars, createVars, pipeVars
<1>0. place[c] = "loop" /\ action[c] \in AsyncOps
  BY LoopTask
<1>w. wtask[w] = NULL /\ \A v \in Workers : wtask[v] # c
  BY LoopTask DEF TypeOK, Held
<1>d. /\ action' = [action EXCEPT ![c] = DoneAction[action[c]]]
      /\ DoneAction[action[c]] \in Resumable
  BY <1>0, DoneActionFacts, ActionFacts
<1>1. TypeOK'
  BY <1>0, <1>d, ActionFacts DEF TypeOK, Place, WorkerPcs
<1>2. SingleOwner'
  <2>1. Queued'
    BY <1>0 DEF TypeOK, SingleOwner, Queued
  <2>2. Created'
    BY <1>0 DEF TypeOK, SingleOwner, Created
  <2>3. Handled'
    <3>1. \A v \in Workers : wtask'[v] = IF v = w THEN c ELSE wtask[v]
      BY DEF TypeOK
    <3>2. \A d \in Coros : place'[d] = IF d = c THEN "worker" ELSE place[d]
      BY <1>0 DEF TypeOK
    <3> QED
      BY <1>0, <1>w, <3>1, <3>2 DEF SingleOwner, Handled
  <2>4. Active'
    BY <1>0 DEF TypeOK, SingleOwner, Active
  <2> QED
    BY <2>1, <2>2, <2>3, <2>4 DEF SingleOwner
<1>3. Held'
  BY <1>0 DEF TypeOK, Held, SingleOwner, Created, Handled, Active, Callers
<1>4. Carries'
  <2>1. \A v \in Workers : wpc'[v] = IF v = w THEN "push" ELSE wpc[v]
    BY DEF TypeOK
  <2>2. \A v \in Workers : wtask'[v] = IF v = w THEN c ELSE wtask[v]
    BY DEF TypeOK
  <2>3. \A d \in Coros : place'[d] = IF d = c THEN "worker" ELSE place[d]
    BY <1>0 DEF TypeOK
  <2>4. \A d \in Coros : d # c => action'[d] = action[d]
    BY <1>d DEF TypeOK
  <2>5. action'[c] \in Resumable
    BY <1>d DEF TypeOK
  <2> QED
    BY <1>0, <1>w, <2>1, <2>2, <2>3, <2>4, <2>5 DEF Carries
<1>5. Contexts'
  BY <1>0 DEF TypeOK, Contexts, Suspended, Held
<1>6. ServedOnce'
  <2>1. ASSUME NEW d \in Coros
        PROVE  owed'[d] = IF \/ place'[d] \in {"doing", "loop"}
                             \/ \E v \in Workers : wtask'[v] = d /\ wpc'[v] # "push"
                          THEN 1 ELSE 0
    <3>1. CASE d = c
      BY <1>0, <1>w, <3>1 DEF TypeOK, ServedOnce
    <3>2. CASE d # c
      BY <1>0, <1>w, <3>2 DEF TypeOK, ServedOnce
    <3> QED
      BY <3>1, <3>2
  <2> QED
    BY <2>1 DEF ServedOnce
<1> QED
  BY <1>1, <1>2, <1>3, <1>4, <1>5, <1>6

\* A worker pushes a served task to todo_queue.
LEMMA PushTodoInv ==
    ASSUME IInv, NEW w \in Workers, PushTodo(w)
    PROVE  IInv'
<1> USE ConstantsAssumption DEF IInv, PushTodo, WorkerGoto, Move, managerVars, createVars, pipeVars
<1> DEFINE c == wtask[w]
<1>0. c \in Coros /\ place[c] = "worker" /\ c \notin Range(todo)
  BY WorkerHolds
<1>1. TypeOK'
  BY AppendFacts, <1>0 DEF TypeOK, ActionT, Place, ManagerPcs, WorkerPcs
<1>2. SingleOwner'
  <2>1. Queued'
    BY AppendFacts, <1>0 DEF TypeOK, SingleOwner, Queued
  <2>2. Created'
    BY <1>0 DEF TypeOK, SingleOwner, Created
  <2>3. Handled'
    BY <1>0 DEF TypeOK, SingleOwner, Handled, Held
  <2>4. Active'
    BY <1>0 DEF TypeOK, SingleOwner, Active
  <2> QED
    BY <2>1, <2>2, <2>3, <2>4 DEF SingleOwner
<1>3. Held'
  BY <1>0 DEF TypeOK, Held, SingleOwner, Created, Handled, Active, Callers
<1>4. Carries'
  BY <1>0 DEF TypeOK, Carries, SingleOwner, Handled, Held
<1>5. Contexts'
  <2>1. action[c] # "new_coroutine"
    BY <1>0, ActionFacts DEF Carries
  <2>2. \A d \in Coros : place'[d] = IF d = c THEN "todo" ELSE place[d]
    BY <1>0 DEF TypeOK
  <2> QED
    BY <1>0, <2>1, <2>2 DEF Contexts, Suspended
<1>6. ServedOnce'
  BY <1>0 DEF TypeOK, ServedOnce, SingleOwner, Handled, Held
<1> QED
  BY <1>1, <1>2, <1>3, <1>4, <1>5, <1>6

\* A worker posts the manager's semaphore.
LEMMA PostManagerInv ==
    ASSUME IInv, NEW w \in Workers, PostManager(w)
    PROVE  IInv'
<1> USE ConstantsAssumption DEF IInv, PostManager, WorkerGoto, taskVars, managerVars, createVars, pipeVars
<1>1. TypeOK'
  BY DEF TypeOK, ActionT, Place, ManagerPcs, WorkerPcs
<1>2. SingleOwner'
  <2>1. Queued'
    BY DEF TypeOK, SingleOwner, Queued
  <2>2. Created'
    BY DEF TypeOK, SingleOwner, Created
  <2>3. Handled'
    BY DEF TypeOK, SingleOwner, Handled, Held
  <2>4. Active'
    BY DEF TypeOK, SingleOwner, Active
  <2> QED
    BY <2>1, <2>2, <2>3, <2>4 DEF SingleOwner
<1>3. Held'
  BY DEF TypeOK, Held, SingleOwner, Created, Handled, Active, Callers
<1>4. Carries'
  BY DEF TypeOK, Carries, SingleOwner, Handled, Held
<1>5. Contexts'
  BY DEF TypeOK, Contexts, Suspended, Held
<1>6. ServedOnce'
  BY DEF TypeOK, ServedOnce, SingleOwner, Handled, Held
<1> QED
  BY <1>1, <1>2, <1>3, <1>4, <1>5, <1>6


\* One step of any thread preserves the inductive invariant.
LEMMA NextInv == IInv /\ [Next]_vars => IInv'
<1> SUFFICES ASSUME IInv, [Next]_vars PROVE IInv'
  OBVIOUS
<1>1. ASSUME NEW t \in Callers, Create(t) PROVE IInv'
  BY <1>1, CreateAllocInv, CreatePushInv, CreatePostInv DEF Create
<1>2. CASE ManagerLoop
  BY <1>2, SemWaitInv, ShiftTodoInv, LaunchInv, ResumeInv, FinishInv, BackInv
     DEF ManagerLoop
<1>3. CASE Coroutine
  BY <1>3, SubmitInv, NotifyWorkerInv, YieldPushInv, YieldPostInv, SwapOutInv,
     ExitInv, ReturnInv DEF Coroutine
<1>4. ASSUME NEW w \in Workers, Worker(w) PROVE IInv'
  BY <1>4, ReadPipeInv, ShiftDoingInv, DoSyncInv, DoAsyncInv, CallbackInv,
     PushTodoInv, PostManagerInv DEF Worker
<1>5. CASE UNCHANGED vars
  <2> USE <1>5 DEF vars, taskVars, managerVars, createVars, workerVars, pipeVars
  <2>1. TypeOK' /\ SingleOwner'
    BY DEF IInv, TypeOK, SingleOwner, Queued, Created, Handled, Active
  <2>2. Held' /\ Carries'
    BY DEF IInv, Held, Carries
  <2>3. Contexts' /\ ServedOnce'
    BY DEF IInv, Contexts, Suspended, ServedOnce
  <2> QED
    BY <2>1, <2>2, <2>3 DEF IInv
<1> QED
  BY <1>1, <1>2, <1>3, <1>4, <1>5 DEF Next

\* IInv holds in every reachable state.
THEOREM InvHolds == Spec => []IInv
BY InitInv, NextInv, PTL DEF Spec

\* Every variable keeps its type.
THEOREM TypeCorrect == Spec => []TypeOK
<1>1. IInv => TypeOK
  BY DEF IInv
<1> QED
  BY <1>1, InvHolds, PTL

\* No task structure is ever reachable by two threads, or linked in two
\* queues or twice in one.
THEOREM SingleOwnership == Spec => []SingleOwner
<1>1. IInv => SingleOwner
  BY DEF IInv
<1> QED
  BY <1>1, InvHolds, PTL

\* A task the manager is about to resume is saved and has its stack.
LEMMA ContextSavedInv == IInv => ContextSaved
BY ActionFacts DEF IInv, ContextSaved, Held, Carries, Contexts, Suspended, TypeOK

\* The manager only switches to a coroutine whose context swapcontext() has
\* saved, although the task was handed over before that.
THEOREM ContextsSaved == Spec => []ContextSaved
BY ContextSavedInv, InvHolds, PTL

\* Every call is served exactly once between hand-over and resumption.
THEOREM CallsServedOnce == Spec => []ServedOnce
<1>1. IInv => ServedOnce
  BY DEF IInv
<1> QED
  BY <1>1, InvHolds, PTL

-----------------------------------------------------------------------------
(* Semaphore units and pipe bytes.                                         *)

\* How the number of threads at a point changes when one of them moves.
LEMMA PcCount ==
    ASSUME NEW f, NEW g, NEW x \in DOMAIN f, NEW p,
           IsFiniteSet(DOMAIN f), DOMAIN g = DOMAIN f,
           \A y \in DOMAIN f : y # x => g[y] = f[y]
    PROVE  Cardinality(At(g, p)) =
             IF f[x] = p THEN IF g[x] = p THEN Cardinality(At(f, p))
                                          ELSE Cardinality(At(f, p)) - 1
                         ELSE IF g[x] = p THEN Cardinality(At(f, p)) + 1
                                          ELSE Cardinality(At(f, p))
<1>1. IsFiniteSet(At(f, p))
  <2>1. At(f, p) \in SUBSET DOMAIN f
    BY DEF At
  <2> QED
    BY <2>1, FS_Subset
<1>2. x \in At(f, p) <=> f[x] = p
  BY DEF At
<1>3. CASE g[x] = p
  <2>1. At(g, p) = At(f, p) \cup {x}
    BY <1>3 DEF At
  <2> QED
    BY <1>1, <1>2, <1>3, <2>1, FS_AddElement
<1>4. CASE g[x] # p
  <2>1. At(g, p) = At(f, p) \ {x}
    BY <1>4 DEF At
  <2> QED
    BY <1>1, <1>2, <1>4, <2>1, FS_RemoveElement
<1> QED
  BY <1>3, <1>4

\* There are finitely many threads.
LEMMA FiniteThreads == IsFiniteSet(Callers) /\ IsFiniteSet(Workers)
BY ConstantsAssumption, FS_AddElement, FS_Interval DEF Callers, Workers

\* The bytes in the pipes can be counted, and a new ticket is not among them.
LEMMA BytesFacts ==
    ASSUME TypeOK
    PROVE  IsFiniteSet(bytes) /\ Cardinality(bytes) \in Nat /\ bgid \notin bytes
<1>0. 0 \in Int /\ bgid - 1 \in Int
  BY DEF TypeOK
<1>1. IsFiniteSet(0 .. bgid - 1) /\ bytes \in SUBSET (0 .. bgid - 1)
  BY <1>0, FS_Interval DEF TypeOK
<1>2. bgid \notin bytes
  BY <1>1 DEF TypeOK
<1> QED
  BY <1>1, <1>2, FS_Subset, FS_CardinalityType

\* The threads at a point can be counted.
LEMMA CallerCounts == TypeOK => Cardinality(At(cpc, "post")) \in Nat
<1> SUFFICES ASSUME TypeOK PROVE Cardinality(At(cpc, "post")) \in Nat
  OBVIOUS
<1>1. At(cpc, "post") \in SUBSET Callers
  BY DEF At, TypeOK
<1> QED
  BY <1>1, FiniteThreads, FS_Subset, FS_CardinalityType

\* The workers between a push and its post, or a read and its shift, are
\* finitely many.
LEMMA WorkerCounts ==
    TypeOK => /\ Cardinality(At(wpc, "post")) \in Nat
              /\ Cardinality(At(wpc, "shift")) \in Nat
<1> SUFFICES ASSUME TypeOK
             PROVE  /\ Cardinality(At(wpc, "post")) \in Nat
                    /\ Cardinality(At(wpc, "shift")) \in Nat
  OBVIOUS
<1>1. At(wpc, "post") \in SUBSET Workers /\ At(wpc, "shift") \in SUBSET Workers
  BY DEF At, TypeOK
<1> QED
  BY <1>1, FiniteThreads, FS_Subset, FS_CardinalityType

\* What a caller's and a worker's step do to those numbers.
LEMMA CallerMoves ==
    ASSUME TypeOK, NEW t \in Callers, NEW q, cpc' = [cpc EXCEPT ![t] = q]
    PROVE  Cardinality(At(cpc', "post")) =
             IF cpc[t] = "post" THEN IF q = "post" THEN Cardinality(At(cpc, "post"))
                                       ELSE Cardinality(At(cpc, "post")) - 1
                         ELSE IF q = "post" THEN Cardinality(At(cpc, "post")) + 1
                                       ELSE Cardinality(At(cpc, "post"))
<1>1. DOMAIN cpc = Callers
  BY DEF TypeOK
<1>2. IsFiniteSet(DOMAIN cpc) /\ t \in DOMAIN cpc
  BY <1>1, FiniteThreads, Zenon
<1>3. /\ DOMAIN cpc' = DOMAIN cpc
      /\ \A u \in DOMAIN cpc : u # t => cpc'[u] = cpc[u]
  BY DEF TypeOK
<1>4. cpc'[t] = q
  BY DEF TypeOK
<1>5. Cardinality(At(cpc', "post")) =
        IF cpc[t] = "post" THEN IF cpc'[t] = "post" THEN Cardinality(At(cpc, "post"))
                                        ELSE Cardinality(At(cpc, "post")) - 1
                       ELSE IF cpc'[t] = "post" THEN Cardinality(At(cpc, "post")) + 1
                                        ELSE Cardinality(At(cpc, "post"))
  BY ONLY <1>2, <1>3, PcCount
<1> QED
  BY <1>4, <1>5

\* A worker's step changes those numbers by at most one.
LEMMA WorkerMoves ==
    ASSUME TypeOK, NEW w \in Workers, NEW p, NEW q, wpc' = [wpc EXCEPT ![w] = q]
    PROVE  Cardinality(At(wpc', p)) =
             IF wpc[w] = p THEN IF q = p THEN Cardinality(At(wpc, p))
                                       ELSE Cardinality(At(wpc, p)) - 1
                         ELSE IF q = p THEN Cardinality(At(wpc, p)) + 1
                                       ELSE Cardinality(At(wpc, p))
<1>1. DOMAIN wpc = Workers
  BY DEF TypeOK
<1>2. IsFiniteSet(DOMAIN wpc) /\ w \in DOMAIN wpc
  BY <1>1, FiniteThreads, Zenon
<1>3. /\ DOMAIN wpc' = DOMAIN wpc
      /\ \A v \in DOMAIN wpc : v # w => wpc'[v] = wpc[v]
  BY DEF TypeOK
<1>4. wpc'[w] = q
  BY DEF TypeOK
<1>5. Cardinality(At(wpc', p)) =
        IF wpc[w] = p THEN IF wpc'[w] = p THEN Cardinality(At(wpc, p))
                                        ELSE Cardinality(At(wpc, p)) - 1
                       ELSE IF wpc'[w] = p THEN Cardinality(At(wpc, p)) + 1
                                        ELSE Cardinality(At(wpc, p))
  BY ONLY <1>2, <1>3, PcCount
<1> QED
  BY <1>4, <1>5

\* At the start there are no tokens and no queued tasks.
LEMMA InitTokens == Init => TokensMatch
<1> SUFFICES ASSUME Init PROVE TokensMatch
  OBVIOUS
<1>1. At(cpc, "post") = {} /\ At(wpc, "post") = {} /\ At(wpc, "shift") = {}
  BY DEF Init, At
<1>2. /\ Len(todo) = 0 /\ Len(doing) = 0 /\ sem = 0 /\ bytes = {}
      /\ mpc = "sem_wait"
  BY DEF Init
<1>3. /\ Cardinality(At(cpc, "post")) = 0
      /\ Cardinality(At(wpc, "post")) = 0
      /\ Cardinality(At(wpc, "shift")) = 0
      /\ Cardinality(bytes) = 0
  BY <1>1, <1>2, FS_EmptySet, Zenon
<1> QED
  BY <1>2, <1>3 DEF TokensMatch

\* crt_create(): the push is counted by the caller at "post" until the post.
LEMMA CreateTokens ==
    ASSUME IInv, TokensMatch, NEW t \in Callers, Create(t)
    PROVE  TokensMatch'
<1> DEFINE n == Cardinality(At(cpc, "post"))
<1> USE DEF IInv, taskVars, managerVars, workerVars, pipeVars
<1>0. n \in Nat
  BY CallerCounts
<1>1. ASSUME NEW c \in Coros, CreateAlloc(t, c) PROVE TokensMatch'
  <2>1. Cardinality(At(cpc, "post"))' = n
    <3>1. cpc[t] = "idle" /\ cpc' = [cpc EXCEPT ![t] = "push"]
      BY <1>1 DEF CreateAlloc
    <3>2. At(cpc', "post") = At(cpc, "post")
      BY <3>1 DEF At, TypeOK
    <3> QED
      BY <3>2, Zenon
  <2> QED
    BY <1>1, <2>1 DEF CreateAlloc, TokensMatch
<1>2. CASE CreatePush(t)
  <2>1. n \in Nat /\ Cardinality(At(cpc, "post"))' = n + 1
    <3>1. cpc[t] = "push" /\ cpc' = [cpc EXCEPT ![t] = "post"]
      BY <1>2 DEF CreatePush
    <3> QED
      BY <1>0, <3>1, CallerMoves
  <2>2. Len(todo') = Len(todo) + 1
    BY <1>2, AppendFacts DEF CreatePush, TypeOK, Held
  <2>3. Cardinality(At(wpc, "post")) \in Nat /\ sem \in Nat
    BY WorkerCounts DEF TypeOK
  <2> QED
    BY <1>2, <2>1, <2>2, <2>3 DEF CreatePush, TokensMatch
<1>3. CASE CreatePost(t)
  <2>1. n \in Nat /\ Cardinality(At(cpc, "post"))' = n - 1
    <3>1. cpc[t] = "post" /\ cpc' = [cpc EXCEPT ![t] = "idle"]
      BY <1>3 DEF CreatePost
    <3> QED
      BY <1>0, <3>1, CallerMoves
  <2>3. Cardinality(At(wpc, "post")) \in Nat /\ sem \in Nat
    BY WorkerCounts DEF TypeOK
  <2> QED
    BY <1>3, <2>1, <2>3 DEF CreatePost, TokensMatch
<1> QED
  BY <1>1, <1>2, <1>3 DEF Create

\* The manager thread's loop: a unit it has taken stands for the task it is
\* about to shift.
LEMMA ManagerTokens ==
    ASSUME IInv, TokensMatch, ManagerLoop
    PROVE  TokensMatch'
<1> USE DEF IInv, ManagerGoto, taskVars, createVars, workerVars, pipeVars
<1>0. /\ Cardinality(At(cpc, "post")) \in Nat
      /\ Cardinality(At(wpc, "post")) \in Nat
      /\ sem \in Nat
  BY WorkerCounts, CallerCounts DEF TypeOK
<1>1. CASE SemWait
  BY <1>0, <1>1 DEF SemWait, TokensMatch
<1>2. CASE ShiftTodo
  <2>1. Len(todo') = Len(todo) - 1 /\ Len(todo) \in Nat
    BY <1>2, TailFacts DEF ShiftTodo, TypeOK
  <2> QED
    BY <1>0, <1>2, <2>1 DEF ShiftTodo, TokensMatch
<1>3. CASE Launch
  BY <1>3 DEF Launch, TokensMatch
<1>4. CASE Resume
  BY <1>4 DEF Resume, TokensMatch
<1>5. CASE Finish
  BY <1>5 DEF Finish, TokensMatch
<1>6. CASE Back
  BY <1>6 DEF Back, TokensMatch
<1> QED
  BY <1>1, <1>2, <1>3, <1>4, <1>5, <1>6 DEF ManagerLoop

\* A running coroutine: "notify" and "yield_post" stand for the byte and the
\* unit that are still missing.
LEMMA CoroutineTokens ==
    ASSUME IInv, TokensMatch, Coroutine
    PROVE  TokensMatch'
<1> USE DEF IInv, Running, ManagerGoto, taskVars, createVars, workerVars,
        pipeVars
<1>0. /\ Cardinality(At(cpc, "post")) \in Nat
      /\ Cardinality(At(wpc, "post")) \in Nat
      /\ Cardinality(At(wpc, "shift")) \in Nat
      /\ Cardinality(bytes) \in Nat
      /\ sem \in Nat
  BY WorkerCounts, CallerCounts, BytesFacts DEF TypeOK
<1>1. ASSUME NEW op \in Ops, Submit(op) PROVE TokensMatch'
  <2>1. Len(doing') = Len(doing) + 1
    BY <1>1, AppendFacts DEF Submit, TypeOK, Held
  <2> QED
    BY <1>0, <1>1, <2>1 DEF Submit, TokensMatch
<1>2. CASE NotifyWorker
  <2>1. Cardinality(bytes') = Cardinality(bytes) + 1
    BY <1>2, BytesFacts, FS_AddElement DEF NotifyWorker
  <2> QED
    <3>1. /\ mpc = "notify" /\ mpc' = "swap" /\ cpc' = cpc /\ wpc' = wpc
          /\ todo' = todo /\ doing' = doing /\ sem' = sem
      BY <1>2 DEF NotifyWorker
    <3>2. Len(doing) = Cardinality(bytes) + Cardinality(At(wpc, "shift")) + 1
      BY <3>1 DEF TokensMatch
    <3>3. Len(doing') = Cardinality(bytes') + Cardinality(At(wpc', "shift")) + 0
      BY <1>0, <2>1, <3>1, <3>2
    <3> QED
      BY <3>1, <3>3 DEF TokensMatch
<1>3. CASE YieldPush
  <2>1. Len(todo') = Len(todo) + 1
    BY <1>3, AppendFacts DEF YieldPush, TypeOK, Held
  <2> QED
    BY <1>0, <1>3, <2>1 DEF YieldPush, TokensMatch
<1>4. CASE YieldPost
  BY <1>0, <1>4 DEF YieldPost, TokensMatch
<1>5. CASE SwapOut
  BY <1>5 DEF SwapOut, TokensMatch
<1>6. CASE Exit
  BY <1>6 DEF Exit, TokensMatch
<1>7. CASE Return
  BY <1>7 DEF Return, TokensMatch
<1> QED
  BY <1>1, <1>2, <1>3, <1>4, <1>5, <1>6, <1>7 DEF Coroutine

\* A worker: a byte it has read stands for the task it is about to shift, a
\* task it has pushed for the unit it is about to post.
LEMMA WorkerTokens ==
    ASSUME IInv, TokensMatch, NEW w \in Workers, Worker(w)
    PROVE  TokensMatch'
<1> DEFINE n == Cardinality(At(wpc, "post"))
<1> DEFINE k == Cardinality(At(wpc, "shift"))
<1> USE DEF IInv, taskVars, managerVars, createVars, pipeVars
<1>0. /\ Cardinality(At(cpc, "post")) \in Nat
      /\ n \in Nat
      /\ k \in Nat
      /\ Cardinality(bytes) \in Nat
      /\ sem \in Nat
  BY WorkerCounts, CallerCounts, BytesFacts DEF TypeOK
<1>g. ASSUME NEW from, NEW to \in WorkerPcs, WorkerGoto(w, from, to)
      PROVE  /\ n' = IF from = "post" THEN IF to = "post" THEN n ELSE n - 1
                                      ELSE IF to = "post" THEN n + 1 ELSE n
             /\ k' = IF from = "shift" THEN IF to = "shift" THEN k ELSE k - 1
                                       ELSE IF to = "shift" THEN k + 1 ELSE k
  BY <1>g, WorkerMoves DEF WorkerGoto
<1>1. CASE ReadPipe(w)
  <2>1. n' = n /\ k' = k + 1
    BY <1>1, <1>g DEF ReadPipe, WorkerPcs
  <2>2. PICK b \in Pipe(w) : bytes' = bytes \ {b}
    BY <1>1 DEF ReadPipe
  <2>3. Cardinality(bytes') = Cardinality(bytes) - 1
    BY <2>2, BytesFacts, FS_RemoveElement DEF Pipe
  <2> QED
    BY <1>0, <1>1, <2>1, <2>3, SMTT(30) DEF ReadPipe, TokensMatch
<1>2. CASE ShiftDoing(w)
  <2>1. n' = n /\ k' = k - 1
    BY <1>2, <1>g DEF ShiftDoing, WorkerPcs
  <2>2. Len(doing') = Len(doing) - 1 /\ Len(doing) \in Nat
    BY <1>2, TailFacts DEF ShiftDoing, TypeOK
  <2> QED
    BY <1>0, <1>2, <2>1, <2>2, SMTT(30) DEF ShiftDoing, TokensMatch
<1>3. CASE DoSync(w)
  <2>1. n' = n /\ k' = k
    BY <1>3, <1>g DEF DoSync, WorkerPcs
  <2> QED
    BY <1>3, <2>1 DEF DoSync, TokensMatch
<1>4. CASE DoAsync(w)
  <2>1. n' = n /\ k' = k
    BY <1>4, <1>g DEF DoAsync, WorkerPcs
  <2> QED
    BY <1>4, <2>1 DEF DoAsync, TokensMatch
<1>5. ASSUME NEW c \in Coros, Callback(w, c) PROVE TokensMatch'
  <2>1. n' = n /\ k' = k
    BY <1>5, <1>g DEF Callback, WorkerPcs
  <2> QED
    BY <1>5, <2>1 DEF Callback, TokensMatch
<1>6. CASE PushTodo(w)
  <2>1. n' = n + 1 /\ k' = k
    BY <1>6, <1>g DEF PushTodo, WorkerPcs
  <2>2. Len(todo') = Len(todo) + 1
    BY <1>6, AppendFacts DEF PushTodo, WorkerGoto, TypeOK, Held
  <2>3. mpc' = mpc /\ cpc' = cpc /\ sem' = sem /\ doing' = doing /\ bytes' = bytes
    BY <1>6 DEF PushTodo
  <2> QED
    BY ONLY <1>0, TokensMatch, <2>1, <2>2, <2>3 DEF TokensMatch
<1>7. CASE PostManager(w)
  <2>1. n' = n - 1 /\ k' = k
    BY <1>7, <1>g DEF PostManager, WorkerPcs
  <2>2. /\ mpc' = mpc /\ cpc' = cpc /\ sem' = sem + 1
        /\ todo' = todo /\ doing' = doing /\ bytes' = bytes
    BY <1>7 DEF PostManager
  <2> QED
    BY ONLY <1>0, TokensMatch, <2>1, <2>2 DEF TokensMatch
<1> QED
  BY <1>1, <1>2, <1>3, <1>4, <1>5, <1>6, <1>7 DEF Worker

\* Semaphore units and pipe bytes cover the two queues exactly.
THEOREM TokensCoverQueues == Spec => []TokensMatch
<1>1. IInv /\ TokensMatch /\ [Next]_vars => TokensMatch'
  <2> SUFFICES ASSUME IInv, TokensMatch, [Next]_vars PROVE TokensMatch'
    OBVIOUS
  <2>1. CASE UNCHANGED vars
    BY <2>1 DEF vars, managerVars, createVars, workerVars, pipeVars, TokensMatch
  <2> QED
    BY <2>1, CreateTokens, ManagerTokens, CoroutineTokens, WorkerTokens DEF Next
<1> QED
  BY <1>1, InitTokens, InvHolds, PTL DEF Spec

\* A worker that has read its byte finds a task to shift.
LEMMA ShiftFindsTask ==
    ASSUME IInv, TokensMatch, NEW w \in Workers, wpc[w] = "shift"
    PROVE  doing # <<>>
<1>1. w \in At(wpc, "shift")
  BY DEF At, IInv, TypeOK
<1>2. IsFiniteSet(At(wpc, "shift"))
  <2>1. At(wpc, "shift") \in SUBSET Workers
    BY DEF At, IInv, TypeOK
  <2> QED
    BY <2>1, FiniteThreads, FS_Subset
<1>3. Cardinality(At(wpc, "shift")) # 0
  BY <1>1, <1>2, FS_EmptySet
<1>4. Cardinality(At(wpc, "shift")) \in Nat /\ Cardinality(bytes) \in Nat
  BY WorkerCounts, BytesFacts DEF IInv
<1>5. Len(doing) # 0
  BY <1>3, <1>4 DEF TokensMatch
<1> QED
  BY <1>5

\* Tokens that match leave no thread before an empty queue, and the places
\* give every task an action its thread expects.
LEMMA NoAbortInv == IInv /\ TokensMatch => NoAbort
<1> SUFFICES ASSUME IInv, TokensMatch PROVE NoAbort
  OBVIOUS
<1>1. ASSUME mpc = "shift" PROVE todo # <<>>
  <2>1. /\ Cardinality(At(cpc, "post")) \in Nat
        /\ Cardinality(At(wpc, "post")) \in Nat
        /\ sem \in Nat
    BY CallerCounts, WorkerCounts DEF IInv, TypeOK
  <2>2. Len(todo) # 0
    BY <1>1, <2>1 DEF TokensMatch
  <2> QED
    BY <2>2
<1>2. ASSUME mpc = "switch"
      PROVE  action[mtask] \in
               Resumable \cup {"new_coroutine", "finished_coroutine"}
  BY <1>2 DEF IInv, Held, Carries, TypeOK
<1>3. ASSUME NEW w \in Workers, wpc[w] = "do_task"
      PROVE  action[wtask[w]] \in AllOps
  BY <1>3 DEF IInv, Held, Carries, TypeOK
<1> QED
  BY <1>1, <1>2, <1>3, ShiftFindsTask DEF NoAbort

\* No assertion on a shifted task and no abort() on a task's action is ever
\* reached, by the manager or by a worker.
THEOREM NeverAborts == Spec => []NoAbort
BY NoAbortInv, InvHolds, TokensCoverQueues, PTL

\* A queue without repetitions is no longer than the set it draws from.
LEMMA InjectiveLen ==
    ASSUME NEW S, IsFiniteSet(S), NEW s \in Seq(S), IsInjective(s)
    PROVE  Len(s) <= Cardinality(S)
<1>1. Len(s) \in Nat /\ DOMAIN s = 1 .. Len(s) /\ s \in [1 .. Len(s) -> S]
  OBVIOUS
<1>2. s \in Injection(1 .. Len(s), S)
  BY <1>1 DEF Injection
<1>3. Cardinality(1 .. Len(s)) = Len(s)
  BY <1>1, FS_Interval
<1>4. Cardinality(1 .. Len(s)) <= Cardinality(S)
  BY <1>2, FS_Injection
<1> QED
  BY <1>3, <1>4

\* As long as a pipe holds as many bytes as there are coroutines, however many
\* workers share them, the write of the notification byte never finds the pipe
\* full, and the assertion at acoro.c:1217 holds.
THEOREM PipesNeverFill ==
    ASSUME Cardinality(Coros) <= PipeCap
    PROVE  Spec => []PipeHasRoom
<1>1. IInv /\ TokensMatch => PipeHasRoom
  <2> SUFFICES ASSUME IInv, TokensMatch, mpc = "notify"
               PROVE  Cardinality(Pipe(PipeOf(bgid))) < PipeCap
    BY DEF PipeHasRoom
  <2>1. Len(doing) <= Cardinality(Coros)
    BY InjectiveLen, ConstantsAssumption
       DEF IInv, TypeOK, SingleOwner, Queued
  <2>2. /\ IsFiniteSet(bytes) /\ Cardinality(bytes) \in Nat
        /\ Cardinality(At(wpc, "shift")) \in Nat
    BY BytesFacts, WorkerCounts DEF IInv
  <2>3. Pipe(PipeOf(bgid)) \in SUBSET bytes
    BY DEF Pipe
  <2>4. /\ Cardinality(Pipe(PipeOf(bgid))) \in Nat
        /\ Cardinality(Pipe(PipeOf(bgid))) <= Cardinality(bytes)
    BY <2>2, <2>3, FS_Subset, FS_CardinalityType
  <2>5. Cardinality(Coros) \in Nat /\ PipeCap \in Nat
    BY ConstantsAssumption, FS_CardinalityType
  <2>6. Len(doing) = Cardinality(bytes) + Cardinality(At(wpc, "shift")) + 1
    BY DEF TokensMatch
  <2> QED
    BY <2>1, <2>2, <2>4, <2>5, <2>6
<1> QED
  BY <1>1, InvHolds, TokensCoverQueues, PTL

-----------------------------------------------------------------------------
(* Counting coroutines. *)

\* A task that moves between two places where it is neither unborn nor freed
\* changes neither count.
LEMMA MoveKeeps ==
    ASSUME TypeOK, NEW c \in Coros, NEW p, Move(c, p),
           place[c] \notin {"unborn", "freed"}, p \notin {"unborn", "freed"}
    PROVE  Born' = Born /\ Freed' = Freed
BY DEF TypeOK, Move, Born, Freed

\* Only crt_create() adds to the born and only the manager to the freed.
LEMMA CountSteps ==
    ASSUME IInv, [Next]_vars
    PROVE  \/ Born' = Born /\ Freed' = Freed /\ cid' = cid /\ ran' = ran
           \/ /\ \E c \in Coros \ Born : Born' = Born \cup {c}
              /\ Freed' = Freed /\ cid' = cid + 1 /\ ran' = ran
           \/ /\ \E c \in Coros \ Freed : Freed' = Freed \cup {c}
              /\ Born' = Born /\ cid' = cid /\ ran' = ran + 1
<1> DEFINE Same == Born' = Born /\ Freed' = Freed /\ cid' = cid /\ ran' = ran
<1> USE DEF taskVars, managerVars, createVars, workerVars, pipeVars
<1>t. TypeOK
  BY DEF IInv
<1>1. ASSUME NEW t \in Callers, NEW c \in Coros, CreateAlloc(t, c)
      PROVE  /\ c \notin Born /\ Born' = Born \cup {c}
             /\ Freed' = Freed /\ cid' = cid + 1 /\ ran' = ran
  BY <1>1, <1>t DEF CreateAlloc, Move, TypeOK, Born, Freed
<1>2. ASSUME NEW t \in Callers, CreatePush(t) PROVE Same
  BY <1>2, <1>t, CallerHolds, MoveKeeps DEF CreatePush
<1>3. ASSUME NEW t \in Callers, CreatePost(t) PROVE Same
  BY <1>3 DEF CreatePost, Born, Freed
<1>4. CASE SemWait \/ Back
  BY <1>4 DEF SemWait, Back, Born, Freed
<1>5. CASE ShiftTodo
  BY <1>5, <1>t, TodoHead, MoveKeeps DEF ShiftTodo
<1>6. CASE Launch
  BY <1>6, <1>t, SwitchTask, MoveKeeps DEF Launch, ManagerGoto
<1>7. CASE Resume
  BY <1>7, <1>t, SwitchTask, MoveKeeps DEF Resume, ManagerGoto
<1>8. ASSUME Finish
      PROVE  /\ curr \in Coros \ Freed /\ Freed' = Freed \cup {curr}
             /\ Born' = Born /\ cid' = cid /\ ran' = ran + 1
  <2>1. curr \in Coros /\ place[curr] = "exiting"
    BY <1>8, SwitchTask DEF Finish, ManagerGoto
  <2> QED
    BY <1>8, <1>t, <2>1 DEF Finish, Move, TypeOK, Born, Freed
<1>9. ASSUME NEW op \in Ops, Submit(op) PROVE Same
  BY <1>9, <1>t, CurrRuns, MoveKeeps DEF Submit, Running, ManagerGoto
<1>10. CASE NotifyWorker \/ YieldPost \/ SwapOut
  BY <1>10 DEF NotifyWorker, YieldPost, SwapOut, Born, Freed
<1>11. CASE YieldPush
  BY <1>11, <1>t, CurrRuns, MoveKeeps DEF YieldPush, Running, ManagerGoto
<1>12. CASE Exit
  BY <1>12, <1>t, CurrRuns, MoveKeeps DEF Exit, Running, ManagerGoto
<1>13. CASE Return
  BY <1>13, <1>t, CurrRuns, MoveKeeps DEF Return, Running, ManagerGoto
<1>14. ASSUME NEW w \in Workers, ReadPipe(w) \/ DoSync(w) \/ PostManager(w)
       PROVE  Same
  BY <1>14 DEF ReadPipe, DoSync, PostManager, Born, Freed
<1>15. ASSUME NEW w \in Workers, ShiftDoing(w) PROVE Same
  BY <1>15, <1>t, DoingHead, MoveKeeps DEF ShiftDoing
<1>16. ASSUME NEW w \in Workers, DoAsync(w) PROVE Same
  BY <1>16, <1>t, WorkerHolds, MoveKeeps DEF DoAsync, WorkerGoto
<1>17. ASSUME NEW w \in Workers, NEW c \in Coros, Callback(w, c) PROVE Same
  BY <1>17, <1>t, LoopTask, MoveKeeps DEF Callback
<1>18. ASSUME NEW w \in Workers, PushTodo(w) PROVE Same
  BY <1>18, <1>t, WorkerHolds, MoveKeeps DEF PushTodo, WorkerGoto
<1>19. CASE UNCHANGED vars
  BY <1>19 DEF vars, Born, Freed
<1> HIDE DEF Same
<1>20. CASE \E t \in Callers : Create(t)
  BY <1>1, <1>2, <1>3, <1>20 DEF Create, Same
<1>21. CASE ManagerLoop
  BY <1>4, <1>5, <1>6, <1>7, <1>8, <1>21 DEF ManagerLoop, Same
<1>22. CASE Coroutine
  BY <1>9, <1>10, <1>11, <1>12, <1>13, <1>22 DEF Coroutine, Same
<1>23. CASE \E w \in Workers : Worker(w)
  BY <1>14, <1>15, <1>16, <1>17, <1>18, <1>23 DEF Worker, Same
<1> QED
  BY <1>19, <1>20, <1>21, <1>22, <1>23 DEF Next, Same

\* Every step keeps cid and ran what they count.
LEMMA CountedStep ==
    ASSUME IInv, Counted, [Next]_vars
    PROVE  Counted'
<1>1. IsFiniteSet(Born) /\ IsFiniteSet(Freed)
  <2>1. Born \in SUBSET Coros /\ Freed \in SUBSET Coros
    BY DEF Born, Freed
  <2> QED
    BY <2>1, ConstantsAssumption, FS_Subset
<1>2. CASE Born' = Born /\ Freed' = Freed /\ cid' = cid /\ ran' = ran
  <2>1. Cardinality(Born') = Cardinality(Born) /\ Cardinality(Freed') = Cardinality(Freed)
    BY <1>2, Zenon
  <2> QED
    BY <1>2, <2>1 DEF Counted
<1>3. CASE /\ \E c \in Coros \ Born : Born' = Born \cup {c}
           /\ Freed' = Freed /\ cid' = cid + 1 /\ ran' = ran
  <2>1. Cardinality(Born') = Cardinality(Born) + 1
    BY <1>1, <1>3, FS_AddElement
  <2>2. Cardinality(Freed') = Cardinality(Freed)
    BY <1>3, Zenon
  <2> QED
    BY <1>3, <2>1, <2>2 DEF Counted
<1>4. CASE /\ \E c \in Coros \ Freed : Freed' = Freed \cup {c}
           /\ Born' = Born /\ cid' = cid /\ ran' = ran + 1
  <2>1. Cardinality(Freed') = Cardinality(Freed) + 1
    BY <1>1, <1>4, FS_AddElement
  <2>2. Cardinality(Born') = Cardinality(Born)
    BY <1>4, Zenon
  <2> QED
    BY <1>4, <2>1, <2>2 DEF Counted
<1> QED
  BY <1>2, <1>3, <1>4, CountSteps

\* cid counts the coroutines ever created, ran those that have been freed.
THEOREM CountersCount == Spec => []Counted
<1>1. Init => Counted
  <2> SUFFICES ASSUME Init PROVE Counted
    OBVIOUS
  <2>1. Born = {} /\ Freed = {} /\ cid = 0 /\ ran = 0
    BY DEF Init, Born, Freed
  <2>2. Cardinality(Born) = 0 /\ Cardinality(Freed) = 0
    BY <2>1, FS_EmptySet, Zenon
  <2> QED
    BY <2>1, <2>2 DEF Counted
<1> QED
  BY <1>1, CountedStep, InvHolds, PTL DEF Spec

\* When no thread has anything left to do, the queues are empty and a task is
\* with nobody but, where there are semaphores, a semaphore.
LEMMA IdlePlaces ==
    ASSUME IInv, TokensMatch, Idle
    PROVE  /\ todo = <<>> /\ doing = <<>>
           /\ \A c \in Coros : place[c] \in {"unborn", "waiting", "freed", "leaked"}
<1>1. todo = <<>>
  <2>1. At(cpc, "post") = {} /\ At(wpc, "post") = {}
    BY DEF IInv, TypeOK, Idle, At
  <2>2. Cardinality(At(cpc, "post")) = 0 /\ Cardinality(At(wpc, "post")) = 0
    BY <2>1, FS_EmptySet, Zenon
  <2>3. Len(todo) = 0
    BY <2>2 DEF TokensMatch, Idle
  <2> QED
    BY <2>3 DEF IInv, TypeOK
<1>2. doing = <<>>
  <2>1. ASSUME NEW n \in bytes PROVE FALSE
    <3>1. n \in Nat /\ WorkerCount \in Nat \ {0}
      BY <2>1, ConstantsAssumption DEF IInv, TypeOK
    <3>2. PipeOf(n) \in Workers
      BY <3>1 DEF PipeOf, Workers
    <3> QED
      BY <2>1, <3>2 DEF Idle, Pipe
  <2>2. At(wpc, "shift") = {} /\ bytes = {}
    BY <2>1 DEF IInv, TypeOK, Idle, At
  <2>3. Cardinality(At(wpc, "shift")) = 0 /\ Cardinality(bytes) = 0
    BY <2>2, FS_EmptySet, Zenon
  <2>4. Len(doing) = 0
    BY <2>3 DEF TokensMatch, Idle
  <2> QED
    BY <2>4 DEF IInv, TypeOK
<1>3. ASSUME NEW c \in Coros
      PROVE  place[c] \in {"unborn", "waiting", "freed", "leaked"}
  <2>1. place[c] # "todo" /\ place[c] # "doing"
    BY <1>1, <1>2 DEF IInv, SingleOwner, Queued, Range
  <2>2. place[c] # "creating"
    BY ConstantsAssumption DEF IInv, SingleOwner, Created, Held, Idle
  <2>3. place[c] # "worker"
    BY ConstantsAssumption DEF IInv, SingleOwner, Handled, Held, Idle
  <2>4. place[c] \notin {"loop", "running"}
    BY DEF IInv, SingleOwner, Active, Idle
  <2>5. place[c] \notin {"manager", "exiting"}
    BY DEF IInv, Held, Idle
  <2> QED
    BY <2>1, <2>2, <2>3, <2>4, <2>5 DEF IInv, TypeOK, Place
<1> QED
  BY <1>1, <1>2, <1>3

\* Without the semaphores of module AcoroSem, nobody waits for one.
NoneWaits == \A c \in Coros : place[c] # "waiting"

\* No step of module Acoro gives a task to a semaphore.
LEMMA NoneWaitsStep ==
    ASSUME TypeOK, NoneWaits, [Next]_vars
    PROVE  NoneWaits'
<1>1. ASSUME NEW c, NEW p, Move(c, p), p # "waiting"
      PROVE  NoneWaits'
  BY <1>1 DEF Move, NoneWaits, TypeOK
<1>2. CASE UNCHANGED place
  BY <1>2 DEF NoneWaits
<1>3. ASSUME NEW t \in Callers, Create(t) PROVE NoneWaits'
  BY <1>1, <1>2, <1>3 DEF Create, CreateAlloc, CreatePush, CreatePost, taskVars
<1>4. CASE ManagerLoop
  BY <1>1, <1>2, <1>4 DEF ManagerLoop, SemWait, ShiftTodo, Launch, Resume,
                          Finish, Back, taskVars
<1>5. CASE Coroutine
  BY <1>1, <1>2, <1>5 DEF Coroutine, Submit, NotifyWorker, YieldPush, YieldPost,
                          SwapOut, Exit, Return, taskVars
<1>6. ASSUME NEW w \in Workers, Worker(w) PROVE NoneWaits'
  BY <1>1, <1>2, <1>6 DEF Worker, ReadPipe, ShiftDoing, DoSync, DoAsync, Callback,
                          PushTodo, PostManager, taskVars
<1>7. CASE UNCHANGED vars
  BY <1>2, <1>7 DEF vars, taskVars
<1> QED
  BY <1>3, <1>4, <1>5, <1>6, <1>7 DEF Next

\* Whenever no thread has anything left to do, every coroutine created has
\* ended, and its memory is freed and counted unless its routine returned
\* without crt_exit().
THEOREM NothingStranded == Spec => []IdleMeansDone
<1>1. IInv /\ TokensMatch /\ Counted /\ NoneWaits => IdleMeansDone
  <2> SUFFICES ASSUME IInv, TokensMatch, Counted, NoneWaits, Idle
               PROVE  /\ \A c \in Coros : place[c] \in {"unborn", "freed", "leaked"}
                      /\ stacks = {c \in Coros : place[c] = "leaked"}
                      /\ cid = ran + Cardinality(stacks)
    BY DEF IdleMeansDone
  <2>1. \A c \in Coros : place[c] \in {"unborn", "freed", "leaked"}
    BY IdlePlaces DEF NoneWaits
  <2>2. stacks = {c \in Coros : place[c] = "leaked"}
    BY <2>1 DEF IInv, TypeOK, Contexts, Suspended
  <2>3. cid = ran + Cardinality(stacks)
    <3>1. Born = Freed \cup stacks /\ Freed \cap stacks = {}
      BY <2>1, <2>2 DEF Born, Freed
    <3>2. IsFiniteSet(Freed) /\ IsFiniteSet(stacks)
      <4>1. Freed \in SUBSET Coros /\ stacks \in SUBSET Coros
        BY DEF Freed, IInv, TypeOK
      <4> QED
        BY <4>1, ConstantsAssumption, FS_Subset
    <3>3. Cardinality(Freed \cup stacks) =
            Cardinality(Freed) + Cardinality(stacks) - Cardinality(Freed \cap stacks)
      BY <3>2, FS_Union
    <3>4. /\ Cardinality(Born) = Cardinality(Freed \cup stacks)
          /\ Cardinality(Freed \cap stacks) = 0
      BY <3>1, FS_EmptySet, Zenon
    <3>5. Cardinality(Freed) \in Nat /\ Cardinality(stacks) \in Nat
      BY <3>2, FS_CardinalityType
    <3> QED
      BY <3>3, <3>4, <3>5 DEF Counted
  <2> QED
    BY <2>1, <2>2, <2>3
<1>2. Init => NoneWaits
  BY DEF Init, NoneWaits
<1>3. IInv /\ NoneWaits /\ [Next]_vars => NoneWaits'
  BY NoneWaitsStep DEF IInv
<1> QED
  BY <1>1, <1>2, <1>3, InvHolds, TokensCoverQueues, CountersCount, PTL DEF Spec

(***************************************************************************)
(* Module Acoro implements module CoroLife: every step of a thread is a    *)
(* step of the abstract life of one coroutine, or changes nothing in it.   *)
(* And it implements module CallService, the contract of slow calls that   *)
(* the handlers of module SlowCalls implement from the other side.         *)
(***************************************************************************)


\* The abstract state of every coroutine, as Life substitutes it.
St == [c \in Coros |-> StateOf[place[c]]]

\* The first element and the rest of a sequence.
LEMMA ConsFacts ==
    ASSUME NEW S, NEW s \in Seq(S), NEW x \in S, NEW y \in S
    PROVE  /\ <<x>> \o s \in Seq(S)
           /\ <<x>> \o s # <<>>
           /\ Head(<<x>> \o s) = x
           /\ Tail(<<x>> \o s) = s
           /\ Append(<<x>> \o s, y) = <<x>> \o Append(s, y)
           /\ s # <<>> => <<Head(s)>> \o Tail(s) = s
<1>1. <<x>> \o s \in Seq(S) /\ <<x>> \o s # <<>> /\ Head(<<x>> \o s) = x
  OBVIOUS
<1>2. Tail(<<x>> \o s) = s
  OBVIOUS
<1>3. Append(<<x>> \o s, y) = <<x>> \o Append(s, y)
  OBVIOUS
<1>4. s # <<>> => <<Head(s)>> \o Tail(s) = s
  OBVIOUS
<1> QED
  BY <1>1, <1>2, <1>3, <1>4

\* A task that changes hands changes its own abstract state only.
LEMMA StMoves ==
    ASSUME TypeOK, NEW c \in Coros, NEW p \in Place, Move(c, p)
    PROVE  St' = [St EXCEPT ![c] = StateOf[p]] /\ St[c] = StateOf[place[c]]
BY DEF TypeOK, Move, St

\* The abstract states of the places.
LEMMA StateFacts ==
    /\ StateOf["unborn"] = "unborn" /\ StateOf["creating"] = "unborn"
    /\ StateOf["todo"] = "ready" /\ StateOf["manager"] = "ready"
    /\ StateOf["running"] = "running"
    /\ StateOf["doing"] = "blocked" /\ StateOf["worker"] = "blocked"
    /\ StateOf["loop"] = "blocked" /\ StateOf["waiting"] = "blocked"
    /\ StateOf["exiting"] = "gone" /\ StateOf["leaked"] = "gone"
    /\ StateOf["freed"] = "gone"
    /\ {"unborn", "creating", "todo", "manager", "running", "doing", "worker",
        "loop", "waiting", "exiting", "leaked", "freed"} \subseteq Place
BY DEF StateOf, Place

\* Moving a task between two places with the same abstract state changes no
\* abstract state.
LEMMA StStays ==
    ASSUME TypeOK, NEW c \in Coros, NEW p \in Place, Move(c, p),
           StateOf[p] = StateOf[place[c]]
    PROVE  St' = St
BY DEF TypeOK, Move, St

\* The ready queue follows todo_queue when a task is pushed by another thread
\* than the manager.
LEMMA ReadyAppend ==
    ASSUME IInv, NEW c \in Coros, todo' = Append(todo, c), mpc' = mpc,
           mtask' = mtask, NEW p, Move(c, p), p # "manager", place[c] # "manager"
    PROVE  ReadyQueue' = Append(ReadyQueue, c)
<1>1. CASE mpc = "switch" /\ place[mtask] = "manager"
  <2>1. mtask \in Coros /\ mtask # c
    BY <1>1, SwitchTask
  <2>2. place'[mtask] = "manager"
    BY <1>1, <2>1 DEF Move, IInv, TypeOK
  <2>3. ReadyQueue = <<mtask>> \o todo /\ ReadyQueue' = <<mtask>> \o Append(todo, c)
    BY <1>1, <2>2 DEF ReadyQueue
  <2>4. todo \in Seq(Coros)
    BY DEF IInv, TypeOK
  <2>5. Append(<<mtask>> \o todo, c) = <<mtask>> \o Append(todo, c)
    BY ONLY <2>1, <2>4, c \in Coros, ConsFacts
  <2> QED
    BY <2>3, <2>5
<1>2. CASE ~ (mpc = "switch" /\ place[mtask] = "manager")
  <2>1. ~ (mpc' = "switch" /\ place'[mtask'] = "manager")
    <3>1. CASE mpc # "switch"
      BY <3>1
    <3>2. CASE mpc = "switch" /\ place[mtask] # "manager"
      BY <3>2, SwitchTask DEF Move, IInv, TypeOK
    <3> QED
      BY <1>2, <3>1, <3>2
  <2> QED
    BY <1>2, <2>1 DEF ReadyQueue
<1> QED
  BY <1>1, <1>2

\* Pushing a new task is the abstract start of a coroutine.
LEMMA StartStep ==
    ASSUME IInv, NEW t \in Callers, CreatePush(t)
    PROVE  Life!Start(cnew[t])
<1> DEFINE c == cnew[t]
<1>1. c \in Coros /\ place[c] = "creating"
  BY CallerHolds DEF CreatePush
<1>2. St' = [St EXCEPT ![c] = "ready"] /\ St[c] = "unborn"
  BY <1>1, StMoves, StateFacts DEF CreatePush, IInv
<1>3. ReadyQueue' = Append(ReadyQueue, c)
  BY <1>1, ReadyAppend DEF CreatePush, managerVars
<1>4. owed' = owed
  BY DEF CreatePush
<1> QED
  BY <1>2, <1>3, <1>4 DEF St, Life!Start, Life!Become

\* A switch into a coroutine runs the first ready one, and no other runs.
LEMMA RunStep ==
    ASSUME IInv, Launch \/ Resume
    PROVE  Life!Run(mtask)
<1>1. /\ mpc = "switch" /\ mpc' = "coro" /\ Move(mtask, "running")
      /\ todo' = todo /\ owed' = owed
      /\ action[mtask] \in Resumable \cup {"new_coroutine"}
  BY DEF Launch, Resume, ManagerGoto
<1>2. mtask \in Coros /\ place[mtask] = "manager"
  BY <1>1, SwitchTask
<1>3. St' = [St EXCEPT ![mtask] = "running"] /\ St[mtask] = "ready"
  BY <1>1, <1>2, StMoves, StateFacts DEF IInv
<1>4. ReadyQueue = <<mtask>> \o todo /\ ReadyQueue' = todo
  BY <1>1, <1>2 DEF ReadyQueue
<1>5. todo \in Seq(Coros)
  BY DEF IInv, TypeOK
<1>6. ReadyQueue # <<>> /\ Head(ReadyQueue) = mtask /\ Tail(ReadyQueue) = todo
  BY <1>2, <1>4, <1>5, ConsFacts
<1>7. ASSUME NEW d \in Coros PROVE St[d] # "running"
  <2>1. place[d] # "running" /\ place[d] \in Place
    BY <1>1 DEF IInv, SingleOwner, Active, TypeOK
  <2> QED
    BY <2>1, StateFacts DEF St, Place
<1> QED
  BY <1>1, <1>3, <1>4, <1>6, <1>7 DEF St, Life!Run, Life!Become

\* Handing a slow call over is the abstract call.
LEMMA CallStep ==
    ASSUME IInv, NEW op \in Ops, Submit(op)
    PROVE  Life!Call(curr)
<1>1. mpc = "coro" /\ mpc' = "notify" /\ todo' = todo /\ Move(curr, "doing")
  BY DEF Submit, Running, ManagerGoto
<1>2. /\ curr \in Coros /\ place[curr] = "running"
      /\ \A v \in Workers : wtask[v] # curr
  BY <1>1, CurrRuns
<1>3. St' = [St EXCEPT ![curr] = "blocked"] /\ St[curr] = "running"
  BY <1>1, <1>2, StMoves, StateFacts DEF IInv
<1>4. ReadyQueue' = ReadyQueue
  BY <1>1 DEF ReadyQueue
<1>5. owed' = [owed EXCEPT ![curr] = 1]
  <2>1. owed[curr] = 0
    BY <1>2 DEF IInv, ServedOnce
  <2> QED
    BY <1>2, <2>1 DEF Submit, IInv, TypeOK
<1> QED
  BY <1>3, <1>4, <1>5 DEF St, Life!Call, Life!Become

\* A synchronous handler and the last callback answer a call.
LEMMA AnswerSteps ==
    ASSUME IInv, NEW w \in Workers
    PROVE  /\ DoSync(w) => Life!Answer(wtask[w])
           /\ \A c \in Coros : Callback(w, c) => Life!Answer(c)
<1>1. ASSUME DoSync(w) PROVE Life!Answer(wtask[w])
  <2> DEFINE c == wtask[w]
  <2>1. c \in Coros /\ place[c] = "worker" /\ wpc[w] = "do_task"
    BY <1>1, WorkerHolds DEF DoSync, WorkerGoto
  <2>2. /\ place' = place /\ todo' = todo /\ mpc' = mpc /\ mtask' = mtask
        /\ owed' = [owed EXCEPT ![c] = @ - 1]
    BY <1>1 DEF DoSync, Serve, managerVars
  <2>3. St' = St /\ ReadyQueue' = ReadyQueue
    BY <2>2 DEF St, ReadyQueue
  <2>4. St[c] = "blocked"
    BY <2>1, StateFacts DEF St
  <2>5. owed[c] = 1
    BY <2>1 DEF IInv, ServedOnce
  <2>6. owed' = [owed EXCEPT ![c] = 0]
    BY <2>1, <2>2, <2>5 DEF IInv, TypeOK
  <2> QED
    BY <2>3, <2>4, <2>5, <2>6 DEF St, Life!Answer
<1>2. ASSUME NEW c \in Coros, Callback(w, c) PROVE Life!Answer(c)
  <2>1. place[c] = "loop"
    BY <1>2, LoopTask DEF Callback
  <2>2. /\ Move(c, "worker") /\ todo' = todo /\ mpc' = mpc /\ mtask' = mtask
        /\ owed' = [owed EXCEPT ![c] = @ - 1]
    BY <1>2 DEF Callback, Serve, managerVars
  <2>3. St' = St
    BY <2>1, <2>2, StStays, StateFacts DEF IInv
  <2>4. ReadyQueue' = ReadyQueue
    <3>1. mpc = "switch" => (place[mtask] = "manager" <=> place'[mtask] = "manager")
      BY <2>1, <2>2, SwitchTask DEF Move, IInv, TypeOK
    <3> QED
      BY <2>2, <3>1 DEF ReadyQueue
  <2>5. St[c] = "blocked"
    BY <2>1, StateFacts DEF St
  <2>6. owed[c] = 1
    BY <2>1 DEF IInv, ServedOnce
  <2>7. owed' = [owed EXCEPT ![c] = 0]
    BY <2>2, <2>6 DEF IInv, TypeOK
  <2> QED
    BY <2>3, <2>4, <2>5, <2>6, <2>7 DEF St, Life!Answer
<1> QED
  BY <1>1, <1>2

\* Pushing a served task makes its coroutine ready.
LEMMA WakeStep ==
    ASSUME IInv, NEW w \in Workers, PushTodo(w)
    PROVE  Life!Wake(wtask[w])
<1> DEFINE c == wtask[w]
<1>1. /\ c \in Coros /\ place[c] = "worker" /\ wpc[w] = "push"
      /\ \A v \in Workers : wtask[v] = c => v = w
  BY WorkerHolds DEF PushTodo, WorkerGoto
<1>2. St' = [St EXCEPT ![c] = "ready"] /\ St[c] = "blocked"
  BY <1>1, StMoves, StateFacts DEF PushTodo, IInv
<1>3. ReadyQueue' = Append(ReadyQueue, c)
  BY <1>1, ReadyAppend DEF PushTodo, managerVars
<1>4. owed' = owed /\ owed[c] = 0
  BY <1>1 DEF PushTodo, IInv, ServedOnce
<1> QED
  BY <1>2, <1>3, <1>4 DEF St, Life!Wake, Life!Become

\* crt_sched_yield() puts the running coroutine behind the ready ones.
LEMMA YieldStep ==
    ASSUME IInv, YieldPush
    PROVE  Life!Yield(curr)
<1>1. /\ mpc = "coro" /\ mpc' = "yield_post" /\ todo' = Append(todo, curr)
      /\ Move(curr, "todo") /\ owed' = owed
  BY DEF YieldPush, Running, ManagerGoto
<1>2. curr \in Coros /\ place[curr] = "running"
  BY <1>1, CurrRuns
<1>3. St' = [St EXCEPT ![curr] = "ready"] /\ St[curr] = "running"
  BY <1>1, <1>2, StMoves, StateFacts DEF IInv
<1>4. ReadyQueue' = Append(ReadyQueue, curr)
  BY <1>1 DEF ReadyQueue
<1> QED
  BY <1>1, <1>3, <1>4 DEF St, Life!Yield, Life!Become

\* crt_exit() and a plain return end the running coroutine.
LEMMA EndStep ==
    ASSUME IInv, Exit \/ Return
    PROVE  Life!End(curr)
<1>1. /\ mpc = "coro" /\ mpc' = "back" /\ todo' = todo /\ owed' = owed
      /\ Move(curr, "exiting") \/ Move(curr, "leaked")
  BY DEF Exit, Return, Running, ManagerGoto
<1>2. curr \in Coros /\ place[curr] = "running"
  BY <1>1, CurrRuns
<1>3. St' = [St EXCEPT ![curr] = "gone"] /\ St[curr] = "running"
  BY <1>1, <1>2, StMoves, StateFacts DEF IInv
<1>4. ReadyQueue' = ReadyQueue
  BY <1>1 DEF ReadyQueue
<1> QED
  BY <1>1, <1>3, <1>4 DEF St, Life!End, Life!Become

\* The steps the abstract specification does not see.
Unseen == St' = St /\ ReadyQueue' = ReadyQueue /\ owed' = owed

\* The other steps of crt_create() are not seen by the abstract state.
LEMMA CreatorStutters ==
    ASSUME IInv, NEW t \in Callers,
           (\E c \in Coros : CreateAlloc(t, c)) \/ CreatePost(t)
    PROVE  Unseen
<1>1. ASSUME NEW c \in Coros, CreateAlloc(t, c) PROVE Unseen
  <2>1. /\ Move(c, "creating") /\ place[c] = "unborn" /\ todo' = todo
        /\ mpc' = mpc /\ mtask' = mtask /\ owed' = owed
    BY <1>1 DEF CreateAlloc, managerVars
  <2>2. St' = St
    BY <2>1, StStays, StateFacts DEF IInv
  <2>3. mpc = "switch" => (place[mtask] = "manager" <=> place'[mtask] = "manager")
    BY <2>1, SwitchTask DEF Move, IInv, TypeOK
  <2> QED
    BY <2>1, <2>2, <2>3 DEF Unseen, ReadyQueue
<1>2. CASE CreatePost(t)
  BY <1>2 DEF CreatePost, taskVars, managerVars, Unseen, St, ReadyQueue
<1> QED
  BY <1>1, <1>2

\* Neither are the manager's and the coroutine's other steps.
LEMMA ManagerStutters ==
    ASSUME IInv,
           \/ SemWait \/ ShiftTodo \/ Finish \/ Back
           \/ NotifyWorker \/ YieldPost \/ SwapOut
    PROVE  Unseen
<1> USE DEF Running, ManagerGoto
<1>1. CASE SemWait
  BY <1>1 DEF SemWait, taskVars, Unseen, St, ReadyQueue
<1>2. CASE ShiftTodo
  <2>1. /\ mpc = "shift" /\ mpc' = "switch" /\ todo # <<>> /\ mtask' = Head(todo)
        /\ todo' = Tail(todo) /\ Move(Head(todo), "manager") /\ owed' = owed
    BY <1>2 DEF ShiftTodo
  <2>2. Head(todo) \in Coros /\ place[Head(todo)] = "todo"
    BY <2>1, TodoHead
  <2>3. St' = St
    BY <2>1, <2>2, StStays, StateFacts DEF IInv
  <2>4. place'[mtask'] = "manager"
    BY <2>1, <2>2 DEF Move, IInv, TypeOK
  <2>5. ReadyQueue = todo /\ ReadyQueue' = <<Head(todo)>> \o Tail(todo)
    BY <2>1, <2>4 DEF ReadyQueue
  <2>6. todo \in Seq(Coros)
    BY DEF IInv, TypeOK
  <2>7. <<Head(todo)>> \o Tail(todo) = todo
    BY ONLY <2>1, <2>2, <2>6, ConsFacts
  <2> QED
    BY <2>1, <2>3, <2>5, <2>7 DEF Unseen
<1>3. CASE Finish
  <2>1. /\ mpc = "switch" /\ mpc' = "sem_wait" /\ Move(curr, "freed")
        /\ todo' = todo /\ owed' = owed
        /\ action[mtask] = "finished_coroutine"
    BY <1>3 DEF Finish
  <2>2. curr = mtask /\ curr \in Coros /\ place[curr] = "exiting"
    BY <2>1, SwitchTask
  <2>3. St' = St
    BY <2>1, <2>2, StStays, StateFacts DEF IInv
  <2> QED
    BY <2>1, <2>2, <2>3 DEF Unseen, ReadyQueue
<1>4. CASE Back
  <2>1. /\ mpc = "back" /\ place' = place /\ mtask' = mtask /\ todo' = todo
        /\ owed' = owed
    BY <1>4 DEF Back, taskVars
  <2>2. place[mtask] # "manager"
    BY <2>1 DEF IInv, Held
  <2> QED
    BY <2>1, <2>2 DEF Unseen, St, ReadyQueue
<1>5. CASE NotifyWorker \/ YieldPost \/ SwapOut
  BY <1>5 DEF NotifyWorker, YieldPost, SwapOut, taskVars, Unseen, St, ReadyQueue
<1> QED
  BY <1>1, <1>2, <1>3, <1>4, <1>5

\* Neither are a worker's other steps.
LEMMA WorkerStutters ==
    ASSUME IInv, NEW w \in Workers,
           ReadPipe(w) \/ ShiftDoing(w) \/ DoAsync(w) \/ PostManager(w)
    PROVE  Unseen
<1>1. CASE ReadPipe(w) \/ PostManager(w)
  BY <1>1 DEF ReadPipe, PostManager, taskVars, managerVars, Unseen, St, ReadyQueue
<1>2. ASSUME NEW c \in Coros, NEW p \in Place, Move(c, p), p # "manager",
             StateOf[p] = StateOf[place[c]], place[c] # "manager",
             todo' = todo, mpc' = mpc, mtask' = mtask, owed' = owed
      PROVE  Unseen
  <2>1. St' = St
    BY <1>2, StStays DEF IInv
  <2>2. mpc = "switch" => (place[mtask] = "manager" <=> place'[mtask] = "manager")
    BY <1>2, SwitchTask DEF Move, IInv, TypeOK
  <2> QED
    BY <1>2, <2>1, <2>2 DEF Unseen, ReadyQueue
<1>3. CASE ShiftDoing(w)
  <2>1. /\ Move(Head(doing), "worker") /\ doing # <<>> /\ todo' = todo
        /\ mpc' = mpc /\ mtask' = mtask /\ owed' = owed
    BY <1>3 DEF ShiftDoing, managerVars
  <2>2. Head(doing) \in Coros /\ place[Head(doing)] = "doing"
    BY <2>1, DoingHead
  <2> QED
    BY <1>2, <2>1, <2>2, StateFacts
<1>4. CASE DoAsync(w)
  <2>1. /\ Move(wtask[w], "loop") /\ wpc[w] = "do_task" /\ todo' = todo
        /\ mpc' = mpc /\ mtask' = mtask /\ owed' = owed
    BY <1>4 DEF DoAsync, WorkerGoto, managerVars
  <2>2. wtask[w] \in Coros /\ place[wtask[w]] = "worker"
    BY <2>1, WorkerHolds
  <2> QED
    BY <1>2, <2>1, <2>2, StateFacts
<1> QED
  BY <1>1, <1>3, <1>4

\* Every step is a step of the abstract specification or unseen by it.
LEMMA LifeStep ==
    ASSUME IInv, [Next]_vars
    PROVE  (\E c \in Coros : Life!Start(c) \/ Life!Run(c) \/ Life!Call(c)
              \/ Life!Answer(c) \/ Life!Wake(c) \/ Life!Yield(c) \/ Life!End(c))
           \/ Unseen
<1> DEFINE Step(c) == Life!Start(c) \/ Life!Run(c) \/ Life!Call(c)
              \/ Life!Answer(c) \/ Life!Wake(c) \/ Life!Yield(c) \/ Life!End(c)
<1>1. ASSUME NEW t \in Callers, Create(t)
      PROVE  (\E c \in Coros : Step(c)) \/ Unseen
  <2>1. CASE CreatePush(t)
    <3>1. cnew[t] \in Coros
      BY <2>1, CallerHolds DEF CreatePush
    <3>2. Life!Start(cnew[t])
      BY <2>1, StartStep
    <3> QED
      BY <3>1, <3>2 DEF Life!Start, Life!Become
  <2> QED
    BY <1>1, <2>1, CreatorStutters DEF Create
<1>2. CASE ManagerLoop
  <2>1. CASE Launch \/ Resume
    <3>1. mtask \in Coros
      BY <2>1, SwitchTask DEF Launch, Resume, ManagerGoto
    <3>2. Life!Run(mtask)
      BY <2>1, RunStep
    <3> QED
      BY <3>1, <3>2 DEF Life!Run, Life!Become
  <2> QED
    BY <1>2, <2>1, ManagerStutters DEF ManagerLoop
<1>3. CASE Coroutine
  <2>1. ASSUME mpc = "coro" PROVE curr \in Coros
    BY <2>1, CurrRuns
  <2>2. ASSUME NEW op \in Ops, Submit(op) PROVE \E c \in Coros : Step(c)
    <3>1. curr \in Coros
      BY <2>1, <2>2 DEF Submit, Running, ManagerGoto
    <3>2. Life!Call(curr)
      BY <2>2, CallStep
    <3> QED
      BY <3>1, <3>2 DEF Life!Call, Life!Become
  <2>3. CASE YieldPush
    <3>1. curr \in Coros
      BY <2>1, <2>3 DEF YieldPush, Running, ManagerGoto
    <3>2. Life!Yield(curr)
      BY <2>3, YieldStep
    <3> QED
      BY <3>1, <3>2 DEF Life!Yield, Life!Become
  <2>4. CASE Exit \/ Return
    <3>1. curr \in Coros
      BY <2>1, <2>4 DEF Exit, Return, Running, ManagerGoto
    <3>2. Life!End(curr)
      BY <2>4, EndStep
    <3> QED
      BY <3>1, <3>2 DEF Life!End, Life!Become
  <2> QED
    BY <1>3, <2>2, <2>3, <2>4, ManagerStutters DEF Coroutine
<1>4. ASSUME NEW w \in Workers, Worker(w)
      PROVE  (\E c \in Coros : Step(c)) \/ Unseen
  <2>1. CASE DoSync(w)
    <3>1. wtask[w] \in Coros
      BY <2>1, WorkerHolds DEF DoSync, WorkerGoto
    <3> QED
      BY <2>1, <3>1, AnswerSteps
  <2>2. ASSUME NEW c \in Coros, Callback(w, c) PROVE \E d \in Coros : Step(d)
    BY <2>2, AnswerSteps
  <2>3. CASE PushTodo(w)
    <3>1. wtask[w] \in Coros
      BY <2>3, WorkerHolds DEF PushTodo, WorkerGoto
    <3>2. Life!Wake(wtask[w])
      BY <2>3, WakeStep
    <3> QED
      BY <3>1, <3>2 DEF Life!Wake, Life!Become
  <2> QED
    BY <1>4, <2>1, <2>2, <2>3, WorkerStutters DEF Worker
<1>5. CASE UNCHANGED vars
  BY <1>5 DEF vars, taskVars, managerVars, Unseen, St, ReadyQueue
<1> QED
  BY <1>1, <1>2, <1>3, <1>4, <1>5 DEF Next

\* The library's threads, queues, semaphore and pipes implement the life of
\* coroutines that CoroLife states: one runs at a time, in the order in which
\* they became ready, and each call is answered once before its caller is
\* ready again.
THEOREM Refinement == Spec => ImplementsLife
<1>1. Init => Life!Init
  <2> SUFFICES ASSUME Init PROVE Life!Init
    OBVIOUS
  <2>1. St = [c \in Coros |-> "unborn"]
    BY StateFacts DEF Init, St
  <2>2. ReadyQueue = <<>> /\ owed = [c \in Coros |-> 0]
    BY DEF Init, ReadyQueue
  <2> QED
    BY <2>1, <2>2 DEF St, Life!Init
<1>2. IInv /\ [Next]_vars => [Life!Next]_(Life!lifeVars)
  <2> SUFFICES ASSUME IInv, [Next]_vars
               PROVE  Life!Next \/ UNCHANGED Life!lifeVars
    OBVIOUS
  <2>1. Unseen => UNCHANGED Life!lifeVars
    BY DEF Unseen, St, Life!lifeVars
  <2> QED
    BY <2>1, LifeStep DEF Life!Next
<1> QED
  BY <1>1, <1>2, InvHolds, PTL DEF Spec, ImplementsLife, Life!Spec

-----------------------------------------------------------------------------
(* The contract of slow calls. *)

\* The two functions that Calls substitutes, and the steps it does not see.
CallMap == [c \in Coros |-> CallState(c)]

CallOf == [c \in Coros |-> IF owed[c] = 1 THEN action[c] ELSE NULL]

CallsUnseen == CallMap' = CallMap /\ CallOf' = CallOf /\ loop' = loop

\* The actions that a served task carries are told apart from the others.
LEMMA ServedActions ==
    /\ \A op \in AllOps : DoneAction[op] \in Range(DoneAction)
    /\ "new_coroutine" \notin Range(DoneAction)
    /\ "sched_yield" \notin Range(DoneAction)
    /\ "finished_coroutine" \notin Range(DoneAction)
BY DEF AllOps, SyncOps, AsyncOps, DoneAction, Range

\* A task as CallService sees it, by where it is.
LEMMA CallStates ==
    ASSUME IInv, NEW c \in Coros
    PROVE  /\ owed[c] \in {0, 1}
           /\ place[c] = "doing" => owed[c] = 1 /\ CallState(c) = "doing"
           /\ place[c] = "loop" => owed[c] = 1 /\ CallState(c) = "loop"
           /\ \A w \in Workers : wtask[w] = c /\ wpc[w] = "do_task" =>
                owed[c] = 1 /\ CallState(c) = "doing"
           /\ place[c] \notin {"doing", "loop", "worker"} => owed[c] = 0
           /\ place[c] \notin {"doing", "loop", "worker", "todo", "manager"} =>
                CallState(c) = "coro"
           /\ owed[c] = 0 /\ place[c] \in {"worker", "todo", "manager"} =>
                CallState(c) = IF action[c] \in Range(DoneAction)
                                 THEN "done" ELSE "coro"
           /\ owed[c] = 0 /\ place[c] \notin {"worker", "todo", "manager"} =>
                CallState(c) = "coro"
<1>1. place[c] = "loop" <=> loop[c] # NULL
  BY DEF IInv, SingleOwner, Active
<1>2. \A w \in Workers : wtask[w] = c => place[c] = "worker"
  BY DEF IInv, SingleOwner, Handled
<1>3. owed[c] = IF \/ place[c] \in {"doing", "loop"}
                   \/ \E w \in Workers : wtask[w] = c /\ wpc[w] # "push"
                THEN 1 ELSE 0
  BY DEF IInv, ServedOnce
<1> QED
  BY <1>1, <1>2, <1>3 DEF CallState

\* A step that touches neither actions nor calls, and moves a task at most
\* between places that look alike, is not seen.
LEMMA CarriedAlong ==
    ASSUME IInv, NEW c \in Coros, NEW p, Move(c, p),
           action' = action, owed' = owed, loop' = loop,
           \/ place[c] \in {"worker", "todo", "manager"} /\
                p \in {"worker", "todo", "manager"}
           \/ place[c] \notin {"worker", "todo", "manager"} /\
                p \notin {"worker", "todo", "manager"}
           \/ owed[c] = 1
           \/ action[c] \notin Range(DoneAction)
    PROVE  CallsUnseen
<1>1. \A d \in Coros : d # c => place'[d] = place[d]
  BY DEF Move, IInv, TypeOK
<1>2. place'[c] = p
  BY DEF Move, IInv, TypeOK
<1>3. ASSUME NEW d \in Coros PROVE CallState(d)' = CallState(d)
  BY <1>1, <1>2 DEF CallState
<1> QED
  BY <1>3 DEF CallsUnseen, CallMap, CallOf

\* A step that leaves the tasks and the event loops alone is not seen.
LEMMA TasksAlone ==
    ASSUME UNCHANGED <<action, place, owed, loop>>
    PROVE  CallsUnseen
BY DEF CallsUnseen, CallMap, CallOf, CallState

\* One task changes its abstract state, and no other does.
LEMMA CallMoves ==
    ASSUME IInv, NEW c \in Coros, NEW q,
           \A d \in Coros \ {c} : /\ place'[d] = place[d] /\ owed'[d] = owed[d]
                                  /\ action'[d] = action[d] /\ loop'[d] = loop[d],
           CallState(c)' = q
    PROVE  /\ CallMap' = [CallMap EXCEPT ![c] = q]
           /\ CallOf' = [CallOf EXCEPT ![c] = IF owed'[c] = 1 THEN action'[c]
                                                             ELSE NULL]
<1>1. ASSUME NEW d \in Coros \ {c} PROVE CallState(d)' = CallState(d)
  BY DEF CallState
<1> QED
  BY <1>1 DEF CallMap, CallOf

\* A coroutine hands a call over.
LEMMA HandsOver ==
    ASSUME IInv, NEW op \in Ops, Submit(op),
           NEW c \in Coros, c = curr
    PROVE  Calls!HandOver(c)
<1>1. mpc = "coro" /\ Move(c, "doing") /\ loop' = loop
      /\ action' = [action EXCEPT ![c] = op]
      /\ owed' = [owed EXCEPT ![c] = @ + 1]
  BY DEF Submit, Running, ManagerGoto, workerVars
<1>2. place[c] = "running"
  BY <1>1, CurrRuns
<1>3. owed[c] = 0 /\ CallState(c) = "coro"
  BY <1>2, CallStates
<1>4. owed'[c] = 1 /\ action'[c] = op
  BY <1>1, <1>2, <1>3 DEF IInv, TypeOK
<1>5. loop[c] = NULL
  BY <1>2 DEF IInv, SingleOwner, Active
<1>6. CallState(c)' = "doing"
  BY <1>1, <1>4, <1>5 DEF CallState
<1>7. CallMap' = [CallMap EXCEPT ![c] = "doing"]
      /\ CallOf' = [CallOf EXCEPT ![c] = op]
  BY <1>1, <1>2, <1>4, <1>6, CallMoves DEF Move, IInv, TypeOK
<1>8. op \in Calls!SyncCalls \cup Calls!LoopCalls
  BY ConstantsAssumption
     DEF AllOps, SyncOps, AsyncOps, Calls!SyncCalls, Calls!LoopCalls
<1> QED
  BY <1>1, <1>2, <1>3, <1>7, <1>8 DEF Calls!HandOver, Calls!Goto, CallMap, CallOf

\* A handler serves a call at once.
LEMMA ServesAtOnce ==
    ASSUME IInv, NEW w \in Workers, DoSync(w),
           NEW c \in Coros, c = wtask[w]
    PROVE  Calls!ServeAtOnce(c)
<1>1. /\ wpc[w] = "do_task" /\ action[c] \in SyncOps /\ place' = place
      /\ loop' = loop
      /\ action' = [action EXCEPT ![c] = DoneAction[@]]
      /\ owed' = [owed EXCEPT ![c] = @ - 1]
  BY DEF DoSync, WorkerGoto, Serve
<1>2. place[c] = "worker"
  BY <1>1, WorkerHolds
<1>3. owed[c] = 1 /\ CallState(c) = "doing"
  BY <1>1, <1>2, CallStates
<1>4. owed'[c] = 0 /\ action'[c] \in Range(DoneAction)
  BY <1>1, <1>2, <1>3, ServedActions, ActionFacts DEF IInv, TypeOK
<1>6. CallState(c)' = "done"
  BY <1>1, <1>2, <1>4 DEF CallState
<1>7. CallMap' = [CallMap EXCEPT ![c] = "done"] /\ CallOf' = [CallOf EXCEPT ![c] = NULL]
  BY <1>1, <1>2, <1>4, <1>6, CallMoves DEF IInv, TypeOK
<1>8. action[c] \in Calls!SyncCalls
  BY <1>1 DEF SyncOps, Calls!SyncCalls
<1> QED
  BY <1>1, <1>2, <1>3, <1>7, <1>8 DEF Calls!ServeAtOnce, Calls!Goto, CallMap, CallOf

\* A handler starts a call in its worker's event loop.
LEMMA StartsInLoop ==
    ASSUME IInv, NEW w \in Workers, DoAsync(w),
           NEW c \in Coros, c = wtask[w]
    PROVE  Calls!StartInLoop(c, w)
<1>1. /\ wpc[w] = "do_task" /\ action[c] \in AsyncOps /\ Move(c, "loop")
      /\ loop' = [loop EXCEPT ![c] = w]
      /\ action' = action /\ owed' = owed
  BY DEF DoAsync, WorkerGoto
<1>2. place[c] = "worker"
  BY <1>1, WorkerHolds
<1>3. owed[c] = 1 /\ CallState(c) = "doing"
  BY <1>1, <1>2, CallStates
<1>4. loop'[c] # NULL
  BY <1>1, <1>2, ConstantsAssumption DEF IInv, TypeOK
<1>6. CallState(c)' = "loop"
  BY <1>1, <1>3, <1>4 DEF CallState
<1>7. CallMap' = [CallMap EXCEPT ![c] = "loop"]
  BY <1>1, <1>2, <1>6, CallMoves DEF Move, IInv, TypeOK
<1>8. action[c] \in Calls!LoopCalls /\ CallOf' = CallOf
  BY <1>1 DEF AsyncOps, Calls!LoopCalls, CallOf
<1> QED
  BY <1>1, <1>2, <1>3, <1>7, <1>8 DEF Calls!StartInLoop, Calls!Goto, CallMap, CallOf

\* The last callback of a call serves it.
LEMMA ServesInLoop ==
    ASSUME IInv, NEW w \in Workers, NEW c \in Coros, Callback(w, c)
    PROVE  Calls!ServeInLoop(c)
<1>1. /\ loop[c] = w /\ Move(c, "worker")
      /\ loop' = [loop EXCEPT ![c] = NULL]
      /\ action' = [action EXCEPT ![c] = DoneAction[@]]
      /\ owed' = [owed EXCEPT ![c] = @ - 1]
  BY DEF Callback, Serve
<1>2. place[c] = "loop" /\ action[c] \in AsyncOps
  BY <1>1, LoopTask
<1>3. owed[c] = 1 /\ CallState(c) = "loop"
  BY <1>2, CallStates
<1>4. owed'[c] = 0 /\ action'[c] \in Range(DoneAction)
  BY <1>1, <1>2, <1>3, ServedActions, ActionFacts DEF IInv, TypeOK
<1>5. place'[c] = "worker"
  BY <1>1 DEF Move, IInv, TypeOK
<1>6. CallState(c)' = "done"
  BY <1>4, <1>5 DEF CallState
<1>7. CallMap' = [CallMap EXCEPT ![c] = "done"] /\ CallOf' = [CallOf EXCEPT ![c] = NULL]
  BY <1>1, <1>4, <1>6, CallMoves DEF Move, IInv, TypeOK
<1> QED
  BY <1>1, <1>3, <1>7 DEF Calls!ServeInLoop, Calls!Goto, CallMap, CallOf

\* Switching back into a coroutine returns the call it has made, if any.
LEMMA ReturnsCall ==
    ASSUME IInv, Launch \/ Resume, NEW c \in Coros, c = mtask
    PROVE  Calls!Return(c) \/ CallsUnseen
<1>1. /\ mpc = "switch" /\ Move(c, "running") /\ loop' = loop
      /\ action' = action /\ owed' = owed
      /\ action[c] \in Resumable \cup {"new_coroutine"}
  BY DEF Launch, Resume, ManagerGoto, workerVars
<1>2. place[c] = "manager"
  BY <1>1, SwitchTask
<1>3. CASE action[c] \notin Range(DoneAction)
  BY <1>1, <1>2, <1>3, CarriedAlong
<1>4. CASE action[c] \in Range(DoneAction)
  <2>1. owed[c] = 0 /\ CallState(c) = "done"
    BY <1>2, <1>4, CallStates
  <2>2. place'[c] = "running"
    BY <1>1, <1>2 DEF Move, IInv, TypeOK
  <2>3. CallState(c)' = "coro"
    BY <1>1, <2>1, <2>2 DEF CallState
  <2>4. CallMap' = [CallMap EXCEPT ![c] = "coro"]
    BY <1>1, <1>2, <2>3, CallMoves DEF Move, IInv, TypeOK
  <2>5. CallOf' = CallOf
    BY <1>1 DEF CallOf
  <2> QED
    BY <1>1, <1>2, <2>1, <2>4, <2>5 DEF Calls!Return, Calls!Goto, CallMap, CallOf
<1> QED
  BY <1>2, <1>3, <1>4

\* crt_create() concerns no call.
LEMMA CreateUnseen ==
    ASSUME IInv, NEW t \in Callers, Create(t)
    PROVE  CallsUnseen
<1> USE DEF workerVars
<1>1. ASSUME NEW c \in Coros, CreateAlloc(t, c) PROVE CallsUnseen
  <2>1. /\ Move(c, "creating") /\ place[c] = "unborn" /\ owed' = owed
        /\ loop' = loop /\ action' = [action EXCEPT ![c] = "new_coroutine"]
    BY <1>1 DEF CreateAlloc
  <2>2. action' = action
    BY <2>1 DEF IInv, TypeOK, Carries
  <2> QED
    BY <2>1, <2>2, CarriedAlong
<1>2. CASE CreatePush(t)
  <2>1. cnew[t] \in Coros /\ place[cnew[t]] = "creating"
    BY <1>2, CallerHolds DEF CreatePush
  <2>2. action[cnew[t]] \notin Range(DoneAction)
    BY <2>1, ServedActions DEF IInv, Carries
  <2> QED
    BY <1>2, <2>1, <2>2, CarriedAlong DEF CreatePush
<1>3. CASE CreatePost(t)
  BY <1>3, TasksAlone DEF CreatePost, taskVars
<1> QED
  BY <1>1, <1>2, <1>3 DEF Create

\* Nor do the manager's other steps.
LEMMA ManagerUnseen ==
    ASSUME IInv, SemWait \/ ShiftTodo \/ Finish \/ Back
    PROVE  CallsUnseen
<1> USE DEF ManagerGoto, workerVars
<1>1. CASE SemWait \/ Back
  BY <1>1, TasksAlone DEF SemWait, Back, taskVars
<1>2. CASE ShiftTodo
  BY <1>2, TodoHead, CarriedAlong DEF ShiftTodo
<1>3. CASE Finish
  <2>1. curr \in Coros /\ place[curr] = "exiting"
    BY <1>3, SwitchTask DEF Finish
  <2> QED
    BY <1>3, <2>1, CarriedAlong DEF Finish
<1> QED
  BY <1>1, <1>2, <1>3

\* Nor do a running coroutine's steps, but the hand-over.
LEMMA CoroutineUnseen ==
    ASSUME IInv,
           NotifyWorker \/ YieldPush \/ YieldPost \/ SwapOut \/ Exit \/ Return
    PROVE  CallsUnseen
<1> USE DEF Running, ManagerGoto, workerVars
<1>1. CASE NotifyWorker \/ YieldPost \/ SwapOut
  BY <1>1, TasksAlone DEF NotifyWorker, YieldPost, SwapOut, taskVars
<1>2. CASE Return
  BY <1>2, CurrRuns, CarriedAlong DEF Return
<1>3. CASE YieldPush \/ Exit
  <2>0. PICK c \in Coros : c = curr
    BY <1>3, CurrRuns DEF YieldPush, Exit
  <2>1. /\ mpc = "coro" /\ owed' = owed /\ loop' = loop
        /\ \/ Move(c, "todo") /\ action' = [action EXCEPT ![c] = "sched_yield"]
           \/ Move(c, "exiting") /\
                action' = [action EXCEPT ![c] = "finished_coroutine"]
    BY <1>3, <2>0 DEF YieldPush, Exit
  <2>2. place[c] = "running"
    BY <2>0, <2>1, CurrRuns
  <2>3. owed[c] = 0 /\ CallState(c) = "coro"
    BY <2>2, CallStates
  <2>4. action'[c] \notin Range(DoneAction)
    BY <2>1, <2>2, ServedActions DEF IInv, TypeOK
  <2>5. CallState(c)' = "coro"
    BY <2>1, <2>3, <2>4 DEF CallState
  <2>6. /\ CallMap' = [CallMap EXCEPT ![c] = "coro"]
        /\ CallOf' = [CallOf EXCEPT ![c] = NULL]
    <3>1. \A d \in Coros \ {c} : /\ place'[d] = place[d] /\ owed'[d] = owed[d]
                                 /\ action'[d] = action[d] /\ loop'[d] = loop[d]
      BY <2>1, <2>2 DEF Move, IInv, TypeOK
    <3>2. owed'[c] # 1 /\ c \in Coros
      BY <2>1, <2>2, <2>3
    <3> QED
      BY ONLY IInv, <2>5, <3>1, <3>2, CallMoves
  <2>7. CallMap[c] = "coro" /\ CallOf[c] = NULL
    BY <2>2, <2>3 DEF CallMap, CallOf
  <2> QED
    BY <2>1, <2>6, <2>7 DEF CallsUnseen, CallMap, CallOf
<1> QED
  BY <1>1, <1>2, <1>3

\* Nor do a worker's steps but the handlers.
LEMMA WorkerUnseen ==
    ASSUME IInv, NEW w \in Workers,
           ReadPipe(w) \/ ShiftDoing(w) \/ PushTodo(w) \/ PostManager(w)
    PROVE  CallsUnseen
<1> USE DEF WorkerGoto
<1>1. CASE ReadPipe(w) \/ PostManager(w)
  BY <1>1, TasksAlone DEF ReadPipe, PostManager, taskVars
<1>2. CASE ShiftDoing(w)
  <2>1. Head(doing) \in Coros /\ place[Head(doing)] = "doing"
    BY <1>2, DoingHead DEF ShiftDoing
  <2>2. owed[Head(doing)] = 1
    BY <2>1, CallStates
  <2> QED
    BY <1>2, <2>1, <2>2, CarriedAlong DEF ShiftDoing
<1>3. CASE PushTodo(w)
  BY <1>3, WorkerHolds, CarriedAlong DEF PushTodo
<1> QED
  BY <1>1, <1>2, <1>3

\* Every step is a step of the contract or unseen by it.
LEMMA CallsStep == IInv /\ [Next]_vars => [Calls!Next]_(Calls!callVars)
<1> SUFFICES ASSUME IInv, [Next]_vars
             PROVE  Calls!Next \/ UNCHANGED Calls!callVars
  OBVIOUS
<1>0. CallsUnseen => UNCHANGED Calls!callVars
  BY DEF CallsUnseen, CallMap, CallOf, Calls!callVars
<1>1. ASSUME NEW t \in Callers, Create(t) PROVE CallsUnseen
  BY <1>1, CreateUnseen
<1>2. ASSUME ManagerLoop PROVE Calls!Next \/ CallsUnseen
  <2>1. CASE Launch \/ Resume
    <3>1. PICK c \in Coros : c = mtask
      BY <2>1, SwitchTask DEF Launch, Resume, ManagerGoto
    <3> QED
      BY <2>1, <3>1, ReturnsCall DEF Calls!Next
  <2> QED
    BY <1>2, <2>1, ManagerUnseen DEF ManagerLoop
<1>3. ASSUME Coroutine PROVE Calls!Next \/ CallsUnseen
  <2>1. ASSUME NEW op \in Ops, Submit(op) PROVE Calls!Next
    <3>1. PICK c \in Coros : c = curr
      BY <2>1, CurrRuns DEF Submit, Running, ManagerGoto
    <3> QED
      BY <2>1, <3>1, HandsOver DEF Calls!Next
  <2> QED
    BY <1>3, <2>1, CoroutineUnseen DEF Coroutine
<1>4. ASSUME NEW w \in Workers, Worker(w) PROVE Calls!Next \/ CallsUnseen
  <2>1. CASE DoSync(w) \/ DoAsync(w)
    <3>1. PICK c \in Coros : c = wtask[w]
      BY <2>1, WorkerHolds DEF DoSync, DoAsync, WorkerGoto
    <3> QED
      BY <2>1, <3>1, ServesAtOnce, StartsInLoop DEF Calls!Next
  <2>2. ASSUME NEW c \in Coros, Callback(w, c) PROVE Calls!Next
    BY <2>2, ServesInLoop DEF Calls!Next
  <2> QED
    BY <1>4, <2>1, <2>2, WorkerUnseen DEF Worker
<1>5. ASSUME UNCHANGED vars PROVE CallsUnseen
  BY <1>5, TasksAlone DEF vars, taskVars, workerVars
<1>6. Calls!Next \/ CallsUnseen
  BY <1>1, <1>2, <1>3, <1>4, <1>5 DEF Next
<1> QED
  BY <1>0, <1>6

\* The core carries slow calls as CallService says: a call that a coroutine
\* hands over is served once, in one place, and only then returns to it,
\* whichever workers the task and its notification byte go to.
THEOREM CallsAreCarried == Spec => CarriesCalls
<1>1. Init => Calls!Init
  <2> SUFFICES ASSUME Init PROVE Calls!Init
    OBVIOUS
  <2>1. CallMap = [c \in Coros |-> "coro"] /\ CallOf = [c \in Coros |-> NULL]
    BY DEF Init, CallMap, CallOf, CallState
  <2> QED
    BY <2>1 DEF Init, CallMap, CallOf, Calls!Init
<1> QED
  BY <1>1, CallsStep, InvHolds, PTL DEF Spec, CarriesCalls, Calls!Spec

=============================================================================

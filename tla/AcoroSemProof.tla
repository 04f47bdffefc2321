--------------------------- MODULE AcoroSemProof ---------------------------
(***************************************************************************)
(* Proofs about module AcoroSem, for every number of coroutines, workers   *)
(* and semaphores: the coroutine semaphores keep their promises whatever   *)
(* the other threads do, and the core keeps those of module Acoro when     *)
(* coroutines block in semaphores.                                         *)
(*                                                                         *)
(* Every step that is not a semaphore operation is a step of Acoro, so the *)
(* invariant of AcoroProof carries over and only the five operations are   *)
(* new. What they need from it is which task a semaphore may hold.         *)
(*                                                                         *)
(* The theorems are about applications that post a waiter once before it   *)
(* runs (OnePost): a second post queues its task a second time.            *)
(***************************************************************************)
EXTENDS AcoroSem, AcoroProof

SemTypes ==
    /\ value \in [Sems -> 0 .. MaxValue]
    /\ waiter \in [Sems -> Coros \cup {NULL}]
    /\ waits \in [Coros -> Sems \cup {NULL}]
    /\ urgent \in Coros \cup {NULL}

\* A semaphore's task_ptr and the loop that stored it there agree.
Paired ==
    /\ \A c \in Coros : waits[c] # NULL => waiter[waits[c]] = c
    /\ \A s \in Sems : waiter[s] # NULL => waits[waiter[s]] = s

\* Where a coroutine in the loop of crt_sem_wait() is, by its semaphore's
\* value.
Whereabouts ==
    \A c \in Coros :
        /\ waits[c] # NULL =>
             IF value[waits[c]] = 0 THEN place[c] = "waiting"
                                    ELSE place[c] \in {"todo", "manager", "running"}
        /\ place[c] = "waiting" => waits[c] # NULL

\* A waiter that was posted critically has not run since.
UrgentWaits == urgent # NULL => urgent # curr

SemInv ==
    /\ IInv /\ TokensMatch
    /\ SemTypes /\ Paired /\ Whereabouts /\ UrgentWaits /\ CriticalFirst

-----------------------------------------------------------------------------
(* The five operations keep the invariant of the core. *)

\* A coroutine's call of crt_sem_wait() or crt_sem_post() is counted.
LEMMA StepsCounted ==
    ASSUME IInv, mpc = "coro", steps' = steps \/ CountStep
    PROVE  steps' \in [Coros -> 0 .. MaxSteps]
<1>1. curr \in Coros
  BY CurrRuns
<1>2. steps \in [Coros -> 0 .. MaxSteps] /\ MaxSteps \in Nat
  BY ConstantsAssumption DEF IInv, TypeOK
<1>3. CASE CountStep
  <2>1. steps[curr] + 1 \in 0 .. MaxSteps
    BY <1>1, <1>2, <1>3 DEF CountStep
  <2> QED
    BY <1>1, <1>2, <1>3, <2>1 DEF CountStep
<1> QED
  BY <1>2, <1>3

\* Taking a unit, or adding one for nobody, moves no task.
LEMMA NoMoveInv ==
    ASSUME IInv, SemTypes, mpc = "coro", mpc' = "coro",
           steps' = steps \/ CountStep,
           UNCHANGED <<action, place, owed, stacks, saved, mtask, curr, ran,
                       createVars, workerVars, pipeVars, todo, doing, sem>>
    PROVE  IInv'
<1> USE ConstantsAssumption DEF IInv, createVars, workerVars, pipeVars
<1>1. TypeOK'
  BY StepsCounted DEF TypeOK, ActionT, Place, ManagerPcs, WorkerPcs
<1>2. SingleOwner'
  <2>1. Queued'
    BY DEF TypeOK, SingleOwner, Queued
  <2>2. Created'
    BY DEF TypeOK, SingleOwner, Created
  <2>3. Handled'
    BY DEF TypeOK, SingleOwner, Handled, Held
  <2>4. Active'
    BY DEF TypeOK, SingleOwner, Active
  <2> QED
    BY <2>1, <2>2, <2>3, <2>4 DEF SingleOwner
<1>3. Held'
  BY DEF TypeOK, Held, SingleOwner, Created, Handled, Active, Callers
<1>4. Carries'
  BY DEF TypeOK, Carries, SingleOwner, Handled, Held
<1>5. Contexts'
  BY DEF TypeOK, Contexts, Suspended, Held
<1>6. ServedOnce'
  BY DEF TypeOK, ServedOnce, SingleOwner, Handled, Held
<1> QED
  BY <1>1, <1>2, <1>3, <1>4, <1>5, <1>6

\* The running coroutine's task goes to the semaphore and to no queue.
LEMMA BlockInv ==
    ASSUME IInv, SemTypes, NEW s \in Sems, Block(s)
    PROVE  IInv'
<1> USE ConstantsAssumption DEF IInv, Block, Running, ManagerGoto, Move, createVars, workerVars, pipeVars
<1>0. curr \in Coros /\ place[curr] = "running"
  BY CurrRuns
<1>w. \A v \in Workers : wtask[v] # curr
  BY CurrRuns
<1>s. steps' \in [Coros -> 0 .. MaxSteps]
  BY StepsCounted DEF InLoop
<1>1. TypeOK'
  BY <1>0, <1>s DEF TypeOK, Place, ManagerPcs
<1>2. SingleOwner'
  <2>1. Queued'
    BY <1>0 DEF TypeOK, SingleOwner, Queued
  <2>2. Created'
    BY <1>0 DEF TypeOK, SingleOwner, Created
  <2>3. Handled'
    BY <1>0 DEF TypeOK, SingleOwner, Handled, Held
  <2>4. Active'
    BY <1>0 DEF TypeOK, SingleOwner, Active
  <2> QED
    BY <2>1, <2>2, <2>3, <2>4 DEF SingleOwner
<1>3. Held'
  BY <1>0 DEF TypeOK, Held, SingleOwner, Created, Handled, Active, Callers
<1>4. Carries'
  BY <1>0, <1>w DEF TypeOK, Carries
<1>5. Contexts'
  BY <1>0 DEF TypeOK, Contexts, Suspended, Held
<1>6. ServedOnce'
  BY <1>0 DEF TypeOK, ServedOnce, SingleOwner, Handled, Held
<1> QED
  BY <1>1, <1>2, <1>3, <1>4, <1>5, <1>6

\* What putting a task first does to a queue's elements.
LEMMA PrependFacts ==
    ASSUME NEW S, NEW s \in Seq(S), NEW x \in S
    PROVE  /\ <<x>> \o s \in Seq(S)
           /\ Len(<<x>> \o s) = Len(s) + 1
           /\ Range(<<x>> \o s) = Range(s) \cup {x}
           /\ IsInjective(s) /\ x \notin Range(s) => IsInjective(<<x>> \o s)
<1> DEFINE a == <<x>> \o s
<1>1. /\ a \in Seq(S)
      /\ DOMAIN a = 1 .. Len(s) + 1
      /\ DOMAIN s = 1 .. Len(s)
      /\ Len(s) \in Nat
      /\ Len(a) = Len(s) + 1
      /\ a[1] = x
      /\ \A i \in 1 .. Len(s) : a[i + 1] = s[i]
      /\ \A i \in 2 .. Len(s) + 1 : a[i] = s[i - 1] /\ i - 1 \in 1 .. Len(s)
  OBVIOUS
<1>2. Range(a) = Range(s) \cup {x}
  <2>1. ASSUME NEW i \in DOMAIN a PROVE a[i] \in Range(s) \cup {x}
    BY <1>1 DEF Range
  <2>2. ASSUME NEW i \in DOMAIN s PROVE s[i] \in Range(a)
    <3>1. i + 1 \in DOMAIN a /\ a[i + 1] = s[i]
      BY <1>1
    <3> QED
      BY <3>1 DEF Range
  <2>3. x \in Range(a)
    BY <1>1 DEF Range
  <2> QED
    BY <2>1, <2>2, <2>3 DEF Range
<1>3. ASSUME IsInjective(s), x \notin Range(s)
      PROVE  IsInjective(a)
  <2> SUFFICES ASSUME NEW i \in DOMAIN a, NEW j \in DOMAIN a, a[i] = a[j] PROVE i = j
    BY DEF IsInjective
  <2>1. \A k \in 2 .. Len(s) + 1 : a[k] # x
    BY <1>1, <1>3 DEF Range
  <2> QED
    BY <1>1, <1>3, <2>1 DEF IsInjective
<1> QED
  BY <1>1, <1>2, <1>3

\* The task that a semaphore without a unit holds is stored there only.
LEMMA WaiterStored ==
    ASSUME IInv, SemTypes, Paired, Whereabouts, NEW s \in Sems,
           waiter[s] # NULL, value[s] = 0
    PROVE  /\ waiter[s] \in Coros /\ place[waiter[s]] = "waiting"
           /\ waits[waiter[s]] = s
           /\ waiter[s] \notin Range(todo)
           /\ \A v \in Workers : wtask[v] # waiter[s]
<1>1. waiter[s] \in Coros /\ waits[waiter[s]] = s
  BY DEF SemTypes, Paired
<1>2. place[waiter[s]] = "waiting"
  BY <1>1, SemAssumption DEF Whereabouts
<1> QED
  BY <1>1, <1>2 DEF IInv, SingleOwner, Queued, Handled

\* A waiter is queued, last or first, with an action the manager resumes.
LEMMA PostWaiterInv ==
    ASSUME OnePost, IInv, SemTypes, Paired, Whereabouts,
           NEW s \in Sems, NEW flag \in Flags, PostWaiter(s, flag)
    PROVE  IInv'
<1> USE ConstantsAssumption DEF IInv, PostWaiter, Running, ManagerGoto, Move, createVars, workerVars, pipeVars
<1> DEFINE c == waiter[s]
<1>0. /\ c \in Coros /\ place[c] = "waiting" /\ c \notin Range(todo)
      /\ \A v \in Workers : wtask[v] # c
  BY WaiterStored
<1>r. curr \in Coros /\ place[curr] = "running"
  BY CurrRuns
<1>s. steps' \in [Coros -> 0 .. MaxSteps]
  BY StepsCounted DEF Posting
<1>q. /\ todo' \in Seq(Coros)
      /\ Range(todo') = Range(todo) \cup {c}
      /\ IsInjective(todo) => IsInjective(todo')
  <2>1. todo' = Append(todo, c) \/ todo' = <<c>> \o todo
    OBVIOUS
  <2>2. todo \in Seq(Coros)
    BY DEF TypeOK
  <2>3. CASE todo' = Append(todo, c)
    BY ONLY <1>0, <2>2, <2>3, AppendFacts
  <2>4. CASE todo' = <<c>> \o todo
    BY ONLY <1>0, <2>2, <2>4, PrependFacts
  <2> QED
    BY <2>1, <2>3, <2>4
<1>1. TypeOK'
  BY <1>0, <1>q, <1>s DEF TypeOK, Place, ManagerPcs, ActionT, Resumable
<1>2. SingleOwner'
  <2>1. Queued'
    BY <1>0, <1>q DEF TypeOK, SingleOwner, Queued
  <2>2. Created'
    <3>1. \A d \in Coros : place'[d] = IF d = c THEN "todo" ELSE place[d]
      BY <1>0 DEF TypeOK
    <3>2. Created /\ cnew' = cnew
      BY DEF SingleOwner
    <3> QED
      BY ONLY <1>0, <3>1, <3>2 DEF Created
  <2>3. Handled'
    BY <1>0 DEF TypeOK, SingleOwner, Handled, Held
  <2>4. Active'
    BY <1>0, <1>r DEF TypeOK, SingleOwner, Active
  <2> QED
    BY <2>1, <2>2, <2>3, <2>4 DEF SingleOwner
<1>3. Held'
  BY <1>0, <1>r DEF TypeOK, Held, SingleOwner, Created, Handled, Active, Callers
<1>4. Carries'
  BY <1>0 DEF TypeOK, Carries, Resumable
<1>5. Contexts'
  BY <1>0, <1>r DEF TypeOK, Contexts, Suspended, Held
<1>6. ServedOnce'
  <2>1. \A d \in Coros : place'[d] = IF d = c THEN "todo" ELSE place[d]
    BY <1>0 DEF TypeOK
  <2>2. ServedOnce /\ owed' = owed /\ wtask' = wtask /\ wpc' = wpc
    OBVIOUS
  <2> QED
    BY ONLY <1>0, <2>1, <2>2 DEF ServedOnce
<1> QED
  BY <1>1, <1>2, <1>3, <1>4, <1>5, <1>6

\* The poster posts the manager's semaphore.
LEMMA SemPostInv ==
    ASSUME IInv, SemTypes, SemPost
    PROVE  IInv'
<1> USE ConstantsAssumption DEF IInv, SemPost, Running, ManagerGoto, taskVars, createVars, workerVars, pipeVars
<1>1. TypeOK'
  BY DEF TypeOK, ActionT, Place, ManagerPcs, WorkerPcs
<1>2. SingleOwner'
  <2>1. Queued'
    BY DEF TypeOK, SingleOwner, Queued
  <2>2. Created'
    BY DEF TypeOK, SingleOwner, Created
  <2>3. Handled'
    BY DEF TypeOK, SingleOwner, Handled, Held
  <2>4. Active'
    BY DEF TypeOK, SingleOwner, Active
  <2> QED
    BY <2>1, <2>2, <2>3, <2>4 DEF SingleOwner
<1>3. Held'
  BY DEF TypeOK, Held, SingleOwner, Created, Handled, Active, Callers
<1>4. Carries'
  BY DEF TypeOK, Carries, SingleOwner, Handled, Held
<1>5. Contexts'
  BY DEF TypeOK, Contexts, Suspended, Held
<1>6. ServedOnce'
  BY DEF TypeOK, ServedOnce, SingleOwner, Handled, Held
<1> QED
  BY <1>1, <1>2, <1>3, <1>4, <1>5, <1>6

-----------------------------------------------------------------------------
(* And they keep the tokens matched: "sem_post" stands for the unit that is *)
(* still missing.                                                           *)

\* The five operations, one step at a time.
LEMMA SemaphoreTokens ==
    ASSUME IInv, TokensMatch, SemTypes, Semaphore
    PROVE  TokensMatch'
<1> USE DEF Running, ManagerGoto, taskVars, createVars, workerVars, pipeVars
<1>0. /\ Cardinality(At(cpc, "post")) \in Nat
      /\ Cardinality(At(wpc, "post")) \in Nat
      /\ sem \in Nat
  BY WorkerCounts, CallerCounts DEF IInv, TypeOK
<1>1. ASSUME NEW s \in Sems, Take(s) \/ Block(s) \/ PostFree(s)
      PROVE  TokensMatch'
  <2>1. /\ mpc = "coro" /\ mpc' \in {"coro", "swap"} /\ cpc' = cpc /\ wpc' = wpc
        /\ bytes' = bytes /\ todo' = todo /\ doing' = doing /\ sem' = sem
    BY <1>1 DEF Take, Block, PostFree
  <2> QED
    BY <2>1 DEF TokensMatch
<1>2. ASSUME NEW s \in Sems, NEW flag \in Flags, PostWaiter(s, flag)
      PROVE  TokensMatch'
  <2>1. /\ mpc = "coro" /\ mpc' = "sem_post" /\ cpc' = cpc /\ wpc' = wpc
        /\ bytes' = bytes /\ doing' = doing /\ sem' = sem
        /\ todo' = Append(todo, waiter[s]) \/ todo' = <<waiter[s]>> \o todo
        /\ waiter[s] # NULL
    BY <1>2 DEF PostWaiter
  <2>2. waiter[s] \in Coros /\ todo \in Seq(Coros)
    BY <2>1 DEF SemTypes, IInv, TypeOK
  <2>3. Len(todo') = Len(todo) + 1 /\ Len(todo) \in Nat
    BY ONLY <2>1, <2>2, AppendFacts, PrependFacts
  <2> QED
    BY <1>0, <2>1, <2>3 DEF TokensMatch
<1>3. CASE SemPost
  BY <1>0, <1>3 DEF SemPost, TokensMatch
<1> QED
  BY <1>1, <1>2, <1>3 DEF Semaphore

\* The five operations keep the core's invariant.
LEMMA SemaphoreInv ==
    ASSUME OnePost, IInv, SemTypes, Paired, Whereabouts, Semaphore
    PROVE  IInv'
<1>1. ASSUME NEW s \in Sems, Take(s) \/ PostFree(s) PROVE IInv'
  <2>1. /\ mpc = "coro" /\ mpc' = "coro" /\ (steps' = steps \/ CountStep)
        /\ UNCHANGED <<action, place, owed, stacks, saved, mtask, curr, ran,
                       createVars, workerVars, pipeVars, todo, doing, sem>>
    BY <1>1 DEF Take, PostFree, Running, ManagerGoto, InLoop, Posting
  <2> QED
    BY <2>1, NoMoveInv
<1> QED
  BY <1>1, BlockInv, PostWaiterInv, SemPostInv DEF Semaphore

-----------------------------------------------------------------------------
(* The semaphores. *)

\* The types of the semaphores' variables.
LEMMA SemTypesStep ==
    ASSUME IInv, SemTypes, SemNext
    PROVE  SemTypes'
<1> USE SemAssumption DEF Running, ManagerGoto
<1>1. ASSUME NEW s \in Sems, Take(s) \/ Block(s) \/ PostFree(s) PROVE SemTypes'
  <2>1. curr \in Coros
    BY <1>1, CurrRuns DEF Take, Block, PostFree
  <2>2. \A n \in 0 .. MaxValue : /\ n > 0 => n - 1 \in 0 .. MaxValue
                                 /\ n < MaxValue => n + 1 \in 0 .. MaxValue
    OBVIOUS
  <2>3. value' \in [Sems -> 0 .. MaxValue]
    BY <1>1, <2>2 DEF Take, Block, PostFree, Posting, SemTypes
  <2>4. /\ waiter' \in [Sems -> Coros \cup {NULL}]
        /\ waits' \in [Coros -> Sems \cup {NULL}]
        /\ urgent' = urgent
    BY <1>1, <2>1 DEF Take, Block, PostFree, SemTypes
  <2> QED
    BY <2>3, <2>4 DEF SemTypes
<1>2. ASSUME NEW s \in Sems, NEW flag \in Flags, PostWaiter(s, flag)
      PROVE  SemTypes'
  <2>1. value[s] + 1 \in 0 .. MaxValue /\ value' = [value EXCEPT ![s] = value[s] + 1]
    BY <1>2 DEF PostWaiter, Posting, SemTypes
  <2>2. value' \in [Sems -> 0 .. MaxValue]
    BY <2>1 DEF SemTypes
  <2>3. waiter' = waiter /\ waits' = waits /\ urgent' \in Coros \cup {NULL}
    BY <1>2 DEF PostWaiter, SemTypes
  <2> QED
    BY <2>2, <2>3 DEF SemTypes
<1>3. CASE SemPost
  BY <1>3 DEF SemPost, semVars, SemTypes
<1>4. CASE Beside
  BY <1>4 DEF Beside, SemTypes
<1> QED
  BY <1>1, <1>2, <1>3, <1>4
     DEF SemNext, Semaphore, SemManager, SemCreate, SemWorker

\* The loop of crt_sem_wait() and the semaphore's task_ptr stay paired.
LEMMA PairedStep ==
    ASSUME IInv, SemTypes, Paired, SemNext
    PROVE  Paired'
<1> USE SemAssumption, ConstantsAssumption DEF Running, ManagerGoto
<1>1. ASSUME NEW s \in Sems, Take(s) \/ Block(s) PROVE Paired'
  <2>1. curr \in Coros
    BY <1>1, CurrRuns DEF Take, Block
  <2>2. /\ \A c \in Coros : c # curr => waits[c] # s
        /\ waits[curr] \in {NULL, s}
    BY <1>1, <2>1 DEF Take, Block, InLoop, Paired, SemTypes
  <2>3. CASE Take(s)
    BY <2>1, <2>2, <2>3 DEF Take, Paired, SemTypes
  <2>4. CASE Block(s)
    BY <2>1, <2>2, <2>4 DEF Block, Paired, SemTypes
  <2> QED
    BY <1>1, <2>3, <2>4
<1>2. CASE waiter' = waiter /\ waits' = waits
  BY <1>2 DEF Paired
<1> QED
  BY <1>1, <1>2 DEF SemNext, Semaphore, PostFree, PostWaiter, SemPost, semVars,
                    SemManager, SemCreate, SemWorker, Beside

\* How a step of the core moves a task that waits for a semaphore, or that
\* is ready: it never takes one away from a semaphore, and a ready task stays
\* ready until its coroutine runs.
LEMMA Turns ==
    ASSUME IInv, Next, NEW c \in Coros
    PROVE  /\ place'[c] = "waiting" <=> place[c] = "waiting"
           /\ place[c] \in {"todo", "manager"} =>
                place'[c] \in {"todo", "manager", "running"}
<1> DEFINE Goal ==
           /\ place'[c] = "waiting" <=> place[c] = "waiting"
           /\ place[c] \in {"todo", "manager"} =>
                place'[c] \in {"todo", "manager", "running"}
<1> SUFFICES Goal
  OBVIOUS
<1>t. TypeOK
  BY DEF IInv
<1>0. CASE UNCHANGED place
  BY <1>0
<1>m. ASSUME NEW d \in Coros, NEW p, Move(d, p), p # "waiting",
             place[d] # "waiting",
             place[d] \in {"todo", "manager"} => p \in {"todo", "manager", "running"}
      PROVE  Goal
  <2>1. place'[c] = IF c = d THEN p ELSE place[c]
    BY <1>m, <1>t DEF Move, TypeOK
  <2> QED
    BY <1>m, <2>1
<1> HIDE DEF Goal
<1>1. ASSUME NEW t \in Callers, Create(t) PROVE Goal
  <2>1. ASSUME NEW d \in Coros, CreateAlloc(t, d) PROVE Goal
    BY <1>m, <2>1 DEF CreateAlloc
  <2>2. CASE CreatePush(t)
    BY <1>m, <2>2, CallerHolds DEF CreatePush
  <2>3. CASE CreatePost(t)
    BY <1>0, <2>3 DEF CreatePost, taskVars
  <2> QED
    BY <1>1, <2>1, <2>2, <2>3 DEF Create
<1>2. CASE ManagerLoop
  <2>1. CASE SemWait \/ Back
    BY <1>0, <2>1 DEF SemWait, Back, taskVars
  <2>2. CASE ShiftTodo
    BY <1>m, <2>2, TodoHead DEF ShiftTodo
  <2>3. CASE Launch \/ Resume
    <3>1. mtask \in Coros /\ place[mtask] = "manager" /\ Move(mtask, "running")
      BY <2>3, SwitchTask DEF Launch, Resume, ManagerGoto
    <3> QED
      BY <1>m, <3>1
  <2>4. CASE Finish
    <3>1. curr \in Coros /\ place[curr] = "exiting" /\ Move(curr, "freed")
      BY <2>4, SwitchTask DEF Finish, ManagerGoto
    <3> QED
      BY <1>m, <3>1
  <2> QED
    BY <1>2, <2>1, <2>2, <2>3, <2>4 DEF ManagerLoop
<1>3. CASE Coroutine
  <2>1. ASSUME NEW p, Move(curr, p), p # "waiting", mpc = "coro"
        PROVE  Goal
    BY <1>3, <1>m, <2>1, CurrRuns
  <2> QED
    BY <1>0, <1>3, <2>1 DEF Coroutine, Submit, NotifyWorker, YieldPush, YieldPost,
       SwapOut, Exit, Return, Running, ManagerGoto, taskVars
<1>4. ASSUME NEW w \in Workers, Worker(w) PROVE Goal
  <2>1. CASE ReadPipe(w) \/ DoSync(w) \/ PostManager(w)
    BY <1>0, <2>1 DEF ReadPipe, DoSync, PostManager, taskVars
  <2>2. CASE ShiftDoing(w)
    BY <1>m, <2>2, DoingHead DEF ShiftDoing
  <2>3. CASE DoAsync(w) \/ PushTodo(w)
    <3>1. /\ wtask[w] \in Coros /\ place[wtask[w]] = "worker"
          /\ Move(wtask[w], "loop") \/ Move(wtask[w], "todo")
      BY <2>3, WorkerHolds DEF DoAsync, PushTodo, WorkerGoto
    <3> QED
      BY <1>m, <3>1
  <2>4. ASSUME NEW d \in Coros, Callback(w, d) PROVE Goal
    BY <1>m, <2>4, LoopTask DEF Callback
  <2> QED
    BY <1>4, <2>1, <2>2, <2>3, <2>4 DEF Worker
<1> QED
  BY <1>1, <1>2, <1>3, <1>4 DEF Next

\* No other thread moves the running coroutine's task.
LEMMA KeepsRunning ==
    ASSUME IInv, NEW c \in Coros, place[c] = "running",
           (\E t \in Callers : Create(t)) \/ (\E w \in Workers : Worker(w))
    PROVE  place'[c] = "running"
<1>m. ASSUME NEW d \in Coros, NEW p, Move(d, p), place[d] # "running"
      PROVE  place'[c] = "running"
  BY <1>m DEF Move, IInv, TypeOK
<1>1. ASSUME NEW t \in Callers, Create(t) PROVE place'[c] = "running"
  <2>1. ASSUME NEW d \in Coros, CreateAlloc(t, d) PROVE place'[c] = "running"
    BY <1>m, <2>1 DEF CreateAlloc
  <2>2. CASE CreatePush(t)
    BY <1>m, <2>2, CallerHolds DEF CreatePush
  <2>3. CASE CreatePost(t)
    BY <2>3 DEF CreatePost, taskVars
  <2> QED
    BY <1>1, <2>1, <2>2, <2>3 DEF Create
<1>2. ASSUME NEW w \in Workers, Worker(w) PROVE place'[c] = "running"
  <2>1. CASE ReadPipe(w) \/ DoSync(w) \/ PostManager(w)
    BY <2>1 DEF ReadPipe, DoSync, PostManager, taskVars
  <2>2. CASE ShiftDoing(w)
    BY <1>m, <2>2, DoingHead DEF ShiftDoing
  <2>3. CASE DoAsync(w) \/ PushTodo(w)
    <3>1. /\ wtask[w] \in Coros /\ place[wtask[w]] = "worker"
          /\ Move(wtask[w], "loop") \/ Move(wtask[w], "todo")
      BY <2>3, WorkerHolds DEF DoAsync, PushTodo, WorkerGoto
    <3> QED
      BY <1>m, <3>1
  <2>4. ASSUME NEW d \in Coros, Callback(w, d) PROVE place'[c] = "running"
    BY <1>m, <2>4, LoopTask DEF Callback
  <2> QED
    BY <1>2, <2>1, <2>2, <2>3, <2>4 DEF Worker
<1> QED
  BY <1>1, <1>2

\* A coroutine in the loop of crt_sem_wait() keeps the place that its
\* semaphore's value gives it while the other threads step.
LEMMA WaiterBeside ==
    ASSUME IInv, Whereabouts, SemNext, ~Semaphore
    PROVE  Whereabouts'
<1>1. Next /\ value' = value /\ waits' = waits
  BY DEF SemNext, SemManager, SemCreate, SemWorker, Next, Beside
<1> SUFFICES ASSUME NEW c \in Coros
             PROVE  /\ waits[c] # NULL =>
                         IF value[waits[c]] = 0
                           THEN place'[c] = "waiting"
                           ELSE place'[c] \in {"todo", "manager", "running"}
                    /\ place'[c] = "waiting" => waits[c] # NULL
  BY <1>1 DEF Whereabouts
<1>2. place'[c] = "waiting" <=> place[c] = "waiting"
  BY <1>1, Turns
<1>3. ASSUME waits[c] # NULL, value[waits[c]] # 0
      PROVE  place'[c] \in {"todo", "manager", "running"}
  <2>1. CASE place[c] \in {"todo", "manager"}
    BY <1>1, <2>1, Turns
  <2>2. CASE place[c] = "running"
    <3>1. curr = c /\ mpc \in {"coro", "sem_post"}
      BY <2>2 DEF IInv, SingleOwner, Active
    <3>2. ~ManagerLoop /\ ~(OutOfLoop /\ Coroutine)
      BY <1>3, <3>1 DEF ManagerLoop, SemWait, ShiftTodo, Launch, Resume, Finish, Back,
         OutOfLoop, Coroutine, Submit, NotifyWorker, YieldPush, YieldPost, SwapOut,
         Exit, Return, Running, ManagerGoto
    <3>3. (\E t \in Callers : Create(t)) \/ (\E w \in Workers : Worker(w))
      BY <3>2 DEF SemNext, SemManager, SemCreate, SemWorker
    <3> QED
      BY <2>2, <3>3, KeepsRunning
  <2> QED
    BY <1>3, <2>1, <2>2 DEF Whereabouts
<1> QED
  BY <1>2, <1>3 DEF Whereabouts

\* And while a coroutine waits or posts.
LEMMA WaiterPosted ==
    ASSUME OnePost, IInv, SemTypes, Paired, Whereabouts, Semaphore
    PROVE  Whereabouts'
<1> USE SemAssumption, ConstantsAssumption DEF Running, ManagerGoto
<1>1. ASSUME NEW s \in Sems, Take(s) PROVE Whereabouts'
  <2>1. curr \in Coros /\ place[curr] = "running" /\ place' = place
    BY <1>1, CurrRuns DEF Take
  <2>2. /\ \A c \in Coros : c # curr => waits[c] # s
        /\ waits' = [waits EXCEPT ![curr] = NULL]
        /\ value' = [value EXCEPT ![s] = @ - 1]
    BY <1>1, <2>1 DEF Take, InLoop, Paired, SemTypes
  <2> QED
    BY <2>1, <2>2 DEF Whereabouts, SemTypes
<1>2. ASSUME NEW s \in Sems, Block(s) PROVE Whereabouts'
  <2>1. curr \in Coros /\ place[curr] = "running" /\ Move(curr, "waiting")
    BY <1>2, CurrRuns DEF Block
  <2>2. /\ waits' = [waits EXCEPT ![curr] = s]
        /\ value' = value /\ value[s] = 0
    BY <1>2 DEF Block
  <2>3. \A c \in Coros : place'[c] = IF c = curr THEN "waiting" ELSE place[c]
    BY <2>1 DEF Move, IInv, TypeOK
  <2> QED
    BY <2>1, <2>2, <2>3 DEF Whereabouts, SemTypes
<1>3. ASSUME NEW s \in Sems, PostFree(s) PROVE Whereabouts'
  <2>1. /\ place' = place /\ waits' = waits /\ waiter[s] = NULL
        /\ value' = [value EXCEPT ![s] = @ + 1]
    BY <1>3 DEF PostFree, Posting
  <2>2. \A c \in Coros : waits[c] # s
    BY <2>1 DEF Paired
  <2> QED
    BY <2>1, <2>2 DEF Whereabouts, SemTypes
<1>4. ASSUME NEW s \in Sems, NEW flag \in Flags, PostWaiter(s, flag)
      PROVE  Whereabouts'
  <2>1. /\ Move(waiter[s], "todo") /\ waits' = waits
        /\ waiter[s] # NULL /\ value[s] = 0
        /\ value' = [value EXCEPT ![s] = @ + 1]
    BY <1>4 DEF PostWaiter, Posting
  <2>2. waiter[s] \in Coros /\ waits[waiter[s]] = s
    BY <2>1, WaiterStored
  <2>3. \A c \in Coros : place'[c] = IF c = waiter[s] THEN "todo" ELSE place[c]
    BY <2>1, <2>2 DEF Move, IInv, TypeOK
  <2>4. \A r \in Sems : value'[r] = IF r = s THEN 1 ELSE value[r]
    BY <2>1 DEF SemTypes
  <2>5. \A c \in Coros : c # waiter[s] => waits[c] # s
    BY DEF Paired
  <2> QED
    BY <2>1, <2>2, <2>3, <2>4, <2>5 DEF Whereabouts, SemTypes
<1>5. CASE SemPost
  BY <1>5 DEF SemPost, semVars, taskVars, Whereabouts
<1> QED
  BY <1>1, <1>2, <1>3, <1>4, <1>5 DEF Semaphore

-----------------------------------------------------------------------------
(* Critical posts. *)

\* A task pushed last leaves the first one first.
LEMMA HeadStays ==
    ASSUME NEW S, NEW q \in Seq(S), NEW x \in S, q # <<>>
    PROVE  Append(q, x) # <<>> /\ Head(Append(q, x)) = Head(q)
OBVIOUS

\* The ready coroutines, the one in the manager's hands included.
LEMMA ReadyQueueType == IInv => ReadyQueue \in Seq(Coros)
<1> SUFFICES ASSUME IInv PROVE ReadyQueue \in Seq(Coros)
  OBVIOUS
<1>1. todo \in Seq(Coros)
  BY DEF IInv, TypeOK
<1>2. ASSUME mpc = "switch" PROVE <<mtask>> \o todo \in Seq(Coros)
  <2>1. mtask \in Coros
    BY <1>2, SwitchTask
  <2> QED
    BY <1>1, <2>1
<1> QED
  BY <1>1, <1>2 DEF ReadyQueue

\* What the core does to the ready coroutines: it appends one, or runs the
\* first one, or leaves them alone.
LEMMA ReadyStep ==
    ASSUME IInv, IInv', Next
    PROVE  \/ ReadyQueue' = ReadyQueue
           \/ \E c \in Coros : ReadyQueue' = Append(ReadyQueue, c)
           \/ ReadyQueue # <<>> /\ curr' = Head(ReadyQueue)
<1>1. ASSUME NEW c \in Coros, Life!Run(c)
      PROVE  ReadyQueue # <<>> /\ curr' = Head(ReadyQueue)
  <2>1. ReadyQueue # <<>> /\ c = Head(ReadyQueue) /\ St'[c] = "running"
    BY <1>1 DEF Life!Run, Life!Become, St
  <2>2. place'[c] = "running"
    <3>1. place'[c] \in Place /\ StateOf[place'[c]] = "running"
      BY <2>1 DEF St, IInv, TypeOK
    <3> QED
      BY <3>1, StateFacts DEF Place
  <2>3. curr' = c
    BY <2>2 DEF IInv, SingleOwner, Active
  <2> QED
    BY <2>1, <2>3
<1>2. ASSUME NEW c \in Coros, Life!Start(c) \/ Life!Wake(c) \/ Life!Yield(c)
      PROVE  ReadyQueue' = Append(ReadyQueue, c)
  BY <1>2 DEF Life!Start, Life!Wake, Life!Yield
<1>3. ASSUME NEW c \in Coros, Life!Call(c) \/ Life!Answer(c) \/ Life!End(c)
      PROVE  ReadyQueue' = ReadyQueue
  BY <1>3 DEF Life!Call, Life!Answer, Life!End
<1>4. Unseen => ReadyQueue' = ReadyQueue
  BY DEF Unseen
<1> QED
  BY <1>1, <1>2, <1>3, <1>4, LifeStep

\* The waiter posted last critically stays first until it runs.
LEMMA CriticalStep ==
    ASSUME OnePost, SemInv, IInv', SemNext
    PROVE  UrgentWaits' /\ CriticalFirst'
<1> USE DEF SemInv
<1>1. CASE Semaphore
  <2> USE DEF Running, ManagerGoto
  <2>1. CASE (\E s \in Sems : Take(s) \/ Block(s) \/ PostFree(s)) \/ SemPost
    <3>1. /\ mpc # "switch" /\ mpc' # "switch" /\ todo' = todo /\ curr' = curr
          /\ urgent' = urgent
      BY <2>1 DEF Take, Block, PostFree, SemPost, semVars
    <3> QED
      BY <3>1 DEF UrgentWaits, CriticalFirst, ReadyQueue
  <2>2. ASSUME NEW s \in Sems, NEW flag \in Flags, PostWaiter(s, flag)
        PROVE  UrgentWaits' /\ CriticalFirst'
    <3> DEFINE c == waiter[s]
    <3>1. /\ mpc # "switch" /\ mpc' # "switch" /\ curr' = curr
          /\ waits[curr] = NULL /\ c # NULL /\ value[s] = 0
          /\ \/ todo' = <<c>> \o todo /\ urgent' = c
             \/ todo' = Append(todo, c) /\ urgent' = urgent
      BY <2>2 DEF PostWaiter, Posting
    <3>2. c \in Coros /\ waits[c] = s
      BY <3>1, WaiterStored
    <3>3. c # curr
      BY <3>1, <3>2, SemAssumption
    <3>4. todo \in Seq(Coros) /\ ReadyQueue = todo /\ ReadyQueue' = todo'
      BY <3>1 DEF IInv, TypeOK, ReadyQueue
    <3>5. <<c>> \o todo # <<>> /\ Head(<<c>> \o todo) = c
      BY ONLY <3>2, <3>4, ConsFacts
    <3>6. todo # <<>> => Append(todo, c) # <<>> /\ Head(Append(todo, c)) = Head(todo)
      BY ONLY <3>2, <3>4, HeadStays
    <3> HIDE DEF c
    <3> QED
      BY <3>1, <3>3, <3>4, <3>5, <3>6 DEF UrgentWaits, CriticalFirst
  <2> QED
    BY <1>1, <2>1, <2>2 DEF Semaphore
<1>2. CASE ~Semaphore
  <2>1. Next /\ urgent' = IF curr' = urgent /\ curr # urgent THEN NULL ELSE urgent
    BY <1>2 DEF SemNext, SemManager, SemCreate, SemWorker, Next, Beside
  <2> SUFFICES ASSUME urgent' # NULL
               PROVE  /\ urgent' # curr'
                      /\ ReadyQueue' # <<>> /\ Head(ReadyQueue') = urgent'
    BY DEF UrgentWaits, CriticalFirst
  <2>2. urgent' = urgent /\ curr' # urgent
    BY <2>1 DEF UrgentWaits
  <2>3. ReadyQueue # <<>> /\ Head(ReadyQueue) = urgent /\ ReadyQueue \in Seq(Coros)
    BY <2>2, ReadyQueueType DEF CriticalFirst
  <2>4. ReadyQueue' = ReadyQueue \/ \E c \in Coros : ReadyQueue' = Append(ReadyQueue, c)
    BY <2>1, <2>2, <2>3, ReadyStep
  <2> QED
    BY <2>2, <2>3, <2>4, HeadStays
<1> QED
  BY <1>1, <1>2

-----------------------------------------------------------------------------
(* The theorems. *)

\* The invariant is inductive.
LEMMA SemInvStep ==
    ASSUME OnePost, SemInv, [SemNext]_<<vars, semVars>>
    PROVE  SemInv'
<1>1. CASE SemNext
  <2>1. IInv' /\ TokensMatch'
    <3>1. CASE Semaphore
      BY <3>1, SemaphoreInv, SemaphoreTokens DEF SemInv
    <3>2. CASE ~Semaphore
      <4>1. Next
        BY <1>1, <3>2 DEF SemNext, SemManager, SemCreate, SemWorker, Next
      <4>2. IInv'
        BY <4>1, NextInv DEF SemInv
      <4>3. TokensMatch'
        BY <4>1, CreateTokens, ManagerTokens, CoroutineTokens, WorkerTokens
           DEF SemInv, Next
      <4> QED
        BY <4>2, <4>3
    <3> QED
      BY <3>1, <3>2
  <2>2. SemTypes' /\ Paired'
    BY <1>1, SemTypesStep, PairedStep DEF SemInv
  <2>3. Whereabouts'
    BY <1>1, WaiterBeside, WaiterPosted DEF SemInv
  <2>4. UrgentWaits' /\ CriticalFirst'
    BY <1>1, <2>1, CriticalStep
  <2> QED
    BY <2>1, <2>2, <2>3, <2>4 DEF SemInv
<1>2. CASE UNCHANGED <<vars, semVars>>
  <2>0. UNCHANGED vars /\ UNCHANGED semVars
    BY <1>2
  <2>1. IInv'
    BY <2>0, NextInv DEF SemInv
  <2>2. TokensMatch' /\ ReadyQueue' = ReadyQueue
    BY <2>0 DEF SemInv, vars, taskVars, managerVars, createVars, workerVars,
                pipeVars, TokensMatch, ReadyQueue
  <2>3. SemTypes' /\ Paired'
    BY <2>0 DEF SemInv, semVars, SemTypes, Paired
  <2>4. Whereabouts'
    BY <2>0 DEF SemInv, semVars, vars, taskVars, Whereabouts
  <2>5. UrgentWaits' /\ CriticalFirst'
    BY <2>0, <2>2 DEF SemInv, semVars, vars, managerVars, UrgentWaits, CriticalFirst
  <2> QED
    BY <2>1, <2>2, <2>3, <2>4, <2>5 DEF SemInv
<1> QED
  BY <1>1, <1>2

\* If no waiter is posted twice before it runs, SemInv holds in every
\* reachable state.
THEOREM SemInvHolds == OnePost /\ SemSpec => []SemInv
<1>1. SemInit => SemInv
  <2> SUFFICES ASSUME SemInit PROVE SemInv
    OBVIOUS
  <2>1. IInv /\ TokensMatch
    BY InitInv, InitTokens DEF SemInit
  <2>2. SemTypes /\ Paired
    BY SemAssumption DEF SemInit, SemTypes, Paired
  <2>3. Whereabouts /\ UrgentWaits /\ CriticalFirst
    BY DEF SemInit, Init, Whereabouts, UrgentWaits, CriticalFirst
  <2> QED
    BY <2>1, <2>2, <2>3 DEF SemInv
<1>2. CASE OnePost
  <2>1. SemInv /\ [SemNext]_<<vars, semVars>> => SemInv'
    BY <1>2, SemInvStep
  <2> QED
    BY <1>1, <2>1, PTL DEF SemSpec
<1>3. CASE ~OnePost
  BY <1>3
<1> QED
  BY <1>2, <1>3

\* If no waiter is posted twice before it runs, a coroutine in crt_sem_wait()
\* is queued or with the manager if and only if its semaphore has a unit, and
\* is otherwise stored in the semaphore and in no queue: no post is lost, and
\* no step of another thread queues a waiter that nobody has posted.
THEOREM WaitersOnTheirWay == OnePost /\ SemSpec => []WaiterOnItsWay
<1>1. SemInv => WaiterOnItsWay
  <2> SUFFICES ASSUME SemInv, NEW c \in Coros, waits[c] # NULL
               PROVE  /\ waiter[waits[c]] = c
                      /\ value[waits[c]] > 0 <=>
                           place[c] \in {"todo", "manager", "running"}
                      /\ place[c] = "todo" <=> c \in Range(todo)
                      /\ place[c] = "waiting" => c \notin Range(todo) \cup Range(doing)
    BY DEF WaiterOnItsWay
  <2>1. value[waits[c]] \in 0 .. MaxValue /\ MaxValue \in Nat
    BY SemAssumption DEF SemInv, SemTypes
  <2>2. value[waits[c]] > 0 <=> place[c] \in {"todo", "manager", "running"}
    BY <2>1 DEF SemInv, Whereabouts
  <2>3. waiter[waits[c]] = c
    BY DEF SemInv, Paired
  <2>4. /\ place[c] = "todo" <=> c \in Range(todo)
        /\ place[c] = "waiting" => c \notin Range(todo) \cup Range(doing)
    BY DEF SemInv, IInv, SingleOwner, Queued
  <2> QED
    BY <2>2, <2>3, <2>4
<1> QED
  BY <1>1, SemInvHolds, PTL

\* If no waiter is posted twice before it runs, then whatever the workers and
\* other threads push meanwhile, the waiter that was last posted critically is
\* the next coroutine the manager switches to.
THEOREM CriticalRunsFirst == OnePost /\ SemSpec => []CriticalFirst
<1>1. SemInv => CriticalFirst
  BY DEF SemInv
<1> QED
  BY <1>1, SemInvHolds, PTL

\* If no waiter is posted twice before it runs, then when no thread has
\* anything left to do, every coroutine has ended or waits for a semaphore that
\* has no unit: no post has been lost on the way.
THEOREM IdleWaiters == OnePost /\ SemSpec => []IdleMeansWaiting
<1>1. SemInv => IdleMeansWaiting
  <2> SUFFICES ASSUME SemInv, Idle, NEW c \in Coros
               PROVE  \/ place[c] \in {"unborn", "freed", "leaked"}
                      \/ place[c] = "waiting" /\ value[waits[c]] = 0
    BY DEF IdleMeansWaiting
  <2>1. place[c] \in {"unborn", "waiting", "freed", "leaked"}
    BY IdlePlaces DEF SemInv
  <2> QED
    BY <2>1 DEF SemInv, Whereabouts
<1> QED
  BY <1>1, SemInvHolds, PTL

\* With semaphores in use, and no waiter posted twice before it runs, the core
\* keeps its promises: a task has one owner, units and bytes cover the queues,
\* no assertion or abort() is reached, no unsaved coroutine is switched to, and
\* every call is served once.
THEOREM CoreStaysSafe ==
    OnePost /\ SemSpec => [](SingleOwner /\ TokensMatch /\ NoAbort /\ ContextSaved /\ ServedOnce)
<1>1. SemInv => SingleOwner /\ TokensMatch /\ NoAbort /\ ContextSaved /\ ServedOnce
  BY NoAbortInv, ContextSavedInv DEF SemInv, IInv
<1> QED
  BY <1>1, SemInvHolds, PTL

=============================================================================

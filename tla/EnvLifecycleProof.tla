------------------------- MODULE EnvLifecycleProof -------------------------
(***************************************************************************)
(* Proofs about module EnvLifecycle, for every number of environments, one *)
(* after the other, and of workers in each.                                *)
(*                                                                         *)
(* That an environment is taken down in the right order depends on the two *)
(* calls alone (EnvParts). The invariant of AcoroProof holds across        *)
(* environments if the application waits for its coroutines' last calls    *)
(* (WaitsForCalls): it is then quiet whenever destroy_coroutine_env() or   *)
(* init_coroutine_env() runs, and tokens that match leave a quiet          *)
(* application's queues, pipes and semaphore empty.                        *)
(***************************************************************************)
EXTENDS EnvLifecycle, AcoroProof

EnvPcs == {"init", "up", "d_doing", "d_cancel", "d_join", "d_worker",
           "d_join_w", "d_close", "d_loops", "down"}

EnvTypes ==
    /\ epc \in EnvPcs
    /\ nth \in Nat
    /\ threads \subseteq Workers \cup {Manager}
    /\ loops \subseteq Workers

\* Which threads and descriptors there are, by where the main thread is.
Phases ==
    /\ epc = "down" => /\ threads = {} /\ pipes = {} /\ loops = {}
                       /\ queues = {} /\ cancelled = {}
    /\ epc = "init" => /\ nth < WorkerCount
                       /\ pipes = 0 .. nth - 1
                       /\ threads = pipes \cup {Manager}
    /\ epc \in {"up", "d_doing", "d_cancel"} =>
         threads = Workers \cup {Manager}
    /\ epc \in {"init", "up", "d_doing", "d_cancel"} => cancelled = {}
    /\ epc \in {"up", "d_doing", "d_cancel", "d_join", "d_worker", "d_join_w",
                "d_close"} => pipes = Workers
    /\ epc = "d_join" => cancelled = {Manager} /\ Workers \subseteq threads
    /\ epc \in {"d_worker", "d_join_w"} => nth < WorkerCount /\ Manager \notin threads
    /\ epc = "d_worker" => /\ cancelled = 0 .. nth - 1 \cup {Manager}
                           /\ threads = nth .. WorkerCount - 1
    /\ epc = "d_join_w" => /\ cancelled = 0 .. nth \cup {Manager}
                           /\ threads \subseteq nth .. WorkerCount - 1
                           /\ nth + 1 .. WorkerCount - 1 \subseteq threads
    /\ epc \in {"d_close", "d_loops"} => threads = {}
    /\ epc = "d_loops" => pipes = {}
    /\ epc \in {"init", "up"} => queues = {"todo", "doing"}
    /\ epc \in {"d_cancel", "d_join", "d_worker", "d_join_w", "d_close",
                "d_loops"} => queues = {}
    /\ epc = "d_doing" => queues = {"doing"}

\* A worker that has ended had made its event loop first.
LoopsMade ==
    epc \notin {"down", "init"} => Workers \ threads \subseteq loops

\* The environment's parts are in phase with the main thread.
EnvParts == EnvTypes /\ Phases /\ LoopsMade

\* Where the manager thread was cut off.
CutOff == Manager \notin threads => mpc \in {"sem_wait", "coro", "notify"}

\* Except between the two calls, the application is quiet.
QuietOutside == epc # "up" => Quiet

EnvInv ==
    /\ IInv /\ TokensMatch
    /\ EnvParts /\ CutOff /\ QuietOutside

-----------------------------------------------------------------------------
(* A quiet application. *)

\* Tokens that match leave nothing in the queues, the semaphore and the pipes
\* of a quiet application, and no worker on the way to one of them.
LEMMA QuietFacts ==
    ASSUME IInv, TokensMatch, Quiet
    PROVE  /\ todo = <<>> /\ doing = <<>> /\ sem = 0 /\ bytes = {}
           /\ \A w \in Workers : wpc[w] = "poll" /\ wtask[w] = NULL
           /\ \A c \in Coros : loop[c] = NULL
           /\ mpc \in {"sem_wait", "coro", "back", "switch"}
           /\ mpc = "switch" => action[mtask] = "finished_coroutine"
           /\ \A t \in Callers : cnew[t] = NULL
<1>p. ASSUME NEW c \in Coros
      PROVE  place[c] \in {"unborn", "exiting", "leaked", "freed", "running"}
  BY DEF Quiet, LastCallMade
<1>1. todo = <<>> /\ doing = <<>>
  <2>1. ASSUME NEW q \in Seq(Coros), q # <<>>,
               \A c \in Coros : c \in Range(q) => place[c] \in {"todo", "doing"}
        PROVE  FALSE
    <3>1. Head(q) \in Coros /\ Head(q) \in Range(q)
      BY <2>1, TailFacts
    <3> QED
      BY <1>p, <2>1, <3>1
  <2>2. todo \in Seq(Coros) /\ doing \in Seq(Coros)
    BY DEF IInv, TypeOK
  <2>3. \A c \in Coros : /\ c \in Range(todo) => place[c] \in {"todo", "doing"}
                         /\ c \in Range(doing) => place[c] \in {"todo", "doing"}
    BY DEF IInv, SingleOwner, Queued
  <2> QED
    BY <2>1, <2>2, <2>3
<1>2. Len(todo) = 0 /\ Len(doing) = 0
  BY <1>1
<1>3. /\ Cardinality(At(cpc, "post")) \in Nat
      /\ Cardinality(At(wpc, "post")) \in Nat
      /\ Cardinality(At(wpc, "shift")) \in Nat
      /\ Cardinality(bytes) \in Nat
      /\ sem \in Nat
  BY WorkerCounts, CallerCounts, BytesFacts DEF IInv, TypeOK
<1>4. sem = 0 /\ Cardinality(At(wpc, "post")) = 0
      /\ mpc \notin {"yield_post", "sem_post", "shift"}
  <2> DEFINE k == IF mpc \in {"yield_post", "sem_post", "shift"} THEN 1 ELSE 0
             m == Cardinality(At(cpc, "post"))
             n == Cardinality(At(wpc, "post"))
  <2>1. 0 = sem + m + n + k
    BY <1>2 DEF TokensMatch
  <2>2. k \in Nat /\ m \in Nat /\ n \in Nat
    BY <1>3
  <2> HIDE DEF k, m, n
  <2>3. sem = 0 /\ n = 0 /\ k = 0
    BY <1>3, <2>1, <2>2
  <2> QED
    BY <2>3 DEF n, k
<1>5. Cardinality(bytes) = 0 /\ Cardinality(At(wpc, "shift")) = 0 /\ mpc # "notify"
  <2> DEFINE k == IF mpc = "notify" THEN 1 ELSE 0
             m == Cardinality(bytes)
             n == Cardinality(At(wpc, "shift"))
  <2>1. 0 = m + n + k
    BY <1>2 DEF TokensMatch
  <2>2. k \in Nat /\ m \in Nat /\ n \in Nat
    BY <1>3
  <2> HIDE DEF k, m, n
  <2>3. m = 0 /\ n = 0 /\ k = 0
    BY <2>1, <2>2
  <2> QED
    BY <2>3 DEF m, n, k
<1>6. At(wpc, "post") = {} /\ At(wpc, "shift") = {} /\ bytes = {}
  <2>1. At(wpc, "post") \in SUBSET Workers /\ At(wpc, "shift") \in SUBSET Workers
    BY DEF At, IInv, TypeOK
  <2>2. /\ IsFiniteSet(At(wpc, "post")) /\ IsFiniteSet(At(wpc, "shift"))
        /\ IsFiniteSet(bytes)
    BY <2>1, FiniteThreads, FS_Subset, BytesFacts DEF IInv
  <2> QED
    BY <1>4, <1>5, <2>2, FS_EmptySet
<1>7. ASSUME NEW w \in Workers PROVE wpc[w] = "poll" /\ wtask[w] = NULL
  <2>1. wtask[w] = NULL
    <3>1. wtask[w] \in Coros \cup {NULL}
      BY DEF IInv, TypeOK
    <3>2. \A c \in Coros : wtask[w] = c => place[c] = "worker"
      BY DEF IInv, SingleOwner, Handled
    <3> QED
      BY <1>p, <3>1, <3>2
  <2>2. wpc[w] \in WorkerPcs /\ wpc[w] \notin {"do_task", "push", "post", "shift"}
    BY <1>6, <2>1 DEF IInv, TypeOK, Held, At
  <2> QED
    BY <2>1, <2>2 DEF WorkerPcs
<1>8. \A c \in Coros : loop[c] = NULL
  BY <1>p DEF IInv, SingleOwner, Active
<1>9. mpc \in {"sem_wait", "coro", "back", "switch"}
  <2>1. mpc # "swap"
    BY <1>p DEF IInv, TypeOK, Held
  <2> QED
    BY <1>4, <1>5, <2>1 DEF IInv, TypeOK, ManagerPcs
<1>10. ASSUME mpc = "switch" PROVE action[mtask] = "finished_coroutine"
  <2>1. mtask \in Coros /\ place[mtask] \in {"manager", "exiting"}
    BY <1>10 DEF IInv, TypeOK, Held
  <2>2. place[mtask] = "exiting"
    BY <1>p, <2>1
  <2> QED
    BY <2>1, <2>2 DEF IInv, Carries
<1>11. \A t \in Callers : cnew[t] = NULL
  BY DEF IInv, Held, Quiet
<1> QED
  BY <1>1, <1>4, <1>6, <1>7, <1>8, <1>9, <1>10, <1>11

\* All that is left to the core of a quiet application is that a running
\* coroutine ends; it stays quiet.
LEMMA QuietStep ==
    ASSUME IInv, TokensMatch, Quiet,
           \/ ManagerLoop \/ Coroutine
           \/ \E w \in Workers : Worker(w)
           \/ \E t \in Callers : cpc[t] # "idle" /\ Create(t)
    PROVE  Quiet'
<1>0. /\ todo = <<>> /\ doing = <<>> /\ sem = 0 /\ bytes = {}
      /\ \A w \in Workers : wpc[w] = "poll" /\ wtask[w] = NULL
      /\ \A c \in Coros : loop[c] = NULL
      /\ mpc \in {"sem_wait", "coro", "back", "switch"}
      /\ mpc = "switch" => action[mtask] = "finished_coroutine"
  BY QuietFacts
<1>1. ASSUME NEW c \in Coros, NEW p, Move(c, p), p \in {"exiting", "leaked", "freed"},
             steps' = steps, cpc' = cpc
      PROVE  Quiet'
  <2>1. \A d \in Coros : place'[d] = IF d = c THEN p ELSE place[d]
    BY <1>1 DEF Move, IInv, TypeOK
  <2> QED
    BY <1>1, <2>1 DEF Quiet, LastCallMade
<1>2. CASE ManagerLoop
  <2>1. ~SemWait /\ ~ShiftTodo
    BY <1>0 DEF SemWait, ShiftTodo, ManagerGoto
  <2>2. ~Launch /\ ~Resume
    BY <1>0, ActionFacts DEF Launch, Resume, ManagerGoto
  <2>3. CASE Finish
    <3>1. curr \in Coros
      BY <2>3, SwitchTask DEF Finish, ManagerGoto
    <3> QED
      BY <1>1, <2>3, <3>1 DEF Finish, createVars
  <2>4. CASE Back
    BY <2>4 DEF Back, taskVars, createVars, Quiet, LastCallMade
  <2> QED
    BY <1>2, <2>1, <2>2, <2>3, <2>4 DEF ManagerLoop
<1>3. CASE Coroutine
  <2> USE DEF Running, ManagerGoto
  <2>1. ~NotifyWorker /\ ~YieldPost /\ ~SwapOut
    BY <1>0 DEF NotifyWorker, YieldPost, SwapOut
  <2>2. mpc = "coro" => /\ curr \in Coros /\ place[curr] = "running"
                        /\ steps[curr] = MaxSteps
    BY CurrRuns DEF Quiet, LastCallMade
  <2>3. ~YieldPush /\ \A op \in Ops : ~Submit(op)
    BY <2>2, ConstantsAssumption DEF YieldPush, Submit
  <2>4. CASE Exit
    BY <1>1, <2>2, <2>4 DEF Exit, createVars
  <2>5. CASE Return
    BY <1>1, <2>2, <2>5 DEF Return, createVars
  <2> QED
    BY <1>3, <2>1, <2>3, <2>4, <2>5 DEF Coroutine
<1>4. ASSUME NEW w \in Workers PROVE ~Worker(w)
  <2>1. ~ReadPipe(w)
    BY <1>0 DEF ReadPipe, Pipe
  <2>2. \A c \in Coros : ~Callback(w, c)
    BY <1>0, ConstantsAssumption DEF Callback
  <2> QED
    BY <1>0, <2>1, <2>2 DEF Worker, ShiftDoing, DoSync, DoAsync, PushTodo,
                            PostManager, WorkerGoto
<1> QED
  BY <1>2, <1>3, <1>4 DEF Quiet

-----------------------------------------------------------------------------
(* The core's invariant across environments. *)

\* What destroy_coroutine_env() does to a quiet core changes nothing in it.
LEMMA MainUnseen ==
    ASSUME WaitsForCalls, EnvInv, Main, ~InitManager
    PROVE  UNCHANGED vars
<1> USE DEF EnvInv, EnvParts, MainGoto, vars, taskVars, managerVars, createVars, workerVars,
        pipeVars
<1>q. ASSUME epc # "up" \/ Quiet
      PROVE  /\ todo = <<>> /\ doing = <<>> /\ bytes = {}
             /\ \A w \in Workers : wpc[w] = "poll" /\ wtask[w] = NULL
             /\ \A c \in Coros : loop[c] = NULL
  BY <1>q, QuietFacts DEF QuietOutside
<1>f. ASSUME FreeTasks(<<>>) PROVE place' = place
  <2>1. Range(<<>>) = {}
    BY DEF Range
  <2> QED
    BY <1>f, <2>1 DEF FreeTasks, IInv, TypeOK
<1>1. CASE InitWorker
  <2>1. nth \in Workers
    BY <1>1, ConstantsAssumption DEF InitWorker, Phases, EnvTypes, Workers
  <2>2. wpc' = wpc /\ wtask' = wtask
    BY <1>1, <1>q, <2>1 DEF InitWorker, IInv, TypeOK
  <2> QED
    BY <1>1, <2>2 DEF InitWorker
<1>2. CASE DestroyTodo
  BY <1>2, <1>q, <1>f DEF DestroyTodo
<1>3. CASE DestroyDoing
  BY <1>3, <1>q, <1>f DEF DestroyDoing
<1>4. CASE CancelManager \/ JoinManager \/ CancelWorker \/ JoinWorker
  BY <1>4 DEF CancelManager, JoinManager, CancelWorker, JoinWorker
<1>5. CASE ClosePipes
  BY <1>5, <1>q DEF ClosePipes
<1>6. CASE DestroyLoops
  <2>1. loop' = loop
    BY <1>6, <1>q DEF DestroyLoops, IInv, TypeOK
  <2> QED
    BY <1>6, <2>1 DEF DestroyLoops
<1> QED
  BY <1>1, <1>2, <1>3, <1>4, <1>5, <1>6 DEF Main

\* init_coroutine_env() starts the next environment in a state that satisfies
\* the invariant, although tasks of earlier ones are still allocated.
LEMMA InitManagerInv ==
    ASSUME EnvInv, InitManager
    PROVE  IInv' /\ TokensMatch' /\ Quiet'
<1> USE ConstantsAssumption DEF InitManager, MainGoto, workerVars
<1>e. IInv /\ TokensMatch /\ Quiet
  BY DEF EnvInv, QuietOutside
<1>0. /\ todo = <<>> /\ doing = <<>> /\ sem = 0 /\ bytes = {}
      /\ \A w \in Workers : wpc[w] = "poll" /\ wtask[w] = NULL
      /\ \A c \in Coros : loop[c] = NULL
      /\ \A t \in Callers : cnew[t] = NULL /\ cpc[t] = "idle"
      /\ mpc \in {"sem_wait", "coro", "back", "switch"}
  BY <1>e, QuietFacts DEF Quiet
<1>m. mpc \in {"sem_wait", "coro"}
  BY <1>0 DEF EnvInv, EnvParts, Phases, CutOff
<1>p. \A c \in Coros : place[c] \in {"unborn", "leaked", "freed", "running"}
  <2>1. \A c \in Coros : place[c] # "exiting"
    BY <1>e, <1>m DEF IInv, Held
  <2> QED
    BY <1>e, <2>1 DEF Quiet, LastCallMade
<1>n. \A c \in Coros : /\ place'[c] \in {"unborn", "leaked", "freed"}
                       /\ place'[c] = IF place[c] = "running" THEN "leaked"
                                                              ELSE place[c]
  BY <1>p
<1>t. TypeOK
  BY <1>e DEF IInv
<1>1. TypeOK'
  <2>1. place' \in [Coros -> Place]
    BY <1>n DEF Place
  <2> QED
    BY <1>0, <1>t, <2>1 DEF TypeOK, ManagerPcs
<1>2. SingleOwner'
  <2>1. Range(<<>>) = {} /\ IsInjective(<<>>)
    BY DEF Range, IsInjective
  <2>2. Queued'
    BY <1>n, <2>1 DEF Queued
  <2>3. Created' /\ Handled'
    BY <1>0, <1>n DEF Created, Handled
  <2>4. Active'
    BY <1>0, <1>n DEF Active
  <2> QED
    BY <2>2, <2>3, <2>4 DEF SingleOwner
<1>3. Held'
  BY <1>0, <1>n DEF Held, Callers
<1>4. Carries'
  BY <1>0, <1>e, <1>n, <1>p DEF IInv, Carries
<1>5. Contexts'
  BY <1>e, <1>n, <1>p DEF IInv, Contexts, Suspended
<1>6. ServedOnce'
  BY <1>0, <1>e, <1>n, <1>p DEF IInv, ServedOnce
<1>7. TokensMatch'
  <2>1. At(cpc, "post") = {} /\ At(wpc, "post") = {} /\ At(wpc, "shift") = {}
    BY <1>0, <1>t DEF At, TypeOK
  <2>2. /\ Cardinality(At(cpc, "post")) = 0 /\ Cardinality(At(wpc, "post")) = 0
        /\ Cardinality(At(wpc, "shift")) = 0 /\ Cardinality(bytes) = 0
    BY <1>0, <2>1, FS_EmptySet, Zenon
  <2>3. /\ cpc' = cpc /\ wpc' = wpc /\ bytes' = bytes /\ todo' = <<>> /\ doing' = <<>>
        /\ sem' = 0 /\ mpc' = "sem_wait"
    OBVIOUS
  <2> QED
    BY <2>2, <2>3 DEF TokensMatch
<1>8. Quiet'
  BY <1>0, <1>n DEF Quiet, LastCallMade
<1> QED
  BY <1>1, <1>2, <1>3, <1>4, <1>5, <1>6, <1>7, <1>8 DEF IInv

\* Every step keeps the core's invariant, and the application quiet when it
\* has to be.
LEMMA CoreStep ==
    ASSUME WaitsForCalls, EnvInv, EnvNext
    PROVE  IInv' /\ TokensMatch' /\ QuietOutside'
<1>e. IInv /\ TokensMatch
  BY DEF EnvInv
<1>1. CASE InitManager
  BY <1>1, InitManagerInv DEF QuietOutside
<1>2. ASSUME UNCHANGED vars
      PROVE  IInv' /\ TokensMatch' /\ (Quiet => Quiet')
  <2>1. IInv'
    BY <1>2, <1>e, NextInv
  <2>2. TokensMatch'
    BY <1>2, <1>e DEF vars, taskVars, managerVars, createVars, workerVars, pipeVars,
                      TokensMatch
  <2>3. Quiet => Quiet'
    BY <1>2 DEF vars, taskVars, createVars, Quiet, LastCallMade
  <2> QED
    BY <2>1, <2>2, <2>3
<1>3. CASE Main /\ ~InitManager
  <2>1. UNCHANGED vars
    BY <1>3, MainUnseen
  <2>2. epc' # "up" => Quiet
    BY <1>3 DEF EnvInv, QuietOutside, Main, InitWorker, DestroyTodo, DestroyDoing,
       CancelManager, JoinManager, CancelWorker, JoinWorker, ClosePipes, DestroyLoops,
       MainGoto
  <2> QED
    BY <1>2, <2>1, <2>2 DEF QuietOutside
<1>4. ASSUME UNCHANGED vars, epc' = epc
      PROVE  IInv' /\ TokensMatch' /\ QuietOutside'
  BY <1>2, <1>4 DEF EnvInv, QuietOutside
<1>5. ASSUME NEW w \in Workers, WorkerStart(w)
      PROVE  IInv' /\ TokensMatch' /\ QuietOutside'
  BY <1>4, <1>5 DEF WorkerStart
<1>6. ASSUME NEW t \in Workers \cup {Manager}, Die(t)
      PROVE  IInv' /\ TokensMatch' /\ QuietOutside'
  BY <1>4, <1>6 DEF Die
<1>7. ASSUME epc' = epc,
             \/ ManagerLoop \/ Coroutine
             \/ \E w \in Workers : Worker(w)
             \/ \E t \in Callers : (epc = "up" \/ cpc[t] # "idle") /\ Create(t)
      PROVE  IInv' /\ TokensMatch' /\ QuietOutside'
  <2>1. Next
    BY <1>7 DEF Next
  <2>2. IInv'
    BY <1>e, <2>1, NextInv
  <2>3. TokensMatch'
    BY <1>e, <2>1, CreateTokens, ManagerTokens, CoroutineTokens, WorkerTokens DEF Next
  <2>4. QuietOutside'
    BY <1>7, <1>e, QuietStep DEF EnvInv, QuietOutside
  <2> QED
    BY <2>2, <2>3, <2>4
<1>8. CASE EnvManager \/ (\E w \in Workers : EnvWorker(w))
                      \/ (\E t \in Callers : EnvCreate(t))
  <2>1. epc' = epc
    BY <1>8 DEF EnvManager, EnvWorker, EnvCreate, envVars
  <2> QED
    BY <1>7, <1>8, <2>1 DEF EnvManager, EnvWorker, EnvCreate
<1> QED
  BY <1>1, <1>3, <1>5, <1>6, <1>8 DEF EnvNext

-----------------------------------------------------------------------------
(* Threads, pipes and loops. *)

\* The main thread's steps keep the environment's parts in phase.
LEMMA MainPhases ==
    ASSUME EnvTypes, Phases, LoopsMade, Main
    PROVE  EnvTypes' /\ Phases' /\ LoopsMade'
<1> USE ConstantsAssumption, EnvAssumption
        DEF MainGoto, EnvTypes, EnvPcs, Phases, LoopsMade, Workers
<1>0. 0 .. 0 - 1 = {}
  OBVIOUS
<1>1. CASE InitManager
  <2>1. /\ epc' = "init" /\ nth' = 0 /\ queues' = {"todo", "doing"}
        /\ threads' = {Manager} /\ cancelled' = {} /\ pipes' = {} /\ loops' = {}
    BY <1>1 DEF InitManager
  <2> QED
    BY <1>0, <2>1
<1>2. CASE InitWorker
  <2>1. /\ epc = "init" /\ pipes' = pipes \cup {nth} /\ threads' = threads \cup {nth}
        /\ nth' = nth + 1 /\ epc' = IF nth + 1 = WorkerCount THEN "up" ELSE "init"
        /\ queues' = queues /\ cancelled' = cancelled /\ loops' = loops
    BY <1>2 DEF InitWorker
  <2>2. nth \in Nat /\ nth < WorkerCount /\ pipes' = 0 .. nth /\ threads' = pipes' \cup {Manager}
    BY <2>1
  <2>3. CASE nth + 1 = WorkerCount
    BY <2>1, <2>2, <2>3
  <2>4. CASE nth + 1 # WorkerCount
    BY <2>1, <2>2, <2>4
  <2> QED
    BY <2>3, <2>4
<1>3. CASE DestroyTodo
  BY <1>3 DEF DestroyTodo
<1>4. CASE DestroyDoing
  BY <1>4 DEF DestroyDoing
<1>5. CASE CancelManager
  BY <1>5 DEF CancelManager
<1>6. CASE JoinManager
  <2>1. /\ epc = "d_join" /\ epc' = "d_worker" /\ nth' = 0 /\ Manager \notin threads
        /\ UNCHANGED <<queues, threads, cancelled, pipes, loops>>
    BY <1>6 DEF JoinManager
  <2>2. threads = 0 .. WorkerCount - 1 /\ cancelled = {Manager} /\ queues = {}
    <3>1. threads \subseteq Workers \cup {Manager} /\ Workers \subseteq threads
      BY <2>1
    <3>2. threads = Workers
      BY ONLY <2>1, <3>1, Zenon
    <3> QED
      BY <2>1, <3>2
  <2>3. EnvTypes'
    BY <2>1, <2>2
  <2>4. Phases'
    BY <1>0, <2>1, <2>2
  <2>5. LoopsMade'
    BY <2>1, <2>2
  <2> QED
    BY ONLY <2>3, <2>4, <2>5
<1>7. CASE CancelWorker
  BY <1>7 DEF CancelWorker
<1>8. CASE JoinWorker
  <2>1. /\ epc = "d_join_w" /\ nth \notin threads /\ nth' = nth + 1
        /\ epc' = IF nth + 1 = WorkerCount THEN "d_close" ELSE "d_worker"
        /\ UNCHANGED <<queues, threads, cancelled, pipes, loops>>
    BY <1>8 DEF JoinWorker
  <2>2. nth \in Nat /\ nth < WorkerCount /\ threads = nth + 1 .. WorkerCount - 1
    <3>1. /\ nth \in Nat /\ nth < WorkerCount /\ WorkerCount \in Nat
          /\ threads \subseteq nth .. WorkerCount - 1
          /\ nth + 1 .. WorkerCount - 1 \subseteq threads
      BY <2>1
    <3>2. ASSUME NEW x \in threads PROVE x \in nth + 1 .. WorkerCount - 1
      BY <2>1, <3>1
    <3> QED
      BY <3>1, <3>2
  <2>3. CASE nth + 1 = WorkerCount
    BY <2>1, <2>2, <2>3
  <2>4. CASE nth + 1 # WorkerCount
    BY <2>1, <2>2, <2>4
  <2> QED
    BY <2>3, <2>4
<1>9. CASE ClosePipes
  BY <1>9 DEF ClosePipes
<1>10. CASE DestroyLoops
  BY <1>10 DEF DestroyLoops
<1> QED
  BY <1>1, <1>2, <1>3, <1>4, <1>5, <1>6, <1>7, <1>8, <1>9, <1>10 DEF Main

\* So do the library's threads when they start and when they die.
LEMMA ThreadPhases ==
    ASSUME EnvTypes, Phases, LoopsMade,
           \/ \E w \in Workers : WorkerStart(w)
           \/ \E t \in Workers \cup {Manager} : Die(t)
    PROVE  EnvTypes' /\ Phases' /\ LoopsMade'
<1> USE ConstantsAssumption, EnvAssumption
<1>1. ASSUME NEW w \in Workers, WorkerStart(w)
      PROVE  EnvTypes' /\ Phases' /\ LoopsMade'
  <2>1. /\ w \in threads /\ loops' = loops \cup {w}
        /\ UNCHANGED <<epc, nth, queues, threads, cancelled, pipes>>
    BY <1>1 DEF WorkerStart
  <2>2. EnvTypes' /\ LoopsMade'
    BY <2>1 DEF EnvTypes, LoopsMade
  <2>3. Phases'
    BY <2>1 DEF Phases
  <2> QED
    BY <2>2, <2>3
<1>2. ASSUME NEW t \in Workers \cup {Manager}, Die(t)
      PROVE  EnvTypes' /\ Phases' /\ LoopsMade'
  <2>1. /\ t \in cancelled /\ t \in threads /\ threads' = threads \ {t}
        /\ t # Manager => t \in loops
        /\ UNCHANGED <<epc, nth, queues, cancelled, pipes, loops>>
    BY <1>2 DEF Die, AtPoint
  <2>2. EnvTypes' /\ LoopsMade'
    BY <2>1 DEF EnvTypes, LoopsMade
  <2>3. epc \in {"d_join", "d_join_w"}
    <3>1. epc \notin {"d_close", "d_loops", "down", "init", "up", "d_doing", "d_cancel"}
      BY <2>1 DEF Phases
    <3>2. epc # "d_worker"
      BY <2>1 DEF Phases, EnvTypes
    <3> QED
      BY <3>1, <3>2 DEF EnvTypes, EnvPcs
  <2>4. CASE epc = "d_join"
    <3>1. t = Manager /\ Workers \subseteq threads'
      BY <2>1, <2>4 DEF Phases
    <3> QED
      BY <2>1, <2>2, <2>4, <3>1 DEF Phases
  <2>5. CASE epc = "d_join_w"
    <3>1. t = nth
      BY <2>1, <2>5 DEF Phases, EnvTypes
    <3>2. nth + 1 .. WorkerCount - 1 \subseteq threads'
      BY <2>1, <2>5, <3>1 DEF Phases, EnvTypes
    <3> QED
      BY <2>1, <2>2, <2>5, <3>2 DEF Phases
  <2> QED
    BY <2>3, <2>4, <2>5
<1> QED
  BY <1>1, <1>2

\* The manager thread's program counter stays where the thread was cut off.
LEMMA CutOffStep ==
    ASSUME CutOff, EnvNext
    PROVE  CutOff'
<1>1. CASE Main
  <2>1. mpc' = mpc \/ Manager \in threads'
    BY <1>1 DEF Main, InitManager, InitWorker, DestroyTodo, DestroyDoing, CancelManager,
       JoinManager, CancelWorker, JoinWorker, ClosePipes, DestroyLoops, vars, managerVars
  <2>2. Manager \in threads => Manager \in threads'
    BY <1>1 DEF Main, InitManager, InitWorker, DestroyTodo, DestroyDoing, CancelManager,
       JoinManager, CancelWorker, JoinWorker, ClosePipes, DestroyLoops
  <2> QED
    BY <2>1, <2>2 DEF CutOff
<1>2. ASSUME NEW w \in Workers, WorkerStart(w) \/ EnvWorker(w) PROVE CutOff'
  <2>1. threads' = threads /\ mpc' = mpc
    BY <1>2 DEF WorkerStart, EnvWorker, vars, managerVars, envVars, Worker, ReadPipe,
       ShiftDoing, DoSync, DoAsync, Callback, PushTodo, PostManager
  <2> QED
    BY <2>1 DEF CutOff
<1>3. CASE EnvManager
  BY <1>3 DEF EnvManager, envVars, CutOff
<1>4. ASSUME NEW t \in Callers, EnvCreate(t) PROVE CutOff'
  <2>1. threads' = threads /\ mpc' = mpc
    BY <1>4 DEF EnvCreate, envVars, Create, CreateAlloc, CreatePush, CreatePost,
       managerVars
  <2> QED
    BY <2>1 DEF CutOff
<1>5. ASSUME NEW t \in Workers \cup {Manager}, Die(t) PROVE CutOff'
  <2>1. mpc' = mpc /\ threads' = threads \ {t} /\ AtPoint(t)
    BY <1>5 DEF Die, vars, managerVars
  <2> QED
    BY <2>1 DEF AtPoint, CutOff
<1> QED
  BY <1>1, <1>2, <1>3, <1>4, <1>5 DEF EnvNext

-----------------------------------------------------------------------------
(* The theorems. *)

\* The environment's parts stay in phase, whatever the application does.
LEMMA EnvPartsStep == EnvParts /\ [EnvNext]_<<vars, envVars>> => EnvParts'
<1> SUFFICES ASSUME EnvParts, [EnvNext]_<<vars, envVars>> PROVE EnvParts'
  OBVIOUS
<1>1. CASE Main
  BY <1>1, MainPhases DEF EnvParts
<1>2. CASE \/ \E w \in Workers : WorkerStart(w)
           \/ \E t \in Workers \cup {Manager} : Die(t)
  BY <1>2, ThreadPhases DEF EnvParts
<1>3. CASE UNCHANGED envVars
  BY <1>3 DEF EnvParts, envVars, EnvTypes, Phases, LoopsMade
<1> QED
  BY <1>1, <1>2, <1>3 DEF EnvNext, EnvManager, EnvWorker, EnvCreate

\* The invariant is inductive.
LEMMA EnvInvStep ==
    ASSUME WaitsForCalls, EnvInv, [EnvNext]_<<vars, envVars>>
    PROVE  EnvInv'
<1>1. EnvParts'
  BY EnvPartsStep DEF EnvInv
<1>2. CASE EnvNext
  <2>1. IInv' /\ TokensMatch' /\ QuietOutside' /\ CutOff'
    BY <1>2, CoreStep, CutOffStep DEF EnvInv
  <2> QED
    BY <1>1, <2>1 DEF EnvInv
<1>3. CASE UNCHANGED <<vars, envVars>>
  <2>0. UNCHANGED vars /\ UNCHANGED envVars
    BY <1>3
  <2>1. IInv'
    BY <2>0, NextInv DEF EnvInv
  <2>2. TokensMatch'
    BY <2>0 DEF EnvInv, vars, taskVars, managerVars, createVars, workerVars, pipeVars,
                TokensMatch
  <2>3. QuietOutside' /\ CutOff'
    BY <2>0 DEF EnvInv, vars, taskVars, managerVars, createVars, envVars, QuietOutside,
                Quiet, LastCallMade, CutOff
  <2> QED
    BY <1>1, <2>1, <2>2, <2>3 DEF EnvInv
<1> QED
  BY <1>2, <1>3

\* In the initial state there is no environment.
LEMMA EnvInitInv == EnvInit => EnvInv
<1> SUFFICES ASSUME EnvInit PROVE EnvInv
  OBVIOUS
<1>1. IInv /\ TokensMatch
  BY InitInv, InitTokens DEF EnvInit
<1>2. EnvParts
  BY DEF EnvInit, EnvParts, EnvTypes, EnvPcs, Phases, LoopsMade
<1>3. CutOff /\ QuietOutside
  BY DEF EnvInit, Init, CutOff, QuietOutside, Quiet, LastCallMade
<1> QED
  BY <1>1, <1>2, <1>3 DEF EnvInv

\* If the application waits for its coroutines' last calls, EnvInv holds in
\* every reachable state.
THEOREM EnvInvHolds == WaitsForCalls /\ EnvSpec => []EnvInv
<1>1. CASE WaitsForCalls
  <2>1. EnvInv /\ [EnvNext]_<<vars, envVars>> => EnvInv'
    BY <1>1, EnvInvStep
  <2> QED
    BY <2>1, EnvInitInv, PTL DEF EnvSpec
<1>2. CASE ~WaitsForCalls
  BY <1>2
<1> QED
  BY <1>1, <1>2

\* The threads that outlive the task queues do not use them, if the
\* application has waited for its coroutines' last calls: its tokens have all
\* been spent.
THEOREM QueuesOutlive == WaitsForCalls /\ EnvSpec => []QueuesOutliveUsers
<1>1. EnvInv => QueuesOutliveUsers
  <2> SUFFICES ASSUME EnvInv PROVE QueuesOutliveUsers
    OBVIOUS
  <2>1. "todo" \notin queues \/ "doing" \notin queues => epc # "up"
    BY DEF EnvInv, EnvParts, Phases
  <2>2. epc # "up" => /\ mpc # "shift" /\ sem = 0 /\ bytes = {}
                      /\ \A w \in Workers : wpc[w] = "poll"
                      /\ \A t \in Callers : cpc[t] = "idle"
    BY QuietFacts DEF EnvInv, QuietOutside, Quiet
  <2> QED
    BY <2>1, <2>2 DEF QueuesOutliveUsers, Pipe
<1> QED
  BY <1>1, EnvInvHolds, PTL

\* Every environment is taken down completely, in the right order, whether or
\* not the application has waited for its coroutines' calls.
THEOREM ShutdownIsClean == EnvSpec => []CleanShutdown
<1>1. EnvInit => EnvParts
  BY EnvInitInv DEF EnvInv
<1>2. EnvParts => CleanShutdown
  <2> SUFFICES ASSUME EnvParts PROVE CleanShutdown
    OBVIOUS
  <2>1. ASSUME NEW w \in Workers, w \in threads PROVE w \in pipes
    BY <2>1, EnvAssumption DEF EnvParts, EnvTypes, EnvPcs, Phases
  <2>2. epc = "d_loops" => loops = Workers /\ threads = {}
    BY DEF EnvParts, EnvTypes, Phases, LoopsMade
  <2>3. epc = "down" => threads = {} /\ pipes = {} /\ loops = {} /\ queues = {}
    BY DEF EnvParts, Phases
  <2> QED
    BY <2>1, <2>2, <2>3 DEF CleanShutdown
<1> QED
  BY <1>1, <1>2, EnvPartsStep, PTL DEF EnvSpec

\* If the application waits for its coroutines' last calls, then in every
\* environment, and across them, a task has one owner, units and bytes cover
\* the queues, no assertion or abort() is reached, no unsaved coroutine is
\* switched to, and every call is served once.
THEOREM CoreStaysSafe ==
    WaitsForCalls /\ EnvSpec =>
        [](SingleOwner /\ TokensMatch /\ NoAbort /\ ContextSaved /\ ServedOnce)
<1>1. EnvInv => SingleOwner /\ TokensMatch /\ NoAbort /\ ContextSaved /\ ServedOnce
  BY NoAbortInv, ContextSavedInv DEF EnvInv, IInv
<1> QED
  BY <1>1, EnvInvHolds, PTL

=============================================================================

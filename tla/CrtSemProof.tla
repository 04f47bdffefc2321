---------------------------- MODULE CrtSemProof ----------------------------
(***************************************************************************)
(* Proofs about module CrtSem, for any number of coroutines, semaphores    *)
(* and units: as long as a waiter is posted only once before it runs,      *)
(* todo_queue holds the coroutines that have something to do, each once.   *)
(***************************************************************************)
EXTENDS CrtSem, StailqProof

\* The pointers of memory m lay out a todo_queue with the n tasks of S.
Holds(m, S, n) ==
    \E q : /\ Represents(m, q)
           /\ Range(q["todo"]) = S
           /\ Len(q["todo"]) = n

\* The coroutines that are to run: ready, or waiting for a semaphore that has
\* a unit.
ToRun ==
    {c \in Coros : \/ at[c] = "ready"
                   \/ at[c] = "waiting" /\ value[waits[c]] > 0}

\* The running coroutine is the one the manager switched to.
Runs == curr # NULL => at[curr] = "running"

\* A coroutine waits for a live semaphore that stores it.
Stored ==
    \A c \in Coros :
        /\ at[c] = "waiting" <=> waits[c] # NULL
        /\ waits[c] # NULL => waits[c] \in live /\ waiter[waits[c]] = c

\* A live semaphore stores nothing but the coroutine that waits for it.
StoresWaiter ==
    \A s \in live : waiter[s] # NULL => waits[waiter[s]] = s

\* The inductive invariant.
SemInv ==
    /\ TypeOK
    /\ Holds(mem, ToRun, msem)
    /\ Runs /\ Stored /\ StoresWaiter

-----------------------------------------------------------------------------
(* The queue. *)

\* What a queue that holds the tasks of S looks like.
LEMMA HeldFacts ==
    ASSUME NEW m, NEW S, NEW n, Holds(m, S, n)
    PROVE  /\ m \in Memories /\ n \in Nat /\ S \subseteq Items
           /\ m.size["todo"] = n
           /\ Len(Walk(m, "todo")) = n
           /\ Members(m, "todo") = S
           /\ Cardinality(S) = n
           /\ n # 0 => m.first["todo"] \in S /\ m.first["todo"] # NULL
<1>1. "todo" \in Lists
  BY CrtSemAssumption
<1>2. PICK q : Represents(m, q) /\ Range(q["todo"]) = S /\ Len(q["todo"]) = n
  BY DEF Holds
<1>3. PICK s : s = q["todo"]
  OBVIOUS
<1>4. /\ m \in Memories
      /\ s \in Seq(Items) /\ n \in Nat
      /\ IsInjective(s)
      /\ (m.first["todo"] = NULL) <=> (n = 0)
      /\ n # 0 => m.first["todo"] = s[1]
      /\ m.size["todo"] = n
      /\ \A i \in 1 .. n : s[i] \in Range(s) /\ s[i] \in Items
  BY ONLY <1>1, <1>2, <1>3, ChainFacts
<1>5. Walk(m, "todo") = s
  <2>1. [l \in Lists |-> Walk(m, l)] = q
    BY <1>2, WalksRead
  <2> QED
    BY <1>1, <1>3, <2>1
<1>6. Members(m, "todo") = Range(s)
  BY <1>5 DEF Members, Range
<1>7. S \subseteq Items
  BY ONLY <1>1, <1>2, NullInNone
<1>8. Cardinality(S) = n
  BY ONLY <1>2, <1>3, <1>4, DistinctCount
<1>9. n # 0 => m.first["todo"] \in S
  <2>1. n # 0 => 1 \in 1 .. n
    BY <1>4
  <2> QED
    BY ONLY <1>2, <1>3, <1>4, <2>1
<1> QED
  BY ONLY <1>2, <1>3, <1>4, <1>5, <1>6, <1>7, <1>8, <1>9

\* STAILQ_INIT leaves the queue empty.
LEMMA EmptyHolds == Holds(Empty, {}, 0)
<1>1. PICK q : q = [l \in Lists |-> <<>>]
  OBVIOUS
<1>2. Represents(Empty, q)
  BY <1>1, EmptyLists
<1>3. q["todo"] = <<>>
  BY <1>1, CrtSemAssumption
<1>4. Range(q["todo"]) = {} /\ Len(q["todo"]) = 0
  BY <1>3 DEF Range
<1> QED
  BY ONLY <1>2, <1>4 DEF Holds

\* A task that is pushed or unshifted is in the queue from then on.
LEMMA Queued ==
    ASSUME NEW m, NEW S, NEW n, Holds(m, S, n), NEW x \in Items, x \notin S,
           NEW k, k = InsertTail(m, "todo", x) \/ k = InsertHead(m, "todo", x)
    PROVE  Holds(k, S \cup {x}, n + 1)
<1>1. "todo" \in Lists /\ \A l \in Lists : l = "todo"
  BY CrtSemAssumption
<1>2. PICK q : Represents(m, q) /\ Range(q["todo"]) = S /\ Len(q["todo"]) = n
  BY DEF Holds
<1>3. \A l \in Lists : x \notin Range(q[l])
  BY <1>1, <1>2
<1>4. q \in [Lists -> Seq(Items)] /\ q["todo"] \in Seq(Items) /\ n \in Nat
  BY <1>1, <1>2 DEF Represents
<1>5. ASSUME NEW p \in 1 .. Len(q["todo"]) + 1, NEW r,
             r = [q EXCEPT !["todo"] = Inserted(q["todo"], p, x)],
             Represents(k, r)
      PROVE  Holds(k, S \cup {x}, n + 1)
  <2>1. r["todo"] = Inserted(q["todo"], p, x)
    BY <1>1, <1>4, <1>5
  <2>2. Range(r["todo"]) = S \cup {x} /\ Len(r["todo"]) = n + 1
    BY <1>2, <1>4, <2>1, InsertedFacts
  <2> QED
    BY ONLY <1>5, <2>2 DEF Holds
<1>6. CASE k = InsertTail(m, "todo", x)
  <2>1. PICK r : r = [q EXCEPT !["todo"] = Inserted(q["todo"], Len(q["todo"]) + 1, x)]
    OBVIOUS
  <2>2. Represents(k, r)
    BY ONLY x \in Items, <1>1, <1>2, <1>3, <1>6, <2>1, InsertTailAppends
  <2>3. Len(q["todo"]) + 1 \in 1 .. Len(q["todo"]) + 1
    BY <1>2, <1>4
  <2> QED
    BY <1>5, <2>1, <2>2, <2>3
<1>7. CASE k = InsertHead(m, "todo", x)
  <2>1. PICK r : r = [q EXCEPT !["todo"] = Inserted(q["todo"], 1, x)]
    OBVIOUS
  <2>2. Represents(k, r)
    BY ONLY x \in Items, <1>1, <1>2, <1>3, <1>7, <2>1, InsertHeadPrepends
  <2>3. 1 \in 1 .. Len(q["todo"]) + 1
    BY <1>2, <1>4
  <2> QED
    BY <1>5, <2>1, <2>2, <2>3
<1> QED
  BY <1>6, <1>7

\* The manager's shift takes one task out.
LEMMA Shifted ==
    ASSUME NEW m, NEW S, NEW n, Holds(m, S, n), n # 0
    PROVE  Holds(RemoveHead(m, "todo"), S \ {m.first["todo"]}, n - 1)
<1>1. "todo" \in Lists /\ \A l \in Lists : l = "todo"
  BY CrtSemAssumption
<1>2. PICK q : Represents(m, q) /\ Range(q["todo"]) = S /\ Len(q["todo"]) = n
  BY DEF Holds
<1>3. PICK s : s = q["todo"]
  OBVIOUS
<1>4. /\ s \in Seq(Items) /\ n \in Nat /\ IsInjective(s)
      /\ (m.first["todo"] = NULL) <=> (n = 0)
      /\ n # 0 => m.first["todo"] = s[1]
  BY ONLY <1>1, <1>2, <1>3, ChainFacts
<1>5. PICK k, r : /\ k = RemoveHead(m, "todo")
                  /\ r = [q EXCEPT !["todo"] = Removed(q["todo"], 1)]
  OBVIOUS
<1>6. m.first["todo"] # NULL
  BY <1>4
<1>7. Represents(k, r)
  BY ONLY <1>1, <1>2, <1>5, <1>6, RemoveHeadShifts
<1>8. r["todo"] = Removed(s, 1)
  <2>1. q \in [Lists -> Seq(Items)]
    BY <1>2 DEF Represents
  <2> QED
    BY ONLY <1>1, <1>3, <1>5, <2>1
<1>9. /\ Len(Removed(s, 1)) = Len(s) - 1
      /\ Range(Removed(s, 1)) = Range(s) \ {s[1]}
  <2>1. 1 \in 1 .. Len(s)
    BY <1>2, <1>3, <1>4
  <2> QED
    BY ONLY <1>4, <2>1, RemovedFacts
<1>10. Range(r["todo"]) = S \ {m.first["todo"]} /\ Len(r["todo"]) = n - 1
  BY <1>2, <1>3, <1>4, <1>8, <1>9
<1> QED
  BY ONLY <1>5, <1>7, <1>10 DEF Holds

-----------------------------------------------------------------------------
(* The inductive invariant, action by action. *)

\* Before the first coroutine is created.
LEMMA InitInv == Init => SemInv
<1> SUFFICES ASSUME Init PROVE SemInv
  OBVIOUS
<1> USE CrtSemAssumption DEF Init, Coros
<1>1. TypeOK
  BY EmptyHolds, HeldFacts DEF TypeOK
<1>2. ToRun = {}
  BY DEF ToRun
<1>3. Holds(mem, ToRun, msem)
  BY <1>2, EmptyHolds
<1>4. Runs /\ Stored /\ StoresWaiter
  BY DEF Runs, Stored, StoresWaiter
<1> QED
  BY <1>1, <1>3, <1>4 DEF SemInv

\* crt_create() queues a new task.
LEMMA CreateInv ==
    ASSUME SemInv, NEW c \in Coros, Create(c)
    PROVE  SemInv'
<1> USE StailqAssumption, CrtSemAssumption DEF SemInv, Create, Queue, Coros, semVars
<1>1. \A d \in Coros : at'[d] = IF d = c THEN "ready" ELSE at[d]
  BY DEF TypeOK
<1>2. c \notin ToRun /\ ToRun' = ToRun \cup {c}
  BY <1>1 DEF ToRun
<1>3. Holds(mem', ToRun', msem')
  BY <1>2, Queued
<1>4. TypeOK'
  BY <1>3, HeldFacts DEF TypeOK
<1>5. Runs'
  BY <1>1 DEF TypeOK, Runs
<1>6. Stored' /\ StoresWaiter'
  BY <1>1 DEF Stored, StoresWaiter
<1> QED
  BY <1>3, <1>4, <1>5, <1>6

\* crt_sem_init() makes a semaphore nobody waits for.
LEMMA SemInitInv ==
    ASSUME SemInv, NEW s \in Sems, NEW v \in 0 .. MaxValue, crt_sem_init(s, v)
    PROVE  SemInv'
<1> USE StailqAssumption, CrtSemAssumption DEF SemInv, crt_sem_init, Coros
<1>1. /\ \A t \in Sems : value'[t] = IF t = s THEN v ELSE value[t]
      /\ \A t \in Sems : waiter'[t] = IF t = s THEN NULL ELSE waiter[t]
  BY DEF TypeOK
<1>2. \A c \in Coros : waits[c] # s /\ (waits[c] # NULL => waits[c] \in Sems)
  BY DEF TypeOK, Stored
<1>3. ToRun' = ToRun
  BY <1>1, <1>2 DEF ToRun, Stored
<1>4. TypeOK'
  BY DEF TypeOK
<1>5. Stored' /\ StoresWaiter' /\ Runs'
  BY <1>1, <1>2 DEF TypeOK, Runs, Stored, StoresWaiter
<1> QED
  BY <1>3, <1>4, <1>5

\* crt_sem_destroy() ends a semaphore nobody waits for.
LEMMA SemDestroyInv ==
    ASSUME SemInv, NEW s \in Sems, crt_sem_destroy(s)
    PROVE  SemInv'
<1> USE StailqAssumption, CrtSemAssumption DEF SemInv, crt_sem_destroy, Coros
<1>1. ToRun' = ToRun
  BY DEF ToRun
<1>2. TypeOK'
  BY DEF TypeOK
<1>3. Stored' /\ StoresWaiter' /\ Runs'
  BY DEF TypeOK, Runs, Stored, StoresWaiter
<1> QED
  BY <1>1, <1>2, <1>3

\* crt_sem_wait() takes a unit, or stores the coroutine in the semaphore.
LEMMA SemWaitInv ==
    ASSUME SemInv, NEW s \in Sems, crt_sem_wait(s)
    PROVE  SemInv'
<1> USE StailqAssumption, CrtSemAssumption DEF SemInv, crt_sem_wait, Coros
<1>0. /\ curr \in Coros /\ at[curr] = "running" /\ waits[curr] = NULL
      /\ s \in live
      /\ \A c \in Coros : waits[c] # s /\ (waits[c] # NULL => waits[c] \in Sems)
  BY DEF TypeOK, Runs, Stored
<1>1. CASE Take(curr, s)
  <2>1. /\ \A t \in Sems : value'[t] = IF t = s THEN value[s] - 1 ELSE value[t]
        /\ \A t \in Sems : waiter'[t] = IF t = s THEN NULL ELSE waiter[t]
        /\ \A c \in Coros : at'[c] = at[c] /\ waits'[c] = waits[c]
        /\ curr' = curr
    BY <1>0, <1>1 DEF TypeOK, Take
  <2>2. ToRun' = ToRun
    BY <1>0, <2>1 DEF ToRun, Stored
  <2>3. TypeOK'
    BY <1>0, <1>1 DEF TypeOK, Take
  <2>4. Runs' /\ Stored' /\ StoresWaiter'
    BY <1>0, <2>1 DEF TypeOK, Runs, Stored, StoresWaiter
  <2> QED
    BY <2>2, <2>3, <2>4
<1>2. CASE Block(curr, s)
  <2>1. /\ value' = value /\ value[s] = 0 /\ curr' = NULL
        /\ \A t \in Sems : waiter'[t] = IF t = s THEN curr ELSE waiter[t]
        /\ \A c \in Coros : at'[c] = IF c = curr THEN "waiting" ELSE at[c]
        /\ \A c \in Coros : waits'[c] = IF c = curr THEN s ELSE waits[c]
    BY <1>0, <1>2 DEF TypeOK, Block
  <2>2. ToRun' = ToRun
    BY <1>0, <2>1 DEF ToRun
  <2>3. TypeOK'
    BY <1>0, <1>2 DEF TypeOK, Block
  <2>4. Stored'
    BY <1>0, <2>1 DEF Stored
  <2>5. StoresWaiter' /\ Runs'
    BY <1>0, <2>1 DEF TypeOK, StoresWaiter, Runs
  <2> QED
    BY <2>2, <2>3, <2>4, <2>5
<1> QED
  BY <1>1, <1>2 DEF Try

\* A post raises the value and queues the coroutine that waits.
LEMMA SemPostInv ==
    ASSUME SemInv, OnePost, NEW s \in Sems, NEW flag \in Flags,
           crt_sem_priority_post(s, flag)
    PROVE  SemInv'
<1> USE StailqAssumption, CrtSemAssumption
        DEF SemInv, crt_sem_priority_post, Queue, Coros
<1>0. /\ \A t \in Sems : value'[t] = IF t = s THEN value[s] + 1 ELSE value[t]
      /\ value[s] \in Nat /\ s \in live
      /\ UNCHANGED <<curr, at, waits, waiter, live>>
  BY DEF TypeOK
<1>1. value' \in [Sems -> 0 .. MaxValue]
  BY DEF TypeOK
<1>2. Runs' /\ Stored' /\ StoresWaiter'
  BY <1>0 DEF Runs, Stored, StoresWaiter
<1>3. Holds(mem', ToRun', msem')
  <2>1. CASE waiter[s] = NULL
    <3>1. \A c \in Coros : waits[c] # s /\ (waits[c] # NULL => waits[c] \in Sems)
      BY <2>1 DEF TypeOK, Stored
    <3>2. ToRun' = ToRun
      BY <1>0, <3>1 DEF ToRun, Stored
    <3> QED
      BY <2>1, <3>2
  <2>2. CASE waiter[s] # NULL
    <3>1. PICK w \in Coros : w = waiter[s]
      BY <2>2 DEF TypeOK
    <3>2. value[s] = 0 /\ waits[w] = s /\ at[w] = "waiting"
      BY <1>0, <2>2, <3>1 DEF StoresWaiter, Stored
    <3>3. \A c \in Coros \ {w} : waits[c] # s /\ (waits[c] # NULL => waits[c] \in Sems)
      BY <3>1 DEF TypeOK, Stored
    <3>4. w \notin ToRun
      BY <3>2 DEF ToRun
    <3>5. ToRun' = ToRun \cup {w}
      BY <1>0, <3>2, <3>3 DEF ToRun, Stored
    <3>6. /\ mem' = InsertTail(mem, "todo", w) \/ mem' = InsertHead(mem, "todo", w)
          /\ msem' = msem + 1
      BY <2>2, <3>1
    <3>7. Holds(mem', ToRun \cup {w}, msem + 1)
      BY <3>4, <3>6, Queued
    <3> QED
      BY ONLY <3>5, <3>6, <3>7
  <2> QED
    BY <2>1, <2>2
<1>4. TypeOK'
  BY <1>0, <1>1, <1>3, HeldFacts DEF TypeOK
<1> QED
  BY <1>2, <1>3, <1>4

\* crt_sched_yield() queues the running coroutine.
LEMMA YieldInv ==
    ASSUME SemInv, crt_sched_yield
    PROVE  SemInv'
<1> USE StailqAssumption, CrtSemAssumption
        DEF SemInv, crt_sched_yield, Queue, Coros, semVars
<1>0. curr \in Coros /\ at[curr] = "running"
  BY DEF TypeOK, Runs
<1>1. \A c \in Coros : at'[c] = IF c = curr THEN "ready" ELSE at[c]
  BY DEF TypeOK
<1>2. curr \notin ToRun /\ ToRun' = ToRun \cup {curr}
  BY <1>0, <1>1 DEF ToRun
<1>3. Holds(mem', ToRun', msem')
  BY <1>0, <1>2, Queued
<1>4. TypeOK'
  BY <1>0, <1>3, HeldFacts DEF TypeOK
<1>5. Runs' /\ Stored' /\ StoresWaiter'
  BY <1>0, <1>1 DEF Runs, Stored, StoresWaiter
<1> QED
  BY <1>3, <1>4, <1>5

\* crt_exit() ends the running coroutine.
LEMMA ExitInv ==
    ASSUME SemInv, crt_exit
    PROVE  SemInv'
<1> USE StailqAssumption, CrtSemAssumption DEF SemInv, crt_exit, Coros, semVars
<1>0. curr \in Coros /\ at[curr] = "running"
  BY DEF TypeOK, Runs
<1>1. \A c \in Coros : at'[c] = IF c = curr THEN "freed" ELSE at[c]
  BY DEF TypeOK
<1>2. ToRun' = ToRun
  BY <1>0, <1>1 DEF ToRun
<1>3. TypeOK'
  BY <1>0 DEF TypeOK
<1>4. Runs' /\ Stored' /\ StoresWaiter'
  BY <1>0, <1>1 DEF Runs, Stored, StoresWaiter
<1> QED
  BY <1>2, <1>3, <1>4

\* The manager takes the first task, which is ready or finds a unit.
LEMMA ScheduleInv ==
    ASSUME SemInv, Schedule
    PROVE  SemInv'
<1> USE StailqAssumption, CrtSemAssumption DEF SemInv, Coros
<1>1. PICK c : c = mem.first["todo"]
  OBVIOUS
<1>2. /\ msem # 0 /\ msem' = msem - 1 /\ mem' = RemoveHead(mem, "todo")
      /\ \/ /\ at[c] = "ready"
            /\ curr' = c
            /\ at' = [at EXCEPT ![c] = "running"]
            /\ UNCHANGED <<waits, semVars>>
         \/ /\ at[c] = "waiting"
            /\ Try(c, waits[c])
            /\ UNCHANGED live
  BY <1>1 DEF Schedule, TypeOK
<1>3. c \in ToRun /\ c \in Coros
  BY <1>1, <1>2, HeldFacts
<1>4. Holds(mem', ToRun \ {c}, msem')
  BY <1>1, <1>2, Shifted
<1>5. mem' \in Memories /\ msem' \in Nat
  BY <1>4, HeldFacts
<1>6. CASE /\ at[c] = "ready" /\ curr' = c
           /\ at' = [at EXCEPT ![c] = "running"] /\ UNCHANGED <<waits, semVars>>
  <2>1. \A d \in Coros : at'[d] = IF d = c THEN "running" ELSE at[d]
    BY <1>6 DEF TypeOK
  <2>2. ToRun' = ToRun \ {c}
    BY <1>3, <1>6, <2>1 DEF ToRun, semVars
  <2>3. TypeOK'
    BY <1>3, <1>5, <1>6 DEF TypeOK, semVars
  <2>4. Runs' /\ Stored' /\ StoresWaiter'
    BY <1>3, <1>6, <2>1 DEF Runs, Stored, StoresWaiter, semVars
  <2> QED
    BY <1>4, <2>2, <2>3, <2>4
<1>7. CASE at[c] = "waiting" /\ Try(c, waits[c]) /\ UNCHANGED live
  <2>1. PICK s \in Sems : s = waits[c]
    BY <1>3, <1>7 DEF TypeOK, Stored
  <2>2. value[s] > 0 /\ s \in live /\ waiter[s] = c
    BY <1>3, <1>7, <2>1 DEF ToRun, Stored
  <2>3. Take(c, s)
    BY <1>7, <2>1, <2>2 DEF Try, Block, TypeOK
  <2>4. /\ \A t \in Sems : value'[t] = IF t = s THEN value[s] - 1 ELSE value[t]
        /\ \A t \in Sems : waiter'[t] = IF t = s THEN NULL ELSE waiter[t]
        /\ \A d \in Coros : at'[d] = IF d = c THEN "running" ELSE at[d]
        /\ \A d \in Coros : waits'[d] = IF d = c THEN NULL ELSE waits[d]
        /\ curr' = c /\ live' = live
    BY <1>3, <1>7, <2>3 DEF TypeOK, Take
  <2>5. \A d \in Coros \ {c} : waits[d] # s /\ (waits[d] # NULL => waits[d] \in Sems)
    BY <2>2 DEF TypeOK, Stored
  <2>6. ToRun' = ToRun \ {c}
    BY <1>3, <2>4, <2>5 DEF ToRun, Stored
  <2>7. TypeOK'
    BY <1>3, <1>5, <2>2, <2>3, <2>4 DEF TypeOK, Take
  <2>8. Runs' /\ Stored'
    BY <1>3, <2>4, <2>5 DEF Runs, Stored
  <2>9. StoresWaiter'
    BY <1>3, <2>1, <2>4, <2>5 DEF TypeOK, StoresWaiter
  <2> QED
    BY <1>4, <2>6, <2>7, <2>8, <2>9
<1> QED
  BY <1>2, <1>6, <1>7

\* Every step keeps the invariant.
LEMMA StepInv ==
    ASSUME SemInv, OnePost, [Next]_vars
    PROVE  SemInv'
<1>1. CASE UNCHANGED vars
  <2>1. ToRun' = ToRun
    BY <1>1 DEF vars, semVars, ToRun, Coros
  <2> QED
    BY <1>1, <2>1 DEF vars, semVars, SemInv, TypeOK, Runs, Stored, StoresWaiter, Coros
<1>2. CASE Coroutine
  BY <1>2, SemInitInv, SemPostInv, SemDestroyInv, SemWaitInv, YieldInv, ExitInv
     DEF Coroutine
<1> QED
  BY <1>1, <1>2, CreateInv, ScheduleInv DEF Next

-----------------------------------------------------------------------------
(* Theorems *)

\* As long as a waiter is posted once before it runs, todo_queue holds what
\* is to run, and a semaphore stores the coroutine that waits for it.
THEOREM InvHolds == OnePost /\ Spec => []SemInv
<1>1. Init => SemInv
  BY InitInv
<1>2. SemInv /\ OnePost /\ [Next]_vars => SemInv'
  BY StepInv
<1>3. CASE OnePost
  <2>1. SemInv /\ [Next]_vars => SemInv'
    BY <1>2, <1>3
  <2> QED
    BY <1>1, <2>1, PTL DEF Spec
<1>4. CASE ~ OnePost
  BY <1>4
<1> QED
  BY <1>3, <1>4

\* Every variable keeps its type: no semaphore goes below zero.
THEOREM TypeCorrect == OnePost /\ Spec => []TypeOK
<1>1. SemInv => TypeOK
  BY DEF SemInv
<1> QED
  BY <1>1, InvHolds, PTL

\* A waiter that has not been posted is stored in its semaphore only.
THEOREM WaiterStaysUnqueued == OnePost /\ Spec => []WaiterUnqueued
<1>1. SemInv => WaiterUnqueued
  BY HeldFacts DEF SemInv, WaiterUnqueued, Stored, ToRun
<1> QED
  BY <1>1, InvHolds, PTL

\* A waiter whose semaphore has a unit is in todo_queue.
THEOREM WakeupsAreKept == OnePost /\ Spec => []NoLostWakeup
<1>1. SemInv => NoLostWakeup
  BY HeldFacts DEF SemInv, NoLostWakeup, ToRun
<1> QED
  BY <1>1, InvHolds, PTL

\* todo_queue holds exactly the coroutines that are to run, each once, and
\* manager_sem counts them.
THEOREM QueueStaysSound == OnePost /\ Spec => []QueueSound
<1>1. SemInv => QueueSound
  BY HeldFacts DEF SemInv, QueueSound, ToRun
<1> QED
  BY <1>1, InvHolds, PTL

=============================================================================

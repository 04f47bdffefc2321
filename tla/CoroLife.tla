------------------------------ MODULE CoroLife ------------------------------
(***************************************************************************)
(* What the library promises about coroutines, without threads, queues or  *)
(* pipes: at most one coroutine runs at a time; the ready ones run in the  *)
(* order in which they became ready; a coroutine that makes a slow call is *)
(* ready again only after its call has been served, which happens once.    *)
(***************************************************************************)
EXTENDS Integers, Sequences

CONSTANT Coros

VARIABLES
    st,    \* "unborn", "ready", "running", "blocked" or "gone"
    rq,    \* the ready coroutines, first come first
    owed   \* calls made and not yet served

lifeVars == <<st, rq, owed>>

Init ==
    /\ st = [c \in Coros |-> "unborn"]
    /\ rq = <<>>
    /\ owed = [c \in Coros |-> 0]

Become(c, from, to) == st[c] = from /\ st' = [st EXCEPT ![c] = to]

Start(c) ==
    /\ Become(c, "unborn", "ready")
    /\ rq' = Append(rq, c)
    /\ UNCHANGED owed

Run(c) ==
    /\ \A d \in Coros : st[d] # "running"
    /\ Become(c, "ready", "running")
    /\ rq # <<>>
    /\ c = Head(rq)
    /\ rq' = Tail(rq)
    /\ UNCHANGED owed

Call(c) ==
    /\ Become(c, "running", "blocked")
    /\ owed' = [owed EXCEPT ![c] = 1]
    /\ UNCHANGED rq

Answer(c) ==
    /\ st[c] = "blocked"
    /\ owed[c] = 1
    /\ owed' = [owed EXCEPT ![c] = 0]
    /\ UNCHANGED <<st, rq>>

Wake(c) ==
    /\ Become(c, "blocked", "ready")
    /\ owed[c] = 0
    /\ rq' = Append(rq, c)
    /\ UNCHANGED owed

Yield(c) ==
    /\ Become(c, "running", "ready")
    /\ rq' = Append(rq, c)
    /\ UNCHANGED owed

End(c) ==
    /\ Become(c, "running", "gone")
    /\ UNCHANGED <<rq, owed>>

Next ==
    \E c \in Coros :
        Start(c) \/ Run(c) \/ Call(c) \/ Answer(c) \/ Wake(c) \/ Yield(c) \/ End(c)

Spec == Init /\ [][Next]_lifeVars

=============================================================================

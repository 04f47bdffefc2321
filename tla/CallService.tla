---------------------------- MODULE CallService ----------------------------
(***************************************************************************)
(* The contract of a slow call between the two halves of the library: the  *)
(* core of module Acoro, which carries tasks to the workers and back, and  *)
(* the handlers of module SlowCalls, which serve them. Both are shown to   *)
(* implement it, so that each may rely on the other to do so.              *)
(*                                                                         *)
(* A call that was handed over is served once, either by its handler or by *)
(* a callback of the one event loop its handler started it in, and only a  *)
(* call that has been served returns.                                      *)
(***************************************************************************)
CONSTANTS Tasks, Workers, NULL

SyncCalls == {"disk_open", "disk_read", "disk_write", "tcp_blocked_connect",
              "tcp_timeout_connect", "bg_run"}

LoopCalls == {"sock_read", "sock_write", "tcp_timeout_connect", "msleep",
              "tcp_accept"}

VARIABLES
    state,   \* "coro", "doing", "loop" or "done"
    call,    \* the call in progress, or NULL
    where    \* the worker in whose loop it was started, or NULL

callVars == <<state, call, where>>

Init ==
    /\ state = [t \in Tasks |-> "coro"]
    /\ call = [t \in Tasks |-> NULL]
    /\ where = [t \in Tasks |-> NULL]

Goto(t, from, to) == state[t] = from /\ state' = [state EXCEPT ![t] = to]

HandOver(t) ==
    /\ Goto(t, "coro", "doing")
    /\ \E k \in SyncCalls \cup LoopCalls : call' = [call EXCEPT ![t] = k]
    /\ UNCHANGED where

ServeAtOnce(t) ==
    /\ Goto(t, "doing", "done")
    /\ call[t] \in SyncCalls
    /\ call' = [call EXCEPT ![t] = NULL]
    /\ UNCHANGED where

StartInLoop(t, w) ==
    /\ Goto(t, "doing", "loop")
    /\ call[t] \in LoopCalls
    /\ where' = [where EXCEPT ![t] = w]
    /\ UNCHANGED call

ServeInLoop(t) ==
    /\ Goto(t, "loop", "done")
    /\ call' = [call EXCEPT ![t] = NULL]
    /\ where' = [where EXCEPT ![t] = NULL]

Return(t) ==
    /\ Goto(t, "done", "coro")
    /\ UNCHANGED <<call, where>>

Next ==
    \E t \in Tasks :
        \/ HandOver(t) \/ ServeAtOnce(t) \/ ServeInLoop(t) \/ Return(t)
        \/ \E w \in Workers : StartInLoop(t, w)

Spec == Init /\ [][Next]_callVars

=============================================================================

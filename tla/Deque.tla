------------------------------- MODULE Deque -------------------------------
(***************************************************************************)
(* What bsdqueue.h promises: its lists are sequences, as long as an item   *)
(* is only put into a list when it is in none.                             *)
(***************************************************************************)
EXTENDS Integers, SequencesExt

CONSTANTS Lists, Items

VARIABLES
    contents,  \* the items of each list, in order
    op         \* the last operation, its operands and its result

dequeVars == <<contents, op>>

Linked == UNION {Range(contents[l]) : l \in Lists}

Free == Items \ Linked

Becomes(l, s) == contents' = [contents EXCEPT ![l] = s]

Init == contents = [l \in Lists |-> <<>>] /\ op = <<"init">>

Push(l, x) ==
    /\ x \in Free
    /\ Becomes(l, Append(contents[l], x))
    /\ op' = <<"push", l, x>>

Unshift(l, x) ==
    /\ x \in Free
    /\ Becomes(l, Cons(x, contents[l]))
    /\ op' = <<"unshift", l, x>>

Insert(l, n, x) ==
    /\ x \in Free
    /\ Becomes(l, InsertAt(contents[l], n + 1, x))
    /\ op' = <<"insert", l, contents[l][n], x>>

Shift(l) ==
    /\ contents[l] # <<>>
    /\ Becomes(l, Tail(contents[l]))
    /\ op' = <<"shift", l, Head(contents[l])>>

Pop(l) ==
    /\ contents[l] # <<>>
    /\ Becomes(l, Front(contents[l]))
    /\ op' = <<"pop", l, Last(contents[l])>>

Delete(l, n) ==
    /\ Becomes(l, RemoveAt(contents[l], n))
    /\ op' = <<"remove", l, contents[l][n]>>

Cat(l, k) ==
    /\ l # k
    /\ contents' = [contents EXCEPT ![l] = @ \o contents[k], ![k] = <<>>]
    /\ op' = <<"cat", l, k>>

Clear(l) == Becomes(l, <<>>) /\ op' = <<"clear", l>>

Next ==
    \E l \in Lists :
        \/ \E x \in Items : Push(l, x) \/ Unshift(l, x)
        \/ \E x \in Items, n \in DOMAIN contents[l] : Insert(l, n, x)
        \/ \E n \in DOMAIN contents[l] : Delete(l, n)
        \/ \E k \in Lists : Cat(l, k)
        \/ Shift(l) \/ Pop(l) \/ Clear(l)

Spec == Init /\ [][Next]_dequeVars

=============================================================================

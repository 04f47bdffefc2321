------------------------------ MODULE BsdQueue ------------------------------
(***************************************************************************)
(* Programs that use the lists of bsdqueue.h as it asks to be used: an     *)
(* item is put into a list only when it is in none, and a shift or pop is  *)
(* only made on a list that has an item (the semaphore and the pipes of    *)
(* module Acoro see to that for todo_queue and doing_queue).               *)
(***************************************************************************)
EXTENDS Stailq

VARIABLES
    mem,  \* the list heads and the items' link fields
    op    \* auxiliary: the last operation, its operands and its result

vars == <<mem, op>>

Init == mem = Empty /\ op = <<"init">>

Linked == UNION {Members(mem, l) : l \in Lists}

list_push(l, x) ==
    /\ x \notin Linked
    /\ mem' = InsertTail(mem, l, x)
    /\ op' = <<"push", l, x>>

list_unshift(l, x) ==
    /\ x \notin Linked
    /\ mem' = InsertHead(mem, l, x)
    /\ op' = <<"unshift", l, x>>

list_insert(l, pos, x) ==
    /\ x \notin Linked
    /\ pos \in Members(mem, l)
    /\ mem' = InsertAfter(mem, l, pos, x)
    /\ op' = <<"insert", l, pos, x>>

list_shift(l) ==
    /\ mem.first[l] # NULL
    /\ mem' = RemoveHead(mem, l)
    /\ op' = <<"shift", l, mem.first[l]>>

list_pop(l) ==
    /\ mem.first[l] # NULL
    /\ mem' = Remove(mem, l, Last(mem, l))
    /\ op' = <<"pop", l, Last(mem, l)>>

list_remove(l, x) ==
    /\ x \in Members(mem, l)
    /\ mem' = Remove(mem, l, x)
    /\ op' = <<"remove", l, x>>

list_cat(l, k) ==
    /\ l # k
    /\ mem' = Concat(mem, l, k)
    /\ op' = <<"cat", l, k>>

list_clear(l) ==
    /\ mem' = Clear(mem, l)
    /\ op' = <<"clear", l>>

Next ==
    \E l \in Lists :
        \/ \E x \in Items : \/ list_push(l, x) \/ list_unshift(l, x)
                            \/ list_remove(l, x)
                            \/ \E pos \in Items : list_insert(l, pos, x)
        \/ \E k \in Lists : list_cat(l, k)
        \/ list_shift(l) \/ list_pop(l) \/ list_clear(l)

Spec == Init /\ [][Next]_vars

-----------------------------------------------------------------------------
(* Properties *)

\* list_size() is the number of items that can be reached from the head, and
\* stqh_last is the address of the pointer that ends the list, so the next
\* push links its item to the last one: also after the list ran empty.
HeadsAgree ==
    \A l \in Lists :
        /\ mem.size[l] = Len(Walk(mem, l))
        /\ IF mem.first[l] = NULL
           THEN mem.last[l] = First
           ELSE mem.last[l] = Walk(mem, l)[Len(Walk(mem, l))]

\* Two lists that link their items through the same field never share one,
\* and no list runs into a cycle: every walk ends.
ListsApart ==
    /\ \A l \in Lists : Cardinality(Members(mem, l)) = Len(Walk(mem, l))
    /\ \A l, k \in Lists : l # k => Members(mem, l) \cap Members(mem, k) = {}

\* The linked lists implement sequences: every operation has the effect and
\* the result that module Deque gives it.
Seqs == INSTANCE Deque WITH contents <- [l \in Lists |-> Walk(mem, l)]

ImplementsDeque == Seqs!Spec

=============================================================================

------------------------------- MODULE Stailq -------------------------------
(***************************************************************************)
(* The singly-linked tail queue of src/src/bsdqueue.h, pointer by pointer. *)
(*                                                                         *)
(* A memory is a record: "first" and "size" of every list head, "last" of  *)
(* every list head, which is the address of the pointer that ends the      *)
(* list (the head's own stqh_first, written First, or the stqe_next of an  *)
(* item, written as that item), and "next" of every item. An item has one  *)
(* LINK_NEXT_PTR, whichever list it is put into.                           *)
(*                                                                         *)
(* Each operator is one list_*() macro: a memory before, a memory after.   *)
(* They are used with the list's mutex held.                               *)
(***************************************************************************)
EXTENDS Integers, Sequences, FiniteSets

CONSTANTS
    Lists,   \* list heads
    Items,   \* list items
    NULL,
    First    \* as a value of "last": the address of stqh_first

ASSUME StailqAssumption ==
    IsFiniteSet(Items) /\ NULL \notin Items /\ First \notin Items

Memories ==
    [first : [Lists -> Items \cup {NULL}],
     last  : [Lists -> Items \cup {First}],
     size  : [Lists -> Int],
     next  : [Items -> Items \cup {NULL}]]

\* STAILQ_INIT on every head. The link field of an item that is in no list is
\* set before it is read; NULL stands for whatever it holds.
Empty ==
    [first |-> [l \in Lists |-> NULL],
     last  |-> [l \in Lists |-> First],
     size  |-> [l \in Lists |-> 0],
     next  |-> [x \in Items |-> NULL]]

Resized(m, l, d) == [m EXCEPT !.size[l] = @ + d]

\* *(head)->stqh_last = x
SetLast(m, l, x) ==
    IF m.last[l] = First THEN [m EXCEPT !.first[l] = x]
                        ELSE [m EXCEPT !.next[m.last[l]] = x]

\* STAILQ_INSERT_TAIL
InsertTail(m, l, x) ==
    LET n == SetLast([m EXCEPT !.next[x] = NULL], l, x)
    IN  Resized([n EXCEPT !.last[l] = x], l, 1)

\* STAILQ_INSERT_HEAD
InsertHead(m, l, x) ==
    LET n == [m EXCEPT !.next[x] = m.first[l],
                       !.last[l] = IF m.first[l] = NULL THEN x ELSE @]
    IN  Resized([n EXCEPT !.first[l] = x], l, 1)

\* STAILQ_INSERT_AFTER
InsertAfter(m, l, pos, x) ==
    LET n == [m EXCEPT !.next[x] = m.next[pos],
                       !.last[l] = IF m.next[pos] = NULL THEN x ELSE @]
    IN  Resized([n EXCEPT !.next[pos] = x], l, 1)

\* Mutant: stqh_last is not reset when the list becomes empty.
RemoveHeadStale(m, l) ==
    Resized([m EXCEPT !.first[l] = m.next[m.first[l]]], l, -1)

\* STAILQ_REMOVE_HEAD; reads through a null pointer on an empty list.
RemoveHead(m, l) ==
    LET f == m.next[m.first[l]]
    IN  Resized([m EXCEPT !.first[l] = f,
                          !.last[l] = IF f = NULL THEN First ELSE @], l, -1)

\* The item that is n links away from the first one, NULL past the end.
Reached(m, l) ==
    LET At[n \in 0 .. Cardinality(Items)] ==
            IF n = 0 THEN m.first[l]
            ELSE IF At[n - 1] = NULL THEN NULL
            ELSE m.next[At[n - 1]]
    IN  At

\* The items reached from the head, in order; at most as many as there are.
Walk(m, l) ==
    LET Ends == {n \in 0 .. Cardinality(Items) : Reached(m, l)[n] = NULL}
        Length == IF Ends = {} THEN Cardinality(Items) + 1
                  ELSE CHOOSE n \in Ends : \A k \in Ends : n <= k
    IN  [n \in 1 .. Length |-> Reached(m, l)[n - 1]]

Members(m, l) == {Walk(m, l)[n] : n \in DOMAIN Walk(m, l)}

\* STAILQ_REMOVE: the loop finds the item before x, which must be there.
Remove(m, l, x) ==
    IF m.first[l] = x THEN RemoveHead(m, l)
    ELSE LET p == CHOOSE y \in Members(m, l) : m.next[y] = x
             n == [m EXCEPT !.next[p] = m.next[x]]
         IN  Resized([n EXCEPT !.last[l] = IF m.next[x] = NULL THEN p ELSE @],
                     l, -1)

\* Mutant: the last item is looked for at the wrong end.
LastIsFirst(m, l) == m.first[l]

\* STAILQ_LAST: the item whose link field ends the list.
Last(m, l) == IF m.first[l] = NULL THEN NULL ELSE m.last[l]

\* Mutant: the second list keeps its items.
ConcatKeeps(m, l, k) ==
    IF m.first[k] = NULL THEN m
    ELSE LET n == SetLast(m, l, m.first[k])
         IN  [n EXCEPT !.last[l] = m.last[k], !.size[l] = @ + m.size[k]]

\* STAILQ_CONCAT and the STAILQ_INIT of the second list.
Concat(m, l, k) ==
    IF m.first[k] = NULL THEN m
    ELSE LET n == SetLast(m, l, m.first[k])
         IN  [first |-> [n.first EXCEPT ![k] = NULL],
              last  |-> [n.last EXCEPT ![l] = m.last[k], ![k] = First],
              size  |-> [n.size EXCEPT ![l] = @ + m.size[k], ![k] = 0],
              next  |-> n.next]

\* list_clear: list_delete_head() until the list is empty.
Clear(m, l) ==
    [m EXCEPT !.first[l] = NULL, !.last[l] = First, !.size[l] = 0]

=============================================================================

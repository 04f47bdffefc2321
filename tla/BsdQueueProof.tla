--------------------------- MODULE BsdQueueProof ---------------------------
(***************************************************************************)
(* Proofs about module BsdQueue, for any number of lists and items: the    *)
(* pointers always lay out the sequences that a walk of the lists reads,   *)
(* and every macro changes these sequences as module Deque says.           *)
(***************************************************************************)
EXTENDS BsdQueue, StailqProof

\* The sequences read from memory.
Contents == [l \in Lists |-> Walk(mem, l)]

\* The inductive invariant: what a walk reads, the pointers lay out.
IInv == Represents(mem, Contents)

-----------------------------------------------------------------------------
(* The sequences of Deque. *)

\* Two sequences in a row, element by element.
LEMMA InTurn ==
    ASSUME NEW a \in Seq(Items), NEW b \in Seq(Items), NEW d, d = a \o b
    PROVE  /\ d \in Seq(Items) /\ Len(d) = Len(a) + Len(b)
           /\ \A i \in 1 .. Len(a) : d[i] = a[i]
           /\ \A i \in 1 .. Len(b) : d[Len(a) + i] = b[i]
<1>1. Len(a) \in Nat /\ Len(b) \in Nat
  OBVIOUS
<1>2. \A i \in 1 .. Len(b) : /\ Len(a) + i \in 1 .. Len(a) + Len(b)
                             /\ ~ (Len(a) + i <= Len(a))
                             /\ (Len(a) + i) - Len(a) = i
  BY <1>1
<1>3. \A i \in 1 .. Len(a) + Len(b) : d[i] = IF i <= Len(a) THEN a[i] ELSE b[i - Len(a)]
  OBVIOUS
<1> QED
  BY <1>1, <1>2, <1>3

\* Putting an item in, as Deque writes it.
LEMMA InsertAtIs ==
    ASSUME NEW s \in Seq(Items), NEW x \in Items, NEW n \in 1 .. Len(s) + 1
    PROVE  Seqs!InsertAt(s, n, x) = Inserted(s, n, x)
<1>1. PICK L, a, b : L = Len(s) /\ a = SubSeq(s, 1, n - 1) /\ b = SubSeq(s, n, L)
  OBVIOUS
<1>2. L \in Nat /\ s \in [1 .. L -> Items] /\ n \in 1 .. L + 1
  BY <1>1
<1>3. /\ a \in Seq(Items) /\ Len(a) = n - 1
      /\ \A i \in 1 .. n - 1 : a[i] = s[i]
  BY <1>1, <1>2
<1>4. /\ b \in Seq(Items) /\ Len(b) = L - n + 1
      /\ \A i \in 1 .. L - n + 1 : b[i] = s[n + i - 1]
  BY <1>1, <1>2
<1>5. PICK c, d : c = a \o <<x>> /\ d = c \o b
  OBVIOUS
<1>6. /\ c \in Seq(Items) /\ Len(c) = n
      /\ \A i \in 1 .. n - 1 : c[i] = s[i]
      /\ c[n] = x
  <2>1. c \in Seq(Items) /\ Len(c) = (n - 1) + 1 /\ (n - 1) + 1 = n
    BY <1>2, <1>3, <1>5
  <2>2. ASSUME NEW i \in 1 .. n
        PROVE  c[i] = IF i <= n - 1 THEN a[i] ELSE x
    BY <1>2, <1>3, <1>5
  <2> QED
    BY <1>2, <1>3, <2>1, <2>2
<1>7. /\ d \in Seq(Items) /\ Len(d) = L + 1
      /\ \A i \in 1 .. n : d[i] = c[i]
      /\ \A i \in 1 .. L - n + 1 : d[n + i] = s[n + i - 1]
  <2>1. c \in Seq(Items) /\ b \in Seq(Items) /\ d = c \o b
    BY ONLY <1>4, <1>5, <1>6
  <2>2. /\ d \in Seq(Items) /\ Len(d) = Len(c) + Len(b)
        /\ \A i \in 1 .. Len(c) : d[i] = c[i]
        /\ \A i \in 1 .. Len(b) : d[Len(c) + i] = b[i]
    BY ONLY <2>1, InTurn
  <2>3. n + (L - n + 1) = L + 1
    BY <1>2
  <2> QED
    BY ONLY <1>4, <1>6, <2>2, <2>3
<1>8. ASSUME NEW i \in 1 .. L + 1
      PROVE  d[i] = IF i < n THEN s[i] ELSE IF i = n THEN x ELSE s[i - 1]
  <2>1. CASE i <= n
    <3>1. i \in 1 .. n /\ (i \in 1 .. n - 1 \/ i = n)
      BY <1>2, <2>1
    <3>2. d[i] = c[i]
      BY ONLY <1>7, <3>1
    <3>3. i \in 1 .. n - 1 => c[i] = s[i] /\ i < n
      BY <1>2, <1>6
    <3>4. i = n => c[i] = x /\ ~ (i < n)
      BY <1>2, <1>6
    <3> QED
      BY ONLY <3>1, <3>2, <3>3, <3>4
  <2>2. CASE n < i
    <3>1. PICK j \in 1 .. L - n + 1 : n + j = i /\ n + j - 1 = i - 1
      <4>1. i - n \in 1 .. L - n + 1 /\ n + (i - n) = i /\ n + (i - n) - 1 = i - 1
        BY <1>2, <2>2
      <4> QED
        BY <4>1
    <3>2. d[i] = s[i - 1]
      BY ONLY <1>7, <3>1
    <3> QED
      BY <1>2, <2>2, <3>2
  <2> QED
    BY <1>2, <2>1, <2>2
<1>9. d = Inserted(s, n, x)
  BY <1>1, <1>2, <1>7, <1>8 DEF Inserted
<1>10. Seqs!InsertAt(s, n, x) = d
  BY ONLY <1>1, <1>5 DEF Seqs!InsertAt
<1> QED
  BY ONLY <1>9, <1>10

\* Taking an item out, as Deque writes it.
LEMMA RemoveAtIs ==
    ASSUME NEW s \in Seq(Items), NEW n \in 1 .. Len(s)
    PROVE  Seqs!RemoveAt(s, n) = Removed(s, n)
<1>1. PICK L, a, b, d : /\ L = Len(s) /\ a = SubSeq(s, 1, n - 1)
                        /\ b = SubSeq(s, n + 1, L) /\ d = a \o b
  OBVIOUS
<1>2. L \in Nat /\ s \in [1 .. L -> Items] /\ n \in 1 .. L
  BY <1>1
<1>3. /\ a \in Seq(Items) /\ Len(a) = n - 1
      /\ \A i \in 1 .. n - 1 : a[i] = s[i]
  BY <1>1, <1>2
<1>4. /\ b \in Seq(Items) /\ Len(b) = L - n
      /\ \A i \in 1 .. L - n : b[i] = s[n + i]
  <2>1. /\ b \in Seq(Items) /\ Len(b) = L - (n + 1) + 1
        /\ \A i \in 1 .. L - (n + 1) + 1 : b[i] = s[(n + 1) + i - 1]
    BY <1>1, <1>2
  <2>2. L - (n + 1) + 1 = L - n /\ \A i \in 1 .. L - n : (n + 1) + i - 1 = n + i
    BY <1>2
  <2> QED
    BY <2>1, <2>2
<1>5. /\ d \in Seq(Items) /\ Len(d) = L - 1
      /\ \A i \in 1 .. n - 1 : d[i] = s[i]
      /\ \A i \in 1 .. L - n : d[(n - 1) + i] = s[n + i]
  <2>1. /\ d \in Seq(Items) /\ Len(d) = Len(a) + Len(b)
        /\ \A i \in 1 .. Len(a) : d[i] = a[i]
        /\ \A i \in 1 .. Len(b) : d[Len(a) + i] = b[i]
    <3>1. a \in Seq(Items) /\ b \in Seq(Items) /\ d = a \o b
      BY ONLY <1>1, <1>3, <1>4
    <3> QED
      BY ONLY <3>1, InTurn
  <2>2. (n - 1) + (L - n) = L - 1
    BY <1>2
  <2> QED
    BY ONLY <1>3, <1>4, <2>1, <2>2
<1>6. ASSUME NEW i \in 1 .. L - 1
      PROVE  d[i] = IF i < n THEN s[i] ELSE s[i + 1]
  <2>1. CASE i < n
    BY <1>2, <1>5, <2>1
  <2>2. CASE ~ (i < n)
    <3>1. PICK j \in 1 .. L - n : (n - 1) + j = i /\ n + j = i + 1
      <4>1. i - (n - 1) \in 1 .. L - n
        BY <1>2, <2>2
      <4>2. (n - 1) + (i - (n - 1)) = i /\ n + (i - (n - 1)) = i + 1
        BY <1>2
      <4> QED
        BY <4>1, <4>2
    <3> QED
      BY ONLY <1>5, <2>2, <3>1
  <2> QED
    BY <2>1, <2>2
<1>7. d = Removed(s, n)
  <2>1. d \in [1 .. L - 1 -> Items]
    BY ONLY <1>5
  <2>2. Removed(s, n) = [i \in 1 .. L - 1 |-> IF i < n THEN s[i] ELSE s[i + 1]]
    BY ONLY <1>1 DEF Removed
  <2> QED
    BY ONLY <1>6, <2>1, <2>2
<1>8. Seqs!RemoveAt(s, n) = d
  BY ONLY <1>1 DEF Seqs!RemoveAt
<1> QED
  BY ONLY <1>7, <1>8

\* The two ends of a sequence, as Deque writes them.
LEMMA EndsAre ==
    ASSUME NEW s \in Seq(Items), NEW x \in Items
    PROVE  /\ Append(s, x) = Inserted(s, Len(s) + 1, x)
           /\ Seqs!Cons(x, s) = Inserted(s, 1, x)
           /\ s # <<>> => /\ Tail(s) = Removed(s, 1)
                          /\ Seqs!Front(s) = Removed(s, Len(s))
<1>1. PICK L, a, c : L = Len(s) /\ a = Append(s, x) /\ c = <<x>> \o s
  OBVIOUS
<1>2. L \in Nat /\ s \in [1 .. L -> Items]
  BY <1>1
<1>3. a = Inserted(s, L + 1, x)
  <2>1. a \in Seq(Items) /\ Len(a) = L + 1
    BY <1>1
  <2>2. \A i \in 1 .. L + 1 : a[i] = IF i < L + 1 THEN s[i] ELSE x
    BY <1>1, <1>2
  <2>3. a \in [1 .. L + 1 -> Items]
    BY ONLY <2>1
  <2>4. Inserted(s, L + 1, x) =
          [i \in 1 .. L + 1 |-> IF i < L + 1 THEN s[i] ELSE IF i = L + 1 THEN x ELSE s[i - 1]]
    BY ONLY <1>1 DEF Inserted
  <2>5. \A i \in 1 .. L + 1 : ~ (i < L + 1) => i = L + 1
    BY <1>2
  <2> QED
    BY ONLY <2>2, <2>3, <2>4, <2>5
<1>4. c = Inserted(s, 1, x)
  <2>1. c \in Seq(Items) /\ Len(c) = 1 + L
    BY <1>1
  <2>2. \A i \in 1 .. L + 1 : c[i] = IF i = 1 THEN x ELSE s[i - 1]
    BY <1>1, <1>2
  <2> QED
    BY <1>1, <1>2, <2>1, <2>2 DEF Inserted
<1>5. ASSUME s # <<>>
      PROVE  Tail(s) = Removed(s, 1) /\ Seqs!Front(s) = Removed(s, Len(s))
  <2>1. PICK t, f : t = Tail(s) /\ f = SubSeq(s, 1, L - 1)
    OBVIOUS
  <2>2. L \in Nat \ {0}
    BY <1>1, <1>2, <1>5
  <2>3. /\ t \in Seq(Items) /\ Len(t) = L - 1
        /\ \A i \in 1 .. L - 1 : t[i] = s[i + 1]
    BY <1>1, <1>5, <2>1
  <2>4. /\ f \in Seq(Items) /\ Len(f) = L - 1
        /\ \A i \in 1 .. L - 1 : f[i] = s[i]
    BY <1>1, <1>2, <2>1, <2>2
  <2>5. t = Removed(s, 1)
    BY <1>1, <1>2, <2>2, <2>3 DEF Removed
  <2>6. f = Removed(s, L)
    BY <1>1, <1>2, <2>2, <2>4 DEF Removed
  <2>7. Seqs!Front(s) = f
    BY ONLY <1>1, <2>1 DEF Seqs!Front
  <2> QED
    BY ONLY <1>1, <2>1, <2>5, <2>6, <2>7
<1>6. Seqs!Cons(x, s) = c
  BY ONLY <1>1 DEF Seqs!Cons
<1> QED
  BY ONLY <1>1, <1>3, <1>4, <1>5, <1>6

-----------------------------------------------------------------------------
(* The operations. *)

\* The sequences a memory lays out are the ones that are read from it.
LEMMA NowReads ==
    ASSUME NEW r, Represents(mem', r)
    PROVE  IInv' /\ Contents' = r
<1>1. Contents' = r
  BY WalksRead DEF Contents
<1> QED
  BY <1>1 DEF IInv

\* What can be said of a list's contents.
LEMMA Read ==
    ASSUME IInv, NEW l \in Lists
    PROVE  /\ Contents \in [Lists -> Seq(Items)]
           /\ Contents[l] = Walk(mem, l) /\ Contents[l] \in Seq(Items)
           /\ DOMAIN Contents[l] = 1 .. Len(Contents[l])
           /\ Members(mem, l) = Range(Contents[l])
           /\ Chain(mem, l, Contents[l])
<1>1. Contents \in [Lists -> Seq(Items)] /\ Chain(mem, l, Contents[l])
  BY DEF IInv, Represents
<1>2. Contents[l] = Walk(mem, l)
  BY DEF Contents
<1>3. Members(mem, l) = Range(Contents[l])
  BY <1>2 DEF Members, Range
<1> QED
  BY <1>1, <1>2, <1>3

\* An item that is in no list, for both specifications.
LEMMA Unlinked ==
    ASSUME IInv, NEW x \in Items, x \notin Linked
    PROVE  x \in Seqs!Free /\ \A k \in Lists : x \notin Range(Contents[k])
<1>1. \A k \in Lists : x \notin Members(mem, k)
  BY DEF Linked
<1>2. \A k \in Lists : x \notin Range(Contents[k])
  BY <1>1, Read
<1>3. \A k \in Lists : Seqs!Range(Contents[k]) = Range(Contents[k])
  BY DEF Seqs!Range, Range
<1>4. x \notin Seqs!Linked
  BY <1>2, <1>3 DEF Seqs!Linked, Contents
<1> QED
  BY <1>2, <1>4 DEF Seqs!Free

\* list_push() appends.
LEMMA PushStep ==
    ASSUME IInv, NEW l \in Lists, NEW x \in Items, list_push(l, x)
    PROVE  IInv' /\ Seqs!Push(l, x)
<1>1. PICK r : r = [Contents EXCEPT ![l] = Inserted(Contents[l], Len(Contents[l]) + 1, x)]
  OBVIOUS
<1>2. x \in Seqs!Free /\ \A k \in Lists : x \notin Range(Contents[k])
  BY Unlinked DEF list_push
<1>3. mem' = InsertTail(mem, l, x) /\ op' = <<"push", l, x>>
  BY DEF list_push
<1>4. Represents(mem', r)
  BY ONLY IInv, l \in Lists, x \in Items, <1>1, <1>2, <1>3, InsertTailAppends DEF IInv
<1>5. IInv' /\ Contents' = r
  BY <1>4, NowReads
<1>6. r = [Contents EXCEPT ![l] = Append(Contents[l], x)]
  <2>1. Inserted(Contents[l], Len(Contents[l]) + 1, x) = Append(Contents[l], x)
    BY Read, EndsAre
  <2> QED
    BY ONLY <1>1, <2>1
<1> QED
  BY ONLY <1>2, <1>3, <1>5, <1>6 DEF Seqs!Push, Seqs!Becomes, Contents

\* list_unshift() puts the item in front.
LEMMA UnshiftStep ==
    ASSUME IInv, NEW l \in Lists, NEW x \in Items, list_unshift(l, x)
    PROVE  IInv' /\ Seqs!Unshift(l, x)
<1>1. PICK r : r = [Contents EXCEPT ![l] = Inserted(Contents[l], 1, x)]
  OBVIOUS
<1>2. x \in Seqs!Free /\ \A k \in Lists : x \notin Range(Contents[k])
  BY Unlinked DEF list_unshift
<1>3. mem' = InsertHead(mem, l, x) /\ op' = <<"unshift", l, x>>
  BY DEF list_unshift
<1>4. Represents(mem', r)
  BY ONLY IInv, l \in Lists, x \in Items, <1>1, <1>2, <1>3, InsertHeadPrepends DEF IInv
<1>5. IInv' /\ Contents' = r
  BY <1>4, NowReads
<1>6. r = [Contents EXCEPT ![l] = Seqs!Cons(x, Contents[l])]
  <2>1. Inserted(Contents[l], 1, x) = Seqs!Cons(x, Contents[l])
    BY Read, EndsAre
  <2> QED
    BY ONLY <1>1, <2>1
<1> QED
  BY ONLY <1>2, <1>3, <1>5, <1>6 DEF Seqs!Unshift, Seqs!Becomes, Contents

\* list_insert() puts the item behind another one.
LEMMA InsertStep ==
    ASSUME IInv, NEW l \in Lists, NEW x \in Items, NEW pos \in Items,
           list_insert(l, pos, x)
    PROVE  IInv' /\ \E n \in DOMAIN Contents[l] : Seqs!Insert(l, n, x)
<1>1. x \in Seqs!Free /\ \A k \in Lists : x \notin Range(Contents[k])
  BY Unlinked DEF list_insert
<1>2. PICK n \in 1 .. Len(Contents[l]) : Contents[l][n] = pos
  <2>1. pos \in Range(Contents[l])
    BY Read DEF list_insert
  <2> QED
    BY <2>1, Read DEF Range
<1>3. PICK r : r = [Contents EXCEPT ![l] = Inserted(Contents[l], n + 1, x)]
  OBVIOUS
<1>4. mem' = InsertAfter(mem, l, pos, x) /\ op' = <<"insert", l, pos, x>>
  BY DEF list_insert
<1>5. Represents(mem', r)
  <2>1. mem' = InsertAfter(mem, l, Contents[l][n], x)
    BY ONLY <1>2, <1>4
  <2>2. n \in 1 .. Len(Contents[l])
    OBVIOUS
  <2> QED
    BY ONLY IInv, l \in Lists, x \in Items, <1>1, <1>3, <2>1, <2>2, InsertAfterInserts
       DEF IInv
<1>6. IInv' /\ Contents' = r
  BY <1>5, NowReads
<1>7. r = [Contents EXCEPT ![l] = Seqs!InsertAt(Contents[l], n + 1, x)]
  <2>1. Contents[l] \in Seq(Items) /\ n + 1 \in 1 .. Len(Contents[l]) + 1
    BY Read
  <2>2. Inserted(Contents[l], n + 1, x) = Seqs!InsertAt(Contents[l], n + 1, x)
    BY <2>1, InsertAtIs
  <2> QED
    BY ONLY <1>3, <2>2
<1>8. Seqs!Insert(l, n, x)
  BY ONLY <1>1, <1>2, <1>4, <1>6, <1>7 DEF Seqs!Insert, Seqs!Becomes, Contents
<1> QED
  BY <1>6, <1>8, Read

\* list_shift() takes the first item.
LEMMA ShiftStep ==
    ASSUME IInv, NEW l \in Lists, list_shift(l)
    PROVE  IInv' /\ Seqs!Shift(l)
<1>1. PICK r : r = [Contents EXCEPT ![l] = Removed(Contents[l], 1)]
  OBVIOUS
<1>2. /\ mem.first[l] # NULL
      /\ mem' = RemoveHead(mem, l) /\ op' = <<"shift", l, mem.first[l]>>
  BY DEF list_shift
<1>3. Contents[l] # <<>>
  BY <1>2, Read DEF Chain
<1>4. Represents(mem', r)
  BY ONLY IInv, l \in Lists, <1>1, <1>2, RemoveHeadShifts DEF IInv
<1>5. IInv' /\ Contents' = r
  BY <1>4, NowReads
<1>6. r = [Contents EXCEPT ![l] = Tail(Contents[l])]
  <2>1. Contents[l][1] \in Items
    BY <1>3, Read
  <2>2. Removed(Contents[l], 1) = Tail(Contents[l])
    BY <1>3, <2>1, Read, EndsAre
  <2> QED
    BY ONLY <1>1, <2>2
<1>7. Head(Contents[l]) = mem.first[l]
  BY <1>3, Read DEF Chain
<1> QED
  BY ONLY <1>2, <1>3, <1>5, <1>6, <1>7 DEF Seqs!Shift, Seqs!Becomes, Contents

\* list_pop() takes the last item.
LEMMA PopStep ==
    ASSUME IInv, NEW l \in Lists, list_pop(l)
    PROVE  IInv' /\ Seqs!Pop(l)
<1>1. PICK n : n = Len(Contents[l])
  OBVIOUS
<1>2. PICK r : r = [Contents EXCEPT ![l] = Removed(Contents[l], n)]
  OBVIOUS
<1>3. /\ mem.first[l] # NULL
      /\ mem' = Remove(mem, l, Last(mem, l)) /\ op' = <<"pop", l, Last(mem, l)>>
  BY DEF list_pop
<1>4. Contents[l] # <<>>
  BY <1>3, Read DEF Chain
<1>5. n \in 1 .. Len(Contents[l]) /\ Contents[l][n] \in Items
  BY <1>1, <1>4, Read
<1>6. Last(mem, l) = Contents[l][n]
  BY <1>1, <1>3, <1>4, Read DEF Chain, Last
<1>7. Represents(mem', r)
  <2>1. mem' = Remove(mem, l, Contents[l][n])
    BY ONLY <1>3, <1>6
  <2> QED
    BY ONLY IInv, l \in Lists, <1>2, <1>5, <2>1, RemoveDeletes DEF IInv
<1>8. IInv' /\ Contents' = r
  BY <1>7, NowReads
<1>9. r = [Contents EXCEPT ![l] = Seqs!Front(Contents[l])]
  <2>1. Removed(Contents[l], Len(Contents[l])) = Seqs!Front(Contents[l])
    BY <1>4, <1>5, Read, EndsAre
  <2> QED
    BY ONLY <1>1, <1>2, <2>1
<1>10. Seqs!Last(Contents[l]) = Last(mem, l)
  BY ONLY <1>1, <1>6 DEF Seqs!Last
<1> QED
  BY ONLY <1>3, <1>4, <1>8, <1>9, <1>10 DEF Seqs!Pop, Seqs!Becomes, Contents

\* list_remove() takes any item.
LEMMA RemoveStep ==
    ASSUME IInv, NEW l \in Lists, NEW x \in Items, list_remove(l, x)
    PROVE  IInv' /\ \E n \in DOMAIN Contents[l] : Seqs!Delete(l, n)
<1>1. PICK n \in 1 .. Len(Contents[l]) : Contents[l][n] = x
  <2>1. x \in Range(Contents[l])
    BY Read DEF list_remove
  <2> QED
    BY <2>1, Read DEF Range
<1>2. PICK r : r = [Contents EXCEPT ![l] = Removed(Contents[l], n)]
  OBVIOUS
<1>3. mem' = Remove(mem, l, Contents[l][n]) /\ op' = <<"remove", l, Contents[l][n]>>
  BY <1>1 DEF list_remove
<1>4. n \in 1 .. Len(Contents[l])
  OBVIOUS
<1>5. Represents(mem', r)
  BY ONLY IInv, l \in Lists, <1>2, <1>3, <1>4, RemoveDeletes DEF IInv
<1>6. IInv' /\ Contents' = r
  BY <1>5, NowReads
<1>7. r = [Contents EXCEPT ![l] = Seqs!RemoveAt(Contents[l], n)]
  <2>1. Removed(Contents[l], n) = Seqs!RemoveAt(Contents[l], n)
    BY <1>4, Read, RemoveAtIs
  <2> QED
    BY ONLY <1>2, <2>1
<1>8. Seqs!Delete(l, n)
  BY ONLY <1>3, <1>6, <1>7 DEF Seqs!Delete, Seqs!Becomes, Contents
<1> QED
  BY <1>6, <1>8, Read

\* list_cat() moves the items of the second list behind those of the first.
LEMMA CatStep ==
    ASSUME IInv, NEW l \in Lists, NEW k \in Lists, list_cat(l, k)
    PROVE  IInv' /\ Seqs!Cat(l, k)
<1>1. PICK r : r = [Contents EXCEPT ![l] = Contents[l] \o Contents[k], ![k] = <<>>]
  OBVIOUS
<1>2. l # k /\ mem' = Concat(mem, l, k) /\ op' = <<"cat", l, k>>
  BY DEF list_cat
<1>3. Represents(mem', r)
  BY ONLY IInv, l \in Lists, k \in Lists, <1>1, <1>2, ConcatJoins DEF IInv
<1>4. IInv' /\ Contents' = r
  BY <1>3, NowReads
<1> QED
  BY ONLY <1>1, <1>2, <1>4 DEF Seqs!Cat, Contents

\* list_clear() empties the list.
LEMMA ClearStep ==
    ASSUME IInv, NEW l \in Lists, list_clear(l)
    PROVE  IInv' /\ Seqs!Clear(l)
<1>1. PICK r : r = [Contents EXCEPT ![l] = <<>>]
  OBVIOUS
<1>2. mem' = Clear(mem, l) /\ op' = <<"clear", l>>
  BY DEF list_clear
<1>3. Represents(mem', r)
  BY ONLY IInv, l \in Lists, <1>1, <1>2, ClearEmpties DEF IInv
<1>4. IInv' /\ Contents' = r
  BY <1>3, NowReads
<1> QED
  BY ONLY <1>1, <1>2, <1>4 DEF Seqs!Clear, Seqs!Becomes, Contents

-----------------------------------------------------------------------------
(* Theorems *)

\* STAILQ_INIT lays out empty sequences.
LEMMA InitInv ==
    ASSUME Init
    PROVE  IInv /\ Seqs!Init
<1>1. PICK r : r = [l \in Lists |-> <<>>]
  OBVIOUS
<1>2. Represents(mem, r)
  BY <1>1, EmptyLists DEF Init
<1>3. Contents = r
  BY <1>2, WalksRead DEF Contents
<1> QED
  BY <1>1, <1>2, <1>3 DEF IInv, Init, Seqs!Init, Contents

\* Every operation keeps the invariant and is an operation of Deque.
LEMMA StepInv ==
    ASSUME IInv, [Next]_vars
    PROVE  IInv' /\ [Seqs!Next]_(Seqs!dequeVars)
<1>1. ASSUME NEW l \in Lists, NEW x \in Items, list_push(l, x) \/ list_unshift(l, x)
      PROVE  IInv' /\ Seqs!Next
  BY <1>1, PushStep, UnshiftStep DEF Seqs!Next
<1>2. ASSUME NEW l \in Lists, NEW x \in Items, list_remove(l, x)
      PROVE  IInv' /\ Seqs!Next
  BY <1>2, RemoveStep DEF Seqs!Next, Contents
<1>3. ASSUME NEW l \in Lists, NEW x \in Items, NEW pos \in Items, list_insert(l, pos, x)
      PROVE  IInv' /\ Seqs!Next
  BY <1>3, InsertStep DEF Seqs!Next, Contents
<1>4. ASSUME NEW l \in Lists, NEW k \in Lists, list_cat(l, k)
      PROVE  IInv' /\ Seqs!Next
  BY <1>4, CatStep DEF Seqs!Next
<1>5. ASSUME NEW l \in Lists, list_shift(l) \/ list_pop(l) \/ list_clear(l)
      PROVE  IInv' /\ Seqs!Next
  BY <1>5, ShiftStep, PopStep, ClearStep DEF Seqs!Next
<1>6. CASE UNCHANGED vars
  <2>1. mem' = mem /\ op' = op
    BY <1>6 DEF vars
  <2>2. Contents' = Contents
    BY <2>1 DEF Contents
  <2> QED
    BY <2>1, <2>2 DEF IInv, Seqs!dequeVars, Contents
<1> QED
  BY <1>1, <1>2, <1>3, <1>4, <1>5, <1>6 DEF Next

\* Whatever the lists go through, their pointers lay out the sequences that a
\* walk reads.
THEOREM InvHolds == Spec => []IInv
<1>1. Init => IInv
  BY InitInv
<1>2. IInv /\ [Next]_vars => IInv'
  BY StepInv
<1> QED
  BY <1>1, <1>2, PTL DEF Spec

\* The sizes and the tail pointers of the list heads are always right.
THEOREM HeadsStayRight == Spec => []HeadsAgree
<1>1. IInv => HeadsAgree
  <2> SUFFICES ASSUME IInv, NEW l \in Lists
               PROVE  /\ mem.size[l] = Len(Walk(mem, l))
                      /\ IF mem.first[l] = NULL
                         THEN mem.last[l] = First
                         ELSE mem.last[l] = Walk(mem, l)[Len(Walk(mem, l))]
    BY DEF HeadsAgree
  <2>1. Represents(mem, Contents) /\ Contents[l] = Walk(mem, l)
    BY Read DEF IInv
  <2>2. PICK s, L : s = Contents[l] /\ L = Len(s)
    OBVIOUS
  <2>3. /\ (mem.first[l] = NULL) <=> (L = 0)
        /\ (mem.last[l] = First) <=> (L = 0)
        /\ L # 0 => mem.last[l] = s[L]
        /\ mem.size[l] = L
    BY <2>1, <2>2, ChainFacts
  <2> QED
    BY ONLY <2>1, <2>2, <2>3
<1> QED
  BY <1>1, InvHolds, PTL

\* No two lists ever share an item, and every walk ends.
THEOREM ListsStayApart == Spec => []ListsApart
<1>1. IInv => ListsApart
  <2> SUFFICES ASSUME IInv
               PROVE  ListsApart
    OBVIOUS
  <2>1. ASSUME NEW l \in Lists
        PROVE  Cardinality(Members(mem, l)) = Len(Walk(mem, l))
    <3>1. PICK s : s = Contents[l]
      OBVIOUS
    <3>2. s \in Seq(Items) /\ IsInjective(s) /\ Members(mem, l) = Range(s)
          /\ Walk(mem, l) = s
      BY <3>1, Read DEF Chain
    <3>3. Cardinality(Range(s)) = Len(s)
      BY <3>2, DistinctCount
    <3> QED
      BY ONLY <3>2, <3>3
  <2>2. ASSUME NEW l \in Lists, NEW k \in Lists, l # k
        PROVE  Members(mem, l) \cap Members(mem, k) = {}
    BY <2>2, Read DEF IInv, Represents
  <2> QED
    BY <2>1, <2>2 DEF ListsApart
<1> QED
  BY <1>1, InvHolds, PTL

\* The linked lists of bsdqueue.h implement the sequences of Deque.
THEOREM ListsAreSequences == Spec => ImplementsDeque
<1>1. Init => Seqs!Init
  BY InitInv
<1>2. IInv /\ [Next]_vars => [Seqs!Next]_(Seqs!dequeVars)
  BY StepInv
<1> QED
  BY <1>1, <1>2, InvHolds, PTL DEF Spec, ImplementsDeque, Seqs!Spec

=============================================================================

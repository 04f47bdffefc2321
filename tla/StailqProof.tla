---------------------------- MODULE StailqProof ----------------------------
(***************************************************************************)
(* What the macros of bsdqueue.h do to the sequences their lists stand     *)
(* for, for any number of lists and items.                                 *)
(*                                                                         *)
(* Represents(m, q) says that the pointers of memory m lay out the         *)
(* sequences q. Each lemma on a macro says that it takes a memory that     *)
(* represents some sequences to one that represents the changed ones.      *)
(***************************************************************************)
EXTENDS Stailq, FiniteSetTheorems, WellFoundedInduction, TLAPS

\* The pointers of list l link the items of s, each once.
Chain(m, l, s) ==
    /\ IsInjective(s)
    /\ m.size[l] = Len(s)
    /\ m.first[l] = IF s = <<>> THEN NULL ELSE s[1]
    /\ m.last[l] = IF s = <<>> THEN First ELSE s[Len(s)]
    /\ \A i \in 1 .. Len(s) : m.next[s[i]] = IF i < Len(s) THEN s[i + 1] ELSE NULL

\* Memory m holds the sequences q, no two of which share an item.
Represents(m, q) ==
    /\ m \in Memories
    /\ q \in [Lists -> Seq(Items)]
    /\ \A l \in Lists : Chain(m, l, q[l])
    /\ \A l, k \in Lists : l # k => Range(q[l]) \cap Range(q[k]) = {}

-----------------------------------------------------------------------------
(* Recursion *)

\* A well-founded relation has minimal elements.
LEMMA MinimalIn ==
    ASSUME NEW R, IsWellFoundedOn(R, Nat), NEW T \in SUBSET Nat, T # {}
    PROVE  \E n \in T : \A m \in T : ~ (<<m, n>> \in R)
BY WFMin

\* The same for a relation that contains <.
LEMMA LeastOf ==
    ASSUME NEW R, IsWellFoundedOn(R, Nat),
           \A m, n \in Nat : m < n => <<m, n>> \in R,
           NEW T \in SUBSET Nat, T # {}
    PROVE  \E n \in T : \A m \in T : n <= m
<1>0. T \subseteq Nat
  OBVIOUS
<1>1. PICK n \in T : \A m \in T : ~ (<<m, n>> \in R)
  BY MinimalIn, Zenon
<1>2. ASSUME NEW m \in T
      PROVE  n <= m
  <2>1. ~ (m < n)
    BY <1>0, <1>1, Zenon
  <2> QED
    BY <1>0, <2>1
<1> QED
  BY <1>2

\* A nonempty set of naturals has a least element: induction, as the provers
\* can use it.
LEMMA LeastNat ==
    \A T \in SUBSET Nat : T # {} => \E n \in T : \A m \in T : n <= m
<1> DEFINE R == OpToRel(<, Nat)
<1>1. IsWellFoundedOn(R, Nat)
  BY NatLessThanWellFounded
<1>2. \A m, n \in Nat : m < n => <<m, n>> \in R
  BY DEF OpToRel
<1> HIDE DEF R
<1> QED
  BY <1>1, <1>2, LeastOf

\* What a walk of k links from the head of l reads, given what it has read.
Follow(m, l, f, k) ==
    [n \in 0 .. k |-> IF n = 0 THEN m.first[l]
                      ELSE IF f[n - 1] = NULL THEN NULL
                      ELSE m.next[f[n - 1]]]

\* What a walk reads is well defined.
LEMMA WalkExists ==
    ASSUME NEW m, NEW l, NEW N \in Nat
    PROVE  \E f : f = Follow(m, l, f, N)
<1> USE DEF Follow
<1> DEFINE Bad == {k \in Nat : ~ \E f : f = Follow(m, l, f, k)}
<1>1. SUFFICES ASSUME Bad # {}
               PROVE  FALSE
  OBVIOUS
<1>2. PICK k \in Bad : \A j \in Bad : k <= j
  <2>1. Bad \in SUBSET Nat
    OBVIOUS
  <2> HIDE DEF Bad
  <2> QED
    BY <1>1, <2>1, LeastNat
<1>3. CASE k = 0
  <2> DEFINE f == [n \in 0 .. 0 |-> m.first[l]]
  <2>1. f = Follow(m, l, f, 0)
    OBVIOUS
  <2> QED
    BY <1>3, <2>1
<1>4. CASE k # 0
  <2>1. k - 1 \in Nat /\ k - 1 \notin Bad
    BY <1>2, <1>4
  <2>2. PICK f : f = Follow(m, l, f, k - 1)
    BY <2>1
  <2> DEFINE g == [n \in 0 .. k |-> IF n < k THEN f[n]
                                    ELSE IF f[k - 1] = NULL THEN NULL
                                    ELSE m.next[f[k - 1]]]
  <2>3. ASSUME NEW n \in 0 .. k
        PROVE  g[n] = Follow(m, l, g, k)[n]
    <3>1. CASE n = 0
      <4>1. f[0] = m.first[l]
        BY <2>1, <2>2
      <4>2. g[0] = f[0] /\ Follow(m, l, g, k)[0] = m.first[l]
        BY <1>4
      <4> QED
        BY <3>1, <4>1, <4>2
    <3>2. CASE n # 0
      <4>1. n - 1 \in 0 .. k - 1 /\ g[n - 1] = f[n - 1]
        BY <2>1, <3>2
      <4>2. CASE n = k
        BY <3>2, <4>1, <4>2
      <4>3. CASE n < k
        <5>1. g[n] = f[n] /\ n \in 0 .. k - 1
          BY <2>1, <4>3
        <5>2. f[n] = IF f[n - 1] = NULL THEN NULL ELSE m.next[f[n - 1]]
          BY <2>2, <3>2, <5>1
        <5> QED
          BY <3>2, <4>1, <5>1, <5>2
      <4> QED
        BY <4>2, <4>3
    <3> QED
      BY <3>1, <3>2
  <2>4. g = Follow(m, l, g, k)
    BY <2>3
  <2> QED
    BY <2>4
<1> QED
  BY <1>3, <1>4

\* The equations of Reached.
LEMMA ReachedDef ==
    ASSUME NEW m, NEW l
    PROVE  /\ Cardinality(Items) \in Nat
           /\ Reached(m, l)[0] = m.first[l]
           /\ \A n \in 1 .. Cardinality(Items) :
                Reached(m, l)[n] = IF Reached(m, l)[n - 1] = NULL THEN NULL
                                   ELSE m.next[Reached(m, l)[n - 1]]
<1> DEFINE N == Cardinality(Items)
           R == Reached(m, l)
<1>1. N \in Nat
  BY StailqAssumption, FS_CardinalityType
<1>2. R = Follow(m, l, R, N)
  <2>1. \E f : f = Follow(m, l, f, N)
    BY <1>1, WalkExists
  <2> QED
    BY <2>1, Zenon DEF Reached, Follow
<1> HIDE DEF R, N
<1>3. R[0] = m.first[l]
  BY <1>1, <1>2 DEF Follow
<1>4. ASSUME NEW n \in 1 .. N
      PROVE  R[n] = IF R[n - 1] = NULL THEN NULL ELSE m.next[R[n - 1]]
  BY <1>1, <1>2 DEF Follow
<1> QED
  BY <1>1, <1>3, <1>4 DEF R, N

-----------------------------------------------------------------------------
(* Reading *)

\* A list of items, each once, is no longer than there are items.
LEMMA ShortLists ==
    ASSUME NEW s \in Seq(Items), IsInjective(s)
    PROVE  Len(s) <= Cardinality(Items)
<1>1. Len(s) \in Nat /\ s \in [1 .. Len(s) -> Items]
  OBVIOUS
<1>2. s \in Injection(1 .. Len(s), Items)
  BY <1>1 DEF Injection, IsInjective
<1>3. Cardinality(1 .. Len(s)) <= Cardinality(Items)
  BY <1>2, StailqAssumption, FS_Injection
<1>4. Cardinality(1 .. Len(s)) = Len(s)
  BY <1>1, FS_Interval
<1> QED
  BY <1>3, <1>4

\* A sequence without repetition has as many items as it is long.
LEMMA DistinctCount ==
    ASSUME NEW s \in Seq(Items), IsInjective(s)
    PROVE  Cardinality(Range(s)) = Len(s)
<1>1. Len(s) \in Nat /\ s \in [1 .. Len(s) -> Items]
  OBVIOUS
<1>2. IsFiniteSet(1 .. Len(s)) /\ Cardinality(1 .. Len(s)) = Len(s)
  BY <1>1, FS_Interval
<1>3. s \in Bijection(1 .. Len(s), Range(s))
  <2>1. /\ \A i, j \in 1 .. Len(s) : s[i] = s[j] => i = j
        /\ Range(s) = {s[i] : i \in 1 .. Len(s)}
    BY <1>1 DEF IsInjective, Range
  <2>2. s \in Injection(1 .. Len(s), Range(s))
    BY ONLY <1>1, <2>1 DEF Injection, IsInjective
  <2>3. s \in Surjection(1 .. Len(s), Range(s))
    BY ONLY <1>1, <2>1 DEF Surjection
  <2> QED
    BY ONLY <2>2, <2>3 DEF Bijection
<1>4. ExistsBijection(1 .. Len(s), Range(s))
  BY <1>3 DEF ExistsBijection
<1> QED
  BY ONLY <1>2, <1>4, FS_Bijection

\* A walk over a memory reads the sequence the memory stands for.
LEMMA WalkReads ==
    ASSUME NEW m, NEW l \in Lists, NEW s \in Seq(Items), Chain(m, l, s)
    PROVE  Walk(m, l) = s
<1> DEFINE N == Cardinality(Items)
           L == Len(s)
           R == Reached(m, l)
           Ends == {n \in 0 .. N : R[n] = NULL}
<1>1. /\ N \in Nat /\ L \in Nat /\ L <= N
      /\ s \in [1 .. L -> Items]
  BY ReachedDef, ShortLists DEF Chain
<1>2. /\ R[0] = m.first[l]
      /\ \A n \in 1 .. N : R[n] = IF R[n - 1] = NULL THEN NULL ELSE m.next[R[n - 1]]
  BY ReachedDef
<1>3. /\ m.first[l] = IF L = 0 THEN NULL ELSE s[1]
      /\ \A i \in 1 .. L : m.next[s[i]] = IF i < L THEN s[i + 1] ELSE NULL
  BY DEF Chain
<1>4. \A i \in 1 .. L : s[i] # NULL
  BY <1>1, StailqAssumption
<1> HIDE DEF N, L, R
<1>5. \A i \in 0 .. L - 1 : R[i] = s[i + 1]
  <2> DEFINE Bad == {i \in 0 .. L - 1 : R[i] # s[i + 1]}
  <2>1. SUFFICES ASSUME Bad # {}
                 PROVE  FALSE
    OBVIOUS
  <2>2. Bad \in SUBSET Nat
    BY <1>1
  <2>3. PICK k \in Bad : \A j \in Bad : k <= j
    <3> HIDE DEF Bad
    <3> QED
      BY <2>1, <2>2, LeastNat
  <2>4. k \in 0 .. L - 1 /\ R[k] # s[k + 1]
    OBVIOUS
  <2>5. CASE k = 0
    BY <1>1, <1>2, <1>3, <2>4, <2>5
  <2>6. CASE k # 0
    <3>1. k - 1 \in 0 .. L - 1 /\ k - 1 \notin Bad
      BY <1>1, <2>3, <2>4, <2>6
    <3>2. R[k - 1] = s[k]
      BY <1>1, <2>4, <3>1
    <3>3. R[k] = m.next[s[k]] /\ m.next[s[k]] = s[k + 1]
      BY <1>1, <1>2, <1>3, <1>4, <2>4, <2>6, <3>2
    <3> QED
      BY <2>4, <3>3
  <2> QED
    BY <2>5, <2>6
<1>6. R[L] = NULL
  <2>1. CASE L = 0
    BY <1>2, <1>3, <2>1
  <2>2. CASE L # 0
    <3>1. R[L - 1] = s[L] /\ s[L] # NULL /\ m.next[s[L]] = NULL
      BY <1>1, <1>3, <1>4, <1>5, <2>2
    <3> QED
      BY <1>1, <1>2, <2>2, <3>1
  <2> QED
    BY <2>1, <2>2
<1>7. /\ Ends # {} /\ Ends \subseteq Nat
      /\ L \in Ends
      /\ \A k \in Ends : L <= k
  <2>1. ASSUME NEW k \in 0 .. N, R[k] = NULL
        PROVE  L <= k
    BY <1>1, <1>4, <1>5, <2>1
  <2> QED
    BY <1>1, <1>6, <2>1
<1> HIDE DEF Ends
<1>8. (CHOOSE n \in Ends : \A k \in Ends : n <= k) = L
  <2>1. \A n \in Ends : (\A k \in Ends : n <= k) => n = L
    BY <1>1, <1>7
  <2> QED
    BY <1>7, <2>1
<1>9. Walk(m, l) = [n \in 1 .. L |-> R[n - 1]]
  BY <1>7, <1>8 DEF Walk, Ends, R, N
<1>10. \A n \in 1 .. L : R[n - 1] = s[n]
  BY <1>1, <1>5
<1> QED
  BY <1>1, <1>9, <1>10

\* All the lists can be read at once.
LEMMA WalksRead ==
    ASSUME NEW m, NEW q, Represents(m, q)
    PROVE  [l \in Lists |-> Walk(m, l)] = q
BY WalkReads DEF Represents

-----------------------------------------------------------------------------
(* Sequences *)

\* s with x put in at place n.
Inserted(s, n, x) ==
    [i \in 1 .. Len(s) + 1 |-> IF i < n THEN s[i] ELSE IF i = n THEN x ELSE s[i - 1]]

\* s without its n-th element.
Removed(s, n) ==
    [i \in 1 .. Len(s) - 1 |-> IF i < n THEN s[i] ELSE s[i + 1]]

\* Putting in a new item keeps the items distinct.
LEMMA InsertedFacts ==
    ASSUME NEW S, NEW s \in Seq(S), NEW x \in S, NEW n \in 1 .. Len(s) + 1
    PROVE  /\ Inserted(s, n, x) \in Seq(S)
           /\ Len(Inserted(s, n, x)) = Len(s) + 1
           /\ Range(Inserted(s, n, x)) = Range(s) \cup {x}
           /\ IsInjective(s) /\ x \notin Range(s) => IsInjective(Inserted(s, n, x))
<1> DEFINE L == Len(s)
           t == Inserted(s, n, x)
<1>1. L \in Nat /\ s \in [1 .. L -> S] /\ n \in 1 .. L + 1
  OBVIOUS
<1>2. /\ t = [i \in 1 .. L + 1 |-> IF i < n THEN s[i] ELSE IF i = n THEN x ELSE s[i - 1]]
  BY DEF Inserted
<1> HIDE DEF L, t
<1>3. t \in [1 .. L + 1 -> S]
  BY <1>1, <1>2
<1>4. t \in Seq(S) /\ Len(t) = L + 1
  BY <1>1, <1>3
<1>5. Range(t) = Range(s) \cup {x}
  <2>1. ASSUME NEW i \in 1 .. L + 1
        PROVE  t[i] \in Range(s) \cup {x}
    <3>1. i = n \/ (i < n /\ i \in 1 .. L) \/ (n < i /\ i - 1 \in 1 .. L)
      BY <1>1
    <3> QED
      BY <1>1, <1>2, <3>1 DEF Range
  <2>2. ASSUME NEW i \in 1 .. L
        PROVE  s[i] \in Range(t)
    <3>1. CASE i < n
      BY <1>1, <1>2, <3>1 DEF Range
    <3>2. CASE n <= i
      <4>1. i + 1 \in 1 .. L + 1 /\ t[i + 1] = s[i]
        BY <1>1, <1>2, <3>2
      <4> QED
        BY <1>3, <4>1 DEF Range
    <3> QED
      BY <1>1, <3>1, <3>2
  <2>3. x \in Range(t)
    BY <1>1, <1>2 DEF Range
  <2> QED
    BY <1>1, <1>3, <2>1, <2>2, <2>3 DEF Range
<1>6. ASSUME IsInjective(s), x \notin Range(s)
      PROVE  IsInjective(t)
  <2>1. \A i, j \in 1 .. L : s[i] = s[j] => i = j
    BY <1>1, <1>6 DEF IsInjective
  <2>2. \A i \in 1 .. L : s[i] # x
    BY <1>1, <1>6 DEF Range
  <2>3. ASSUME NEW i \in 1 .. L + 1, NEW j \in 1 .. L + 1, i < j
        PROVE  t[i] # t[j]
    BY <1>1, <1>2, <2>1, <2>2, <2>3
  <2> QED
    BY <1>1, <1>3, <2>3 DEF IsInjective
<1> QED
  BY <1>4, <1>5, <1>6 DEF L, t

\* Taking out an item keeps the others distinct.
LEMMA RemovedFacts ==
    ASSUME NEW S, NEW s \in Seq(S), NEW n \in 1 .. Len(s)
    PROVE  /\ Removed(s, n) \in Seq(S)
           /\ Len(Removed(s, n)) = Len(s) - 1
           /\ Range(Removed(s, n)) \subseteq Range(s)
           /\ IsInjective(s) => /\ IsInjective(Removed(s, n))
                                /\ Range(Removed(s, n)) = Range(s) \ {s[n]}
<1> DEFINE L == Len(s)
           t == Removed(s, n)
<1>1. L \in Nat /\ s \in [1 .. L -> S] /\ n \in 1 .. L
  OBVIOUS
<1>2. /\ t = [i \in 1 .. L - 1 |-> IF i < n THEN s[i] ELSE s[i + 1]]
  BY DEF Removed
<1> HIDE DEF L, t
<1>3. t \in [1 .. L - 1 -> S] /\ L - 1 \in Nat
  BY <1>1, <1>2
<1>4. t \in Seq(S) /\ Len(t) = L - 1
  BY <1>3
<1>5. Range(t) \subseteq Range(s)
  BY <1>1, <1>2 DEF Range
<1>6. ASSUME IsInjective(s)
      PROVE  IsInjective(t) /\ Range(t) = Range(s) \ {s[n]}
  <2>1. \A i, j \in 1 .. L : s[i] = s[j] => i = j
    BY <1>1, <1>6 DEF IsInjective
  <2>2. ASSUME NEW i \in 1 .. L - 1
        PROVE  t[i] # s[n]
    BY <1>1, <1>2, <2>1
  <2>3. ASSUME NEW i \in 1 .. L - 1, NEW j \in 1 .. L - 1, i < j
        PROVE  t[i] # t[j]
    BY <1>1, <1>2, <2>1, <2>3
  <2>4. ASSUME NEW i \in 1 .. L, s[i] # s[n]
        PROVE  s[i] \in Range(t)
    <3>1. CASE i < n
      BY <1>1, <1>2, <3>1 DEF Range
    <3>2. CASE n < i
      <4>1. i - 1 \in 1 .. L - 1 /\ t[i - 1] = s[i]
        BY <1>1, <1>2, <3>2
      <4> QED
        BY <1>3, <4>1 DEF Range
    <3> QED
      BY <1>1, <2>4, <3>1, <3>2
  <2>5. IsInjective(t)
    BY <1>1, <1>3, <2>3 DEF IsInjective
  <2> QED
    BY <1>1, <1>3, <1>5, <2>2, <2>4, <2>5 DEF Range
<1> QED
  BY <1>4, <1>5, <1>6 DEF L, t

-----------------------------------------------------------------------------
(* Writing *)

\* Memory n differs from m in nothing but the head of l and the links of D.
Apart(m, n, l, D) ==
    /\ \A k \in Lists \ {l} : /\ n.first[k] = m.first[k]
                              /\ n.last[k] = m.last[k]
                              /\ n.size[k] = m.size[k]
    /\ \A y \in Items \ D : n.next[y] = m.next[y]

\* An operation on list l, which may bring in item x, disturbs no other list
\* as long as it writes to no other item.
LEMMA OthersKept ==
    ASSUME NEW m, NEW q, Represents(m, q),
           NEW n \in Memories, NEW l \in Lists, NEW s \in Seq(Items),
           Chain(n, l, s),
           NEW x, \A k \in Lists : x \notin Range(q[k]),
           Range(s) \subseteq Range(q[l]) \cup {x},
           Apart(m, n, l, Range(q[l]) \cup {x}),
           NEW r, r = [q EXCEPT ![l] = s]
    PROVE  Represents(n, r)
<1>1. q \in [Lists -> Seq(Items)]
  BY DEF Represents
<1>2. r \in [Lists -> Seq(Items)] /\ r[l] = s /\ \A k \in Lists \ {l} : r[k] = q[k]
  BY <1>1
<1>3. ASSUME NEW k \in Lists \ {l}
      PROVE  Chain(n, k, q[k])
  <2>1. Chain(m, k, q[k]) /\ Range(q[k]) \cap Range(q[l]) = {} /\ q[k] \in Seq(Items)
    BY <1>1 DEF Represents
  <2>2. \A i \in 1 .. Len(q[k]) : q[k][i] \in Range(q[k]) /\ q[k][i] \in Items
    BY <2>1 DEF Range
  <2>3. \A i \in 1 .. Len(q[k]) : n.next[q[k][i]] = m.next[q[k][i]]
    BY <2>1, <2>2 DEF Apart
  <2>4. n.first[k] = m.first[k] /\ n.last[k] = m.last[k] /\ n.size[k] = m.size[k]
    BY DEF Apart
  <2> QED
    BY <2>1, <2>3, <2>4 DEF Chain
<1>4. ASSUME NEW j \in Lists, NEW k \in Lists, j # k
      PROVE  Range(r[j]) \cap Range(r[k]) = {}
  <2>1. \A i \in Lists \ {l} : Range(q[i]) \cap Range(s) = {}
    BY <1>1 DEF Represents
  <2> QED
    BY <1>2, <1>4, <2>1 DEF Represents
<1>5. \A k \in Lists : Chain(n, k, r[k])
  BY <1>2, <1>3
<1> QED
  BY <1>2, <1>4, <1>5 DEF Represents

\* The fields of a memory.
LEMMA Fields ==
    ASSUME NEW m \in Memories
    PROVE  /\ m.first \in [Lists -> Items \cup {NULL}]
           /\ m.last \in [Lists -> Items \cup {First}]
           /\ m.size \in [Lists -> Int]
           /\ m.next \in [Items -> Items \cup {NULL}]
BY DEF Memories

Fielded(n, f, a, z, y) == n.first = f /\ n.last = a /\ n.size = z /\ n.next = y

\* A memory with all of its fields rewritten.
LEMMA Rewritten ==
    ASSUME NEW m \in Memories,
           NEW f \in [Lists -> Items \cup {NULL}],
           NEW a \in [Lists -> Items \cup {First}],
           NEW z \in [Lists -> Int],
           NEW y \in [Items -> Items \cup {NULL}],
           NEW n, n = [m EXCEPT !.first = f, !.last = a, !.size = z, !.next = y]
    PROVE  n \in Memories /\ Fielded(n, f, a, z, y)
<1>1. n \in Memories
  BY DEF Memories
<1>2. Fielded(n, f, a, z, y)
  BY DEF Memories, Fielded
<1> QED
  BY <1>1, <1>2

\* What the pointers of a list say of its sequence, element by element.
LEMMA ChainFacts ==
    ASSUME NEW m, NEW q, Represents(m, q), NEW l \in Lists,
           NEW s, s = q[l], NEW L, L = Len(s)
    PROVE  /\ m \in Memories
           /\ s \in Seq(Items) /\ L \in Nat /\ s \in [1 .. L -> Items]
           /\ IsInjective(s)
           /\ (s = <<>>) <=> (L = 0)
           /\ (m.first[l] = NULL) <=> (L = 0)
           /\ (m.last[l] = First) <=> (L = 0)
           /\ L # 0 => m.first[l] = s[1] /\ m.last[l] = s[L]
           /\ m.size[l] = L
           /\ \A i \in 1 .. L : m.next[s[i]] = IF i < L THEN s[i + 1] ELSE NULL
           /\ \A i, j \in 1 .. L : s[i] = s[j] => i = j
           /\ \A i \in 1 .. L : s[i] \in Range(s) /\ s[i] \in Items
<1>1. m \in Memories /\ s \in Seq(Items) /\ Chain(m, l, s)
  BY DEF Represents
<1>2. L \in Nat /\ s \in [1 .. L -> Items] /\ ((s = <<>>) <=> (L = 0))
  BY <1>1
<1>3. /\ \A i, j \in 1 .. L : s[i] = s[j] => i = j
      /\ \A i \in 1 .. L : s[i] \in Range(s) /\ s[i] \in Items
  BY <1>1, <1>2 DEF Chain, IsInjective, Range
<1>4. /\ (m.first[l] = NULL) <=> (L = 0)
      /\ (m.last[l] = First) <=> (L = 0)
  <2>1. CASE L = 0
    BY <1>1, <1>2, <2>1 DEF Chain
  <2>2. CASE L # 0
    <3>1. s[1] \in Items /\ s[L] \in Items
      BY <1>2, <2>2
    <3> QED
      BY <1>1, <1>2, <2>2, <3>1, StailqAssumption DEF Chain
  <2> QED
    BY <2>1, <2>2
<1> QED
  BY <1>1, <1>2, <1>3, <1>4 DEF Chain

\* Pointers that link the items of t one by one are a chain.
LEMMA MakesChain ==
    ASSUME NEW n, NEW l \in Lists, NEW t \in Seq(Items), IsInjective(t),
           NEW K, K = Len(t),
           n.size[l] = K,
           K = 0 => n.first[l] = NULL /\ n.last[l] = First,
           K # 0 => n.first[l] = t[1] /\ n.last[l] = t[K],
           \A i \in 1 .. K : n.next[t[i]] = IF i < K THEN t[i + 1] ELSE NULL
    PROVE  Chain(n, l, t)
<1>1. (t = <<>>) <=> (K = 0)
  OBVIOUS
<1> QED
  BY <1>1 DEF Chain

\* STAILQ_INIT makes empty lists.
LEMMA EmptyLists == Represents(Empty, [l \in Lists |-> <<>>])
<1>1. Empty \in Memories
  BY DEF Empty, Memories
<1>2. <<>> \in Seq(Items) /\ Len(<<>>) = 0
  OBVIOUS
<1>3. IsInjective(<<>>) /\ Range(<<>>) = {}
  BY DEF IsInjective, Range
<1>4. ASSUME NEW l \in Lists
      PROVE  Chain(Empty, l, <<>>)
  BY <1>2, <1>3 DEF Empty, Chain
<1> QED
  BY <1>1, <1>2, <1>3, <1>4 DEF Represents

\* STAILQ_INSERT_TAIL, field by field.
LEMMA InsertTailFields ==
    ASSUME NEW m \in Memories, NEW l \in Lists, NEW x \in Items,
           NEW n, n = InsertTail(m, l, x)
    PROVE  /\ n \in Memories
           /\ \A k \in Lists :
                /\ n.first[k] = IF k = l /\ m.last[l] = First THEN x ELSE m.first[k]
                /\ n.last[k] = IF k = l THEN x ELSE m.last[k]
                /\ n.size[k] = IF k = l THEN m.size[l] + 1 ELSE m.size[k]
           /\ \A y \in Items : n.next[y] = IF y = m.last[l] THEN x
                                           ELSE IF y = x THEN NULL ELSE m.next[y]
<1> DEFINE f == IF m.last[l] = First THEN [m.first EXCEPT ![l] = x] ELSE m.first
           a == [m.last EXCEPT ![l] = x]
           z == [m.size EXCEPT ![l] = m.size[l] + 1]
           y == IF m.last[l] = First THEN [m.next EXCEPT ![x] = NULL]
                ELSE [m.next EXCEPT ![x] = NULL, ![m.last[l]] = x]
<1>1. /\ f \in [Lists -> Items \cup {NULL}]
      /\ a \in [Lists -> Items \cup {First}]
      /\ z \in [Lists -> Int]
      /\ y \in [Items -> Items \cup {NULL}]
  BY Fields
<1>2. n = [m EXCEPT !.first = f, !.last = a, !.size = z, !.next = y]
  BY DEF InsertTail, SetLast, Resized, Memories
<1>3. n \in Memories /\ Fielded(n, f, a, z, y)
  <2> HIDE DEF f, a, z, y
  <2> QED
    BY <1>1, <1>2, Rewritten
<1>4. /\ \A k \in Lists :
           /\ f[k] = IF k = l /\ m.last[l] = First THEN x ELSE m.first[k]
           /\ a[k] = IF k = l THEN x ELSE m.last[k]
           /\ z[k] = IF k = l THEN m.size[l] + 1 ELSE m.size[k]
      /\ \A b \in Items : y[b] = IF b = m.last[l] THEN x
                                 ELSE IF b = x THEN NULL ELSE m.next[b]
  BY Fields, StailqAssumption
<1> HIDE DEF f, a, z, y
<1> QED
  BY <1>3, <1>4 DEF Fielded

\* STAILQ_INSERT_TAIL appends.
LEMMA InsertTailAppends ==
    ASSUME NEW m, NEW q, Represents(m, q), NEW l \in Lists, NEW x \in Items,
           \A k \in Lists : x \notin Range(q[k]),
           NEW n, n = InsertTail(m, l, x),
           NEW r, r = [q EXCEPT ![l] = Inserted(q[l], Len(q[l]) + 1, x)]
    PROVE  Represents(n, r)
<1>0. PICK s, L, t : s = q[l] /\ L = Len(s) /\ t = Inserted(s, L + 1, x)
  OBVIOUS
<1>1. /\ m \in Memories
      /\ s \in Seq(Items) /\ L \in Nat /\ s \in [1 .. L -> Items]
      /\ IsInjective(s)
      /\ (m.last[l] = First) <=> (L = 0)
      /\ L # 0 => m.first[l] = s[1] /\ m.last[l] = s[L]
      /\ m.size[l] = L
      /\ \A i \in 1 .. L : m.next[s[i]] = IF i < L THEN s[i + 1] ELSE NULL
      /\ \A i, j \in 1 .. L : s[i] = s[j] => i = j
      /\ \A i \in 1 .. L : s[i] \in Range(s) /\ s[i] \in Items
  BY <1>0, ChainFacts
<1>2. x \notin Range(s) /\ L + 1 \in 1 .. Len(s) + 1
  BY <1>0, <1>1
<1>3. /\ t \in Seq(Items) /\ Len(t) = L + 1 /\ Range(t) = Range(s) \cup {x}
      /\ IsInjective(t)
  BY <1>0, <1>1, <1>2, InsertedFacts
<1>4. \A i \in 1 .. L + 1 : t[i] = IF i <= L THEN s[i] ELSE x
  BY <1>0, <1>1 DEF Inserted
<1>5. r = [q EXCEPT ![l] = t]
  BY <1>0
<1>6. /\ n \in Memories
      /\ \A k \in Lists :
           /\ n.first[k] = IF k = l /\ m.last[l] = First THEN x ELSE m.first[k]
           /\ n.last[k] = IF k = l THEN x ELSE m.last[k]
           /\ n.size[k] = IF k = l THEN m.size[l] + 1 ELSE m.size[k]
      /\ \A y \in Items : n.next[y] = IF y = m.last[l] THEN x
                                      ELSE IF y = x THEN NULL ELSE m.next[y]
  BY <1>1, InsertTailFields
<1>7. ASSUME NEW i \in 1 .. L + 1
      PROVE  n.next[t[i]] = IF i < L + 1 THEN t[i + 1] ELSE NULL
  <2>1. CASE i < L
    BY <1>1, <1>2, <1>4, <1>6, <2>1
  <2>2. CASE i = L
    BY <1>1, <1>2, <1>4, <1>6, <2>2
  <2>3. CASE i = L + 1
    BY <1>1, <1>2, <1>4, <1>6, <2>3, StailqAssumption
  <2> QED
    BY <1>1, <2>1, <2>2, <2>3
<1>8. n.size[l] = L + 1 /\ n.first[l] = t[1] /\ n.last[l] = t[L + 1]
  BY <1>1, <1>4, <1>6
<1>9. Chain(n, l, t)
  <2>1. L + 1 = Len(t) /\ L + 1 # 0
    BY <1>1, <1>3
  <2> QED
    BY <1>3, <1>7, <1>8, <2>1, MakesChain
<1>10. Apart(m, n, l, Range(q[l]) \cup {x})
  BY <1>0, <1>1, <1>6, StailqAssumption DEF Apart
<1>11. n \in Memories /\ t \in Seq(Items) /\ Range(t) \subseteq Range(q[l]) \cup {x}
  BY <1>0, <1>3, <1>6
<1> QED
  BY <1>5, <1>9, <1>10, <1>11, OthersKept

\* STAILQ_INSERT_HEAD, field by field.
LEMMA InsertHeadFields ==
    ASSUME NEW m \in Memories, NEW l \in Lists, NEW x \in Items,
           NEW n, n = InsertHead(m, l, x)
    PROVE  /\ n \in Memories
           /\ \A k \in Lists :
                /\ n.first[k] = IF k = l THEN x ELSE m.first[k]
                /\ n.last[k] = IF k = l /\ m.first[l] = NULL THEN x ELSE m.last[k]
                /\ n.size[k] = IF k = l THEN m.size[l] + 1 ELSE m.size[k]
           /\ \A y \in Items : n.next[y] = IF y = x THEN m.first[l] ELSE m.next[y]
<1> DEFINE f == [m.first EXCEPT ![l] = x]
           a == [m.last EXCEPT ![l] = IF m.first[l] = NULL THEN x ELSE m.last[l]]
           z == [m.size EXCEPT ![l] = m.size[l] + 1]
           y == [m.next EXCEPT ![x] = m.first[l]]
<1>1. /\ f \in [Lists -> Items \cup {NULL}]
      /\ a \in [Lists -> Items \cup {First}]
      /\ z \in [Lists -> Int]
      /\ y \in [Items -> Items \cup {NULL}]
  BY Fields
<1>2. n = [m EXCEPT !.first = f, !.last = a, !.size = z, !.next = y]
  BY DEF InsertHead, Resized, Memories
<1>3. n \in Memories /\ Fielded(n, f, a, z, y)
  <2> HIDE DEF f, a, z, y
  <2> QED
    BY <1>1, <1>2, Rewritten
<1>4. /\ \A k \in Lists :
           /\ f[k] = IF k = l THEN x ELSE m.first[k]
           /\ a[k] = IF k = l /\ m.first[l] = NULL THEN x ELSE m.last[k]
           /\ z[k] = IF k = l THEN m.size[l] + 1 ELSE m.size[k]
      /\ \A b \in Items : y[b] = IF b = x THEN m.first[l] ELSE m.next[b]
  BY Fields
<1> HIDE DEF f, a, z, y
<1> QED
  BY <1>3, <1>4 DEF Fielded

\* STAILQ_INSERT_HEAD puts the item in front.
LEMMA InsertHeadPrepends ==
    ASSUME NEW m, NEW q, Represents(m, q), NEW l \in Lists, NEW x \in Items,
           \A k \in Lists : x \notin Range(q[k]),
           NEW n, n = InsertHead(m, l, x),
           NEW r, r = [q EXCEPT ![l] = Inserted(q[l], 1, x)]
    PROVE  Represents(n, r)
<1>0. PICK s, L, t : s = q[l] /\ L = Len(s) /\ t = Inserted(s, 1, x)
  OBVIOUS
<1>1. /\ m \in Memories
      /\ s \in Seq(Items) /\ L \in Nat /\ s \in [1 .. L -> Items]
      /\ IsInjective(s)
      /\ (m.first[l] = NULL) <=> (L = 0)
      /\ L # 0 => m.first[l] = s[1] /\ m.last[l] = s[L]
      /\ m.size[l] = L
      /\ \A i \in 1 .. L : m.next[s[i]] = IF i < L THEN s[i + 1] ELSE NULL
      /\ \A i, j \in 1 .. L : s[i] = s[j] => i = j
      /\ \A i \in 1 .. L : s[i] \in Range(s) /\ s[i] \in Items
  BY <1>0, ChainFacts
<1>2. x \notin Range(s) /\ 1 \in 1 .. Len(s) + 1
  BY <1>0, <1>1
<1>3. /\ t \in Seq(Items) /\ Len(t) = L + 1 /\ Range(t) = Range(s) \cup {x}
      /\ IsInjective(t)
  BY <1>0, <1>1, <1>2, InsertedFacts
<1>4. \A i \in 1 .. L + 1 : t[i] = IF i = 1 THEN x ELSE s[i - 1]
  BY <1>0, <1>1 DEF Inserted
<1>5. r = [q EXCEPT ![l] = t]
  BY <1>0
<1>6. /\ n \in Memories
      /\ \A k \in Lists :
           /\ n.first[k] = IF k = l THEN x ELSE m.first[k]
           /\ n.last[k] = IF k = l /\ m.first[l] = NULL THEN x ELSE m.last[k]
           /\ n.size[k] = IF k = l THEN m.size[l] + 1 ELSE m.size[k]
      /\ \A y \in Items : n.next[y] = IF y = x THEN m.first[l] ELSE m.next[y]
  BY <1>1, InsertHeadFields
<1>7. ASSUME NEW i \in 1 .. L + 1
      PROVE  n.next[t[i]] = IF i < L + 1 THEN t[i + 1] ELSE NULL
  <2>1. CASE i = 1
    BY <1>1, <1>4, <1>6, <2>1
  <2>2. CASE i # 1
    <3>1. i - 1 \in 1 .. L /\ t[i] = s[i - 1] /\ s[i - 1] # x
      BY <1>1, <1>2, <1>4, <2>2
    <3>2. n.next[t[i]] = IF i - 1 < L THEN s[i] ELSE NULL
      BY <1>1, <1>6, <3>1
    <3> QED
      BY <1>1, <1>4, <2>2, <3>2
  <2> QED
    BY <2>1, <2>2
<1>8. n.size[l] = L + 1 /\ n.first[l] = t[1] /\ n.last[l] = t[L + 1]
  BY <1>1, <1>4, <1>6
<1>9. Chain(n, l, t)
  <2>1. L + 1 = Len(t) /\ L + 1 # 0
    BY <1>1, <1>3
  <2> QED
    BY <1>3, <1>7, <1>8, <2>1, MakesChain
<1>10. Apart(m, n, l, Range(q[l]) \cup {x})
  BY <1>0, <1>1, <1>6 DEF Apart
<1>11. n \in Memories /\ t \in Seq(Items) /\ Range(t) \subseteq Range(q[l]) \cup {x}
  BY <1>0, <1>3, <1>6
<1> QED
  BY <1>5, <1>9, <1>10, <1>11, OthersKept

\* STAILQ_INSERT_AFTER, field by field.
LEMMA InsertAfterFields ==
    ASSUME NEW m \in Memories, NEW l \in Lists, NEW x \in Items, NEW pos \in Items,
           x # pos, NEW n, n = InsertAfter(m, l, pos, x)
    PROVE  /\ n \in Memories
           /\ \A k \in Lists :
                /\ n.first[k] = m.first[k]
                /\ n.last[k] = IF k = l /\ m.next[pos] = NULL THEN x ELSE m.last[k]
                /\ n.size[k] = IF k = l THEN m.size[l] + 1 ELSE m.size[k]
           /\ \A y \in Items : n.next[y] = IF y = pos THEN x
                                           ELSE IF y = x THEN m.next[pos] ELSE m.next[y]
<1> DEFINE f == m.first
           a == [m.last EXCEPT ![l] = IF m.next[pos] = NULL THEN x ELSE m.last[l]]
           z == [m.size EXCEPT ![l] = m.size[l] + 1]
           y == [m.next EXCEPT ![x] = m.next[pos], ![pos] = x]
<1>1. /\ f \in [Lists -> Items \cup {NULL}]
      /\ a \in [Lists -> Items \cup {First}]
      /\ z \in [Lists -> Int]
      /\ y \in [Items -> Items \cup {NULL}]
  BY Fields
<1>2. n = [m EXCEPT !.first = f, !.last = a, !.size = z, !.next = y]
  BY DEF InsertAfter, Resized, Memories
<1>3. n \in Memories /\ Fielded(n, f, a, z, y)
  <2> HIDE DEF f, a, z, y
  <2> QED
    BY <1>1, <1>2, Rewritten
<1>4. /\ \A k \in Lists :
           /\ f[k] = m.first[k]
           /\ a[k] = IF k = l /\ m.next[pos] = NULL THEN x ELSE m.last[k]
           /\ z[k] = IF k = l THEN m.size[l] + 1 ELSE m.size[k]
      /\ \A b \in Items : y[b] = IF b = pos THEN x
                                 ELSE IF b = x THEN m.next[pos] ELSE m.next[b]
  BY Fields
<1> HIDE DEF f, a, z, y
<1> QED
  BY <1>3, <1>4 DEF Fielded

\* STAILQ_INSERT_AFTER puts the item behind another one.
LEMMA InsertAfterInserts ==
    ASSUME NEW m, NEW q, Represents(m, q), NEW l \in Lists, NEW x \in Items,
           \A k \in Lists : x \notin Range(q[k]),
           NEW p \in 1 .. Len(q[l]),
           NEW n, n = InsertAfter(m, l, q[l][p], x),
           NEW r, r = [q EXCEPT ![l] = Inserted(q[l], p + 1, x)]
    PROVE  Represents(n, r)
<1>0. PICK s, L, t : s = q[l] /\ L = Len(s) /\ t = Inserted(s, p + 1, x)
  OBVIOUS
<1>1. /\ m \in Memories
      /\ s \in Seq(Items) /\ L \in Nat /\ s \in [1 .. L -> Items]
      /\ IsInjective(s)
      /\ (m.first[l] = NULL) <=> (L = 0)
      /\ L # 0 => m.first[l] = s[1] /\ m.last[l] = s[L]
      /\ m.size[l] = L
      /\ \A i \in 1 .. L : m.next[s[i]] = IF i < L THEN s[i + 1] ELSE NULL
      /\ \A i, j \in 1 .. L : s[i] = s[j] => i = j
      /\ \A i \in 1 .. L : s[i] \in Range(s) /\ s[i] \in Items
  BY <1>0, ChainFacts
<1>2. x \notin Range(s) /\ p + 1 \in 1 .. Len(s) + 1 /\ p \in 1 .. L
  BY <1>0, <1>1
<1>3. /\ t \in Seq(Items) /\ Len(t) = L + 1 /\ Range(t) = Range(s) \cup {x}
      /\ IsInjective(t)
  BY <1>0, <1>1, <1>2, InsertedFacts
<1>4. \A i \in 1 .. L + 1 : t[i] = IF i < p + 1 THEN s[i] ELSE IF i = p + 1 THEN x
                                   ELSE s[i - 1]
  BY <1>0, <1>1 DEF Inserted
<1>5. r = [q EXCEPT ![l] = t]
  BY <1>0
<1>6. PICK pos \in Items : pos = s[p] /\ pos # x
  BY <1>1, <1>2
<1>7. /\ n \in Memories
      /\ \A k \in Lists :
           /\ n.first[k] = m.first[k]
           /\ n.last[k] = IF k = l /\ m.next[pos] = NULL THEN x ELSE m.last[k]
           /\ n.size[k] = IF k = l THEN m.size[l] + 1 ELSE m.size[k]
      /\ \A y \in Items : n.next[y] = IF y = pos THEN x
                                      ELSE IF y = x THEN m.next[pos] ELSE m.next[y]
  <2>1. n = InsertAfter(m, l, pos, x)
    BY <1>0, <1>6
  <2>2. m \in Memories /\ pos \in Items /\ pos # x
    BY <1>1, <1>6
  <2> QED
    BY ONLY l \in Lists, x \in Items, <2>1, <2>2, InsertAfterFields
<1>8. m.next[pos] = IF p < L THEN s[p + 1] ELSE NULL
  BY <1>1, <1>2, <1>6
<1>9. ASSUME NEW i \in 1 .. L + 1
      PROVE  n.next[t[i]] = IF i < L + 1 THEN t[i + 1] ELSE NULL
  <2>1. CASE i < p
    <3>1. i \in 1 .. L /\ i + 1 \in 1 .. L /\ t[i] = s[i] /\ t[i + 1] = s[i + 1]
      BY <1>1, <1>2, <1>4, <2>1
    <3>2. s[i] # pos /\ s[i] # x
      BY <1>1, <1>2, <1>6, <2>1, <3>1
    <3> QED
      BY <1>1, <1>7, <3>1, <3>2
  <2>2. CASE i = p
    BY <1>1, <1>2, <1>4, <1>6, <1>7, <2>2
  <2>3. CASE i = p + 1
    <3>1. t[i] = x /\ n.next[x] = m.next[pos]
      BY <1>1, <1>2, <1>4, <1>6, <1>7, <2>3
    <3>2. i < L + 1 => t[i + 1] = s[p + 1]
      BY <1>1, <1>2, <1>4, <2>3
    <3> QED
      BY <1>1, <1>2, <1>8, <2>3, <3>1, <3>2
  <2>4. CASE i > p + 1
    <3>0. i - 1 \in 1 .. L /\ t[i] = s[i - 1]
      BY <1>1, <1>2, <1>4, <2>4
    <3>a. ASSUME i < L + 1
          PROVE  t[i + 1] = s[i]
      <4>1. i + 1 \in 1 .. L + 1 /\ ~ (i + 1 < p + 1) /\ i + 1 # p + 1 /\ (i + 1) - 1 = i
        BY <1>1, <1>2, <2>4, <3>a
      <4> QED
        BY <1>4, <4>1
    <3>1. i - 1 \in 1 .. L /\ t[i] = s[i - 1] /\ (i < L + 1 => t[i + 1] = s[i])
      BY <3>0, <3>a
    <3>2. s[i - 1] # pos /\ s[i - 1] # x
      BY <1>1, <1>2, <1>6, <2>4, <3>1
    <3> QED
      BY <1>1, <1>7, <3>1, <3>2
  <2> QED
    BY <1>1, <1>2, <2>1, <2>2, <2>3, <2>4
<1>10. n.size[l] = L + 1 /\ n.first[l] = t[1] /\ n.last[l] = t[L + 1]
  <2>1. n.first[l] = t[1]
    BY <1>1, <1>2, <1>4, <1>7
  <2>2. n.last[l] = t[L + 1]
    <3>1. CASE p < L
      <4>1. m.next[pos] # NULL
        BY <1>1, <1>2, <1>8, <3>1, StailqAssumption
      <4> QED
        BY <1>1, <1>2, <1>4, <1>7, <3>1, <4>1
    <3>2. CASE p = L
      BY <1>1, <1>2, <1>4, <1>7, <1>8, <3>2
    <3> QED
      BY <1>1, <1>2, <3>1, <3>2
  <2> QED
    BY <1>1, <1>7, <2>1, <2>2
<1>11. Chain(n, l, t)
  <2>1. L + 1 = Len(t) /\ L + 1 # 0
    BY <1>1, <1>3
  <2> QED
    BY <1>3, <1>9, <1>10, <2>1, MakesChain
<1>12. Apart(m, n, l, Range(q[l]) \cup {x})
  BY <1>0, <1>1, <1>2, <1>6, <1>7 DEF Apart
<1>13. n \in Memories /\ t \in Seq(Items) /\ Range(t) \subseteq Range(q[l]) \cup {x}
  BY <1>0, <1>3, <1>7
<1> QED
  BY <1>5, <1>11, <1>12, <1>13, OthersKept

\* No list holds NULL.
LEMMA NullInNone ==
    ASSUME NEW m, NEW q, Represents(m, q)
    PROVE  \A k \in Lists : NULL \notin Range(q[k]) /\ Range(q[k]) \subseteq Items
<1>1. ASSUME NEW k \in Lists
      PROVE  Range(q[k]) \subseteq Items
  <2>1. q[k] \in Seq(Items)
    BY DEF Represents
  <2> QED
    BY <2>1 DEF Range
<1> QED
  BY <1>1, StailqAssumption

\* STAILQ_REMOVE_HEAD, field by field.
LEMMA RemoveHeadFields ==
    ASSUME NEW m \in Memories, NEW l \in Lists, m.first[l] # NULL,
           NEW n, n = RemoveHead(m, l), NEW g, g = m.next[m.first[l]]
    PROVE  /\ n \in Memories
           /\ \A k \in Lists :
                /\ n.first[k] = IF k = l THEN g ELSE m.first[k]
                /\ n.last[k] = IF k = l /\ g = NULL THEN First ELSE m.last[k]
                /\ n.size[k] = IF k = l THEN m.size[l] - 1 ELSE m.size[k]
           /\ n.next = m.next
<1> DEFINE f == [m.first EXCEPT ![l] = g]
           a == [m.last EXCEPT ![l] = IF g = NULL THEN First ELSE m.last[l]]
           z == [m.size EXCEPT ![l] = m.size[l] - 1]
           y == m.next
<1>0. g \in Items \cup {NULL}
  BY Fields
<1>1. /\ f \in [Lists -> Items \cup {NULL}]
      /\ a \in [Lists -> Items \cup {First}]
      /\ z \in [Lists -> Int]
      /\ y \in [Items -> Items \cup {NULL}]
  BY <1>0, Fields
<1>2. n = [m EXCEPT !.first = f, !.last = a, !.size = z, !.next = y]
  <2>1. m.size[l] + (-1) = m.size[l] - 1
    BY Fields
  <2> QED
    BY <2>1 DEF RemoveHead, Resized, Memories
<1>3. n \in Memories /\ Fielded(n, f, a, z, y)
  <2> HIDE DEF f, a, z, y
  <2> QED
    BY <1>1, <1>2, Rewritten
<1>4. \A k \in Lists :
        /\ f[k] = IF k = l THEN g ELSE m.first[k]
        /\ a[k] = IF k = l /\ g = NULL THEN First ELSE m.last[k]
        /\ z[k] = IF k = l THEN m.size[l] - 1 ELSE m.size[k]
  BY Fields
<1> HIDE DEF f, a, z
<1> QED
  BY <1>3, <1>4 DEF Fielded

\* STAILQ_REMOVE_HEAD takes the first item.
LEMMA RemoveHeadShifts ==
    ASSUME NEW m, NEW q, Represents(m, q), NEW l \in Lists, m.first[l] # NULL,
           NEW n, n = RemoveHead(m, l),
           NEW r, r = [q EXCEPT ![l] = Removed(q[l], 1)]
    PROVE  Represents(n, r)
<1>0. PICK s, L, t : s = q[l] /\ L = Len(s) /\ t = Removed(s, 1)
  OBVIOUS
<1>1. /\ m \in Memories
      /\ s \in Seq(Items) /\ L \in Nat /\ s \in [1 .. L -> Items]
      /\ IsInjective(s)
      /\ L # 0 => m.first[l] = s[1] /\ m.last[l] = s[L]
      /\ m.size[l] = L
      /\ \A i \in 1 .. L : m.next[s[i]] = IF i < L THEN s[i + 1] ELSE NULL
      /\ \A i, j \in 1 .. L : s[i] = s[j] => i = j
      /\ \A i \in 1 .. L : s[i] \in Range(s) /\ s[i] \in Items
  BY <1>0, ChainFacts
<1>2. L # 0 /\ 1 \in 1 .. L
  BY <1>0, <1>1, ChainFacts
<1>3. t \in Seq(Items) /\ Len(t) = L - 1 /\ Range(t) \subseteq Range(s) /\ IsInjective(t)
  BY <1>0, <1>1, <1>2, RemovedFacts
<1>4. \A i \in 1 .. L - 1 : t[i] = s[i + 1]
  BY <1>0, <1>1 DEF Removed
<1>5. r = [q EXCEPT ![l] = t]
  BY <1>0
<1>6. PICK g : g = m.next[m.first[l]] /\ g = IF 1 < L THEN s[2] ELSE NULL
  BY <1>1, <1>2
<1>7. m.first[l] = s[1] /\ m.first[l] # NULL
  BY <1>1, <1>2, StailqAssumption
<1>8. /\ n \in Memories
      /\ \A k \in Lists :
           /\ n.first[k] = IF k = l THEN g ELSE m.first[k]
           /\ n.last[k] = IF k = l /\ g = NULL THEN First ELSE m.last[k]
           /\ n.size[k] = IF k = l THEN m.size[l] - 1 ELSE m.size[k]
      /\ n.next = m.next
  <2>1. m \in Memories /\ g = m.next[m.first[l]] /\ m.first[l] # NULL
    BY <1>1, <1>6, <1>7
  <2> QED
    BY ONLY <2>1, RemoveHeadFields, n = RemoveHead(m, l), l \in Lists
<1>9. ASSUME NEW i \in 1 .. L - 1
      PROVE  n.next[t[i]] = IF i < L - 1 THEN t[i + 1] ELSE NULL
  <2>1. i + 1 \in 1 .. L /\ t[i] = s[i + 1]
    BY <1>1, <1>4
  <2>2. n.next[t[i]] = IF i + 1 < L THEN s[(i + 1) + 1] ELSE NULL
    BY <1>1, <1>8, <2>1
  <2>3. i < L - 1 => t[i + 1] = s[(i + 1) + 1]
    BY <1>1, <1>4
  <2> QED
    BY <1>1, <2>2, <2>3
<1>10. /\ n.size[l] = L - 1
       /\ L - 1 = 0 => n.first[l] = NULL /\ n.last[l] = First
       /\ L - 1 # 0 => n.first[l] = t[1] /\ n.last[l] = t[L - 1]
  <2>1. CASE L = 1
    BY <1>1, <1>6, <1>8, <2>1
  <2>2. CASE L # 1
    <3>1. g = s[2] /\ s[2] # NULL /\ t[1] = s[2] /\ t[L - 1] = s[L]
      BY <1>1, <1>2, <1>4, <1>6, <2>2, StailqAssumption
    <3> QED
      BY <1>1, <1>2, <1>8, <2>2, <3>1
  <2> QED
    BY <2>1, <2>2
<1>11. Chain(n, l, t)
  <2>1. L - 1 = Len(t)
    BY <1>3
  <2> QED
    BY <1>3, <1>9, <1>10, <2>1, MakesChain
<1>12. Apart(m, n, l, Range(q[l]) \cup {NULL})
  BY <1>8 DEF Apart
<1>13. n \in Memories /\ t \in Seq(Items) /\ Range(t) \subseteq Range(q[l]) \cup {NULL}
  BY <1>0, <1>3, <1>8
<1>14. \A k \in Lists : NULL \notin Range(q[k])
  BY NullInNone
<1> QED
  BY ONLY Represents(m, q), l \in Lists, <1>5, <1>11, <1>12, <1>13, <1>14, OthersKept

\* The item the loop of STAILQ_REMOVE stops at.
Before(m, l, x) == CHOOSE y \in Members(m, l) : m.next[y] = x

\* STAILQ_REMOVE past the head, field by field; p is the item before x.
LEMMA RemoveFields ==
    ASSUME NEW m \in Memories, NEW l \in Lists, NEW x \in Items, m.first[l] # x,
           NEW p \in Items, p = Before(m, l, x),
           NEW n, n = Remove(m, l, x), NEW g, g = m.next[x]
    PROVE  /\ n \in Memories
           /\ \A k \in Lists :
                /\ n.first[k] = m.first[k]
                /\ n.last[k] = IF k = l /\ g = NULL THEN p ELSE m.last[k]
                /\ n.size[k] = IF k = l THEN m.size[l] - 1 ELSE m.size[k]
           /\ \A y \in Items : n.next[y] = IF y = p THEN g ELSE m.next[y]
<1> DEFINE f == m.first
           a == [m.last EXCEPT ![l] = IF g = NULL THEN p ELSE m.last[l]]
           z == [m.size EXCEPT ![l] = m.size[l] - 1]
           y == [m.next EXCEPT ![p] = g]
<1>0. g \in Items \cup {NULL}
  BY Fields
<1>1. /\ f \in [Lists -> Items \cup {NULL}]
      /\ a \in [Lists -> Items \cup {First}]
      /\ z \in [Lists -> Int]
      /\ y \in [Items -> Items \cup {NULL}]
  BY <1>0, Fields
<1>2. n = [m EXCEPT !.first = f, !.last = a, !.size = z, !.next = y]
  <2>1. m.size[l] + (-1) = m.size[l] - 1
    BY Fields
  <2>2. n = Resized([[m EXCEPT !.next[p] = m.next[x]] EXCEPT
                       !.last[l] = IF m.next[x] = NULL THEN p ELSE @], l, -1)
    BY DEF Remove, Before
  <2> QED
    BY <2>1, <2>2 DEF Resized, Memories
<1>3. n \in Memories /\ Fielded(n, f, a, z, y)
  <2> HIDE DEF f, a, z, y
  <2> QED
    BY <1>1, <1>2, Rewritten
<1>4. /\ \A k \in Lists :
           /\ f[k] = m.first[k]
           /\ a[k] = IF k = l /\ g = NULL THEN p ELSE m.last[k]
           /\ z[k] = IF k = l THEN m.size[l] - 1 ELSE m.size[k]
      /\ \A b \in Items : y[b] = IF b = p THEN g ELSE m.next[b]
  BY Fields
<1> HIDE DEF f, a, z, y
<1> QED
  BY <1>3, <1>4 DEF Fielded

\* STAILQ_REMOVE takes out any item of the list.
LEMMA RemoveDeletes ==
    ASSUME NEW m, NEW q, Represents(m, q), NEW l \in Lists, NEW p \in 1 .. Len(q[l]),
           NEW n, n = Remove(m, l, q[l][p]),
           NEW r, r = [q EXCEPT ![l] = Removed(q[l], p)]
    PROVE  Represents(n, r)
<1>0. PICK s, L, t : s = q[l] /\ L = Len(s) /\ t = Removed(s, p)
  OBVIOUS
<1>1. /\ m \in Memories
      /\ s \in Seq(Items) /\ L \in Nat /\ s \in [1 .. L -> Items]
      /\ IsInjective(s)
      /\ L # 0 => m.first[l] = s[1] /\ m.last[l] = s[L]
      /\ m.size[l] = L
      /\ \A i \in 1 .. L : m.next[s[i]] = IF i < L THEN s[i + 1] ELSE NULL
      /\ \A i, j \in 1 .. L : s[i] = s[j] => i = j
      /\ \A i \in 1 .. L : s[i] \in Range(s) /\ s[i] \in Items
  BY <1>0, ChainFacts
<1>2. p \in 1 .. L /\ L # 0 /\ q[l] # <<>>
  BY <1>0, <1>1
<1>3. CASE p = 1
  <2>1. n = RemoveHead(m, l)
    BY <1>0, <1>1, <1>2, <1>3 DEF Remove
  <2> QED
    <3>1. m.first[l] # NULL /\ r = [q EXCEPT ![l] = Removed(q[l], 1)]
      BY <1>1, <1>2, <1>3, StailqAssumption
    <3> QED
      BY ONLY Represents(m, q), l \in Lists, <2>1, <3>1, RemoveHeadShifts
<1>4. CASE p # 1
  <2>1. t \in Seq(Items) /\ Len(t) = L - 1 /\ Range(t) \subseteq Range(s) /\ IsInjective(t)
    <3>1. s \in Seq(Items) /\ p \in 1 .. Len(s) /\ IsInjective(s)
      BY <1>0, <1>1, <1>2
    <3> QED
      BY <1>0, <3>1, RemovedFacts
  <2>2. \A i \in 1 .. L - 1 : t[i] = IF i < p THEN s[i] ELSE s[i + 1]
    BY <1>0, <1>1 DEF Removed
  <2>3. r = [q EXCEPT ![l] = t]
    BY <1>0
  <2>4. PICK x, o, g : /\ x \in Items /\ x = s[p]
                        /\ o \in Items /\ o = s[p - 1] /\ g = m.next[x]
    BY <1>1, <1>2, <1>4
  <2>5. g = IF p < L THEN s[p + 1] ELSE NULL
    BY <1>1, <1>2, <2>4
  <2>6. m.first[l] # x
    BY <1>1, <1>2, <1>4, <2>4
  <2>7. o = Before(m, l, x)
    <3>1. Members(m, l) = {s[i] : i \in 1 .. L}
      <4>1. Walk(m, l) = s
        BY <1>0, <1>1, WalkReads DEF Represents
      <4> QED
        BY <1>1, <4>1 DEF Members
    <3>2. o \in Members(m, l) /\ m.next[o] = x
      BY <1>1, <1>2, <1>4, <2>4, <3>1
    <3>3. ASSUME NEW y \in Members(m, l), m.next[y] = x
          PROVE  y = o
      <4>1. PICK i \in 1 .. L : y = s[i]
        BY <3>1
      <4>2. i < L /\ s[i + 1] = s[p]
        BY <1>1, <1>2, <2>4, <3>3, <4>1, StailqAssumption
      <4>3. i + 1 = p
        BY <1>1, <1>2, <4>2
      <4> QED
        BY <1>1, <1>2, <2>4, <4>1, <4>3
    <3> QED
      BY <3>2, <3>3 DEF Before
  <2>8. n = Remove(m, l, x)
    BY <1>0, <2>4
  <2>9. /\ n \in Memories
        /\ \A k \in Lists :
             /\ n.first[k] = m.first[k]
             /\ n.last[k] = IF k = l /\ g = NULL THEN o ELSE m.last[k]
             /\ n.size[k] = IF k = l THEN m.size[l] - 1 ELSE m.size[k]
        /\ \A y \in Items : n.next[y] = IF y = o THEN g ELSE m.next[y]
    <3>1. m \in Memories /\ g = m.next[x] /\ x \in Items /\ o \in Items
      BY <1>1, <2>4
    <3> QED
      BY ONLY <2>6, <2>7, <2>8, <3>1, RemoveFields, l \in Lists
  <2>10. ASSUME NEW i \in 1 .. L - 1
         PROVE  n.next[t[i]] = IF i < L - 1 THEN t[i + 1] ELSE NULL
    <3>1. CASE i < p - 1
      <4>1. i \in 1 .. L /\ i + 1 < p /\ i + 1 \in 1 .. L - 1 /\ i < L
        BY <1>1, <1>2, <3>1
      <4>2. t[i] = s[i] /\ t[i + 1] = s[i + 1] /\ s[i] # o
        BY <1>1, <1>2, <1>4, <2>2, <2>4, <3>1, <4>1
      <4> QED
        BY <1>1, <2>9, <4>1, <4>2
    <3>2. CASE i = p - 1
      <4>1. t[i] = o /\ n.next[o] = g
        BY <1>1, <1>2, <1>4, <2>2, <2>4, <2>9, <3>2
      <4>2. i < L - 1 => t[i + 1] = s[p + 1] /\ p < L
        BY <1>1, <1>2, <2>2, <3>2
      <4> QED
        BY <1>1, <1>2, <2>5, <3>2, <4>1, <4>2
    <3>3. CASE i > p - 1
      <4>1. i + 1 \in 1 .. L /\ t[i] = s[i + 1]
        BY <1>1, <1>2, <2>2, <3>3
      <4>2. s[i + 1] # o
        BY <1>1, <1>2, <1>4, <2>4, <3>3, <4>1
      <4>3. n.next[t[i]] = IF i + 1 < L THEN s[(i + 1) + 1] ELSE NULL
        BY <1>1, <2>9, <4>1, <4>2
      <4>4. ASSUME i < L - 1
            PROVE  t[i + 1] = s[(i + 1) + 1]
        <5>1. i + 1 \in 1 .. L - 1 /\ ~ (i + 1 < p)
          BY <1>1, <1>2, <3>3, <4>4
        <5> QED
          BY <2>2, <5>1
      <4> QED
        BY <1>1, <4>3, <4>4
    <3> QED
      BY <1>1, <1>2, <3>1, <3>2, <3>3
  <2>11. /\ n.size[l] = L - 1 /\ L - 1 # 0
         /\ n.first[l] = t[1] /\ n.last[l] = t[L - 1]
    <3>1. n.size[l] = L - 1 /\ L - 1 # 0 /\ n.first[l] = t[1]
      BY <1>1, <1>2, <1>4, <2>2, <2>9
    <3>2. CASE p = L
      BY <1>1, <1>2, <1>4, <2>2, <2>4, <2>5, <2>9, <3>2
    <3>3. CASE p < L
      <4>1. g # NULL
        BY <1>1, <1>2, <2>5, <3>3, StailqAssumption
      <4> QED
        BY <1>1, <1>2, <1>4, <2>2, <2>9, <3>1, <3>3, <4>1
    <3> QED
      BY <1>1, <1>2, <3>1, <3>2, <3>3
  <2>12. Chain(n, l, t)
    <3>1. L - 1 = Len(t)
      BY <2>1
    <3> QED
      BY <2>1, <2>10, <2>11, <3>1, MakesChain
  <2>13. Apart(m, n, l, Range(q[l]) \cup {NULL})
    <3>1. o \in Range(q[l])
      <4>1. p - 1 \in 1 .. L
        BY <1>1, <1>2, <1>4
      <4> QED
        BY <1>0, <1>1, <2>4, <4>1
    <3> QED
      BY <2>9, <3>1 DEF Apart
  <2>14. n \in Memories /\ t \in Seq(Items) /\ Range(t) \subseteq Range(q[l]) \cup {NULL}
    BY <1>0, <2>1, <2>9
  <2> QED
    BY <2>3, <2>12, <2>13, <2>14, NullInNone, OthersKept
<1> QED
  BY <1>3, <1>4

\* list_clear empties the list.
LEMMA ClearEmpties ==
    ASSUME NEW m, NEW q, Represents(m, q), NEW l \in Lists,
           NEW n, n = Clear(m, l), NEW r, r = [q EXCEPT ![l] = <<>>]
    PROVE  Represents(n, r)
<1> DEFINE f == [m.first EXCEPT ![l] = NULL]
           a == [m.last EXCEPT ![l] = First]
           z == [m.size EXCEPT ![l] = 0]
           y == m.next
<1>0. m \in Memories
  BY DEF Represents
<1>1. /\ f \in [Lists -> Items \cup {NULL}]
      /\ a \in [Lists -> Items \cup {First}]
      /\ z \in [Lists -> Int]
      /\ y \in [Items -> Items \cup {NULL}]
  BY <1>0, Fields
<1>2. n = [m EXCEPT !.first = f, !.last = a, !.size = z, !.next = y]
  BY <1>0 DEF Clear, Memories
<1>3. n \in Memories /\ Fielded(n, f, a, z, y)
  <2> HIDE DEF f, a, z, y
  <2> QED
    BY <1>0, <1>1, <1>2, Rewritten
<1>4. /\ \A k \in Lists :
           /\ n.first[k] = IF k = l THEN NULL ELSE m.first[k]
           /\ n.last[k] = IF k = l THEN First ELSE m.last[k]
           /\ n.size[k] = IF k = l THEN 0 ELSE m.size[k]
      /\ n.next = m.next
  <2>1. \A k \in Lists :
          /\ f[k] = IF k = l THEN NULL ELSE m.first[k]
          /\ a[k] = IF k = l THEN First ELSE m.last[k]
          /\ z[k] = IF k = l THEN 0 ELSE m.size[k]
    BY <1>0, Fields
  <2> HIDE DEF f, a, z
  <2> QED
    BY <1>3, <2>1 DEF Fielded
<1> HIDE DEF f, a, z, y
<1>5. <<>> \in Seq(Items) /\ Len(<<>>) = 0 /\ IsInjective(<<>>) /\ Range(<<>>) = {}
  BY DEF IsInjective, Range
<1>6. Chain(n, l, <<>>)
  BY <1>4, <1>5 DEF Chain
<1>7. Apart(m, n, l, Range(q[l]) \cup {NULL})
  BY <1>4 DEF Apart
<1>8. Range(<<>>) \subseteq Range(q[l]) \cup {NULL}
  BY <1>5
<1> QED
  BY <1>3, <1>5, <1>6, <1>7, <1>8, NullInNone, OthersKept

\* STAILQ_CONCAT and the STAILQ_INIT of the second list, field by field.
LEMMA ConcatFields ==
    ASSUME NEW m \in Memories, NEW l \in Lists, NEW k \in Lists, l # k,
           m.first[k] # NULL, NEW n, n = Concat(m, l, k)
    PROVE  /\ n \in Memories
           /\ \A j \in Lists :
                /\ n.first[j] = IF j = k THEN NULL
                                ELSE IF j = l /\ m.last[l] = First THEN m.first[k]
                                ELSE m.first[j]
                /\ n.last[j] = IF j = k THEN First ELSE IF j = l THEN m.last[k]
                               ELSE m.last[j]
                /\ n.size[j] = IF j = k THEN 0 ELSE IF j = l THEN m.size[l] + m.size[k]
                               ELSE m.size[j]
           /\ \A y \in Items : n.next[y] = IF y = m.last[l] THEN m.first[k] ELSE m.next[y]
<1> DEFINE w == SetLast(m, l, m.first[k])
           g == IF m.last[l] = First THEN [m.first EXCEPT ![l] = m.first[k]] ELSE m.first
           y == IF m.last[l] = First THEN m.next ELSE [m.next EXCEPT ![m.last[l]] = m.first[k]]
           f == [g EXCEPT ![k] = NULL]
           a == [m.last EXCEPT ![l] = m.last[k], ![k] = First]
           z == [m.size EXCEPT ![l] = m.size[l] + m.size[k], ![k] = 0]
<1>1. /\ f \in [Lists -> Items \cup {NULL}]
      /\ g \in [Lists -> Items \cup {NULL}]
      /\ a \in [Lists -> Items \cup {First}]
      /\ z \in [Lists -> Int]
      /\ y \in [Items -> Items \cup {NULL}]
  BY Fields
<1>2. w \in Memories /\ Fielded(w, g, m.last, m.size, y)
  <2>1. PICK b, c : b = m.last /\ c = m.size
    OBVIOUS
  <2>2. w = [m EXCEPT !.first = g, !.last = b, !.size = c, !.next = y]
    BY <2>1 DEF SetLast, Memories
  <2>3. b \in [Lists -> Items \cup {First}] /\ c \in [Lists -> Int]
    BY <2>1, Fields
  <2>4. w \in Memories /\ Fielded(w, g, b, c, y)
    <3> HIDE DEF w, g, y
    <3> QED
      BY ONLY m \in Memories, <1>1, <2>2, <2>3, Rewritten
  <2> QED
    BY ONLY <2>1, <2>4
<1>3. n \in Memories /\ Fielded(n, f, a, z, y)
  <2>1. n = [first |-> [w.first EXCEPT ![k] = NULL],
             last  |-> [w.last EXCEPT ![l] = m.last[k], ![k] = First],
             size  |-> [w.size EXCEPT ![l] = @ + m.size[k], ![k] = 0],
             next  |-> w.next]
    BY DEF Concat
  <2>2. w.first = g /\ w.last = m.last /\ w.size = m.size /\ w.next = y
    BY ONLY <1>2 DEF Fielded
  <2>3. n = [first |-> f, last |-> a, size |-> z, next |-> y]
    <3> HIDE DEF w, g, y
    <3> QED
      BY ONLY <2>1, <2>2 DEF f, a, z
  <2> HIDE DEF f, a, z, y
  <2> QED
    BY ONLY <1>1, <2>3 DEF Fielded, Memories
<1>4. /\ \A j \in Lists :
           /\ f[j] = IF j = k THEN NULL
                     ELSE IF j = l /\ m.last[l] = First THEN m.first[k]
                     ELSE m.first[j]
           /\ a[j] = IF j = k THEN First ELSE IF j = l THEN m.last[k] ELSE m.last[j]
           /\ z[j] = IF j = k THEN 0 ELSE IF j = l THEN m.size[l] + m.size[k]
                     ELSE m.size[j]
      /\ \A b \in Items : y[b] = IF b = m.last[l] THEN m.first[k] ELSE m.next[b]
  BY Fields, StailqAssumption
<1> HIDE DEF f, a, z, y
<1> QED
  BY <1>3, <1>4 DEF Fielded

\* Sequence t is s and u, which are L and M long and share nothing, in a row.
InARow(t, s, L, u, M) ==
    /\ s \in Seq(Items) /\ L = Len(s) /\ u \in Seq(Items) /\ M = Len(u)
    /\ IsInjective(s) /\ IsInjective(u)
    /\ Range(s) \cap Range(u) = {}
    /\ t = s \o u

\* Joining two sequences that share nothing.
LEMMA JoinFacts ==
    ASSUME NEW t, NEW s, NEW L, NEW u, NEW M, InARow(t, s, L, u, M)
    PROVE  /\ t \in Seq(Items) /\ L \in Nat /\ M \in Nat /\ Len(t) = L + M
           /\ \A i \in 1 .. L + M : t[i] = IF i <= L THEN s[i] ELSE u[i - L]
           /\ IsInjective(t)
           /\ Range(t) = Range(s) \cup Range(u)
<1>0. /\ s \in Seq(Items) /\ L = Len(s) /\ u \in Seq(Items) /\ M = Len(u)
      /\ IsInjective(s) /\ IsInjective(u)
      /\ Range(s) \cap Range(u) = {}
      /\ t = s \o u
  BY DEF InARow
<1>1. /\ t \in Seq(Items) /\ L \in Nat /\ M \in Nat /\ Len(t) = L + M
      /\ s \in [1 .. L -> Items] /\ u \in [1 .. M -> Items] /\ t \in [1 .. L + M -> Items]
      /\ \A i \in 1 .. L + M : t[i] = IF i <= L THEN s[i] ELSE u[i - L]
  <2>1. L \in Nat /\ M \in Nat /\ s \in [1 .. L -> Items] /\ u \in [1 .. M -> Items]
    BY <1>0
  <2>2. t \in Seq(Items) /\ Len(t) = L + M
    BY <1>0
  <2>3. t \in [1 .. L + M -> Items]
    BY ONLY <2>2
  <2>4. \A i \in 1 .. Len(s) + Len(u) : (s \o u)[i] = IF i <= Len(s) THEN s[i] ELSE u[i - Len(s)]
    BY <1>0
  <2> QED
    BY <1>0, <2>1, <2>2, <2>3, <2>4
<1>2. /\ \A i \in 1 .. L : s[i] \in Range(s)
      /\ \A i \in 1 .. M : u[i] \in Range(u)
      /\ \A i, j \in 1 .. L : s[i] = s[j] => i = j
      /\ \A i, j \in 1 .. M : u[i] = u[j] => i = j
  BY <1>0, <1>1 DEF Range, IsInjective
<1>3. IsInjective(t)
  <2>1. ASSUME NEW i \in 1 .. L + M, NEW j \in 1 .. L + M, i < j
        PROVE  t[i] # t[j]
    <3>1. CASE j <= L
      BY <1>1, <1>2, <2>1, <3>1
    <3>2. CASE i > L
      <4>1. i - L \in 1 .. M /\ j - L \in 1 .. M /\ i - L # j - L
        BY <1>1, <2>1, <3>2
      <4> QED
        BY <1>1, <1>2, <2>1, <3>2, <4>1
    <3>3. CASE i <= L /\ j > L
      <4>1. i \in 1 .. L /\ j - L \in 1 .. M
        BY <1>1, <3>3
      <4>2. t[i] \in Range(s) /\ t[j] \in Range(u)
        BY <1>1, <1>2, <3>3, <4>1
      <4> QED
        BY <1>0, <4>2
    <3> QED
      BY <1>1, <3>1, <3>2, <3>3
  <2> QED
    BY <1>1, <2>1 DEF IsInjective
<1>4. Range(t) = Range(s) \cup Range(u)
  <2>1. ASSUME NEW i \in 1 .. L + M
        PROVE  t[i] \in Range(s) \cup Range(u)
    <3>1. CASE i <= L
      BY <1>1, <1>2, <3>1
    <3>2. CASE i > L
      <4>1. i - L \in 1 .. M
        BY <1>1, <3>2
      <4> QED
        BY <1>1, <1>2, <3>2, <4>1
    <3> QED
      BY <1>1, <3>1, <3>2
  <2>2. ASSUME NEW i \in 1 .. L
        PROVE  s[i] \in Range(t)
    <3>1. i \in 1 .. L + M /\ t[i] = s[i]
      BY <1>1
    <3> QED
      BY <1>1, <3>1 DEF Range
  <2>3. ASSUME NEW i \in 1 .. M
        PROVE  u[i] \in Range(t)
    <3>1. L + i \in 1 .. L + M /\ ~ (L + i <= L) /\ (L + i) - L = i
      BY <1>1
    <3>2. t[L + i] = u[i]
      BY <1>1, <3>1
    <3> QED
      BY <1>1, <3>1, <3>2 DEF Range
  <2>4. Range(t) \subseteq Range(s) \cup Range(u)
    BY ONLY <1>1, <2>1 DEF Range
  <2>5. Range(s) \subseteq Range(t)
    BY ONLY <1>1, <2>2 DEF Range
  <2>6. Range(u) \subseteq Range(t)
    BY ONLY <1>1, <2>3 DEF Range
  <2> QED
    BY ONLY <2>4, <2>5, <2>6
<1> QED
  BY <1>1, <1>3, <1>4

\* list_cat moves the items of the second list behind those of the first.
LEMMA ConcatJoins ==
    ASSUME NEW m, NEW q, Represents(m, q), NEW l \in Lists, NEW k \in Lists, l # k,
           NEW n, n = Concat(m, l, k),
           NEW r, r = [q EXCEPT ![l] = q[l] \o q[k], ![k] = <<>>]
    PROVE  Represents(n, r)
<1>0. PICK s, L, u, M, t :
        s = q[l] /\ L = Len(s) /\ u = q[k] /\ M = Len(u) /\ t = s \o u
  OBVIOUS
<1>1. /\ m \in Memories
      /\ s \in Seq(Items) /\ L \in Nat /\ s \in [1 .. L -> Items]
      /\ IsInjective(s)
      /\ (m.first[l] = NULL) <=> (L = 0)
      /\ (m.last[l] = First) <=> (L = 0)
      /\ L # 0 => m.first[l] = s[1] /\ m.last[l] = s[L]
      /\ m.size[l] = L
      /\ \A i \in 1 .. L : m.next[s[i]] = IF i < L THEN s[i + 1] ELSE NULL
      /\ \A i, j \in 1 .. L : s[i] = s[j] => i = j
      /\ \A i \in 1 .. L : s[i] \in Range(s) /\ s[i] \in Items
  BY <1>0, ChainFacts
<1>2. /\ u \in Seq(Items) /\ M \in Nat /\ u \in [1 .. M -> Items]
      /\ IsInjective(u)
      /\ (u = <<>>) <=> (M = 0)
      /\ (m.first[k] = NULL) <=> (M = 0)
      /\ M # 0 => m.first[k] = u[1] /\ m.last[k] = u[M]
      /\ m.size[k] = M
      /\ \A i \in 1 .. M : m.next[u[i]] = IF i < M THEN u[i + 1] ELSE NULL
      /\ \A i \in 1 .. M : u[i] \in Range(u) /\ u[i] \in Items
  BY <1>0, ChainFacts
<1>3. q \in [Lists -> Seq(Items)] /\ Range(s) \cap Range(u) = {}
  BY <1>0 DEF Represents
<1>4. /\ t \in Seq(Items) /\ Len(t) = L + M
      /\ \A i \in 1 .. L + M : t[i] = IF i <= L THEN s[i] ELSE u[i - L]
      /\ IsInjective(t)
      /\ Range(t) = Range(s) \cup Range(u)
  <2>1. InARow(t, s, L, u, M)
    BY ONLY <1>0, <1>1, <1>2, <1>3 DEF InARow
  <2> QED
    BY ONLY <2>1, JoinFacts
<1>5. <<>> \in Seq(Items) /\ Len(<<>>) = 0 /\ IsInjective(<<>>) /\ Range(<<>>) = {}
  BY DEF IsInjective, Range
<1>6. /\ r \in [Lists -> Seq(Items)] /\ r[l] = t /\ r[k] = <<>>
      /\ \A j \in Lists \ {l, k} : r[j] = q[j]
  BY <1>0, <1>3, <1>4, <1>5
<1>7. CASE M = 0
  <2>1. n = m /\ u = <<>>
    BY <1>2, <1>7 DEF Concat
  <2>2. t = s
    BY <1>0, <1>1, <2>1
  <2>3. r = q
    BY <1>0, <1>3, <1>6, <2>1, <2>2
  <2> QED
    BY <2>1, <2>3
<1>8. CASE M # 0
  <2>1. /\ n \in Memories
        /\ \A j \in Lists :
             /\ n.first[j] = IF j = k THEN NULL
                             ELSE IF j = l /\ m.last[l] = First THEN m.first[k]
                             ELSE m.first[j]
             /\ n.last[j] = IF j = k THEN First ELSE IF j = l THEN m.last[k]
                            ELSE m.last[j]
             /\ n.size[j] = IF j = k THEN 0 ELSE IF j = l THEN m.size[l] + m.size[k]
                            ELSE m.size[j]
        /\ \A y \in Items : n.next[y] = IF y = m.last[l] THEN m.first[k] ELSE m.next[y]
    <3>1. m \in Memories /\ m.first[k] # NULL
      BY <1>1, <1>2, <1>8
    <3> QED
      BY ONLY <3>1, ConcatFields, n = Concat(m, l, k), l \in Lists, k \in Lists, l # k
  <2>2. Chain(n, k, <<>>)
    BY <1>5, <2>1 DEF Chain
  <2>3. ASSUME NEW i \in 1 .. L + M
        PROVE  n.next[t[i]] = IF i < L + M THEN t[i + 1] ELSE NULL
    <3>1. CASE i < L
      <4>1. i \in 1 .. L /\ L \in 1 .. L /\ i + 1 \in 1 .. L + M /\ i < L + M /\ L # 0
        BY <1>1, <1>2, <3>1
      <4>2. t[i] = s[i] /\ t[i + 1] = s[i + 1] /\ s[i] # s[L]
        BY <1>1, <1>4, <3>1, <4>1
      <4> QED
        BY <1>1, <2>1, <3>1, <4>1, <4>2
    <3>2. CASE i = L
      <4>1. i + 1 \in 1 .. L + M /\ ~ (i + 1 <= L) /\ (i + 1) - L = 1 /\ i < L + M /\ L # 0
        BY <1>1, <1>2, <1>8, <3>2
      <4>2. t[i] = s[L] /\ t[i + 1] = u[1] /\ m.first[k] = u[1]
        BY <1>2, <1>4, <1>8, <3>2, <4>1
      <4> QED
        BY <1>1, <2>1, <3>2, <4>1, <4>2
    <3>3. CASE i > L
      <4>1. PICK j \in 1 .. M : j = i - L /\ t[i] = u[j]
        BY <1>1, <1>2, <1>4, <3>3
      <4>2. u[j] # m.last[l]
        <5>1. CASE L = 0
          BY <1>1, <1>2, <5>1, StailqAssumption
        <5>2. CASE L # 0
          BY <1>1, <1>2, <1>3, <5>2
        <5> QED
          BY <5>1, <5>2
      <4>3. n.next[t[i]] = IF j < M THEN u[j + 1] ELSE NULL
        BY <1>2, <2>1, <4>1, <4>2
      <4>4. ASSUME i < L + M
            PROVE  t[i + 1] = u[j + 1]
        <5>1. i + 1 \in 1 .. L + M /\ ~ (i + 1 <= L) /\ (i + 1) - L = j + 1
          BY <1>1, <1>2, <3>3, <4>1, <4>4
        <5> QED
          BY <1>4, <5>1
      <4>5. (j < M) <=> (i < L + M)
        BY <1>1, <1>2, <4>1
      <4> QED
        BY <4>3, <4>4, <4>5
    <3> QED
      BY <1>1, <3>1, <3>2, <3>3
  <2>4. /\ n.size[l] = L + M /\ L + M # 0
        /\ n.first[l] = t[1] /\ n.last[l] = t[L + M]
    <3>1. n.size[l] = L + M /\ L + M # 0
      BY <1>1, <1>2, <1>8, <2>1
    <3>2. n.first[l] = t[1]
      <4>1. CASE L = 0
        BY <1>1, <1>2, <1>4, <1>8, <2>1, <4>1
      <4>2. CASE L # 0
        BY <1>1, <1>2, <1>4, <1>8, <2>1, <4>2
      <4> QED
        BY <4>1, <4>2
    <3>3. n.last[l] = t[L + M]
      <4>1. L + M \in 1 .. L + M /\ ~ (L + M <= L) /\ (L + M) - L = M
        BY <1>1, <1>2, <1>8
      <4> QED
        BY <1>2, <1>4, <1>8, <2>1, <4>1
    <3> QED
      BY <3>1, <3>2, <3>3
  <2>5. Chain(n, l, t)
    BY <1>4, <2>3, <2>4, MakesChain
  <2>6. ASSUME NEW j \in Lists \ {l, k}
        PROVE  Chain(n, j, q[j])
    <3>1. /\ Chain(m, j, q[j]) /\ q[j] \in Seq(Items)
          /\ Range(q[j]) \cap Range(s) = {}
      BY <1>0 DEF Represents
    <3>2. \A i \in 1 .. Len(q[j]) : q[j][i] \in Range(q[j]) /\ q[j][i] \in Items
      BY <3>1 DEF Range
    <3>3. m.last[l] \in Range(s) \cup {First}
      BY <1>1
    <3>4. \A i \in 1 .. Len(q[j]) : n.next[q[j][i]] = m.next[q[j][i]]
      BY <2>1, <3>1, <3>2, <3>3, StailqAssumption
    <3>5. n.first[j] = m.first[j] /\ n.last[j] = m.last[j] /\ n.size[j] = m.size[j]
      BY <2>1
    <3> QED
      BY <3>1, <3>4, <3>5 DEF Chain
  <2>7. \A j \in Lists : Chain(n, j, r[j])
    BY <1>6, <2>2, <2>5, <2>6
  <2>8. ASSUME NEW i \in Lists, NEW j \in Lists, i # j
        PROVE  Range(r[i]) \cap Range(r[j]) = {}
    <3>1. \A h \in Lists \ {l, k} : Range(q[h]) \cap Range(t) = {}
      BY <1>0, <1>4 DEF Represents
    <3> QED
      BY <1>5, <1>6, <2>8, <3>1 DEF Represents
  <2> QED
    BY <1>6, <2>1, <2>7, <2>8 DEF Represents
<1> QED
  BY <1>7, <1>8

=============================================================================

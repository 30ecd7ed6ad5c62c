----------------------------- MODULE Arrays_proofs -----------------------------
(* What the operations on arrays do, for arrays of every length: the members of *)
(* a finite set are put in order, each once, so that counts over a listing are  *)
(* cardinalities; and sums are what their recursion says.                      *)
EXTENDS Arrays, FiniteSetTheorems, SequenceTheorems, WellFoundedInduction, TLAPS

------------------------------------------------------------------------------
(* Induction                                                                 *)

LEMMA LessIsWellFounded == IsWellFoundedOn({p \in Nat \X Nat : p[1] < p[2]}, Nat)
  BY NatLessThanWellFounded, Zenon DEF OpToRel

\* A set of naturals has a least member.
LEMMA Least ==
    ASSUME NEW S \in SUBSET Nat, S # {}
    PROVE  \E n \in S : \A m \in S : n <= m
<1> DEFINE less == {p \in Nat \X Nat : p[1] < p[2]}
<1>1. \A x, y \in S : <<y, x>> \notin less => x <= y
  OBVIOUS
<1>2. \E x \in S : \A y \in S : ~(<<y, x>> \in less)
  <2> HIDE DEF less
  <2> QED
    BY LessIsWellFounded, WFMin DEF less
<1> HIDE DEF less
<1> QED
  BY <1>1, <1>2

\* A set of naturals that holds 0 and every successor of a member is all of them.
LEMMA Naturally ==
    ASSUME NEW S, 0 \in S, \A n \in Nat : n \in S => n + 1 \in S
    PROVE  \A n \in Nat : n \in S
<1> SUFFICES ASSUME NEW k \in Nat, k \notin S PROVE FALSE
  OBVIOUS
<1>1. PICK n \in Nat \ S : \A m \in Nat \ S : n <= m
  BY Least
<1>2. n # 0 /\ n - 1 \in Nat /\ n - 1 \in S
  BY <1>1
<1> QED
  BY <1>1, <1>2

\* A function is defined by its first value and the step from one value to the next.
Unfolds(f, x, step, L) == f = [n \in 0 .. L |-> IF n = 0 THEN x ELSE step[f[n - 1]]]

LEMMA Recursion ==
    ASSUME NEW S, NEW x \in S, NEW step \in [S -> S], NEW L \in Nat
    PROVE  \E f \in [0 .. L -> S] : Unfolds(f, x, step, L)
<1> DEFINE Solves(f, n) ==
              f \in [0 .. n -> S] /\ f[0] = x /\ \A k \in 1 .. n : f[k] = step[f[k - 1]]
           Solved == {n \in Nat : \E f : Solves(f, n)}
<1>1. 0 \in Solved
  <2>1. Solves([k \in 0 .. 0 |-> x], 0)
    OBVIOUS
  <2> HIDE DEF Solves
  <2> QED
    BY <2>1
<1>2. ASSUME NEW n \in Nat, n \in Solved PROVE n + 1 \in Solved
  <2>1. PICK f : Solves(f, n)
    <3> HIDE DEF Solves
    <3> QED
      BY <1>2
  <2> DEFINE g == [k \in 0 .. n + 1 |-> IF k = n + 1 THEN step[f[n]] ELSE f[k]]
  <2>2. g \in [0 .. n + 1 -> S] /\ g[0] = x
    BY <2>1
  <2>3. ASSUME NEW k \in 1 .. n + 1 PROVE g[k] = step[g[k - 1]]
    <3>1. CASE k = n + 1
      BY <3>1
    <3>2. CASE k \in 1 .. n
      BY <2>1, <3>2
    <3> QED
      BY <3>1, <3>2
  <2>4. Solves(g, n + 1)
    BY <2>2, <2>3
  <2> HIDE DEF Solves
  <2> QED
    BY <2>4
<1>3. L \in Solved
  <2> HIDE DEF Solved
  <2> QED
    BY <1>1, <1>2, Naturally
<1>4. PICK f : Solves(f, L)
  <2> HIDE DEF Solves
  <2> QED
    BY <1>3
<1>5. f = [n \in 0 .. L |-> IF n = 0 THEN x ELSE step[f[n - 1]]]
  BY <1>4
<1> QED
  BY <1>4, <1>5 DEF Unfolds

\* The numbers up to one are so many.
LEMMA Intervals ==
    ASSUME NEW n \in Nat
    PROVE  IsFiniteSet(1 .. n) /\ Cardinality(1 .. n) = n
<1>1. 1 \in Int /\ n \in Int
  OBVIOUS
<1>2. IsFiniteSet(1 .. n) /\ Cardinality(1 .. n) = IF 1 > n THEN 0 ELSE n - 1 + 1
  BY <1>1, FS_Interval
<1> QED
  BY <1>2

------------------------------------------------------------------------------
(* Sets in order                                                             *)

\* A strict order that compares any two members.
Orders(before, S) ==
    /\ \A x \in S : <<x, x>> \notin before
    /\ \A x, y, z \in S : <<x, y>> \in before /\ <<y, z>> \in before => <<x, z>> \in before
    /\ \A x, y \in S : x # y => <<x, y>> \in before \/ <<y, x>> \in before

\* A listing of a set in its order, complete and without repetitions.
Lists(list, S, before) ==
    /\ Cardinality(S) \in Nat /\ list \in [1 .. Cardinality(S) -> S]
    /\ \A m, n \in 1 .. Cardinality(S) : m < n => <<list[m], list[n]>> \in before
    /\ \A m, n \in 1 .. Cardinality(S) : list[m] = list[n] => m = n
    /\ \A x \in S : \E n \in 1 .. Cardinality(S) : list[n] = x

Position(x, S, before) == Cardinality({y \in S : <<y, x>> \in before}) + 1

\* What stands earlier has a smaller position, and all positions are in range.
LEMMA Positions ==
    ASSUME NEW S, IsFiniteSet(S), NEW before, Orders(before, S)
    PROVE  /\ \A x \in S : Position(x, S, before) \in 1 .. Cardinality(S)
           /\ \A x, y \in S : <<x, y>> \in before => Position(x, S, before) < Position(y, S, before)
<1> DEFINE Earlier(x) == {y \in S : <<y, x>> \in before}
<1>1. Cardinality(S) \in Nat
  BY FS_CardinalityType
<1>2. ASSUME NEW x \in S
      PROVE  /\ IsFiniteSet(Earlier(x)) /\ Cardinality(Earlier(x)) \in Nat
             /\ Cardinality(Earlier(x)) < Cardinality(S)
  <2>1. Earlier(x) \in SUBSET S /\ x \notin Earlier(x)
    BY DEF Orders
  <2>2. IsFiniteSet(Earlier(x)) /\ Cardinality(Earlier(x)) <= Cardinality(S)
        /\ (Cardinality(S) = Cardinality(Earlier(x)) => S = Earlier(x))
    BY <2>1, FS_Subset
  <2>3. Cardinality(Earlier(x)) \in Nat
    BY <2>2, FS_CardinalityType
  <2> QED
    BY <1>1, <2>1, <2>2, <2>3
<1>3. ASSUME NEW x \in S, NEW y \in S, <<x, y>> \in before
      PROVE  Cardinality(Earlier(x)) < Cardinality(Earlier(y))
  <2>1. Earlier(x) \in SUBSET Earlier(y) /\ x \in Earlier(y) /\ x \notin Earlier(x)
    BY <1>3 DEF Orders
  <2> HIDE DEF Earlier
  <2>2. /\ Cardinality(Earlier(x)) <= Cardinality(Earlier(y))
        /\ Cardinality(Earlier(x)) = Cardinality(Earlier(y)) => Earlier(y) = Earlier(x)
    BY <1>2, <2>1, FS_Subset
  <2> QED
    BY <1>2, <2>1, <2>2
<1>4. \A x \in S : Position(x, S, before) = Cardinality(Earlier(x)) + 1
  BY DEF Position
<1> HIDE DEF Earlier
<1> QED
  BY <1>1, <1>2, <1>3, <1>4

\* InOrder lists the members of the set, the earlier ones first, and leaves none out.
LEMMA Listed ==
    ASSUME NEW S, IsFiniteSet(S), NEW before, Orders(before, S),
           NEW list, list = InOrder(S, before)
    PROVE  Lists(list, S, before)
<1> DEFINE N == Cardinality(S)
           Pos(x) == Position(x, S, before)
           place == [x \in S |-> Pos(x)]
<1>1. N \in Nat /\ IsFiniteSet(1 .. N) /\ Cardinality(1 .. N) = N
  BY FS_CardinalityType, FS_Interval
<1>5. /\ \A x \in S : Pos(x) \in 1 .. N
      /\ \A x, y \in S : <<x, y>> \in before => Pos(x) < Pos(y)
  BY Positions
<1>6. list = [n \in 1 .. N |-> CHOOSE x \in S : Pos(x) = n]
  BY DEF InOrder, Position
<1> HIDE DEF Pos
<1>12. ASSUME NEW x \in S, NEW y \in S, Pos(x) = Pos(y) PROVE x = y
  <2>1. Pos(x) \in Int /\ Pos(y) \in Int /\ ~(Pos(x) < Pos(y)) /\ ~(Pos(y) < Pos(x))
    BY <1>1, <1>5, <1>12
  <2> QED
    BY <1>5, <2>1 DEF Orders
<1>2. place \in Injection(S, 1 .. N)
  BY <1>5, <1>12 DEF Injection, IsInjective
<1>3. place \in Surjection(S, 1 .. N)
  BY <1>1, <1>2, FS_Injection
<1>4. \A n \in 1 .. N : \E x \in S : Pos(x) = n
  BY <1>3 DEF Surjection
<1> HIDE DEF place
<1>7. \A n \in 1 .. N : list[n] \in S /\ Pos(list[n]) = n
  BY <1>4, <1>6
<1>8. list \in [1 .. N -> S]
  BY <1>6, <1>7
<1>9. ASSUME NEW m \in 1 .. N, NEW n \in 1 .. N, m < n PROVE <<list[m], list[n]>> \in before
  <2>1. list[m] # list[n] /\ list[m] \in S /\ list[n] \in S
    BY <1>7, <1>9
  <2>2. <<list[n], list[m]>> \in before => n < m
    BY <1>5, <1>7, <2>1
  <2> QED
    BY <1>9, <2>1, <2>2 DEF Orders
<1>10. ASSUME NEW x \in S PROVE \E n \in 1 .. N : list[n] = x
  <2>1. Pos(x) \in 1 .. N
    BY <1>5
  <2> QED
    BY <1>7, <1>12, <2>1
<1>11. \A m, n \in 1 .. N : list[m] = list[n] => m = n
  BY <1>7
<1> QED
  BY <1>1, <1>8, <1>9, <1>10, <1>11 DEF Lists

\* Places in an array, taken as they stand.
LEMMA AscendingOrders ==
    ASSUME NEW S \in SUBSET Nat
    PROVE  Orders(Ascending(S), S)
  BY DEF Orders, Ascending

Keys(key, S) == \A x \in S : key[x] \in Int

\* Places by a key, equals as they stand.
LEMMA ByKeyOrders ==
    ASSUME NEW S \in SUBSET Nat, NEW key, Keys(key, S)
    PROVE  Orders(ByKey(S, key), S)
  BY DEF Orders, ByKey, Keys

\* As many elements are sorted as are kept, and each is one that was kept.
LEMMA SortedAre ==
    ASSUME NEW kept \in SUBSET Nat, IsFiniteSet(kept), NEW key, Keys(key, kept),
           NEW array, NEW sorted, sorted = Sorted(array, kept, key),
           NEW list, list = InOrder(kept, ByKey(kept, key))
    PROVE  /\ Lists(list, kept, ByKey(kept, key))
           /\ DOMAIN sorted = DOMAIN list /\ Len(sorted) = Cardinality(kept)
           /\ \A n \in DOMAIN list : sorted[n] = array[list[n]]
<1>1. Lists(list, kept, ByKey(kept, key))
  BY ByKeyOrders, Listed
<1>2. sorted = [n \in DOMAIN list |-> array[list[n]]]
  BY DEF Sorted, Elements
<1>3. DOMAIN list = 1 .. Cardinality(kept) /\ Cardinality(kept) \in Nat
  BY <1>1 DEF Lists
<1> QED
  BY <1>1, <1>2, <1>3

\* As many elements are kept by filter as pass, and each is one that does.
LEMMA KeptAre ==
    ASSUME NEW kept \in SUBSET Nat, IsFiniteSet(kept), NEW array,
           NEW filtered, filtered = Elements(array, InOrder(kept, Ascending(kept)))
    PROVE  /\ Cardinality(kept) \in Nat
           /\ DOMAIN filtered = 1 .. Cardinality(kept) /\ Len(filtered) = Cardinality(kept)
           /\ \A n \in DOMAIN filtered : \E i \in kept : filtered[n] = array[i]
<1> DEFINE list == InOrder(kept, Ascending(kept))
<1>1. Lists(list, kept, Ascending(kept))
  BY AscendingOrders, Listed
<1>2. filtered = [n \in DOMAIN list |-> array[list[n]]]
  BY DEF Elements
<1> HIDE DEF list
<1>3. /\ DOMAIN list = 1 .. Cardinality(kept) /\ Cardinality(kept) \in Nat
      /\ \A n \in DOMAIN list : list[n] \in kept
  BY <1>1 DEF Lists
<1>4. DOMAIN filtered = 1 .. Cardinality(kept) /\ Len(filtered) = Cardinality(kept)
  BY <1>2, <1>3
<1>5. \A n \in DOMAIN filtered : list[n] \in kept /\ filtered[n] = array[list[n]]
  BY <1>2, <1>3
<1> QED
  BY <1>3, <1>4, <1>5

\* The elements at two lists of places, one after the other.
LEMMA ElementsJoin ==
    ASSUME NEW S, NEW p \in Seq(S), NEW q \in Seq(S), NEW array
    PROVE  Elements(array, p \o q) = Elements(array, p) \o Elements(array, q)
<1> DEFINE M == Len(p)
           N == Len(q)
           T == {array[x] : x \in S}
           a == Elements(array, p)
           b == Elements(array, q)
<1>1. M \in Nat /\ N \in Nat /\ DOMAIN p = 1 .. M /\ DOMAIN q = 1 .. N
  OBVIOUS
<1>2. /\ p \o q \in Seq(S) /\ Len(p \o q) = M + N
      /\ \A n \in 1 .. M + N : (p \o q)[n] = IF n <= M THEN p[n] ELSE q[n - M]
  BY ConcatProperties
<1>3. a = [n \in 1 .. M |-> array[p[n]]] /\ b = [n \in 1 .. N |-> array[q[n]]]
  BY <1>1 DEF Elements
<1> HIDE DEF M, N, T, a, b
<1>4. a \in Seq(T) /\ Len(a) = M /\ b \in Seq(T) /\ Len(b) = N
  <2>1. (\A n \in 1 .. M : p[n] \in S) /\ \A n \in 1 .. N : q[n] \in S
    BY <1>1
  <2>2. a \in [1 .. M -> T] /\ b \in [1 .. N -> T]
    BY <1>3, <2>1 DEF T
  <2> QED
    BY <1>1, <2>2
<1>5. /\ a \o b \in Seq(T) /\ Len(a \o b) = M + N
      /\ \A n \in 1 .. M + N : (a \o b)[n] = IF n <= M THEN a[n] ELSE b[n - M]
  BY <1>4, ConcatProperties
<1> DEFINE pq == p \o q
           ab == a \o b
<1> HIDE DEF pq, ab
<1>6. ab = [n \in 1 .. M + N |-> ab[n]]
  <2>1. ab \in Seq(T) /\ Len(ab) = M + N
    BY <1>5 DEF ab
  <2>2. ab \in [1 .. M + N -> T]
    BY <2>1, LenProperties
  <2> QED
    BY <2>2
<1>7. Elements(array, pq) = [n \in 1 .. M + N |-> array[pq[n]]]
  <2>1. DOMAIN pq = 1 .. M + N
    BY <1>1, <1>2 DEF pq
  <2> QED
    BY <2>1 DEF Elements
<1>8. \A n \in 1 .. M + N : array[pq[n]] = ab[n]
  <2> SUFFICES ASSUME NEW n \in 1 .. M + N PROVE array[pq[n]] = ab[n]
    OBVIOUS
  <2>1. CASE n <= M
    BY <1>1, <1>2, <1>3, <1>5, <2>1 DEF pq, ab
  <2>2. CASE n > M
    <3>1. n - M \in 1 .. N /\ ~(n <= M)
      BY <1>1, <2>2
    <3> QED
      BY <1>2, <1>3, <1>5, <3>1 DEF pq, ab
  <2> QED
    BY <1>1, <2>1, <2>2
<1> QED
  BY <1>6, <1>7, <1>8 DEF pq, ab, a, b

\* Every member is in one of two parts.
Parts(A, B, S) == A \in SUBSET S /\ B \in SUBSET S /\ \A x \in S : x \in A <=> x \notin B

\* A set is as large as the two parts of it are together.
LEMMA Parted ==
    ASSUME NEW S, IsFiniteSet(S), NEW A, NEW B, Parts(A, B, S)
    PROVE  /\ Cardinality(S) = Cardinality(A) + Cardinality(B)
           /\ IsFiniteSet(A) /\ IsFiniteSet(B)
           /\ Cardinality(A) \in Nat /\ Cardinality(B) \in Nat
<1>1. IsFiniteSet(A) /\ IsFiniteSet(B)
  BY FS_Subset DEF Parts
<1>2. A \union B = S /\ A \intersect B = {}
  BY DEF Parts
<1>3. Cardinality(A \union B) = Cardinality(A) + Cardinality(B) - Cardinality(A \intersect B)
  BY <1>1, FS_Union
<1>4. Cardinality(S) = Cardinality(A \union B) /\ Cardinality(A \intersect B) = 0
  BY <1>2, FS_EmptySet, Zenon
<1>5. Cardinality(A) \in Nat /\ Cardinality(B) \in Nat
  BY <1>1, FS_CardinalityType
<1> QED
  BY <1>1, <1>3, <1>4, <1>5

\* There is no other way to list a set in its order.
LEMMA OnlyOrder ==
    ASSUME NEW S, IsFiniteSet(S), NEW before, Orders(before, S),
           NEW g, Lists(g, S, before)
    PROVE  g = InOrder(S, before)
<1> DEFINE N == Cardinality(S)
           list == InOrder(S, before)
           Differ == {n \in 1 .. N : g[n] # list[n]}
<1> SUFFICES g = list
  OBVIOUS
<1>1. Lists(list, S, before)
  BY Listed
<1> HIDE DEF list
<1> USE DEF Lists
<1>3. CASE Differ # {}
  <2>1. Differ \in SUBSET Nat
    BY <1>1
  <2>2. PICK n \in Differ : \A m \in Differ : n <= m
    BY <1>3, <2>1, Least
  <2>3. n \in 1 .. N /\ g[n] # list[n] /\ \A m \in 1 .. N : m < n => g[m] = list[m]
    BY <1>1, <2>2
  <2>4. PICK k \in 1 .. N : list[k] = g[n]
    BY <1>1, <2>3
  <2>5. PICK j \in 1 .. N : g[j] = list[n]
    BY <1>1, <2>3
  <2>6. k > n
    BY <1>1, <2>3, <2>4
  <2>7. j > n
    BY <1>1, <2>3, <2>5
  <2>8. <<g[n], list[n]>> \in before /\ <<list[n], g[n]>> \in before
    BY <1>1, <2>3, <2>4, <2>5, <2>6, <2>7
  <2>9. g[n] \in S /\ list[n] \in S
    BY <1>1, <2>3
  <2> QED
    BY <2>8, <2>9 DEF Orders
<1>4. CASE Differ = {}
  BY <1>1, <1>4
<1> QED
  BY <1>3, <1>4

SameOrder(b, c, S) == \A x, y \in S : <<x, y>> \in b <=> <<x, y>> \in c

\* Where all of one part stands before all of another, their lists make one.
LEMMA Joined ==
    ASSUME NEW S, IsFiniteSet(S), NEW before, Orders(before, S),
           NEW A, NEW B, Parts(A, B, S), \A x \in A, y \in B : <<x, y>> \in before,
           NEW beforeA, SameOrder(beforeA, before, A), NEW beforeB, SameOrder(beforeB, before, B)
    PROVE  InOrder(S, before) = InOrder(A, beforeA) \o InOrder(B, beforeB)
<1> DEFINE a == InOrder(A, beforeA)
           b == InOrder(B, beforeB)
           M == Cardinality(A)
           N == Cardinality(B)
           g == a \o b
<1>1. IsFiniteSet(A) /\ IsFiniteSet(B)
  BY Parted
<1>2. Cardinality(S) = M + N
  BY Parted
<1>3. Orders(beforeA, A) /\ Orders(beforeB, B)
  <2>1. Orders(beforeA, A)
    <3>1. \A x, y \in A : <<x, y>> \in beforeA <=> <<x, y>> \in before
      BY DEF SameOrder
    <3>2. A \subseteq S
      BY DEF Parts
    <3> QED
      BY <3>1, <3>2 DEF Orders
  <2>2. Orders(beforeB, B)
    <3>1. \A x, y \in B : <<x, y>> \in beforeB <=> <<x, y>> \in before
      BY DEF SameOrder
    <3>2. B \subseteq S
      BY DEF Parts
    <3> QED
      BY <3>1, <3>2 DEF Orders
  <2> QED
    BY <2>1, <2>2
<1>4. /\ M \in Nat /\ a \in [1 .. M -> A]
      /\ \A m, n \in 1 .. M : m < n => <<a[m], a[n]>> \in beforeA
      /\ \A m, n \in 1 .. M : a[m] = a[n] => m = n
      /\ \A x \in A : \E n \in 1 .. M : a[n] = x
  BY <1>1, <1>3, Listed DEF Lists
<1>5. /\ N \in Nat /\ b \in [1 .. N -> B]
      /\ \A m, n \in 1 .. N : m < n => <<b[m], b[n]>> \in beforeB
      /\ \A m, n \in 1 .. N : b[m] = b[n] => m = n
      /\ \A x \in B : \E n \in 1 .. N : b[n] = x
  BY <1>1, <1>3, Listed DEF Lists
<1> HIDE DEF a, b, M, N
<1> USE DEF Parts, SameOrder
<1>6. g = [n \in 1 .. M + N |-> IF n <= M THEN a[n] ELSE b[n - M]]
  <2>1. a \in Seq(S) /\ Len(a) = M /\ b \in Seq(S) /\ Len(b) = N
    BY <1>4, <1>5
  <2>2. /\ g \in Seq(S) /\ Len(g) = M + N
        /\ \A n \in 1 .. M + N : g[n] = IF n <= M THEN a[n] ELSE b[n - M]
    BY <2>1, ConcatProperties
  <2> HIDE DEF g
  <2>3. g = [n \in 1 .. M + N |-> g[n]]
    BY <2>2
  <2> QED
    BY <2>2, <2>3
<1>7. g \in [1 .. M + N -> S]
  BY <1>4, <1>5, <1>6
<1>8. ASSUME NEW m \in 1 .. M + N, NEW n \in 1 .. M + N, m < n
      PROVE  <<g[m], g[n]>> \in before
  <2>1. CASE n <= M
    BY <1>4, <1>5, <1>6, <1>8, <2>1
  <2>2. CASE m <= M /\ n > M
    BY <1>4, <1>5, <1>6, <1>8, <2>2
  <2>3. CASE m > M
    BY <1>4, <1>5, <1>6, <1>8, <2>3
  <2> QED
    BY <1>4, <1>5, <1>8, <2>1, <2>2, <2>3
<1>9. ASSUME NEW x \in S PROVE \E n \in 1 .. M + N : g[n] = x
  <2>1. CASE x \in A
    BY <1>4, <1>5, <1>6, <2>1
  <2>2. CASE x \in B
    <3>1. PICK n \in 1 .. N : b[n] = x
      BY <1>5, <2>2
    <3>2. M + n \in 1 .. M + N /\ g[M + n] = x
      BY <1>4, <1>5, <1>6, <3>1
    <3> QED
      BY <3>2
  <2> QED
    BY <2>1, <2>2
<1> HIDE DEF g
<1>10. ASSUME NEW m \in 1 .. M + N, NEW n \in 1 .. M + N, g[m] = g[n] PROVE m = n
  <2>1. g[m] \in S /\ <<g[m], g[n]>> \notin before /\ <<g[n], g[m]>> \notin before
    BY <1>7, <1>10 DEF Orders
  <2> QED
    BY <1>4, <1>5, <1>8, <2>1
<1>11. M + N \in Nat
  BY <1>4, <1>5
<1>12. Lists(g, S, before)
  BY <1>2, <1>7, <1>8, <1>9, <1>10, <1>11 DEF Lists
<1>13. g = InOrder(S, before)
  BY <1>12, OnlyOrder
<1> QED
  BY <1>13 DEF g, a, b

------------------------------------------------------------------------------
(* Arrays of arrays                                                          *)

\* A function on the numbers up to one is a sequence.
LEMMA FunctionIsSeq ==
    ASSUME NEW n \in Nat, NEW f, f = [i \in 1 .. n |-> f[i]]
    PROVE  f \in Seq({f[i] : i \in 1 .. n}) /\ Len(f) = n
<1> DEFINE S == {f[i] : i \in 1 .. n}
<1>1. f \in [1 .. n -> S]
  OBVIOUS
<1> HIDE DEF S
<1>2. f \in Seq(S) /\ Len(f) = n
  BY <1>1
<1> QED
  BY <1>2 DEF S

\* One array that is not empty is enough for the flattened array not to be.
LEMMA FlatIs ==
    ASSUME NEW N \in Nat, NEW M \in Nat, NEW arrays, DOMAIN arrays = 1 .. N,
           \A n \in 1 .. N : DOMAIN arrays[n] \in SUBSET (1 .. M)
    PROVE  \E S : /\ Flat(arrays) \in Seq(S)
                  /\ (\E n \in 1 .. N : DOMAIN arrays[n] # {}) => Len(Flat(arrays)) >= 1
<1> DEFINE places == UNION {{n} \X DOMAIN arrays[n] : n \in DOMAIN arrays}
           order == InOrder(places, {pq \in places \X places :
                        \/ pq[1][1] < pq[2][1]
                        \/ pq[1][1] = pq[2][1] /\ pq[1][2] < pq[2][2]})
           flat == [n \in DOMAIN order |-> arrays[order[n][1]][order[n][2]]]
           count == Cardinality(places)
<1>1. Flat(arrays) = flat
  BY Zenon DEF Flat
<1>2. places \in SUBSET ((1 .. N) \X (1 .. M))
  OBVIOUS
<1>3. (\E n \in 1 .. N : DOMAIN arrays[n] # {}) => places # {}
  <2>1. ASSUME NEW n \in 1 .. N, NEW m \in DOMAIN arrays[n] PROVE <<n, m>> \in places
    OBVIOUS
  <2> HIDE DEF places
  <2> QED
    BY <2>1
<1>4. DOMAIN order = 1 .. count
  <2> HIDE DEF places
  <2> QED
    BY DEF InOrder
<1> HIDE DEF places, order
<1>5. IsFiniteSet(places)
  <2>1. IsFiniteSet(1 .. N) /\ IsFiniteSet(1 .. M)
    BY Intervals
  <2>2. IsFiniteSet((1 .. N) \X (1 .. M))
    BY <2>1, FS_Product
  <2> QED
    BY <1>2, <2>2, FS_Subset
<1>6. count \in Nat /\ (count = 0 <=> places = {})
  BY <1>5, FS_CardinalityType, FS_EmptySet
<1> HIDE DEF count
<1>7. flat = [n \in 1 .. count |-> flat[n]]
  BY <1>4
<1> HIDE DEF flat
<1>8. flat \in Seq({flat[i] : i \in 1 .. count}) /\ Len(flat) = count
  BY <1>6, <1>7, FunctionIsSeq
<1>9. (\E n \in 1 .. N : DOMAIN arrays[n] # {}) => Len(flat) >= 1
  BY <1>3, <1>6, <1>8
<1> QED
  BY <1>1, <1>8, <1>9

------------------------------------------------------------------------------
(* Sums                                                                      *)

\* The recursion that Sum is defined by has a solution, of natural numbers.
LEMMA SumUnfolds ==
    ASSUME NEW numbers, Len(numbers) \in Nat,
           \A i \in 1 .. Len(numbers) : numbers[i] \in Nat
    PROVE  \E sum \in [0 .. Len(numbers) -> Nat] :
              /\ sum[0] = 0
              /\ \A n \in 1 .. Len(numbers) : sum[n] = sum[n - 1] + numbers[n]
              /\ Sum(numbers) = sum[Len(numbers)]
<1> DEFINE L == Len(numbers)
           At(f, n) == IF n = 0 THEN 0 ELSE f[n - 1] + numbers[n]
           Solves(f, n) == f \in [0 .. n -> Nat] /\ \A k \in 0 .. n : f[k] = At(f, k)
           Solved == {n \in Nat : n <= L => \E f : Solves(f, n)}
           sum == CHOOSE f : f = [n \in 0 .. L |-> At(f, n)]
<1>1. 0 \in Solved
  <2>1. Solves([k \in 0 .. 0 |-> 0], 0)
    OBVIOUS
  <2> HIDE DEF Solves
  <2> QED
    BY <2>1
<1>2. ASSUME NEW n \in Nat, n \in Solved PROVE n + 1 \in Solved
  <2> SUFFICES ASSUME n + 1 <= L PROVE \E f : Solves(f, n + 1)
    <3> HIDE DEF Solves
    <3> QED
      OBVIOUS
  <2>1. PICK f : Solves(f, n)
    <3> HIDE DEF Solves
    <3> QED
      BY <1>2
  <2> DEFINE g == [k \in 0 .. n + 1 |-> IF k = n + 1 THEN f[n] + numbers[n + 1] ELSE f[k]]
  <2>2. g \in [0 .. n + 1 -> Nat]
    BY <2>1
  <2>3. ASSUME NEW k \in 0 .. n + 1 PROVE g[k] = At(g, k)
    <3>1. CASE k = n + 1
      BY <3>1
    <3>2. CASE k = 0
      BY <2>1, <3>2
    <3>3. CASE k \in 1 .. n
      BY <2>1, <3>3
    <3> QED
      BY <3>1, <3>2, <3>3
  <2>4. Solves(g, n + 1)
    BY <2>2, <2>3
  <2> HIDE DEF Solves
  <2> QED
    BY <2>4
<1>3. \A n \in Nat : n \in Solved
  <2> HIDE DEF Solved
  <2> QED
    BY <1>1, <1>2, Naturally
<1>4. PICK f : Solves(f, L)
  <2> HIDE DEF Solves
  <2> QED
    BY <1>3
<1>5. f = [n \in 0 .. L |-> At(f, n)]
  BY <1>4
<1>6. sum = [n \in 0 .. L |-> At(sum, n)]
  BY <1>5
<1>7. Sum(numbers) = sum[L]
  BY DEF Sum
<1> HIDE DEF sum
<1> DEFINE Natural == {n \in Nat : n <= L => sum[n] \in Nat}
<1>8. \A n \in Nat : n \in Natural
  <2>1. 0 \in Natural
    BY <1>6
  <2>2. \A n \in Nat : n \in Natural => n + 1 \in Natural
    BY <1>6
  <2> HIDE DEF Natural
  <2> QED
    BY <2>1, <2>2, Naturally
<1>9. sum \in [0 .. L -> Nat]
  <2>1. \A n \in 0 .. L : sum[n] \in Nat
    BY <1>8
  <2>2. sum = [n \in 0 .. L |-> sum[n]]
    BY <1>6
  <2> QED
    BY <2>1, <2>2
<1>10. sum[0] = 0 /\ \A n \in 1 .. L : sum[n] = sum[n - 1] + numbers[n]
  BY <1>6
<1> QED
  BY <1>7, <1>9, <1>10

\* As many natural numbers as the array is long.
Numbers(a, N) == DOMAIN a = 1 .. N /\ \A k \in 1 .. N : a[k] \in Nat

\* The sums of what stands before each place.
Partials(s, a, N) ==
    /\ s \in [0 .. N -> Nat] /\ s[0] = 0 /\ s[N] = Sum(a)
    /\ \A n \in 1 .. N : s[n] = s[n - 1] + a[n]

LEMMA PartialSums ==
    ASSUME NEW N \in Nat, NEW a, Numbers(a, N)
    PROVE  \E s : Partials(s, a, N)
<1>1. Len(a) = N
  BY DEF Numbers
<1>2. Len(a) \in Nat /\ \A k \in 1 .. Len(a) : a[k] \in Nat
  BY <1>1 DEF Numbers
<1>3. PICK s \in [0 .. Len(a) -> Nat] :
         /\ s[0] = 0
         /\ \A n \in 1 .. Len(a) : s[n] = s[n - 1] + a[n]
         /\ Sum(a) = s[Len(a)]
  BY <1>2, SumUnfolds
<1>4. Partials(s, a, N)
  BY <1>1, <1>3 DEF Partials
<1> QED
  BY <1>4

LEMMA SumIsNatural ==
    ASSUME NEW N \in Nat, NEW a, Numbers(a, N)
    PROVE  Sum(a) \in Nat
<1>1. PICK s : Partials(s, a, N)
  BY PartialSums
<1> QED
  BY <1>1 DEF Partials

\* Added place by place, numbers have the sum of their sums, and less where they are less.
LEMMA SumsAdd ==
    ASSUME NEW N \in Nat, NEW a, Numbers(a, N), NEW b, Numbers(b, N), NEW c, Numbers(c, N)
    PROVE  /\ (\A k \in 1 .. N : c[k] = a[k] + b[k]) => Sum(c) = Sum(a) + Sum(b)
           /\ (\A k \in 1 .. N : a[k] + b[k] <= c[k]) => Sum(a) + Sum(b) <= Sum(c)
<1>1. PICK s : Partials(s, a, N)
  BY PartialSums
<1>2. PICK t : Partials(t, b, N)
  BY PartialSums
<1>3. PICK u : Partials(u, c, N)
  BY PartialSums
<1> DEFINE Same == {n \in Nat : n <= N => u[n] = s[n] + t[n]}
           Less == {n \in Nat : n <= N => s[n] + t[n] <= u[n]}
<1>4. ASSUME NEW n \in Nat, n + 1 <= N
      PROVE  /\ n + 1 \in 1 .. N /\ n \in 0 .. N
             /\ a[n + 1] \in Nat /\ b[n + 1] \in Nat /\ c[n + 1] \in Nat
             /\ s[n] \in Nat /\ t[n] \in Nat /\ u[n] \in Nat
             /\ s[n + 1] = s[n] + a[n + 1]
             /\ t[n + 1] = t[n] + b[n + 1]
             /\ u[n + 1] = u[n] + c[n + 1]
  <2>1. n + 1 \in 1 .. N /\ n \in 0 .. N /\ (n + 1) - 1 = n
    BY <1>4
  <2>2. a[n + 1] \in Nat /\ b[n + 1] \in Nat /\ c[n + 1] \in Nat
    BY <2>1 DEF Numbers
  <2>3. s[n] \in Nat /\ s[n + 1] = s[n] + a[n + 1]
    BY <1>1, <2>1 DEF Partials
  <2>4. t[n] \in Nat /\ t[n + 1] = t[n] + b[n + 1]
    BY <1>2, <2>1 DEF Partials
  <2>5. u[n] \in Nat /\ u[n + 1] = u[n] + c[n + 1]
    BY <1>3, <2>1 DEF Partials
  <2> QED
    BY <2>1, <2>2, <2>3, <2>4, <2>5
<1>5. 0 \in Same /\ 0 \in Less
  BY <1>1, <1>2, <1>3 DEF Partials
<1>6. ASSUME \A k \in 1 .. N : c[k] = a[k] + b[k] PROVE Sum(c) = Sum(a) + Sum(b)
  <2>1. ASSUME NEW n \in Nat, n \in Same PROVE n + 1 \in Same
    <3> SUFFICES ASSUME n + 1 <= N PROVE u[n + 1] = s[n + 1] + t[n + 1]
      OBVIOUS
    <3>1. c[n + 1] = a[n + 1] + b[n + 1] /\ u[n] = s[n] + t[n]
      BY <1>4, <1>6, <2>1
    <3> QED
      BY <1>4, <3>1
  <2> HIDE DEF Same
  <2>2. N \in Same
    BY <1>5, <2>1, Naturally
  <2> QED
    BY <1>1, <1>2, <1>3, <2>2 DEF Same, Partials
<1>7. ASSUME \A k \in 1 .. N : a[k] + b[k] <= c[k] PROVE Sum(a) + Sum(b) <= Sum(c)
  <2>1. ASSUME NEW n \in Nat, n \in Less PROVE n + 1 \in Less
    <3> SUFFICES ASSUME n + 1 <= N PROVE s[n + 1] + t[n + 1] <= u[n + 1]
      OBVIOUS
    <3>1. a[n + 1] + b[n + 1] <= c[n + 1] /\ s[n] + t[n] <= u[n]
      BY <1>4, <1>7, <2>1
    <3> QED
      BY <1>4, <3>1
  <2> HIDE DEF Less
  <2>2. N \in Less
    BY <1>5, <2>1, Naturally
  <2> QED
    BY <1>1, <1>2, <1>3, <2>2 DEF Less, Partials
<1> QED
  BY <1>6, <1>7

\* Where no number weighs more than its counterpart, neither does their sum; and it weighs
\* less as soon as one of them does.
LEMMA SumsCompare ==
    ASSUME NEW N \in Nat, NEW a, Numbers(a, N), NEW b, Numbers(b, N), NEW p \in Nat, NEW q \in Nat,
           \A k \in 1 .. N : p * a[k] <= q * b[k]
    PROVE  /\ p * Sum(a) <= q * Sum(b)
           /\ \A k \in 1 .. N : p * a[k] < q * b[k] => p * Sum(a) < q * Sum(b)
<1>1. PICK s : Partials(s, a, N)
  BY PartialSums
<1>2. PICK t : Partials(t, b, N)
  BY PartialSums
<1> DEFINE Less == {n \in Nat : n <= N =>
                       /\ p * s[n] <= q * t[n]
                       /\ \A k \in 1 .. n : p * a[k] < q * b[k] => p * s[n] < q * t[n]}
<1>3. 0 \in Less
  BY <1>1, <1>2 DEF Partials
<1>4. ASSUME NEW n \in Nat, n \in Less PROVE n + 1 \in Less
  <2> SUFFICES ASSUME n + 1 <= N
               PROVE  /\ p * s[n + 1] <= q * t[n + 1]
                      /\ \A k \in 1 .. n + 1 : p * a[k] < q * b[k] => p * s[n + 1] < q * t[n + 1]
    OBVIOUS
  <2>1. n + 1 \in 1 .. N /\ n \in 0 .. N /\ (n + 1) - 1 = n
    OBVIOUS
  <2>2. PICK x \in Nat, y \in Nat : x = a[n + 1] /\ y = b[n + 1]
    BY <2>1 DEF Numbers
  <2>3. PICK v \in Nat, w \in Nat : v = s[n] /\ w = t[n]
    BY <1>1, <1>2, <2>1 DEF Partials
  <2>4. s[n + 1] = v + x /\ t[n + 1] = w + y
    BY <1>1, <1>2, <2>1, <2>2, <2>3 DEF Partials
  <2>5. p * (v + x) = p * v + p * x /\ q * (w + y) = q * w + q * y
    OBVIOUS
  <2>6. p * x <= q * y /\ p * v <= q * w
    BY <1>4, <2>1, <2>2, <2>3
  <2>7. p * v \in Nat /\ p * x \in Nat /\ q * w \in Nat /\ q * y \in Nat
    OBVIOUS
  <2>8. p * s[n + 1] <= q * t[n + 1]
    BY <2>4, <2>5, <2>6, <2>7
  <2>9. ASSUME NEW k \in 1 .. n + 1, p * a[k] < q * b[k] PROVE p * s[n + 1] < q * t[n + 1]
    <3>1. CASE k = n + 1
      BY <2>2, <2>4, <2>5, <2>6, <2>7, <2>9, <3>1
    <3>2. CASE k \in 1 .. n
      <4>1. p * v < q * w
        BY <1>4, <2>1, <2>3, <2>9, <3>2
      <4> QED
        BY <2>4, <2>5, <2>6, <2>7, <4>1
    <3> QED
      BY <3>1, <3>2
  <2> QED
    BY <2>8, <2>9
<1> HIDE DEF Less
<1>5. N \in Less
  BY <1>3, <1>4, Naturally
<1> QED
  BY <1>1, <1>2, <1>5 DEF Less, Partials

\* Finite sets that have no members in common.
Apart(sets, N) ==
    /\ \A k \in 1 .. N : IsFiniteSet(sets[k])
    /\ \A j, k \in 1 .. N : \A x : x \in sets[j] /\ x \in sets[k] => j = k

Sizes(a, sets, N) == Numbers(a, N) /\ \A k \in 1 .. N : a[k] = Cardinality(sets[k])

\* The sizes of sets apart add up to that of their union.
LEMMA SizesAdd ==
    ASSUME NEW N \in Nat, NEW sets, Apart(sets, N), NEW a, Sizes(a, sets, N)
    PROVE  /\ IsFiniteSet(UNION {sets[k] : k \in 1 .. N})
           /\ Sum(a) = Cardinality(UNION {sets[k] : k \in 1 .. N})
<1>1. PICK s : Partials(s, a, N)
  BY PartialSums DEF Sizes
<1> DEFINE Up(n) == UNION {sets[k] : k \in 1 .. n}
           Counted == {n \in Nat : n <= N => IsFiniteSet(Up(n)) /\ s[n] = Cardinality(Up(n))}
<1>2. 0 \in Counted
  <2>1. Up(0) = {}
    OBVIOUS
  <2>2. IsFiniteSet(Up(0)) /\ Cardinality(Up(0)) = 0
    BY <2>1, FS_EmptySet, Zenon
  <2> HIDE DEF Up
  <2> QED
    BY <1>1, <2>2 DEF Partials
<1>3. ASSUME NEW n \in Nat, n \in Counted PROVE n + 1 \in Counted
  <2> SUFFICES ASSUME n + 1 <= N
               PROVE  IsFiniteSet(Up(n + 1)) /\ s[n + 1] = Cardinality(Up(n + 1))
    OBVIOUS
  <2>1. n + 1 \in 1 .. N /\ n \in 0 .. N /\ (n + 1) - 1 = n /\ n <= N
    OBVIOUS
  <2>2. Parts(Up(n), sets[n + 1], Up(n + 1)) /\ Up(n + 1) = Up(n) \union sets[n + 1]
    <3>1. ASSUME NEW x PROVE x \in Up(n + 1) <=> x \in Up(n) \/ x \in sets[n + 1]
      <4>1. \A k : k \in 1 .. n + 1 <=> k \in 1 .. n \/ k = n + 1
        OBVIOUS
      <4> QED
        BY <4>1
    <3>2. ASSUME NEW x \in Up(n), x \in sets[n + 1] PROVE FALSE
      <4>1. PICK k \in 1 .. n : x \in sets[k]
        OBVIOUS
      <4>2. k \in 1 .. N /\ k # n + 1
        BY <2>1
      <4> QED
        BY <2>1, <3>2, <4>1, <4>2 DEF Apart
    <3> HIDE DEF Up
    <3> QED
      BY <3>1, <3>2 DEF Parts
  <2>3. IsFiniteSet(Up(n)) /\ s[n] = Cardinality(Up(n)) /\ IsFiniteSet(sets[n + 1])
    BY <1>3, <2>1 DEF Apart
  <2> HIDE DEF Up
  <2>4. IsFiniteSet(Up(n) \union sets[n + 1])
    BY <2>3, FS_Union
  <2>5. IsFiniteSet(Up(n + 1))
    BY <2>2, <2>4
  <2>6. Cardinality(Up(n + 1)) = Cardinality(Up(n)) + Cardinality(sets[n + 1])
    BY <2>2, <2>5, Parted
  <2>7. s[n + 1] = s[n] + a[n + 1] /\ a[n + 1] = Cardinality(sets[n + 1])
    BY <1>1, <2>1 DEF Partials, Sizes
  <2> QED
    BY <2>3, <2>5, <2>6, <2>7
<1> HIDE DEF Counted
<1>4. N \in Counted
  BY <1>2, <1>3, Naturally
<1> HIDE DEF Up
<1>5. IsFiniteSet(Up(N)) /\ s[N] = Cardinality(Up(N))
  BY <1>4 DEF Counted
<1>6. IsFiniteSet(Up(N)) /\ Sum(a) = Cardinality(Up(N))
  BY <1>1, <1>5 DEF Partials
<1> QED
  BY <1>6 DEF Up

\* The members of each set, told apart by the place of the set.
Tagged(sets, N) == UNION {{k} \X sets[k] : k \in 1 .. N}

AllFinite(sets, N) == \A k \in 1 .. N : IsFiniteSet(sets[k])

\* The sizes of sets add up to that of the set of their members, told apart.
LEMMA TagsAdd ==
    ASSUME NEW N \in Nat, NEW sets, AllFinite(sets, N),
           NEW a, Sizes(a, sets, N)
    PROVE  IsFiniteSet(Tagged(sets, N)) /\ Sum(a) = Cardinality(Tagged(sets, N))
<1> DEFINE tagged == [k \in 1 .. N |-> {k} \X sets[k]]
<1>1. ASSUME NEW k \in 1 .. N
      PROVE  IsFiniteSet(tagged[k]) /\ Cardinality(tagged[k]) = Cardinality(sets[k])
  <2>1. IsFiniteSet({k}) /\ Cardinality({k}) = 1
    BY FS_Singleton
  <2>2. IsFiniteSet(sets[k]) /\ Cardinality(sets[k]) \in Nat
    BY FS_CardinalityType DEF AllFinite
  <2>3. /\ IsFiniteSet({k} \X sets[k])
        /\ Cardinality({k} \X sets[k]) = Cardinality({k}) * Cardinality(sets[k])
    BY <2>1, <2>2, FS_Product
  <2>4. tagged[k] = {k} \X sets[k]
    OBVIOUS
  <2> QED
    BY <2>1, <2>2, <2>3, <2>4
<1>2. \A j, k \in 1 .. N : \A x : x \in tagged[j] /\ x \in tagged[k] => j = k
  OBVIOUS
<1>3. Tagged(sets, N) = UNION {tagged[k] : k \in 1 .. N}
  BY DEF Tagged
<1> HIDE DEF tagged
<1>4. Apart(tagged, N)
  BY <1>1, <1>2 DEF Apart
<1>5. Sizes(a, tagged, N)
  BY <1>1 DEF Sizes
<1> QED
  BY <1>3, <1>4, <1>5, SizesAdd

\* Each member of each set is in the group of one number of a set of them.
Groups(group, sets, S, N) ==
    /\ \A n \in S : \A c \in 1 .. N : group[n][c] \subseteq sets[c]
    /\ \A c \in 1 .. N : \A i \in sets[c] : \E n \in S : i \in group[n][c]
    /\ \A m, n \in S : \A c \in 1 .. N : \A i : i \in group[m][c] /\ i \in group[n][c] => m = n

GroupSizes(size, group, S, N) == \A n \in S : Sizes(size[n], group[n], N)

GroupSums(b, size, list, M) == Numbers(b, M) /\ \A k \in 1 .. M : b[k] = Sum(size[list[k]])

\* Counted set by set or group by group, the members are as many.
LEMMA GroupsAdd ==
    ASSUME NEW N \in Nat, NEW sets, AllFinite(sets, N),
           NEW a, Sizes(a, sets, N),
           NEW S \in SUBSET Nat, IsFiniteSet(S), NEW group, Groups(group, sets, S, N),
           NEW list, Lists(list, S, Ascending(S)),
           NEW size, GroupSizes(size, group, S, N),
           NEW b, GroupSums(b, size, list, Cardinality(S))
    PROVE  Sum(b) = Sum(a)
<1> DEFINE M == Cardinality(S)
           all == Tagged(sets, N)
           part == [k \in 1 .. M |-> Tagged(group[list[k]], N)]
<1>1. /\ M \in Nat /\ \A k \in 1 .. M : list[k] \in S
      /\ \A j, k \in 1 .. M : list[j] = list[k] => j = k
      /\ \A n \in S : \E k \in 1 .. M : list[k] = n
  BY DEF Lists
<1>2. ASSUME NEW k \in 1 .. M
      PROVE  IsFiniteSet(part[k]) /\ Cardinality(part[k]) = b[k]
  <2>1. list[k] \in S
    BY <1>1
  <2>2. AllFinite(group[list[k]], N)
    <3> SUFFICES ASSUME NEW c \in 1 .. N PROVE IsFiniteSet(group[list[k]][c])
      BY DEF AllFinite
    <3>1. group[list[k]][c] \subseteq sets[c]
      BY <2>1 DEF Groups
    <3> QED
      BY <3>1, FS_Subset DEF AllFinite
  <2>3. Sizes(size[list[k]], group[list[k]], N)
    BY <2>1 DEF GroupSizes
  <2>4. /\ IsFiniteSet(Tagged(group[list[k]], N))
        /\ Sum(size[list[k]]) = Cardinality(Tagged(group[list[k]], N))
    BY <2>2, <2>3, TagsAdd
  <2>5. part[k] = Tagged(group[list[k]], N) /\ b[k] = Sum(size[list[k]])
    BY DEF GroupSums
  <2> QED
    BY <2>4, <2>5
<1>3. ASSUME NEW j \in 1 .. M, NEW k \in 1 .. M, NEW x, x \in part[j], x \in part[k]
      PROVE  j = k
  <2>1. x \in Tagged(group[list[j]], N) /\ x \in Tagged(group[list[k]], N)
    BY <1>3
  <2>2. PICK c \in 1 .. N : x \in {c} \X group[list[j]][c]
    BY <2>1 DEF Tagged
  <2>3. PICK d \in 1 .. N : x \in {d} \X group[list[k]][d]
    BY <2>1 DEF Tagged
  <2>4. c = d /\ x[2] \in group[list[j]][c] /\ x[2] \in group[list[k]][c]
    BY <2>2, <2>3
  <2>5. list[j] \in S /\ list[k] \in S
    BY <1>1
  <2>6. PICK m \in S, n \in S : m = list[j] /\ n = list[k]
    BY <2>5
  <2>7. x[2] \in group[m][c] /\ x[2] \in group[n][c]
    BY <2>4, <2>6
  <2>8. m = n
    BY <2>7 DEF Groups
  <2> QED
    BY <1>1, <2>6, <2>8
<1>4. UNION {part[k] : k \in 1 .. M} = all
  <2>1. ASSUME NEW k \in 1 .. M, NEW x \in part[k] PROVE x \in all
    <3>1. list[k] \in S /\ x \in Tagged(group[list[k]], N)
      BY <1>1, <2>1
    <3>2. PICK c \in 1 .. N : x \in {c} \X group[list[k]][c]
      BY <3>1 DEF Tagged
    <3>3. group[list[k]][c] \subseteq sets[c]
      BY <3>1 DEF Groups
    <3>4. x \in {c} \X sets[c]
      BY <3>2, <3>3
    <3> QED
      BY <3>4 DEF Tagged
  <2>2. ASSUME NEW x \in all PROVE \E k \in 1 .. M : x \in part[k]
    <3>1. PICK c \in 1 .. N : x \in {c} \X sets[c]
      BY <2>2 DEF Tagged
    <3>2. PICK i \in sets[c] : x = <<c, i>>
      BY <3>1
    <3>3. PICK n \in S : i \in group[n][c]
      BY DEF Groups
    <3>4. PICK k \in 1 .. M : list[k] = n
      BY <1>1
    <3>5. x \in {c} \X group[list[k]][c]
      BY <3>2, <3>3, <3>4
    <3>6. x \in Tagged(group[list[k]], N)
      BY <3>5 DEF Tagged
    <3> QED
      BY <3>6
  <2> HIDE DEF part, all
  <2> QED
    BY <2>1, <2>2
<1>5. IsFiniteSet(all) /\ Sum(a) = Cardinality(all)
  BY TagsAdd
<1> HIDE DEF part, all
<1>6. Apart(part, M)
  BY <1>2, <1>3 DEF Apart
<1>7. Sizes(b, part, M)
  BY <1>2 DEF Sizes, GroupSums
<1>8. M \in Nat
  BY <1>1
<1>9. Sum(b) = Cardinality(UNION {part[k] : k \in 1 .. M})
  <2> HIDE DEF M
  <2> QED
    BY <1>6, <1>7, <1>8, SizesAdd
<1> QED
  BY <1>4, <1>5, <1>9, Zenon

\* Numbers that are none of them more than others add up to no more.
LEMMA SumsGrow ==
    ASSUME NEW N \in Nat, NEW a, Numbers(a, N), NEW b, Numbers(b, N),
           \A k \in 1 .. N : a[k] <= b[k]
    PROVE  Sum(a) <= Sum(b)
<1>1. \A k \in 1 .. N : 1 * a[k] <= 1 * b[k]
  BY DEF Numbers
<1>2. Sum(a) \in Nat /\ Sum(b) \in Nat
  BY SumIsNatural
<1>3. 1 * Sum(a) <= 1 * Sum(b)
  BY <1>1, SumsCompare
<1> QED
  BY <1>2, <1>3

\* Where parts are taken of several totals, the overall share lies between two of the shares.
LEMMA SharesSurround ==
    ASSUME NEW N \in Nat, NEW part, Numbers(part, N), NEW total, Numbers(total, N),
           \A k \in 1 .. N : part[k] <= total[k],
           NEW P, P = Sum(part), NEW T, T = Sum(total), T > 0
    PROVE  /\ \E k \in 1 .. N : total[k] > 0 /\ P * total[k] <= T * part[k]
           /\ \E k \in 1 .. N : total[k] > 0 /\ T * part[k] <= P * total[k]
<1>1. P \in Nat /\ T \in Nat
  BY SumIsNatural
<1>2. PICK j \in 1 .. N : total[j] > 0
  <2> SUFFICES ASSUME \A k \in 1 .. N : ~(total[k] > 0) PROVE FALSE
    OBVIOUS
  <2>1. \A k \in 1 .. N : total[k] = total[k] + total[k]
    BY DEF Numbers
  <2>2. Sum(total) = Sum(total) + Sum(total)
    BY <2>1, SumsAdd
  <2> QED
    BY <1>1, <2>2
<1>3. ASSUME NEW k \in 1 .. N
      PROVE  /\ part[k] \in Nat /\ total[k] \in Nat
             /\ T * part[k] \in Nat /\ P * total[k] \in Nat
             /\ ~(total[k] > 0) => T * part[k] = P * total[k]
  <2>1. PICK x \in Nat, y \in Nat : x = part[k] /\ y = total[k] /\ x <= y
    BY DEF Numbers
  <2>2. T * x \in Nat /\ P * y \in Nat
    BY <1>1
  <2>3. CASE ~(y > 0)
    <3>1. x = 0 /\ y = 0
      BY <2>1, <2>3
    <3>2. T * 0 = 0 /\ P * 0 = 0
      BY <1>1
    <3> QED
      BY <2>1, <2>2, <3>1, <3>2
  <2> QED
    BY <2>1, <2>2, <2>3
<1>4. \E k \in 1 .. N : total[k] > 0 /\ P * total[k] <= T * part[k]
  <2> SUFFICES ASSUME \A k \in 1 .. N : ~(total[k] > 0 /\ P * total[k] <= T * part[k])
               PROVE  FALSE
    OBVIOUS
  <2>1. \A k \in 1 .. N : T * part[k] <= P * total[k]
    BY <1>3
  <2>2. T * part[j] < P * total[j]
    BY <1>2, <1>3
  <2>3. T * Sum(part) < P * Sum(total)
    BY <1>1, <2>1, <2>2, SumsCompare
  <2> QED
    BY <1>1, <2>3
<1>5. \E k \in 1 .. N : total[k] > 0 /\ T * part[k] <= P * total[k]
  <2> SUFFICES ASSUME \A k \in 1 .. N : ~(total[k] > 0 /\ T * part[k] <= P * total[k])
               PROVE  FALSE
    OBVIOUS
  <2>1. \A k \in 1 .. N : P * total[k] <= T * part[k]
    BY <1>3
  <2>2. P * total[j] < T * part[j]
    BY <1>2, <1>3
  <2>3. P * Sum(total) < T * Sum(part)
    BY <1>1, <2>1, <2>2, SumsCompare
  <2> QED
    BY <1>1, <2>3
<1> QED
  BY <1>4, <1>5
=============================================================================

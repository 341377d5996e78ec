-------------------------- MODULE TaskListsProofs --------------------------
(***************************************************************************)
(* What the operators of TaskLists return.                                 *)
(***************************************************************************)
EXTENDS TaskLists, FiniteSetTheorems, TLAPS

\* A set of numbers has a least element.
LEMMA LeastOf ==
  ASSUME NEW S \in SUBSET Nat, S # {}
  PROVE  \E n \in S : \A m \in S : n <= m
<1>1. PICK n \in S : \A m \in S : ~ (<<m, n>> \in OpToRel(<, Nat))
  BY NatLessThanWellFounded, WFMin
<1>2. \A m \in S : ~ (m < n)
  BY <1>1 DEF OpToRel
<1>3. ASSUME NEW m \in S PROVE n <= m
  <2>1. m \in Nat /\ n \in Nat /\ ~ (m < n)
    BY <1>2
  <2> QED
    BY <2>1
<1> QED
  BY <1>3

\* The listings of a finite set are duplicate-free sequences of all of it.
LEMMA ListingOf ==
  ASSUME NEW S, IsFiniteSet(S), NEW q \in SetToSeqs(S)
  PROVE  /\ q \in Seq(S)
         /\ q \in [1 .. Cardinality(S) -> S]
         /\ IsInjective(q)
         /\ ToSet(q) = S
<1> DEFINE n == Cardinality(S)
<1>1. n \in Nat
  BY FS_CardinalityType
<1>2. q \in [1 .. n -> S] /\ \A i, j \in 1 .. n : i # j => q[i] # q[j]
  BY DEF SetToSeqs
<1>3. q \in Seq(S)
  BY <1>1, <1>2
<1>4. IsInjective(q)
  BY <1>2 DEF IsInjective
<1>5. q \in Injection(1 .. n, S)
  BY <1>2, <1>4 DEF Injection
<1>6. Cardinality(1 .. n) = n
  BY <1>1, FS_Interval
<1>7. q \in Surjection(1 .. n, S)
  BY <1>5, <1>6, FS_Injection
<1>8. ToSet(q) = S
  BY <1>2, <1>7 DEF Surjection, ToSet
<1> QED
  BY <1>2, <1>3, <1>4, <1>8

\* p is the list f with x behind it.
LongerBy(p, f, x) ==
  /\ x \notin ToSet(f)
  /\ ToSet(p) = ToSet(f) \cup {x}
  /\ \A u, v \in ToSet(f) : Precedes(p, u, v) <=> Precedes(f, u, v)
  /\ \A u : ~Precedes(p, x, u)

\* A list that is not empty is a list with an element behind it.
LEMMA FrontOf ==
  ASSUME NEW T, NEW p \in Seq(T), IsInjective(p), NEW n \in Nat, Len(p) = n + 1
  PROVE  \E f \in Seq(T), x \in T : Len(f) = n /\ IsInjective(f) /\ LongerBy(p, f, x)
<1> DEFINE f == [i \in 1 .. n |-> p[i]]
<1>1. p \in [1 .. n + 1 -> T] /\ DOMAIN p = 1 .. n + 1
  OBVIOUS
<1>2. f \in [1 .. n -> T] /\ DOMAIN f = 1 .. n /\ \A i \in 1 .. n : f[i] = p[i]
  BY <1>1
<1>3. f \in Seq(T) /\ Len(f) = n
  BY <1>2
<1>4. IsInjective(f)
  BY <1>1, <1>2 DEF IsInjective
<1>5. p[n + 1] \in T /\ p[n + 1] \notin ToSet(f)
  <2>1. p[n + 1] \in T
    BY <1>1
  <2>2. \A i \in 1 .. n : p[i] # p[n + 1]
    BY <1>1 DEF IsInjective
  <2> QED
    BY <1>2, <2>1, <2>2 DEF ToSet
<1>6. ToSet(p) = ToSet(f) \cup {p[n + 1]}
  <2>1. \A i : i \in 1 .. n + 1 <=> i \in 1 .. n \/ i = n + 1
    OBVIOUS
  <2> QED
    BY <1>1, <1>2, <2>1 DEF ToSet
<1>7. ASSUME NEW x \in ToSet(f), NEW y \in ToSet(f)
      PROVE  Precedes(p, x, y) <=> Precedes(f, x, y)
  <2>1. ASSUME Precedes(p, x, y) PROVE Precedes(f, x, y)
    <3>1. PICK i \in 1 .. n + 1, j \in 1 .. n + 1 : i < j /\ p[i] = x /\ p[j] = y
      BY <1>1, <2>1 DEF Precedes
    <3>2. i # n + 1 /\ j # n + 1
      BY <1>5, <3>1
    <3> QED
      BY <1>2, <3>1, <3>2 DEF Precedes
  <2>2. ASSUME Precedes(f, x, y) PROVE Precedes(p, x, y)
    <3>1. PICK i \in 1 .. n, j \in 1 .. n : i < j /\ f[i] = x /\ f[j] = y
      BY <1>2, <2>2 DEF Precedes
    <3> QED
      BY <1>1, <1>2, <3>1 DEF Precedes
  <2> QED
    BY <2>1, <2>2
<1>8. ASSUME NEW x, Precedes(p, p[n + 1], x) PROVE FALSE
  <2>1. PICK i \in 1 .. n + 1, j \in 1 .. n + 1 : i < j /\ p[i] = p[n + 1]
    BY <1>1, <1>8 DEF Precedes
  <2>2. i = n + 1
    BY <1>1, <2>1 DEF IsInjective
  <2> QED
    BY <2>1, <2>2
<1>9. LongerBy(p, f, p[n + 1])
  BY <1>5, <1>6, <1>7, <1>8 DEF LongerBy
<1> QED
  BY <1>3, <1>4, <1>5, <1>9

\* The elements of a list are finitely many.
LEMMA ListIsFinite ==
  ASSUME NEW T, NEW p \in Seq(T), IsInjective(p)
  PROVE  /\ IsFiniteSet(ToSet(p))
         /\ Cardinality(ToSet(p)) = Len(p)
         /\ ToSet(p) \subseteq T
         /\ p \in SetToSeqs(ToSet(p))
<1> DEFINE n == Len(p)
<1>1. n \in Nat /\ p \in [1 .. n -> ToSet(p)] /\ DOMAIN p = 1 .. n
  BY DEF ToSet
<1>2. p \in Surjection(1 .. n, ToSet(p))
  BY <1>1 DEF Surjection, ToSet
<1>3. p \in Injection(1 .. n, ToSet(p))
  BY <1>1 DEF Injection, IsInjective
<1>4. IsFiniteSet(1 .. n) /\ Cardinality(1 .. n) = n
  BY <1>1, FS_Interval
<1>5. IsFiniteSet(ToSet(p)) /\ Cardinality(ToSet(p)) = n
  BY <1>2, <1>3, <1>4, FS_Surjection
<1>6. ToSet(p) \subseteq T
  BY DEF ToSet
<1>7. p \in SetToSeqs(ToSet(p))
  BY <1>1, <1>5 DEF SetToSeqs, IsInjective
<1> QED
  BY <1>5, <1>6, <1>7

\* A list of some elements is duplicate-free, and every such sequence is one.
LEMMA ListOf ==
  ASSUME NEW S, IsFiniteSet(S), NEW l \in Lists(S)
  PROVE  l \in Seq(S) /\ IsInjective(l) /\ Len(l) \in 0 .. Cardinality(S)
<1>1. PICK R \in SUBSET S : l \in SetToSeqs(R)
  BY DEF Lists, SetToAllKPermutations
<1>2. IsFiniteSet(R) /\ Cardinality(R) <= Cardinality(S)
  BY FS_Subset
<1>3. l \in Seq(R) /\ l \in [1 .. Cardinality(R) -> R] /\ IsInjective(l)
  BY <1>1, <1>2, ListingOf
<1>4. Cardinality(R) \in Nat /\ Cardinality(S) \in Nat
  BY <1>2, FS_CardinalityType
<1>5. Len(l) = Cardinality(R)
  BY <1>3, <1>4
<1> QED
  BY <1>2, <1>3, <1>4, <1>5

LEMMA IsList ==
  ASSUME NEW T, NEW p \in Seq(T), IsInjective(p), NEW S, ToSet(p) \subseteq S
  PROVE  p \in Lists(S)
<1>1. p \in SetToSeqs(ToSet(p)) /\ ToSet(p) \in SUBSET S
  BY ListIsFinite
<1> QED
  BY <1>1 DEF Lists, SetToAllKPermutations

\* The first elements of a list are a list.
LEMMA PrefixOf ==
  ASSUME NEW S, IsFiniteSet(S), NEW l \in Lists(S), NEW n \in 0 .. Len(l)
  PROVE  SubSeq(l, 1, n) \in Lists(S) /\ Len(SubSeq(l, 1, n)) = n
<1> DEFINE p == SubSeq(l, 1, n)
<1>1. l \in Seq(S) /\ IsInjective(l) /\ Len(l) \in Nat /\ DOMAIN l = 1 .. Len(l)
  BY ListOf
<1>2. p \in Seq(S) /\ Len(p) = n /\ DOMAIN p = 1 .. n /\ \A i \in 1 .. n : p[i] = l[i]
  BY <1>1
<1> HIDE DEF p
<1>3. \A i \in 1 .. n : i \in DOMAIN l
  BY <1>1
<1>4. IsInjective(p)
  BY <1>1, <1>2, <1>3 DEF IsInjective
<1>5. ToSet(p) \subseteq S
  BY <1>2, <1>4, ListIsFinite
<1> QED
  BY <1>2, <1>4, <1>5, IsList DEF p

\* There are lists of every length.
LEMMA ListExists ==
  ASSUME NEW S, IsFiniteSet(S), NEW n \in 0 .. Cardinality(S)
  PROVE  \E l \in Lists(S) : Len(l) = n
<1> DEFINE c == Cardinality(S)
<1>1. c \in Nat /\ ExistsBijection(1 .. c, S)
  BY FS_CardinalityType
<1>2. PICK q \in Bijection(1 .. c, S) : TRUE
  BY <1>1 DEF ExistsBijection
<1>3. q \in [1 .. c -> S] /\ \A i, j \in 1 .. c : q[i] = q[j] => i = j
  BY <1>2 DEF Bijection, Injection, IsInjective
<1>4. q \in Seq(S) /\ Len(q) = c /\ DOMAIN q = 1 .. c
  BY <1>1, <1>3
<1>5. IsInjective(q)
  BY <1>3, <1>4 DEF IsInjective
<1>6. ToSet(q) \subseteq S
  BY <1>4, <1>5, ListIsFinite
<1>7. q \in Lists(S)
  BY <1>4, <1>5, <1>6, IsList
<1> QED
  BY <1>4, <1>7, PrefixOf

\* From a listing that keeps the order of a list, its last element can be left
\* out or appended.
LEMMA KeepingGrows ==
  ASSUME NEW T, NEW p, NEW f \in Seq(T), IsInjective(f), NEW x, LongerBy(p, f, x),
         NEW S, NEW q \in Keeping(f, ToSet(f) \ S)
  PROVE  Keeping(p, ToSet(p) \ S) # {}
<1> DEFINE R == ToSet(f) \ S
<1>1. /\ x \notin ToSet(f)
      /\ ToSet(p) = ToSet(f) \cup {x}
      /\ \A u, v \in ToSet(f) : Precedes(p, u, v) <=> Precedes(f, u, v)
      /\ \A u : ~Precedes(p, x, u)
  BY DEF LongerBy
<1>2. IsFiniteSet(R)
  <2>1. IsFiniteSet(ToSet(f))
    BY ListIsFinite
  <2> QED
    BY <2>1, FS_Subset
<1>3. q \in SetToSeqs(R) /\ \A u, v \in R : Precedes(f, u, v) => Precedes(q, u, v)
  BY DEF Keeping
<1>4. q \in Seq(R) /\ q \in [1 .. Cardinality(R) -> R] /\ IsInjective(q) /\ ToSet(q) = R
  BY <1>2, <1>3, ListingOf
<1>5. R \subseteq ToSet(f) /\ ToSet(f) \ S = R
  OBVIOUS
<1> HIDE DEF R
<1>6. CASE x \in S
  <2>1. ToSet(p) \ S = R
    BY <1>1, <1>5, <1>6
  <2>2. q \in Keeping(p, R)
    BY <1>1, <1>3, <1>5 DEF Keeping
  <2> QED
    BY <2>1, <2>2
<1>7. CASE x \notin S
  <2> DEFINE m == Cardinality(R)
             r == [i \in 1 .. m + 1 |-> IF i = m + 1 THEN x ELSE q[i]]
             Q == R \cup {x}
  <2>1. ToSet(p) \ S = Q
    BY <1>1, <1>5, <1>7
  <2>2. m \in Nat /\ Cardinality(Q) = m + 1
    <3>1. x \notin R
      BY <1>1, <1>5
    <3> QED
      BY <1>2, <3>1, FS_CardinalityType, FS_AddElement
  <2>3. q \in [1 .. m -> R]
    BY <1>4
  <2>3a. x \notin R
    BY <1>1, <1>5
  <2> HIDE DEF m
  <2>4. r \in [1 .. m + 1 -> Q]
    BY <2>2, <2>3
  <2>5. \A i, j \in 1 .. m + 1 : i # j => r[i] # r[j]
    BY <1>4, <2>2, <2>3, <2>3a DEF IsInjective, m
  <2>6. r \in SetToSeqs(Q)
    BY <2>2, <2>4, <2>5 DEF SetToSeqs
  <2>7. \A i \in 1 .. m : i \in DOMAIN r /\ r[i] = q[i]
    BY <2>2
  <2>8. m + 1 \in DOMAIN r /\ r[m + 1] = x
    BY <2>2
  <2>9. ASSUME NEW u \in Q, NEW v \in Q, Precedes(p, u, v)
        PROVE  Precedes(r, u, v)
    <3>1. u # x
      BY <1>1, <2>9
    <3>2. u \in R
      BY <3>1
    <3>3. CASE v = x
      <4>1. PICK i \in 1 .. m : q[i] = u
        BY <1>4, <3>2 DEF ToSet, m
      <4> QED
        BY <2>2, <2>7, <2>8, <3>3, <4>1 DEF Precedes
    <3>4. CASE v # x
      <4>1. Precedes(f, u, v) /\ v \in R
        BY <1>1, <1>5, <2>9, <3>2, <3>4
      <4>2. Precedes(q, u, v)
        BY <1>3, <3>2, <4>1
      <4>3. PICK i \in 1 .. m, j \in 1 .. m : i < j /\ q[i] = u /\ q[j] = v
        BY <1>4, <4>2 DEF Precedes, m
      <4> QED
        BY <2>7, <4>3 DEF Precedes
    <3> QED
      BY <3>3, <3>4
  <2>10. r \in Keeping(p, Q)
    BY <2>6, <2>9 DEF Keeping
  <2> QED
    BY <2>1, <2>10
<1> QED
  BY <1>6, <1>7

\* Elements can always be taken out of a list without changing the order.  By
\* the smallest counterexample, over the length.
LEMMA KeepingExists ==
  ASSUME NEW T, NEW S, NEW p \in Seq(T), IsInjective(p)
  PROVE  Keeping(p, ToSet(p) \ S) # {}
<1> DEFINE Stuck == {n \in Nat : \E r \in Seq(T) : /\ IsInjective(r) /\ Len(r) = n
                                                  /\ Keeping(r, ToSet(r) \ S) = {}}
<1>1. SUFFICES ASSUME Keeping(p, ToSet(p) \ S) = {} PROVE FALSE
  OBVIOUS
<1>2. Stuck # {} /\ Stuck \subseteq Nat
  <2>1. Len(p) \in Nat
    OBVIOUS
  <2>2. Len(p) \in Stuck
    BY <1>1, <2>1
  <2> QED
    BY <2>2
<1>3. PICK n \in Stuck : \A m \in Stuck : ~(<<m, n>> \in OpToRel(<, Nat))
  BY <1>2, NatLessThanWellFounded, WFMin
<1>4. \A m \in Stuck : ~(m < n)
  BY <1>3 DEF OpToRel
<1>5. PICK r \in Seq(T) : /\ IsInjective(r) /\ Len(r) = n
                          /\ Keeping(r, ToSet(r) \ S) = {}
  OBVIOUS
<1>6. CASE n = 0
  <2>1. ToSet(r) \ S = {} /\ r = <<>>
    BY <1>5, <1>6 DEF ToSet
  <2>2. Cardinality({}) = 0
    BY FS_EmptySet
  <2>3. r \in SetToSeqs({})
    BY <1>5, <2>1, <2>2 DEF SetToSeqs
  <2>4. r \in Keeping(r, {})
    BY <2>3 DEF Keeping
  <2> QED
    BY <1>5, <2>1, <2>4
<1>7. CASE n # 0
  <2>1. PICK m \in Nat : n = m + 1
    <3>1. n - 1 \in Nat /\ n = (n - 1) + 1
      BY <1>7
    <3> QED
      BY <3>1
  <2>2. PICK f \in Seq(T), x \in T : Len(f) = m /\ IsInjective(f) /\ LongerBy(r, f, x)
    BY <1>5, <2>1, FrontOf
  <2>3. Keeping(f, ToSet(f) \ S) # {}
    <3>1. m \notin Stuck
      <4> HIDE DEF Stuck
      <4> QED
        BY <1>2, <1>4, <2>1
    <3> QED
      BY <2>2, <3>1
  <2>4. PICK q : q \in Keeping(f, ToSet(f) \ S)
    BY <2>3
  <2>5. Keeping(r, ToSet(r) \ S) # {}
    BY <2>2, <2>4, KeepingGrows
  <2> QED
    BY <1>5, <2>5
<1> QED
  BY <1>6, <1>7

\* A listing that keeps an order is a list of what it should hold.
LEMMA KeepingOf ==
  ASSUME NEW p, NEW S, IsFiniteSet(S), NEW q \in Keeping(p, S)
  PROVE  /\ q \in Seq(S) /\ IsInjective(q) /\ ToSet(q) = S
         /\ \A x, y \in S : Precedes(p, x, y) => Precedes(q, x, y)
<1>1. q \in SetToSeqs(S)
  BY DEF Keeping
<1> QED
  BY <1>1, ListingOf DEF Keeping

\* Without removes the elements it should remove and no other; if the head
\* stays, it stays the head.
LEMMA WithoutOf ==
  ASSUME NEW T, NEW S, NEW p \in Seq(T), IsInjective(p)
  PROVE  LET q == Without(p, S)
         IN  /\ q \in Seq(T) /\ IsInjective(q) /\ ToSet(q) = ToSet(p) \ S
             /\ p # <<>> /\ Head(p) \notin S => q # <<>> /\ Head(q) = Head(p)
<1> DEFINE R == ToSet(p) \ S
           q == Without(p, S)
<1>1. q \in Keeping(p, R)
  BY KeepingExists DEF Without
<1>2. IsFiniteSet(R) /\ R \subseteq T
  <2>1. IsFiniteSet(ToSet(p)) /\ ToSet(p) \subseteq T
    BY ListIsFinite
  <2> QED
    BY <2>1, FS_Subset
<1> HIDE DEF q
<1>3. /\ q \in Seq(R) /\ IsInjective(q) /\ ToSet(q) = R
      /\ \A x, y \in R : Precedes(p, x, y) => Precedes(q, x, y)
  <2> HIDE DEF R
  <2> QED
    BY <1>1, <1>2, KeepingOf
<1>4. q \in Seq(T)
  BY <1>2, <1>3
<1>5. ASSUME p # <<>>, Head(p) \notin S PROVE q # <<>> /\ Head(q) = Head(p)
  <2>1. Head(p) = p[1] /\ 1 \in DOMAIN p /\ Head(p) \in R
    BY <1>5 DEF ToSet
  <2>2. q # <<>>
    BY <1>3, <2>1 DEF ToSet
  <2>3. q[1] \in R /\ 1 \in DOMAIN q /\ Head(q) = q[1]
    BY <1>3, <2>2
  <2>4. SUFFICES ASSUME q[1] # Head(p) PROVE FALSE
    BY <2>2, <2>3
  <2>5. PICK i \in DOMAIN p : p[i] = q[1]
    BY <2>3 DEF ToSet
  <2>6. Precedes(p, Head(p), q[1])
    <3>1. 1 < i
      BY <2>1, <2>4, <2>5
    <3> QED
      BY <2>1, <2>5, <3>1 DEF Precedes
  <2>7. Precedes(q, Head(p), q[1])
    BY <1>3, <2>1, <2>3, <2>6
  <2>8. PICK j \in DOMAIN q, k \in DOMAIN q : j < k /\ q[k] = q[1]
    BY <2>7 DEF Precedes
  <2>9. k = 1
    BY <1>3, <2>3, <2>8 DEF IsInjective
  <2> QED
    BY <1>3, <2>8, <2>9
<1> QED
  BY <1>3, <1>4, <1>5 DEF q

\* Two lists without a common element are one list when put together.
LEMMA ConcatOf ==
  ASSUME NEW T, NEW p \in Seq(T), NEW q \in Seq(T), IsInjective(p), IsInjective(q),
         ToSet(p) \cap ToSet(q) = {}
  PROVE  /\ p \o q \in Seq(T)
         /\ IsInjective(p \o q)
         /\ ToSet(p \o q) = ToSet(p) \cup ToSet(q)
<1> DEFINE m == Len(p)
           n == Len(q)
           r == p \o q
<1>1. m \in Nat /\ n \in Nat /\ DOMAIN p = 1 .. m /\ DOMAIN q = 1 .. n
  OBVIOUS
<1>2. r \in Seq(T) /\ DOMAIN r = 1 .. m + n
  OBVIOUS
<1>3. \A i \in 1 .. m : r[i] = p[i]
  OBVIOUS
<1>4. \A i \in 1 .. n : r[m + i] = q[i]
  OBVIOUS
<1>5. \A i \in 1 .. m + n : i \in 1 .. m \/ \E j \in 1 .. n : i = m + j
  <2>1. ASSUME NEW i \in 1 .. m + n, i \notin 1 .. m PROVE i - m \in 1 .. n /\ i = m + (i - m)
    BY <1>1, <2>1
  <2> QED
    BY <2>1
<1>6. \A i \in 1 .. m : \A j \in 1 .. n : p[i] # q[j]
  BY <1>1 DEF ToSet
<1> HIDE DEF m, n, r
<1>7. ASSUME NEW i \in 1 .. m + n, NEW j \in 1 .. m + n, r[i] = r[j] PROVE i = j
  <2>1. CASE i \in 1 .. m /\ j \in 1 .. m
    BY <1>1, <1>3, <1>7, <2>1 DEF IsInjective
  <2>2. CASE i \in 1 .. m /\ \E h \in 1 .. n : j = m + h
    BY <1>3, <1>4, <1>6, <1>7, <2>2
  <2>3. CASE j \in 1 .. m /\ \E h \in 1 .. n : i = m + h
    BY <1>3, <1>4, <1>6, <1>7, <2>3
  <2>4. CASE (\E h \in 1 .. n : i = m + h) /\ \E h \in 1 .. n : j = m + h
    <3>1. PICK h \in 1 .. n, k \in 1 .. n : i = m + h /\ j = m + k
      BY <2>4
    <3>2. q[h] = q[k]
      BY <1>4, <1>7, <3>1
    <3> QED
      BY <1>1, <3>1, <3>2 DEF IsInjective
  <2> QED
    BY <1>5, <2>1, <2>2, <2>3, <2>4
<1>8. IsInjective(r)
  BY <1>2, <1>7 DEF IsInjective
<1>9. ToSet(r) = ToSet(p) \cup ToSet(q)
  <2>1. \A i \in 1 .. m : i \in 1 .. m + n
    BY <1>1
  <2>2. \A i \in 1 .. n : m + i \in 1 .. m + n
    BY <1>1
  <2>3. ToSet(p) \cup ToSet(q) \subseteq ToSet(r)
    BY <1>1, <1>2, <1>3, <1>4, <2>1, <2>2 DEF ToSet
  <2>4. ToSet(r) \subseteq ToSet(p) \cup ToSet(q)
    <3>1. ASSUME NEW i \in 1 .. m + n PROVE r[i] \in ToSet(p) \cup ToSet(q)
      <4>1. CASE i \in 1 .. m
        BY <1>1, <1>3, <4>1 DEF ToSet
      <4>2. CASE \E h \in 1 .. n : i = m + h
        BY <1>1, <1>4, <4>2 DEF ToSet
      <4> QED
        BY <1>5, <4>1, <4>2
    <3> QED
      BY <1>2, <3>1 DEF ToSet
  <2> QED
    BY <2>3, <2>4
<1> QED
  BY <1>2, <1>8, <1>9 DEF r

=============================================================================

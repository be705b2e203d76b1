---------------------------- MODULE Lists_proofs ----------------------------
(***************************************************************************)
(* Lemmas about lists from which elements are unlinked: the type, the      *)
(* length, the range and the order of what is left.                        *)
(***************************************************************************)
EXTENDS Lists, Integers, TLAPS, SequenceTheorems, FiniteSetTheorems,
        WellFoundedInduction

\* Every non-empty set of naturals has a least element.
LEMMA LeastNatural ==
    ASSUME NEW T \in SUBSET Nat, T # {}
    PROVE  \E m \in T : \A k \in T : m <= k
<1> DEFINE Less == OpToRel(<, Nat)
<1>1. IsWellFoundedOn(Less, Nat)
  BY NatLessThanWellFounded
<1> HIDE DEF Less
<1>2. PICK m \in T : \A k \in T : ~(<<k, m>> \in Less)
  BY <1>1, WFMin
<1>3. \A k \in T : ~(k < m)
  BY <1>2 DEF Less, OpToRel
<1> QED
  BY <1>3

\* The positions of K up to k.
UpTo(K, k) == {j \in K : j <= k}

\* A set of positions, and its part up to k, are finite.
LEMMA FinitePositions ==
    ASSUME NEW len \in Nat, NEW K \in SUBSET (1 .. len), NEW k \in Nat
    PROVE  /\ IsFiniteSet(K) /\ Cardinality(K) \in Nat
           /\ IsFiniteSet(UpTo(K, k)) /\ Cardinality(UpTo(K, k)) \in Nat
<1>1. IsFiniteSet(1 .. len)
  BY FS_Interval
<1>2. IsFiniteSet(K)
  BY <1>1, FS_Subset
<1>3. UpTo(K, k) \subseteq K
  BY DEF UpTo
<1>4. IsFiniteSet(UpTo(K, k))
  BY <1>2, <1>3, FS_Subset
<1> QED
  BY <1>2, <1>4, FS_CardinalityType

\* Nth finds the n-th position of a finite set of positions.
LEMMA NthInSet ==
    ASSUME NEW len \in Nat, NEW K \in SUBSET (1 .. len),
           NEW n \in 1 .. Cardinality(K)
    PROVE  Nth(K, n) \in K /\ Cardinality(UpTo(K, Nth(K, n))) = n
<1> DEFINE Count(k) == Cardinality(UpTo(K, k))
           T == {k \in 1 .. len : Count(k) >= n}
<1>0. \A j \in K : j \in Int /\ 1 <= j /\ j <= len
  OBVIOUS
<1>1. Cardinality(K) \in Nat /\ \A k \in Nat : Count(k) \in Nat /\ IsFiniteSet(UpTo(K, k))
  BY FinitePositions
<1>2. Count(0) = 0
  <2>1. \A j \in K : ~(j <= 0)
    BY <1>0
  <2> UpTo(K, 0) = {}
    BY <2>1 DEF UpTo
  <2> QED
    BY FS_EmptySet
<1>3. Count(len) = Cardinality(K)
  <2> UpTo(K, len) = K
    BY <1>0 DEF UpTo
  <2> QED
    OBVIOUS
<1>4. \A k \in 1 .. len : Count(k) = IF k \in K THEN Count(k - 1) + 1 ELSE Count(k - 1)
  <2> TAKE k \in 1 .. len
  <2>1. k - 1 \in Nat /\ \A j \in K : (j <= k <=> (j <= k - 1 \/ j = k)) /\ (j = k => ~(j <= k - 1))
    BY <1>0
  <2>2. CASE k \in K
    <3>1. UpTo(K, k) = UpTo(K, k - 1) \cup {k}
      BY <2>1, <2>2, Zenon DEF UpTo
    <3>2. k \notin UpTo(K, k - 1)
      BY DEF UpTo
    <3>3. IsFiniteSet(UpTo(K, k - 1))
      BY <1>1, <2>1
    <3> QED
      BY <2>2, <3>1, <3>2, <3>3, FS_AddElement
  <2>3. CASE k \notin K
    <3> UpTo(K, k) = UpTo(K, k - 1)
      BY <2>1, <2>3, Zenon DEF UpTo
    <3> QED
      BY <2>3
  <2> QED
    BY <2>2, <2>3
<1> HIDE DEF Count
<1>5. len \in T
  BY <1>1, <1>2, <1>3
<1>6. PICK m \in T : \A k \in T : m <= k
  <2> T \in SUBSET Nat /\ T # {}
    BY <1>5
  <2> QED
    BY LeastNatural
<1>7. m \in 1 .. len /\ Count(m) >= n /\ m - 1 \in Nat
  BY <1>6
<1>8. Count(m - 1) < n
  <2>1. CASE m = 1
    BY <2>1, <1>1, <1>2
  <2>2. CASE m > 1
    <3>1. m - 1 \in 1 .. len /\ m - 1 \notin T
      BY <1>6, <1>7, <2>2
    <3> QED
      BY <1>1, <1>7, <3>1
  <2> QED
    BY <1>7, <2>1, <2>2
<1>9. m \in K /\ Count(m) = n
  BY <1>1, <1>4, <1>7, <1>8
<1> QED
  BY <1>9 DEF Nth, UpTo, Count

\* Pick returns a list of elements of the list it picks from.
LEMMA PickType ==
    ASSUME NEW S, NEW s \in Seq(S), NEW K \in SUBSET (1 .. Len(s))
    PROVE  /\ Pick(s, K) \in Seq(S)
           /\ Len(Pick(s, K)) = Cardinality(K)
           /\ Cardinality(K) \in Nat
<1>1. Cardinality(K) \in Nat
  BY FinitePositions, Len(s) \in Nat, 0 \in Nat
<1>2. \A n \in 1 .. Cardinality(K) : s[Nth(K, n)] \in S
  <2> TAKE n \in 1 .. Cardinality(K)
  <2> Nth(K, n) \in 1 .. Len(s)
    BY NthInSet, Len(s) \in Nat
  <2> QED
    BY ElementOfSeq
<1> QED
  BY <1>1, <1>2 DEF Pick

\* A position of K counts more positions up to itself than any smaller number.
LEMMA CountGrows ==
    ASSUME NEW len \in Nat, NEW K \in SUBSET (1 .. len), NEW k \in K,
           NEW j \in Nat, j < k
    PROVE  Cardinality(UpTo(K, j)) < Cardinality(UpTo(K, k))
<1>1. k \in Nat
  OBVIOUS
<1>2. /\ IsFiniteSet(UpTo(K, j)) /\ Cardinality(UpTo(K, j)) \in Nat
      /\ IsFiniteSet(UpTo(K, k)) /\ Cardinality(UpTo(K, k)) \in Nat
  BY <1>1, FinitePositions
<1>3. k \notin UpTo(K, j) /\ UpTo(K, j) \cup {k} \subseteq UpTo(K, k)
  <2>1. \A i \in K : i \in Int
    OBVIOUS
  <2>2. ~(k <= j) /\ k <= k /\ \A i \in K : i <= j => i <= k
    BY <1>1, <2>1
  <2> QED
    BY <2>2, Zenon DEF UpTo
<1>4. Cardinality(UpTo(K, j) \cup {k}) = Cardinality(UpTo(K, j)) + 1
  BY <1>2, <1>3, FS_AddElement
<1>5. Cardinality(UpTo(K, j) \cup {k}) <= Cardinality(UpTo(K, k))
  BY <1>2, <1>3, FS_Subset
<1> QED
  BY <1>2, <1>4, <1>5

\* Nth enumerates the positions in their order.
LEMMA NthGrows ==
    ASSUME NEW len \in Nat, NEW K \in SUBSET (1 .. len),
           NEW m \in 1 .. Cardinality(K), NEW n \in 1 .. Cardinality(K), m < n
    PROVE  Nth(K, m) < Nth(K, n)
<1>1. /\ Nth(K, m) \in K /\ Cardinality(UpTo(K, Nth(K, m))) = m
      /\ Nth(K, n) \in K /\ Cardinality(UpTo(K, Nth(K, n))) = n
  BY NthInSet
<1>2. Nth(K, m) \in Nat /\ Nth(K, n) \in Nat /\ m \in Int /\ n \in Int
  <2>1. \A i \in K : i \in Nat
    OBVIOUS
  <2>2. Cardinality(K) \in Nat
    BY FinitePositions, 0 \in Nat
  <2>3. m \in Int /\ n \in Int
    BY <2>2
  <2> QED
    BY <1>1, <2>1, <2>3, Zenon
<1>3. CASE Nth(K, n) < Nth(K, m)
  <2> n < m
    BY <1>1, <1>2, <1>3, CountGrows
  <2> QED
    BY <1>2
<1>4. CASE Nth(K, n) = Nth(K, m)
  BY <1>1, <1>2, <1>4
<1> QED
  BY <1>2, <1>3, <1>4

\* Nth enumerates every position.
LEMMA NthReaches ==
    ASSUME NEW len \in Nat, NEW K \in SUBSET (1 .. len), NEW k \in K
    PROVE  \E n \in 1 .. Cardinality(K) : Nth(K, n) = k
<1> DEFINE n == Cardinality(UpTo(K, k))
<1>1. k \in Nat /\ \A i \in K : i \in Nat
  OBVIOUS
<1>2. IsFiniteSet(K) /\ Cardinality(K) \in Nat /\ IsFiniteSet(UpTo(K, k)) /\ n \in Nat
  BY <1>1, FinitePositions
<1>3. n <= Cardinality(K)
  <2> UpTo(K, k) \subseteq K
    BY DEF UpTo
  <2> QED
    BY <1>2, FS_Subset
<1>4. n # 0
  <2> k \in UpTo(K, k)
    BY <1>1 DEF UpTo
  <2> QED
    BY <1>2, FS_EmptySet
<1>5. n \in 1 .. Cardinality(K)
  BY <1>2, <1>3, <1>4
<1> HIDE DEF n
<1>6. Nth(K, n) \in K /\ Cardinality(UpTo(K, Nth(K, n))) = n
  BY <1>5, NthInSet
<1>7. Nth(K, n) \in Nat
  BY <1>1, <1>6
<1>8. ~(Nth(K, n) < k)
  <2> SUFFICES ASSUME Nth(K, n) < k PROVE FALSE
    OBVIOUS
  <2> Cardinality(UpTo(K, Nth(K, n))) < Cardinality(UpTo(K, k))
    BY <1>7, CountGrows
  <2> QED
    BY <1>2, <1>6 DEF n
<1>9. ~(k < Nth(K, n))
  <2> SUFFICES ASSUME k < Nth(K, n) PROVE FALSE
    OBVIOUS
  <2> Cardinality(UpTo(K, k)) < Cardinality(UpTo(K, Nth(K, n)))
    BY <1>1, <1>6, CountGrows
  <2> QED
    BY <1>2, <1>6 DEF n
<1> QED
  BY <1>1, <1>5, <1>7, <1>8, <1>9

\* w is made of the elements of s that are not in out, each of them, in the
\* order of s.
LeftOf(w, s, out) ==
    /\ \A n \in 1 .. Len(w) : \E k \in 1 .. Len(s) : w[n] = s[k] /\ s[k] \notin out
    /\ \A k \in 1 .. Len(s) : s[k] \notin out => \E n \in 1 .. Len(w) : w[n] = s[k]
    /\ \A m, n \in 1 .. Len(w) :
          m < n => \E j, k \in 1 .. Len(s) : j < k /\ w[m] = s[j] /\ w[n] = s[k]

\* The loop that unlinks out leaves everything else, in its order.
LEMMA WithoutFacts ==
    ASSUME NEW S, NEW s \in Seq(S), NEW out
    PROVE  /\ Without(s, out) \in Seq(S)
           /\ Len(Without(s, out)) = Cardinality({k \in 1 .. Len(s) : s[k] \notin out})
           /\ LeftOf(Without(s, out), s, out)
<1> DEFINE K == {k \in 1 .. Len(s) : s[k] \notin out}
           w == Without(s, out)
<1>1. Len(s) \in Nat /\ K \in SUBSET (1 .. Len(s))
  OBVIOUS
<1>2. w = Pick(s, K)
  BY DEF Without
<1>3. w \in Seq(S) /\ Len(w) = Cardinality(K) /\ Cardinality(K) \in Nat
  BY <1>1, <1>2, PickType
<1>4. \A k \in 1 .. Len(s) : k \in K <=> s[k] \notin out
  OBVIOUS
<1> HIDE DEF K
<1>5. \A n \in 1 .. Len(w) : w[n] = s[Nth(K, n)] /\ Nth(K, n) \in K
  BY <1>1, <1>2, <1>3, NthInSet DEF Pick
<1>6. \A n \in 1 .. Len(w) : \E k \in 1 .. Len(s) : w[n] = s[k] /\ s[k] \notin out
  BY <1>1, <1>4, <1>5
<1>7. \A k \in 1 .. Len(s) : s[k] \notin out => \E n \in 1 .. Len(w) : w[n] = s[k]
  <2> TAKE k \in 1 .. Len(s)
  <2> HAVE s[k] \notin out
  <2>1. PICK n \in 1 .. Cardinality(K) : Nth(K, n) = k
    BY <1>1, <1>4, NthReaches
  <2> QED
    BY <1>3, <1>5, <2>1
<1>8. \A m, n \in 1 .. Len(w) :
         m < n => \E j, k \in 1 .. Len(s) : j < k /\ w[m] = s[j] /\ w[n] = s[k]
  <2> TAKE m, n \in 1 .. Len(w)
  <2> HAVE m < n
  <2>1. Nth(K, m) < Nth(K, n)
    BY <1>1, <1>3, NthGrows
  <2> QED
    BY <1>1, <1>5, <2>1
<1> QED
  BY <1>3, <1>6, <1>7, <1>8, Zenon DEF K, LeftOf

\* Without an element twice, a list loses as many places as elements.
LEMMA WithoutCount ==
    ASSUME NEW S, NEW s \in Seq(S), NEW out,
           \A i, j \in 1 .. Len(s) : i < j => s[i] # s[j],
           \A x \in out : \E i \in 1 .. Len(s) : s[i] = x
    PROVE  IsFiniteSet(out) /\ Len(Without(s, out)) = Len(s) - Cardinality(out)
<1> DEFINE n == Len(s)
           P == {k \in 1 .. n : s[k] \in out}
           K == {k \in 1 .. n : s[k] \notin out}
           f == [k \in P |-> s[k]]
<1>1. n \in Nat
  OBVIOUS
<1>2. IsFiniteSet(1 .. n) /\ Cardinality(1 .. n) = n
  <2> HIDE DEF n
  <2>1. 1 \in Int /\ n \in Int
    BY <1>1
  <2>2. IsFiniteSet(1 .. n) /\ Cardinality(1 .. n) = IF 1 > n THEN 0 ELSE n - 1 + 1
    BY <2>1, FS_Interval, Zenon
  <2> QED
    BY <1>1, <2>2
<1>3. IsFiniteSet(P)
  BY <1>2, FS_Subset
<1>4. f \in Bijection(P, out)
  <2>1. f \in [P -> out]
    OBVIOUS
  <2>2. \A i, j \in P : f[i] = f[j] => i = j
    <3> TAKE i, j \in P
    <3> HAVE f[i] = f[j]
    <3>1. i \in 1 .. n /\ j \in 1 .. n /\ s[i] = s[j]
      OBVIOUS
    <3>2. ~(i < j) /\ ~(j < i)
      BY <3>1
    <3> QED
      BY <1>1, <3>1, <3>2
  <2>3. \A x \in out : \E i \in P : f[i] = x
    OBVIOUS
  <2> HIDE DEF f, P
  <2>4. DOMAIN f = P
    BY <2>1
  <2> QED
    BY <2>1, <2>2, <2>3, <2>4, Zenon DEF Bijection, Injection, Surjection, IsInjective
<1>5. IsFiniteSet(out) /\ Cardinality(out) = Cardinality(P)
  <2> HIDE DEF f, P
  <2>1. ExistsBijection(P, out)
    BY <1>4 DEF ExistsBijection
  <2> QED
    BY <1>3, <2>1, FS_Bijection
<1>6. K = (1 .. n) \ P /\ (1 .. n) \cap P = P
  OBVIOUS
<1>7. Cardinality(K) = n - Cardinality(P)
  <2> HIDE DEF K, P
  <2> Cardinality((1 .. n) \ P) = Cardinality(1 .. n) - Cardinality((1 .. n) \cap P)
    BY <1>2, FS_Difference
  <2> QED
    BY <1>2, <1>6
<1>8. Len(Without(s, out)) = Cardinality(K)
  BY WithoutFacts
<1> QED
  BY <1>5, <1>7, <1>8

-----------------------------------------------------------------------------
(* The loops that keep everything or nothing.                              *)

\* Picking every position gives the list back.
LEMMA PickAll ==
    ASSUME NEW S, NEW s \in Seq(S)
    PROVE  Pick(s, 1 .. Len(s)) = s
<1> DEFINE K == 1 .. Len(s)
<1>1. Len(s) \in Nat /\ s = [n \in 1 .. Len(s) |-> s[n]]
  OBVIOUS
<1>2. Cardinality(K) = Len(s)
  <2> Len(s) \in Int /\ 1 \in Int /\ (1 > Len(s) => Len(s) = 0)
      /\ (~(1 > Len(s)) => Len(s) - 1 + 1 = Len(s))
    BY <1>1
  <2> QED
    BY FS_Interval
<1>3. ASSUME NEW n \in K PROVE Nth(K, n) = n
  <2>1. K \in SUBSET (1 .. Len(s)) /\ n \in 1 .. Cardinality(K)
    BY <1>2
  <2> DEFINE m == Nth(K, n)
  <2>2. m \in K /\ Cardinality(UpTo(K, m)) = n
    BY <1>1, <2>1, NthInSet
  <2> HIDE DEF m
  <2>3. UpTo(K, m) = 1 .. m
    BY <1>1, <2>2 DEF UpTo
  <2>4. Cardinality(1 .. m) = m
    <3> m \in Int /\ 1 \in Int /\ ~(1 > m) /\ m - 1 + 1 = m
      BY <1>1, <2>2
    <3> QED
      BY FS_Interval
  <2> QED
    BY <2>2, <2>3, <2>4 DEF m
<1> HIDE DEF K
<1>4. Pick(s, K) = [n \in 1 .. Len(s) |-> s[n]]
  <2>1. \A n \in 1 .. Len(s) : s[Nth(K, n)] = s[n]
    BY <1>3 DEF K
  <2> QED
    BY <1>2, <2>1 DEF Pick
<1> QED
  BY <1>1, <1>4 DEF K

\* Picking no position gives the empty list.
LEMMA PickNone ==
    ASSUME NEW S, NEW s \in Seq(S)
    PROVE  Pick(s, {}) = <<>>
<1>1. {} \in SUBSET (1 .. Len(s)) /\ Cardinality({}) = 0
  BY FS_EmptySet
<1>2. Pick(s, {}) \in Seq(S) /\ Len(Pick(s, {})) = 0
  BY <1>1, PickType
<1> QED
  BY <1>2

-----------------------------------------------------------------------------
(* Recursive functions on an interval, by a least counterexample.          *)

\* The equation of a recursion on lo .. n that starts with a.
Solves(g, lo, n, a, F) ==
    g = [i \in lo .. n |-> IF i = lo THEN a ELSE F[<<i, g[i - 1]>>]]

\* A function that satisfies the equation of a recursion on lo .. n has its
\* values where the steps of the recursion have theirs.
LEMMA RecursionType ==
    ASSUME NEW S, NEW lo \in Nat, NEW n \in Nat, NEW a \in S,
           NEW F \in [(lo .. n) \X S -> S],
           NEW g, Solves(g, lo, n, a, F)
    PROVE  g \in [lo .. n -> S]
<1> USE DEF Solves
<1> DEFINE Bad == {i \in lo .. n : g[i] \notin S}
<1>1. SUFFICES ASSUME Bad # {} PROVE FALSE
  <2> SUFFICES ASSUME NEW i \in lo .. n PROVE g[i] \in S
    OBVIOUS
  <2> QED
    BY <1>1
<1>2. Bad \in SUBSET Nat
  OBVIOUS
<1>3. PICK m \in Bad : \A k \in Bad : m <= k
  BY <1>1, <1>2, LeastNatural
<1>4. m \in lo .. n /\ g[m] \notin S
  BY <1>3
<1>5. CASE m = lo
  BY <1>4, <1>5
<1>6. CASE m # lo
  <2>1. m - 1 \in lo .. n /\ ~(m <= m - 1)
    BY <1>4, <1>6
  <2>2. g[m - 1] \in S
    BY <1>3, <2>1
  <2>3. g[m] = F[<<m, g[m - 1]>>]
    BY <1>4, <1>6
  <2> QED
    BY <1>4, <2>2, <2>3
<1> QED
  BY <1>5, <1>6

\* There is such a function.
LEMMA RecursionExists ==
    ASSUME NEW S, NEW lo \in Nat, NEW n \in Nat, NEW a \in S,
           NEW F \in [(lo .. n) \X S -> S]
    PROVE  \E g : Solves(g, lo, n, a, F)
<1> USE DEF Solves
<1> DEFINE Bad == {m \in 0 .. n : ~ \E g : Solves(g, lo, m, a, F)}
<1> HIDE DEF Bad
<1>1. SUFFICES ASSUME Bad # {} PROVE FALSE
  BY <1>1, n \in 0 .. n DEF Bad
<1>2. Bad \in SUBSET Nat
  BY DEF Bad
<1>3. PICK m \in Bad : \A k \in Bad : m <= k
  BY <1>1, <1>2, LeastNatural
<1>4. m \in 0 .. n /\ \A g : ~ Solves(g, lo, m, a, F)
  BY <1>3 DEF Bad
<1>5. CASE m <= lo
  <2> DEFINE g == [i \in lo .. m |-> a]
  <2>1. \A i \in lo .. m : i = lo
    BY <1>4, <1>5
  <2>2. Solves(g, lo, m, a, F)
    BY <2>1
  <2> QED
    BY <1>4, <2>2
<1>6. CASE m > lo
  <2>1. m - 1 \in 0 .. n /\ ~(m <= m - 1)
    BY <1>4, <1>6
  <2>2. PICK h : Solves(h, lo, m - 1, a, F)
    BY <1>3, <2>1 DEF Bad
  <2> DEFINE g == [i \in lo .. m |-> IF i = m THEN F[<<m, h[m - 1]>>] ELSE h[i]]
             body == [i \in lo .. m |-> IF i = lo THEN a ELSE F[<<i, g[i - 1]>>]]
  <2>3. ASSUME NEW i \in lo .. m PROVE g[i] = body[i]
    <3>1. CASE i = m
      <4>1. m - 1 \in lo .. m /\ m - 1 # m
        BY <1>4, <1>6
      <4> QED
        BY <1>6, <3>1, <4>1
    <3>2. CASE i # m
      <4>1. i \in lo .. m - 1
        BY <1>4, <3>2
      <4>2. g[i] = IF i = lo THEN a ELSE F[<<i, h[i - 1]>>]
        BY <2>2, <3>2, <4>1
      <4>3. i # lo => i - 1 \in lo .. m /\ i - 1 # m
        BY <4>1, <1>4
      <4> QED
        BY <4>2, <4>3
    <3> QED
      BY <3>1, <3>2
  <2>4. Solves(g, lo, m, a, F)
    BY <2>3
  <2> QED
    BY <1>4, <2>4
<1> QED
  BY <1>4, <1>5, <1>6
=============================================================================

-------------------------- MODULE SelectionProofs --------------------------
(***************************************************************************)
(* What the selections of Selection return, for sequences of any length.   *)
(***************************************************************************)
EXTENDS Selection, FiniteSetTheorems, WellFoundedInduction, TLAPS

-----------------------------------------------------------------------------
(* Induction.  The library's theorem takes the predicate as a parameter;   *)
(* these take a set instead.                                               *)

\* A set of natural numbers that is not empty has a least element.
LEMMA LeastElement ==
  ASSUME NEW T \in SUBSET Nat, T # {}
  PROVE  \E n \in T : \A m \in T : n <= m
<1> DEFINE R == {ss \in Nat \X Nat : ss[1] < ss[2]}
<1>1. IsWellFoundedOn(R, Nat)
  BY NatLessThanWellFounded DEF OpToRel
<1>2. \A m, n \in Nat : <<m, n>> \in R <=> m < n
  OBVIOUS
<1> HIDE DEF R
<1>3. PICK n \in T : \A m \in T : ~(<<m, n>> \in R)
  BY <1>1, WFMin
<1>4. \A m \in T : ~(m < n)
  BY <1>2, <1>3
<1> QED
  BY <1>3, <1>4

\* A set with 0 and the successor of each number in it holds all of them.
LEMMA InductionOnSet ==
  ASSUME NEW S, 0 \in S, \A n \in Nat : n \in S => n + 1 \in S
  PROVE  Nat \subseteq S
<1>1. SUFFICES ASSUME Nat \ S # {} PROVE FALSE
  OBVIOUS
<1>2. PICK n \in Nat \ S : \A m \in Nat \ S : n <= m
  BY <1>1, LeastElement
<1>3. n - 1 \in Nat /\ n - 1 \in S
  BY <1>2
<1> QED
  BY <1>2, <1>3

\* A set of numbers from 1 to n that is not empty has a greatest element.
LEMMA GreatestElement ==
  ASSUME NEW n \in Nat, NEW T \in SUBSET (1 .. n), T # {}
  PROVE  \E i \in T : \A j \in T : j <= i
<1> DEFINE D == {d \in 0 .. n : n - d \in T}
<1>1. D \in SUBSET Nat /\ \A i \in T : n - i \in D
  <2>1. \A i \in T : n - i \in 0 .. n /\ n - (n - i) = i
    OBVIOUS
  <2> QED
    BY <2>1
<1>2. D # {}
  BY <1>1
<1> HIDE DEF D
<1>3. PICK d \in D : \A e \in D : d <= e
  BY <1>1, <1>2, LeastElement
<1>4. n - d \in T /\ d \in Nat
  BY <1>1, <1>3 DEF D
<1>5. ASSUME NEW j \in T
      PROVE  j <= n - d
  <2>1. d <= n - j /\ j \in Nat
    BY <1>1, <1>3
  <2> QED
    BY <1>4, <2>1
<1> QED
  BY <1>4, <1>5

\* A function on the numbers from 1 to n is a sequence of that length.
LEMMA SeqOfFunction ==
  ASSUME NEW n \in Nat, NEW X, NEW f \in [1 .. n -> X]
  PROVE  f \in Seq(X) /\ Len(f) = n /\ DOMAIN f = 1 .. n
OBVIOUS

\* The elements of a sequence.
LEMMA ElementType == ASSUME NEW S, NEW s \in Seq(S) PROVE \A i \in DOMAIN s : s[i] \in S
  OBVIOUS

-----------------------------------------------------------------------------
(* Ranked, InOrder and Picked.                                             *)

\* A finite set of numbers from 1 to n is finite.
LEMMA IndicesFinite ==
  ASSUME NEW n \in Nat, NEW at \in SUBSET (1 .. n)
  PROVE  /\ IsFiniteSet(at) /\ Cardinality(at) \in Nat
         /\ Cardinality(at) <= n
<1>1. IsFiniteSet(1 .. n) /\ Cardinality(1 .. n) = n
  BY FS_Interval
<1> QED
  BY <1>1, FS_Subset, FS_CardinalityType

\* As many values as indices, when no two indices have the same.
LEMMA ImageCount ==
  ASSUME NEW k \in Nat, NEW f, \A i, j \in 1 .. k : f[i] = f[j] => i = j
  PROVE  Cardinality({f[i] : i \in 1 .. k}) = k
<1> DEFINE T == {f[i] : i \in 1 .. k}
           g == [i \in 1 .. k |-> f[i]]
<1>1. g \in [1 .. k -> T] /\ \A i \in 1 .. k : g[i] = f[i]
  OBVIOUS
<1> HIDE DEF g
<1>2. g \in Injection(1 .. k, T)
  BY <1>1 DEF Injection, IsInjective
<1>3. g \in Surjection(1 .. k, T)
  BY <1>1 DEF Surjection
<1>4. ExistsBijection(1 .. k, T)
  BY <1>2, <1>3 DEF ExistsBijection, Bijection
<1> QED
  BY <1>4, FS_CountingElements

\* Ranking a finite set by a strict total order puts every element once, those before
\* others first.
LEMMA RankedFacts ==
  ASSUME NEW S, IsFiniteSet(S), NEW R,
         \A x \in S : <<x, x>> \notin R,
         \A x, y, z \in S : <<x, y>> \in R /\ <<y, z>> \in R => <<x, z>> \in R,
         \A x, y \in S : x = y \/ <<x, y>> \in R \/ <<y, x>> \in R
  PROVE  /\ Cardinality(S) \in Nat
         /\ Ranked(S, R) \in [1 .. Cardinality(S) -> S]
         /\ \A x \in S : \E k \in 1 .. Cardinality(S) : Ranked(S, R)[k] = x
         /\ \A j, k \in 1 .. Cardinality(S) :
               j < k <=> <<Ranked(S, R)[j], Ranked(S, R)[k]>> \in R
<1> DEFINE n == Cardinality(S)
           upTo(x) == {y \in S : y = x \/ <<y, x>> \in R}
           rank == [x \in S |-> Cardinality(upTo(x))]
           f == Ranked(S, R)
<1>1. n \in Nat
  BY FS_CardinalityType
<1>2. \A x \in S : IsFiniteSet(upTo(x)) /\ Cardinality(upTo(x)) \in 1 .. n
  <2>1. SUFFICES ASSUME NEW x \in S
                 PROVE  IsFiniteSet(upTo(x)) /\ Cardinality(upTo(x)) \in 1 .. n
    OBVIOUS
  <2>2. upTo(x) \subseteq S /\ x \in upTo(x)
    OBVIOUS
  <2> HIDE DEF upTo
  <2>3. IsFiniteSet(upTo(x)) /\ Cardinality(upTo(x)) <= n /\ Cardinality(upTo(x)) \in Nat
    BY <2>2, FS_Subset, FS_CardinalityType
  <2>4. Cardinality(upTo(x)) # 0
    BY <2>2, <2>3, FS_EmptySet
  <2> QED
    BY <1>1, <2>3, <2>4
<1>3. rank \in [S -> 1 .. n] /\ \A x \in S : rank[x] = Cardinality(upTo(x))
  BY <1>2
<1>4. \A x, y \in S : <<x, y>> \in R => rank[x] < rank[y]
  <2>1. SUFFICES ASSUME NEW x \in S, NEW y \in S, <<x, y>> \in R
                 PROVE  rank[x] < rank[y]
    OBVIOUS
  <2>2. upTo(x) \subseteq upTo(y) /\ y \in upTo(y) /\ y \notin upTo(x)
    BY <2>1
  <2> HIDE DEF upTo, rank
  <2>3. Cardinality(upTo(x)) <= Cardinality(upTo(y)) /\ Cardinality(upTo(x)) # Cardinality(upTo(y))
    BY <1>2, <2>2, FS_Subset
  <2> QED
    BY <1>1, <1>2, <1>3, <2>3
<1> HIDE DEF rank, upTo
<1>5. \A x, y \in S : rank[x] = rank[y] => x = y
  <2>1. SUFFICES ASSUME NEW x \in S, NEW y \in S, rank[x] = rank[y], x # y
                 PROVE  FALSE
    OBVIOUS
  <2>2. rank[x] < rank[y] \/ rank[y] < rank[x]
    BY <1>4, <2>1
  <2>3. rank[x] \in Nat /\ rank[y] \in Nat
    BY <1>1, <1>3
  <2> QED
    BY <2>1, <2>2, <2>3
<1>6. rank \in Surjection(S, 1 .. n)
  <2>1. rank \in Injection(S, 1 .. n)
    BY <1>3, <1>5 DEF Injection, IsInjective
  <2>2. IsFiniteSet(1 .. n) /\ Cardinality(1 .. n) = n
    BY <1>1, FS_Interval
  <2> QED
    BY <2>1, <2>2, FS_Injection
<1>7. \A k \in 1 .. n : \E x \in S : rank[x] = k
  BY <1>6 DEF Surjection
<1>8. f \in [1 .. n -> S] /\ \A k \in 1 .. n : rank[f[k]] = k
  <2>1. f = [k \in 1 .. n |-> CHOOSE x \in S : Cardinality(upTo(x)) = k]
    BY DEF Ranked, upTo
  <2>2. \A k \in 1 .. n : \E x \in S : Cardinality(upTo(x)) = k
    BY <1>3, <1>7
  <2> QED
    BY <1>3, <2>1, <2>2
<1> HIDE DEF f
<1>9. \A x \in S : f[rank[x]] = x
  BY <1>3, <1>5, <1>8
<1>10. \A j, k \in 1 .. n : j < k <=> <<f[j], f[k]>> \in R
  <2>1. SUFFICES ASSUME NEW j \in 1 .. n, NEW k \in 1 .. n
                 PROVE  j < k <=> <<f[j], f[k]>> \in R
    OBVIOUS
  <2>2. f[j] \in S /\ f[k] \in S /\ rank[f[j]] = j /\ rank[f[k]] = k
    BY <1>8
  <2>3. <<f[j], f[k]>> \in R => j < k
    BY <1>4, <2>2
  <2>4. f[j] = f[k] => j = k
    BY <2>2
  <2>5. <<f[k], f[j]>> \in R => k < j
    BY <1>4, <2>2
  <2> QED
    BY <2>2, <2>3, <2>4, <2>5
<1> QED
  BY <1>1, <1>3, <1>8, <1>9, <1>10 DEF f

\* A finite set of numbers in order: each once, the smaller first.
LEMMA InOrderFacts ==
  ASSUME NEW n \in Nat, NEW at \in SUBSET (1 .. n)
  PROVE  /\ Cardinality(at) \in Nat /\ Cardinality(at) <= n
         /\ InOrder(at) \in [1 .. Cardinality(at) -> at]
         /\ \A i \in at : \E k \in 1 .. Cardinality(at) : InOrder(at)[k] = i
         /\ \A j, k \in 1 .. Cardinality(at) : j < k <=> InOrder(at)[j] < InOrder(at)[k]
<1> DEFINE R == {p \in at \X at : p[1] < p[2]}
<1>1. \A x, y \in at : <<x, y>> \in R <=> x < y
  OBVIOUS
<1>2. InOrder(at) = Ranked(at, R)
  BY DEF InOrder
<1>3. IsFiniteSet(at) /\ Cardinality(at) \in Nat /\ Cardinality(at) <= n
  BY IndicesFinite
<1> HIDE DEF R
<1>4. /\ \A x \in at : <<x, x>> \notin R
      /\ \A x, y, z \in at : <<x, y>> \in R /\ <<y, z>> \in R => <<x, z>> \in R
      /\ \A x, y \in at : x = y \/ <<x, y>> \in R \/ <<y, x>> \in R
  BY <1>1
<1>5. /\ Ranked(at, R) \in [1 .. Cardinality(at) -> at]
      /\ \A x \in at : \E k \in 1 .. Cardinality(at) : Ranked(at, R)[k] = x
      /\ \A j, k \in 1 .. Cardinality(at) :
            j < k <=> <<Ranked(at, R)[j], Ranked(at, R)[k]>> \in R
  BY <1>3, <1>4, RankedFacts
<1> QED
  BY <1>1, <1>2, <1>3, <1>5

\* There is only one way to put numbers in order.
LEMMA InOrderUnique ==
  ASSUME NEW n \in Nat, NEW at \in SUBSET (1 .. n), NEW m \in Nat,
         NEW g \in [1 .. m -> at],
         \A i \in at : \E k \in 1 .. m : g[k] = i,
         \A j, k \in 1 .. m : j < k => g[j] < g[k]
  PROVE  m = Cardinality(at) /\ g = InOrder(at)
<1> DEFINE c == Cardinality(at)
           f == InOrder(at)
<1>1. /\ c \in Nat
      /\ f \in [1 .. c -> at]
      /\ \A i \in at : \E k \in 1 .. c : f[k] = i
      /\ \A j, k \in 1 .. c : j < k => f[j] < f[k]
  BY InOrderFacts
<1>2. g \in [1 .. m -> Nat] /\ f \in [1 .. c -> Nat]
  <2>1. at \subseteq Nat
    OBVIOUS
  <2> HIDE DEF c, f
  <2> QED
    BY <1>1, <2>1
<1> HIDE DEF c, f
<1>3. \A k \in 1 .. m : k \in 1 .. c => g[k] = f[k]
  <2> DEFINE D == {k \in 1 .. m : k \in 1 .. c /\ g[k] # f[k]}
  <2>1. SUFFICES ASSUME D # {} PROVE FALSE
    OBVIOUS
  <2>2. D \subseteq Nat
    OBVIOUS
  <2> HIDE DEF D
  <2>3. PICK k \in D : \A l \in D : k <= l
    BY <2>1, <2>2, LeastElement
  <2>4. k \in 1 .. m /\ k \in 1 .. c /\ g[k] # f[k]
    BY <2>3 DEF D
  <2>5. \A j \in 1 .. k - 1 : g[j] = f[j]
    <3>1. SUFFICES ASSUME NEW j \in 1 .. k - 1, g[j] # f[j] PROVE FALSE
      OBVIOUS
    <3>2. j \in D /\ j < k
      BY <2>4, <3>1, <1>1 DEF D
    <3> QED
      BY <2>3, <2>4, <3>2
  <2>6. /\ g[k] \in at /\ f[k] \in at /\ k \in Nat
        /\ g[k] \in Nat /\ f[k] \in Nat
    BY <1>1, <1>2, <2>4
  <2>7. CASE g[k] < f[k]
    <3>1. PICK j \in 1 .. c : f[j] = g[k]
      BY <1>1, <2>6
    <3>2. CASE j < k
      <4>1. g[j] = g[k] /\ j \in 1 .. m
        BY <2>4, <2>5, <3>1, <3>2
      <4>2. g[j] < g[k]
        BY <2>4, <3>2, <4>1
      <4> QED
        BY <1>2, <2>6, <4>1, <4>2
    <3>3. CASE j >= k
      <4>1. j = k \/ f[k] < f[j]
        BY <1>1, <2>4, <2>6, <3>3
      <4> QED
        BY <2>6, <2>7, <3>1, <4>1
    <3> QED
      BY <2>4, <3>2, <3>3
  <2>8. CASE f[k] < g[k]
    <3>1. PICK j \in 1 .. m : g[j] = f[k]
      BY <2>6
    <3>2. CASE j < k
      <4>1. f[j] = f[k] /\ j \in 1 .. c
        BY <1>1, <2>4, <2>5, <3>1, <3>2
      <4>2. f[j] < f[k]
        BY <1>1, <2>4, <3>2, <4>1
      <4> QED
        BY <2>6, <4>1, <4>2
    <3>3. CASE j >= k
      <4>1. j = k \/ g[k] < g[j]
        BY <2>4, <2>6, <3>3
      <4> QED
        BY <2>6, <2>8, <3>1, <4>1
    <3> QED
      BY <2>4, <3>2, <3>3
  <2> QED
    BY <1>2, <2>4, <2>6, <2>7, <2>8
<1>4. ~(m < c)
  <2>1. SUFFICES ASSUME m < c PROVE FALSE
    OBVIOUS
  <2>2. m + 1 \in 1 .. c /\ f[m + 1] \in at
    BY <1>1, <2>1
  <2>3. PICK j \in 1 .. m : g[j] = f[m + 1]
    BY <2>2
  <2>4. f[j] = f[m + 1] /\ j \in 1 .. c /\ j < m + 1
    BY <1>1, <1>3, <2>1, <2>3
  <2> QED
    BY <1>1, <1>2, <2>2, <2>4
<1>5. ~(c < m)
  <2>1. SUFFICES ASSUME c < m PROVE FALSE
    OBVIOUS
  <2>2. c + 1 \in 1 .. m /\ g[c + 1] \in at
    BY <1>1, <2>1
  <2>3. PICK j \in 1 .. c : f[j] = g[c + 1]
    BY <1>1, <2>2
  <2>4. g[j] = g[c + 1] /\ j \in 1 .. m /\ j < c + 1
    BY <1>1, <1>3, <2>1, <2>3
  <2> QED
    BY <1>2, <2>2, <2>4
<1>6. m = c
  BY <1>1, <1>4, <1>5
<1>7. g = f
  BY <1>1, <1>3, <1>6
<1> QED
  BY <1>6, <1>7 DEF c, f

\* What is picked from a sequence: the element at each of the indices, in their order.
LEMMA PickedFacts ==
  ASSUME NEW X, NEW s \in Seq(X), NEW at \in SUBSET DOMAIN s
  PROVE  /\ Cardinality(at) \in Nat /\ Cardinality(at) <= Len(s)
         /\ InOrder(at) \in [1 .. Cardinality(at) -> at]
         /\ \A i \in at : \E k \in 1 .. Cardinality(at) : InOrder(at)[k] = i
         /\ \A j, k \in 1 .. Cardinality(at) : j < k <=> InOrder(at)[j] < InOrder(at)[k]
         /\ Picked(s, at) \in Seq(X)
         /\ Len(Picked(s, at)) = Cardinality(at)
         /\ DOMAIN Picked(s, at) = 1 .. Cardinality(at)
         /\ \A k \in 1 .. Cardinality(at) : Picked(s, at)[k] = s[InOrder(at)[k]]
<1>1. Len(s) \in Nat /\ DOMAIN s = 1 .. Len(s)
  OBVIOUS
<1>2. /\ Cardinality(at) \in Nat /\ Cardinality(at) <= Len(s)
      /\ InOrder(at) \in [1 .. Cardinality(at) -> at]
      /\ \A i \in at : \E k \in 1 .. Cardinality(at) : InOrder(at)[k] = i
      /\ \A j, k \in 1 .. Cardinality(at) : j < k <=> InOrder(at)[j] < InOrder(at)[k]
  BY <1>1, InOrderFacts
<1>3. Picked(s, at) = [k \in 1 .. Cardinality(at) |-> s[InOrder(at)[k]]]
  BY <1>2 DEF Picked
<1>4. \A k \in 1 .. Cardinality(at) : s[InOrder(at)[k]] \in X
  BY <1>2
<1>5. Picked(s, at) \in [1 .. Cardinality(at) -> X]
  BY <1>3, <1>4
<1>6. Picked(s, at) \in Seq(X) /\ Len(Picked(s, at)) = Cardinality(at)
  BY <1>2, <1>5
<1>7. DOMAIN Picked(s, at) = 1 .. Cardinality(at)
  BY <1>5
<1>8. \A k \in 1 .. Cardinality(at) : Picked(s, at)[k] = s[InOrder(at)[k]]
  BY <1>3
<1> QED
  BY <1>2, <1>6, <1>7, <1>8

\* The elements picked, as a set.
LEMMA PickedElements ==
  ASSUME NEW X, NEW s \in Seq(X), NEW at \in SUBSET DOMAIN s
  PROVE  /\ \A k \in DOMAIN Picked(s, at) : \E i \in at : Picked(s, at)[k] = s[i]
         /\ \A i \in at : \E k \in DOMAIN Picked(s, at) : Picked(s, at)[k] = s[i]
         /\ Picked(s, at) = <<>> <=> at = {}
<1> DEFINE p == Picked(s, at)
           f == InOrder(at)
<1>1. /\ Cardinality(at) \in Nat /\ p \in Seq(X) /\ Len(p) = Cardinality(at)
      /\ f \in [1 .. Cardinality(at) -> at]
      /\ \A i \in at : \E k \in 1 .. Cardinality(at) : f[k] = i
      /\ DOMAIN p = 1 .. Cardinality(at)
      /\ \A k \in 1 .. Cardinality(at) : p[k] = s[f[k]]
  BY PickedFacts
<1> HIDE DEF p, f
<1>2. /\ \A k \in DOMAIN p : f[k] \in at /\ p[k] = s[f[k]]
      /\ \A i \in at : \E k \in DOMAIN p : p[k] = s[i]
  BY <1>1
<1>3. p = <<>> <=> at = {}
  BY <1>1, <1>2
<1> QED
  BY <1>2, <1>3 DEF p

\* Picking one index with each key leaves every key once.
LEMMA PickedKeys ==
  ASSUME NEW X, NEW s \in Seq(X), NEW at \in SUBSET DOMAIN s, NEW key,
         \A h, i \in at : key[s[h]] = key[s[i]] => h = i,
         \A i \in DOMAIN s : \E h \in at : key[s[h]] = key[s[i]]
  PROVE  /\ \A j, k \in DOMAIN Picked(s, at) :
               key[Picked(s, at)[j]] = key[Picked(s, at)[k]] => j = k
         /\ \A i \in DOMAIN s : \E k \in DOMAIN Picked(s, at) : key[Picked(s, at)[k]] = key[s[i]]
<1> DEFINE p == Picked(s, at)
           f == InOrder(at)
           n == Cardinality(at)
<1>4. /\ n \in Nat /\ f \in [1 .. n -> at]
      /\ \A i \in at : \E k \in 1 .. n : f[k] = i
      /\ \A j, k \in 1 .. n : j < k <=> f[j] < f[k]
      /\ DOMAIN p = 1 .. n
      /\ \A k \in 1 .. n : p[k] = s[f[k]]
  BY PickedFacts
<1> HIDE DEF p, f, n
<1>5. ASSUME NEW j \in 1 .. n, NEW k \in 1 .. n, key[p[j]] = key[p[k]]
      PROVE  j = k
  <2>1. f[j] \in at /\ f[k] \in at /\ key[s[f[j]]] = key[s[f[k]]]
    BY <1>4, <1>5
  <2>2. f[j] = f[k]
    BY <2>1
  <2>3. f[j] \in Nat
    <3>1. \A i \in at : i \in Nat
      OBVIOUS
    <3> QED
      BY <2>1, <3>1
  <2>4. ~(f[j] < f[k]) /\ ~(f[k] < f[j])
    BY <2>2, <2>3
  <2>5. ~(j < k) /\ ~(k < j)
    BY <1>4, <2>4
  <2>6. j \in Nat /\ k \in Nat
    OBVIOUS
  <2> QED
    BY <2>5, <2>6
<1>6. ASSUME NEW i \in DOMAIN s
      PROVE  \E k \in 1 .. n : key[p[k]] = key[s[i]]
  <2>1. PICK h \in at : key[s[h]] = key[s[i]]
    BY <1>6
  <2>2. PICK k \in 1 .. n : f[k] = h
    BY <1>4, <2>1
  <2>3. p[k] = s[h]
    BY <1>4, <2>2
  <2> QED
    BY <2>1, <2>3
<1>7. DOMAIN p = 1 .. n
  BY <1>4
<1> QED
  BY <1>5, <1>6, <1>7 DEF p

\* f lists the elements of S, those before others in R first.
Lists(f, n, S, R) ==
    /\ n \in Nat /\ f \in [1 .. n -> S]
    /\ \A x \in S : \E k \in 1 .. n : f[k] = x
    /\ \A j, k \in 1 .. n : j < k <=> <<f[j], f[k]>> \in R

\* The order of the numbers in S, from the smallest up.
Up(S) == {p \in S \X S : p[1] < p[2]}

\* kept has of the indices up to n the first with each value of v.
FirstWith(kept, n, v) ==
    /\ kept \in SUBSET (1 .. n)
    /\ \A i \in 1 .. n : \E l \in kept : l <= i /\ v[l] = v[i]
    /\ \A l, i \in kept : v[l] = v[i] => l = i

\* h lists the first elements of S with each key.
ListsFirst(h, n, S, R, key) ==
    /\ n \in Nat /\ h \in [1 .. n -> S]
    /\ \A j, k \in 1 .. n : j < k <=> <<h[j], h[k]>> \in R
    /\ \A j, k \in 1 .. n : key[h[j]] = key[h[k]] => j = k
    /\ \A x \in S : \E k \in 1 .. n : key[h[k]] = key[x] /\ (h[k] = x \/ <<h[k], x>> \in R)

\* A set of indices in order is listed.
LEMMA InOrderLists ==
  ASSUME NEW n \in Nat, NEW at \in SUBSET (1 .. n)
  PROVE  Lists(InOrder(at), Cardinality(at), at, Up(at))
<1> DEFINE f == InOrder(at)
           c == Cardinality(at)
<1>1. /\ c \in Nat /\ f \in [1 .. c -> at]
      /\ \A i \in at : \E k \in 1 .. c : f[k] = i
      /\ \A j, k \in 1 .. c : j < k <=> f[j] < f[k]
  BY InOrderFacts
<1> HIDE DEF f, c
<1>2. \A x, y \in at : <<x, y>> \in Up(at) <=> x < y
  BY DEF Up
<1>3. ASSUME NEW j \in 1 .. c, NEW k \in 1 .. c
      PROVE  j < k <=> <<f[j], f[k]>> \in Up(at)
  BY <1>1, <1>2
<1>4. Lists(f, c, at, Up(at))
  BY <1>1, <1>3 DEF Lists
<1> QED
  BY <1>4 DEF f, c

\* at has the indices that Firsts picks: those whose key did not occur before.
NotBefore(at, s, key) ==
    \A i \in DOMAIN s : i \in at <=> \A j \in 1 .. i - 1 : key[s[j]] # key[s[i]]

\* They are the first with each key.
LEMMA FirstIndices ==
  ASSUME NEW X, NEW s \in Seq(X), NEW key, NEW at \in SUBSET DOMAIN s, NotBefore(at, s, key)
  PROVE  \A v : (\A i \in DOMAIN s : v[i] = key[s[i]]) => FirstWith(at, Len(s), v)
<1>0. \A i \in DOMAIN s : i \in at <=> \A j \in 1 .. i - 1 : key[s[j]] # key[s[i]]
  BY DEF NotBefore
<1>1. at \in SUBSET DOMAIN s /\ Len(s) \in Nat /\ DOMAIN s = 1 .. Len(s)
  OBVIOUS
<1>2. ASSUME NEW i \in DOMAIN s
      PROVE  \E h \in at : h <= i /\ key[s[h]] = key[s[i]]
  <2> DEFINE T == {h \in 1 .. i : key[s[h]] = key[s[i]]}
  <2>1. T \in SUBSET Nat /\ i \in T
    BY <1>1, <1>2
  <2> HIDE DEF T
  <2>2. PICK h \in T : \A m \in T : h <= m
    BY <2>1, LeastElement
  <2>3. h \in 1 .. i /\ key[s[h]] = key[s[i]] /\ h \in DOMAIN s
    BY <1>1, <1>2, <2>2 DEF T
  <2>4. \A j \in 1 .. h - 1 : key[s[j]] # key[s[h]]
    <3>1. SUFFICES ASSUME NEW j \in 1 .. h - 1, key[s[j]] = key[s[h]] PROVE FALSE
      OBVIOUS
    <3>2. j \in T
      BY <1>1, <1>2, <2>3, <3>1 DEF T
    <3> QED
      BY <1>1, <2>2, <2>3, <3>2
  <2> QED
    BY <1>0, <1>1, <1>2, <2>3, <2>4
<1>3. \A h, i \in at : key[s[h]] = key[s[i]] => h = i
  <2>1. SUFFICES ASSUME NEW h \in at, NEW i \in at, key[s[h]] = key[s[i]], h # i
                 PROVE  FALSE
    OBVIOUS
  <2>2. h \in Nat /\ i \in Nat /\ (h \in 1 .. i - 1 \/ i \in 1 .. h - 1)
    BY <1>1, <2>1
  <2> QED
    BY <1>0, <2>1, <2>2
<1>4. SUFFICES ASSUME NEW v, \A i \in DOMAIN s : v[i] = key[s[i]]
               PROVE  FirstWith(at, Len(s), v)
  OBVIOUS
<1>5. ASSUME NEW i \in DOMAIN s
      PROVE  \E l \in at : l <= i /\ v[l] = v[i]
  <2>1. PICK l \in at : l <= i /\ key[s[l]] = key[s[i]]
    BY <1>2, <1>5
  <2> QED
    BY <1>1, <1>4, <2>1
<1>6. ASSUME NEW l \in at, NEW i \in at, v[l] = v[i]
      PROVE  l = i
  <2>1. v[l] = key[s[l]] /\ v[i] = key[s[i]]
    BY <1>1, <1>4
  <2> QED
    BY <1>3, <1>6, <2>1
<1> QED
  BY <1>1, <1>5, <1>6 DEF FirstWith

\* Of what is listed in an order, the first with each key, listed in that order.
LEMMA FirstInOrder ==
  ASSUME NEW c, NEW S, NEW f, NEW R, Lists(f, c, S, R),
         NEW key, NEW v, \A k \in 1 .. c : v[k] = key[f[k]],
         NEW kept, FirstWith(kept, c, v),
         NEW m, NEW g, Lists(g, m, kept, Up(kept)),
         NEW h, h = [k \in 1 .. m |-> f[g[k]]]
  PROVE  ListsFirst(h, m, S, R, key)
<1>0. /\ c \in Nat /\ f \in [1 .. c -> S]
      /\ \A x \in S : \E k \in 1 .. c : f[k] = x
      /\ \A j, k \in 1 .. c : j < k <=> <<f[j], f[k]>> \in R
      /\ kept \in SUBSET (1 .. c)
      /\ m \in Nat /\ g \in [1 .. m -> kept]
      /\ \A i \in kept : \E k \in 1 .. m : g[k] = i
  BY DEF Lists, FirstWith
<1>1. ASSUME NEW k \in 1 .. m
      PROVE  g[k] \in kept /\ g[k] \in 1 .. c /\ h[k] = f[g[k]] /\ v[g[k]] = key[h[k]]
  BY <1>0
<1>2. ASSUME NEW j \in 1 .. m, NEW k \in 1 .. m
      PROVE  j < k <=> g[j] < g[k]
  <2>1. \A x, y \in kept : <<x, y>> \in Up(kept) <=> x < y
    BY DEF Up
  <2>2. j < k <=> <<g[j], g[k]>> \in Up(kept)
    BY DEF Lists
  <2> QED
    BY <1>1, <2>1, <2>2
<1>3. ASSUME NEW j \in 1 .. m, NEW k \in 1 .. m
      PROVE  j < k <=> <<h[j], h[k]>> \in R
  <2>1. g[j] < g[k] <=> <<f[g[j]], f[g[k]]>> \in R
    BY <1>0, <1>1
  <2> QED
    BY <1>1, <1>2, <2>1
<1>4. ASSUME NEW j \in 1 .. m, NEW k \in 1 .. m, key[h[j]] = key[h[k]]
      PROVE  j = k
  <2>1. g[j] \in kept /\ g[k] \in kept /\ v[g[j]] = v[g[k]]
    BY <1>1, <1>4
  <2>2. g[j] = g[k]
    BY <2>1 DEF FirstWith
  <2>3. g[j] \in Nat /\ ~(g[j] < g[k]) /\ ~(g[k] < g[j])
    BY <1>1, <2>2
  <2>4. ~(j < k) /\ ~(k < j)
    BY <1>2, <2>3
  <2> QED
    BY <1>0, <2>4
<1>5. ASSUME NEW x \in S
      PROVE  \E k \in 1 .. m : key[h[k]] = key[x] /\ (h[k] = x \/ <<h[k], x>> \in R)
  <2>1. PICK i \in 1 .. c : f[i] = x
    BY <1>0, <1>5
  <2>2. PICK l \in kept : l <= i /\ v[l] = v[i]
    BY <2>1 DEF FirstWith
  <2>3. PICK k \in 1 .. m : g[k] = l
    BY <1>0, <2>2
  <2>4. h[k] = f[l] /\ l \in 1 .. c /\ key[h[k]] = key[x]
    BY <1>0, <1>1, <2>1, <2>2, <2>3
  <2>5. l = i \/ l < i
    BY <1>0, <2>2, <2>4
  <2>6. l = i \/ <<f[l], f[i]>> \in R
    BY <1>0, <2>4, <2>5
  <2> QED
    BY <2>1, <2>4, <2>6
<1>6. h \in [1 .. m -> S]
  BY <1>0, <1>1
<1> QED
  BY <1>0, <1>3, <1>4, <1>5, <1>6 DEF ListsFirst

\* R is a strict total order of S.
StrictTotal(R, S) ==
    /\ \A x \in S : <<x, x>> \notin R
    /\ \A x, y, z \in S : <<x, y>> \in R /\ <<y, z>> \in R => <<x, z>> \in R
    /\ \A x, y \in S : x = y \/ <<x, y>> \in R \/ <<y, x>> \in R

\* Ranking by such an order lists in it.
LEMMA RankedLists ==
  ASSUME NEW S, IsFiniteSet(S), NEW R, StrictTotal(R, S)
  PROVE  Lists(Ranked(S, R), Cardinality(S), S, R)
<1> DEFINE f == Ranked(S, R)
           n == Cardinality(S)
<1>1. /\ \A x \in S : <<x, x>> \notin R
      /\ \A x, y, z \in S : <<x, y>> \in R /\ <<y, z>> \in R => <<x, z>> \in R
      /\ \A x, y \in S : x = y \/ <<x, y>> \in R \/ <<y, x>> \in R
  BY DEF StrictTotal
<1>2. /\ n \in Nat /\ f \in [1 .. n -> S]
      /\ \A x \in S : \E k \in 1 .. n : f[k] = x
      /\ \A j, k \in 1 .. n : j < k <=> <<f[j], f[k]>> \in R
  BY <1>1, RankedFacts
<1> HIDE DEF f, n
<1>3. Lists(f, n, S, R)
  BY <1>2 DEF Lists
<1> QED
  BY <1>3 DEF f, n

\* R has what a lists in the order in which Q has their places.
Carries(a, c, R, Q) == \A j, k \in 1 .. c : <<a[j], a[k]>> \in R <=> <<j, k>> \in Q

\* Ranking by the order of what is listed lists in the order of both.
LEMMA ListsThrough ==
  ASSUME NEW c, NEW S, NEW a, NEW P, Lists(a, c, S, P),
         NEW order, NEW Q, Lists(order, c, 1 .. c, Q),
         NEW R, Carries(a, c, R, Q)
  PROVE  Lists([k \in 1 .. c |-> a[order[k]]], c, S, R)
<1> DEFINE f == [k \in 1 .. c |-> a[order[k]]]
<1>1. /\ c \in Nat /\ order \in [1 .. c -> 1 .. c]
      /\ \A x \in 1 .. c : \E k \in 1 .. c : order[k] = x
      /\ \A j, k \in 1 .. c : j < k <=> <<order[j], order[k]>> \in Q
      /\ a \in [1 .. c -> S] /\ \A x \in S : \E k \in 1 .. c : a[k] = x
  BY DEF Lists
<1>2. ASSUME NEW k \in 1 .. c
      PROVE  order[k] \in 1 .. c /\ f[k] = a[order[k]] /\ f[k] \in S
  BY <1>1, <1>2
<1>3. f \in [1 .. c -> S]
  BY <1>2
<1> HIDE DEF f
<1>4. ASSUME NEW x \in S
      PROVE  \E k \in 1 .. c : f[k] = x
  <2>1. PICK i \in 1 .. c : a[i] = x
    BY <1>1, <1>4
  <2>2. PICK k \in 1 .. c : order[k] = i
    BY <1>1
  <2> QED
    BY <1>2, <2>1, <2>2
<1>5. ASSUME NEW j \in 1 .. c, NEW k \in 1 .. c
      PROVE  j < k <=> <<f[j], f[k]>> \in R
  <2>1. order[j] \in 1 .. c /\ order[k] \in 1 .. c
    BY <1>2
  <2>2. <<a[order[j]], a[order[k]]>> \in R <=> <<order[j], order[k]>> \in Q
    BY <2>1 DEF Carries
  <2> QED
    BY <1>1, <1>2, <2>2
<1>6. Lists(f, c, S, R)
  BY <1>1, <1>3, <1>4, <1>5 DEF Lists
<1> QED
  BY <1>6 DEF f

\* The elements of S before all others with the same key.
BestOf(S, R, key) == {i \in S : \A j \in S : key[j] = key[i] => i = j \/ <<i, j>> \in R}

\* The place of i among them, in the order R.
BestPlace(i, S, R, key) == 1 + Cardinality({j \in BestOf(S, R, key) : <<j, i>> \in R})

\* The first with each key are the best ones, each where as many as are better say.
LEMMA BestPlaces ==
  ASSUME NEW S, NEW R, StrictTotal(R, S),
         NEW key, NEW m, NEW h, ListsFirst(h, m, S, R, key)
  PROVE  /\ Cardinality(BestOf(S, R, key)) = m
         /\ \A i \in BestOf(S, R, key) :
               BestPlace(i, S, R, key) \in 1 .. m /\ h[BestPlace(i, S, R, key)] = i
<1> DEFINE best == BestOf(S, R, key)
<1>1. /\ m \in Nat /\ h \in [1 .. m -> S]
      /\ \A j, k \in 1 .. m : j < k <=> <<h[j], h[k]>> \in R
      /\ \A j, k \in 1 .. m : key[h[j]] = key[h[k]] => j = k
  BY DEF ListsFirst
<1>2. ASSUME NEW x \in S
      PROVE  \E k \in 1 .. m : key[h[k]] = key[x] /\ (h[k] = x \/ <<h[k], x>> \in R)
  BY <1>2 DEF ListsFirst
<1>3. \A i \in best : i \in S /\ \A j \in S : key[j] = key[i] => i = j \/ <<i, j>> \in R
  BY DEF BestOf
<1>4. ASSUME NEW k \in 1 .. m
      PROVE  h[k] \in best
  <2>1. h[k] \in S
    BY <1>1, <1>4
  <2>2. ASSUME NEW j \in S, key[j] = key[h[k]]
        PROVE  h[k] = j \/ <<h[k], j>> \in R
    <3>1. PICK l \in 1 .. m : key[h[l]] = key[j] /\ (h[l] = j \/ <<h[l], j>> \in R)
      BY <1>2
    <3>2. l = k
      BY <1>1, <1>4, <2>2, <3>1
    <3> QED
      BY <3>1, <3>2
  <2> QED
    BY <2>1, <2>2 DEF BestOf
<1>5. ASSUME NEW i \in best
      PROVE  \E k \in 1 .. m : h[k] = i
  <2>1. i \in S
    BY <1>3
  <2>2. PICK k \in 1 .. m : key[h[k]] = key[i] /\ (h[k] = i \/ <<h[k], i>> \in R)
    BY <1>2, <2>1
  <2>3. h[k] \in S
    BY <1>1
  <2>4. i = h[k] \/ <<i, h[k]>> \in R
    BY <1>3, <2>2, <2>3
  <2>5. ~(<<i, h[k]>> \in R /\ <<h[k], i>> \in R)
    BY <2>1, <2>3 DEF StrictTotal
  <2> QED
    BY <2>2, <2>4, <2>5
<1>6. \A j, k \in 1 .. m : h[j] = h[k] => j = k
  BY <1>1
<1> HIDE DEF best
<1>7. best = {h[k] : k \in 1 .. m}
  BY <1>4, <1>5
<1>8. Cardinality(best) = m
  BY <1>1, <1>6, <1>7, ImageCount
<1>9. ASSUME NEW i \in best
      PROVE  BestPlace(i, S, R, key) \in 1 .. m /\ h[BestPlace(i, S, R, key)] = i
  <2>1. PICK k \in 1 .. m : h[k] = i
    BY <1>5, <1>9
  <2> DEFINE better == {j \in best : <<j, i>> \in R}
  <2>2. k - 1 \in Nat /\ \A l \in 1 .. k - 1 : l \in 1 .. m /\ l < k
    BY <1>1
  <2>3. \A l \in 1 .. k - 1 : h[l] \in better
    BY <1>1, <1>4, <2>1, <2>2
  <2>4. ASSUME NEW j \in better
        PROVE  \E l \in 1 .. k - 1 : h[l] = j
    <3>1. PICK l \in 1 .. m : h[l] = j
      BY <1>5
    <3>2. l < k
      BY <1>1, <2>1, <3>1
    <3> QED
      BY <1>1, <3>1, <3>2
  <2>5. better = {h[l] : l \in 1 .. k - 1}
    BY <2>3, <2>4
  <2>6. Cardinality({h[l] : l \in 1 .. k - 1}) = k - 1
    BY <1>6, <2>2, ImageCount
  <2> HIDE DEF better
  <2>7. 1 + Cardinality(better) = k
    BY <1>1, <2>5, <2>6
  <2> QED
    BY <2>1, <2>7 DEF better, best, BestPlace
<1> QED
  BY <1>8, <1>9 DEF best

-----------------------------------------------------------------------------
(* Recursion over a sequence, and FlattenSeq.                              *)

\* The values of a loop before and after each of its n steps.
IsLoop(g, n, V, base, step) ==
    /\ g \in [0 .. n -> V]
    /\ g[0] = base
    /\ \A i \in 1 .. n : g[i] = step[i][g[i - 1]]

\* A loop of n steps has a value after each of them.
LEMMA LoopExists ==
  ASSUME NEW n \in Nat, NEW V, NEW base \in V, NEW step \in [1 .. n -> [V -> V]]
  PROVE  \E g : IsLoop(g, n, V, base, step)
<1> DEFINE Runs(k, g) == IsLoop(g, k, V, base, step)
           S == {k \in Nat : k <= n => \E g : Runs(k, g)}
<1>1. 0 \in S
  <2>1. Runs(0, [i \in 0 .. 0 |-> base])
    BY DEF IsLoop
  <2> QED
    BY <2>1
<1>2. ASSUME NEW k \in Nat, k \in S
      PROVE  k + 1 \in S
  <2>1. SUFFICES ASSUME k + 1 <= n PROVE \E g : Runs(k + 1, g)
    OBVIOUS
  <2>2. PICK g : /\ g \in [0 .. k -> V] /\ g[0] = base
                 /\ \A i \in 1 .. k : g[i] = step[i][g[i - 1]]
    BY <1>2, <2>1 DEF IsLoop
  <2> DEFINE h == [i \in 0 .. k + 1 |-> IF i <= k THEN g[i] ELSE step[i][g[k]]]
  <2>3. \A i \in 0 .. k : g[i] \in V
    BY <2>2
  <2>4. step[k + 1][g[k]] \in V
    BY <2>1, <2>3
  <2>5. h \in [0 .. k + 1 -> V] /\ h[0] = base
    BY <2>2, <2>3, <2>4
  <2>6. \A i \in 1 .. k + 1 : h[i] = step[i][h[i - 1]]
    <3>1. SUFFICES ASSUME NEW i \in 1 .. k + 1 PROVE h[i] = step[i][h[i - 1]]
      OBVIOUS
    <3>2. h[i - 1] = g[i - 1]
      BY <3>1
    <3>3. CASE i <= k
      <4>1. g[i] = step[i][g[i - 1]] /\ h[i] = g[i]
        BY <2>2, <3>1, <3>3
      <4> QED
        BY <3>2, <4>1
    <3>4. CASE i = k + 1
      BY <3>1, <3>2, <3>4
    <3> QED
      BY <3>1, <3>3, <3>4
  <2> HIDE DEF h
  <2>7. Runs(k + 1, h)
    BY <2>5, <2>6 DEF IsLoop
  <2> QED
    BY <2>7
<1> HIDE DEF S
<1>3. n \in S
  BY <1>1, <1>2, InductionOnSet
<1>4. \E g : Runs(n, g)
  BY <1>3 DEF S
<1> QED
  BY <1>4

\* What there is after each part has been appended.
Appends(g, ss, X) ==
    /\ g \in [0 .. Len(ss) -> Seq(X)]
    /\ g[0] = <<>>
    /\ \A i \in 1 .. Len(ss) : g[i] = g[i - 1] \o ss[i]
    /\ FlattenSeq(ss) = g[Len(ss)]

\* FlattenSeq appends one sequence after the other.
LEMMA FlattenLoop ==
  ASSUME NEW X, NEW ss \in Seq(Seq(X))
  PROVE  \E g : Appends(g, ss, X)
<1> DEFINE n == Len(ss)
           step == [i \in 1 .. n |-> [t \in Seq(X) |-> t \o ss[i]]]
<1>1. n \in Nat /\ \A i \in 1 .. n : ss[i] \in Seq(X)
  OBVIOUS
<1>2. step \in [1 .. n -> [Seq(X) -> Seq(X)]]
  BY <1>1
<1>3. \A i \in 1 .. n, t \in Seq(X) : step[i][t] = t \o ss[i]
  OBVIOUS
<1> HIDE DEF step, n
<1>4. PICK g \in [0 .. n -> Seq(X)] :
         g[0] = <<>> /\ \A i \in 1 .. n : g[i] = step[i][g[i - 1]]
  <2>1. <<>> \in Seq(X)
    OBVIOUS
  <2>2. PICK g : IsLoop(g, n, Seq(X), <<>>, step)
    BY <1>1, <1>2, <2>1, LoopExists
  <2> QED
    BY <2>2 DEF IsLoop
<1>5. \A i \in 1 .. n : g[i] = g[i - 1] \o ss[i]
  <2>1. SUFFICES ASSUME NEW i \in 1 .. n PROVE g[i] = g[i - 1] \o ss[i]
    OBVIOUS
  <2>2. g[i - 1] \in Seq(X)
    BY <1>1, <1>4
  <2> QED
    BY <1>3, <1>4, <2>2
<1>6. FlattenSeq(ss) = g[n]
  <2>1. CASE n = 0
    BY <1>4, <2>1 DEF FlattenSeq, n
  <2>2. CASE n # 0
    <3> DEFINE body(f) == [i \in 1 .. n |-> IF i = 1 THEN ss[i] ELSE f[i - 1] \o ss[i]]
               f == CHOOSE f : f = body(f)
               h == [i \in 1 .. n |-> g[i]]
    <3>1. FlattenSeq(ss) = f[n]
      BY <2>2 DEF FlattenSeq, n
    <3>2. h = body(h)
      <4>1. \A i \in 1 .. n : g[i] = IF i = 1 THEN ss[i] ELSE h[i - 1] \o ss[i]
        <5>1. SUFFICES ASSUME NEW i \in 1 .. n
                       PROVE  g[i] = IF i = 1 THEN ss[i] ELSE h[i - 1] \o ss[i]
          OBVIOUS
        <5>2. CASE i = 1
          <6>1. <<>> \o ss[1] = ss[1] /\ i - 1 = 0
            BY <1>1, <5>2
          <6>2. g[i] = g[0] \o ss[1]
            BY <1>5, <5>2, <6>1
          <6> QED
            BY <1>4, <5>2, <6>1, <6>2
        <5>3. CASE i # 1
          <6>1. h[i - 1] = g[i - 1]
            BY <1>1, <5>1, <5>3
          <6> QED
            BY <1>5, <5>3, <6>1
        <5> QED
          BY <5>2, <5>3
      <4> QED
        BY <4>1
    <3> HIDE DEF h
    <3>3. f = body(f)
      BY <3>2
    <3> HIDE DEF f
    <3>4. \A i \in 1 .. n : f[i] = IF i = 1 THEN ss[i] ELSE f[i - 1] \o ss[i]
      BY <3>3
    <3> DEFINE S == {k \in Nat : k \in 1 .. n => f[k] = g[k]}
    <3>5. 0 \in S
      OBVIOUS
    <3>6. ASSUME NEW k \in Nat, k \in S
          PROVE  k + 1 \in S
      <4>1. SUFFICES ASSUME k + 1 \in 1 .. n PROVE f[k + 1] = g[k + 1]
        OBVIOUS
      <4>2. CASE k = 0
        <5>1. <<>> \o ss[1] = ss[1] /\ 1 \in 1 .. n /\ 1 - 1 = 0
          BY <1>1, <4>1, <4>2
        <5>2. g[1] = g[0] \o ss[1]
          BY <1>5, <5>1
        <5>3. f[1] = ss[1]
          BY <3>4, <5>1
        <5> QED
          BY <1>4, <4>2, <5>1, <5>2, <5>3
      <4>3. CASE k # 0
        <5>1. f[k] = g[k]
          BY <1>1, <3>6, <4>1, <4>3
        <5>2. (k + 1) - 1 = k /\ k + 1 # 1
          BY <3>6, <4>3
        <5>3. f[k + 1] = f[k] \o ss[k + 1]
          BY <3>4, <4>1, <5>2
        <5>4. g[k + 1] = g[k] \o ss[k + 1]
          BY <1>5, <4>1, <5>2
        <5> QED
          BY <5>1, <5>3, <5>4
      <4> QED
        BY <4>2, <4>3
    <3> HIDE DEF S
    <3>7. n \in S
      BY <1>1, <3>5, <3>6, InductionOnSet
    <3>8. f[n] = g[n]
      BY <1>1, <2>2, <3>7 DEF S
    <3> QED
      BY <3>1, <3>8 DEF f
  <2> QED
    BY <2>1, <2>2
<1> QED
  BY <1>4, <1>5, <1>6 DEF n, Appends

\* Where the elements of two sequences are once one is appended to the other.
LEMMA ConcatFacts ==
  ASSUME NEW X, NEW s \in Seq(X), NEW t \in Seq(X)
  PROVE  /\ Len(s \o t) = Len(s) + Len(t)
         /\ \A i \in 1 .. Len(s) : (s \o t)[i] = s[i]
         /\ \A i \in 1 .. Len(t) : (s \o t)[Len(s) + i] = t[i]
<1>1. \A i \in 1 .. Len(s) : (s \o t)[i] = s[i]
  OBVIOUS
<1>2. \A i \in 1 .. Len(t) : (s \o t)[Len(s) + i] = t[i]
  OBVIOUS
<1>3. Len(s \o t) = Len(s) + Len(t)
  OBVIOUS
<1> QED
  BY <1>1, <1>2, <1>3

\* at says of each element of s which element of which part of ss it is.
PlacesOf(at, s, ss, n) ==
    /\ at \in Seq(Nat \X Nat) /\ Len(s) = Len(at)
    /\ \A r \in 1 .. Len(at) :
          /\ at[r][1] \in 1 .. n /\ at[r][2] \in 1 .. Len(ss[at[r][1]])
          /\ s[r] = ss[at[r][1]][at[r][2]]
    /\ \A i \in 1 .. n : \A j \in 1 .. Len(ss[i]) : \E r \in 1 .. Len(at) : at[r] = <<i, j>>

\* The elements of what FlattenSeq returns are those of the parts, and the same ones for
\* any two sequences whose parts have the same lengths.
LEMMA FlattenPlaces ==
  ASSUME NEW X, NEW Y, NEW ss \in Seq(Seq(X)), NEW tt \in Seq(Seq(Y)),
         Len(ss) = Len(tt), \A i \in 1 .. Len(ss) : Len(ss[i]) = Len(tt[i])
  PROVE  /\ FlattenSeq(ss) \in Seq(X) /\ FlattenSeq(tt) \in Seq(Y)
         /\ \E at : /\ PlacesOf(at, FlattenSeq(ss), ss, Len(ss))
                    /\ PlacesOf(at, FlattenSeq(tt), tt, Len(tt))
<1> DEFINE n == Len(ss)
<1>1. n \in Nat /\ Len(tt) = n /\ \A i \in 1 .. n : ss[i] \in Seq(X) /\ tt[i] \in Seq(Y)
  OBVIOUS
<1>2. PICK g : Appends(g, ss, X)
  BY FlattenLoop
<1>3. PICK h : Appends(h, tt, Y)
  BY FlattenLoop
<1>8. /\ \A i \in 0 .. n : g[i] \in Seq(X) /\ h[i] \in Seq(Y)
      /\ g[0] = <<>> /\ h[0] = <<>>
      /\ \A i \in 1 .. n : g[i] = g[i - 1] \o ss[i] /\ h[i] = h[i - 1] \o tt[i]
      /\ FlattenSeq(ss) = g[n] /\ FlattenSeq(tt) = h[n]
  BY <1>1, <1>2, <1>3 DEF Appends
<1>9. \A i \in 1 .. n : Len(ss[i]) \in Nat /\ Len(tt[i]) = Len(ss[i])
  BY <1>1
<1> HIDE DEF n
<1> DEFINE S == {k \in Nat : k <= n => \E at : PlacesOf(at, g[k], ss, k) /\ PlacesOf(at, h[k], tt, k)}
<1>4. 0 \in S
  <2>1. PlacesOf(<<>>, <<>>, ss, 0) /\ PlacesOf(<<>>, <<>>, tt, 0)
    BY DEF PlacesOf
  <2> QED
    BY <1>8, <2>1
<1>5. ASSUME NEW k \in Nat, k \in S
      PROVE  k + 1 \in S
  <2>1. SUFFICES ASSUME k + 1 <= n
                 PROVE  \E at : PlacesOf(at, g[k + 1], ss, k + 1) /\ PlacesOf(at, h[k + 1], tt, k + 1)
    OBVIOUS
  <2>2. PICK at : PlacesOf(at, g[k], ss, k) /\ PlacesOf(at, h[k], tt, k)
    <3>1. k <= n
      BY <1>1, <2>1
    <3> QED
      BY <1>5, <3>1
  <2> DEFINE l == Len(ss[k + 1])
             a == Len(at)
             new == [r \in 1 .. a + l |-> IF r <= a THEN at[r] ELSE <<k + 1, r - a>>]
  <2>3. /\ k + 1 \in 1 .. n /\ (k + 1) - 1 = k
        /\ ss[k + 1] \in Seq(X) /\ tt[k + 1] \in Seq(Y)
        /\ l \in Nat /\ Len(tt[k + 1]) = l
        /\ g[k] \in Seq(X) /\ h[k] \in Seq(Y)
    <3>1. k + 1 \in 1 .. n /\ (k + 1) - 1 = k /\ k \in 0 .. n
      BY <1>1, <2>1
    <3> QED
      BY <1>1, <1>8, <1>9, <3>1
  <2>4. at \in Seq(Nat \X Nat) /\ a \in Nat /\ Len(g[k]) = a /\ Len(h[k]) = a
    BY <2>2 DEF PlacesOf
  <2>5. g[k + 1] = g[k] \o ss[k + 1] /\ h[k + 1] = h[k] \o tt[k + 1]
    BY <1>8, <2>3
  <2> HIDE DEF l, a
  <2>6. \A r \in 1 .. a : at[r] \in Nat \X Nat
    BY <2>4 DEF a
  <2>7. new \in Seq(Nat \X Nat) /\ Len(new) = a + l
    <3>1. ASSUME NEW r \in 1 .. a + l
          PROVE  (IF r <= a THEN at[r] ELSE <<k + 1, r - a>>) \in Nat \X Nat
      <4>1. CASE r <= a
        BY <2>4, <2>6, <4>1
      <4>2. CASE ~(r <= a)
        <5>1. r - a \in Nat /\ k + 1 \in Nat
          BY <2>3, <2>4, <4>2
        <5> QED
          BY <4>2, <5>1
      <4> QED
        BY <4>1, <4>2
    <3>2. new \in [1 .. a + l -> Nat \X Nat]
      BY <3>1
    <3> HIDE DEF new
    <3>3. a + l \in Nat
      BY <2>3, <2>4
    <3> QED
      BY <3>2, <3>3, SeqOfFunction
  <2>8. /\ \A r \in 1 .. a : new[r] = at[r]
        /\ \A j \in 1 .. l : a + j \in 1 .. a + l /\ new[a + j] = <<k + 1, j>>
        /\ \A r \in 1 .. a + l : r \in 1 .. a \/ \E j \in 1 .. l : r = a + j
    <3>1. \A r \in 1 .. a + l : r \in 1 .. a \/ (r - a \in 1 .. l /\ r = a + (r - a))
      BY <2>3, <2>4
    <3>2. \A j \in 1 .. l : a + j \in 1 .. a + l /\ ~(a + j <= a) /\ (a + j) - a = j
      BY <2>3, <2>4
    <3> QED
      BY <2>3, <2>4, <3>1, <3>2
  <2> HIDE DEF new
  <2>9. ASSUME NEW Z, NEW u \in Seq(Z), NEW v \in Seq(Z), NEW zz,
               zz[k + 1] = v, Len(v) = l, PlacesOf(at, u, zz, k)
        PROVE  PlacesOf(new, u \o v, zz, k + 1)
    <3> DEFINE w == u \o v
    <3>1. Len(u) = a
      BY <2>9 DEF PlacesOf, a
    <3>2. /\ Len(w) = a + l
          /\ \A r \in 1 .. a : w[r] = u[r]
          /\ \A j \in 1 .. l : w[a + j] = zz[k + 1][j]
      <4>1. /\ Len(u \o v) = Len(u) + Len(v)
            /\ \A i \in 1 .. Len(u) : (u \o v)[i] = u[i]
            /\ \A i \in 1 .. Len(v) : (u \o v)[Len(u) + i] = v[i]
        BY ConcatFacts
      <4> QED
        BY <2>9, <3>1, <4>1
    <3> HIDE DEF w
    <3>3. ASSUME NEW r \in 1 .. a + l
          PROVE  /\ new[r][1] \in 1 .. k + 1 /\ new[r][2] \in 1 .. Len(zz[new[r][1]])
                 /\ w[r] = zz[new[r][1]][new[r][2]]
      <4>1. CASE r \in 1 .. a
        <5>1. /\ at[r][1] \in 1 .. k /\ at[r][2] \in 1 .. Len(zz[at[r][1]])
              /\ u[r] = zz[at[r][1]][at[r][2]]
          BY <2>9, <4>1 DEF PlacesOf, a
        <5>2. new[r] = at[r]
          BY <2>8, <4>1
        <5>3. w[r] = u[r]
          BY <3>2, <4>1
        <5>4. at[r][1] \in 1 .. k + 1
          BY <5>1
        <5> QED
          BY <5>1, <5>2, <5>3, <5>4
      <4>2. ASSUME NEW j \in 1 .. l, r = a + j
            PROVE  /\ new[r][1] \in 1 .. k + 1 /\ new[r][2] \in 1 .. Len(zz[new[r][1]])
                   /\ w[r] = zz[new[r][1]][new[r][2]]
        <5>1. new[r] = <<k + 1, j>> /\ w[r] = zz[k + 1][j]
          BY <2>8, <3>2, <4>2
        <5>2. new[r][1] = k + 1 /\ new[r][2] = j /\ k + 1 \in 1 .. k + 1
          BY <5>1
        <5> QED
          BY <2>9, <4>2, <5>1, <5>2
      <4> QED
        BY <2>8, <4>1, <4>2
    <3>4. ASSUME NEW i \in 1 .. k + 1, NEW j \in 1 .. Len(zz[i])
          PROVE  \E r \in 1 .. a + l : new[r] = <<i, j>>
      <4>1. CASE i = k + 1
        BY <2>8, <2>9, <4>1
      <4>2. CASE i # k + 1
        <5>1. i \in 1 .. k
          BY <4>2
        <5>2. PICK r \in 1 .. a : at[r] = <<i, j>>
          BY <2>9, <5>1 DEF PlacesOf, a
        <5>3. r \in 1 .. a + l
          BY <2>3, <2>4
        <5> QED
          BY <2>8, <5>2, <5>3
      <4> QED
        BY <4>1, <4>2
    <3>5. Len(new) = a + l /\ new \in Seq(Nat \X Nat)
      BY <2>7
    <3>6. PlacesOf(new, w, zz, k + 1)
      <4>1. Len(w) = Len(new)
        BY <3>2, <3>5
      <4>2. \A r \in 1 .. Len(new) :
               /\ new[r][1] \in 1 .. k + 1 /\ new[r][2] \in 1 .. Len(zz[new[r][1]])
               /\ w[r] = zz[new[r][1]][new[r][2]]
        BY <3>3, <3>5
      <4>3. \A i \in 1 .. k + 1 : \A j \in 1 .. Len(zz[i]) :
               \E r \in 1 .. Len(new) : new[r] = <<i, j>>
        BY <3>4, <3>5
      <4> QED
        BY <3>5, <4>1, <4>2, <4>3 DEF PlacesOf
    <3> QED
      BY <3>6 DEF w
  <2>10. PlacesOf(new, g[k + 1], ss, k + 1)
    BY <2>2, <2>3, <2>5, <2>9 DEF l
  <2>11. PlacesOf(new, h[k + 1], tt, k + 1)
    BY <2>2, <2>3, <2>5, <2>9 DEF l
  <2> QED
    BY <2>10, <2>11
<1> HIDE DEF S
<1>6. n \in S
  BY <1>1, <1>4, <1>5, InductionOnSet
<1>7. \E at : PlacesOf(at, g[n], ss, n) /\ PlacesOf(at, h[n], tt, n)
  BY <1>1, <1>6 DEF S
<1> QED
  BY <1>1, <1>8, <1>7 DEF n

\* What FlattenSeq returns has the elements of its parts and no others.
LEMMA FlattenElements ==
  ASSUME NEW X, NEW ss \in Seq(Seq(X))
  PROVE  /\ FlattenSeq(ss) \in Seq(X)
         /\ \A r \in DOMAIN FlattenSeq(ss) :
               \E i \in DOMAIN ss : \E j \in DOMAIN ss[i] : FlattenSeq(ss)[r] = ss[i][j]
         /\ \A i \in DOMAIN ss : \A j \in DOMAIN ss[i] :
               \E r \in DOMAIN FlattenSeq(ss) : FlattenSeq(ss)[r] = ss[i][j]
<1>1. FlattenSeq(ss) \in Seq(X) /\ \E at : PlacesOf(at, FlattenSeq(ss), ss, Len(ss))
  BY FlattenPlaces
<1>2. PICK at : PlacesOf(at, FlattenSeq(ss), ss, Len(ss))
  BY <1>1
<1>3. /\ \A i \in DOMAIN ss : ss[i] \in Seq(X) /\ DOMAIN ss[i] = 1 .. Len(ss[i])
      /\ DOMAIN ss = 1 .. Len(ss)
  OBVIOUS
<1>4. DOMAIN FlattenSeq(ss) = 1 .. Len(at)
  BY <1>1, <1>2 DEF PlacesOf
<1>5. \A r \in 1 .. Len(at) :
         /\ at[r][1] \in DOMAIN ss /\ at[r][2] \in DOMAIN ss[at[r][1]]
         /\ FlattenSeq(ss)[r] = ss[at[r][1]][at[r][2]]
  BY <1>2, <1>3 DEF PlacesOf
<1>6. \A i \in DOMAIN ss : \A j \in DOMAIN ss[i] : \E r \in 1 .. Len(at) : at[r] = <<i, j>>
  BY <1>2, <1>3 DEF PlacesOf
<1>7. \A i \in DOMAIN ss : \A j \in DOMAIN ss[i] :
         \E r \in 1 .. Len(at) : FlattenSeq(ss)[r] = ss[i][j]
  <2>1. SUFFICES ASSUME NEW i \in DOMAIN ss, NEW j \in DOMAIN ss[i]
                 PROVE  \E r \in 1 .. Len(at) : FlattenSeq(ss)[r] = ss[i][j]
    OBVIOUS
  <2>2. PICK r \in 1 .. Len(at) : at[r] = <<i, j>>
    BY <1>6
  <2>3. at[r][1] = i /\ at[r][2] = j
    BY <2>2
  <2> QED
    BY <1>5, <2>3
<1>8. \A r \in 1 .. Len(at) :
         \E i \in DOMAIN ss : \E j \in DOMAIN ss[i] : FlattenSeq(ss)[r] = ss[i][j]
  BY <1>5
<1>9. FlattenSeq(ss) \in Seq(X)
  BY <1>1
<1> DEFINE flat == FlattenSeq(ss)
<1> HIDE DEF flat
<1>10. \A r \in DOMAIN flat : \E i \in DOMAIN ss : \E j \in DOMAIN ss[i] : flat[r] = ss[i][j]
  BY <1>4, <1>8 DEF flat
<1>11. \A i \in DOMAIN ss : \A j \in DOMAIN ss[i] : \E r \in DOMAIN flat : flat[r] = ss[i][j]
  BY <1>4, <1>7 DEF flat
<1> QED
  BY <1>9, <1>10, <1>11 DEF flat

-----------------------------------------------------------------------------
(* Sequences that are read one by one, and the orders of a set.            *)

\* Sequences of one length with the same elements are equal.
LEMMA SameSeq ==
  ASSUME NEW X, NEW s \in Seq(X), NEW t \in Seq(X), Len(s) = Len(t),
         \A i \in 1 .. Len(s) : s[i] = t[i]
  PROVE  s = t
<1>1. DOMAIN s = 1 .. Len(s) /\ DOMAIN t = 1 .. Len(t)
  OBVIOUS
<1>2. s = [i \in 1 .. Len(s) |-> s[i]] /\ t = [i \in 1 .. Len(t) |-> t[i]]
  BY <1>1
<1> QED
  BY <1>2

\* The elements picked from a sequence are its head, if that is picked, and those
\* picked from its tail.
LEMMA PickedTail ==
  ASSUME NEW X, NEW s \in Seq(X), s # <<>>, NEW at \in SUBSET DOMAIN s,
         NEW rest \in SUBSET DOMAIN Tail(s),
         \A i \in DOMAIN Tail(s) : i \in rest <=> i + 1 \in at
  PROVE  Picked(s, at) = (IF 1 \in at THEN <<Head(s)>> \o Picked(Tail(s), rest)
                          ELSE Picked(Tail(s), rest))
<1> DEFINE n == Len(s)
           t == Tail(s)
           c == Cardinality(rest)
           f == InOrder(rest)
           p == Picked(t, rest)
           q == Picked(s, at)
<1>1. /\ n \in Nat /\ DOMAIN s = 1 .. n /\ 0 < n
      /\ t \in Seq(X) /\ Len(t) = n - 1 /\ DOMAIN t = 1 .. n - 1
      /\ \A i \in 1 .. n - 1 : t[i] = s[i + 1]
      /\ Head(s) = s[1] /\ s[1] \in X
  OBVIOUS
<1>2. rest \in SUBSET (1 .. n - 1) /\ \A i \in 1 .. n - 1 : i \in rest <=> i + 1 \in at
  BY <1>1
<1>3. at \in SUBSET (1 .. n)
  BY <1>1
<1> HIDE DEF t, n
<1>4. /\ c \in Nat /\ p \in Seq(X) /\ Len(p) = c
      /\ f \in [1 .. c -> rest]
      /\ \A i \in rest : \E k \in 1 .. c : f[k] = i
      /\ \A j, k \in 1 .. c : j < k => f[j] < f[k]
      /\ \A k \in 1 .. c : p[k] = t[f[k]]
  <2>1. rest \in SUBSET DOMAIN t
    BY <1>1, <1>2
  <2> QED
    BY <1>1, <2>1, PickedFacts
<1>5. /\ q \in Seq(X) /\ Len(q) = Cardinality(at)
      /\ \A k \in 1 .. Cardinality(at) : q[k] = s[InOrder(at)[k]]
  BY <1>1, PickedFacts
<1> HIDE DEF p, c, f, q
<1>6. \A k \in 1 .. c : f[k] \in rest /\ f[k] \in 1 .. n - 1 /\ f[k] + 1 \in at
  BY <1>2, <1>4
<1>7. \A i \in at : i # 1 => i - 1 \in rest /\ (i - 1) + 1 = i
  BY <1>1, <1>2, <1>3
<1>8. CASE 1 \in at
  <2> DEFINE g == [k \in 1 .. c + 1 |-> IF k = 1 THEN 1 ELSE f[k - 1] + 1]
  <2>1. /\ g[1] = 1
        /\ \A k \in 1 .. c : k + 1 \in 1 .. c + 1 /\ g[k + 1] = f[k] + 1
        /\ \A k \in 1 .. c + 1 : k = 1 \/ (k - 1 \in 1 .. c /\ (k - 1) + 1 = k)
    <3>1. \A k \in 1 .. c : k + 1 \in 1 .. c + 1 /\ k + 1 # 1 /\ (k + 1) - 1 = k
      BY <1>4
    <3>2. \A k \in 1 .. c + 1 : k = 1 \/ (k - 1 \in 1 .. c /\ (k - 1) + 1 = k)
      BY <1>4
    <3>3. 1 \in 1 .. c + 1
      BY <1>4
    <3> QED
      BY <3>1, <3>2, <3>3
  <2>2. g \in [1 .. c + 1 -> at]
    <3>1. \A k \in 1 .. c + 1 : g[k] \in at
      BY <1>6, <1>8, <2>1
    <3> QED
      BY <3>1
  <2> HIDE DEF g
  <2>3. \A i \in at : \E k \in 1 .. c + 1 : g[k] = i
    <3>1. SUFFICES ASSUME NEW i \in at PROVE \E k \in 1 .. c + 1 : g[k] = i
      OBVIOUS
    <3>2. CASE i = 1
      <4>1. 1 \in 1 .. c + 1
        BY <1>4
      <4> QED
        BY <2>1, <3>2, <4>1
    <3>3. CASE i # 1
      <4>1. PICK k \in 1 .. c : f[k] = i - 1
        BY <1>4, <1>7, <3>3
      <4> QED
        BY <1>7, <2>1, <3>3, <4>1
    <3> QED
      BY <3>2, <3>3
  <2>4. ASSUME NEW j \in 1 .. c + 1, NEW k \in 1 .. c + 1, j < k
        PROVE  g[j] < g[k]
    <3>1. k - 1 \in 1 .. c /\ g[k] = f[k - 1] + 1 /\ f[k - 1] \in 1 .. n - 1
      <4>1. k # 1
        BY <1>4, <2>4
      <4>2. k - 1 \in 1 .. c /\ (k - 1) + 1 = k
        BY <2>1, <4>1
      <4> QED
        BY <1>6, <2>1, <4>2
    <3>2. CASE j = 1
      BY <1>1, <2>1, <3>1, <3>2
    <3>3. CASE j # 1
      <4>1. j - 1 \in 1 .. c /\ (j - 1) + 1 = j
        BY <2>1, <3>3
      <4>2. g[j] = f[j - 1] + 1 /\ f[j - 1] \in 1 .. n - 1
        BY <1>6, <2>1, <4>1
      <4>3. j - 1 < k - 1
        BY <2>4
      <4>4. f[j - 1] < f[k - 1]
        BY <1>4, <3>1, <4>1, <4>3
      <4> QED
        BY <1>1, <3>1, <4>2, <4>4
    <3> QED
      BY <3>2, <3>3
  <2>5. Cardinality(at) = c + 1 /\ InOrder(at) = g
    <3> DEFINE m == c + 1
    <3>1. m \in Nat /\ n \in Nat
      BY <1>1, <1>4
    <3>2. g \in [1 .. m -> at] /\ \A i \in at : \E k \in 1 .. m : g[k] = i
      BY <2>2, <2>3
    <3>3. \A j, k \in 1 .. m : j < k => g[j] < g[k]
      BY <2>4
    <3> HIDE DEF m
    <3>4. m = Cardinality(at) /\ g = InOrder(at)
      BY <1>3, <3>1, <3>2, <3>3, InOrderUnique
    <3> QED
      BY <3>4 DEF m
  <2> DEFINE u == <<Head(s)>>
             r == u \o p
  <2>6. u \in Seq(X) /\ Len(u) = 1 /\ u[1] = s[1]
    BY <1>1
  <2> HIDE DEF u
  <2>7. /\ r \in Seq(X) /\ Len(r) = 1 + c /\ r[1] = s[1]
        /\ \A k \in 1 .. c : r[1 + k] = p[k]
    <3>1. r \in Seq(X)
      BY <1>4, <2>6
    <3>2. /\ Len(u \o p) = Len(u) + Len(p)
          /\ \A i \in 1 .. Len(u) : (u \o p)[i] = u[i]
          /\ \A i \in 1 .. Len(p) : (u \o p)[Len(u) + i] = p[i]
      <4>1. u \in Seq(X) /\ p \in Seq(X)
        BY <1>4, <2>6
      <4> QED
        BY <4>1, ConcatFacts
    <3>3. 1 \in 1 .. Len(u)
      BY <2>6
    <3> QED
      BY <1>4, <2>6, <3>1, <3>2, <3>3
  <2> HIDE DEF r
  <2>8. \A k \in 1 .. c + 1 : q[k] = r[k]
    <3>1. SUFFICES ASSUME NEW k \in 1 .. c + 1 PROVE q[k] = r[k]
      OBVIOUS
    <3>2. q[k] = s[g[k]]
      BY <1>5, <2>5
    <3>3. CASE k = 1
      BY <2>1, <2>7, <3>2, <3>3
    <3>4. CASE k # 1
      <4>1. k - 1 \in 1 .. c /\ (k - 1) + 1 = k /\ 1 + (k - 1) = k
        BY <1>4, <2>1, <3>4
      <4>2. g[k] = f[k - 1] + 1 /\ r[k] = p[k - 1]
        BY <2>1, <2>7, <4>1
      <4>3. p[k - 1] = t[f[k - 1]] /\ t[f[k - 1]] = s[f[k - 1] + 1]
        BY <1>1, <1>4, <1>6, <4>1
      <4> QED
        BY <3>2, <4>2, <4>3
    <3> QED
      BY <3>3, <3>4
  <2>9. Len(q) = Len(r) /\ Len(q) = c + 1
    BY <1>4, <1>5, <2>5, <2>7
  <2>10. q = r
    BY <1>5, <2>7, <2>8, <2>9, SameSeq
  <2> QED
    BY <1>8, <2>10 DEF r, u, q, p, t
<1>9. CASE 1 \notin at
  <2> DEFINE g == [k \in 1 .. c |-> f[k] + 1]
  <2>1. g \in [1 .. c -> at] /\ \A k \in 1 .. c : g[k] = f[k] + 1
    BY <1>6
  <2> HIDE DEF g
  <2>2. \A i \in at : \E k \in 1 .. c : g[k] = i
    <3>1. SUFFICES ASSUME NEW i \in at PROVE \E k \in 1 .. c : g[k] = i
      OBVIOUS
    <3>2. PICK k \in 1 .. c : f[k] = i - 1
      BY <1>4, <1>7, <1>9
    <3> QED
      BY <1>7, <1>9, <2>1, <3>2
  <2>3. \A j, k \in 1 .. c : j < k => g[j] < g[k]
    <3>1. SUFFICES ASSUME NEW j \in 1 .. c, NEW k \in 1 .. c, j < k PROVE g[j] < g[k]
      OBVIOUS
    <3>2. f[j] < f[k] /\ f[j] \in 1 .. n - 1 /\ f[k] \in 1 .. n - 1
      BY <1>4, <1>6, <3>1
    <3> QED
      BY <1>1, <2>1, <3>2
  <2>4. Cardinality(at) = c /\ InOrder(at) = g
    <3>1. c \in Nat /\ n \in Nat /\ at \in SUBSET (1 .. n) /\ g \in [1 .. c -> at]
      BY <1>1, <1>3, <1>4, <2>1
    <3> QED
      BY <2>2, <2>3, <3>1, InOrderUnique
  <2>5. \A k \in 1 .. c : q[k] = p[k]
    <3>1. SUFFICES ASSUME NEW k \in 1 .. c PROVE q[k] = p[k]
      OBVIOUS
    <3>2. q[k] = s[f[k] + 1]
      BY <1>5, <2>1, <2>4
    <3>3. p[k] = t[f[k]] /\ t[f[k]] = s[f[k] + 1]
      BY <1>1, <1>4, <1>6
    <3> QED
      BY <3>2, <3>3
  <2>6. Len(q) = Len(p) /\ Len(q) = c
    BY <1>4, <1>5, <2>4
  <2>7. q = p
    BY <1>4, <1>5, <2>5, <2>6, SameSeq
  <2> QED
    BY <1>9, <2>7 DEF q, p, t
<1> QED
  BY <1>8, <1>9

\* The orders of a finite set: every element comes once.
LEMMA OrdersOf ==
  ASSUME NEW S, IsFiniteSet(S), NEW order \in SetToSeqs(S)
  PROVE  /\ order \in Seq(S) /\ Len(order) \in Nat
         /\ DOMAIN order = 1 .. Len(order)
         /\ \A x \in S : \E k \in 1 .. Len(order) : order[k] = x
         /\ \A j, k \in 1 .. Len(order) : order[j] = order[k] => j = k
<1> DEFINE n == Cardinality(S)
<1>1. n \in Nat /\ IsFiniteSet(1 .. n) /\ Cardinality(1 .. n) = n
  BY FS_CardinalityType, FS_Interval
<1>2. order \in [1 .. n -> S] /\ \A i, j \in 1 .. n : i # j => order[i] # order[j]
  BY DEF SetToSeqs
<1> HIDE DEF n
<1>3. order \in Injection(1 .. n, S)
  BY <1>2 DEF Injection, IsInjective
<1>4. order \in Surjection(1 .. n, S)
  BY <1>1, <1>3, FS_Injection DEF n
<1>5. \A x \in S : \E k \in 1 .. n : order[k] = x
  BY <1>4 DEF Surjection
<1>6. order \in Seq(S) /\ Len(order) = n /\ DOMAIN order = 1 .. n
  BY <1>1, <1>2
<1> QED
  BY <1>1, <1>2, <1>5, <1>6

\* p has the elements of s at the indices in a set.
PicksFrom(p, s, at) ==
    /\ \A k \in DOMAIN p : \E i \in at : p[k] = s[i]
    /\ \A i \in at : \E k \in DOMAIN p : p[k] = s[i]

\* PickedElements, in a word.
LEMMA PickedFrom ==
  ASSUME NEW X, NEW s \in Seq(X), NEW at \in SUBSET DOMAIN s
  PROVE  PicksFrom(Picked(s, at), s, at)
BY PickedElements DEF PicksFrom

\* p has for each key the first element of s that has it.
FirstsOf(p, s, key) ==
    /\ Len(p) \in Nat /\ Len(p) <= Len(s) /\ DOMAIN p = 1 .. Len(p)
    /\ \A k \in DOMAIN p : \E i \in DOMAIN s : p[k] = s[i]
    /\ \A j, k \in DOMAIN p : key[p[j]] = key[p[k]] => j = k
    /\ \A i \in DOMAIN s : \E k \in DOMAIN p : key[p[k]] = key[s[i]]

\* What Firsts picks.
LEMMA FirstsFacts ==
  ASSUME NEW X, NEW s \in Seq(X), NEW key, NEW at \in SUBSET DOMAIN s, NotBefore(at, s, key)
  PROVE  Picked(s, at) \in Seq(X) /\ FirstsOf(Picked(s, at), s, key)
<1> DEFINE p == Picked(s, at)
           v == [i \in DOMAIN s |-> key[s[i]]]
<1>1. \A i \in DOMAIN s : v[i] = key[s[i]]
  OBVIOUS
<1> HIDE DEF v
<1>2. FirstWith(at, Len(s), v)
  BY <1>1, FirstIndices
<1>3. DOMAIN s = 1 .. Len(s)
  OBVIOUS
<1>4. /\ \A h, i \in at : key[s[h]] = key[s[i]] => h = i
      /\ \A i \in DOMAIN s : \E h \in at : key[s[h]] = key[s[i]]
  BY <1>1, <1>2, <1>3 DEF FirstWith
<1>5. /\ \A j, k \in DOMAIN p : key[p[j]] = key[p[k]] => j = k
      /\ \A i \in DOMAIN s : \E k \in DOMAIN p : key[p[k]] = key[s[i]]
  BY <1>4, PickedKeys
<1>6. p \in Seq(X) /\ Len(p) \in Nat /\ Len(p) <= Len(s) /\ DOMAIN p = 1 .. Len(p)
  BY PickedFacts
<1>7. \A k \in DOMAIN p : \E i \in DOMAIN s : p[k] = s[i]
  <2>1. \A k \in DOMAIN p : \E i \in at : p[k] = s[i]
    BY PickedElements
  <2> QED
    BY <2>1
<1> HIDE DEF p
<1> QED
  BY <1>5, <1>6, <1>7 DEF p, FirstsOf

\* The values of a function on a finite set.
LEMMA ImageFinite ==
  ASSUME NEW S, IsFiniteSet(S), NEW f
  PROVE  /\ IsFiniteSet({f[x] : x \in S})
         /\ Cardinality({f[x] : x \in S}) <= Cardinality(S)
<1> DEFINE T == {f[x] : x \in S}
           g == [x \in S |-> f[x]]
<1>1. g \in [S -> T] /\ \A y \in T : \E x \in S : g[x] = y
  OBVIOUS
<1> HIDE DEF g, T
<1>2. g \in Surjection(S, T)
  BY <1>1 DEF Surjection
<1>3. IsFiniteSet(T) /\ Cardinality(T) <= Cardinality(S)
  BY <1>2, FS_Surjection
<1> QED
  BY <1>3 DEF T
=============================================================================

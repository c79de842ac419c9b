---------------------------- MODULE GeometryProofs ----------------------------
(***************************************************************************)
(* Proofs about Geometry, for any number of meshes: what serializeGeometry *)
(* packs into flat arrays createPrimitives unpacks again.  Every face gets *)
(* the corners it has in its own mesh, and every group the holes it has    *)
(* there.                                                                  *)
(***************************************************************************)
EXTENDS Geometry, TLAPS, FiniteSetTheorems, SequenceTheorems

-----------------------------------------------------------------------------
(* What holds before the first step and is kept by each of n steps.        *)
LEMMA StepInduction ==
    ASSUME NEW n \in Nat, NEW P, 0 \in P, \A k \in 0 .. n - 1 : k \in P => k + 1 \in P
    PROVE  n \in P
<1> DEFINE Q == {k \in Nat : k <= n => k \in P}
<1> SUFFICES ASSUME Nat \ Q # {} PROVE FALSE
  OBVIOUS
<1>1. PICK m \in Nat \ Q : \A k \in Nat \ Q : m <= k
  <2> HIDE DEF Q
  <2> DEFINE less == {pair \in Nat \X Nat : pair[1] < pair[2]}
  <2>1. IsWellFoundedOn(less, Nat)
    BY NatLessThanWellFounded DEF OpToRel
  <2>2. Nat \ Q \in SUBSET Nat /\ \A x, y \in Nat : ~(<<y, x>> \in less) => x <= y
    OBVIOUS
  <2> HIDE DEF less
  <2>3. \E x \in Nat \ Q : \A y \in Nat \ Q : ~(<<y, x>> \in less)
    BY <2>1, <2>2, WFMin
  <2> QED
    BY <2>2, <2>3
<1>2. m # 0 /\ m - 1 \in Nat
  BY <1>1
<1>3. m - 1 \in Q
  BY <1>1, <1>2
<1> QED
  BY <1>1, <1>2, <1>3

-----------------------------------------------------------------------------
(* Sums.                                                                   *)

(* A function that gives the sum of the numbers at some indices, whichever *)
(* of them is added first.                                                 *)
Sums(h, f, n) ==
    /\ h \in [SUBSET (1 .. n) -> Nat]
    /\ h[{}] = 0
    /\ \A s \in SUBSET (1 .. n) : \A x \in s : h[s] = f[x] + h[s \ {x}]

Numbers(f, n) == \A i \in 1 .. n : f[i] \in Nat

LEMMA SumsExist ==
    ASSUME NEW n \in Nat, NEW f, Numbers(f, n)
    PROVE  \E h : Sums(h, f, n)
<1> DEFINE P == {k \in Nat : \E h : Sums(h, f, k)}
<1>1. 0 \in P
  <2> DEFINE h == [s \in SUBSET (1 .. 0) |-> 0]
  <2>1. 1 .. 0 = {}
    OBVIOUS
  <2>2. Sums(h, f, 0)
    BY <2>1 DEF Sums
  <2> QED
    BY <2>2
<1>2. ASSUME NEW k \in 0 .. n - 1, k \in P PROVE k + 1 \in P
  <2>1. PICK g : Sums(g, f, k)
    BY <1>2
  <2> DEFINE m == k + 1
             h == [s \in SUBSET (1 .. m) |-> IF m \in s THEN f[m] + g[s \ {m}] ELSE g[s]]
  <2>2. m \in Nat /\ m \in 1 .. n /\ f[m] \in Nat
    BY DEF Numbers
  <2>3. /\ \A s \in SUBSET (1 .. m) : s \ {m} \in SUBSET (1 .. k)
        /\ \A s \in SUBSET (1 .. m) : m \notin s => s \in SUBSET (1 .. k)
        /\ {} \in SUBSET (1 .. m) /\ m \notin {}
    OBVIOUS
  <2>4. g \in [SUBSET (1 .. k) -> Nat] /\ g[{}] = 0
    BY <2>1 DEF Sums
  <2>5. \A s \in SUBSET (1 .. k) : \A x \in s : g[s] = f[x] + g[s \ {x}]
    BY <2>1 DEF Sums
  <2>6. \A s \in SUBSET (1 .. m) : h[s] = IF m \in s THEN f[m] + g[s \ {m}] ELSE g[s]
    OBVIOUS
  <2>7. h \in [SUBSET (1 .. m) -> Nat]
    <3>1. \A s \in SUBSET (1 .. m) : (IF m \in s THEN f[m] + g[s \ {m}] ELSE g[s]) \in Nat
      <4> HIDE DEF m
      <4> QED
        BY <2>2, <2>3, <2>4
    <3> QED
      BY <3>1
  <2> HIDE DEF h, m
  <2>8. ASSUME NEW s \in SUBSET (1 .. m), NEW x \in s
        PROVE  h[s] = f[x] + h[s \ {x}]
    <3>1. s \ {x} \in SUBSET (1 .. m) /\ x \in 1 .. m
      OBVIOUS
    <3>2. x \in 1 .. n /\ f[x] \in Nat
      BY <3>1, <2>2 DEF Numbers
    <3>3. CASE x = m
      BY <2>6, <3>1, <3>3
    <3>4. CASE x # m /\ m \in s
      <4>1. m \in s \ {x} /\ x \in s \ {m} /\ (s \ {x}) \ {m} = (s \ {m}) \ {x}
        BY <3>4
      <4>2. g[s \ {m}] = f[x] + g[(s \ {m}) \ {x}]
        BY <2>3, <2>5, <4>1
      <4>3. g[(s \ {m}) \ {x}] \in Nat
        <5>1. (s \ {m}) \ {x} \in SUBSET (1 .. k)
          BY <2>3
        <5> QED
          BY <2>4, <5>1
      <4>4. h[s] = f[m] + g[s \ {m}] /\ h[s \ {x}] = f[m] + g[(s \ {m}) \ {x}]
        BY <2>6, <3>1, <3>4, <4>1
      <4> QED
        BY <2>2, <3>2, <4>2, <4>3, <4>4
    <3>5. CASE m \notin s
      BY <2>3, <2>5, <2>6, <3>1, <3>5
    <3> QED
      BY <3>3, <3>4, <3>5
  <2>9. h[{}] = 0
    BY <2>3, <2>4, <2>6
  <2>10. Sums(h, f, m)
    BY <2>7, <2>8, <2>9 DEF Sums
  <2> QED
    BY <2>2, <2>10 DEF m
<1>3. n \in P
  <2> HIDE DEF P
  <2> QED
    BY <1>1, <1>2, StepInduction
<1> QED
  BY <1>3

(* A function over the subsets, as Sum has one.                            *)
IsSum(g, f, n) ==
    g = [s \in SUBSET (1 .. n) |->
           IF s = {} THEN 0 ELSE LET y == CHOOSE x \in s : TRUE IN f[y] + g[s \ {y}]]

LEMMA SumIs ==
    ASSUME NEW f, NEW n
    PROVE  Sum(f, n) = (CHOOSE g : IsSum(g, f, n))[1 .. n]
BY DEF Sum, SumFunctionOnSet, FoldFunctionOnSet, MapThenFoldSet, IsSum

(* Sum is that sum.                                                        *)
LEMMA SumIsTheSum ==
    ASSUME NEW n \in Nat, NEW f, NEW h, Sums(h, f, n)
    PROVE  Sum(f, n) = h[1 .. n]
<1> DEFINE g == CHOOSE g : IsSum(g, f, n)
           D == SUBSET (1 .. n)
           P == {k \in Nat : \A s \in D : Cardinality(s) = k => g[s] = h[s]}
<1>1. h \in [D -> Nat] /\ h[{}] = 0 /\ \A s \in D : \A x \in s : h[s] = f[x] + h[s \ {x}]
  BY DEF Sums
<1>2. IsSum(h, f, n)
  <2>1. ASSUME NEW s \in D
        PROVE  h[s] = IF s = {} THEN 0
                      ELSE LET y == CHOOSE x \in s : TRUE IN f[y] + h[s \ {y}]
    BY <1>1
  <2> QED
    BY <1>1, <2>1 DEF IsSum
<1>3. IsSum(g, f, n)
  BY <1>2
<1>4. \A s \in D : g[s] = IF s = {} THEN 0
                         ELSE LET y == CHOOSE x \in s : TRUE IN f[y] + g[s \ {y}]
  BY <1>3 DEF IsSum
<1> HIDE DEF g
<1>5. \A s \in D : IsFiniteSet(s)
  <2>1. IsFiniteSet(1 .. n)
    BY FS_Interval
  <2> QED
    BY <2>1, FS_Subset
<1>6. 0 \in P
  <2>1. \A s \in D : Cardinality(s) = 0 => s = {}
    BY <1>5, FS_EmptySet
  <2> QED
    BY <1>1, <1>4, <2>1
<1>7. ASSUME NEW k \in 0 .. n - 1, k \in P PROVE k + 1 \in P
  <2>1. ASSUME NEW s \in D, Cardinality(s) = k + 1 PROVE g[s] = h[s]
    <3>1. s # {}
      BY <2>1, FS_EmptySet
    <3>2. PICK x : x = (CHOOSE y \in s : TRUE) /\ x \in s
      BY <3>1
    <3>3. s \ {x} \in D /\ Cardinality(s \ {x}) = k
      <4>1. Cardinality(s \ {x}) = Cardinality(s) - 1
        BY <1>5, <3>2, FS_RemoveElement
      <4>2. k \in Int
        OBVIOUS
      <4>3. (k + 1) - 1 = k
        BY <4>2
      <4>4. s \ {x} \in D
        BY <3>2
      <4> QED
        BY <2>1, <4>1, <4>3, <4>4
    <3>4. g[s \ {x}] = h[s \ {x}]
      BY <1>7, <3>3
    <3>5. g[s] = f[x] + g[s \ {x}]
      BY <1>4, <3>1, <3>2
    <3> QED
      BY <1>1, <3>2, <3>4, <3>5
  <2> QED
    BY <2>1
<1>8. n \in P
  <2> HIDE DEF P
  <2> QED
    BY <1>6, <1>7, StepInduction
<1>9. 1 .. n \in D /\ Cardinality(1 .. n) = n
  BY FS_Interval
<1>10. g[1 .. n] = h[1 .. n]
  BY <1>8, <1>9
<1> QED
  BY <1>10, SumIs DEF g

(* The sum of the first k numbers, number by number.                       *)
LEMMA SumStep ==
    ASSUME NEW n \in Nat, NEW f, Numbers(f, n)
    PROVE  /\ Sum(f, 0) = 0
           /\ \A k \in 0 .. n : Sum(f, k) \in Nat
           /\ \A k \in 0 .. n - 1 : Sum(f, k + 1) = Sum(f, k) + f[k + 1]
<1>1. PICK h : Sums(h, f, n)
  BY SumsExist
<1>2. h \in [SUBSET (1 .. n) -> Nat] /\ h[{}] = 0
      /\ \A s \in SUBSET (1 .. n) : \A x \in s : h[s] = f[x] + h[s \ {x}]
  BY <1>1 DEF Sums
<1>3. ASSUME NEW k \in 0 .. n PROVE Sum(f, k) = h[1 .. k] /\ h[1 .. k] \in Nat
  <2>1. SUBSET (1 .. k) \subseteq SUBSET (1 .. n) /\ 1 .. k \in SUBSET (1 .. k) /\ k \in Nat
    OBVIOUS
  <2> DEFINE r == [s \in SUBSET (1 .. k) |-> h[s]]
  <2>2. \A s \in SUBSET (1 .. k) : r[s] = h[s] /\ h[s] \in Nat
    BY <1>2, <2>1
  <2>3. r \in [SUBSET (1 .. k) -> Nat]
    BY <2>2
  <2> HIDE DEF r
  <2>4. r[{}] = 0
    BY <1>2, <2>2
  <2>5. ASSUME NEW s \in SUBSET (1 .. k), NEW x \in s PROVE r[s] = f[x] + r[s \ {x}]
    <3>1. s \ {x} \in SUBSET (1 .. k)
      OBVIOUS
    <3> QED
      BY <1>2, <2>1, <2>2, <3>1
  <2>6. Sums(r, f, k)
    BY <2>3, <2>4, <2>5 DEF Sums
  <2>7. Sum(f, k) = r[1 .. k]
    BY <2>1, <2>6, SumIsTheSum
  <2> QED
    BY <2>1, <2>2, <2>7
<1>4. Sum(f, 0) = 0
  <2>1. 1 .. 0 = {} /\ 0 \in 0 .. n
    OBVIOUS
  <2>2. Sum(f, 0) = h[1 .. 0]
    BY <1>3, <2>1
  <2> QED
    BY <1>2, <2>1, <2>2
<1>5. ASSUME NEW k \in 0 .. n - 1 PROVE Sum(f, k + 1) = Sum(f, k) + f[k + 1]
  <2>1. /\ k \in 0 .. n /\ k + 1 \in 0 .. n /\ k + 1 \in 1 .. n
        /\ k + 1 \in 1 .. k + 1 /\ (1 .. k + 1) \ {k + 1} = 1 .. k
        /\ 1 .. k + 1 \in SUBSET (1 .. n)
    OBVIOUS
  <2>2. h[1 .. k + 1] = f[k + 1] + h[1 .. k]
    <3>1. \A x \in 1 .. k + 1 : h[1 .. k + 1] = f[x] + h[(1 .. k + 1) \ {x}]
      BY <1>2, <2>1
    <3>2. h[1 .. k + 1] = f[k + 1] + h[(1 .. k + 1) \ {k + 1}]
      BY <2>1, <3>1
    <3> QED
      BY <2>1, <3>2
  <2>3. Sum(f, k + 1) = f[k + 1] + Sum(f, k)
    BY <1>3, <2>1, <2>2
  <2>4. f[k + 1] \in Nat /\ Sum(f, k) \in Nat
    BY <1>3, <2>1 DEF Numbers
  <2> QED
    BY <2>3, <2>4
<1> QED
  BY <1>3, <1>4, <1>5

LEMMA SumGrows ==
    ASSUME NEW n \in Nat, NEW f, Numbers(f, n)
    PROVE  \A j, k \in 0 .. n : j <= k => Sum(f, j) <= Sum(f, k)
<1>1. /\ \A k \in 0 .. n : Sum(f, k) \in Nat
      /\ \A k \in 0 .. n - 1 : Sum(f, k + 1) = Sum(f, k) + f[k + 1] /\ f[k + 1] \in Nat
  BY SumStep DEF Numbers
<1> DEFINE P == {m \in Nat : \A j, k \in 0 .. n : j <= k /\ k <= m => Sum(f, j) <= Sum(f, k)}
<1>2. 0 \in P
  <2>1. \A j, k \in 0 .. n : j <= k /\ k <= 0 => j = k
    OBVIOUS
  <2> QED
    BY <1>1, <2>1
<1>3. ASSUME NEW m \in 0 .. n - 1, m \in P PROVE m + 1 \in P
  <2>1. ASSUME NEW j \in 0 .. n, NEW k \in 0 .. n, j <= k, k <= m + 1
        PROVE  Sum(f, j) <= Sum(f, k)
    <3>1. CASE k <= m
      BY <1>3, <2>1, <3>1
    <3>2. CASE j = k
      BY <1>1, <3>2
    <3>3. CASE k = m + 1 /\ j <= m
      <4>1. m \in 0 .. n /\ Sum(f, j) <= Sum(f, m)
        BY <1>3, <3>3
      <4>2. Sum(f, k) = Sum(f, m) + f[m + 1] /\ f[m + 1] \in Nat
        BY <1>1, <3>3
      <4> QED
        BY <1>1, <4>1, <4>2
    <3> QED
      BY <2>1, <3>1, <3>2, <3>3
  <2> QED
    BY <2>1
<1>4. n \in P
  <2> HIDE DEF P
  <2> QED
    BY <1>2, <1>3, StepInduction
<1> QED
  BY <1>4

(* Each place up to the sum lies with one of the numbers.                  *)
LEMMA SumPlaces ==
    ASSUME NEW n \in Nat, NEW f, Numbers(f, n)
    PROVE  /\ \A p \in 1 .. Sum(f, n) : \E j \in 1 .. n : \E k \in 1 .. f[j] :
                p = Sum(f, j - 1) + k
           /\ \A j \in 1 .. n : \A k \in 1 .. f[j] : Sum(f, j - 1) + k \in 1 .. Sum(f, n)
           /\ \A j, l \in 1 .. n : \A k \in 1 .. f[j], m \in 1 .. f[l] :
                Sum(f, j - 1) + k = Sum(f, l - 1) + m => j = l /\ k = m
<1>1. /\ \A k \in 0 .. n : Sum(f, k) \in Nat
      /\ \A k \in 0 .. n - 1 : Sum(f, k + 1) = Sum(f, k) + f[k + 1] /\ f[k + 1] \in Nat
      /\ Sum(f, 0) = 0
  BY SumStep DEF Numbers
<1>2. \A j, k \in 0 .. n : j <= k => Sum(f, j) <= Sum(f, k)
  BY SumGrows
<1>3. ASSUME NEW j \in 1 .. n
      PROVE  /\ j - 1 \in 0 .. n /\ j \in 0 .. n
             /\ Sum(f, j) = Sum(f, j - 1) + f[j] /\ f[j] \in Nat
             /\ Sum(f, j - 1) \in Nat /\ Sum(f, j) \in Nat
  <2>1. j - 1 \in 0 .. n - 1 /\ (j - 1) + 1 = j /\ j - 1 \in 0 .. n /\ j \in 0 .. n
    OBVIOUS
  <2>2. Sum(f, (j - 1) + 1) = Sum(f, j - 1) + f[(j - 1) + 1] /\ f[(j - 1) + 1] \in Nat
    BY <1>1, <2>1
  <2> QED
    BY <1>1, <2>1, <2>2
<1>4. \A p \in 1 .. Sum(f, n) : \E j \in 1 .. n : \E k \in 1 .. f[j] : p = Sum(f, j - 1) + k
  <2> DEFINE P == {m \in Nat : m <= n => \A p \in 1 .. Sum(f, m) : \E j \in 1 .. n :
                                \E k \in 1 .. f[j] : p = Sum(f, j - 1) + k}
  <2>1. 0 \in P
    BY <1>1
  <2>2. ASSUME NEW m \in 0 .. n - 1, m \in P PROVE m + 1 \in P
    <3>1. ASSUME NEW p \in 1 .. Sum(f, m + 1)
          PROVE  \E j \in 1 .. n : \E k \in 1 .. f[j] : p = Sum(f, j - 1) + k
      <4>1. CASE p <= Sum(f, m)
        <5>1. p \in 1 .. Sum(f, m) /\ m \in Nat /\ m <= n
          BY <1>1, <4>1
        <5> QED
          BY <2>2, <5>1
      <4>2. CASE ~(p <= Sum(f, m))
        <5>1. m + 1 \in 1 .. n /\ (m + 1) - 1 = m /\ m \in 0 .. n
          OBVIOUS
        <5>2. Sum(f, m + 1) = Sum(f, m) + f[m + 1] /\ f[m + 1] \in Nat /\ Sum(f, m) \in Nat
          BY <1>1, <5>1
        <5> DEFINE k == p - Sum(f, m)
        <5>3. k \in 1 .. f[m + 1] /\ p = Sum(f, (m + 1) - 1) + k
          BY <4>2, <5>1, <5>2
        <5> QED
          BY <5>1, <5>3
      <4> QED
        BY <4>1, <4>2
    <3> QED
      BY <3>1
  <2>3. n \in P
    <3> HIDE DEF P
    <3> QED
      BY <2>1, <2>2, StepInduction
  <2> QED
    BY <2>3
<1>5. \A j \in 1 .. n : \A k \in 1 .. f[j] : Sum(f, j - 1) + k \in 1 .. Sum(f, n)
  <2> TAKE j \in 1 .. n
  <2> TAKE k \in 1 .. f[j]
  <2>1. Sum(f, j) <= Sum(f, n) /\ Sum(f, n) \in Nat
    BY <1>1, <1>2
  <2> QED
    BY <1>3, <2>1
<1>6. ASSUME NEW j \in 1 .. n, NEW l \in 1 .. n, NEW k \in 1 .. f[j], NEW m \in 1 .. f[l],
             Sum(f, j - 1) + k = Sum(f, l - 1) + m
      PROVE  j = l /\ k = m
  <2>1. /\ Sum(f, j) = Sum(f, j - 1) + f[j] /\ f[j] \in Nat
        /\ Sum(f, l) = Sum(f, l - 1) + f[l] /\ f[l] \in Nat
        /\ Sum(f, j - 1) \in Nat /\ Sum(f, l - 1) \in Nat
    BY <1>3
  <2>2. ~(j < l)
    <3>1. j < l => Sum(f, j) <= Sum(f, l - 1)
      BY <1>2, <1>3
    <3> QED
      BY <1>6, <2>1, <3>1
  <2>3. ~(l < j)
    <3>1. l < j => Sum(f, l) <= Sum(f, j - 1)
      BY <1>2, <1>3
    <3> QED
      BY <1>6, <2>1, <3>1
  <2>4. j = l
    BY <2>2, <2>3
  <2> QED
    BY <1>6, <2>1, <2>4
<1> QED
  BY <1>4, <1>5, <1>6

LEMMA SumSame ==
    ASSUME NEW n \in Nat, NEW f, NEW g, Numbers(f, n), \A i \in 1 .. n : f[i] = g[i]
    PROVE  \A k \in 0 .. n : Sum(f, k) = Sum(g, k)
<1>1. Numbers(g, n)
  BY DEF Numbers
<1>2. /\ Sum(f, 0) = 0 /\ Sum(g, 0) = 0
      /\ \A k \in 0 .. n - 1 : Sum(f, k + 1) = Sum(f, k) + f[k + 1]
      /\ \A k \in 0 .. n - 1 : Sum(g, k + 1) = Sum(g, k) + g[k + 1]
  BY <1>1, SumStep
<1> DEFINE P == {m \in Nat : \A k \in 0 .. n : k <= m => Sum(f, k) = Sum(g, k)}
<1>3. 0 \in P
  BY <1>2
<1>4. ASSUME NEW m \in 0 .. n - 1, m \in P PROVE m + 1 \in P
  <2>1. m \in 0 .. n /\ m + 1 \in 1 .. n
    OBVIOUS
  <2>2. Sum(f, m + 1) = Sum(g, m + 1)
    BY <1>2, <1>4, <2>1
  <2>3. \A k \in 0 .. n : k <= m + 1 => k <= m \/ k = m + 1
    OBVIOUS
  <2> QED
    BY <1>4, <2>2, <2>3
<1>5. n \in P
  <2> HIDE DEF P
  <2> QED
    BY <1>3, <1>4, StepInduction
<1> QED
  BY <1>5

-----------------------------------------------------------------------------
(* Sequences of sequences, one behind the other.                           *)

Lens(s) == [i \in DOMAIN s |-> Len(s[i])]

(* A sequence of sequences of elements of T, n of them.                    *)
Parts(s, n, T) ==
    /\ n \in Nat
    /\ s \in Seq(Seq(T))
    /\ Len(s) = n

LEMMA PartFacts ==
    ASSUME NEW n, NEW T, NEW s, Parts(s, n, T)
    PROVE  /\ n \in Nat /\ DOMAIN s = 1 .. n /\ Len(s) = n
           /\ \A i \in 1 .. n : s[i] \in Seq(T) /\ Len(s[i]) \in Nat
           /\ \A i \in 1 .. n : Lens(s)[i] = Len(s[i])
           /\ Numbers(Lens(s), n)
<1>1. n \in Nat /\ DOMAIN s = 1 .. n /\ Len(s) = n /\ \A i \in 1 .. n : s[i] \in Seq(T)
  BY DEF Parts
<1>2. \A i \in 1 .. n : Len(s[i]) \in Nat
  BY <1>1
<1>3. \A i \in 1 .. n : Lens(s)[i] = Len(s[i])
  BY <1>1 DEF Lens
<1> QED
  BY <1>1, <1>2, <1>3 DEF Numbers

(* The function in FlattenSeq(s), up to n.                                 *)
IsFlat(g, s, n) ==
    g = [i \in 1 .. n |-> IF i = 1 THEN s[i] ELSE g[i - 1] \o s[i]]

LEMMA FlatIs ==
    ASSUME NEW s, Len(s) # 0
    PROVE  FlattenSeq(s) = (CHOOSE g : IsFlat(g, s, Len(s)))[Len(s)]
BY DEF FlattenSeq, IsFlat

LEMMA FlatExists ==
    ASSUME NEW n \in Nat, NEW s
    PROVE  \E g : IsFlat(g, s, n)
<1> DEFINE P == {k \in Nat : \E g : IsFlat(g, s, k)}
<1>1. 0 \in P
  <2>1. 1 .. 0 = {}
    OBVIOUS
  <2> DEFINE g == [i \in 1 .. 0 |-> s]
  <2>2. g = [i \in 1 .. 0 |-> IF i = 1 THEN s[i] ELSE g[i - 1] \o s[i]]
    BY <2>1
  <2> HIDE DEF g
  <2>3. IsFlat(g, s, 0)
    BY <2>2 DEF IsFlat
  <2> QED
    BY <2>3
<1>2. ASSUME NEW k \in 0 .. n - 1, k \in P PROVE k + 1 \in P
  <2>1. PICK g : IsFlat(g, s, k)
    BY <1>2
  <2>2. \A i \in 1 .. k : g[i] = IF i = 1 THEN s[i] ELSE g[i - 1] \o s[i]
    BY <2>1 DEF IsFlat
  <2>3. PICK last : last = IF k = 0 THEN s[k + 1] ELSE g[k] \o s[k + 1]
    OBVIOUS
  <2> DEFINE h == [i \in 1 .. k + 1 |-> IF i = k + 1 THEN last ELSE g[i]]
  <2>4. \A i \in 1 .. k + 1 : h[i] = IF i = k + 1 THEN last ELSE g[i]
    OBVIOUS
  <2>5. h = [i \in 1 .. k + 1 |-> h[i]]
    OBVIOUS
  <2> HIDE DEF h
  <2>6. ASSUME NEW i \in 1 .. k + 1
        PROVE  h[i] = IF i = 1 THEN s[i] ELSE h[i - 1] \o s[i]
    <3>1. CASE i = k + 1
      <4>1. CASE k = 0
        BY <2>3, <2>4, <3>1, <4>1
      <4>2. CASE k # 0
        <5>1. k \in 1 .. k + 1 /\ k # k + 1 /\ i # 1 /\ i - 1 = k
          BY <3>1, <4>2
        <5>2. h[k] = g[k]
          BY <2>4, <5>1
        <5> QED
          BY <2>3, <2>4, <3>1, <4>2, <5>1, <5>2
      <4> QED
        BY <4>1, <4>2
    <3>2. CASE i # k + 1
      <4>1. i \in 1 .. k /\ h[i] = g[i]
        BY <2>4, <3>2
      <4>2. i # 1 => i - 1 \in 1 .. k + 1 /\ i - 1 # k + 1
        BY <4>1
      <4>3. i # 1 => h[i - 1] = g[i - 1]
        BY <2>4, <4>2
      <4> QED
        BY <2>2, <4>1, <4>3
    <3> QED
      BY <3>1, <3>2
  <2>7. h = [i \in 1 .. k + 1 |-> IF i = 1 THEN s[i] ELSE h[i - 1] \o s[i]]
    BY <2>5, <2>6
  <2>8. IsFlat(h, s, k + 1)
    BY <2>7 DEF IsFlat
  <2> QED
    BY <2>8
<1>3. n \in P
  <2> HIDE DEF P
  <2> QED
    BY <1>1, <1>2, StepInduction
<1> QED
  BY <1>3

(* What FlattenSeq gives: as many elements as the parts have together, and *)
(* each of them at its place behind the parts before its own.              *)
THEOREM Flattened ==
    ASSUME NEW n, NEW T, NEW s, Parts(s, n, T)
    PROVE  /\ FlattenSeq(s) \in Seq(T)
           /\ Len(FlattenSeq(s)) = Sum(Lens(s), n)
           /\ \A j \in 1 .. n : \A k \in 1 .. Len(s[j]) :
                FlattenSeq(s)[Sum(Lens(s), j - 1) + k] = s[j][k]
<1> DEFINE lens == Lens(s)
<1>1. /\ n \in Nat /\ DOMAIN s = 1 .. n /\ Len(s) = n
      /\ \A i \in 1 .. n : s[i] \in Seq(T) /\ Len(s[i]) \in Nat
      /\ \A i \in 1 .. n : lens[i] = Len(s[i])
      /\ Numbers(lens, n)
  BY PartFacts
<1> HIDE DEF lens
<1>2. /\ Sum(lens, 0) = 0 /\ \A k \in 0 .. n : Sum(lens, k) \in Nat
      /\ \A k \in 0 .. n - 1 : Sum(lens, k + 1) = Sum(lens, k) + lens[k + 1]
  BY <1>1, SumStep
<1>3. CASE n = 0
  <2>1. FlattenSeq(s) = s
    BY <1>1, <1>3 DEF FlattenSeq
  <2>2. s \in Seq(T) /\ Len(s) = 0
    <3>1. s = <<>>
      BY <1>1, <1>3 DEF Parts
    <3> QED
      BY <3>1
  <2> QED
    BY <1>2, <1>3, <2>1, <2>2 DEF lens
<1>4. CASE n # 0
  <2> DEFINE g == CHOOSE g : IsFlat(g, s, n)
             Flat(k) == /\ g[k] \in Seq(T)
                        /\ Len(g[k]) = Sum(lens, k)
                        /\ \A j \in 1 .. k : \A m \in 1 .. Len(s[j]) :
                             g[k][Sum(lens, j - 1) + m] = s[j][m]
             P == {k \in Nat : k \in 1 .. n => Flat(k)}
  <2>1. FlattenSeq(s) = g[n]
    BY <1>1, <1>4, FlatIs
  <2>2. IsFlat(g, s, n)
    BY <1>1, FlatExists
  <2> HIDE DEF g
  <2>3. \A i \in 1 .. n : g[i] = IF i = 1 THEN s[i] ELSE g[i - 1] \o s[i]
    BY <2>2 DEF IsFlat
  <2>4. 0 \in P
    OBVIOUS
  <2>5. ASSUME NEW k \in 0 .. n - 1, k \in P PROVE k + 1 \in P
    <3>1. /\ k + 1 \in 1 .. n /\ (k + 1) - 1 = k /\ k \in 0 .. n
          /\ s[k + 1] \in Seq(T) /\ Len(s[k + 1]) \in Nat
          /\ lens[k + 1] = Len(s[k + 1])
          /\ Sum(lens, k + 1) = Sum(lens, k) + Len(s[k + 1])
          /\ Sum(lens, k) \in Nat
      <4>1. k + 1 \in 1 .. n /\ (k + 1) - 1 = k /\ k \in 0 .. n
        BY <1>1
      <4> QED
        BY <1>1, <1>2, <4>1
    <3>2. CASE k = 0
      <4>1. g[k + 1] = s[k + 1] /\ Sum(lens, k) = 0
        BY <1>2, <2>3, <3>1, <3>2
      <4>2. \A j \in 1 .. k + 1 : j = k + 1 /\ j - 1 = k
        BY <3>2
      <4>3. \A j \in 1 .. k + 1 : \A m \in 1 .. Len(s[j]) :
              g[k + 1][Sum(lens, j - 1) + m] = s[j][m]
        BY <4>1, <4>2
      <4>4. Len(g[k + 1]) = Sum(lens, k + 1)
        BY <3>1, <4>1
      <4>5. Flat(k + 1)
        BY <3>1, <4>1, <4>3, <4>4
      <4> QED
        BY <4>5
    <3>3. CASE k # 0
      <4>1. k \in 1 .. n /\ Flat(k)
        BY <1>1, <2>5, <3>3
      <4>2. g[k + 1] = g[k] \o s[k + 1]
        <5>1. \A i \in 1 .. n : i # 1 => g[i] = g[i - 1] \o s[i]
          BY <2>3
        <5>2. k + 1 # 1
          BY <3>3
        <5>3. g[k + 1] = g[(k + 1) - 1] \o s[k + 1]
          BY <3>1, <5>1, <5>2
        <5> QED
          BY <3>1, <5>3
      <4>3. /\ g[k + 1] \in Seq(T)
            /\ Len(g[k + 1]) = Len(g[k]) + Len(s[k + 1])
            /\ \A i \in 1 .. Len(g[k]) + Len(s[k + 1]) :
                 g[k + 1][i] = IF i <= Len(g[k]) THEN g[k][i] ELSE s[k + 1][i - Len(g[k])]
        <5>1. PICK x : x = g[k] /\ x \in Seq(T)
          BY <4>1
        <5>2. PICK y : y = s[k + 1] /\ y \in Seq(T)
          BY <3>1
        <5>3. /\ x \o y \in Seq(T) /\ Len(x \o y) = Len(x) + Len(y)
              /\ \A i \in 1 .. Len(x) + Len(y) :
                   (x \o y)[i] = IF i <= Len(x) THEN x[i] ELSE y[i - Len(x)]
          BY <5>1, <5>2, ConcatProperties
        <5>4. g[k + 1] = x \o y
          BY <4>2, <5>1, <5>2
        <5>5. PICK z : z = x \o y
          OBVIOUS
        <5>6. /\ z \in Seq(T) /\ Len(z) = Len(x) + Len(y)
              /\ \A i \in 1 .. Len(x) + Len(y) :
                   z[i] = IF i <= Len(x) THEN x[i] ELSE y[i - Len(x)]
          BY <5>3, <5>5
        <5>7. x = g[k] /\ y = s[k + 1] /\ z = g[k + 1]
          BY <5>1, <5>2, <5>4, <5>5
        <5> QED
          BY <5>6, <5>7
      <4>4. ASSUME NEW j \in 1 .. k + 1, NEW m \in 1 .. Len(s[j])
            PROVE  g[k + 1][Sum(lens, j - 1) + m] = s[j][m]
        <5>1. CASE j \in 1 .. k
          <6>1. Numbers(lens, k) /\ lens[j] = Len(s[j]) /\ k \in Nat
            <7>1. \A i \in 1 .. k : i \in 1 .. n
              BY <1>1
            <7> QED
              BY <1>1, <5>1, <7>1 DEF Numbers
          <6>2. Sum(lens, j - 1) + m \in 1 .. Sum(lens, k)
            BY <5>1, <6>1, SumPlaces
          <6>3. PICK i : i = Sum(lens, j - 1) + m
            OBVIOUS
          <6>4. i \in 1 .. Len(g[k]) /\ i <= Len(g[k])
            BY <3>1, <4>1, <6>2, <6>3
          <6>5. i \in 1 .. Len(g[k]) + Len(s[k + 1])
            BY <3>1, <4>1, <6>4
          <6>6. g[k + 1][i] = g[k][i]
            BY <4>3, <6>4, <6>5
          <6>7. g[k][i] = s[j][m]
            BY <4>1, <5>1, <6>3
          <6> QED
            BY <6>3, <6>6, <6>7
        <5>2. CASE j = k + 1
          <6>1. j - 1 = k /\ m \in 1 .. Len(s[k + 1])
            BY <3>1, <5>2
          <6>2. /\ Sum(lens, k) + m \in 1 .. Len(g[k]) + Len(s[k + 1])
                /\ ~(Sum(lens, k) + m <= Len(g[k]))
                /\ (Sum(lens, k) + m) - Len(g[k]) = m
            BY <3>1, <4>1, <6>1
          <6> QED
            BY <4>3, <5>2, <6>1, <6>2
        <5> QED
          BY <5>1, <5>2
      <4>5. Flat(k + 1)
        BY <3>1, <4>1, <4>3, <4>4
      <4> QED
        BY <4>5
    <3> QED
      BY <3>2, <3>3
  <2>6. n \in P
    <3> HIDE DEF P
    <3> QED
      BY <1>1, <2>4, <2>5, StepInduction
  <2>7. n \in 1 .. n
    BY <1>1, <1>4
  <2> QED
    BY <2>1, <2>6, <2>7 DEF lens
<1> QED
  BY <1>3, <1>4

(* The same with the lengths told by numbers of their own.                 *)
LEMMA PackedAt ==
    ASSUME NEW n, NEW T, NEW s, Parts(s, n, T), NEW lens, \A i \in 1 .. n : lens[i] = Len(s[i])
    PROVE  /\ Numbers(lens, n)
           /\ FlattenSeq(s) \in Seq(T)
           /\ Len(FlattenSeq(s)) = Sum(lens, n)
           /\ DOMAIN FlattenSeq(s) = 1 .. Sum(lens, n)
           /\ \A j \in 1 .. n : \A k \in 1 .. lens[j] :
                FlattenSeq(s)[Sum(lens, j - 1) + k] = s[j][k]
<1>1. /\ n \in Nat /\ Numbers(Lens(s), n)
      /\ \A i \in 1 .. n : Len(s[i]) \in Nat
      /\ \A i \in 1 .. n : Lens(s)[i] = Len(s[i])
  BY PartFacts
<1>2. Numbers(lens, n) /\ \A i \in 1 .. n : Lens(s)[i] = lens[i]
  BY <1>1 DEF Numbers
<1>3. \A k \in 0 .. n : Sum(Lens(s), k) = Sum(lens, k)
  BY <1>1, <1>2, SumSame
<1>4. /\ FlattenSeq(s) \in Seq(T)
      /\ Len(FlattenSeq(s)) = Sum(Lens(s), n)
      /\ \A j \in 1 .. n : \A k \in 1 .. Len(s[j]) :
           FlattenSeq(s)[Sum(Lens(s), j - 1) + k] = s[j][k]
  BY Flattened
<1>5. n \in 0 .. n /\ \A j \in 1 .. n : j - 1 \in 0 .. n
  BY <1>1
<1>6. Len(FlattenSeq(s)) = Sum(lens, n)
  BY <1>3, <1>4, <1>5
<1>7. DOMAIN FlattenSeq(s) = 1 .. Sum(lens, n)
  BY <1>4, <1>6, LenProperties
<1>8. ASSUME NEW j \in 1 .. n, NEW k \in 1 .. lens[j]
      PROVE  FlattenSeq(s)[Sum(lens, j - 1) + k] = s[j][k]
  <2>1. k \in 1 .. Len(s[j]) /\ Sum(Lens(s), j - 1) = Sum(lens, j - 1)
    BY <1>3, <1>5
  <2>2. FlattenSeq(s)[Sum(Lens(s), j - 1) + k] = s[j][k]
    BY <1>4, <2>1
  <2> QED
    BY <2>1, <2>2
<1> QED
  BY <1>2, <1>4, <1>6, <1>7, <1>8

-----------------------------------------------------------------------------
(* Meshes and their faces.                                                 *)

SoundMeshes(ms) ==
    /\ Len(ms) \in Nat
    /\ DOMAIN ms = 1 .. Len(ms)
    /\ \A j \in DOMAIN ms : SoundMesh(ms[j])

LEMMA MeshFacts ==
    ASSUME NEW m, SoundMesh(m)
    PROVE  /\ m.verts \in Nat /\ m.norms \in Nat
           /\ Len(m.faces) \in Nat /\ DOMAIN m.faces = 1 .. Len(m.faces)
           /\ \A f \in 1 .. Len(m.faces) :
                /\ m.faces[f].vtx \in Seq(0 .. m.verts - 1)
                /\ m.faces[f].nrm \in Seq(0 .. m.norms - 1)
                /\ m.faces[f].holes \in Seq(0 .. Len(m.faces) - 1)
                /\ Len(m.faces[f].nrm) = Len(m.faces[f].vtx)
                /\ Len(m.faces[f].vtx) \in Nat
<1>1. /\ m.verts \in Nat /\ m.norms \in Nat
      /\ m.faces \in Seq([vtx : Seq(0 .. m.verts - 1), nrm : Seq(0 .. m.norms - 1),
                          holes : Seq(0 .. Len(m.faces) - 1)])
      /\ \A f \in DOMAIN m.faces : Len(m.faces[f].nrm) = Len(m.faces[f].vtx)
  BY DEF SoundMesh
<1>2. Len(m.faces) \in Nat /\ DOMAIN m.faces = 1 .. Len(m.faces)
  BY <1>1, LenProperties
<1>3. ASSUME NEW f \in 1 .. Len(m.faces)
      PROVE  m.faces[f] \in [vtx : Seq(0 .. m.verts - 1), nrm : Seq(0 .. m.norms - 1),
                              holes : Seq(0 .. Len(m.faces) - 1)]
  BY <1>1, ElementOfSeq
<1>4. \A f \in 1 .. Len(m.faces) :
        /\ m.faces[f].vtx \in Seq(0 .. m.verts - 1)
        /\ m.faces[f].nrm \in Seq(0 .. m.norms - 1)
        /\ m.faces[f].holes \in Seq(0 .. Len(m.faces) - 1)
  BY <1>3
<1>5. \A f \in 1 .. Len(m.faces) : Len(m.faces[f].vtx) \in Nat
  BY <1>4, LenProperties
<1> QED
  BY <1>1, <1>2, <1>4, <1>5

LEMMA UVFacts ==
    ASSUME NEW m, SoundMesh(m), NEW set \in Nat \ {0}
    PROVE  /\ Source(m, set).coords \in Nat
           /\ m.uvSets # <<>> => Source(m, set) = m.uvSets[SourceSet(m, set)]
           /\ \A f \in 1 .. Len(m.faces) :
                /\ Source(m, set).faces[f] \in Seq(0 .. Source(m, set).coords - 1)
                /\ Len(Source(m, set).faces[f]) \in {0, Len(m.faces[f].vtx)}
                /\ m.uvSets = <<>> => Source(m, set).faces[f] = <<>>
<1>1. Len(m.faces) \in Nat /\ DOMAIN m.faces = 1 .. Len(m.faces)
  BY MeshFacts
<1>2. /\ m.uvSets \in Seq([coords : Nat, faces : Seq(Seq(Nat))])
      /\ \A i \in DOMAIN m.uvSets :
           /\ m.uvSets[i].faces \in Seq(Seq(0 .. m.uvSets[i].coords - 1))
           /\ Len(m.uvSets[i].faces) = Len(m.faces)
           /\ \A f \in DOMAIN m.faces : Len(m.uvSets[i].faces[f]) \in {0, Len(m.faces[f].vtx)}
  BY DEF SoundMesh
<1>3. CASE m.uvSets = <<>>
  <2>1. Source(m, set) = [coords |-> 0, faces |-> [f \in DOMAIN m.faces |-> <<>>]]
    BY <1>3 DEF Source
  <2>2. \A f \in 1 .. Len(m.faces) : Source(m, set).faces[f] = <<>>
    BY <1>1, <2>1
  <2>3. <<>> \in Seq(0 .. Source(m, set).coords - 1) /\ Len(<<>>) = 0
    OBVIOUS
  <2> QED
    BY <1>3, <2>1, <2>2, <2>3
<1>4. CASE m.uvSets # <<>>
  <2> DEFINE i == SourceSet(m, set)
  <2>1. Source(m, set) = m.uvSets[i]
    BY <1>4 DEF Source
  <2>2. i \in DOMAIN m.uvSets
    <3>1. Len(m.uvSets) \in Nat /\ DOMAIN m.uvSets = 1 .. Len(m.uvSets) /\ Len(m.uvSets) # 0
      BY <1>2, <1>4, LenProperties, EmptySeq
    <3>2. 1 \in 1 .. Len(m.uvSets) /\ (set <= Len(m.uvSets) => set \in 1 .. Len(m.uvSets))
      BY <3>1
    <3> QED
      BY <3>1, <3>2 DEF SourceSet
  <2> HIDE DEF i
  <2>3. /\ m.uvSets[i].coords \in Nat
        /\ m.uvSets[i].faces \in Seq(Seq(0 .. m.uvSets[i].coords - 1))
        /\ Len(m.uvSets[i].faces) = Len(m.faces)
        /\ \A f \in 1 .. Len(m.faces) : Len(m.uvSets[i].faces[f]) \in {0, Len(m.faces[f].vtx)}
    <3>1. m.uvSets[i] \in [coords : Nat, faces : Seq(Seq(Nat))]
      <4>1. i \in 1 .. Len(m.uvSets)
        BY <1>2, <2>2, LenProperties
      <4> QED
        BY <1>2, <4>1, ElementOfSeq
    <3> QED
      BY <1>1, <1>2, <2>2, <3>1
  <2>4. \A f \in 1 .. Len(m.faces) : m.uvSets[i].faces[f] \in Seq(0 .. m.uvSets[i].coords - 1)
    BY <2>3, ElementOfSeq
  <2> QED
    BY <1>4, <2>1, <2>3, <2>4 DEF i
<1> QED
  BY <1>3, <1>4

(* moved has the elements of q, all of K, in reverse order and b more.     *)
Moves(q, K, b, moved) ==
    /\ K \in SUBSET Nat
    /\ b \in Nat
    /\ q \in Seq(K)
    /\ moved = Shifted(Reverse(q), b)

IsMoved(q, K, b, moved) ==
    /\ moved \in Seq(Nat)
    /\ Len(moved) = Len(q)
    /\ \A v \in 1 .. Len(q) :
         /\ moved[v] = q[Len(q) + 1 - v] + b
         /\ Len(q) + 1 - v \in 1 .. Len(q)
         /\ q[Len(q) + 1 - v] \in K

LEMMA MovedReversed ==
    ASSUME NEW q, NEW K, NEW b, NEW moved, Moves(q, K, b, moved)
    PROVE  IsMoved(q, K, b, moved)
<1>0. K \in SUBSET Nat /\ b \in Nat /\ q \in Seq(K) /\ moved = Shifted(Reverse(q), b)
  BY DEF Moves
<1> DEFINE r == Reverse(q)
           n == Len(q)
<1>1. n \in Nat /\ \A i \in 1 .. n : q[i] \in K
  BY <1>0, LenProperties, ElementOfSeq
<1>2. \A v \in 1 .. n : n + 1 - v \in 1 .. n /\ (n - v) + 1 = n + 1 - v
  BY <1>1
<1>3. r = [v \in 1 .. n |-> q[(n - v) + 1]]
  BY DEF Reverse
<1> HIDE DEF r, n
<1>4. Shifted(r, b) = [v \in 1 .. n |-> r[v] + b]
  BY <1>3 DEF Shifted
<1>5. \A v \in 1 .. n : Shifted(r, b)[v] = q[n + 1 - v] + b /\ q[n + 1 - v] \in K
  BY <1>1, <1>2, <1>3, <1>4
<1>6. \A v \in 1 .. n : r[v] + b \in Nat
  <2>1. \A v \in 1 .. n : r[v] \in K
    BY <1>1, <1>2, <1>3
  <2>2. \A v \in 1 .. n : r[v] \in Nat
    BY <1>0, <2>1
  <2>3. b \in Nat
    BY <1>0
  <2> QED
    BY <2>2, <2>3
<1>7. Shifted(r, b) \in Seq(Nat) /\ Len(Shifted(r, b)) = n
  BY <1>1, <1>4, <1>6
<1> QED
  BY <1>0, <1>2, <1>5, <1>7 DEF r, n, IsMoved

LEMMA MeshNumbers ==
    ASSUME NEW ms, SoundMeshes(ms)
    PROVE  /\ Numbers(Verts(ms), Len(ms)) /\ Numbers(Norms(ms), Len(ms))
           /\ Numbers(FaceCounts(ms), Len(ms))
           /\ DOMAIN Verts(ms) = 1 .. Len(ms) /\ DOMAIN Norms(ms) = 1 .. Len(ms)
           /\ \A j \in 1 .. Len(ms) :
                /\ Verts(ms)[j] = ms[j].verts /\ Norms(ms)[j] = ms[j].norms
                /\ FaceCounts(ms)[j] = Len(ms[j].faces)
<1>1. \A j \in 1 .. Len(ms) : SoundMesh(ms[j])
  BY DEF SoundMeshes
<1>2. \A j \in 1 .. Len(ms) : {ms[j].verts, ms[j].norms, Len(ms[j].faces)} \subseteq Nat
  BY <1>1, MeshFacts
<1>3. /\ DOMAIN Verts(ms) = 1 .. Len(ms) /\ DOMAIN Norms(ms) = 1 .. Len(ms)
      /\ \A j \in 1 .. Len(ms) :
                /\ Verts(ms)[j] = ms[j].verts /\ Norms(ms)[j] = ms[j].norms
                /\ FaceCounts(ms)[j] = Len(ms[j].faces)
  BY DEF SoundMeshes, Verts, Norms, FaceCounts
<1> QED
  BY <1>2, <1>3 DEF Numbers

(* The faces of all meshes, one mesh behind the other.                     *)
THEOREM FacesInOrder ==
    ASSUME NEW ms, SoundMeshes(ms)
    PROVE  /\ Len(Faces(ms)) = Sum(FaceCounts(ms), Len(ms)) /\ Len(Faces(ms)) \in Nat
           /\ DOMAIN Faces(ms) = 1 .. Len(Faces(ms))
           /\ \A j \in 1 .. Len(ms) : \A f \in 1 .. Len(ms[j].faces) :
                /\ Sum(FaceCounts(ms), j - 1) + f \in DOMAIN Faces(ms)
                /\ Faces(ms)[Sum(FaceCounts(ms), j - 1) + f] = [mesh |-> j, face |-> f]
           /\ \A i \in DOMAIN Faces(ms) :
                /\ Faces(ms)[i].mesh \in 1 .. Len(ms)
                /\ Faces(ms)[i].face \in 1 .. Len(ms[Faces(ms)[i].mesh].faces)
                /\ i = Sum(FaceCounts(ms), Faces(ms)[i].mesh - 1) + Faces(ms)[i].face
                /\ Faces(ms)[i] = [mesh |-> Faces(ms)[i].mesh, face |-> Faces(ms)[i].face]
<1> DEFINE n == Len(ms)
           T == [mesh : 1 .. n, face : Nat]
           s == [j \in DOMAIN ms |-> [f \in DOMAIN ms[j].faces |-> [mesh |-> j, face |-> f]]]
           lens == FaceCounts(ms)
<1>1. n \in Nat /\ DOMAIN ms = 1 .. n /\ \A j \in 1 .. n : SoundMesh(ms[j])
  BY DEF SoundMeshes
<1>2. Numbers(lens, n) /\ \A j \in 1 .. n : lens[j] = Len(ms[j].faces)
  BY MeshNumbers
<1>3. \A j \in 1 .. n : Len(ms[j].faces) \in Nat /\ DOMAIN ms[j].faces = 1 .. Len(ms[j].faces)
  BY <1>1, MeshFacts
<1>4. Faces(ms) = FlattenSeq(s)
  BY DEF Faces
<1>5. ASSUME NEW j \in 1 .. n
      PROVE  /\ s[j] = [f \in 1 .. Len(ms[j].faces) |-> [mesh |-> j, face |-> f]]
             /\ s[j] \in Seq(T) /\ Len(s[j]) = Len(ms[j].faces)
  <2>1. s[j] = [f \in 1 .. Len(ms[j].faces) |-> [mesh |-> j, face |-> f]]
    BY <1>1, <1>3
  <2>2. \A f \in 1 .. Len(ms[j].faces) : [mesh |-> j, face |-> f] \in T
    OBVIOUS
  <2> HIDE DEF s, T
  <2>3. s[j] \in Seq(T) /\ Len(s[j]) = Len(ms[j].faces)
    BY <1>3, <2>1, <2>2
  <2> QED
    BY <2>1, <2>3
<1>6. Parts(s, n, T)
  <2>1. s = [j \in 1 .. n |-> s[j]]
    BY <1>1
  <2> HIDE DEF s, T
  <2>2. s \in Seq(Seq(T)) /\ Len(s) = n
    BY <1>1, <1>5, <2>1
  <2> QED
    BY <1>1, <2>2 DEF Parts
<1> HIDE DEF s, T
<1>7. \A j \in 1 .. n : lens[j] = Len(s[j])
  BY <1>2, <1>5
<1> HIDE DEF lens
<1>8. /\ Len(Faces(ms)) = Sum(lens, n)
      /\ DOMAIN Faces(ms) = 1 .. Sum(lens, n)
      /\ \A j \in 1 .. n : \A k \in 1 .. lens[j] : Faces(ms)[Sum(lens, j - 1) + k] = s[j][k]
  BY <1>4, <1>6, <1>7, PackedAt
<1>9. Sum(lens, n) \in Nat
  BY <1>1, <1>2, SumStep
<1>10. ASSUME NEW j \in 1 .. n, NEW f \in 1 .. Len(ms[j].faces)
       PROVE  /\ Sum(lens, j - 1) + f \in DOMAIN Faces(ms)
              /\ Faces(ms)[Sum(lens, j - 1) + f] = [mesh |-> j, face |-> f]
  <2>1. f \in 1 .. lens[j] /\ s[j][f] = [mesh |-> j, face |-> f]
    BY <1>2, <1>5
  <2>2. Sum(lens, j - 1) + f \in 1 .. Sum(lens, n)
    BY <1>1, <1>2, <2>1, SumPlaces
  <2> QED
    BY <1>8, <2>1, <2>2
<1>11. ASSUME NEW i \in DOMAIN Faces(ms)
       PROVE  /\ Faces(ms)[i].mesh \in 1 .. n
              /\ Faces(ms)[i].face \in 1 .. Len(ms[Faces(ms)[i].mesh].faces)
              /\ i = Sum(lens, Faces(ms)[i].mesh - 1) + Faces(ms)[i].face
              /\ Faces(ms)[i] = [mesh |-> Faces(ms)[i].mesh, face |-> Faces(ms)[i].face]
  <2>1. i \in 1 .. Sum(lens, n)
    BY <1>8
  <2>2. PICK j \in 1 .. n : \E f \in 1 .. lens[j] : i = Sum(lens, j - 1) + f
    <3>1. \A p \in 1 .. Sum(lens, n) : \E j \in 1 .. n : \E f \in 1 .. lens[j] :
            p = Sum(lens, j - 1) + f
      BY <1>1, <1>2, SumPlaces
    <3> QED
      BY <2>1, <3>1
  <2>3. PICK f \in 1 .. lens[j] : i = Sum(lens, j - 1) + f
    BY <2>2
  <2>4. f \in 1 .. Len(ms[j].faces)
    BY <1>2, <2>3
  <2>5. Faces(ms)[i] = [mesh |-> j, face |-> f]
    BY <1>10, <2>3, <2>4
  <2> QED
    BY <2>3, <2>4, <2>5
<1> QED
  BY <1>8, <1>9, <1>10, <1>11 DEF lens

-----------------------------------------------------------------------------
(* The flat arrays.                                                        *)

(* The elements of each mesh lie behind those of the meshes before.        *)
ElementsAt(numbers, n) ==
    \A j \in 1 .. n : \A i \in 1 .. numbers[j] :
      Elements(numbers)[Sum(numbers, j - 1) + i] = <<j, i>>

LEMMA ElementsInOrder ==
    ASSUME NEW n, n \in Nat, NEW numbers, Numbers(numbers, n), DOMAIN numbers = 1 .. n
    PROVE  ElementsAt(numbers, n)
<1> DEFINE T == (1 .. n) \X Nat
           s == [j \in 1 .. n |-> [i \in 1 .. numbers[j] |-> <<j, i>>]]
<1>1. \A j \in 1 .. n : numbers[j] \in Nat
  BY DEF Numbers
<1>2. ASSUME NEW j \in 1 .. n
      PROVE  /\ s[j] = [i \in 1 .. numbers[j] |-> <<j, i>>]
             /\ s[j] \in Seq(T) /\ numbers[j] = Len(s[j])
  <2>1. s[j] = [i \in 1 .. numbers[j] |-> <<j, i>>]
    OBVIOUS
  <2>2. \A i \in 1 .. numbers[j] : <<j, i>> \in T
    OBVIOUS
  <2> HIDE DEF s, T
  <2> QED
    BY <1>1, <2>1, <2>2
<1>3. Parts(s, n, T)
  <2>1. s = [j \in 1 .. n |-> s[j]]
    OBVIOUS
  <2> HIDE DEF s, T
  <2>2. s \in Seq(Seq(T)) /\ Len(s) = n
    BY <1>2, <2>1
  <2> QED
    BY <2>2 DEF Parts
<1>4. Elements(numbers) = FlattenSeq(s)
  BY DEF Elements
<1> HIDE DEF s, T
<1>5. \A j \in 1 .. n : \A i \in 1 .. numbers[j] :
        FlattenSeq(s)[Sum(numbers, j - 1) + i] = s[j][i]
  <2>1. \A j \in 1 .. n : numbers[j] = Len(s[j])
    BY <1>2
  <2>2. PICK m, lens : m = n /\ lens = numbers
    OBVIOUS
  <2>3. Parts(s, m, T) /\ \A j \in 1 .. m : lens[j] = Len(s[j])
    BY <1>3, <2>1, <2>2
  <2>4. \A j \in 1 .. m : \A i \in 1 .. lens[j] :
          FlattenSeq(s)[Sum(lens, j - 1) + i] = s[j][i]
    BY <2>3, PackedAt
  <2> QED
    BY <2>2, <2>4
<1> QED
  BY <1>2, <1>4, <1>5 DEF ElementsAt

UVElementsAt(ms, set) ==
    \A j \in 1 .. Len(ms) :
      /\ UVBase(ms, set, j) \in Nat
      /\ \A i \in 1 .. Source(ms[j], set).coords :
           UVElements(ms, set)[UVBase(ms, set, j) + i] = <<j, SourceSet(ms[j], set), i>>

LEMMA UVElementsInOrder ==
    ASSUME NEW ms, SoundMeshes(ms), NEW set \in Nat \ {0}
    PROVE  UVElementsAt(ms, set)
<1> DEFINE n == Len(ms)
           numbers == [j \in DOMAIN ms |-> Source(ms[j], set).coords]
           T == {<<j, SourceSet(ms[j], set), i>> : j \in 1 .. n, i \in Nat}
           s == [j \in DOMAIN ms |->
                   [i \in 1 .. Source(ms[j], set).coords |-> <<j, SourceSet(ms[j], set), i>>]]
<1>1. n \in Nat /\ DOMAIN ms = 1 .. n /\ \A j \in 1 .. n : SoundMesh(ms[j])
  BY DEF SoundMeshes
<1>2. \A j \in 1 .. n : Source(ms[j], set).coords \in Nat
  BY <1>1, UVFacts
<1>3. Numbers(numbers, n) /\ \A j \in 1 .. n : numbers[j] = Source(ms[j], set).coords
  BY <1>1, <1>2 DEF Numbers
<1>4. ASSUME NEW j \in 1 .. n
      PROVE  /\ s[j] = [i \in 1 .. numbers[j] |-> <<j, SourceSet(ms[j], set), i>>]
             /\ s[j] \in Seq(T) /\ numbers[j] = Len(s[j])
  <2>1. s[j] = [i \in 1 .. numbers[j] |-> <<j, SourceSet(ms[j], set), i>>]
    BY <1>1
  <2>2. \A i \in 1 .. numbers[j] : <<j, SourceSet(ms[j], set), i>> \in T
    OBVIOUS
  <2>3. numbers[j] \in Nat
    BY <1>2, <1>3
  <2> HIDE DEF s, T, numbers
  <2> QED
    BY <2>1, <2>2, <2>3
<1>5. Parts(s, n, T)
  <2>1. s = [j \in 1 .. n |-> s[j]]
    BY <1>1
  <2> HIDE DEF s, T
  <2>2. s \in Seq(Seq(T)) /\ Len(s) = n
    BY <1>1, <1>4, <2>1
  <2> QED
    BY <1>1, <2>2 DEF Parts
<1>6. UVElements(ms, set) = FlattenSeq(s)
  BY DEF UVElements
<1>7. \A j \in 1 .. n : UVBase(ms, set, j) = Sum(numbers, j - 1)
  BY DEF UVBase
<1> HIDE DEF s, T, numbers, n
<1>8. \A j \in 1 .. n : \A i \in 1 .. numbers[j] :
        FlattenSeq(s)[Sum(numbers, j - 1) + i] = s[j][i]
  <2>1. \A j \in 1 .. n : numbers[j] = Len(s[j])
    BY <1>4
  <2> QED
    BY <1>5, <2>1, PackedAt
<1>9. \A j \in 1 .. n : Sum(numbers, j - 1) \in Nat
  <2>1. \A k \in 0 .. n : Sum(numbers, k) \in Nat
    BY <1>1, <1>3, SumStep
  <2>2. \A j \in 1 .. n : j - 1 \in 0 .. n
    BY <1>1
  <2> QED
    BY <2>1, <2>2
<1>10. ASSUME NEW j \in 1 .. n, NEW i \in 1 .. Source(ms[j], set).coords
       PROVE  UVElements(ms, set)[UVBase(ms, set, j) + i] = <<j, SourceSet(ms[j], set), i>>
  <2>1. i \in 1 .. numbers[j]
    BY <1>3
  <2>2. s[j][i] = <<j, SourceSet(ms[j], set), i>>
    BY <1>4, <2>1
  <2> QED
    BY <1>6, <1>7, <1>8, <2>1, <2>2
<1> QED
  BY <1>7, <1>9, <1>10 DEF n, UVElementsAt

(* What each face adds to the flat arrays of points, normals and texture   *)
(* coordinates.                                                            *)
IsFace(ms, p, m, face, size) ==
    /\ p.mesh \in 1 .. Len(ms)
    /\ m = ms[p.mesh]
    /\ p.face \in 1 .. Len(m.faces)
    /\ face = m.faces[p.face]
    /\ size = Len(face.vtx)

FaceArrays(ms, p, m, face, size) ==
    /\ VertexIndices(ms, p) \in Seq(Nat) /\ Len(VertexIndices(ms, p)) = size
    /\ NormalIndices(ms, p) \in Seq(Nat) /\ Len(NormalIndices(ms, p)) = size
    /\ Sum(Verts(ms), p.mesh - 1) \in Nat /\ Sum(Norms(ms), p.mesh - 1) \in Nat
    /\ \A v \in 1 .. size :
         /\ VertexIndices(ms, p)[v] = face.vtx[size + 1 - v] + Sum(Verts(ms), p.mesh - 1)
         /\ NormalIndices(ms, p)[v] = face.nrm[size + 1 - v] + Sum(Norms(ms), p.mesh - 1)
         /\ face.vtx[size + 1 - v] \in 0 .. m.verts - 1
         /\ face.nrm[size + 1 - v] \in 0 .. m.norms - 1
         /\ size + 1 - v \in 1 .. size

LEMMA FaceFacts ==
    ASSUME NEW ms, SoundMeshes(ms), NEW p, NEW m, NEW face, NEW size, IsFace(ms, p, m, face, size)
    PROVE  /\ SoundMesh(m) /\ FaceAt(ms, p) = face
           /\ m.verts \in Nat /\ m.norms \in Nat
           /\ face.vtx \in Seq(0 .. m.verts - 1) /\ face.nrm \in Seq(0 .. m.norms - 1)
           /\ Len(face.nrm) = size /\ size \in Nat /\ Len(face.vtx) = size
<1>1. SoundMesh(m) /\ FaceAt(ms, p) = face
  BY DEF IsFace, SoundMeshes, FaceAt
<1>2. p.face \in 1 .. Len(m.faces) /\ face = m.faces[p.face] /\ size = Len(face.vtx)
  BY DEF IsFace
<1> QED
  BY <1>1, <1>2, MeshFacts

LEMMA FaceIndices ==
    ASSUME NEW ms, SoundMeshes(ms), NEW p, NEW m, NEW face, NEW size, IsFace(ms, p, m, face, size)
    PROVE  FaceArrays(ms, p, m, face, size)
<1>1. p.mesh \in 1 .. Len(ms) /\ Len(ms) \in Nat
  BY DEF IsFace, SoundMeshes
<1>2. /\ SoundMesh(m) /\ FaceAt(ms, p) = face
      /\ m.verts \in Nat /\ m.norms \in Nat
      /\ face.vtx \in Seq(0 .. m.verts - 1) /\ face.nrm \in Seq(0 .. m.norms - 1)
      /\ Len(face.nrm) = size /\ size \in Nat /\ Len(face.vtx) = size
  BY FaceFacts
<1>3. PICK b : b = Sum(Verts(ms), p.mesh - 1)
  OBVIOUS
<1>4. PICK c : c = Sum(Norms(ms), p.mesh - 1)
  OBVIOUS
<1>5. b \in Nat /\ c \in Nat
  <2>1. Numbers(Verts(ms), Len(ms)) /\ Numbers(Norms(ms), Len(ms))
    BY MeshNumbers
  <2>2. \A k \in 0 .. Len(ms) : Sum(Verts(ms), k) \in Nat /\ Sum(Norms(ms), k) \in Nat
    BY <1>1, <2>1, SumStep
  <2>3. p.mesh - 1 \in 0 .. Len(ms)
    BY <1>1
  <2> QED
    BY <1>3, <1>4, <2>2, <2>3
<1>6. /\ VertexIndices(ms, p) = Shifted(Reverse(face.vtx), b)
      /\ NormalIndices(ms, p) = Shifted(Reverse(face.nrm), c)
  BY <1>2, <1>3, <1>4 DEF VertexIndices, NormalIndices
<1>7. /\ IsMoved(face.vtx, 0 .. m.verts - 1, b, VertexIndices(ms, p))
      /\ IsMoved(face.nrm, 0 .. m.norms - 1, c, NormalIndices(ms, p))
  <2>1. /\ Moves(face.vtx, 0 .. m.verts - 1, b, VertexIndices(ms, p))
        /\ Moves(face.nrm, 0 .. m.norms - 1, c, NormalIndices(ms, p))
    BY <1>2, <1>5, <1>6 DEF Moves
  <2> QED
    BY <2>1, MovedReversed
<1>8. /\ VertexIndices(ms, p) \in Seq(Nat) /\ Len(VertexIndices(ms, p)) = size
      /\ \A v \in 1 .. size :
           /\ VertexIndices(ms, p)[v] = face.vtx[size + 1 - v] + b
           /\ face.vtx[size + 1 - v] \in 0 .. m.verts - 1
           /\ size + 1 - v \in 1 .. size
  BY <1>2, <1>7 DEF IsMoved
<1>9. /\ NormalIndices(ms, p) \in Seq(Nat) /\ Len(NormalIndices(ms, p)) = size
      /\ \A v \in 1 .. size :
           /\ NormalIndices(ms, p)[v] = face.nrm[size + 1 - v] + c
           /\ face.nrm[size + 1 - v] \in 0 .. m.norms - 1
  BY <1>2, <1>7 DEF IsMoved
<1> QED
  BY <1>3, <1>4, <1>5, <1>8, <1>9 DEF FaceArrays

(* uvs are the indices of its texture coordinates, b where those of its    *)
(* mesh begin.                                                             *)
IsUVs(ms, p, m, set, uvs, count, b) ==
    /\ set \in Nat \ {0}
    /\ uvs = Source(m, set).faces[p.face]
    /\ count = Len(uvs)
    /\ b = UVBase(ms, set, p.mesh)

FaceUVs(ms, p, m, set, uvs, count, b, size) ==
    /\ UVFace(ms, set, p) = uvs
    /\ count \in {0, size} /\ count \in Nat /\ b \in Nat
    /\ UVIndices(ms, set, p) \in Seq(Nat) /\ Len(UVIndices(ms, set, p)) = count
    /\ \A v \in 1 .. count :
         /\ UVIndices(ms, set, p)[v] = uvs[count + 1 - v] + b
         /\ uvs[count + 1 - v] \in 0 .. Source(m, set).coords - 1
         /\ UVElements(ms, set)[(uvs[count + 1 - v] + b) + 1]
              = <<p.mesh, SourceSet(m, set), uvs[count + 1 - v] + 1>>

LEMMA FaceUVIndices ==
    ASSUME NEW ms, SoundMeshes(ms), NEW p, NEW m, NEW face, NEW size, IsFace(ms, p, m, face, size),
           NEW set, NEW uvs, NEW count, NEW b, IsUVs(ms, p, m, set, uvs, count, b)
    PROVE  FaceUVs(ms, p, m, set, uvs, count, b, size)
<1>1. /\ SoundMesh(m) /\ m = ms[p.mesh] /\ p.mesh \in 1 .. Len(ms)
      /\ p.face \in 1 .. Len(m.faces) /\ size = Len(m.faces[p.face].vtx)
  BY FaceFacts DEF IsFace
<1>2. /\ set \in Nat \ {0} /\ uvs = Source(m, set).faces[p.face] /\ count = Len(uvs)
      /\ b = UVBase(ms, set, p.mesh)
  BY DEF IsUVs
<1>3. PICK coords : coords = Source(m, set).coords
  OBVIOUS
<1>4. coords \in Nat /\ uvs \in Seq(0 .. coords - 1) /\ count \in {0, size}
  BY <1>1, <1>2, <1>3, UVFacts
<1>5. count \in Nat
  BY <1>2, <1>4, LenProperties
<1>6. b \in Nat /\ \A k \in 1 .. coords :
                     UVElements(ms, set)[b + k] = <<p.mesh, SourceSet(m, set), k>>
  <2>1. UVElementsAt(ms, set)
    BY <1>2, UVElementsInOrder
  <2> QED
    BY <1>1, <1>2, <1>3, <2>1 DEF UVElementsAt
<1>7. UVFace(ms, set, p) = uvs /\ UVIndices(ms, set, p) = Shifted(Reverse(uvs), b)
  BY <1>1, <1>2 DEF UVFace, UVIndices
<1>8. IsMoved(uvs, 0 .. coords - 1, b, UVIndices(ms, set, p))
  <2>1. Moves(uvs, 0 .. coords - 1, b, UVIndices(ms, set, p))
    BY <1>4, <1>6, <1>7 DEF Moves
  <2> QED
    BY <2>1, MovedReversed
<1>9. /\ UVIndices(ms, set, p) \in Seq(Nat)
      /\ Len(UVIndices(ms, set, p)) = count
      /\ \A v \in 1 .. count :
           /\ UVIndices(ms, set, p)[v] = uvs[count + 1 - v] + b
           /\ uvs[count + 1 - v] \in 0 .. coords - 1
  BY <1>2, <1>8 DEF IsMoved
<1>10. ASSUME NEW x \in 0 .. coords - 1
       PROVE  UVElements(ms, set)[(x + b) + 1] = <<p.mesh, SourceSet(m, set), x + 1>>
  <2>1. x + 1 \in 1 .. coords /\ (x + b) + 1 = b + (x + 1)
    BY <1>4, <1>6
  <2>2. \A k \in 1 .. coords : UVElements(ms, set)[b + k] = <<p.mesh, SourceSet(m, set), k>>
    BY <1>6
  <2>3. UVElements(ms, set)[b + (x + 1)] = <<p.mesh, SourceSet(m, set), x + 1>>
    BY <2>1, <2>2
  <2> QED
    BY <2>1, <2>3
<1>11. ASSUME NEW v \in 1 .. count
       PROVE  /\ UVIndices(ms, set, p)[v] = uvs[count + 1 - v] + b
              /\ uvs[count + 1 - v] \in 0 .. Source(m, set).coords - 1
              /\ UVElements(ms, set)[(uvs[count + 1 - v] + b) + 1]
                   = <<p.mesh, SourceSet(m, set), uvs[count + 1 - v] + 1>>
  <2>1. PICK x : x = uvs[count + 1 - v]
    OBVIOUS
  <2>2. UVIndices(ms, set, p)[v] = uvs[count + 1 - v] + b /\ x \in 0 .. coords - 1
    BY <1>9, <2>1
  <2>3. UVElements(ms, set)[(x + b) + 1] = <<p.mesh, SourceSet(m, set), x + 1>>
    BY <1>10, <2>2
  <2> QED
    BY <1>3, <2>1, <2>2, <2>3
<1> QED
  BY <1>4, <1>5, <1>6, <1>7, <1>9, <1>11 DEF FaceUVs

-----------------------------------------------------------------------------
(* The packed arrays, face by face.                                        *)

(* A flat array of numbers, packed from what each of N faces adds to it.   *)
Packed(flat, part, lens, N) ==
    \A i \in 1 .. N : \A v \in 1 .. lens[i] : flat[Sum(lens, i - 1) + v] = part[i][v]

LensOf(lens, s, n) == \A i \in 1 .. n : lens[i] = Len(s[i])

LEMMA PackedParts ==
    ASSUME NEW n, NEW T, NEW s, Parts(s, n, T), NEW lens, LensOf(lens, s, n)
    PROVE  Numbers(lens, n) /\ Packed(FlattenSeq(s), s, lens, n)
<1>1. \A i \in 1 .. n : lens[i] = Len(s[i])
  BY DEF LensOf
<1>2. /\ Numbers(lens, n)
      /\ \A j \in 1 .. n : \A k \in 1 .. lens[j] :
           FlattenSeq(s)[Sum(lens, j - 1) + k] = s[j][k]
  BY <1>1, PackedAt
<1> QED
  BY <1>2 DEF Packed

LEMMA PackedNumbers ==
    ASSUME NEW N \in Nat, NEW part, NEW lens,
           DOMAIN part = 1 .. N, part = [i \in 1 .. N |-> part[i]],
           \A i \in 1 .. N : part[i] \in Seq(Nat) /\ Len(part[i]) = lens[i]
    PROVE  Numbers(lens, N) /\ Packed(FlattenSeq(part), part, lens, N)
<1>1. Parts(part, N, Nat)
  <2>1. part \in Seq(Seq(Nat)) /\ Len(part) = N
    OBVIOUS
  <2> QED
    BY <2>1 DEF Parts
<1>2. LensOf(lens, part, N)
  BY DEF LensOf
<1> QED
  BY <1>1, <1>2, PackedParts

(* What createPrimitives finds in the flat arrays.                         *)
LEMMA FaceOf ==
    ASSUME NEW ms, SoundMeshes(ms), NEW F, F = Faces(ms), NEW i \in DOMAIN F, NEW p, p = F[i]
    PROVE  /\ i \in 1 .. Len(F) /\ Len(F) \in Nat /\ DOMAIN F = 1 .. Len(F)
           /\ IsFace(ms, p, ms[p.mesh], ms[p.mesh].faces[p.face],
                     Len(ms[p.mesh].faces[p.face].vtx))
<1>1. /\ Len(F) \in Nat /\ DOMAIN F = 1 .. Len(F)
      /\ p.mesh \in 1 .. Len(ms) /\ p.face \in 1 .. Len(ms[p.mesh].faces)
  BY FacesInOrder
<1> QED
  BY <1>1 DEF IsFace

Unpacked(ms, sg, i, p, size) ==
    /\ sg.counts[i] = size
    /\ \A v \in 1 .. size :
         /\ sg.vertexIndices[Sum(sg.counts, i - 1) + v] = VertexIndices(ms, p)[v]
         /\ sg.normalIndices[Sum(sg.counts, i - 1) + v] = NormalIndices(ms, p)[v]

LEMMA FaceUnpacked ==
    ASSUME NEW ms, SoundMeshes(ms), NEW F, F = Faces(ms), NEW i \in DOMAIN F, NEW p, p = F[i],
           NEW sg, sg = SerializeGeometry(ms),
           NEW m, NEW face, NEW size, IsFace(ms, p, m, face, size)
    PROVE  Unpacked(ms, sg, i, p, size)
<1> DEFINE vertexParts == [h \in DOMAIN F |-> VertexIndices(ms, F[h])]
           normalParts == [h \in DOMAIN F |-> NormalIndices(ms, F[h])]
<1>1. i \in 1 .. Len(F) /\ Len(F) \in Nat /\ DOMAIN F = 1 .. Len(F)
  BY FaceOf
<1>2. sg.counts = [h \in DOMAIN F |-> Len(FaceAt(ms, F[h]).vtx)]
  BY DEF SerializeGeometry
<1>3. /\ sg.vertexIndices = FlattenSeq(vertexParts)
      /\ sg.normalIndices = FlattenSeq(normalParts)
  BY DEF SerializeGeometry
<1>4. ASSUME NEW h \in DOMAIN F
      PROVE  /\ VertexIndices(ms, F[h]) \in Seq(Nat) /\ Len(VertexIndices(ms, F[h])) = sg.counts[h]
             /\ NormalIndices(ms, F[h]) \in Seq(Nat) /\ Len(NormalIndices(ms, F[h])) = sg.counts[h]
  <2>1. PICK q, n, side, length :
          /\ q = F[h] /\ n = ms[q.mesh] /\ side = n.faces[q.face] /\ length = Len(side.vtx)
    OBVIOUS
  <2>2. IsFace(ms, q, n, side, length)
    BY <2>1, FaceOf
  <2>3. FaceArrays(ms, q, n, side, length) /\ FaceAt(ms, q) = side
    BY <2>2, FaceIndices, FaceFacts
  <2>4. sg.counts[h] = length
    BY <1>2, <2>1, <2>3
  <2> QED
    BY <2>1, <2>3, <2>4 DEF FaceArrays
<1>5. Packed(FlattenSeq(vertexParts), vertexParts, sg.counts, Len(F))
  <2>1. /\ DOMAIN vertexParts = 1 .. Len(F) /\ vertexParts = [h \in 1 .. Len(F) |-> vertexParts[h]]
        /\ \A h \in 1 .. Len(F) : vertexParts[h] \in Seq(Nat) /\ Len(vertexParts[h]) = sg.counts[h]
    BY <1>1, <1>4
  <2> HIDE DEF vertexParts
  <2> QED
    BY <1>1, <2>1, PackedNumbers
<1>6. Packed(FlattenSeq(normalParts), normalParts, sg.counts, Len(F))
  <2>1. /\ DOMAIN normalParts = 1 .. Len(F) /\ normalParts = [h \in 1 .. Len(F) |-> normalParts[h]]
        /\ \A h \in 1 .. Len(F) : normalParts[h] \in Seq(Nat) /\ Len(normalParts[h]) = sg.counts[h]
    BY <1>1, <1>4
  <2> HIDE DEF normalParts
  <2> QED
    BY <1>1, <2>1, PackedNumbers
<1>7. vertexParts[i] = VertexIndices(ms, p) /\ normalParts[i] = NormalIndices(ms, p)
  OBVIOUS
<1>8. sg.counts[i] = size
  <2>1. FaceAt(ms, p) = face /\ Len(face.vtx) = size
    BY FaceFacts
  <2> QED
    BY <1>2, <2>1
<1> HIDE DEF vertexParts, normalParts
<1>9. \A v \in 1 .. sg.counts[i] :
        /\ sg.vertexIndices[Sum(sg.counts, i - 1) + v] = VertexIndices(ms, p)[v]
        /\ sg.normalIndices[Sum(sg.counts, i - 1) + v] = NormalIndices(ms, p)[v]
  BY <1>1, <1>3, <1>5, <1>6, <1>7 DEF Packed
<1> QED
  BY <1>8, <1>9 DEF Unpacked

(* The same for a uv set: the uv indices are used up as they were packed.  *)
UVUnpacked(ms, sg, i, p, set, count) ==
    /\ sg.uvs[set] = UVElements(ms, set)
    /\ sg.uvCounts[set][i] = count
    /\ \A v \in 1 .. count :
         sg.uvIndices[set][Sum(UVUsed(sg, set), i - 1) + v] = UVIndices(ms, set, p)[v]

LEMMA FaceUVUnpacked ==
    ASSUME NEW ms, SoundMeshes(ms), NEW F, F = Faces(ms), NEW i \in DOMAIN F, NEW p, p = F[i],
           NEW sg, sg = SerializeGeometry(ms),
           NEW m, NEW face, NEW size, IsFace(ms, p, m, face, size),
           NEW set, set \in 1 .. UVSetCount(ms),
           NEW uvs, NEW count, NEW b, IsUVs(ms, p, m, set, uvs, count, b)
    PROVE  UVUnpacked(ms, sg, i, p, set, count)
<1> DEFINE parts == [h \in DOMAIN F |-> UVIndices(ms, set, F[h])]
           used == UVUsed(sg, set)
<1>1. i \in 1 .. Len(F) /\ Len(F) \in Nat /\ DOMAIN F = 1 .. Len(F)
  BY FaceOf
<1>2. sg.counts = [h \in DOMAIN F |-> Len(FaceAt(ms, F[h]).vtx)]
  BY DEF SerializeGeometry
<1>3. /\ sg.uvIndices[set] = FlattenSeq(parts)
      /\ sg.uvCounts[set] = [h \in DOMAIN F |-> Len(UVFace(ms, set, F[h]))]
      /\ sg.uvs[set] = UVElements(ms, set)
  BY DEF SerializeGeometry
<1>4. ASSUME NEW h \in DOMAIN F
      PROVE  /\ UVIndices(ms, set, F[h]) \in Seq(Nat)
             /\ Len(UVIndices(ms, set, F[h])) = used[h]
             /\ used[h] = sg.uvCounts[set][h]
  <2>1. PICK q, n, side, length, indices, many, base :
          /\ q = F[h] /\ n = ms[q.mesh] /\ side = n.faces[q.face] /\ length = Len(side.vtx)
          /\ indices = Source(n, set).faces[q.face] /\ many = Len(indices)
          /\ base = UVBase(ms, set, q.mesh)
    OBVIOUS
  <2>2. IsFace(ms, q, n, side, length)
    BY <2>1, FaceOf
  <2>3. IsUVs(ms, q, n, set, indices, many, base)
    <3>1. set \in Nat \ {0}
      BY DEF IsUVs
    <3> QED
      BY <2>1, <3>1 DEF IsUVs
  <2>4. FaceUVs(ms, q, n, set, indices, many, base, length) /\ FaceAt(ms, q) = side
    BY <2>2, <2>3, FaceUVIndices, FaceFacts
  <2>5. sg.counts[h] = length /\ sg.uvCounts[set][h] = many
    <3>1. sg.counts[h] = Len(FaceAt(ms, F[h]).vtx)
      BY <1>2
    <3>2. sg.uvCounts[set][h] = Len(UVFace(ms, set, F[h]))
      BY <1>3
    <3>3. UVFace(ms, set, q) = indices
      BY <2>4 DEF FaceUVs
    <3> QED
      BY <2>1, <2>4, <3>1, <3>2, <3>3
  <2>6. used[h] = IF many > 0 THEN length ELSE 0
    BY <1>2, <2>5 DEF UVUsed
  <2>7. many \in {0, length} /\ many \in Nat
    BY <2>4 DEF FaceUVs
  <2>8. used[h] = many
    BY <2>6, <2>7
  <2> QED
    BY <2>1, <2>4, <2>5, <2>8 DEF FaceUVs
<1>5. Packed(FlattenSeq(parts), parts, used, Len(F))
  <2>1. /\ DOMAIN parts = 1 .. Len(F) /\ parts = [h \in 1 .. Len(F) |-> parts[h]]
        /\ \A h \in 1 .. Len(F) : parts[h] \in Seq(Nat) /\ Len(parts[h]) = used[h]
    BY <1>1, <1>4
  <2> HIDE DEF parts, used
  <2> QED
    BY <1>1, <2>1, PackedNumbers
<1>6. parts[i] = UVIndices(ms, set, p)
  OBVIOUS
<1>7. sg.uvCounts[set][i] = count
  <2>1. FaceUVs(ms, p, m, set, uvs, count, b, size) /\ count = Len(uvs)
    BY FaceUVIndices DEF IsUVs
  <2> QED
    BY <1>3, <2>1 DEF FaceUVs
<1>8. used[i] = count
  BY <1>4, <1>7
<1> HIDE DEF parts, used
<1>9. \A v \in 1 .. used[i] : sg.uvIndices[set][Sum(used, i - 1) + v] = UVIndices(ms, set, p)[v]
  BY <1>1, <1>3, <1>5, <1>6 DEF Packed
<1> QED
  BY <1>3, <1>7, <1>8, <1>9 DEF UVUnpacked, used

LEMMA PointsUnpacked ==
    ASSUME NEW ms, SoundMeshes(ms), NEW p, NEW m, NEW face, NEW size, IsFace(ms, p, m, face, size)
    PROVE  /\ \A x \in 0 .. m.verts - 1 :
                Elements(Verts(ms))[(x + Sum(Verts(ms), p.mesh - 1)) + 1] = <<p.mesh, x + 1>>
           /\ \A x \in 0 .. m.norms - 1 :
                Elements(Norms(ms))[(x + Sum(Norms(ms), p.mesh - 1)) + 1] = <<p.mesh, x + 1>>
<1>1. /\ p.mesh \in 1 .. Len(ms) /\ Len(ms) \in Nat /\ m = ms[p.mesh]
      /\ m.verts \in Nat /\ m.norms \in Nat
  BY FaceFacts DEF IsFace, SoundMeshes
<1>2. /\ Numbers(Verts(ms), Len(ms)) /\ DOMAIN Verts(ms) = 1 .. Len(ms)
      /\ Numbers(Norms(ms), Len(ms)) /\ DOMAIN Norms(ms) = 1 .. Len(ms)
      /\ Verts(ms)[p.mesh] = m.verts /\ Norms(ms)[p.mesh] = m.norms
  BY <1>1, MeshNumbers
<1>3. PICK b : b = Sum(Verts(ms), p.mesh - 1)
  OBVIOUS
<1>4. PICK c : c = Sum(Norms(ms), p.mesh - 1)
  OBVIOUS
<1>5. b \in Nat /\ c \in Nat
  <2>1. FaceArrays(ms, p, m, face, size)
    BY FaceIndices
  <2> QED
    BY <1>3, <1>4, <2>1 DEF FaceArrays
<1>6. /\ \A k \in 1 .. m.verts : Elements(Verts(ms))[b + k] = <<p.mesh, k>>
      /\ \A k \in 1 .. m.norms : Elements(Norms(ms))[c + k] = <<p.mesh, k>>
  <2>1. ElementsAt(Verts(ms), Len(ms)) /\ ElementsAt(Norms(ms), Len(ms))
    BY <1>1, <1>2, ElementsInOrder
  <2> QED
    BY <1>1, <1>2, <1>3, <1>4, <2>1 DEF ElementsAt
<1>7. /\ \A x \in 0 .. m.verts - 1 : x + 1 \in 1 .. m.verts /\ (x + b) + 1 = b + (x + 1)
      /\ \A x \in 0 .. m.norms - 1 : x + 1 \in 1 .. m.norms /\ (x + c) + 1 = c + (x + 1)
  BY <1>1, <1>5
<1>8. /\ \A x \in 0 .. m.verts - 1 : Elements(Verts(ms))[b + (x + 1)] = <<p.mesh, x + 1>>
      /\ \A x \in 0 .. m.norms - 1 : Elements(Norms(ms))[c + (x + 1)] = <<p.mesh, x + 1>>
  BY <1>6, <1>7
<1>9. /\ \A x \in 0 .. m.verts - 1 : Elements(Verts(ms))[(x + b) + 1] = <<p.mesh, x + 1>>
      /\ \A x \in 0 .. m.norms - 1 : Elements(Norms(ms))[(x + c) + 1] = <<p.mesh, x + 1>>
  BY <1>7, <1>8
<1> QED
  BY <1>3, <1>4, <1>9

(* The corners of each primitive are those that its face has in its own    *)
(* mesh: serializeGeometry and createPrimitives agree on where they lie.   *)
THEOREM CornersUnpacked ==
    ASSUME NEW ms, SoundMeshes(ms), NEW i \in DOMAIN Faces(ms)
    PROVE  Corners(SerializeGeometry(ms), i) = OwnCorners(ms, Faces(ms)[i].mesh, Faces(ms)[i].face)
<1>1. PICK sg : sg = SerializeGeometry(ms)
  OBVIOUS
<1>2. PICK p, m, face, size, first :
        /\ p = Faces(ms)[i] /\ m = ms[p.mesh] /\ face = m.faces[p.face] /\ size = Len(face.vtx)
        /\ first = Sum(sg.counts, i - 1)
  OBVIOUS
<1> DEFINE sets == 1 .. UVSetCount(ms)
           OwnUV(set, c) ==
             IF m.uvSets = <<>> \/ m.uvSets[SourceSet(m, set)].faces[p.face] = <<>> THEN NoUV
             ELSE <<p.mesh, SourceSet(m, set), m.uvSets[SourceSet(m, set)].faces[p.face][c] + 1>>
<1>3. IsFace(ms, p, m, face, size)
  BY <1>2, FaceOf
<1>4. /\ sg.coords = Elements(Verts(ms)) /\ sg.normals = Elements(Norms(ms))
      /\ DOMAIN sg.uvs = sets
  BY <1>1 DEF SerializeGeometry
<1>5. FaceArrays(ms, p, m, face, size)
  BY <1>3, FaceIndices
<1>6. Unpacked(ms, sg, i, p, size)
  BY <1>1, <1>2, <1>3, FaceUnpacked
<1>7. ASSUME NEW v \in 1 .. size
      PROVE  /\ sg.coords[sg.vertexIndices[first + v] + 1] = <<p.mesh, face.vtx[size + 1 - v] + 1>>
             /\ sg.normals[sg.normalIndices[first + v] + 1] = <<p.mesh, face.nrm[size + 1 - v] + 1>>
  <2>1. PICK x, y : x = face.vtx[size + 1 - v] /\ y = face.nrm[size + 1 - v]
    OBVIOUS
  <2>2. /\ VertexIndices(ms, p)[v] = x + Sum(Verts(ms), p.mesh - 1) /\ x \in 0 .. m.verts - 1
        /\ NormalIndices(ms, p)[v] = y + Sum(Norms(ms), p.mesh - 1) /\ y \in 0 .. m.norms - 1
    BY <1>5, <2>1 DEF FaceArrays
  <2>3. /\ sg.vertexIndices[first + v] = VertexIndices(ms, p)[v]
        /\ sg.normalIndices[first + v] = NormalIndices(ms, p)[v]
    BY <1>2, <1>6 DEF Unpacked
  <2>4. /\ Elements(Verts(ms))[(x + Sum(Verts(ms), p.mesh - 1)) + 1] = <<p.mesh, x + 1>>
        /\ Elements(Norms(ms))[(y + Sum(Norms(ms), p.mesh - 1)) + 1] = <<p.mesh, y + 1>>
    BY <1>3, <2>2, PointsUnpacked
  <2> QED
    BY <1>4, <2>1, <2>2, <2>3, <2>4
<1>8. ASSUME NEW v \in 1 .. size, NEW set \in sets
      PROVE  UVAt(sg, set, i, v) = OwnUV(set, size + 1 - v)
  <2>1. set \in Nat \ {0}
    OBVIOUS
  <2>2. PICK uvs, count, b, x :
          /\ uvs = Source(m, set).faces[p.face] /\ count = Len(uvs)
          /\ b = UVBase(ms, set, p.mesh) /\ x = uvs[size + 1 - v]
    OBVIOUS
  <2>3. IsUVs(ms, p, m, set, uvs, count, b)
    BY <2>1, <2>2 DEF IsUVs
  <2>4. FaceUVs(ms, p, m, set, uvs, count, b, size)
    BY <1>3, <2>3, FaceUVIndices
  <2>5. UVUnpacked(ms, sg, i, p, set, count)
    BY <1>1, <1>2, <1>3, <2>3, FaceUVUnpacked
  <2>6. /\ m.uvSets # <<>> => Source(m, set) = m.uvSets[SourceSet(m, set)]
        /\ uvs \in Seq(0 .. Source(m, set).coords - 1)
        /\ m.uvSets = <<>> => uvs = <<>>
    <3>1. SoundMesh(m) /\ p.face \in 1 .. Len(m.faces)
      BY <1>3, FaceFacts DEF IsFace
    <3>2. /\ m.uvSets # <<>> => Source(m, set) = m.uvSets[SourceSet(m, set)]
          /\ \A f \in 1 .. Len(m.faces) :
               /\ Source(m, set).faces[f] \in Seq(0 .. Source(m, set).coords - 1)
               /\ m.uvSets = <<>> => Source(m, set).faces[f] = <<>>
      BY <2>1, <3>1, UVFacts
    <3> QED
      BY <2>2, <3>1, <3>2
  <2>7. CASE count = 0
    <3>1. uvs = <<>>
      BY <2>2, <2>6, <2>7, EmptySeq
    <3>2. UVAt(sg, set, i, v) = NoUV
      BY <2>5, <2>7 DEF UVAt, UVUnpacked
    <3>3. m.uvSets = <<>> \/ m.uvSets[SourceSet(m, set)].faces[p.face] = <<>>
      BY <2>2, <2>6, <3>1
    <3> QED
      BY <3>2, <3>3
  <2>8. CASE count # 0
    <3>1. count = size /\ uvs # <<>> /\ m.uvSets # <<>>
      BY <2>2, <2>4, <2>6, <2>8 DEF FaceUVs
    <3>2. /\ UVIndices(ms, set, p)[v] = x + b
          /\ UVElements(ms, set)[(x + b) + 1] = <<p.mesh, SourceSet(m, set), x + 1>>
      BY <2>2, <2>4, <3>1 DEF FaceUVs
    <3>3. sg.uvIndices[set][Sum(UVUsed(sg, set), i - 1) + v] = UVIndices(ms, set, p)[v]
      BY <2>5, <3>1 DEF UVUnpacked
    <3>4. UVAt(sg, set, i, v)
            = UVElements(ms, set)[sg.uvIndices[set][Sum(UVUsed(sg, set), i - 1) + v] + 1]
      BY <2>5, <2>8 DEF UVAt, UVUnpacked
    <3>5. UVAt(sg, set, i, v) = <<p.mesh, SourceSet(m, set), x + 1>>
      BY <3>2, <3>3, <3>4
    <3>6. uvs = m.uvSets[SourceSet(m, set)].faces[p.face]
      BY <2>2, <2>6, <3>1
    <3> QED
      BY <2>2, <3>1, <3>5, <3>6
  <2> QED
    BY <2>7, <2>8
<1>9. Corners(sg, i) =
        [v \in 1 .. size |->
           [point |-> sg.coords[sg.vertexIndices[first + v] + 1],
            normal |-> sg.normals[sg.normalIndices[first + v] + 1],
            uv |-> [set \in sets |-> UVAt(sg, set, i, v)]]]
  BY <1>2, <1>4, <1>6 DEF Corners, Unpacked
<1>10. OwnCorners(ms, p.mesh, p.face) =
         [v \in 1 .. size |->
            [point |-> <<p.mesh, face.vtx[size + 1 - v] + 1>>,
             normal |-> <<p.mesh, face.nrm[size + 1 - v] + 1>>,
             uv |-> [set \in sets |-> OwnUV(set, size + 1 - v)]]]
  BY <1>2 DEF OwnCorners
<1> HIDE DEF sets, OwnUV
<1>11. ASSUME NEW v \in 1 .. size
       PROVE  [set \in sets |-> UVAt(sg, set, i, v)] = [set \in sets |-> OwnUV(set, size + 1 - v)]
  BY <1>8
<1>12. Corners(sg, i) = OwnCorners(ms, p.mesh, p.face)
  <2>1. ASSUME NEW v \in 1 .. size
        PROVE  [point |-> sg.coords[sg.vertexIndices[first + v] + 1],
                normal |-> sg.normals[sg.normalIndices[first + v] + 1],
                uv |-> [set \in sets |-> UVAt(sg, set, i, v)]]
               = [point |-> <<p.mesh, face.vtx[size + 1 - v] + 1>>,
                  normal |-> <<p.mesh, face.nrm[size + 1 - v] + 1>>,
                  uv |-> [set \in sets |-> OwnUV(set, size + 1 - v)]]
    BY <1>7, <1>11
  <2> QED
    BY <1>9, <1>10, <2>1
<1> QED
  BY <1>1, <1>2, <1>12

-----------------------------------------------------------------------------
(* The groups of the holes.                                                *)

LEMMA OnesCounted ==
    ASSUME NEW n \in Nat, NEW f, \A i \in 1 .. n : f[i] \in {0, 1}
    PROVE  /\ IsFiniteSet({i \in 1 .. n : f[i] = 1})
           /\ Sum(f, n) = Cardinality({i \in 1 .. n : f[i] = 1})
<1> DEFINE Ones(k) == {i \in 1 .. k : f[i] = 1}
           P == {k \in Nat : k <= n => IsFiniteSet(Ones(k)) /\ Sum(f, k) = Cardinality(Ones(k))}
<1>1. Numbers(f, n)
  BY DEF Numbers
<1>2. Sum(f, 0) = 0 /\ \A k \in 0 .. n - 1 : Sum(f, k + 1) = Sum(f, k) + f[k + 1]
  BY <1>1, SumStep
<1>3. 0 \in P
  <2>1. Ones(0) = {}
    OBVIOUS
  <2>2. IsFiniteSet(Ones(0)) /\ Cardinality(Ones(0)) = 0
    BY <2>1, FS_EmptySet
  <2> QED
    BY <1>2, <2>2
<1>4. ASSUME NEW k \in 0 .. n - 1, k \in P PROVE k + 1 \in P
  <2>1. /\ IsFiniteSet(Ones(k)) /\ Sum(f, k) = Cardinality(Ones(k))
        /\ k + 1 \in Nat /\ k + 1 \in 1 .. n
    BY <1>4
  <2>2. Sum(f, k + 1) = Sum(f, k) + f[k + 1]
    BY <1>2
  <2>3. CASE f[k + 1] = 1
    <3>1. Ones(k + 1) = Ones(k) \cup {k + 1} /\ k + 1 \notin Ones(k)
      BY <2>1, <2>3
    <3> HIDE DEF Ones
    <3>2. IsFiniteSet(Ones(k) \cup {k + 1})
          /\ Cardinality(Ones(k) \cup {k + 1}) = Cardinality(Ones(k)) + 1
      BY <2>1, <3>1, FS_AddElement
    <3>3. IsFiniteSet(Ones(k + 1)) /\ Sum(f, k + 1) = Cardinality(Ones(k + 1))
      BY <2>1, <2>2, <2>3, <3>1, <3>2
    <3> QED
      BY <2>1, <3>3
  <2>4. CASE f[k + 1] # 1
    <3>1. f[k + 1] = 0
      BY <2>1, <2>4
    <3>2. Ones(k + 1) = Ones(k)
      BY <2>1, <2>4
    <3> HIDE DEF Ones
    <3>3. Cardinality(Ones(k)) \in Nat
      BY <2>1, FS_CardinalityType
    <3>4. IsFiniteSet(Ones(k + 1)) /\ Sum(f, k + 1) = Cardinality(Ones(k + 1))
      BY <2>1, <2>2, <3>1, <3>2, <3>3
    <3> QED
      BY <2>1, <3>4
  <2> QED
    BY <2>3, <2>4
<1>5. n \in P
  <2> HIDE DEF P
  <2> QED
    BY <1>3, <1>4, StepInduction
<1> QED
  BY <1>5

(* Parts of one element or none: what remains is those that have one.      *)
Having(s, n) == {i \in 1 .. n : Len(s[i]) = 1}

IsChoice(flat, s, n, T) ==
    /\ flat \in Seq(T)
    /\ IsFiniteSet(Having(s, n)) /\ Len(flat) = Cardinality(Having(s, n))
    /\ {flat[g] : g \in DOMAIN flat} = {s[i][1] : i \in Having(s, n)}

LEMMA Chosen ==
    ASSUME NEW n, NEW T, NEW s, Parts(s, n, T), \A i \in 1 .. n : Len(s[i]) \in {0, 1}
    PROVE  IsChoice(FlattenSeq(s), s, n, T)
<1> DEFINE lens == Lens(s)
           flat == FlattenSeq(s)
           having == Having(s, n)
<1>1. n \in Nat /\ Numbers(lens, n) /\ \A i \in 1 .. n : lens[i] = Len(s[i])
  BY PartFacts
<1>2. LensOf(lens, s, n)
  BY <1>1 DEF LensOf
<1>3. Packed(flat, s, lens, n)
  BY <1>2, PackedParts
<1> HIDE DEF lens
<1>4. flat \in Seq(T) /\ Len(flat) = Sum(lens, n) /\ DOMAIN flat = 1 .. Sum(lens, n)
  <2>1. \A i \in 1 .. n : lens[i] = Len(s[i])
    BY <1>1
  <2> QED
    BY <2>1, PackedAt
<1>5. IsFiniteSet(having) /\ Sum(lens, n) = Cardinality(having)
  <2>1. \A i \in 1 .. n : lens[i] \in {0, 1}
    BY <1>1
  <2>2. /\ IsFiniteSet({i \in 1 .. n : lens[i] = 1})
        /\ Sum(lens, n) = Cardinality({i \in 1 .. n : lens[i] = 1})
    BY <1>1, <2>1, OnesCounted
  <2>3. {i \in 1 .. n : lens[i] = 1} = having
    BY <1>1 DEF Having
  <2> QED
    BY <2>2, <2>3
<1>6. \A i \in 1 .. n : \A v \in 1 .. lens[i] : flat[Sum(lens, i - 1) + v] = s[i][v]
  BY <1>3 DEF Packed
<1> HIDE DEF flat
<1>7. ASSUME NEW g \in DOMAIN flat PROVE \E i \in having : flat[g] = s[i][1]
  <2>1. PICK i \in 1 .. n : \E v \in 1 .. lens[i] : g = Sum(lens, i - 1) + v
    <3>1. \A p \in 1 .. Sum(lens, n) : \E i \in 1 .. n : \E v \in 1 .. lens[i] :
            p = Sum(lens, i - 1) + v
      BY <1>1, SumPlaces
    <3> QED
      BY <1>4, <3>1
  <2>2. PICK v \in 1 .. lens[i] : g = Sum(lens, i - 1) + v
    BY <2>1
  <2>3. v = 1 /\ Len(s[i]) = 1
    <3>1. lens[i] \in {0, 1}
      BY <1>1
    <3> QED
      BY <1>1, <2>2, <3>1
  <2>4. i \in having
    BY <2>3 DEF Having
  <2> QED
    BY <1>6, <2>2, <2>3, <2>4
<1>8. ASSUME NEW i \in having PROVE \E g \in DOMAIN flat : flat[g] = s[i][1]
  <2>1. i \in 1 .. n /\ lens[i] = 1 /\ 1 \in 1 .. lens[i]
    <3>1. i \in 1 .. n /\ Len(s[i]) = 1
      BY DEF Having
    <3>2. lens[i] = 1
      BY <1>1, <3>1
    <3> QED
      BY <3>1, <3>2
  <2>2. Sum(lens, i - 1) + 1 \in 1 .. Sum(lens, n)
    BY <1>1, <2>1, SumPlaces
  <2>3. flat[Sum(lens, i - 1) + 1] = s[i][1]
    BY <1>6, <2>1
  <2> QED
    BY <1>4, <2>2, <2>3
<1>9. {flat[g] : g \in DOMAIN flat} = {s[i][1] : i \in having}
  BY <1>7, <1>8
<1> QED
  BY <1>4, <1>5, <1>9 DEF flat, IsChoice

HolesAt(ms, p) == FaceAt(ms, p).holes

(* A face with its own holes, in a block that begins after start.          *)
OwnHoles(ms, F, i) ==
    {k \in DOMAIN F : F[k].mesh = F[i].mesh
                      /\ \E h \in DOMAIN HolesAt(ms, F[i]) : F[k].face = HolesAt(ms, F[i])[h] + 1}

OwnGroup(ms, F, start, i) == {start + i} \cup {start + k : k \in OwnHoles(ms, F, i)}

LEMMA HolesFacts ==
    ASSUME NEW ms, SoundMeshes(ms), NEW F, F = Faces(ms), NEW i \in DOMAIN F,
           NEW holes, holes = HolesAt(ms, F[i]), NEW b, b = Sum(FaceCounts(ms), F[i].mesh - 1)
    PROVE  /\ holes \in Seq(Nat) /\ Len(holes) \in Nat /\ DOMAIN holes = 1 .. Len(holes)
           /\ b \in Nat
           /\ \A h \in 1 .. Len(holes) :
                /\ b + (holes[h] + 1) \in DOMAIN F
                /\ F[b + (holes[h] + 1)] = [mesh |-> F[i].mesh, face |-> holes[h] + 1]
                /\ holes[h] \in Nat
<1>1. PICK p : p = F[i]
  OBVIOUS
<1>2. IsFace(ms, p, ms[p.mesh], ms[p.mesh].faces[p.face], Len(ms[p.mesh].faces[p.face].vtx))
  BY <1>1, FaceOf
<1>3. PICK m : m = ms[p.mesh]
  OBVIOUS
<1>4. /\ SoundMesh(m) /\ p.mesh \in 1 .. Len(ms) /\ p.face \in 1 .. Len(m.faces)
      /\ Len(ms) \in Nat
  BY <1>2, <1>3 DEF IsFace, SoundMeshes
<1>5. holes = m.faces[p.face].holes
  BY <1>1, <1>3 DEF HolesAt, FaceAt
<1>6. holes \in Seq(0 .. Len(m.faces) - 1) /\ Len(m.faces) \in Nat
  BY <1>4, <1>5, MeshFacts
<1>7. holes \in Seq(Nat) /\ Len(holes) \in Nat /\ DOMAIN holes = 1 .. Len(holes)
  BY <1>6, SeqMonotonic, LenProperties
<1>8. \A h \in 1 .. Len(holes) : holes[h] \in 0 .. Len(m.faces) - 1
  BY <1>6, ElementOfSeq
<1>9. \A h \in 1 .. Len(holes) : holes[h] + 1 \in 1 .. Len(m.faces) /\ holes[h] \in Nat
  BY <1>6, <1>8
<1>10. b \in Nat
  <2>1. Numbers(FaceCounts(ms), Len(ms))
    BY MeshNumbers
  <2>2. \A k \in 0 .. Len(ms) : Sum(FaceCounts(ms), k) \in Nat
    BY <1>4, <2>1, SumStep
  <2>3. p.mesh - 1 \in 0 .. Len(ms)
    BY <1>4
  <2> QED
    BY <1>1, <2>2, <2>3
<1>11. \A f \in 1 .. Len(m.faces) : b + f \in DOMAIN F /\ F[b + f] = [mesh |-> p.mesh, face |-> f]
  <2>1. \A j \in 1 .. Len(ms) : \A f \in 1 .. Len(ms[j].faces) :
          /\ Sum(FaceCounts(ms), j - 1) + f \in DOMAIN F
          /\ F[Sum(FaceCounts(ms), j - 1) + f] = [mesh |-> j, face |-> f]
    BY FacesInOrder
  <2> QED
    BY <1>1, <1>3, <1>4, <2>1
<1> QED
  BY <1>1, <1>7, <1>9, <1>10, <1>11

LEMMA HolesPacked ==
    ASSUME NEW ms, SoundMeshes(ms), NEW F, F = Faces(ms), NEW i \in DOMAIN F,
           NEW sg, sg = SerializeGeometry(ms), NEW start \in Nat
    PROVE  /\ sg.holeCounts[i] = Len(HolesAt(ms, F[i]))
           /\ HoleGroup(sg, start, i) = OwnGroup(ms, F, start, i)
<1>1. i \in 1 .. Len(F) /\ Len(F) \in Nat /\ DOMAIN F = 1 .. Len(F)
  <2>1. PICK p : p = F[i]
    OBVIOUS
  <2> QED
    BY <2>1, FaceOf
<1> DEFINE parts == [h \in DOMAIN F |-> HoleIndices(ms, F[h])]
           counts == sg.holeCounts
<1>2. sg.holeIndices = FlattenSeq(parts) /\ counts = [h \in DOMAIN F |-> Len(HolesAt(ms, F[h]))]
  BY DEF SerializeGeometry, HolesAt
<1>3. ASSUME NEW h \in DOMAIN F, NEW holes, holes = HolesAt(ms, F[h]),
             NEW b, b = Sum(FaceCounts(ms), F[h].mesh - 1)
      PROVE  /\ parts[h] \in Seq(Nat) /\ Len(parts[h]) = Len(holes)
             /\ \A v \in 1 .. Len(holes) : parts[h][v] = holes[v] + b
  <2>1. /\ holes \in Seq(Nat) /\ Len(holes) \in Nat /\ DOMAIN holes = 1 .. Len(holes)
        /\ b \in Nat /\ \A v \in 1 .. Len(holes) : holes[v] \in Nat
    BY <1>3, HolesFacts
  <2>2. parts[h] = [v \in 1 .. Len(holes) |-> holes[v] + b]
    BY <1>3, <2>1 DEF HoleIndices, HolesAt, Shifted
  <2> HIDE DEF parts
  <2>3. \A v \in 1 .. Len(holes) : holes[v] + b \in Nat
    BY <2>1
  <2> QED
    BY <2>1, <2>2, <2>3
<1>4. \A h \in DOMAIN F : parts[h] \in Seq(Nat) /\ Len(parts[h]) = counts[h]
  BY <1>2, <1>3
<1>5. Packed(sg.holeIndices, parts, counts, Len(F))
  <2>1. DOMAIN parts = 1 .. Len(F) /\ parts = [h \in 1 .. Len(F) |-> parts[h]]
    BY <1>1
  <2> HIDE DEF parts, counts
  <2>2. Packed(FlattenSeq(parts), parts, counts, Len(F))
    BY <1>1, <1>4, <2>1, PackedNumbers
  <2> QED
    BY <1>2, <2>2
<1>6. PICK holes, b, m : holes = HolesAt(ms, F[i]) /\ b = Sum(FaceCounts(ms), F[i].mesh - 1)
                         /\ m = F[i].mesh
  OBVIOUS
<1>7. /\ holes \in Seq(Nat) /\ Len(holes) \in Nat /\ DOMAIN holes = 1 .. Len(holes)
      /\ b \in Nat
      /\ \A h \in 1 .. Len(holes) :
           /\ b + (holes[h] + 1) \in DOMAIN F
           /\ F[b + (holes[h] + 1)] = [mesh |-> m, face |-> holes[h] + 1]
           /\ holes[h] \in Nat
  BY <1>6, HolesFacts
<1>8. counts[i] = Len(holes) /\ \A v \in 1 .. Len(holes) : parts[i][v] = holes[v] + b
  BY <1>2, <1>3, <1>6
<1> HIDE DEF parts, counts
<1>9. \A v \in 1 .. Len(holes) : sg.holeIndices[Sum(counts, i - 1) + v] = holes[v] + b
  BY <1>1, <1>5, <1>8 DEF Packed
<1>10. HoleGroup(sg, start, i)
         = {start + i} \cup {start + sg.holeIndices[Sum(counts, i - 1) + v] + 1 :
                               v \in 1 .. Len(holes)}
  BY <1>8 DEF HoleGroup, counts
<1>11. ASSUME NEW v \in 1 .. Len(holes)
       PROVE  start + sg.holeIndices[Sum(counts, i - 1) + v] + 1 = start + (b + (holes[v] + 1))
  <2>1. PICK x : x = holes[v]
    OBVIOUS
  <2>2. sg.holeIndices[Sum(counts, i - 1) + v] = x + b /\ x \in Nat
    BY <1>7, <1>9, <2>1
  <2> QED
    BY <1>7, <2>1, <2>2
<1>12. {start + sg.holeIndices[Sum(counts, i - 1) + v] + 1 : v \in 1 .. Len(holes)}
         = {start + (b + (holes[v] + 1)) : v \in 1 .. Len(holes)}
  BY <1>11
<1>13. OwnHoles(ms, F, i) = {b + (holes[v] + 1) : v \in 1 .. Len(holes)}
  <2>1. ASSUME NEW v \in 1 .. Len(holes) PROVE b + (holes[v] + 1) \in OwnHoles(ms, F, i)
    <3>1. PICK k : k = b + (holes[v] + 1)
      OBVIOUS
    <3>2. k \in DOMAIN F /\ F[k].mesh = m /\ F[k].face = holes[v] + 1
      <4>1. k \in DOMAIN F /\ F[k] = [mesh |-> m, face |-> holes[v] + 1]
        BY <1>7, <3>1
      <4> QED
        BY <4>1
    <3> QED
      BY <1>6, <1>7, <3>1, <3>2 DEF OwnHoles
  <2>2. ASSUME NEW k \in OwnHoles(ms, F, i) PROVE \E v \in 1 .. Len(holes) : k = b + (holes[v] + 1)
    <3>1. k \in DOMAIN F /\ F[k].mesh = m /\ \E v \in 1 .. Len(holes) : F[k].face = holes[v] + 1
      BY <1>6, <1>7 DEF OwnHoles
    <3>2. PICK v \in 1 .. Len(holes) : F[k].face = holes[v] + 1
      BY <3>1
    <3>3. k = Sum(FaceCounts(ms), F[k].mesh - 1) + F[k].face
      BY <3>1, FacesInOrder
    <3> QED
      BY <1>6, <3>1, <3>2, <3>3
  <2> QED
    BY <2>1, <2>2
<1>14. {start + (b + (holes[v] + 1)) : v \in 1 .. Len(holes)}
         = {start + k : k \in OwnHoles(ms, F, i)}
  BY <1>13
<1> QED
  BY <1>6, <1>8, <1>10, <1>12, <1>14 DEF OwnGroup, counts

(* The groups of a block: one for each face that has holes.                *)
ParentsIn(ms, F) == {i \in DOMAIN F : HolesAt(ms, F[i]) # <<>>}

OwnGroups(ms, F, start, groups) ==
    /\ groups \in Seq(SUBSET Nat)
    /\ IsFiniteSet(ParentsIn(ms, F)) /\ Len(groups) = Cardinality(ParentsIn(ms, F))
    /\ {groups[g] : g \in DOMAIN groups} = {OwnGroup(ms, F, start, i) : i \in ParentsIn(ms, F)}

(* createPrimitives makes a group for each face that has holes, and it is  *)
(* that face with its own holes, whatever mesh it comes from and wherever  *)
(* the block begins.                                                       *)
THEOREM HolesUnpacked ==
    ASSUME NEW ms, SoundMeshes(ms), NEW start \in Nat
    PROVE  OwnGroups(ms, Faces(ms), start, HoleGroups(SerializeGeometry(ms), start))
<1>0. PICK F : F = Faces(ms)
  OBVIOUS
<1>1. PICK sg : sg = SerializeGeometry(ms)
  OBVIOUS
<1>2. PICK N : N = Len(F)
  OBVIOUS
<1>3. N \in Nat /\ DOMAIN F = 1 .. N
  BY <1>0, <1>2, FacesInOrder
<1>4. PICK parents : parents = ParentsIn(ms, F)
  OBVIOUS
<1>5. PICK s : s = [i \in 1 .. N |-> IF sg.holeCounts[i] > 0 THEN <<HoleGroup(sg, start, i)>>
                                     ELSE <<>>]
  OBVIOUS
<1>6. HoleGroups(sg, start) = FlattenSeq(s)
  BY <1>0, <1>1, <1>3, <1>5 DEF HoleGroups, SerializeGeometry
<1>7. ASSUME NEW i \in 1 .. N
      PROVE  /\ s[i] = IF i \in parents THEN <<OwnGroup(ms, F, start, i)>> ELSE <<>>
             /\ OwnGroup(ms, F, start, i) \in SUBSET Nat
  <2>1. PICK holes, b : holes = HolesAt(ms, F[i]) /\ b = Sum(FaceCounts(ms), F[i].mesh - 1)
    OBVIOUS
  <2>2. sg.holeCounts[i] = Len(holes) /\ HoleGroup(sg, start, i) = OwnGroup(ms, F, start, i)
    BY <1>0, <1>1, <1>3, <2>1, HolesPacked
  <2>3. holes \in Seq(Nat) /\ Len(holes) \in Nat
    BY <1>0, <1>3, <2>1, HolesFacts
  <2>4. Len(holes) > 0 <=> holes # <<>>
    BY <2>3, EmptySeq
  <2>5. OwnGroup(ms, F, start, i) \in SUBSET Nat
    <3>1. OwnHoles(ms, F, i) \in SUBSET Nat
      BY <1>3 DEF OwnHoles
    <3>2. start + i \in Nat /\ \A k \in OwnHoles(ms, F, i) : start + k \in Nat
      BY <3>1
    <3> QED
      BY <3>2 DEF OwnGroup
  <2>6. i \in parents <=> holes # <<>>
    BY <1>3, <1>4, <2>1 DEF ParentsIn
  <2> QED
    BY <1>5, <2>2, <2>4, <2>5, <2>6
<1>8. \A i \in 1 .. N : /\ i \in parents => s[i][1] = OwnGroup(ms, F, start, i)
                        /\ i \in parents <=> Len(s[i]) = 1
                        /\ Len(s[i]) \in {0, 1}
                        /\ s[i] \in Seq(SUBSET Nat)
  <2> TAKE i \in 1 .. N
  <2>1. PICK x : x = OwnGroup(ms, F, start, i) /\ x \in SUBSET Nat
    BY <1>7
  <2>2. s[i] = IF i \in parents THEN <<x>> ELSE <<>>
    BY <1>7, <2>1
  <2>3. PICK part : part = s[i]
    OBVIOUS
  <2>4. CASE i \in parents
    <3>1. part = <<x>>
      BY <2>2, <2>3, <2>4
    <3>2. part[1] = x /\ Len(part) = 1 /\ part \in Seq(SUBSET Nat)
      BY <2>1, <3>1
    <3> QED
      BY <2>1, <2>3, <2>4, <3>2
  <2>5. CASE i \notin parents
    <3>1. part = <<>>
      BY <2>2, <2>3, <2>5
    <3>2. Len(part) = 0 /\ Len(part) # 1 /\ part \in Seq(SUBSET Nat)
      BY <3>1
    <3> QED
      BY <2>3, <2>5, <3>2
  <2> QED
    BY <2>4, <2>5
<1>9. Parts(s, N, SUBSET Nat)
  <2>1. s = [i \in 1 .. N |-> s[i]]
    BY <1>5
  <2>2. s \in Seq(Seq(SUBSET Nat)) /\ Len(s) = N
    BY <1>3, <1>8, <2>1
  <2> QED
    BY <1>3, <2>2 DEF Parts
<1>10. IsChoice(FlattenSeq(s), s, N, SUBSET Nat)
  BY <1>8, <1>9, Chosen
<1>11. Having(s, N) = parents
  <2>1. \A i : i \in parents => i \in 1 .. N
    BY <1>3, <1>4 DEF ParentsIn
  <2> QED
    BY <1>8, <2>1 DEF Having
<1>12. {s[i][1] : i \in parents} = {OwnGroup(ms, F, start, i) : i \in parents}
  <2>1. \A i \in parents : s[i][1] = OwnGroup(ms, F, start, i)
    BY <1>3, <1>4, <1>8 DEF ParentsIn
  <2> QED
    BY <2>1
<1>13. PICK groups : groups = FlattenSeq(s)
  OBVIOUS
<1>14. /\ groups \in Seq(SUBSET Nat)
       /\ IsFiniteSet(parents) /\ Len(groups) = Cardinality(parents)
       /\ {groups[g] : g \in DOMAIN groups} = {OwnGroup(ms, F, start, i) : i \in parents}
  BY <1>10, <1>11, <1>12, <1>13 DEF IsChoice
<1>15. OwnGroups(ms, F, start, groups)
  BY <1>4, <1>14 DEF OwnGroups
<1> QED
  BY <1>0, <1>1, <1>6, <1>13, <1>15
=============================================================================

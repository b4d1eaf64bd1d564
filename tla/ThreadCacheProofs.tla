-------------------------- MODULE ThreadCacheProofs --------------------------
(***************************************************************************)
(* Proofs about ThreadCache, for any number of blocks and of bins, and for *)
(* any of the limits.                                                      *)
(***************************************************************************)
EXTENDS ThreadCache, FiniteSetTheorems, SequenceTheorems, WellFoundedInduction,
        TLAPS

\* A natural number with some property is the least one, or there is one below.
LEMMA LeastNatural ==
  ASSUME NEW T, T \subseteq Nat, T # {}
  PROVE  \E x \in T : \A y \in T : x <= y
<1> DEFINE R == OpToRel(<, Nat)
<1>1. IsWellFoundedOn(R, Nat)
  BY NatLessThanWellFounded
<1>2. \A x, y \in Nat : y < x => <<y, x>> \in R
  BY DEF OpToRel
<1> HIDE DEF R
<1>3. PICK x \in T : \A y \in T : ~ (<<y, x>> \in R)
  BY <1>1, WFMin
<1>4. \A y \in T : x \in Nat /\ y \in Nat /\ ~ (y < x)
  BY <1>2, <1>3
<1> QED
  BY <1>4

------------------------------------------------------------------------------
\* Sums over the elements of finite sets

\* g has the sum of f over every subset of S.
First(s) == CHOOSE x \in s : TRUE
Sums(f, S, g) ==
  g = [s \in SUBSET S |-> IF s = {} THEN 0 ELSE f[First(s)] + g[s \ {First(s)}]]

NatSums(f, S, g) == g \in [SUBSET S -> Nat] /\ Sums(f, S, g)

Total(f, S) == (CHOOSE g : Sums(f, S, g))[S]

LEMMA Smaller ==
  ASSUME NEW S, IsFiniteSet(S), NEW s \in SUBSET S, NEW x \in s
  PROVE  /\ s \ {x} \in SUBSET S
         /\ Cardinality(s) \in Nat /\ Cardinality(s \ {x}) = Cardinality(s) - 1
         /\ Cardinality(s \ {x}) \in Nat
<1>1. IsFiniteSet(s)
  BY FS_Subset
<1>2. Cardinality(s) \in Nat
  BY <1>1, FS_CardinalityType
<1>3. IsFiniteSet(s \ {x}) /\ Cardinality(s \ {x}) = Cardinality(s) - 1
  BY <1>1, FS_RemoveElement
<1>4. Cardinality(s \ {x}) \in Nat
  BY <1>3, FS_CardinalityType
<1> QED
  BY <1>2, <1>3, <1>4

LEMMA FirstIn == ASSUME NEW s, s # {} PROVE First(s) \in s
BY DEF First

LEMMA SumsExist ==
  ASSUME NEW S, IsFiniteSet(S), NEW f, \A x \in S : f[x] \in Nat
  PROVE  \E g : NatSums(f, S, g)
<1> DEFINE Step(g, s) == IF s = {} THEN 0 ELSE f[First(s)] + g[s \ {First(s)}]
           UpTo(n) == \E g \in [SUBSET S -> Nat] :
                        \A s \in SUBSET S : Cardinality(s) <= n => g[s] = Step(g, s)
           T == {n \in Nat : ~ UpTo(n)}
<1>1. \A s \in SUBSET S : IsFiniteSet(s) /\ Cardinality(s) \in Nat
  BY FS_Subset, FS_CardinalityType
<1>2. T = {}
  <2> SUFFICES ASSUME T # {} PROVE FALSE
    OBVIOUS
  <2>1. PICK n \in T : \A m \in T : n <= m
    <3>1. T \subseteq Nat
      OBVIOUS
    <3> HIDE DEF T
    <3> QED
      BY <3>1, LeastNatural
  <2>2. PICK g \in [SUBSET S -> Nat] :
          \A s \in SUBSET S : Cardinality(s) < n => g[s] = Step(g, s)
    <3>1. CASE n = 0
      <4>1. [s \in SUBSET S |-> 0] \in [SUBSET S -> Nat]
        OBVIOUS
      <4>2. \A s \in SUBSET S : ~ (Cardinality(s) < n)
        BY <1>1, <3>1
      <4> QED
        BY <4>1, <4>2
    <3>2. CASE n # 0
      <4>1. n - 1 \in Nat /\ ~ (n <= n - 1)
        BY <2>1, <3>2
      <4>2. UpTo(n - 1)
        BY <2>1, <4>1
      <4>3. \A s \in SUBSET S : Cardinality(s) < n => Cardinality(s) <= n - 1
        BY <1>1, <2>1
      <4> QED
        BY <4>2, <4>3
    <3> QED
      BY <3>1, <3>2
  <2> DEFINE h == [s \in SUBSET S |-> IF Cardinality(s) < n THEN g[s] ELSE Step(g, s)]
  <2>3. \A s \in SUBSET S : Step(g, s) \in Nat
    <3> SUFFICES ASSUME NEW s \in SUBSET S, s # {}
                 PROVE  f[First(s)] + g[s \ {First(s)}] \in Nat
      OBVIOUS
    <3>1. First(s) \in S /\ s \ {First(s)} \in SUBSET S
      BY FirstIn
    <3>2. f[First(s)] \in Nat /\ g[s \ {First(s)}] \in Nat
      BY <2>2, <3>1
    <3> QED
      BY <3>2
  <2>4. h \in [SUBSET S -> Nat]
    BY <2>2, <2>3
  <2>5. ASSUME NEW s \in SUBSET S, Cardinality(s) <= n
        PROVE  h[s] = Step(h, s)
    <3>1. s # {} => h[s \ {First(s)}] = g[s \ {First(s)}]
      <4> SUFFICES ASSUME s # {} PROVE h[s \ {First(s)}] = g[s \ {First(s)}]
        OBVIOUS
      <4>1. s \ {First(s)} \in SUBSET S /\ Cardinality(s \ {First(s)}) < n
        <5>1. First(s) \in s
          BY FirstIn
        <5> QED
          BY <2>1, <2>5, <5>1, Smaller
      <4> QED
        BY <4>1
    <3>2. Step(h, s) = Step(g, s)
      BY <3>1
    <3>3. h[s] = Step(g, s)
      BY <2>2
    <3> QED
      BY <3>2, <3>3
  <2>6. UpTo(n)
    BY <2>4, <2>5
  <2> QED
    BY <2>1, <2>6
<1>3. UpTo(Cardinality(S))
  BY <1>1, <1>2
<1>4. PICK g \in [SUBSET S -> Nat] :
        \A s \in SUBSET S : Cardinality(s) <= Cardinality(S) => g[s] = Step(g, s)
  BY <1>3
<1>5. \A s \in SUBSET S : Cardinality(s) <= Cardinality(S)
  BY FS_Subset
<1>6. g = [s \in SUBSET S |-> Step(g, s)]
  BY <1>4, <1>5
<1> QED
  BY <1>4, <1>6 DEF Sums, NatSums

\* The value for one set does not depend on the set the function is made for.
LEMMA SumsAgree ==
  ASSUME NEW S, IsFiniteSet(S), NEW T, NEW f, NEW h, NEW g, NEW k,
         Sums(f, S, g), Sums(h, T, k), \A x \in S \cap T : f[x] = h[x]
  PROVE  \A s \in SUBSET (S \cap T) : g[s] = k[s]
<1> DEFINE Bad == {n \in Nat : \E s \in SUBSET (S \cap T) : Cardinality(s) = n /\ g[s] # k[s]}
<1>1. \A s \in SUBSET S : Cardinality(s) \in Nat
  BY FS_Subset, FS_CardinalityType
<1>2. Bad = {}
  <2> SUFFICES ASSUME Bad # {} PROVE FALSE
    OBVIOUS
  <2>1. PICK n \in Bad : \A m \in Nat : m < n => m \notin Bad
    <3>1. Bad \subseteq Nat
      OBVIOUS
    <3> HIDE DEF Bad
    <3>2. PICK n \in Bad : \A m \in Bad : n <= m
      BY <3>1, LeastNatural
    <3> QED
      BY <3>1, <3>2
  <2>2. PICK s \in SUBSET (S \cap T) : Cardinality(s) = n /\ g[s] # k[s]
    BY <2>1
  <2>3. /\ g[s] = IF s = {} THEN 0 ELSE f[First(s)] + g[s \ {First(s)}]
        /\ k[s] = IF s = {} THEN 0 ELSE h[First(s)] + k[s \ {First(s)}]
    BY <2>2 DEF Sums
  <2>4. s # {}
    BY <2>2, <2>3
  <2>5. First(s) \in s
    BY <2>4, FirstIn
  <2>6. g[s \ {First(s)}] = k[s \ {First(s)}]
    <3>1. /\ s \ {First(s)} \in SUBSET (S \cap T)
          /\ Cardinality(s \ {First(s)}) \in Nat /\ Cardinality(s \ {First(s)}) < n
      BY <2>2, <2>5, Smaller
    <3>2. Cardinality(s \ {First(s)}) \notin Bad
      <4> HIDE DEF Bad
      <4> QED
        BY <2>1, <3>1
    <3> QED
      BY <3>1, <3>2
  <2> QED
    BY <2>2, <2>3, <2>4, <2>5, <2>6
<1> QED
  BY <1>1, <1>2

\* Any element can be taken out of a sum first.
LEMMA SumsSplit ==
  ASSUME NEW S, IsFiniteSet(S), NEW f, \A x \in S : f[x] \in Nat,
         NEW g, NatSums(f, S, g)
  PROVE  \A s \in SUBSET S, x \in S : x \in s => g[s] = f[x] + g[s \ {x}]
<1> DEFINE Bad == {n \in Nat : \E s \in SUBSET S, x \in S :
                     x \in s /\ Cardinality(s) = n /\ g[s] # f[x] + g[s \ {x}]}
<1> USE DEF NatSums
<1>1. \A s \in SUBSET S : Cardinality(s) \in Nat
  BY FS_Subset, FS_CardinalityType
<1>2. Bad = {}
  <2> SUFFICES ASSUME Bad # {} PROVE FALSE
    OBVIOUS
  <2>1. PICK n \in Bad : \A m \in Nat : m < n => m \notin Bad
    <3>1. Bad \subseteq Nat
      OBVIOUS
    <3> HIDE DEF Bad
    <3>2. PICK n \in Bad : \A m \in Bad : n <= m
      BY <3>1, LeastNatural
    <3> QED
      BY <3>1, <3>2
  <2>2. PICK s \in SUBSET S, x \in S :
          x \in s /\ Cardinality(s) = n /\ g[s] # f[x] + g[s \ {x}]
    BY <2>1
  <2>3. PICK y \in s : y = First(s)
    BY <2>2, FirstIn
  <2>4. g[s] = f[y] + g[s \ {y}]
    BY <2>2, <2>3 DEF Sums
  <2>5. x # y
    BY <2>2, <2>4
  <2>6. ASSUME NEW u \in s, NEW v \in s, u # v
        PROVE  g[s \ {u}] = f[v] + g[(s \ {u}) \ {v}]
    <3>1. /\ s \ {u} \in SUBSET S /\ v \in s \ {u}
          /\ Cardinality(s \ {u}) \in Nat /\ Cardinality(s \ {u}) < n
      BY <2>2, <2>6, Smaller
    <3>2. Cardinality(s \ {u}) \notin Bad
      <4> HIDE DEF Bad
      <4> QED
        BY <2>1, <3>1
    <3> QED
      BY <3>1, <3>2
  <2>7. PICK r \in SUBSET S : r = (s \ {y}) \ {x} /\ r = (s \ {x}) \ {y}
    OBVIOUS
  <2>8. g[s \ {y}] = f[x] + g[r] /\ g[s \ {x}] = f[y] + g[r]
    BY <2>2, <2>5, <2>6, <2>7
  <2>9. f[x] \in Nat /\ f[y] \in Nat /\ g[r] \in Nat
    BY <2>2, <2>7
  <2>10. g[s] = f[y] + (f[x] + g[r]) /\ g[s] # f[x] + (f[y] + g[r])
    BY <2>2, <2>4, <2>8
  <2> QED
    BY ONLY <2>9, <2>10
<1> QED
  BY <1>1, <1>2

\* What is known of a sum: its type, the sum of nothing, one more element, and
\* that it depends on the elements only.
LEMMA TotalType ==
  ASSUME NEW S, IsFiniteSet(S), NEW f, \A x \in S : f[x] \in Nat
  PROVE  Total(f, S) \in Nat /\ (S = {} => Total(f, S) = 0)
<1> DEFINE g == CHOOSE g : Sums(f, S, g)
<1>1. Sums(f, S, g)
  BY SumsExist DEF NatSums
<1>2. PICK k : NatSums(f, S, k)
  BY SumsExist
<1>3. g[S] = k[S]
  BY <1>1, <1>2, SumsAgree DEF NatSums
<1>4. S = {} => g[S] = 0
  BY <1>1 DEF Sums
<1> QED
  BY <1>2, <1>3, <1>4 DEF Total, NatSums

LEMMA TotalRemove ==
  ASSUME NEW R, IsFiniteSet(R), NEW f, \A y \in R : f[y] \in Nat, NEW x \in R
  PROVE  Total(f, R) = f[x] + Total(f, R \ {x})
<1>1. PICK k : NatSums(f, R, k)
  BY SumsExist
<1>2. k[R] = f[x] + k[R \ {x}]
  BY <1>1, SumsSplit
<1>3. ASSUME NEW S \in SUBSET R PROVE Total(f, S) = k[S]
  <2> DEFINE g == CHOOSE g : Sums(f, S, g)
  <2>1. IsFiniteSet(S) /\ \A y \in S : f[y] \in Nat
    BY FS_Subset
  <2>2. Sums(f, S, g)
    BY <2>1, SumsExist DEF NatSums
  <2>3. S \in SUBSET (S \cap R)
    OBVIOUS
  <2> HIDE DEF g
  <2>4. g[S] = k[S]
    BY <1>1, <2>1, <2>2, <2>3, SumsAgree DEF NatSums
  <2> QED
    BY <2>4 DEF Total, g
<1> QED
  BY <1>2, <1>3

LEMMA TotalSame ==
  ASSUME NEW S, IsFiniteSet(S), NEW f, NEW h, \A x \in S : f[x] = h[x],
         \A x \in S : f[x] \in Nat
  PROVE  Total(f, S) = Total(h, S)
<1> DEFINE g == CHOOSE g : Sums(f, S, g)
           k == CHOOSE k : Sums(h, S, k)
<1>1. Sums(f, S, g) /\ Sums(h, S, k)
  BY SumsExist DEF NatSums
<1>2. S \in SUBSET (S \cap S)
  OBVIOUS
<1> HIDE DEF g, k
<1>3. g[S] = k[S]
  BY <1>1, <1>2, SumsAgree DEF NatSums
<1> QED
  BY <1>3 DEF Total, g, k

LEMMA TotalSubset ==
  ASSUME NEW T, IsFiniteSet(T), NEW f, \A x \in T : f[x] \in Nat, NEW S \in SUBSET T
  PROVE  Total(f, S) <= Total(f, T)
<1> DEFINE Between == {R \in SUBSET T : S \subseteq R /\ ~ (Total(f, S) <= Total(f, R))}
           Bad == {n \in Nat : \E R \in Between : Cardinality(R) = n}
<1>1. ASSUME NEW R \in SUBSET T
      PROVE  /\ IsFiniteSet(R) /\ Cardinality(R) \in Nat
             /\ \A x \in R : f[x] \in Nat
             /\ Total(f, R) \in Nat
  <2>1. IsFiniteSet(R) /\ \A x \in R : f[x] \in Nat
    BY FS_Subset
  <2> QED
    BY <2>1, FS_CardinalityType, TotalType
<1>2. Bad = {}
  <2> SUFFICES ASSUME Bad # {} PROVE FALSE
    OBVIOUS
  <2>1. PICK n \in Bad : \A m \in Nat : m < n => m \notin Bad
    <3>1. Bad \subseteq Nat
      OBVIOUS
    <3> HIDE DEF Bad
    <3>2. PICK n \in Bad : \A m \in Bad : n <= m
      BY <3>1, LeastNatural
    <3> QED
      BY <3>1, <3>2
  <2>2. PICK R \in Between : Cardinality(R) = n
    BY <2>1
  <2>3. Total(f, S) \in Nat /\ Total(f, R) \in Nat /\ R # S
    BY <1>1, <2>2
  <2>4. PICK x \in R : x \notin S
    BY <2>2, <2>3
  <2>5. Total(f, R) = f[x] + Total(f, R \ {x})
    BY <1>1, <2>2, <2>4, TotalRemove
  <2>6. /\ R \ {x} \in SUBSET T /\ S \subseteq R \ {x}
        /\ Cardinality(R \ {x}) \in Nat /\ Cardinality(R \ {x}) < n
    BY <2>2, <2>4, Smaller
  <2>7. Total(f, S) <= Total(f, R \ {x})
    <3>1. Cardinality(R \ {x}) \notin Bad
      <4> HIDE DEF Bad
      <4> QED
        BY <2>1, <2>6
    <3> QED
      BY <2>6, <3>1
  <2>8. f[x] \in Nat /\ Total(f, R \ {x}) \in Nat
    BY <1>1, <2>4, <2>6
  <2>9. ~ (Total(f, S) <= Total(f, R))
    BY <2>2
  <2> QED
    BY ONLY <2>3, <2>5, <2>7, <2>8, <2>9
<1>3. T \notin Between
  <2>1. Cardinality(T) \in Nat
    BY <1>1
  <2> QED
    BY <1>2, <2>1
<1> QED
  BY <1>3

------------------------------------------------------------------------------
\* Sizes and bins

\* The sizes of the bins, of which each is twice the one before.
BinSizes == 0 .. MaxBin + 2

LEMMA PowerIsPositive == \A i \in BinSizes : 2 ^ i \in Nat \ {0}
<1> DEFINE T == {i \in BinSizes : 2 ^ i \notin Nat \ {0}}
<1> SUFFICES ASSUME T # {} PROVE FALSE
  OBVIOUS
<1>1. T \subseteq Nat
  BY DEF BinSizes
<1>2. PICK i \in T : \A j \in T : i <= j
  BY <1>1, LeastNatural
<1>3. i # 0
  <2>1. 2 ^ 0 = 1
    OBVIOUS
  <2>2. 0 \notin T
    BY <2>1
  <2> QED
    BY <1>2, <2>2
<1>4. PICK k \in 0 .. MaxBin + 1 : i = k + 1
  <2>1. i - 1 \in 0 .. MaxBin + 1
    BY <1>2, <1>3, BinAssumption DEF BinSizes
  <2> QED
    BY <1>2, <2>1 DEF BinSizes
<1>5. 2 ^ k \in Nat \ {0}
  <2>1. k \in BinSizes /\ ~ (i <= k)
    BY <1>4, BinAssumption DEF BinSizes
  <2> QED
    BY <1>2, <2>1
<1>6. 2 ^ (k + 1) = 2 * 2 ^ k
  BY <1>4, PowerAssumption
<1>7. 2 * 2 ^ k \in Nat \ {0}
  BY <1>5
<1> QED
  BY <1>2, <1>4, <1>6, <1>7

LEMMA PowerGrows == \A i \in BinSizes : \A j \in 0 .. i - 1 : 2 ^ j < 2 ^ i
<1> DEFINE T == {i \in BinSizes : \E j \in 0 .. i - 1 : ~ (2 ^ j < 2 ^ i)}
<1> SUFFICES ASSUME T # {} PROVE FALSE
  OBVIOUS
<1>1. T \subseteq Nat
  BY DEF BinSizes
<1>2. PICK i \in T : \A k \in T : i <= k
  BY <1>1, LeastNatural
<1>3. PICK j \in 0 .. i - 1 : ~ (2 ^ j < 2 ^ i)
  BY <1>2
<1>4. PICK k \in 0 .. MaxBin + 1 : i = k + 1
  <2>1. i - 1 \in 0 .. MaxBin + 1
    BY <1>2, <1>3, BinAssumption DEF BinSizes
  <2> QED
    BY <1>2, <2>1 DEF BinSizes
<1>5. /\ k \in BinSizes /\ j \in BinSizes /\ ~ (i <= k)
      /\ j = k \/ j \in 0 .. k - 1
  BY <1>3, <1>4, BinAssumption DEF BinSizes
<1>6. j \in 0 .. k - 1 => 2 ^ j < 2 ^ k
  BY <1>2, <1>5
<1>7. 2 ^ (k + 1) = 2 * 2 ^ k /\ 2 ^ k \in Nat \ {0} /\ 2 ^ j \in Nat \ {0}
  BY <1>4, <1>5, PowerAssumption, PowerIsPositive
<1>8. 2 ^ k < 2 * 2 ^ k
  BY <1>7
<1>9. 2 ^ j < 2 * 2 ^ k
  BY <1>5, <1>6, <1>7, <1>8
<1> QED
  BY <1>3, <1>4, <1>7, <1>9

\* The sizes that have a bin, or the one after the last.
LEMMA HasBin ==
  ASSUME NEW s \in 1 .. 2 * MaxSize - 1
  PROVE  /\ Size2binidx(s) \in Bins
         /\ 2 ^ Size2binidx(s) <= s /\ s < 2 ^ (Size2binidx(s) + 1)
<1> DEFINE T == {i \in BinSizes : s < 2 ^ i}
<1>1. MaxSize \in Nat \ {0} /\ 2 ^ (MaxBin + 1) = 2 * MaxSize /\ MaxBin + 1 \in BinSizes
  BY PowerIsPositive, PowerAssumption, BinAssumption DEF MaxSize, BinSizes
<1>2. s \in Nat /\ 1 <= s /\ s < 2 ^ (MaxBin + 1)
  BY <1>1
<1>3. T \subseteq Nat /\ MaxBin + 1 \in T
  BY <1>1, <1>2 DEF BinSizes
<1>4. PICK i \in T : \A k \in T : i <= k
  BY <1>3, LeastNatural
<1>5. i # 0
  <2>1. 2 ^ 0 = 1
    OBVIOUS
  <2>2. 0 \notin T
    BY <1>2, <2>1
  <2> QED
    BY <1>4, <2>2
<1>6. i <= MaxBin + 1
  BY <1>3, <1>4
<1>7. PICK k \in Bins : i = k + 1
  <2>1. i - 1 \in Bins
    BY <1>4, <1>5, <1>6, BinAssumption DEF BinSizes, Bins
  <2> QED
    BY <1>4, <2>1 DEF BinSizes
<1>8. k \in BinSizes /\ ~ (i <= k)
  BY <1>7, BinAssumption DEF BinSizes, Bins
<1>9. ~ (s < 2 ^ k) /\ 2 ^ k \in Nat
  BY <1>4, <1>8, PowerIsPositive
<1>10. 2 ^ k <= s /\ s < 2 ^ (k + 1)
  BY <1>2, <1>4, <1>7, <1>9
<1>11. \A j \in 0 .. MaxBin + 1 : 2 ^ j <= s /\ s < 2 ^ (j + 1) => j = k
  <2> SUFFICES ASSUME NEW j \in 0 .. MaxBin + 1, 2 ^ j <= s, s < 2 ^ (j + 1), j # k
               PROVE  FALSE
    OBVIOUS
  <2>1. /\ j \in BinSizes /\ j + 1 \in BinSizes /\ k \in BinSizes /\ k + 1 \in BinSizes
        /\ j < k \/ k < j
    BY BinAssumption DEF BinSizes, Bins
  <2>2. /\ 2 ^ j \in Nat /\ 2 ^ k \in Nat /\ 2 ^ (j + 1) \in Nat /\ 2 ^ (k + 1) \in Nat
    BY <2>1, PowerIsPositive
  <2>3. CASE j < k
    <3>1. j + 1 = k \/ j + 1 \in 0 .. k - 1
      BY <2>1, <2>3 DEF BinSizes
    <3>2. 2 ^ (j + 1) <= 2 ^ k
      BY <2>1, <2>2, <3>1, PowerGrows
    <3> QED
      BY <1>2, <1>10, <2>2, <3>2
  <2>4. CASE k < j
    <3>1. k + 1 = j \/ k + 1 \in 0 .. j - 1
      BY <2>1, <2>4 DEF BinSizes
    <3>2. 2 ^ (k + 1) <= 2 ^ j
      BY <2>1, <2>2, <3>1, PowerGrows
    <3> QED
      BY <1>2, <1>10, <2>2, <3>2
  <2> QED
    BY <2>1, <2>3, <2>4
<1>12. k \in 0 .. MaxBin + 1
  BY BinAssumption DEF Bins
<1>13. Size2binidx(s) = k
  BY <1>10, <1>11, <1>12 DEF Size2binidx
<1> QED
  BY <1>10, <1>13

\* Two bins are for different sizes.
LEMMA PowersDiffer ==
  ASSUME NEW i \in Bins, NEW j \in Bins, 2 ^ i = 2 ^ j
  PROVE  i = j
<1>1. i \in BinSizes /\ j \in BinSizes /\ (i = j \/ i \in 0 .. j - 1 \/ j \in 0 .. i - 1)
  BY BinAssumption DEF BinSizes, Bins
<1> QED
  BY <1>1, PowerGrows, PowerIsPositive

\* The bin that threadcache_malloc looks at first: its blocks are large enough.
LEMMA BestIdxFits ==
  ASSUME NEW s \in 1 .. MaxSize
  PROVE  /\ BestIdx(s) \in Bins
         /\ s <= 2 ^ BestIdx(s)
<1>1. MaxSize \in Nat \ {0} /\ MaxBin \in BinSizes
  BY PowerIsPositive, BinAssumption DEF MaxSize, BinSizes
<1>2. s \in 1 .. 2 * MaxSize - 1
  BY <1>1
<1>3. PICK i \in Bins : i = Size2binidx(s) /\ 2 ^ i <= s /\ s < 2 ^ (i + 1)
  BY <1>2, HasBin
<1>4. i \in BinSizes /\ i + 1 \in BinSizes
  BY BinAssumption DEF BinSizes, Bins
<1>5. 2 ^ i \in Nat /\ 2 ^ (i + 1) \in Nat
  BY <1>4, PowerIsPositive
<1>6. CASE s > 2 ^ i
  <2>1. i # MaxBin
    BY <1>1, <1>6 DEF MaxSize
  <2>2. i + 1 \in Bins
    BY <2>1, BinAssumption DEF Bins
  <2> QED
    BY <1>3, <1>5, <1>6, <2>2 DEF BestIdx
<1>7. CASE ~ (s > 2 ^ i)
  BY <1>3, <1>5, <1>7 DEF BestIdx
<1> QED
  BY <1>6, <1>7

\* A block from an mspace is as large as was asked for.
LEMMA RoundedFits ==
  ASSUME NEW s \in Requests
  PROVE  /\ Rounded(s) >= s /\ Rounded(s) \in 1 .. MaxSize + 1
<1>1. MaxSize \in Nat \ {0}
  BY PowerIsPositive, BinAssumption DEF MaxSize, BinSizes
<1>2. CASE s <= MaxSize
  <2>1. PICK i \in Bins : i = BestIdx(s) /\ s <= 2 ^ i
    BY <1>1, <1>2, BestIdxFits DEF Requests
  <2>2. i \in BinSizes /\ MaxBin \in BinSizes /\ (i = MaxBin \/ i \in 0 .. MaxBin - 1)
    BY BinAssumption DEF BinSizes, Bins
  <2>3. 2 ^ i \in Nat \ {0} /\ 2 ^ i <= MaxSize
    BY <1>1, <2>2, PowerGrows, PowerIsPositive DEF MaxSize
  <2>4. Rounded(s) = 2 ^ i
    BY <1>2, <2>1 DEF Rounded
  <2> QED
    BY <1>1, <2>1, <2>3, <2>4
<1>3. CASE ~ (s <= MaxSize)
  BY <1>1, <1>3 DEF Rounded, Requests
<1> QED
  BY <1>2, <1>3

------------------------------------------------------------------------------
\* Following the links

\* What Along adds to the blocks it has already found.
Further(link, from, seq) ==
  LET b == IF seq = <<>> THEN from ELSE link[Last(seq)]
  IN IF b = Null \/ (seq # <<>> /\ Last(seq) = Null) THEN seq
     ELSE Append(seq, b)

\* chain has the blocks found in n steps.
Chained(link, from, chain) ==
  chain = [n \in 0 .. Cardinality(Blocks) |->
             IF n = 0 THEN <<>> ELSE Further(link, from, chain[n - 1])]

LEMMA AlongIsChained ==
  ASSUME NEW link, NEW from
  PROVE  Along(link, from)
           = (CHOOSE chain : Chained(link, from, chain))[Cardinality(Blocks)]
BY DEF Along, Chained, Further

\* seq has the blocks from the block from on, each once, up to one without a link.
Path(link, from, seq) ==
  /\ seq \in Seq(Blocks)
  /\ \A k, m \in 1 .. Len(seq) : seq[k] = seq[m] => k = m
  /\ from = IF seq = <<>> THEN Null ELSE seq[1]
  /\ \A k \in 1 .. Len(seq) : link[seq[k]] = IF k = Len(seq) THEN Null ELSE seq[k + 1]

LEMMA PathFits ==
  ASSUME NEW seq \in Seq(Blocks), \A k, m \in 1 .. Len(seq) : seq[k] = seq[m] => k = m
  PROVE  Len(seq) \in 0 .. Cardinality(Blocks) /\ Cardinality(Blocks) \in Nat
<1>1. Len(seq) \in Nat /\ seq \in [1 .. Len(seq) -> Blocks]
  BY LenProperties
<1>2. seq \in Injection(1 .. Len(seq), Blocks)
  BY <1>1 DEF Injection, IsInjective
<1>3. Cardinality(1 .. Len(seq)) <= Cardinality(Blocks)
  BY <1>2, BlocksAssumption, FS_Injection
<1>4. Cardinality(1 .. Len(seq)) = Len(seq)
  BY <1>1, FS_Interval
<1>5. Cardinality(Blocks) \in Nat
  BY BlocksAssumption, FS_CardinalityType
<1> QED
  BY <1>1, <1>3, <1>4, <1>5

\* The first n blocks of a path, or all of them.
UpTo(seq, n) == SubSeq(seq, 1, IF n <= Len(seq) THEN n ELSE Len(seq))

LEMMA UpToGrows ==
  ASSUME NEW link, NEW from, NEW seq, Path(link, from, seq), NEW n \in Nat
  PROVE  Further(link, from, UpTo(seq, n)) = UpTo(seq, n + 1)
<1>1. Len(seq) \in Nat /\ \A k \in 1 .. Len(seq) : seq[k] \in Blocks
  BY ElementOfSeq, LenProperties DEF Path
<1>2. SubSeq(seq, 1, Len(seq)) = seq
  BY SubSeqFull DEF Path
<1>3. CASE Len(seq) <= n
  <2>1. UpTo(seq, n) = seq /\ UpTo(seq, n + 1) = seq
    <3>1. /\ (IF n <= Len(seq) THEN n ELSE Len(seq)) = Len(seq)
          /\ (IF n + 1 <= Len(seq) THEN n + 1 ELSE Len(seq)) = Len(seq)
      BY <1>1, <1>3
    <3> QED
      BY <1>2, <3>1 DEF UpTo
  <2>2. seq = <<>> => from = Null
    BY DEF Path
  <2>3. seq # <<>> => link[Last(seq)] = Null
    <3>1. seq # <<>> => Len(seq) \in 1 .. Len(seq)
      BY <1>1, EmptySeq DEF Path
    <3> QED
      BY <3>1 DEF Path, Last
  <2> QED
    BY <2>1, <2>2, <2>3 DEF Further
<1>4. CASE n = 0 /\ Len(seq) # 0
  <2>1. UpTo(seq, n) = <<>>
    BY <1>1, <1>4, SubSeqEmpty DEF UpTo
  <2>2. seq # <<>> /\ from = seq[1] /\ from \in Blocks
    BY <1>1, <1>4 DEF Path
  <2>3. UpTo(seq, n + 1) = <<seq[1]>>
    <3>1. n + 1 = 1 /\ 1 <= Len(seq) /\ 1 \in 1 .. Len(seq) /\ 1 \in 1 .. 1
      BY <1>1, <1>4
    <3>2. UpTo(seq, n + 1) = SubSeq(seq, 1, 1)
      BY <3>1 DEF UpTo
    <3>3. SubSeq(seq, 1, 1) = <<seq[1]>> \o SubSeq(seq, 2, 1)
      BY <3>1, SubSeqRecursiveFirst DEF Path
    <3>4. SubSeq(seq, 2, 1) = <<>>
      BY SubSeqEmpty
    <3>5. <<seq[1]>> \in Seq(Blocks)
      BY <2>2
    <3> QED
      BY <3>2, <3>3, <3>4, <3>5, ConcatEmptySeq
  <2> QED
    BY <2>1, <2>2, <2>3, NullAssumption DEF Further
<1>5. CASE n # 0 /\ n < Len(seq)
  <2>1. UpTo(seq, n) = SubSeq(seq, 1, n) /\ UpTo(seq, n + 1) = SubSeq(seq, 1, n + 1)
    BY <1>1, <1>5 DEF UpTo
  <2>2. /\ SubSeq(seq, 1, n) \in Seq(Blocks) /\ Len(SubSeq(seq, 1, n)) = n
        /\ SubSeq(seq, 1, n)[n] = seq[n]
    <3>1. \A k \in 1 .. n : seq[k] \in Blocks
      BY <1>1, <1>5
    <3> QED
      BY <1>5, <3>1, SubSeqProperties
  <2>3. SubSeq(seq, 1, n) # <<>> /\ Last(SubSeq(seq, 1, n)) = seq[n]
    BY <1>5, <2>2 DEF Last
  <2>4. seq[n] # Null /\ link[seq[n]] = seq[n + 1] /\ seq[n + 1] # Null
    BY <1>1, <1>5, NullAssumption DEF Path
  <2>5. Further(link, from, SubSeq(seq, 1, n)) = Append(SubSeq(seq, 1, n), seq[n + 1])
    BY <2>3, <2>4 DEF Further
  <2>6. SubSeq(seq, 1, n + 1) = SubSeq(seq, 1, n) \o <<seq[n + 1]>>
    <3>1. 1 \in 1 .. Len(seq) /\ n + 1 \in 1 .. Len(seq) /\ (n + 1) - 1 = n
      BY <1>1, <1>5
    <3> QED
      BY <3>1, SubSeqRecursiveSecond DEF Path
  <2>7. Append(SubSeq(seq, 1, n), seq[n + 1]) = SubSeq(seq, 1, n) \o <<seq[n + 1]>>
    BY <1>1, <1>5, <2>2, AppendIsConcat
  <2> QED
    BY <2>1, <2>5, <2>6, <2>7
<1> QED
  BY <1>1, <1>3, <1>4, <1>5

\* Along finds the path, if there is one.
LEMMA AlongPath ==
  ASSUME NEW link, NEW from, NEW seq, Path(link, from, seq)
  PROVE  Along(link, from) = seq
<1> DEFINE N == Cardinality(Blocks)
           P == [n \in 0 .. N |-> UpTo(seq, n)]
           C == CHOOSE chain : Chained(link, from, chain)
<1>1. N \in Nat /\ Len(seq) \in 0 .. N
  BY PathFits DEF Path
<1>2. UpTo(seq, 0) = <<>>
  BY <1>1, SubSeqEmpty DEF UpTo
<1>3. \A n \in 0 .. N : n # 0 => n - 1 \in 0 .. N /\ n - 1 \in Nat /\ (n - 1) + 1 = n
  BY <1>1
<1>4. Chained(link, from, P)
  <2>1. ASSUME NEW n \in 0 .. N
        PROVE  UpTo(seq, n) = IF n = 0 THEN <<>> ELSE Further(link, from, P[n - 1])
    BY <1>2, <1>3, UpToGrows
  <2> QED
    BY <2>1 DEF Chained
<1>5. Chained(link, from, C)
  BY <1>4
<1> DEFINE Bad == {n \in 0 .. N : C[n] # UpTo(seq, n)}
<1>6. Bad = {}
  <2> SUFFICES ASSUME Bad # {} PROVE FALSE
    OBVIOUS
  <2>1. PICK n \in Bad : \A m \in Bad : n <= m
    <3>1. Bad \subseteq Nat
      BY <1>1
    <3> HIDE DEF Bad
    <3> QED
      BY <3>1, LeastNatural
  <2> HIDE DEF C
  <2>2. n # 0
    BY <1>1, <1>2, <1>5, <2>1 DEF Chained
  <2>3. n - 1 \in 0 .. N /\ n - 1 \in Nat /\ (n - 1) + 1 = n /\ ~ (n <= n - 1)
    BY <1>1, <2>1, <2>2
  <2>4. C[n - 1] = UpTo(seq, n - 1)
    BY <2>1, <2>3
  <2>5. C[n] = Further(link, from, C[n - 1])
    BY <1>5, <2>1, <2>2 DEF Chained
  <2> QED
    BY <2>1, <2>3, <2>4, <2>5, UpToGrows
<1>7. UpTo(seq, N) = seq
  <2>1. SubSeq(seq, 1, Len(seq)) = seq
    BY SubSeqFull DEF Path
  <2> QED
    BY <1>1, <2>1 DEF UpTo
<1>8. C[N] = seq
  BY <1>1, <1>6, <1>7
<1> QED
  BY <1>8, AlongIsChained

\* How paths change with the links.
On(b, seq) == \E k \in 1 .. Len(seq) : seq[k] = b

LEMMA PathTyped ==
  ASSUME NEW link, NEW from, NEW seq, Path(link, from, seq)
  PROVE  /\ Len(seq) \in Nat
         /\ \A k \in 1 .. Len(seq) : seq[k] \in Blocks
         /\ seq = <<>> <=> Len(seq) = 0
         /\ seq = <<>> <=> from = Null
         /\ seq # <<>> => from = seq[1] /\ 1 \in 1 .. Len(seq) /\ Len(seq) \in 1 .. Len(seq)
<1>1. Len(seq) \in Nat /\ \A k \in 1 .. Len(seq) : seq[k] \in Blocks
  BY ElementOfSeq, LenProperties DEF Path
<1>2. seq = <<>> <=> Len(seq) = 0
  BY EmptySeq DEF Path
<1>3. seq # <<>> => from = seq[1] /\ 1 \in 1 .. Len(seq) /\ Len(seq) \in 1 .. Len(seq)
  BY <1>1, <1>2 DEF Path
<1>4. seq = <<>> <=> from = Null
  BY <1>1, <1>3, NullAssumption DEF Path
<1> QED
  BY <1>1, <1>2, <1>3, <1>4

LEMMA PathSame ==
  ASSUME NEW link, NEW from, NEW seq, Path(link, from, seq), NEW link2,
         \A k \in 1 .. Len(seq) : link2[seq[k]] = link[seq[k]]
  PROVE  Path(link2, from, seq)
BY DEF Path

LEMMA PathTail ==
  ASSUME NEW link, NEW from, NEW seq, Path(link, from, seq), seq # <<>>, NEW link2,
         \A k \in 2 .. Len(seq) : link2[seq[k]] = link[seq[k]]
  PROVE  /\ Path(link2, link[from], Tail(seq))
         /\ \A b \in Blocks : On(b, Tail(seq)) <=> On(b, seq) /\ b # from
<1>1. /\ Len(seq) \in Nat \ {0} /\ from = seq[1] /\ 1 \in 1 .. Len(seq)
      /\ \A k, m \in 1 .. Len(seq) : seq[k] = seq[m] => k = m
      /\ \A k \in 1 .. Len(seq) :
           link[seq[k]] = IF k = Len(seq) THEN Null ELSE seq[k + 1]
  BY PathTyped DEF Path
<1>2. /\ Tail(seq) \in Seq(Blocks) /\ Len(Tail(seq)) = Len(seq) - 1
      /\ \A k \in 1 .. Len(seq) - 1 : Tail(seq)[k] = seq[k + 1]
  BY HeadTailProperties DEF Path
<1> DEFINE t == Tail(seq)
<1>3. /\ t \in Seq(Blocks) /\ Len(t) = Len(seq) - 1
      /\ \A k \in 1 .. Len(t) : t[k] = seq[k + 1] /\ k + 1 \in 2 .. Len(seq)
  <2>1. \A k \in 1 .. Len(seq) - 1 : k + 1 \in 2 .. Len(seq)
    BY <1>1
  <2> QED
    BY <1>2, <2>1
<1> HIDE DEF t
<1>4. \A k, m \in 1 .. Len(t) : t[k] = t[m] => k = m
  <2> SUFFICES ASSUME NEW k \in 1 .. Len(t), NEW m \in 1 .. Len(t), t[k] = t[m]
               PROVE  k = m
    OBVIOUS
  <2>1. /\ k + 1 \in 1 .. Len(seq) /\ m + 1 \in 1 .. Len(seq)
        /\ seq[k + 1] = seq[m + 1]
    BY <1>1, <1>3
  <2>2. k + 1 = m + 1
    BY <1>1, <2>1
  <2> QED
    BY <2>2
<1>5. link[from] = IF t = <<>> THEN Null ELSE t[1]
  <2>1. t = <<>> <=> Len(seq) = 1
    BY <1>1, <1>3, EmptySeq
  <2>2. Len(seq) # 1 => t[1] = seq[1 + 1]
    BY <1>1, <1>3
  <2>3. link[from] = IF 1 = Len(seq) THEN Null ELSE seq[1 + 1]
    BY <1>1
  <2> QED
    BY <2>1, <2>2, <2>3
<1>6. ASSUME NEW k \in 1 .. Len(t)
      PROVE  link2[t[k]] = IF k = Len(t) THEN Null ELSE t[k + 1]
  <2>1. t[k] = seq[k + 1] /\ k + 1 \in 2 .. Len(seq) /\ k + 1 \in 1 .. Len(seq)
    BY <1>1, <1>3
  <2>2. link2[t[k]] = IF k + 1 = Len(seq) THEN Null ELSE seq[(k + 1) + 1]
    <3>1. link2[seq[k + 1]] = link[seq[k + 1]]
      BY <2>1
    <3> QED
      BY <1>1, <2>1, <3>1
  <2>3. k + 1 = Len(seq) <=> k = Len(t)
    BY <1>1, <1>3
  <2>4. k # Len(t) => t[k + 1] = seq[(k + 1) + 1]
    BY <1>1, <1>3
  <2> QED
    BY <2>2, <2>3, <2>4
<1>7. ASSUME NEW b \in Blocks
      PROVE  On(b, t) <=> On(b, seq) /\ b # from
  <2>1. ASSUME NEW k \in 1 .. Len(seq), seq[k] = b, b # from PROVE On(b, t)
    <3>1. k # 1
      BY <1>1, <2>1
    <3>2. k - 1 \in 1 .. Len(t) /\ (k - 1) + 1 = k
      BY <1>1, <1>3, <3>1
    <3> QED
      BY <1>3, <2>1, <3>2 DEF On
  <2>2. ASSUME NEW k \in 1 .. Len(t), t[k] = b PROVE On(b, seq) /\ b # from
    <3>1. k + 1 \in 1 .. Len(seq) /\ k + 1 # 1 /\ seq[k + 1] = b
      BY <1>1, <1>3, <2>2
    <3> QED
      BY <1>1, <3>1 DEF On
  <2> QED
    BY <2>1, <2>2 DEF On
<1> QED
  BY <1>3, <1>4, <1>5, <1>6, <1>7 DEF Path, t

LEMMA PathCons ==
  ASSUME NEW link, NEW from, NEW seq, Path(link, from, seq), NEW b \in Blocks,
         ~ On(b, seq), NEW link2, link2[b] = from,
         \A k \in 1 .. Len(seq) : link2[seq[k]] = link[seq[k]]
  PROVE  /\ Path(link2, b, <<b>> \o seq)
         /\ \A x \in Blocks : On(x, <<b>> \o seq) <=> On(x, seq) \/ x = b
<1>1. /\ seq \in Seq(Blocks) /\ Len(seq) \in Nat
      /\ \A k, m \in 1 .. Len(seq) : seq[k] = seq[m] => k = m
      /\ \A k \in 1 .. Len(seq) :
           link[seq[k]] = IF k = Len(seq) THEN Null ELSE seq[k + 1]
      /\ \A k \in 1 .. Len(seq) : seq[k] # b
      /\ from = IF Len(seq) = 0 THEN Null ELSE seq[1]
  BY PathTyped DEF Path, On
<1> DEFINE t == <<b>> \o seq
<1>2. /\ t \in Seq(Blocks) /\ Len(t) = Len(seq) + 1
      /\ \A k \in 1 .. Len(t) : t[k] = IF k = 1 THEN b ELSE seq[k - 1]
  <2>1. <<b>> \in Seq(Blocks) /\ Len(<<b>>) = 1 /\ <<b>>[1] = b
    OBVIOUS
  <2>2. /\ t \in Seq(Blocks) /\ Len(t) = 1 + Len(seq)
        /\ \A k \in 1 .. 1 + Len(seq) : t[k] = IF k <= 1 THEN <<b>>[k] ELSE seq[k - 1]
    BY <1>1, <2>1, ConcatProperties
  <2> HIDE DEF t
  <2> QED
    BY <1>1, <2>1, <2>2
<1> HIDE DEF t
<1>3. /\ \A k \in 1 .. Len(t) : k = 1 \/ (k - 1 \in 1 .. Len(seq) /\ t[k] = seq[k - 1])
      /\ 1 \in 1 .. Len(t) /\ t[1] = b
      /\ \A k \in 1 .. Len(seq) : k + 1 \in 1 .. Len(t) /\ t[k + 1] = seq[k]
  BY <1>1, <1>2
<1>4. \A k, m \in 1 .. Len(t) : t[k] = t[m] => k = m
  <2> SUFFICES ASSUME NEW k \in 1 .. Len(t), NEW m \in 1 .. Len(t), t[k] = t[m]
               PROVE  k = m
    OBVIOUS
  <2>1. CASE k = 1 \/ m = 1
    BY <1>1, <1>3, <2>1
  <2>2. CASE k # 1 /\ m # 1
    <3>1. k - 1 = m - 1
      BY <1>1, <1>3, <2>2
    <3> QED
      BY <1>1, <1>2, <3>1
  <2> QED
    BY <2>1, <2>2
<1>5. b = IF t = <<>> THEN Null ELSE t[1]
  BY <1>1, <1>2, <1>3, EmptySeq
<1>6. ASSUME NEW k \in 1 .. Len(t)
      PROVE  link2[t[k]] = IF k = Len(t) THEN Null ELSE t[k + 1]
  <2>1. CASE k = 1
    <3>1. link2[t[k]] = IF Len(seq) = 0 THEN Null ELSE seq[1]
      BY <1>1, <1>3, <2>1
    <3>2. k = Len(t) <=> Len(seq) = 0
      BY <1>1, <1>2, <2>1
    <3>3. Len(seq) # 0 => t[k + 1] = seq[1]
      BY <1>1, <1>3, <2>1
    <3> QED
      BY <3>1, <3>2, <3>3
  <2>2. CASE k # 1
    <3>1. k - 1 \in 1 .. Len(seq) /\ t[k] = seq[k - 1]
      BY <1>3, <2>2
    <3>2. link2[t[k]] = IF k - 1 = Len(seq) THEN Null ELSE seq[(k - 1) + 1]
      BY <1>1, <3>1
    <3>3. k - 1 = Len(seq) <=> k = Len(t)
      BY <1>1, <1>2
    <3>4. k # Len(t) => t[k + 1] = seq[(k - 1) + 1]
      BY <1>1, <1>2, <3>1
    <3> QED
      BY <3>2, <3>3, <3>4
  <2> QED
    BY <2>1, <2>2
<1>7. ASSUME NEW x \in Blocks PROVE On(x, t) <=> On(x, seq) \/ x = b
  <2>1. ASSUME NEW k \in 1 .. Len(t), t[k] = x PROVE On(x, seq) \/ x = b
    <3>1. CASE k = 1
      BY <1>3, <2>1, <3>1
    <3>2. CASE k # 1
      BY <1>3, <2>1, <3>2 DEF On
    <3> QED
      BY <3>1, <3>2
  <2>2. On(x, seq) => On(x, t)
    BY <1>3 DEF On
  <2>3. x = b => On(x, t)
    BY <1>3 DEF On
  <2> QED
    BY <2>1, <2>2, <2>3 DEF On
<1> QED
  BY <1>2, <1>4, <1>5, <1>6, <1>7 DEF Path, t

\* The path is cut off before its last block.
Cut(link, from, seq, link2, from2) ==
  /\ from2 = IF Len(seq) = 1 THEN Null ELSE from
  /\ \A k \in 1 .. Len(seq) - 1 :
       link2[seq[k]] = IF k = Len(seq) - 1 THEN Null ELSE link[seq[k]]

LEMMA PathFront ==
  ASSUME NEW link, NEW from, NEW seq, Path(link, from, seq), seq # <<>>,
         NEW link2, NEW from2, Cut(link, from, seq, link2, from2)
  PROVE  /\ Path(link2, from2, SubSeq(seq, 1, Len(seq) - 1))
         /\ \A b \in Blocks : On(b, SubSeq(seq, 1, Len(seq) - 1))
                                <=> On(b, seq) /\ b # seq[Len(seq)]
<1>1. /\ Len(seq) \in Nat \ {0} /\ from = seq[1] /\ Len(seq) \in 1 .. Len(seq)
      /\ \A k \in 1 .. Len(seq) : seq[k] \in Blocks
      /\ \A k, m \in 1 .. Len(seq) : seq[k] = seq[m] => k = m
      /\ \A k \in 1 .. Len(seq) :
           link[seq[k]] = IF k = Len(seq) THEN Null ELSE seq[k + 1]
  BY PathTyped DEF Path
<1> DEFINE t == SubSeq(seq, 1, Len(seq) - 1)
<1>2. /\ t \in Seq(Blocks) /\ Len(t) = Len(seq) - 1
      /\ \A k \in 1 .. Len(t) : t[k] = seq[k] /\ k \in 1 .. Len(seq)
  <2>1. \A k \in 1 .. Len(seq) - 1 : seq[k] \in Blocks /\ k \in 1 .. Len(seq)
    BY <1>1
  <2>2. /\ t \in Seq(Blocks)
        /\ Len(t) = IF 1 <= Len(seq) - 1 THEN (Len(seq) - 1) - 1 + 1 ELSE 0
        /\ \A k \in 1 .. (Len(seq) - 1) - 1 + 1 : t[k] = seq[1 + k - 1]
    BY <1>1, <2>1, SubSeqProperties
  <2> HIDE DEF t
  <2>3. Len(t) = Len(seq) - 1 /\ (Len(seq) - 1) - 1 + 1 = Len(seq) - 1
    <3>1. PICK n \in Nat \ {0} : n = Len(seq)
      BY <1>1
    <3>2. Len(t) = IF 1 <= n - 1 THEN (n - 1) - 1 + 1 ELSE 0
      BY <2>2, <3>1
    <3>3. (IF 1 <= n - 1 THEN (n - 1) - 1 + 1 ELSE 0) = n - 1 /\ (n - 1) - 1 + 1 = n - 1
      OBVIOUS
    <3> QED
      BY <3>1, <3>2, <3>3
  <2>4. ASSUME NEW k \in 1 .. Len(t) PROVE t[k] = seq[k] /\ k \in 1 .. Len(seq)
    <3>1. 1 + k - 1 = k /\ k \in 1 .. (Len(seq) - 1) - 1 + 1 /\ k \in 1 .. Len(seq)
      BY <1>1, <2>3
    <3>2. t[k] = seq[1 + k - 1]
      BY <2>2, <3>1
    <3> QED
      BY <3>1, <3>2
  <2> QED
    BY <2>2, <2>3, <2>4
<1> HIDE DEF t
<1>3. \A k, m \in 1 .. Len(t) : t[k] = t[m] => k = m
  BY <1>1, <1>2
<1>4. from2 = IF t = <<>> THEN Null ELSE t[1]
  <2>1. t = <<>> <=> Len(seq) = 1
    BY <1>1, <1>2, EmptySeq
  <2>2. Len(seq) # 1 => t[1] = seq[1]
    BY <1>1, <1>2
  <2> QED
    BY <1>1, <2>1, <2>2 DEF Cut
<1>5. ASSUME NEW k \in 1 .. Len(t)
      PROVE  link2[t[k]] = IF k = Len(t) THEN Null ELSE t[k + 1]
  <2>1. k # Len(t) => k + 1 \in 1 .. Len(t) /\ k # Len(seq)
    BY <1>1, <1>2
  <2> QED
    BY <1>1, <1>2, <2>1 DEF Cut
<1>6. ASSUME NEW b \in Blocks PROVE On(b, t) <=> On(b, seq) /\ b # seq[Len(seq)]
  <2>1. \A k \in 1 .. Len(seq) : k = Len(seq) \/ k \in 1 .. Len(t)
    BY <1>1, <1>2
  <2>2. \A k \in 1 .. Len(t) : k # Len(seq)
    BY <1>1, <1>2
  <2>3. ASSUME NEW k \in 1 .. Len(t), t[k] = b PROVE On(b, seq) /\ b # seq[Len(seq)]
    <3>1. k \in 1 .. Len(seq) /\ seq[k] = b /\ k # Len(seq)
      BY <1>2, <2>2, <2>3
    <3> QED
      BY <1>1, <3>1 DEF On
  <2>4. ASSUME NEW k \in 1 .. Len(seq), seq[k] = b, b # seq[Len(seq)] PROVE On(b, t)
    <3>1. k \in 1 .. Len(t) /\ t[k] = b
      BY <1>2, <2>1, <2>4
    <3> QED
      BY <3>1 DEF On
  <2> QED
    BY <2>3, <2>4 DEF On
<1> QED
  BY <1>2, <1>3, <1>4, <1>5, <1>6 DEF Path, t

\* A path read from its end along the links in the other direction.
LEMMA PathReversed ==
  ASSUME NEW link, NEW from, NEW seq, Path(link, from, seq), NEW back, NEW end,
         \A k \in 1 .. Len(seq) : back[seq[k]] = IF k = 1 THEN Null ELSE seq[k - 1],
         end = IF seq = <<>> THEN Null ELSE seq[Len(seq)]
  PROVE  Path(back, end, Reverse(seq)) /\ Reverse(Reverse(seq)) = seq
<1>1. /\ Len(seq) \in Nat /\ seq \in [1 .. Len(seq) -> Blocks]
      /\ \A k \in 1 .. Len(seq) : seq[k] \in Blocks
      /\ \A k, m \in 1 .. Len(seq) : seq[k] = seq[m] => k = m
      /\ seq = <<>> <=> Len(seq) = 0
  BY PathTyped, LenProperties DEF Path
<1> DEFINE n == Len(seq)
           t == Reverse(seq)
<1>2. \A k \in 1 .. n : (n - k) + 1 \in 1 .. n /\ (n - ((n - k) + 1)) + 1 = k
  BY <1>1
<1>3. t = [k \in 1 .. n |-> seq[(n - k) + 1]]
  BY DEF Reverse
<1>4. t \in [1 .. n -> Blocks]
  BY <1>1, <1>2, <1>3
<1>5. t \in Seq(Blocks) /\ Len(t) = n
  BY <1>1, <1>4
<1>6. \A k \in 1 .. n : t[k] = seq[(n - k) + 1]
  BY <1>3
<1> HIDE DEF t
<1>7. Reverse(t) = seq
  <2>1. Reverse(t) = [k \in 1 .. n |-> t[(n - k) + 1]]
    BY <1>5 DEF Reverse
  <2>2. \A k \in 1 .. n : t[(n - k) + 1] = seq[k]
    BY <1>2, <1>6
  <2>3. Reverse(t) = [k \in 1 .. n |-> seq[k]]
    BY <2>1, <2>2
  <2> QED
    BY <1>1, <2>3
<1>8. \A k, m \in 1 .. Len(t) : t[k] = t[m] => k = m
  BY <1>1, <1>2, <1>5, <1>6
<1>9. end = IF t = <<>> THEN Null ELSE t[1]
  <2>1. t = <<>> <=> seq = <<>>
    BY <1>1, <1>5, EmptySeq
  <2>2. seq # <<>> => t[1] = seq[n]
    BY <1>1, <1>6
  <2> QED
    BY <2>1, <2>2
<1>10. ASSUME NEW k \in 1 .. Len(t)
       PROVE  back[t[k]] = IF k = Len(t) THEN Null ELSE t[k + 1]
  <2>1. k \in 1 .. n /\ (n - k) + 1 \in 1 .. n /\ t[k] = seq[(n - k) + 1]
    BY <1>2, <1>5, <1>6
  <2>2. back[t[k]] = IF (n - k) + 1 = 1 THEN Null ELSE seq[((n - k) + 1) - 1]
    BY <2>1
  <2>3. (n - k) + 1 = 1 <=> k = Len(t)
    BY <1>1, <1>5, <2>1
  <2>4. k # Len(t) => t[k + 1] = seq[((n - k) + 1) - 1]
    <3>1. k # Len(t) => k + 1 \in 1 .. n /\ (n - (k + 1)) + 1 = ((n - k) + 1) - 1
      BY <1>1, <1>5, <2>1
    <3> QED
      BY <1>6, <3>1
  <2> QED
    BY <2>2, <2>3, <2>4
<1> QED
  BY <1>5, <1>7, <1>8, <1>9, <1>10 DEF Path, t

------------------------------------------------------------------------------
\* The lists of the bins, link by link

In(b, i) == place[b] = "cache" /\ size[b] = 2 ^ i

LinksTyped ==
  /\ head \in [Bins -> Pointers] /\ tail \in [Bins -> Pointers]
  /\ next \in [Blocks -> Pointers] /\ prev \in [Blocks -> Pointers]

\* next and prev are inverse of each other and stay in one bin, whose ends are
\* the blocks without one of them.
Links ==
  /\ \A i \in Bins : head[i] = Null <=> tail[i] = Null
  /\ \A i \in Bins, b \in Blocks : head[i] = b <=> In(b, i) /\ prev[b] = Null
  /\ \A i \in Bins, b \in Blocks : tail[i] = b <=> In(b, i) /\ next[b] = Null
  /\ \A b, c \in Blocks : next[b] = c <=> prev[c] = b
  /\ \A b, c \in Blocks, i \in Bins : next[b] = c => (In(b, i) <=> In(c, i))
  /\ \A b \in Blocks : next[b] # Null \/ prev[b] # Null => \E i \in Bins : In(b, i)

LEMMA OneBin ==
  ASSUME NEW b \in Blocks, NEW i \in Bins, NEW j \in Bins, In(b, i), In(b, j)
  PROVE  i = j
BY PowersDiffer DEF In

USE NullAssumption

\* The newest block of bin j is taken.
LEMMA TakeLinks ==
  ASSUME LinksTyped, Links, NEW j \in Bins, NEW b \in Blocks, b = head[j],
         head' = [head EXCEPT ![j] = next[b]],
         tail' = IF next[b] = Null THEN [tail EXCEPT ![j] = Null] ELSE tail,
         prev' = IF next[b] = Null THEN prev ELSE [prev EXCEPT ![next[b]] = Null],
         next' = [next EXCEPT ![b] = Null],
         \A x \in Blocks, i \in Bins : In(x, i)' <=> In(x, i) /\ x # b
  PROVE  LinksTyped' /\ Links'
<1>1. In(b, j) /\ prev[b] = Null /\ \A i \in Bins \ {j} : ~ In(b, i)
  BY OneBin DEF Links
<1>2. \A i \in Bins \ {j} : head[i] # b /\ tail[i] # b
  BY <1>1 DEF Links
<1>3. CASE next[b] = Null
  <2>1. tail[j] = b /\ UNCHANGED <<next, prev>>
    BY <1>1, <1>3 DEF Links, LinksTyped
  <2>2. /\ head'[j] = Null /\ tail'[j] = Null
        /\ \A i \in Bins \ {j} : head'[i] = head[i] /\ tail'[i] = tail[i]
    BY <1>3 DEF LinksTyped
  <2>3. LinksTyped'
    BY <1>3 DEF LinksTyped, Pointers
  <2>4. \A x, y \in Blocks : next[x] = y => x # b /\ y # b
    BY <1>1, <1>3 DEF Links
  <2>5. \A i \in Bins : head'[i] = Null <=> tail'[i] = Null
    BY <2>2 DEF Links
  <2>6. \A i \in Bins, x \in Blocks : head'[i] = x <=> In(x, i)' /\ prev'[x] = Null
    BY <1>2, <2>1, <2>2 DEF Links
  <2>7. \A i \in Bins, x \in Blocks : tail'[i] = x <=> In(x, i)' /\ next'[x] = Null
    BY <1>2, <2>1, <2>2 DEF Links
  <2>10. /\ \A x, y \in Blocks : next'[x] = y <=> prev'[y] = x
         /\ \A x, y \in Blocks, i \in Bins : next'[x] = y => (In(x, i)' <=> In(y, i)')
    BY <2>1, <2>4 DEF Links
  <2>11. \A x \in Blocks : next'[x] # Null \/ prev'[x] # Null => \E i \in Bins : In(x, i)'
    BY <1>1, <1>3, <2>1 DEF Links
  <2> QED
    BY <2>3, <2>5, <2>6, <2>7, <2>10, <2>11 DEF Links
<1>4. CASE next[b] # Null
  <2>1. PICK c \in Blocks : c = next[b]
    BY <1>4 DEF LinksTyped, Pointers
  <2>2. prev[c] = b /\ c # b /\ In(c, j) /\ \A i \in Bins \ {j} : ~ In(c, i)
    BY <1>1, <2>1, OneBin DEF Links
  <2>3. /\ head'[j] = c /\ \A i \in Bins \ {j} : head'[i] = head[i]
        /\ UNCHANGED tail
        /\ prev'[c] = Null /\ \A x \in Blocks \ {c} : prev'[x] = prev[x]
        /\ next'[b] = Null /\ \A x \in Blocks \ {b} : next'[x] = next[x]
    BY <1>4, <2>1 DEF LinksTyped
  <2>4. LinksTyped'
    BY <1>4, <2>1 DEF LinksTyped, Pointers
  <2>5. tail[j] # Null /\ tail[j] # b
    BY <1>4, <2>1 DEF Links
  <2>6. \A i \in Bins : head'[i] = Null <=> tail'[i] = Null
    BY <2>3, <2>5 DEF Links
  <2>7. \A i \in Bins, x \in Blocks : head'[i] = x <=> In(x, i)' /\ prev'[x] = Null
    <3> SUFFICES ASSUME NEW i \in Bins, NEW x \in Blocks
                 PROVE  head'[i] = x <=> In(x, i)' /\ prev'[x] = Null
      OBVIOUS
    <3>1. head[i] = x <=> In(x, i) /\ prev[x] = Null
      BY DEF Links
    <3>2. CASE x = c
      BY <1>2, <2>2, <2>3, <3>1, <3>2
    <3>3. CASE x # c
      BY <1>1, <1>2, <2>3, <3>1, <3>3
    <3> QED
      BY <3>2, <3>3
  <2>8. \A i \in Bins, x \in Blocks : tail'[i] = x <=> In(x, i)' /\ next'[x] = Null
    BY <1>1, <1>2, <2>3, <2>5 DEF Links
  <2>11. \A x, y \in Blocks : next'[x] = y <=> prev'[y] = x
    <3> SUFFICES ASSUME NEW x \in Blocks, NEW y \in Blocks
                 PROVE  next'[x] = y <=> prev'[y] = x
      OBVIOUS
    <3>1. next[x] = y <=> prev[y] = x
      BY DEF Links
    <3>2. CASE x = b
      BY <2>1, <2>3, <3>1, <3>2
    <3>3. CASE x # b
      BY <2>2, <2>3, <3>1, <3>3
    <3> QED
      BY <3>2, <3>3
  <2>12. \A x, y \in Blocks, i \in Bins : next'[x] = y => (In(x, i)' <=> In(y, i)')
    <3>1. \A x, y \in Blocks : next'[x] = y => next[x] = y /\ x # b /\ y # b
      BY <1>1, <2>3 DEF Links
    <3> QED
      BY <3>1 DEF Links
  <2>13. \A x \in Blocks : next'[x] # Null \/ prev'[x] # Null => \E i \in Bins : In(x, i)'
    <3>1. \A x \in Blocks : next'[x] # Null \/ prev'[x] # Null
                             => x # b /\ (next[x] # Null \/ prev[x] # Null)
      BY <1>1, <2>2, <2>3
    <3> QED
      BY <3>1 DEF Links
  <2> QED
    BY <2>4, <2>6, <2>7, <2>8, <2>11, <2>12, <2>13 DEF Links
<1> QED
  BY <1>3, <1>4
\* The oldest block of bin j is removed.
LEMMA RemoveLinks ==
  ASSUME LinksTyped, Links, NEW j \in Bins, NEW b \in Blocks, b = tail[j],
         tail' = [tail EXCEPT ![j] = prev[b]],
         head' = IF prev[b] = Null THEN [head EXCEPT ![j] = Null] ELSE head,
         next' = IF prev[b] = Null THEN next ELSE [next EXCEPT ![prev[b]] = Null],
         prev' = [prev EXCEPT ![b] = Null],
         \A x \in Blocks, i \in Bins : In(x, i)' <=> In(x, i) /\ x # b
  PROVE  LinksTyped' /\ Links'
<1>1. In(b, j) /\ next[b] = Null /\ \A i \in Bins \ {j} : ~ In(b, i)
  BY OneBin DEF Links
<1>2. \A i \in Bins \ {j} : tail[i] # b /\ head[i] # b
  BY <1>1 DEF Links
<1>3. CASE prev[b] = Null
  <2>1. head[j] = b /\ UNCHANGED <<prev, next>>
    BY <1>1, <1>3 DEF Links, LinksTyped
  <2>2. /\ tail'[j] = Null /\ head'[j] = Null
        /\ \A i \in Bins \ {j} : tail'[i] = tail[i] /\ head'[i] = head[i]
    BY <1>3 DEF LinksTyped
  <2>3. LinksTyped'
    BY <1>3 DEF LinksTyped, Pointers
  <2>4. \A x, y \in Blocks : prev[x] = y => x # b /\ y # b
    BY <1>1, <1>3 DEF Links
  <2>5. \A i \in Bins : tail'[i] = Null <=> head'[i] = Null
    BY <2>2 DEF Links
  <2>6. \A i \in Bins, x \in Blocks : tail'[i] = x <=> In(x, i)' /\ next'[x] = Null
    BY <1>2, <2>1, <2>2 DEF Links
  <2>7. \A i \in Bins, x \in Blocks : head'[i] = x <=> In(x, i)' /\ prev'[x] = Null
    BY <1>2, <2>1, <2>2 DEF Links
  <2>10. /\ \A x, y \in Blocks : prev'[x] = y <=> next'[y] = x
         /\ \A x, y \in Blocks, i \in Bins : prev'[x] = y => (In(x, i)' <=> In(y, i)')
    BY <2>1, <2>4 DEF Links
  <2>11. \A x \in Blocks : prev'[x] # Null \/ next'[x] # Null => \E i \in Bins : In(x, i)'
    BY <1>1, <1>3, <2>1 DEF Links
  <2> QED
    BY <2>3, <2>5, <2>6, <2>7, <2>10, <2>11 DEF Links
<1>4. CASE prev[b] # Null
  <2>1. PICK c \in Blocks : c = prev[b]
    BY <1>4 DEF LinksTyped, Pointers
  <2>2. next[c] = b /\ c # b /\ In(c, j) /\ \A i \in Bins \ {j} : ~ In(c, i)
    BY <1>1, <2>1, OneBin DEF Links
  <2>3. /\ tail'[j] = c /\ \A i \in Bins \ {j} : tail'[i] = tail[i]
        /\ UNCHANGED head
        /\ next'[c] = Null /\ \A x \in Blocks \ {c} : next'[x] = next[x]
        /\ prev'[b] = Null /\ \A x \in Blocks \ {b} : prev'[x] = prev[x]
    BY <1>4, <2>1 DEF LinksTyped
  <2>4. LinksTyped'
    BY <1>4, <2>1 DEF LinksTyped, Pointers
  <2>5. head[j] # Null /\ head[j] # b
    BY <1>4, <2>1 DEF Links
  <2>6. \A i \in Bins : tail'[i] = Null <=> head'[i] = Null
    BY <2>3, <2>5 DEF Links
  <2>7. \A i \in Bins, x \in Blocks : tail'[i] = x <=> In(x, i)' /\ next'[x] = Null
    <3> SUFFICES ASSUME NEW i \in Bins, NEW x \in Blocks
                 PROVE  tail'[i] = x <=> In(x, i)' /\ next'[x] = Null
      OBVIOUS
    <3>1. tail[i] = x <=> In(x, i) /\ next[x] = Null
      BY DEF Links
    <3>2. CASE x = c
      BY <1>2, <2>2, <2>3, <3>1, <3>2
    <3>3. CASE x # c
      BY <1>1, <1>2, <2>3, <3>1, <3>3
    <3> QED
      BY <3>2, <3>3
  <2>8. \A i \in Bins, x \in Blocks : head'[i] = x <=> In(x, i)' /\ prev'[x] = Null
    BY <1>1, <1>2, <2>3, <2>5 DEF Links
  <2>11. \A x, y \in Blocks : prev'[x] = y <=> next'[y] = x
    <3> SUFFICES ASSUME NEW x \in Blocks, NEW y \in Blocks
                 PROVE  prev'[x] = y <=> next'[y] = x
      OBVIOUS
    <3>1. prev[x] = y <=> next[y] = x
      BY DEF Links
    <3>2. CASE x = b
      BY <2>1, <2>3, <3>1, <3>2
    <3>3. CASE x # b
      BY <2>2, <2>3, <3>1, <3>3
    <3> QED
      BY <3>2, <3>3
  <2>12. \A x, y \in Blocks, i \in Bins : prev'[x] = y => (In(x, i)' <=> In(y, i)')
    <3>1. \A x, y \in Blocks : prev'[x] = y => prev[x] = y /\ x # b /\ y # b
      BY <1>1, <2>3 DEF Links
    <3> QED
      BY <3>1 DEF Links
  <2>13. \A x \in Blocks : prev'[x] # Null \/ next'[x] # Null => \E i \in Bins : In(x, i)'
    <3>1. \A x \in Blocks : prev'[x] # Null \/ next'[x] # Null
                             => x # b /\ (prev[x] # Null \/ next[x] # Null)
      BY <1>1, <2>2, <2>3
    <3> QED
      BY <3>1 DEF Links
  <2> QED
    BY <2>4, <2>6, <2>7, <2>8, <2>11, <2>12, <2>13 DEF Links
<1> QED
  BY <1>3, <1>4

\* Block b becomes the newest of bin j.
LEMMA PutLinks ==
  ASSUME LinksTyped, Links, NEW j \in Bins, NEW b \in Blocks, place[b] # "cache",
         next' = [next EXCEPT ![b] = head[j]],
         prev' = [x \in Blocks |-> IF x = b THEN Null
                                  ELSE IF x = head[j] THEN b ELSE prev[x]],
         tail' = IF head[j] = Null THEN [tail EXCEPT ![j] = b] ELSE tail,
         head' = [head EXCEPT ![j] = b],
         \A x \in Blocks, i \in Bins : In(x, i)' <=> (IF x = b THEN i = j ELSE In(x, i))
  PROVE  LinksTyped' /\ Links'
<1>1. /\ next[b] = Null /\ prev[b] = Null /\ \A i \in Bins : ~ In(b, i)
      /\ \A x \in Blocks : next[x] # b /\ prev[x] # b
      /\ \A i \in Bins : head[i] # b /\ tail[i] # b
  <2>1. \A i \in Bins : ~ In(b, i)
    BY DEF In
  <2>2. next[b] = Null /\ prev[b] = Null
    BY <2>1 DEF Links
  <2> QED
    BY <2>1, <2>2 DEF Links
<1>2. LinksTyped'
  BY DEF LinksTyped, Pointers
<1>3. /\ head'[j] = b /\ \A i \in Bins \ {j} : head'[i] = head[i] /\ tail'[i] = tail[i]
      /\ tail'[j] = IF head[j] = Null THEN b ELSE tail[j]
      /\ next'[b] = head[j] /\ prev'[b] = Null
      /\ \A x \in Blocks \ {b} : next'[x] = next[x]
      /\ \A x \in Blocks \ {b} : prev'[x] = IF x = head[j] THEN b ELSE prev[x]
  BY DEF LinksTyped
<1>4. \A i \in Bins : head'[i] = Null <=> tail'[i] = Null
  BY <1>3 DEF Links
<1>5. ASSUME NEW i \in Bins, NEW x \in Blocks
      PROVE  head'[i] = x <=> In(x, i)' /\ prev'[x] = Null
  <2>1. head[i] = x <=> In(x, i) /\ prev[x] = Null
    BY DEF Links
  <2>2. CASE x = b
    BY <1>1, <1>3, <2>2
  <2>3. CASE x # b
    <3>1. CASE i = j
      BY <1>3, <2>1, <2>3, <3>1
    <3>2. CASE i # j
      <4>1. head'[i] = head[i] /\ (In(x, i)' <=> In(x, i))
        BY <1>3, <2>3, <3>2
      <4>2. x = head[j] => prev'[x] # Null /\ ~ In(x, i)
        BY <1>3, <2>3, <3>2, OneBin DEF Links
      <4>3. x # head[j] => prev'[x] = prev[x]
        BY <1>3, <2>3
      <4>4. x = head[j] => head[i] # x
        BY <2>1, <4>2
      <4> QED
        BY <2>1, <4>1, <4>2, <4>3, <4>4
    <3> QED
      BY <3>1, <3>2
  <2> QED
    BY <2>2, <2>3
<1>6. ASSUME NEW i \in Bins, NEW x \in Blocks
      PROVE  tail'[i] = x <=> In(x, i)' /\ next'[x] = Null
  <2>1. tail[i] = x <=> In(x, i) /\ next[x] = Null
    BY DEF Links
  <2>2. head[i] = Null <=> tail[i] = Null
    BY DEF Links
  <2>3. CASE x = b
    <3>1. In(x, i)' <=> i = j
      BY <2>3
    <3>2. next'[x] = Null <=> head[j] = Null
      BY <1>3, <2>3
    <3>3. i = j => (tail'[i] = x <=> head[j] = Null)
      BY <1>1, <1>3, <2>3
    <3>4. i # j => tail'[i] # x
      BY <1>1, <1>3, <2>3
    <3> QED
      BY <3>1, <3>2, <3>3, <3>4
  <2>4. CASE x # b
    <3>1. (In(x, i)' <=> In(x, i)) /\ next'[x] = next[x]
      BY <1>3, <2>4
    <3>2. tail'[i] = x <=> tail[i] = x
      BY <1>3, <2>2, <2>4
    <3> QED
      BY <2>1, <3>1, <3>2
  <2> QED
    BY <2>3, <2>4
<1>7. ASSUME NEW x \in Blocks, NEW y \in Blocks
      PROVE  next'[x] = y <=> prev'[y] = x
  <2>1. next[x] = y <=> prev[y] = x
    BY DEF Links
  <2>2. CASE x = b
    BY <1>1, <1>3, <2>2
  <2>3. CASE x # b
    <3>1. CASE y = head[j]
      <4>1. prev[y] = Null /\ prev'[y] = b
        BY <1>1, <1>3, <3>1 DEF Links
      <4> QED
        BY <1>3, <2>1, <2>3, <4>1
    <3>2. CASE y # head[j]
      BY <1>1, <1>3, <2>1, <2>3, <3>2
    <3> QED
      BY <3>1, <3>2
  <2> QED
    BY <2>2, <2>3
<1>8. ASSUME NEW x \in Blocks, NEW y \in Blocks, NEW i \in Bins, next'[x] = y
      PROVE  In(x, i)' <=> In(y, i)'
  <2>1. CASE x = b
    <3>1. y = head[j] /\ y # b
      BY <1>1, <1>3, <1>8, <2>1
    <3>2. In(y, j) /\ \A k \in Bins \ {j} : ~ In(y, k)
      BY <3>1, OneBin DEF Links
    <3> QED
      BY <2>1, <3>1, <3>2
  <2>2. CASE x # b
    <3>1. next[x] = y /\ y # b
      BY <1>1, <1>3, <1>8, <2>2
    <3> QED
      BY <2>2, <3>1 DEF Links
  <2> QED
    BY <2>1, <2>2
<1>9. ASSUME NEW x \in Blocks, next'[x] # Null \/ prev'[x] # Null
      PROVE  \E i \in Bins : In(x, i)'
  <2>1. CASE x = b
    BY <2>1
  <2>2. CASE x = head[j] /\ x # b
    BY <2>2 DEF Links
  <2>3. CASE x # head[j] /\ x # b
    <3>1. next[x] # Null \/ prev[x] # Null
      BY <1>3, <1>9, <2>3
    <3> QED
      BY <2>3, <3>1 DEF Links
  <2> QED
    BY <2>1, <2>2, <2>3
<1> QED
  BY <1>2, <1>4, <1>5, <1>6, <1>7, <1>8, <1>9 DEF Links

------------------------------------------------------------------------------
\* The invariant: the types, what is known of a block wherever it is, and the
\* links of the lists.

BlocksTyped ==
  /\ place \in [Blocks -> {"mspace", "program", "cache"}]
  /\ memsize \in [Blocks -> 0 .. MaxSize + 1 + Slack]
  /\ asked \in [Blocks -> 0 .. MaxSize + 1]
  /\ size \in [Blocks -> 0 .. MaxSize]
  /\ lastUsed \in [Blocks -> 0 .. FreesModulus - 1]
  /\ waited \in [Blocks -> 0 .. FreesModulus]
  /\ freeInCache \in Int

LoopTyped ==
  /\ frees \in 0 .. FreesModulus - 1
  /\ pc \in {"idle", "realloc", "release", "remove"}
  /\ release_age \in 0 .. ReleaseAge
  /\ age \in 0 .. ReleaseAge
  /\ bin \in Bins
  /\ old \in Pointers

\* A program has at least what it asked for, and a block of the cache counts with
\* the size of its bin, which is no more than it has.
BlockOK(b) ==
  /\ place[b] = "program" => asked[b] \in Requests /\ asked[b] <= memsize[b]
  /\ place[b] # "program" => asked[b] = 0
  /\ place[b] = "cache" => \E i \in Bins : size[b] = 2 ^ i /\ 2 ^ i <= memsize[b]
  /\ place[b] # "cache" => size[b] = 0 /\ waited[b] = 0
BlocksOK == \A b \in Blocks : BlockOK(b)

OldOK == pc = "realloc" => old \in Blocks /\ place[old] = "program"

IInv == BlocksTyped /\ LoopTyped /\ BlocksOK /\ OldOK /\ LinksTyped /\ Links

LEMMA Sizes ==
  /\ MaxSize \in Nat \ {0} /\ MaxBin \in Bins /\ MaxSize = 2 ^ MaxBin
  /\ \A i \in Bins : 2 ^ i \in 1 .. MaxSize
<1>1. MaxSize \in Nat \ {0}
  BY PowerIsPositive, BinAssumption DEF MaxSize, BinSizes
<1>2. MaxBin \in Bins /\ MaxBin \in BinSizes
  BY BinAssumption DEF Bins, BinSizes
<1>3. ASSUME NEW i \in Bins PROVE 2 ^ i \in 1 .. MaxSize
  <2>1. i \in BinSizes /\ (i = MaxBin \/ i \in 0 .. MaxBin - 1)
    BY BinAssumption DEF Bins, BinSizes
  <2>2. 2 ^ i \in Nat \ {0}
    BY <2>1, PowerIsPositive
  <2>3. 2 ^ i <= MaxSize
    BY <1>1, <1>2, <2>1, PowerGrows DEF MaxSize
  <2> QED
    BY <1>1, <2>2, <2>3
<1> QED
  BY <1>1, <1>2, <1>3 DEF MaxSize

LEMMA InitInvariant == Init => IInv
<1> SUFFICES ASSUME Init PROVE IInv
  OBVIOUS
<1>1. BlocksTyped /\ LoopTyped /\ OldOK
  BY Sizes, BinAssumption, AgeAssumption, SlackAssumption
     DEF Init, BlocksTyped, LoopTyped, OldOK, Pointers, Bins
<1>2. BlocksOK
  BY DEF Init, BlocksOK, BlockOK
<1>3. LinksTyped
  BY DEF Init, LinksTyped, Pointers
<1>4. \A b \in Blocks, i \in Bins : ~ In(b, i)
  BY DEF Init, In
<1>5. Links
  BY <1>4 DEF Init, Links
<1> QED
  BY <1>1, <1>2, <1>3, <1>5 DEF IInv

------------------------------------------------------------------------------
\* What a step does to the lists: the newest block of a bin is taken, a block is
\* put into its bin, the oldest block of a bin is removed, or nothing.

Taken(j) ==
  /\ head[j] \in Blocks
  /\ TakeHead(j, head[j])
  /\ place' = [place EXCEPT ![head[j]] = "program"]
  /\ UNCHANGED frees

Stored(b) ==
  /\ place[b] = "program" /\ Cacheable(b)
  /\ Put(b)
  /\ place' = [place EXCEPT ![b] = "cache"]

Quiet ==
  /\ UNCHANGED <<head, tail, next, prev, size, lastUsed, freeInCache>>
  /\ \A b \in Blocks : place'[b] = "cache" <=> place[b] = "cache"

LEMMA TakenPreserves ==
  ASSUME IInv, NEW j \in Bins, Taken(j), NEW s \in Requests, Hits(s, j),
         Get(head[j], s, memsize[head[j]])
  PROVE  BlocksTyped' /\ BlocksOK' /\ LinksTyped' /\ Links' /\ place[head[j]] = "cache"
<1> DEFINE b == head[j]
<1>1. b \in Blocks /\ In(b, j) /\ size[b] = 2 ^ j /\ 2 ^ j <= memsize[b]
  <2>1. b \in Blocks /\ In(b, j)
    BY DEF Taken, IInv, Links
  <2>2. PICK i \in Bins : size[b] = 2 ^ i /\ 2 ^ i <= memsize[b]
    BY <2>1 DEF IInv, BlocksOK, BlockOK, In
  <2> QED
    BY <2>1, <2>2 DEF In
<1>2. \A x \in Blocks, i \in Bins : In(x, i)' <=> In(x, i) /\ x # b
  BY <1>1 DEF IInv, BlocksTyped, Taken, TakeHead, Forget, In
<1>3. LinksTyped' /\ Links'
  BY <1>1, <1>2, TakeLinks DEF IInv, Taken, TakeHead
<1>4. s <= memsize[b]
  <2>1. s \in 1 .. MaxSize /\ j = FoundBin(s)
    BY DEF Hits, Requests
  <2>2. PICK i \in Bins : i = BestIdx(s) /\ s <= 2 ^ i
    BY <2>1, BestIdxFits
  <2>3. j = i \/ j = i + 1
    BY <2>1, <2>2 DEF FoundBin
  <2>4. j \in BinSizes /\ (j = i \/ i \in 0 .. j - 1)
    BY <2>3, BinAssumption DEF Bins, BinSizes
  <2>5. 2 ^ i <= 2 ^ j
    BY <2>4, Sizes, PowerGrows
  <2>6. s \in Nat /\ 2 ^ i \in Nat /\ 2 ^ j \in Nat /\ memsize[b] \in Int
    BY <1>1, <2>1, Sizes, SlackAssumption DEF IInv, BlocksTyped
  <2> QED
    BY <1>1, <2>2, <2>5, <2>6
<1>5. BlocksTyped'
  <2>1. size[b] \in Int
    BY <1>1, Sizes DEF IInv, BlocksTyped
  <2>2. place' \in [Blocks -> {"mspace", "program", "cache"}] /\ freeInCache' \in Int
    BY <1>1, <2>1 DEF IInv, BlocksTyped, Taken, TakeHead
  <2>3. memsize' \in [Blocks -> 0 .. MaxSize + 1 + Slack]
    BY <1>1 DEF IInv, BlocksTyped, Get
  <2>4. asked' \in [Blocks -> 0 .. MaxSize + 1]
    BY <1>1, Sizes DEF IInv, BlocksTyped, Get, Requests
  <2>5. /\ size' \in [Blocks -> 0 .. MaxSize]
        /\ lastUsed' \in [Blocks -> 0 .. FreesModulus - 1]
        /\ waited' \in [Blocks -> 0 .. FreesModulus]
    BY <1>1, Sizes, AgeAssumption DEF IInv, BlocksTyped, Taken, TakeHead, Forget
  <2> QED
    BY <2>2, <2>3, <2>4, <2>5 DEF BlocksTyped
<1>6. BlocksOK'
  <2> SUFFICES ASSUME NEW x \in Blocks
               PROVE  BlockOK(x)'
    BY DEF BlocksOK, BlockOK
  <2>1. CASE x = b
    BY <1>1, <1>4, <2>1
       DEF IInv, BlocksTyped, BlockOK, Taken, TakeHead, Forget, Get
  <2>2. CASE x # b
    <3>1. /\ place'[x] = place[x] /\ asked'[x] = asked[x] /\ memsize'[x] = memsize[x]
          /\ size'[x] = size[x] /\ waited'[x] = waited[x]
      BY <1>1, <2>2 DEF IInv, BlocksTyped, Taken, TakeHead, Forget, Get
    <3> QED
      BY <3>1 DEF IInv, BlocksOK, BlockOK
  <2> QED
    BY <2>1, <2>2
<1> QED
  BY <1>1, <1>3, <1>5, <1>6 DEF In

LEMMA Counted ==
  ASSUME IInv, CountFree
  PROVE  /\ frees' \in 0 .. FreesModulus - 1
         /\ waited' \in [Blocks -> 0 .. FreesModulus]
         /\ \A b \in Blocks : place[b] # "cache" => waited'[b] = 0
<1>1. frees' \in 0 .. FreesModulus - 1
  BY AgeAssumption DEF IInv, LoopTyped, CountFree
<1>2. \A n \in Nat : Min({n, FreesModulus}) = IF n <= FreesModulus THEN n ELSE FreesModulus
  BY AgeAssumption DEF Min
<1>3. ASSUME NEW b \in Blocks PROVE Min({waited[b] + 1, FreesModulus}) \in 0 .. FreesModulus
  BY <1>2, AgeAssumption DEF IInv, BlocksTyped
<1> QED
  BY <1>1, <1>3, AgeAssumption DEF CountFree, Cached

LEMMA StoredPreserves ==
  ASSUME IInv, NEW b \in Blocks, Stored(b),
         asked' = [asked EXCEPT ![b] = 0], UNCHANGED memsize
  PROVE  BlocksTyped' /\ BlocksOK' /\ LinksTyped' /\ Links' /\ frees' \in 0 .. FreesModulus - 1
<1> DEFINE j == Size2binidx(memsize[b])
<1>1. j \in Bins /\ 2 ^ j <= memsize[b]
  <2>1. memsize[b] \in 1 .. 2 * MaxSize - 1
    BY Sizes, BinAssumption, SlackAssumption
       DEF IInv, BlocksTyped, BlocksOK, BlockOK, Stored, Cacheable, Requests
  <2> QED
    BY <2>1, HasBin
<1>2. 2 ^ j \in 1 .. MaxSize
  BY <1>1, Sizes
<1>3. /\ place'[b] = "cache" /\ \A x \in Blocks \ {b} : place'[x] = place[x]
      /\ size'[b] = 2 ^ j /\ \A x \in Blocks \ {b} : size'[x] = size[x]
  BY DEF IInv, BlocksTyped, Stored, Put
<1>4. \A x \in Blocks, i \in Bins : In(x, i)' <=> (IF x = b THEN i = j ELSE In(x, i))
  BY <1>1, <1>3, PowersDiffer DEF In
<1>5. LinksTyped' /\ Links'
  BY <1>1, <1>4, PutLinks DEF IInv, Stored, Put
<1>6. BlocksTyped' /\ frees' \in 0 .. FreesModulus - 1
  <2>1. frees' \in 0 .. FreesModulus - 1 /\ waited' \in [Blocks -> 0 .. FreesModulus]
    BY Counted DEF Stored, Put
  <2>2. /\ place' \in [Blocks -> {"mspace", "program", "cache"}]
        /\ freeInCache' \in Int /\ size' \in [Blocks -> 0 .. MaxSize]
        /\ lastUsed' \in [Blocks -> 0 .. FreesModulus - 1]
    BY <1>2, <2>1 DEF IInv, BlocksTyped, Stored, Put
  <2>3. asked' \in [Blocks -> 0 .. MaxSize + 1]
    BY Sizes DEF IInv, BlocksTyped
  <2> QED
    BY <2>1, <2>2, <2>3 DEF IInv, BlocksTyped
<1>7. BlocksOK'
  <2> SUFFICES ASSUME NEW x \in Blocks
               PROVE  BlockOK(x)'
    BY DEF BlocksOK, BlockOK
  <2>1. CASE x = b
    BY <1>1, <1>3, <2>1 DEF IInv, BlocksTyped, BlockOK
  <2>2. CASE x # b
    <3>1. /\ place'[x] = place[x] /\ asked'[x] = asked[x] /\ memsize'[x] = memsize[x]
          /\ size'[x] = size[x] /\ (place[x] # "cache" => waited'[x] = 0)
      BY <1>3, <2>2, Counted DEF IInv, BlocksTyped, Stored, Put
    <3> QED
      BY <3>1 DEF IInv, BlocksOK, BlockOK
  <2> QED
    BY <2>1, <2>2
<1> QED
  BY <1>5, <1>6, <1>7

LEMMA RemovedPreserves ==
  ASSUME IInv, RemoveOldest
  PROVE  /\ BlocksTyped' /\ BlocksOK' /\ LinksTyped' /\ Links'
         /\ tail[bin] \in Blocks /\ In(tail[bin], bin)
<1> DEFINE b == tail[bin]
<1>1. b \in Blocks /\ bin \in Bins /\ In(b, bin)
  BY DEF IInv, LoopTyped, LinksTyped, Links, Pointers, RemoveOldest, OldestDue
<1>2. \A x \in Blocks, i \in Bins : In(x, i)' <=> In(x, i) /\ x # b
  BY <1>1 DEF IInv, BlocksTyped, RemoveOldest, Forget, In
<1>3. LinksTyped' /\ Links'
  BY <1>1, <1>2, RemoveLinks DEF IInv, RemoveOldest
<1>4. BlocksTyped'
  <2>1. /\ place' \in [Blocks -> {"mspace", "program", "cache"}] /\ freeInCache' \in Int
        /\ memsize' \in [Blocks -> 0 .. MaxSize + 1 + Slack]
    BY <1>1, Sizes, SlackAssumption DEF IInv, BlocksTyped, RemoveOldest
  <2>2. /\ size' \in [Blocks -> 0 .. MaxSize]
        /\ lastUsed' \in [Blocks -> 0 .. FreesModulus - 1]
        /\ waited' \in [Blocks -> 0 .. FreesModulus]
    BY <1>1, Sizes, AgeAssumption DEF IInv, BlocksTyped, RemoveOldest, Forget
  <2> QED
    BY <2>1, <2>2 DEF IInv, BlocksTyped, RemoveOldest
<1>5. BlocksOK'
  <2> SUFFICES ASSUME NEW x \in Blocks
               PROVE  BlockOK(x)'
    BY DEF BlocksOK, BlockOK
  <2>1. CASE x = b
    BY <1>1, <2>1 DEF IInv, BlocksTyped, BlocksOK, BlockOK, RemoveOldest, Forget, In
  <2>2. CASE x # b
    <3>1. /\ place'[x] = place[x] /\ asked'[x] = asked[x] /\ memsize'[x] = memsize[x]
          /\ size'[x] = size[x] /\ waited'[x] = waited[x]
      BY <1>1, <2>2 DEF IInv, BlocksTyped, RemoveOldest, Forget
    <3> QED
      BY <3>1 DEF IInv, BlocksOK, BlockOK
  <2> QED
    BY <2>1, <2>2
<1> QED
  BY <1>1, <1>3, <1>4, <1>5

\* A step that is quiet, and what it says of each block.
LEMMA QuietPreserves ==
  ASSUME IInv, Quiet
  PROVE  LinksTyped' /\ Links'
<1>1. \A x \in Blocks, i \in Bins : In(x, i)' <=> In(x, i)
  BY DEF Quiet, In
<1> QED
  BY <1>1 DEF IInv, LinksTyped, Links, Quiet

LEMMA GivenBack ==
  ASSUME IInv, NEW b \in Blocks, place[b] = "program", GiveBack(b)
  PROVE  /\ Stored(b) \/ (Quiet /\ UNCHANGED <<frees, waited>>)
         /\ BlocksTyped' /\ BlocksOK' /\ LinksTyped' /\ Links'
         /\ frees' \in 0 .. FreesModulus - 1
         /\ pc' \in {"idle", "release"} /\ release_age' \in 0 .. ReleaseAge
<1>1. CASE Cacheable(b)
  <2>1. Stored(b) /\ asked' = [asked EXCEPT ![b] = 0] /\ UNCHANGED memsize
    BY <1>1 DEF GiveBack, Stored
  <2>2. pc' \in {"idle", "release"} /\ release_age' \in 0 .. ReleaseAge
    BY <1>1, AgeAssumption DEF GiveBack
  <2> QED
    BY <2>1, <2>2, StoredPreserves
<1>2. CASE ~ Cacheable(b)
  <2>1. Quiet /\ UNCHANGED <<frees, waited>>
    BY <1>2 DEF IInv, BlocksTyped, GiveBack, listVars, Quiet
  <2>2. pc' \in {"idle", "release"} /\ release_age' \in 0 .. ReleaseAge
    BY <1>2 DEF IInv, LoopTyped, GiveBack
  <2>3. /\ place' = [place EXCEPT ![b] = "mspace"] /\ asked' = [asked EXCEPT ![b] = 0]
        /\ memsize' = [memsize EXCEPT ![b] = 0]
        /\ UNCHANGED <<size, lastUsed, waited, freeInCache>>
    BY <1>2 DEF GiveBack, listVars
  <2>4. BlocksTyped'
    BY <2>3, Sizes, SlackAssumption DEF IInv, BlocksTyped
  <2>5. BlocksOK'
    BY <2>3 DEF IInv, BlocksTyped, BlocksOK, BlockOK
  <2> QED
    BY <2>1, <2>2, <2>4, <2>5, QuietPreserves DEF IInv, LoopTyped
<1> QED
  BY <1>1, <1>2

\* What an mspace returns is large enough.
LEMMA FromMspace ==
  ASSUME NEW s \in Requests, NEW extra \in 0 .. Slack
  PROVE  /\ Rounded(s) + extra \in 0 .. MaxSize + 1 + Slack
         /\ s <= Rounded(s) + extra /\ s \in 0 .. MaxSize + 1
BY RoundedFits, Sizes, SlackAssumption DEF Requests

LEMMA RequestStep ==
  ASSUME IInv, Request
  PROVE  /\ \/ \E j \in Bins : Taken(j)
            \/ Quiet /\ UNCHANGED <<frees, waited>>
         /\ IInv'
<1>1. PICK s \in Requests :
        \/ \E j \in Bins : MallocHit(s, j)
        \/ \E b \in Blocks : \/ MallocMiss(s, b)
                             \/ ReallocNoop(b, s)
                             \/ \E j \in Bins : ReallocHit(b, s, j)
                             \/ \E new \in Blocks : ReallocMiss(b, new, s)
  BY DEF Request
<1>2. ASSUME NEW j \in Bins, MallocHit(s, j) PROVE Taken(j) /\ IInv'
  <2>1. Taken(j)
    BY <1>2 DEF IInv, LinksTyped, Pointers, MallocHit, Hits, Get, Taken
  <2>2. BlocksTyped' /\ BlocksOK' /\ LinksTyped' /\ Links'
    BY <1>2, <2>1, TakenPreserves DEF MallocHit
  <2>3. LoopTyped' /\ OldOK'
    BY <1>2 DEF IInv, LoopTyped, OldOK, MallocHit, loopVars
  <2> QED
    BY <2>1, <2>2, <2>3 DEF IInv
<1>3. ASSUME NEW b \in Blocks, NEW j \in Bins, ReallocHit(b, s, j) PROVE Taken(j) /\ IInv'
  <2>1. Taken(j)
    BY <1>3 DEF IInv, LinksTyped, Pointers, ReallocHit, Hits, Get, Taken
  <2>2. /\ BlocksTyped' /\ BlocksOK' /\ LinksTyped' /\ Links'
        /\ place[head[j]] = "cache"
    BY <1>3, <2>1, TakenPreserves DEF ReallocHit
  <2>3. place'[b] = "program"
    BY <1>3, <2>1, <2>2 DEF IInv, BlocksTyped, Taken, ReallocHit
  <2>4. LoopTyped' /\ OldOK'
    BY <1>3, <2>3 DEF IInv, LoopTyped, OldOK, Pointers, ReallocHit
  <2> QED
    BY <2>1, <2>2, <2>4 DEF IInv
<1>4. ASSUME NEW b \in Blocks, MallocMiss(s, b)
      PROVE  Quiet /\ UNCHANGED <<frees, waited>> /\ IInv'
  <2>1. PICK extra \in 0 .. Slack : Get(b, s, Rounded(s) + extra)
    BY <1>4 DEF MallocMiss
  <2>2. /\ place' = [place EXCEPT ![b] = "program"] /\ asked' = [asked EXCEPT ![b] = s]
        /\ memsize' = [memsize EXCEPT ![b] = Rounded(s) + extra] /\ place[b] = "mspace"
        /\ UNCHANGED <<listVars, frees, freeInCache, pc, loopVars, waited>>
    BY <1>4, <2>1 DEF MallocMiss, Get
  <2>3. Quiet /\ UNCHANGED <<frees, waited>>
    BY <2>2 DEF IInv, BlocksTyped, Quiet, listVars
  <2>4. BlocksTyped'
    BY <2>2, FromMspace DEF IInv, BlocksTyped, listVars
  <2>5. BlocksOK'
    BY <2>2, FromMspace DEF IInv, BlocksTyped, BlocksOK, BlockOK, listVars
  <2>6. LoopTyped' /\ OldOK'
    BY <1>4, <2>2 DEF IInv, LoopTyped, OldOK, MallocMiss, loopVars
  <2> QED
    BY <2>3, <2>4, <2>5, <2>6, QuietPreserves DEF IInv
<1>5. ASSUME NEW b \in Blocks, ReallocNoop(b, s)
      PROVE  Quiet /\ UNCHANGED <<frees, waited>> /\ IInv'
  <2>1. Quiet /\ UNCHANGED <<frees, waited>>
    BY <1>5 DEF ReallocNoop, Quiet, listVars
  <2>2. BlocksTyped'
    BY <1>5, FromMspace, SlackAssumption DEF IInv, BlocksTyped, ReallocNoop, listVars
  <2>3. s <= memsize[b]
    BY <1>5, Sizes, SlackAssumption DEF IInv, BlocksTyped, ReallocNoop, Requests
  <2>4. BlocksOK'
    BY <1>5, <2>3 DEF IInv, BlocksTyped, BlocksOK, BlockOK, ReallocNoop, listVars
  <2>5. LoopTyped' /\ OldOK'
    BY <1>5 DEF IInv, LoopTyped, OldOK, ReallocNoop, loopVars
  <2> QED
    BY <2>1, <2>2, <2>4, <2>5, QuietPreserves DEF IInv
<1>6. ASSUME NEW b \in Blocks, NEW new \in Blocks, ReallocMiss(b, new, s)
      PROVE  Quiet /\ UNCHANGED <<frees, waited>> /\ IInv'
  <2>1. PICK extra \in 0 .. Slack :
          memsize' = [[memsize EXCEPT ![b] = 0] EXCEPT ![new] = Rounded(s) + extra]
    BY <1>6 DEF ReallocMiss
  <2>2. /\ place[b] = "program" /\ (new = b \/ place[new] = "mspace")
        /\ place' = [[place EXCEPT ![b] = "mspace"] EXCEPT ![new] = "program"]
        /\ asked' = [[asked EXCEPT ![b] = 0] EXCEPT ![new] = s]
        /\ UNCHANGED <<listVars, frees, freeInCache, pc, loopVars, waited>>
    BY <1>6 DEF ReallocMiss
  <2>3. Quiet /\ UNCHANGED <<frees, waited>>
    BY <2>2 DEF IInv, BlocksTyped, Quiet, listVars
  <2>4. BlocksTyped'
    <3>1. memsize' \in [Blocks -> 0 .. MaxSize + 1 + Slack]
      BY <2>1, FromMspace, Sizes, SlackAssumption DEF IInv, BlocksTyped
    <3>2. asked' \in [Blocks -> 0 .. MaxSize + 1]
      BY <2>2, FromMspace, Sizes DEF IInv, BlocksTyped
    <3>3. place' \in [Blocks -> {"mspace", "program", "cache"}]
      BY <2>2 DEF IInv, BlocksTyped
    <3> QED
      BY <2>2, <3>1, <3>2, <3>3 DEF IInv, BlocksTyped, listVars
  <2>5. BlocksOK'
    BY <2>1, <2>2, FromMspace DEF IInv, BlocksTyped, BlocksOK, BlockOK, listVars
  <2>6. LoopTyped' /\ OldOK'
    BY <1>6, <2>2 DEF IInv, LoopTyped, OldOK, ReallocMiss, loopVars
  <2> QED
    BY <2>3, <2>4, <2>5, <2>6, QuietPreserves DEF IInv
<1> QED
  BY <1>1, <1>2, <1>3, <1>4, <1>5, <1>6

LEMMA NextStep ==
  ASSUME IInv, [Next]_vars
  PROVE  /\ \/ \E j \in Bins : Taken(j) /\ Request
            \/ \E b \in Blocks : Stored(b) /\ (Free(b) \/ ReallocFree)
            \/ RemoveOldest
            \/ Quiet /\ (Trim \/ UNCHANGED <<frees, waited>>)
         /\ IInv'
<1>1. CASE Request
  BY <1>1, RequestStep
<1>2. ASSUME NEW b \in Blocks, Free(b)
      PROVE  (Stored(b) \/ (Quiet /\ UNCHANGED <<frees, waited>>)) /\ IInv'
  <2>1. GiveBack(b) /\ place[b] = "program" /\ UNCHANGED <<age, bin, old>>
    BY <1>2 DEF Free
  <2>2. LoopTyped' /\ OldOK'
    BY <2>1, GivenBack DEF IInv, LoopTyped, OldOK
  <2> QED
    BY <2>1, <2>2, GivenBack DEF IInv
<1>3. ASSUME ReallocFree
      PROVE  /\ old \in Blocks
             /\ Stored(old) \/ (Quiet /\ UNCHANGED <<frees, waited>>)
             /\ IInv'
  <2>1. /\ old \in Blocks /\ place[old] = "program" /\ GiveBack(old)
        /\ old' = Null /\ UNCHANGED <<age, bin>>
    BY <1>3 DEF ReallocFree, IInv, OldOK
  <2>2. LoopTyped' /\ OldOK'
    BY <2>1, GivenBack DEF IInv, LoopTyped, OldOK, Pointers
  <2> QED
    BY <2>1, <2>2, GivenBack DEF IInv
<1>4. CASE Trim
  <2>1. Quiet
    BY <1>4 DEF Trim, Quiet, blockVars, listVars
  <2>2. BlocksTyped'
    BY <1>4, Counted DEF IInv, BlocksTyped, Trim, blockVars, listVars
  <2>3. BlocksOK'
    BY <1>4, Counted DEF IInv, BlocksTyped, BlocksOK, BlockOK, Trim, blockVars, listVars
  <2>4. LoopTyped' /\ OldOK'
    BY <1>4, Counted, BinAssumption, AgeAssumption DEF IInv, LoopTyped, OldOK, Bins, Trim
  <2> QED
    BY <1>4, <2>1, <2>2, <2>3, <2>4, QuietPreserves DEF IInv
<1>5. CASE ReleaseLoop
  <2>1. Quiet /\ UNCHANGED <<frees, waited>>
    BY <1>5 DEF ReleaseLoop, Quiet, blockVars, listVars
  <2>2. BlocksTyped' /\ BlocksOK'
    BY <1>5 DEF IInv, BlocksTyped, BlocksOK, BlockOK, ReleaseLoop, blockVars, listVars
  <2>3. LoopTyped' /\ OldOK'
    BY <1>5, BinAssumption, AgeAssumption DEF IInv, LoopTyped, OldOK, Bins, ReleaseLoop
  <2> QED
    BY <2>1, <2>2, <2>3, QuietPreserves DEF IInv
<1>6. CASE RemoveOldest
  <2>1. LoopTyped' /\ OldOK'
    BY <1>6 DEF IInv, LoopTyped, OldOK, RemoveOldest, loopVars
  <2> QED
    BY <1>6, <2>1, RemovedPreserves DEF IInv
<1>7. CASE NextBin
  <2>1. Quiet /\ UNCHANGED <<frees, waited>>
    BY <1>7 DEF NextBin, Quiet, blockVars, listVars
  <2>2. BlocksTyped' /\ BlocksOK'
    BY <1>7 DEF IInv, BlocksTyped, BlocksOK, BlockOK, NextBin, blockVars, listVars
  <2>3. LoopTyped' /\ OldOK'
    BY <1>7, BinAssumption DEF IInv, LoopTyped, OldOK, Bins, NextBin
  <2> QED
    BY <2>1, <2>2, <2>3, QuietPreserves DEF IInv
<1>8. CASE UNCHANGED vars
  <2>1. Quiet /\ UNCHANGED <<frees, waited>>
    BY <1>8 DEF vars, Quiet, blockVars, listVars
  <2>2. BlocksTyped' /\ BlocksOK' /\ LoopTyped' /\ OldOK'
    BY <1>8 DEF IInv, BlocksTyped, BlocksOK, BlockOK, LoopTyped, OldOK, vars,
                blockVars, listVars, loopVars
  <2> QED
    BY <2>1, <2>2, QuietPreserves DEF IInv
<1> QED
  BY <1>1, <1>2, <1>3, <1>4, <1>5, <1>6, <1>7, <1>8 DEF Next

\* Whatever is allocated, freed, resized and given back, in whatever order, the
\* links, the sizes and the places of the blocks go together as IInv says.
THEOREM Invariance == Spec => []IInv
<1>1. IInv /\ [Next]_vars => IInv'
  BY NextStep
<1> QED
  BY <1>1, InitInvariant, PTL DEF Spec

\* threadcache_malloc and nedprealloc2 give the program a block of at least the
\* size it asked for, from whatever bin it comes, and it keeps it that large.
THEOREM FitsRequest == Spec => []LargeEnough
<1>1. IInv => LargeEnough
  BY Sizes, SlackAssumption DEF IInv, BlocksTyped, BlocksOK, BlockOK, LargeEnough, Requests
<1> QED
  BY <1>1, Invariance, PTL

\* The links that threadcache_malloc, threadcache_free and RemoveCacheEntries set
\* one by one are those of doubly linked lists between their calls: next and prev
\* are inverse, and the ends of a bin are the blocks of it without one of them.
THEOREM ListsLinked == Spec => []Links
<1>1. IInv => Links
  BY DEF IInv
<1> QED
  BY <1>1, Invariance, PTL

------------------------------------------------------------------------------
\* What a step changes in the cache

LEMMA CachedFinite ==
  ASSUME IInv
  PROVE  /\ IsFiniteSet(Cached) /\ Cached \subseteq Blocks
         /\ \A b \in Cached : size[b] \in Nat
<1>1. Cached \subseteq Blocks
  BY DEF Cached
<1>2. IsFiniteSet(Cached)
  BY <1>1, BlocksAssumption, FS_Subset
<1> QED
  BY <1>1, <1>2, Sizes DEF IInv, BlocksTyped

\* A block that leaves the cache, and what the step says of the others.
Leaves(b) ==
  /\ b \in Cached
  /\ Cached' = Cached \ {b}
  /\ \A x \in Blocks \ {b} : size'[x] = size[x] /\ lastUsed'[x] = lastUsed[x]
                              /\ waited'[x] = waited[x]
  /\ freeInCache' = freeInCache - size[b]
  /\ UNCHANGED frees

LEMMA TakenLeaves ==
  ASSUME IInv, NEW j \in Bins, Taken(j)
  PROVE  Leaves(head[j]) /\ In(head[j], j)
<1>1. head[j] \in Blocks /\ In(head[j], j)
  BY DEF Taken, IInv, Links
<1> QED
  BY <1>1 DEF IInv, BlocksTyped, Taken, TakeHead, Forget, Leaves, Cached, In

LEMMA RemovedLeaves ==
  ASSUME IInv, RemoveOldest
  PROVE  Leaves(tail[bin]) /\ In(tail[bin], bin) /\ bin \in Bins
<1>1. tail[bin] \in Blocks /\ In(tail[bin], bin) /\ bin \in Bins
  BY RemovedPreserves DEF IInv, LoopTyped
<1> QED
  BY <1>1 DEF IInv, BlocksTyped, RemoveOldest, Forget, Leaves, Cached, In

\* A block that enters the cache.
Enters(b, j) ==
  /\ b \in Blocks \ Cached /\ j \in Bins
  /\ Cached' = Cached \cup {b}
  /\ \A x \in Blocks \ {b} : size'[x] = size[x] /\ lastUsed'[x] = lastUsed[x]
  /\ size'[b] = 2 ^ j /\ lastUsed'[b] = frees'
  /\ freeInCache' = freeInCache + 2 ^ j
  /\ CountFree

LEMMA StoredEnters ==
  ASSUME IInv, NEW b \in Blocks, Stored(b)
  PROVE  Enters(b, Size2binidx(memsize[b]))
<1>1. memsize[b] \in 1 .. 2 * MaxSize - 1
  BY Sizes, BinAssumption, SlackAssumption
     DEF IInv, BlocksTyped, BlocksOK, BlockOK, Stored, Cacheable, Requests
<1>2. Size2binidx(memsize[b]) \in Bins
  BY <1>1, HasBin
<1> QED
  BY <1>2 DEF IInv, BlocksTyped, Stored, Put, Enters, Cached

LEMMA QuietSame ==
  ASSUME Quiet
  PROVE  Cached' = Cached /\ UNCHANGED <<size, lastUsed, freeInCache>>
BY DEF Quiet, Cached

\* A step is one of these.
LEMMA Moves ==
  ASSUME IInv, [Next]_vars
  PROVE  \/ \E b \in Blocks : Leaves(b)
         \/ \E b \in Blocks, j \in Bins : Enters(b, j)
         \/ Quiet
<1>1. ASSUME NEW j \in Bins, Taken(j) PROVE \E b \in Blocks : Leaves(b)
  BY <1>1, TakenLeaves DEF Leaves, Cached
<1>2. ASSUME NEW b \in Blocks, Stored(b) PROVE \E j \in Bins : Enters(b, j)
  BY <1>2, StoredEnters DEF Enters
<1>3. CASE RemoveOldest
  BY <1>3, RemovedLeaves DEF Leaves, Cached
<1> QED
  BY <1>1, <1>2, <1>3, NextStep

\* freeInCache is the space in the bins.
SpaceCounted == freeInCache = Total(size, Cached)

LEMMA SpaceStep ==
  ASSUME IInv, SpaceCounted, [Next]_vars
  PROVE  SpaceCounted'
<1>1. ASSUME NEW b \in Blocks, Leaves(b) PROVE SpaceCounted'
  <2>1. Total(size, Cached) = size[b] + Total(size, Cached \ {b})
    BY <1>1, CachedFinite, TotalRemove DEF Leaves
  <2>2. IsFiniteSet(Cached \ {b}) /\ \A x \in Cached \ {b} : size[x] \in Nat
    BY CachedFinite, FS_RemoveElement
  <2>3. Total(size, Cached \ {b}) \in Nat
    BY <2>2, TotalType
  <2>4. Total(size, Cached \ {b}) = Total(size', Cached \ {b})
    BY <1>1, <2>2, CachedFinite, TotalSame DEF Leaves
  <2>5. size[b] \in Nat
    BY <1>1, CachedFinite DEF Leaves
  <2> QED
    BY <1>1, <2>1, <2>3, <2>4, <2>5 DEF SpaceCounted, Leaves
<1>2. ASSUME NEW b \in Blocks, NEW j \in Bins, Enters(b, j) PROVE SpaceCounted'
  <2>1. IsFiniteSet(Cached) /\ b \notin Cached /\ 2 ^ j \in Nat
    BY <1>2, CachedFinite, Sizes DEF Enters
  <2>2. IsFiniteSet(Cached \cup {b}) /\ (Cached \cup {b}) \ {b} = Cached
    BY <2>1, FS_AddElement
  <2>3. \A x \in Cached \cup {b} : size'[x] \in Nat
    BY <1>2, <2>1, CachedFinite DEF Enters
  <2>4. Total(size', Cached \cup {b}) = size'[b] + Total(size', Cached)
    BY <2>2, <2>3, TotalRemove
  <2>5. Total(size, Cached) = Total(size', Cached)
    BY <1>2, <2>1, CachedFinite, TotalSame DEF Enters
  <2>6. Total(size, Cached) \in Nat
    BY CachedFinite, TotalType
  <2> QED
    BY <1>2, <2>1, <2>4, <2>5, <2>6 DEF SpaceCounted, Enters
<1>3. CASE Quiet
  BY <1>3, QuietSame DEF SpaceCounted
<1> QED
  BY <1>1, <1>2, <1>3, Moves

LEMMA SpaceInvariance == Spec => []SpaceCounted
<1>1. Init => SpaceCounted
  <2> SUFFICES ASSUME Init PROVE SpaceCounted
    OBVIOUS
  <2>1. Cached = {}
    BY DEF Init, Cached
  <2>2. Total(size, Cached) = 0
    BY <2>1, InitInvariant, CachedFinite, TotalType
  <2> QED
    BY <2>2 DEF Init, SpaceCounted
<1>2. IInv /\ SpaceCounted /\ [Next]_vars => SpaceCounted'
  BY SpaceStep
<1> QED
  BY <1>1, <1>2, Invariance, PTL DEF Spec

\* freeInCache, which decides when space is given back, is the space that is in
\* the bins, although it is counted up and down with rounded sizes.
THEOREM SpaceIsCounted == Spec => []FreeSpaceCounted
<1>1. SpaceCounted => FreeSpaceCounted
  BY DEF SpaceCounted, FreeSpaceCounted, MapThenSumSet, MapThenFoldSet, Total, Sums, First
<1> QED
  BY <1>1, SpaceInvariance, PTL

\* Every variable keeps its type; freeInCache, an unsigned number, does not
\* fall below zero.
THEOREM TypeCorrect == Spec => []TypeOK
<1>1. IInv /\ SpaceCounted => TypeOK
  <2> SUFFICES ASSUME IInv, SpaceCounted PROVE TypeOK
    OBVIOUS
  <2>1. freeInCache \in Nat
    BY CachedFinite, TotalType DEF SpaceCounted
  <2> QED
    BY <2>1 DEF IInv, BlocksTyped, LoopTyped, LinksTyped, TypeOK
<1> QED
  BY <1>1, SpaceInvariance, Invariance, PTL

------------------------------------------------------------------------------
\* The lists as sequences

\* L[i] has the blocks of bin i in the order in which next leads from the newest
\* to the oldest.
Lists(L) ==
  /\ L \in [Bins -> Seq(Blocks)]
  /\ \A i \in Bins : Path(next, head[i], L[i])
  /\ \A i \in Bins, b \in Blocks : On(b, L[i]) <=> In(b, i)

LEMMA InLeaves ==
  ASSUME NEW b \in Blocks, Leaves(b)
  PROVE  \A x \in Blocks, i \in Bins : In(x, i)' <=> In(x, i) /\ x # b
BY DEF Leaves, Cached, In

LEMMA InEnters ==
  ASSUME NEW b \in Blocks, NEW j \in Bins, Enters(b, j)
  PROVE  \A x \in Blocks, i \in Bins : In(x, i)' <=> IF x = b THEN i = j ELSE In(x, i)
BY PowersDiffer DEF Enters, Cached, In

\* A bin that a step does not concern: what is in it is linked as before.
LEMMA OtherList ==
  ASSUME IInv, NEW L, Lists(L), NEW i \in Bins, head'[i] = head[i],
         \A x \in Blocks : In(x, i) => next'[x] = next[x],
         \A x \in Blocks : In(x, i)' <=> In(x, i)
  PROVE  /\ Path(next', head'[i], L[i])
         /\ \A b \in Blocks : On(b, L[i]) <=> In(b, i)'
<1>1. Path(next, head[i], L[i]) /\ \A b \in Blocks : On(b, L[i]) <=> In(b, i)
  BY DEF Lists
<1>2. \A k \in 1 .. Len(L[i]) : next'[L[i][k]] = next[L[i][k]]
  BY <1>1, PathTyped DEF On
<1> QED
  BY <1>1, <1>2, PathSame

LEMMA ListTaken ==
  ASSUME IInv, NEW L, Lists(L), NEW j \in Bins, Taken(j)
  PROVE  L[j] # <<>> /\ Lists([L EXCEPT ![j] = Tail(L[j])])'
<1> DEFINE b == head[j]
<1>1. b \in Blocks /\ Leaves(b) /\ In(b, j) /\ \A i \in Bins \ {j} : ~ In(b, i)
  BY TakenLeaves, OneBin DEF Taken
<1>2. /\ head' = [head EXCEPT ![j] = next[b]]
      /\ next' = [next EXCEPT ![b] = Null]
  BY DEF Taken, TakeHead
<1>3. Path(next, b, L[j]) /\ L[j] # <<>> /\ L[j] \in Seq(Blocks)
  BY <1>1, PathTyped, NullAssumption DEF Lists
<1>4. \A k \in 2 .. Len(L[j]) : next'[L[j][k]] = next[L[j][k]]
  <2> SUFFICES ASSUME NEW k \in 2 .. Len(L[j]) PROVE next'[L[j][k]] = next[L[j][k]]
    OBVIOUS
  <2>1. k \in 1 .. Len(L[j]) /\ 1 \in 1 .. Len(L[j]) /\ k # 1
    BY <1>3, PathTyped
  <2>2. L[j][k] \in Blocks /\ L[j][k] # b
    BY <1>3, <2>1, PathTyped DEF Path
  <2> QED
    BY <1>2, <2>2 DEF IInv, LinksTyped
<1>5. /\ Path(next', next[b], Tail(L[j]))
      /\ \A x \in Blocks : On(x, Tail(L[j])) <=> On(x, L[j]) /\ x # b
  BY <1>3, <1>4, PathTail
<1>6. head'[j] = next[b]
  BY <1>2 DEF IInv, LinksTyped
<1> DEFINE M == [L EXCEPT ![j] = Tail(L[j])]
<1>7. ASSUME NEW i \in Bins
      PROVE  /\ M[i] \in Seq(Blocks) /\ Path(next', head'[i], M[i])
             /\ \A x \in Blocks : On(x, M[i]) <=> In(x, i)'
  <2>1. CASE i = j
    <3>1. M[i] = Tail(L[j]) /\ M[i] \in Seq(Blocks)
      BY <1>3, <2>1, HeadTailProperties DEF Lists
    <3>2. \A x \in Blocks : On(x, L[j]) <=> In(x, j)
      BY DEF Lists
    <3> QED
      BY <1>1, <1>5, <1>6, <2>1, <3>1, <3>2, InLeaves
  <2>2. CASE i # j
    <3>1. M[i] = L[i] /\ M[i] \in Seq(Blocks) /\ head'[i] = head[i]
      BY <1>2, <2>2 DEF Lists, IInv, LinksTyped
    <3>2. \A x \in Blocks : In(x, i) => next'[x] = next[x]
      BY <1>1, <1>2, <2>2 DEF IInv, LinksTyped
    <3>3. \A x \in Blocks : In(x, i)' <=> In(x, i)
      BY <1>1, <2>2, InLeaves
    <3> QED
      BY <3>1, <3>2, <3>3, OtherList
  <2> QED
    BY <2>1, <2>2
<1>8. M \in [Bins -> Seq(Blocks)]
  BY <1>7 DEF Lists
<1> HIDE DEF M
<1>9. Lists(M)'
  BY <1>7, <1>8 DEF Lists
<1> QED
  BY <1>3, <1>9 DEF M

LEMMA ListStored ==
  ASSUME IInv, NEW L, Lists(L), NEW b \in Blocks, Stored(b)
  PROVE  \E j \in Bins : /\ j = Size2binidx(memsize[b]) /\ ~ On(b, L[j])
                          /\ Lists([L EXCEPT ![j] = <<b>> \o L[j]])'
<1>1. PICK j \in Bins :
        /\ j = Size2binidx(memsize[b]) /\ Enters(b, j)
        /\ head' = [head EXCEPT ![j] = b] /\ next' = [next EXCEPT ![b] = head[j]]
  BY StoredEnters DEF Enters, Stored, Put
<1>2. \A i \in Bins : ~ In(b, i)
  BY <1>1 DEF Enters, Cached, In
<1>3. /\ Path(next, head[j], L[j]) /\ L[j] \in Seq(Blocks)
      /\ \A x \in Blocks : On(x, L[j]) <=> In(x, j)
  BY <1>1 DEF Lists
<1>4. ~ On(b, L[j])
  BY <1>1, <1>2, <1>3
<1>5. next'[b] = head[j] /\ head'[j] = b /\ \A x \in Blocks \ {b} : next'[x] = next[x]
  BY <1>1 DEF IInv, LinksTyped
<1>6. \A k \in 1 .. Len(L[j]) : next'[L[j][k]] = next[L[j][k]]
  BY <1>3, <1>4, <1>5, PathTyped DEF On
<1>7. /\ Path(next', b, <<b>> \o L[j])
      /\ \A x \in Blocks : On(x, <<b>> \o L[j]) <=> On(x, L[j]) \/ x = b
  BY <1>3, <1>4, <1>5, <1>6, PathCons
<1> DEFINE M == [L EXCEPT ![j] = <<b>> \o L[j]]
<1>8. ASSUME NEW i \in Bins
      PROVE  /\ M[i] \in Seq(Blocks) /\ Path(next', head'[i], M[i])
             /\ \A x \in Blocks : On(x, M[i]) <=> In(x, i)'
  <2>1. CASE i = j
    <3>1. M[i] = <<b>> \o L[j]
      BY <1>1, <2>1 DEF Lists
    <3>2. M[i] \in Seq(Blocks)
      BY <1>7, <3>1 DEF Path
    <3> HIDE DEF M
    <3> QED
      BY <1>1, <1>3, <1>5, <1>7, <2>1, <3>1, <3>2, InEnters
  <2>2. CASE i # j
    <3>1. M[i] = L[i] /\ M[i] \in Seq(Blocks) /\ head'[i] = head[i]
      BY <1>1, <2>2 DEF Lists, IInv, LinksTyped
    <3> HIDE DEF M
    <3>2. \A x \in Blocks : In(x, i) => next'[x] = next[x]
      BY <1>2, <1>5
    <3>3. \A x \in Blocks : In(x, i)' <=> In(x, i)
      BY <1>1, <1>2, <2>2, InEnters
    <3> QED
      BY <3>1, <3>2, <3>3, OtherList
  <2> QED
    BY <2>1, <2>2
<1>9. M \in [Bins -> Seq(Blocks)]
  BY <1>8 DEF Lists
<1> HIDE DEF M
<1>10. Lists(M)'
  BY <1>8, <1>9 DEF Lists
<1> QED
  BY <1>1, <1>4, <1>10 DEF M

LEMMA ListRemoved ==
  ASSUME IInv, NEW L, Lists(L), RemoveOldest
  PROVE  \E j \in Bins : /\ j = bin /\ L[j] # <<>>
                          /\ Lists([L EXCEPT ![j] = SubSeq(L[j], 1, Len(L[j]) - 1)])'
<1>1. PICK j \in Bins : j = bin
  BY RemovedLeaves
<1>2. PICK b \in Blocks : b = tail[j] /\ Leaves(b) /\ In(b, j)
  BY <1>1, RemovedLeaves, RemovedPreserves
<1>3. next[b] = Null /\ \A i \in Bins \ {j} : ~ In(b, i)
  BY <1>2, OneBin DEF IInv, Links
<1>4. PICK seq \in Seq(Blocks) :
        /\ seq = L[j] /\ Path(next, head[j], seq)
        /\ \A x \in Blocks : On(x, seq) <=> In(x, j)
  BY DEF Lists
<1>5a. PICK n \in Nat : n = Len(seq)
  BY <1>4, PathTyped
<1>5. /\ \A k \in 1 .. n : seq[k] \in Blocks
      /\ \A k, m \in 1 .. n : seq[k] = seq[m] => k = m
      /\ \A k \in 1 .. n : next[seq[k]] = IF k = n THEN Null ELSE seq[k + 1]
      /\ \A k \in 1 .. n : k # n => k + 1 \in 1 .. n
  <2>1. \A k \in 1 .. n : k # n => k + 1 \in 1 .. n
    OBVIOUS
  <2> QED
    BY <1>4, <1>5a, <2>1, PathTyped DEF Path
<1>6. n \in 1 .. n /\ 1 \in 1 .. n /\ seq[n] = b /\ seq # <<>> /\ head[j] = seq[1]
  <2>1. PICK k \in 1 .. n : seq[k] = b
    BY <1>2, <1>4, <1>5a DEF On
  <2>2. k = n
    BY <1>3, <1>5, <2>1, NullAssumption
  <2>3. n \in 1 .. n /\ 1 \in 1 .. n
    BY <1>5, <2>1
  <2>4. seq # <<>> /\ head[j] = seq[1]
    BY <1>4, <1>5a, <2>3, EmptySeq DEF Path
  <2> QED
    BY <2>1, <2>2, <2>3, <2>4
<1>7. /\ prev[b] = Null <=> n = 1
      /\ n # 1 => n - 1 \in 1 .. n /\ prev[b] = seq[n - 1] /\ prev[b] \in Blocks
  <2>1. CASE n = 1
    BY <1>2, <1>6, <2>1 DEF IInv, Links
  <2>2. CASE n # 1
    <3>1. n - 1 \in 1 .. n /\ n - 1 # n /\ (n - 1) + 1 = n
      BY <1>5, <1>6, <2>2
    <3>2. next[seq[n - 1]] = b /\ seq[n - 1] \in Blocks
      BY <1>5, <1>6, <3>1
    <3>3. prev[b] = seq[n - 1]
      BY <3>2 DEF IInv, Links
    <3> QED
      BY <2>2, <3>1, <3>2, <3>3, NullAssumption
  <2> QED
    BY <2>1, <2>2
<1>8. /\ n = 1 => head' = [head EXCEPT ![j] = Null] /\ UNCHANGED next
      /\ n # 1 => UNCHANGED head /\ next' = [next EXCEPT ![seq[n - 1]] = Null]
  BY <1>1, <1>2, <1>7, NullAssumption DEF RemoveOldest
<1>9. \A k \in 1 .. n - 1 :
         next'[seq[k]] = IF k = n - 1 THEN Null ELSE next[seq[k]]
  <2> SUFFICES ASSUME NEW k \in 1 .. n - 1
               PROVE  next'[seq[k]] = IF k = n - 1 THEN Null ELSE next[seq[k]]
    OBVIOUS
  <2>1. n # 1 /\ k \in 1 .. n /\ n - 1 \in 1 .. n
    BY <1>5
  <2>2. seq[k] \in Blocks /\ (k # n - 1 => seq[k] # seq[n - 1])
    BY <1>5, <2>1
  <2> QED
    BY <1>8, <2>1, <2>2 DEF IInv, LinksTyped
<1>10. head'[j] = IF n = 1 THEN Null ELSE head[j]
  BY <1>8 DEF IInv, LinksTyped
<1>11. /\ Path(next', head'[j], SubSeq(seq, 1, n - 1))
       /\ \A x \in Blocks : On(x, SubSeq(seq, 1, n - 1)) <=> On(x, seq) /\ x # b
  <2>1. Cut(next, head[j], seq, next', head'[j])
    BY <1>5a, <1>9, <1>10 DEF Cut
  <2>2. /\ Path(next', head'[j], SubSeq(seq, 1, Len(seq) - 1))
        /\ \A x \in Blocks : On(x, SubSeq(seq, 1, Len(seq) - 1))
                               <=> On(x, seq) /\ x # seq[Len(seq)]
    BY <1>4, <1>6, <2>1, PathFront
  <2> QED
    BY <1>5a, <1>6, <2>2
<1> DEFINE M == [L EXCEPT ![j] = SubSeq(seq, 1, n - 1)]
<1>12. ASSUME NEW i \in Bins
       PROVE  /\ M[i] \in Seq(Blocks) /\ Path(next', head'[i], M[i])
              /\ \A x \in Blocks : On(x, M[i]) <=> In(x, i)'
  <2>1. CASE i = j
    <3>1. M[i] = SubSeq(seq, 1, n - 1)
      BY <2>1 DEF Lists
    <3>2. M[i] \in Seq(Blocks)
      BY <1>11, <3>1 DEF Path
    <3> HIDE DEF M
    <3> QED
      BY <1>2, <1>4, <1>11, <2>1, <3>1, <3>2, InLeaves
  <2>2. CASE i # j
    <3>1. M[i] = L[i] /\ M[i] \in Seq(Blocks)
      BY <2>2 DEF Lists
    <3> HIDE DEF M
    <3>2. head'[i] = head[i]
      BY <1>8, <2>2 DEF IInv, LinksTyped
    <3>3. \A x \in Blocks : In(x, i) => next'[x] = next[x]
      <4>1. n # 1 => ~ In(seq[n - 1], i)
        <5>1. n # 1 => On(seq[n - 1], seq) /\ seq[n - 1] \in Blocks
          BY <1>5, <1>5a, <1>7 DEF On
        <5> QED
          BY <1>4, <2>2, <5>1, OneBin
      <4> QED
        BY <1>8, <4>1 DEF IInv, LinksTyped
    <3>4. \A x \in Blocks : In(x, i)' <=> In(x, i)
      BY <1>2, <1>3, <2>2, InLeaves
    <3> QED
      BY <3>1, <3>2, <3>3, <3>4, OtherList
  <2> QED
    BY <2>1, <2>2
<1>13. M \in [Bins -> Seq(Blocks)]
  BY <1>12 DEF Lists
<1> HIDE DEF M
<1>14. Lists(M)'
  BY <1>12, <1>13 DEF Lists
<1> QED
  BY <1>1, <1>4, <1>5a, <1>6, <1>14 DEF M

\* What a step may do to the list of a bin.
ListStep(seq, new) ==
  \/ new = seq
  \/ seq # <<>> /\ new = Tail(seq)
  \/ seq # <<>> /\ new = SubSeq(seq, 1, Len(seq) - 1)
  \/ \E b \in Blocks : ~ On(b, seq) /\ new = <<b>> \o seq

LEMMA ListsStep ==
  ASSUME IInv, NEW L, Lists(L), [Next]_vars
  PROVE  \E M : Lists(M)' /\ \A i \in Bins : ListStep(L[i], M[i])
<1>0. DOMAIN L = Bins
  BY DEF Lists
<1>1. ASSUME NEW j \in Bins, Taken(j)
      PROVE  \E M : Lists(M)' /\ \A i \in Bins : ListStep(L[i], M[i])
  <2> DEFINE M == [L EXCEPT ![j] = Tail(L[j])]
  <2>1. L[j] # <<>> /\ Lists(M)'
    BY <1>1, ListTaken
  <2>2. \A i \in Bins : ListStep(L[i], M[i])
    BY <1>0, <2>1 DEF ListStep
  <2> QED
    BY <2>1, <2>2
<1>2. ASSUME NEW b \in Blocks, Stored(b)
      PROVE  \E M : Lists(M)' /\ \A i \in Bins : ListStep(L[i], M[i])
  <2>1. PICK j \in Bins : ~ On(b, L[j]) /\ Lists([L EXCEPT ![j] = <<b>> \o L[j]])'
    BY <1>2, ListStored
  <2> DEFINE M == [L EXCEPT ![j] = <<b>> \o L[j]]
  <2>2. \A i \in Bins : ListStep(L[i], M[i])
    BY <1>0, <2>1 DEF ListStep
  <2> QED
    BY <2>1, <2>2
<1>3. CASE RemoveOldest
  <2>1. PICK j \in Bins :
          L[j] # <<>> /\ Lists([L EXCEPT ![j] = SubSeq(L[j], 1, Len(L[j]) - 1)])'
    BY <1>3, ListRemoved
  <2> DEFINE M == [L EXCEPT ![j] = SubSeq(L[j], 1, Len(L[j]) - 1)]
  <2>2. \A i \in Bins : ListStep(L[i], M[i])
    BY <1>0, <2>1 DEF ListStep
  <2> QED
    BY <2>1, <2>2
<1>4. CASE Quiet
  <2>1. UNCHANGED <<head, next>> /\ \A x \in Blocks, i \in Bins : In(x, i)' <=> In(x, i)
    BY <1>4 DEF Quiet, In
  <2>2. Lists(L)'
    BY <2>1 DEF Lists
  <2> QED
    BY <2>2 DEF ListStep
<1> QED
  BY <1>1, <1>2, <1>3, <1>4, NextStep

HasLists == \E L : Lists(L)

LEMMA InitLists ==
  ASSUME Init
  PROVE  Lists([i \in Bins |-> <<>>])
<1>1. \A b \in Blocks, i \in Bins : ~ In(b, i)
  BY DEF Init, In
<1>2. <<>> \in Seq(Blocks) /\ Len(<<>>) = 0
  BY EmptySeq
<1>3. \A i \in Bins : Path(next, head[i], <<>>)
  BY <1>2 DEF Init, Path
<1>4. \A b \in Blocks : ~ On(b, <<>>)
  BY <1>2 DEF On
<1> QED
  BY <1>1, <1>2, <1>3, <1>4 DEF Lists

LEMMA ListsInvariance == Spec => []HasLists
<1>1. Init => HasLists
  BY InitLists DEF HasLists
<1>2. IInv /\ HasLists /\ [Next]_vars => HasLists'
  BY ListsStep DEF HasLists
<1> QED
  BY <1>1, <1>2, Invariance, PTL DEF Spec

LEMMA ListedIs ==
  ASSUME NEW L, Lists(L), NEW i \in Bins
  PROVE  Listed(i) = L[i]
BY AlongPath DEF Lists, Listed

\* For the links of the next state.
LEMMA ListedIsNext ==
  ASSUME NEW L, Lists(L)', NEW i \in Bins
  PROVE  Listed(i)' = L[i]
BY AlongPath DEF Lists, Listed

\* RemoveCacheEntries, along prev, comes to the same blocks the other way around.
LEMMA Backwards ==
  ASSUME IInv, NEW L, Lists(L), NEW i \in Bins
  PROVE  Reverse(Along(prev, tail[i])) = L[i]
<1>1. PICK seq : seq = L[i] /\ Path(next, head[i], seq)
  BY DEF Lists
<1>2. /\ Len(seq) \in Nat /\ \A k \in 1 .. Len(seq) : seq[k] \in Blocks
      /\ seq = <<>> <=> head[i] = Null
      /\ seq # <<>> => head[i] = seq[1] /\ 1 \in 1 .. Len(seq) /\ Len(seq) \in 1 .. Len(seq)
  BY <1>1, PathTyped
<1>3. tail[i] = IF seq = <<>> THEN Null ELSE seq[Len(seq)]
  <2>1. CASE seq = <<>>
    BY <1>2, <2>1 DEF IInv, Links
  <2>2. CASE seq # <<>>
    <3>1. /\ Len(seq) \in 1 .. Len(seq) /\ seq[Len(seq)] \in Blocks
          /\ next[seq[Len(seq)]] = Null /\ On(seq[Len(seq)], seq)
      BY <1>1, <1>2, <2>2 DEF Path, On
    <3>2. In(seq[Len(seq)], i)
      BY <1>1, <3>1 DEF Lists
    <3> QED
      BY <2>2, <3>1, <3>2 DEF IInv, Links
  <2> QED
    BY <2>1, <2>2
<1>4. ASSUME NEW k \in 1 .. Len(seq)
      PROVE  prev[seq[k]] = IF k = 1 THEN Null ELSE seq[k - 1]
  <2>1. CASE k = 1
    <3>1. seq # <<>>
      BY <2>1, EmptySeq
    <3>2. head[i] = seq[k] /\ seq[k] \in Blocks
      BY <1>2, <2>1, <3>1
    <3> QED
      BY <2>1, <3>2 DEF IInv, Links
  <2>2. CASE k # 1
    <3>1. k - 1 \in 1 .. Len(seq) /\ k - 1 # Len(seq) /\ (k - 1) + 1 = k
      BY <1>2, <2>2
    <3>2. next[seq[k - 1]] = seq[k] /\ seq[k - 1] \in Blocks /\ seq[k] \in Blocks
      BY <1>1, <1>2, <3>1 DEF Path
    <3> QED
      BY <2>2, <3>2 DEF IInv, Links
  <2> QED
    BY <2>1, <2>2
<1>5. Path(prev, tail[i], Reverse(seq)) /\ Reverse(Reverse(seq)) = seq
  BY <1>1, <1>3, <1>4, PathReversed
<1>6. Along(prev, tail[i]) = Reverse(seq)
  BY <1>5, AlongPath
<1> QED
  BY <1>1, <1>5, <1>6

LEMMA ReadBothWays ==
  ASSUME IInv, NEW L, Lists(L)
  PROVE  ReadsBackwards
<1>1. \A i \in Bins : Reverse(Along(prev, tail[i])) = Listed(i)
  BY Backwards, ListedIs
<1>2. ASSUME NEW b \in Blocks
      PROVE  Cardinality({i \in Bins : b \in Range(Listed(i))})
               = IF b \in Cached THEN 1 ELSE 0
  <2>1. ASSUME NEW i \in Bins PROVE b \in Range(Listed(i)) <=> In(b, i)
    <3>1. Listed(i) = L[i] /\ L[i] \in Seq(Blocks) /\ (On(b, L[i]) <=> In(b, i))
      BY ListedIs DEF Lists
    <3>2. Range(L[i]) = {L[i][k] : k \in 1 .. Len(L[i])}
      BY <3>1, RangeEquality
    <3> QED
      BY <3>1, <3>2 DEF On
  <2>2. {i \in Bins : b \in Range(Listed(i))} = {i \in Bins : In(b, i)}
    BY <2>1
  <2>3. CASE b \in Cached
    <3>1. PICK j \in Bins : In(b, j)
      BY <2>3 DEF IInv, BlocksOK, BlockOK, Cached, In
    <3>2. {i \in Bins : In(b, i)} = {j}
      BY <3>1, OneBin
    <3> QED
      BY <2>2, <2>3, <3>2, FS_Singleton
  <2>4. CASE b \notin Cached
    <3>1. {i \in Bins : In(b, i)} = {}
      BY <2>4 DEF Cached, In
    <3> QED
      BY <2>2, <2>4, <3>1, FS_EmptySet
  <2> QED
    BY <2>3, <2>4
<1> QED
  BY <1>1, <1>2 DEF ReadsBackwards

\* The lists that threadcache_malloc reads from the newest block and
\* RemoveCacheEntries from the oldest are the same, no block is in two of them or
\* twice in one, and freeInCache is the space of the blocks that are in them.
THEOREM Consistent == Spec => []CacheConsistent
<1>1. IInv /\ HasLists => ReadsBackwards
  BY ReadBothWays DEF HasLists
<1>2. Spec => []ReadsBackwards
  BY <1>1, Invariance, ListsInvariance, PTL
<1>3. TypeOK /\ ReadsBackwards /\ FreeSpaceCounted => CacheConsistent
  BY DEF CacheConsistent
<1> QED
  BY <1>2, <1>3, TypeCorrect, SpaceIsCounted, PTL

LEMMA ListImplements ==
  ASSUME IInv, HasLists, [Next]_vars, NEW i \in Bins
  PROVE  Forwards(i)!Next \/ UNCHANGED Listed(i)
<1>1. PICK L : Lists(L)
  BY DEF HasLists
<1>2. PICK M : Lists(M)' /\ ListStep(L[i], M[i])
  BY <1>1, ListsStep
<1>3. Listed(i) = L[i] /\ Listed(i)' = M[i] /\ L[i] \in Seq(Blocks)
  BY <1>1, <1>2, ListedIs, ListedIsNext DEF Lists
<1>4. ASSUME NEW b \in Blocks, ~ On(b, L[i]), M[i] = <<b>> \o L[i]
      PROVE  Forwards(i)!Next
  <2>1. DOMAIN L[i] = 1 .. Len(L[i])
    BY <1>3, LenProperties
  <2>2. \A n \in DOMAIN Listed(i) : Listed(i)[n] # b
    BY <1>3, <1>4, <2>1 DEF On
  <2>3. Listed(i)' = <<b>> \o Listed(i)
    BY <1>3, <1>4
  <2> QED
    BY <2>2, <2>3 DEF Forwards!Next, Forwards!Put
<1>5. ASSUME L[i] # <<>>, M[i] = Tail(L[i])
      PROVE  Forwards(i)!Next
  BY <1>3, <1>5 DEF Forwards!Next, Forwards!TakeNewest
<1>6. ASSUME L[i] # <<>>, M[i] = SubSeq(L[i], 1, Len(L[i]) - 1)
      PROVE  Forwards(i)!Next
  BY <1>3, <1>6 DEF Forwards!Next, Forwards!RemoveOldest
<1> QED
  BY <1>2, <1>3, <1>4, <1>5, <1>6 DEF ListStep

\* The links of all the blocks, set one by one by three functions, work in every
\* bin as what CacheBin promises: a block is put in front, the newest one is
\* taken, and space is given back from the oldest, in the order of the frees.
THEOREM Refinement == Spec => ImplementsBins
<1>1. Init => \A i \in Bins : Forwards(i)!Init
  <2> SUFFICES ASSUME Init, NEW i \in Bins PROVE Forwards(i)!Init
    OBVIOUS
  <2>1. Listed(i) = <<>>
    BY InitLists, ListedIs
  <2> QED
    BY <2>1 DEF Forwards!Init
<1>2. IInv /\ HasLists /\ [Next]_vars
        => [\A i \in Bins : Forwards(i)!Next \/ UNCHANGED Listed(i)]_vars
  BY ListImplements
<1> QED
  BY <1>1, <1>2, Invariance, ListsInvariance, PTL DEF Spec, ImplementsBins

------------------------------------------------------------------------------
\* Ages

\* Until a block has stayed for as long as the counter takes to wrap, its age is
\* the number of calls it has waited.
AgesCounted ==
  \A b \in Cached :
    waited[b] < FreesModulus => (frees - lastUsed[b]) % FreesModulus = waited[b]

\* The blocks of a bin are ever older along next.
OlderBehind == \A b, c \in Blocks : next[b] = c => waited[b] <= waited[c]

\* Only the block that was freed last has not waited at all.
OneNew == \A b, c \in Cached : waited[b] = 0 /\ waited[c] = 0 => b = c

Ages == AgesCounted /\ OlderBehind /\ OneNew

LEMMA CountedUp ==
  ASSUME IInv, CountFree
  PROVE  /\ frees' = IF frees + 1 = FreesModulus THEN 0 ELSE frees + 1
         /\ \A b \in Cached :
              waited'[b] = IF waited[b] < FreesModulus THEN waited[b] + 1 ELSE FreesModulus
         /\ \A b \in Blocks \ Cached : waited'[b] = 0
<1>1. frees \in 0 .. FreesModulus - 1 /\ FreesModulus \in Nat \ {0}
  BY AgeAssumption DEF IInv, LoopTyped
<1>2. frees' = IF frees + 1 = FreesModulus THEN 0 ELSE frees + 1
  BY <1>1 DEF CountFree
<1>3. \A n \in Nat : Min({n, FreesModulus}) = IF n <= FreesModulus THEN n ELSE FreesModulus
  BY AgeAssumption DEF Min
<1>4. ASSUME NEW b \in Cached
      PROVE  waited'[b] = IF waited[b] < FreesModulus THEN waited[b] + 1 ELSE FreesModulus
  <2>1. waited[b] \in 0 .. FreesModulus /\ b \in Blocks
    BY DEF IInv, BlocksTyped, Cached
  <2>2. waited'[b] = Min({waited[b] + 1, FreesModulus})
    BY <2>1 DEF CountFree
  <2> QED
    BY <1>1, <1>3, <2>1, <2>2
<1> QED
  BY <1>2, <1>4 DEF CountFree

\* One more call makes the difference of the counters larger by one.
LEMMA Difference ==
  ASSUME NEW M \in Nat \ {0}, NEW f \in 0 .. M - 1, NEW u \in 0 .. M - 1,
         NEW f2, f2 = IF f + 1 = M THEN 0 ELSE f + 1, ((f - u) % M) + 1 < M
  PROVE  (f2 - u) % M = ((f - u) % M) + 1
<1>1. \A x \in 0 .. M - 1 : x % M = x
  OBVIOUS
<1>2. \A x \in 0 - M .. 0 - 1 : x % M = x + M
  OBVIOUS
<1>3. CASE u <= f
  <2>1. (f - u) % M = f - u
    BY <1>1, <1>3
  <2>2. CASE f + 1 = M
    <3>1. f2 - u \in 0 - M .. 0 - 1 /\ (f2 - u) + M = (f - u) + 1
      BY <1>3, <2>1, <2>2
    <3> QED
      BY <1>2, <2>1, <3>1
  <2>3. CASE f + 1 # M
    <3>1. f2 - u \in 0 .. M - 1 /\ f2 - u = (f - u) + 1
      BY <1>3, <2>1, <2>3
    <3> QED
      BY <1>1, <2>1, <3>1
  <2> QED
    BY <2>2, <2>3
<1>4. CASE ~ (u <= f)
  <2>1. (f - u) % M = (f - u) + M
    BY <1>2, <1>4
  <2>2. f2 = f + 1 /\ f2 - u \in 0 - M .. 0 - 1
    BY <1>4, <2>1
  <2> QED
    BY <1>2, <2>1, <2>2
<1> QED
  BY <1>3, <1>4

\* What a block that leaves the cache leaves behind.
LEMMA LinkedStay ==
  ASSUME IInv, NEW b \in Blocks, Leaves(b), Links', NEW c \in Pointers,
         next' = next \/ next' = [next EXCEPT ![c] = Null]
  PROVE  \A x, y \in Blocks : next'[x] = y => next[x] = y /\ x # b /\ y # b
<1> SUFFICES ASSUME NEW x \in Blocks, NEW y \in Blocks, next'[x] = y
             PROVE  next[x] = y /\ x # b /\ y # b
  OBVIOUS
<1>1. next[x] = y
  BY NullAssumption DEF IInv, LinksTyped
<1>2. PICK i \in Bins : In(x, i)' /\ In(y, i)'
  BY NullAssumption DEF Links
<1>3. x # b /\ y # b
  BY <1>2, InLeaves
<1> QED
  BY <1>1, <1>3

LEMMA AgesLeave ==
  ASSUME IInv, Ages, NEW b \in Blocks, Leaves(b),
         \A x, y \in Blocks : next'[x] = y => next[x] = y /\ x # b /\ y # b
  PROVE  Ages'
<1>1. \A x \in Cached' : /\ x \in Cached /\ x \in Blocks
                         /\ lastUsed'[x] = lastUsed[x] /\ waited'[x] = waited[x]
  BY DEF Leaves, Cached
<1>2. AgesCounted' /\ OneNew'
  BY <1>1 DEF Ages, AgesCounted, OneNew, Leaves
<1>3. OlderBehind'
  BY DEF Ages, OlderBehind, Leaves
<1> QED
  BY <1>2, <1>3 DEF Ages

LEMMA AgesCount ==
  ASSUME IInv, Ages, CountFree, NEW b \in Cached, lastUsed'[b] = lastUsed[b],
         waited'[b] < FreesModulus
  PROVE  (frees' - lastUsed'[b]) % FreesModulus = waited'[b]
<1>1. /\ frees \in 0 .. FreesModulus - 1 /\ lastUsed[b] \in 0 .. FreesModulus - 1
      /\ FreesModulus \in Nat \ {0} /\ waited[b] \in 0 .. FreesModulus
  BY AgeAssumption DEF IInv, LoopTyped, BlocksTyped, Cached
<1>2. /\ frees' = IF frees + 1 = FreesModulus THEN 0 ELSE frees + 1
      /\ waited'[b] = IF waited[b] < FreesModulus THEN waited[b] + 1 ELSE FreesModulus
  BY CountedUp
<1>3. waited[b] < FreesModulus /\ waited'[b] = waited[b] + 1
  BY <1>1, <1>2
<1>4. (frees - lastUsed[b]) % FreesModulus = waited[b]
  BY <1>3 DEF Ages, AgesCounted
<1>5. ((frees - lastUsed[b]) % FreesModulus) + 1 < FreesModulus
  BY <1>3, <1>4
<1>6. (frees' - lastUsed[b]) % FreesModulus = ((frees - lastUsed[b]) % FreesModulus) + 1
  BY <1>1, <1>2, <1>5, Difference
<1> QED
  BY <1>3, <1>4, <1>6

LEMMA AgesEnter ==
  ASSUME IInv, Ages, NEW b \in Blocks, NEW j \in Bins, Enters(b, j),
         \A x, y \in Blocks : next'[x] = y => next[x] = y \/ x = b
  PROVE  Ages'
<1>1. /\ CountFree /\ b \notin Cached /\ Cached' = Cached \cup {b}
      /\ \A x \in Cached : lastUsed'[x] = lastUsed[x] /\ x \in Blocks
      /\ lastUsed'[b] = frees' /\ waited'[b] = 0
  BY CountedUp DEF Enters, Cached
<1>2. \A x \in Cached : waited[x] \in 0 .. FreesModulus /\ waited'[x] # 0
                         /\ waited'[x] \in 0 .. FreesModulus
  BY <1>1, CountedUp, AgeAssumption DEF IInv, BlocksTyped, Cached
<1>3. AgesCounted'
  <2> SUFFICES ASSUME NEW x \in Cached', waited'[x] < FreesModulus
               PROVE  (frees' - lastUsed'[x]) % FreesModulus = waited'[x]
    BY DEF AgesCounted
  <2>1. CASE x = b
    <3>1. frees' \in 0 .. FreesModulus - 1 /\ frees' - frees' = 0
      BY <1>1, Counted
    <3>2. 0 % FreesModulus = 0
      BY AgeAssumption
    <3> QED
      BY <1>1, <2>1, <3>1, <3>2
  <2>2. CASE x # b
    BY <1>1, <2>2, AgesCount
  <2> QED
    BY <2>1, <2>2
<1>4. OneNew'
  BY <1>1, <1>2 DEF OneNew
<1>5. OlderBehind'
  <2> SUFFICES ASSUME NEW x \in Blocks, NEW y \in Blocks, next'[x] = y
               PROVE  waited'[x] <= waited'[y]
    BY DEF OlderBehind
  <2>1. waited'[y] \in 0 .. FreesModulus
    BY <1>1, Counted
  <2>2. CASE x = b
    BY <1>1, <2>1, <2>2, AgeAssumption
  <2>3. CASE x # b
    <3>1. next[x] = y
      BY <2>3
    <3>2. x \in Cached /\ y \in Cached
      BY <3>1, NullAssumption DEF IInv, Links, In, Cached
    <3>3. waited[x] <= waited[y]
      BY <3>1 DEF Ages, OlderBehind
    <3>4. /\ waited'[x] = IF waited[x] < FreesModulus THEN waited[x] + 1 ELSE FreesModulus
          /\ waited'[y] = IF waited[y] < FreesModulus THEN waited[y] + 1 ELSE FreesModulus
      BY <1>1, <3>2, CountedUp
    <3>5. FreesModulus \in Nat
      BY AgeAssumption
    <3> QED
      BY <1>2, <3>2, <3>3, <3>4, <3>5
  <2> QED
    BY <2>2, <2>3
<1> QED
  BY <1>3, <1>4, <1>5 DEF Ages

LEMMA AgesTrim ==
  ASSUME IInv, Ages, Trim, Quiet
  PROVE  Ages'
<1>1. CountFree /\ Cached' = Cached /\ UNCHANGED <<next, lastUsed>>
  BY QuietSame DEF Trim, Quiet
<1>2. \A x \in Cached : /\ waited[x] \in 0 .. FreesModulus /\ waited'[x] # 0
                        /\ waited'[x] = IF waited[x] < FreesModulus
                                        THEN waited[x] + 1 ELSE FreesModulus
  BY <1>1, CountedUp, AgeAssumption DEF IInv, BlocksTyped, Cached
<1>3. AgesCounted'
  BY <1>1, AgesCount DEF AgesCounted
<1>4. OneNew'
  BY <1>1, <1>2 DEF OneNew
<1>5. OlderBehind'
  <2> SUFFICES ASSUME NEW x \in Blocks, NEW y \in Blocks, next[x] = y
               PROVE  waited'[x] <= waited'[y]
    BY <1>1 DEF OlderBehind
  <2>1. x \in Cached /\ y \in Cached
    BY NullAssumption DEF IInv, Links, In, Cached
  <2>2. waited[x] <= waited[y] /\ FreesModulus \in Nat
    BY AgeAssumption DEF Ages, OlderBehind
  <2> QED
    BY <1>2, <2>1, <2>2
<1> QED
  BY <1>3, <1>4, <1>5 DEF Ages

LEMMA AgesStep ==
  ASSUME IInv, Ages, [Next]_vars
  PROVE  Ages'
<1>1. Links'
  BY NextStep DEF IInv
<1>2. ASSUME NEW j \in Bins, Taken(j) PROVE Ages'
  <2>1. head[j] \in Blocks /\ Leaves(head[j]) /\ next' = [next EXCEPT ![head[j]] = Null]
    BY <1>2, TakenLeaves DEF Taken, TakeHead
  <2>2. \A x, y \in Blocks : next'[x] = y => next[x] = y /\ x # head[j] /\ y # head[j]
    BY <1>1, <2>1, LinkedStay DEF Pointers
  <2> QED
    BY <2>1, <2>2, AgesLeave
<1>3. CASE RemoveOldest
  <2>1. PICK b \in Blocks : b = tail[bin] /\ Leaves(b)
    BY <1>3, RemovedLeaves, RemovedPreserves
  <2>2. /\ prev[b] \in Pointers
        /\ next' = next \/ next' = [next EXCEPT ![prev[b]] = Null]
    BY <1>3, <2>1 DEF RemoveOldest, IInv, LinksTyped
  <2>3. \A x, y \in Blocks : next'[x] = y => next[x] = y /\ x # b /\ y # b
    BY <1>1, <2>1, <2>2, LinkedStay
  <2> QED
    BY <2>1, <2>3, AgesLeave
<1>4. ASSUME NEW b \in Blocks, Stored(b) PROVE Ages'
  <2>1. PICK j \in Bins : Enters(b, j)
    BY <1>4, StoredEnters DEF Enters
  <2>2. \A x, y \in Blocks : next'[x] = y => next[x] = y \/ x = b
    BY <1>4 DEF Stored, Put, IInv, LinksTyped
  <2> QED
    BY <2>1, <2>2, AgesEnter
<1>5. CASE Quiet /\ Trim
  BY <1>5, AgesTrim
<1>6. CASE Quiet /\ UNCHANGED <<frees, waited>>
  <2>1. Cached' = Cached /\ UNCHANGED <<next, lastUsed, frees, waited>>
    BY <1>6, QuietSame DEF Quiet
  <2> QED
    BY <2>1 DEF Ages, AgesCounted, OlderBehind, OneNew
<1> QED
  BY <1>2, <1>3, <1>4, <1>5, <1>6, NextStep

------------------------------------------------------------------------------
\* The passes of RemoveCacheEntries

\* The pass stops in bin i before a block whose counter has wrapped.
Guarded(i) == tail[i] # Null /\ waited[tail[i]] = FreesModulus

\* Nothing of bin i is as old as a, or the pass could not see it.
Young(i, a) == Guarded(i) \/ \A b \in Blocks : In(b, i) => waited[b] < a

\* A pass has been through the bins before bin, and the last pass of a release,
\* for the age 1, through all of them.
PassOK ==
  /\ pc = "remove" => \A i \in 0 .. bin - 1 : Young(i, age)
  /\ pc = "release" /\ release_age = 0 => \A i \in Bins : Young(i, 1)
  /\ pc \in {"idle", "realloc"} => release_age = 0
  /\ pc = "remove" /\ release_age = 0 => age <= 1

\* The oldest block of a bin is the last one.
LEMMA TailIsOldest ==
  ASSUME IInv, HasLists, OlderBehind, NEW i \in Bins, NEW b \in Blocks, In(b, i)
  PROVE  tail[i] \in Blocks /\ In(tail[i], i) /\ waited[b] <= waited[tail[i]]
<1>1. PICK L : Lists(L)
  BY DEF HasLists
<1>2. PICK seq : seq = L[i] /\ Path(next, head[i], seq) /\ On(b, seq)
  BY <1>1 DEF Lists
<1>3. PICK n \in Nat : n = Len(seq)
  BY <1>2, PathTyped
<1>4. /\ \A k \in 1 .. n : seq[k] \in Blocks /\ waited[seq[k]] \in Nat
      /\ \A k \in 1 .. n : next[seq[k]] = IF k = n THEN Null ELSE seq[k + 1]
  <2>1. \A k \in 1 .. n : seq[k] \in Blocks
    BY <1>2, <1>3, PathTyped
  <2>2. \A x \in Blocks : waited[x] \in Nat
    BY AgeAssumption DEF IInv, BlocksTyped
  <2>3. \A k \in 1 .. n : next[seq[k]] = IF k = n THEN Null ELSE seq[k + 1]
    BY <1>2, <1>3 DEF Path
  <2> QED
    BY <2>1, <2>2, <2>3
<1>5. PICK k \in 1 .. n : seq[k] = b
  BY <1>2, <1>3 DEF On
<1>6. n \in 1 .. n
  BY <1>5
<1>7. tail[i] = seq[n] /\ In(seq[n], i)
  <2>1. On(seq[n], seq) /\ seq[n] \in Blocks /\ next[seq[n]] = Null
    BY <1>3, <1>4, <1>6 DEF On
  <2>2. In(seq[n], i)
    BY <1>1, <1>2, <2>1 DEF Lists
  <2> QED
    BY <2>1, <2>2 DEF IInv, Links
<1> DEFINE Bad == {d \in Nat : \E m \in 1 .. n : n - m = d /\ ~ (waited[seq[m]] <= waited[seq[n]])}
<1>8. Bad = {}
  <2> SUFFICES ASSUME Bad # {} PROVE FALSE
    OBVIOUS
  <2>1. PICK d \in Bad : \A c \in Nat : c < d => c \notin Bad
    <3>1. Bad \subseteq Nat
      OBVIOUS
    <3> HIDE DEF Bad
    <3>2. PICK d \in Bad : \A c \in Bad : d <= c
      BY <3>1, LeastNatural
    <3> QED
      BY <3>1, <3>2
  <2>2. PICK m \in 1 .. n : n - m = d /\ ~ (waited[seq[m]] <= waited[seq[n]])
    BY <2>1
  <2>3. m # n
    BY <1>4, <2>2
  <2>4. m + 1 \in 1 .. n /\ n - (m + 1) \in Nat /\ n - (m + 1) < d
    BY <2>2, <2>3
  <2>5. waited[seq[m + 1]] <= waited[seq[n]]
    <3>1. n - (m + 1) \notin Bad
      <4> HIDE DEF Bad
      <4> QED
        BY <2>1, <2>4
    <3> QED
      BY <2>4, <3>1
  <2>6. waited[seq[m]] <= waited[seq[m + 1]]
    BY <1>4, <2>3, <2>4 DEF OlderBehind
  <2> QED
    BY <1>4, <1>6, <2>2, <2>4, <2>5, <2>6
<1>9. waited[b] <= waited[seq[n]]
  <2>1. n - k \in Nat
    OBVIOUS
  <2> QED
    BY <1>5, <1>8, <2>1
<1> QED
  BY <1>4, <1>6, <1>7, <1>9

\* NextBin goes on when nothing is due in the bin.
LEMMA BinDone ==
  ASSUME IInv, HasLists, Ages, ~ OldestDue
  PROVE  Young(bin, age)
<1> SUFFICES ASSUME ~ Guarded(bin), NEW b \in Blocks, In(b, bin)
             PROVE  waited[b] < age
  BY DEF Young
<1>1. bin \in Bins /\ age \in Nat
  BY AgeAssumption DEF IInv, LoopTyped
<1>2. /\ tail[bin] \in Blocks /\ In(tail[bin], bin)
      /\ waited[b] <= waited[tail[bin]]
  BY <1>1, TailIsOldest DEF Ages
<1>3. /\ waited[b] \in 0 .. FreesModulus /\ waited[tail[bin]] \in 0 .. FreesModulus
      /\ FreesModulus \in Nat
  BY <1>2, AgeAssumption DEF IInv, BlocksTyped
<1>4. waited[tail[bin]] < FreesModulus
  BY <1>2, <1>3, NullAssumption DEF Guarded
<1>5. (frees - lastUsed[tail[bin]]) % FreesModulus = waited[tail[bin]]
  BY <1>2, <1>4 DEF Ages, AgesCounted, Cached, In
<1>6. ~ (waited[tail[bin]] >= age)
  BY <1>2, <1>5, NullAssumption DEF OldestDue
<1> QED
  BY <1>1, <1>2, <1>3, <1>6

LEMMA PassStep ==
  ASSUME IInv, HasLists, Ages, PassOK, [Next]_vars
  PROVE  PassOK'
<1>1. CASE Request
  <2>1. pc' \in {"idle", "realloc"} /\ release_age' = release_age /\ pc = "idle"
    BY <1>1 DEF Request, MallocHit, MallocMiss, ReallocNoop, ReallocHit, ReallocMiss, loopVars
  <2> QED
    BY <2>1 DEF PassOK
<1>2. ASSUME NEW b \in Blocks, GiveBack(b), pc \in {"idle", "realloc"} PROVE PassOK'
  <2>1. \/ pc' = "release" /\ release_age' = ReleaseAge
        \/ pc' = "idle" /\ release_age' = 0
        \/ pc' = "idle" /\ release_age' = release_age
    BY <1>2 DEF GiveBack
  <2>2. ReleaseAge # 0
    BY AgeAssumption
  <2> QED
    BY <1>2, <2>1, <2>2 DEF PassOK
<1>3. CASE Trim
  <2>1. /\ pc = "idle" /\ pc' \in {"remove", "idle"} /\ age' = 0 /\ bin' = 0
        /\ release_age' = release_age
    BY <1>3 DEF Trim
  <2>2. 0 .. bin' - 1 = {} /\ age' <= 1
    BY <2>1
  <2> QED
    BY <2>1, <2>2 DEF PassOK
<1>4. CASE ReleaseLoop
  <2>1. CASE release_age > 0 /\ freeInCache >= MaxFree
    <3>1. /\ pc' = "remove" /\ age' = release_age /\ release_age' = release_age \div 2
          /\ bin' = 0
      BY <1>4, <2>1 DEF ReleaseLoop
    <3>2. release_age \in Nat
      BY AgeAssumption DEF IInv, LoopTyped
    <3>3. 0 .. bin' - 1 = {} /\ (release_age' = 0 => age' <= 1)
      BY <3>1, <3>2
    <3> QED
      BY <3>1, <3>3 DEF PassOK
  <2>2. CASE ~ (release_age > 0 /\ freeInCache >= MaxFree)
    BY <1>4, <2>2 DEF ReleaseLoop, PassOK
  <2> QED
    BY <2>1, <2>2
<1>5. CASE RemoveOldest
  <2>1. PICK b \in Blocks : b = tail[bin] /\ Leaves(b) /\ In(b, bin) /\ bin \in Bins
    BY <1>5, RemovedLeaves, RemovedPreserves
  <2>2. /\ pc = "remove" /\ UNCHANGED <<pc, release_age, age, bin>>
        /\ tail' = [tail EXCEPT ![bin] = prev[b]]
    BY <1>5, <2>1 DEF RemoveOldest, loopVars
  <2>3. ASSUME NEW i \in 0 .. bin - 1 PROVE Young(i, age)'
    <3>1. i \in Bins /\ i # bin /\ Young(i, age)
      BY <2>1, <2>2, BinAssumption DEF PassOK, Bins
    <3>2. tail'[i] = tail[i] /\ ~ In(b, i)
      BY <2>1, <2>2, <3>1, OneBin DEF IInv, LinksTyped
    <3>3. tail[i] # b
      BY <3>1, <3>2, <2>1 DEF IInv, Links
    <3>4. tail[i] = Null \/ tail[i] \in Blocks \ {b}
      BY <3>1, <3>3 DEF IInv, LinksTyped, Pointers
    <3>5. Guarded(i) => Guarded(i)'
      BY <2>1, <3>2, <3>4 DEF Guarded, Leaves
    <3>6. \A x \in Blocks : In(x, i)' => In(x, i) /\ waited'[x] = waited[x]
      BY <2>1, <3>1, InLeaves DEF Leaves
    <3> QED
      BY <2>2, <3>1, <3>5, <3>6 DEF Young
  <2> QED
    BY <2>2, <2>3 DEF PassOK
<1>6. CASE NextBin
  <2>1. /\ pc = "remove" /\ ~ OldestDue
        /\ IF bin < MaxBin THEN bin' = bin + 1 /\ pc' = pc ELSE bin' = 0 /\ pc' = "release"
        /\ UNCHANGED <<blockVars, listVars, release_age, age, waited>>
    BY <1>6 DEF NextBin
  <2>2. bin \in 0 .. MaxBin /\ MaxBin \in Nat /\ age \in Nat
    BY BinAssumption, AgeAssumption DEF IInv, LoopTyped, Bins
  <2>3. \A i \in 0 .. bin : Young(i, age)
    <3>1. \A i \in 0 .. bin : i = bin \/ i \in 0 .. bin - 1
      BY <2>2
    <3> QED
      BY <2>1, <3>1, BinDone DEF PassOK
  <2>4. \A i \in 0 .. bin : Young(i, age)'
    BY <2>1, <2>3 DEF Young, Guarded, In, blockVars, listVars
  <2>6. CASE bin < MaxBin
    <3>1. 0 .. bin' - 1 = 0 .. bin
      BY <2>1, <2>2, <2>6
    <3> QED
      BY <2>1, <2>4, <2>6, <3>1 DEF PassOK
  <2>7. CASE ~ (bin < MaxBin)
    <3>1. bin = MaxBin /\ pc' = "release"
      BY <2>1, <2>2, <2>7
    <3>2. ASSUME release_age = 0, NEW i \in Bins PROVE Young(i, 1)'
      <4>1. age <= 1 /\ Young(i, age)'
        BY <2>1, <2>4, <3>1, <3>2 DEF PassOK, Bins
      <4>2. \A b \in Blocks : waited'[b] \in Nat
        BY <2>1, AgeAssumption DEF IInv, BlocksTyped
      <4>3. age' = age
        BY <2>1
      <4> QED
        BY <2>2, <4>1, <4>2, <4>3 DEF Young
    <3> QED
      BY <2>1, <3>1, <3>2 DEF PassOK
  <2> QED
    BY <2>6, <2>7
<1>7. CASE UNCHANGED vars
  <2>1. UNCHANGED <<pc, bin, age, release_age, tail, waited, place, size>>
    BY <1>7 DEF vars, blockVars, listVars, loopVars
  <2> QED
    BY <2>1 DEF PassOK, Young, Guarded, In
<1> QED
  BY <1>1, <1>2, <1>3, <1>4, <1>5, <1>6, <1>7 DEF Next, Free, ReallocFree, IInv, OldOK

------------------------------------------------------------------------------
\* How much stays in the cache

\* The blocks of the bins whose oldest block has not stayed until the counter
\* wrapped; between calls it is these that there are too few of.
Unguarded == {b \in Cached : \E i \in Bins : In(b, i) /\ ~ Guarded(i)}

BoundOK ==
  pc \in {"idle", "realloc"} =>
    freeInCache < MaxFree \/ Total(size, Unguarded) < MaxFree

LEMMA UnguardedTyped ==
  ASSUME IInv
  PROVE  /\ Unguarded \subseteq Cached /\ IsFiniteSet(Unguarded)
         /\ \A b \in Unguarded : size[b] \in Nat
         /\ Total(size, Unguarded) \in Nat
<1>1. Unguarded \subseteq Cached
  BY DEF Unguarded
<1>2. IsFiniteSet(Unguarded) /\ \A b \in Unguarded : size[b] \in Nat
  BY <1>1, CachedFinite, FS_Subset
<1> QED
  BY <1>1, <1>2, TotalType

\* A bin is emptied from its newest block on, and loses its oldest block last.
LEMMA TakenUnguarded ==
  ASSUME IInv, HasLists, IInv', HasLists', NEW j \in Bins, Taken(j)
  PROVE  Unguarded' \subseteq Unguarded
<1>1. /\ head[j] \in Blocks /\ Leaves(head[j]) /\ In(head[j], j)
      /\ tail' = IF next[head[j]] = Null THEN [tail EXCEPT ![j] = Null] ELSE tail
  BY TakenLeaves DEF Taken, TakeHead
<1>2. ASSUME NEW x \in Blocks, NEW i \in Bins, In(x, i)', Guarded(i)
      PROVE  Guarded(i)'
  <2>1. tail[i] \in Blocks /\ In(tail[i], i) /\ next[tail[i]] = Null
    BY <1>2 DEF Guarded, IInv, LinksTyped, Pointers, Links
  <2>2. tail'[i] # Null
    <3>1. PICK M : Lists(M)'
      BY DEF HasLists
    <3>2. Path(next', head'[i], M[i]) /\ On(x, M[i])
      BY <1>2, <3>1 DEF Lists
    <3>3. M[i] # <<>>
      BY <3>2, EmptySeq DEF On
    <3>4. head'[i] # Null
      BY <3>2, <3>3, PathTyped
    <3> QED
      BY <3>4 DEF IInv, Links
  <2>3. tail'[i] = tail[i]
    BY <1>1, <2>2 DEF IInv, LinksTyped
  <2>4. tail[i] # head[j]
    <3>1. tail[i] = head[j] => i = j /\ next[head[j]] = Null
      BY <1>1, <2>1, OneBin
    <3>2. tail[i] = head[j] => tail'[i] = Null
      BY <1>1, <3>1 DEF IInv, LinksTyped
    <3> QED
      BY <2>2, <3>2
  <2>5. waited'[tail[i]] = waited[tail[i]]
    BY <1>1, <2>1, <2>4 DEF Leaves
  <2> QED
    BY <1>2, <2>2, <2>3, <2>5 DEF Guarded
<1>3. ASSUME NEW x \in Unguarded' PROVE x \in Unguarded
  <2>1. x \in Blocks /\ x \in Cached'
    BY DEF Unguarded, Cached
  <2>2. PICK i \in Bins : In(x, i)' /\ ~ Guarded(i)'
    BY DEF Unguarded
  <2>3. In(x, i) /\ x \in Cached
    BY <1>1, <2>1, <2>2, InLeaves DEF Leaves
  <2>4. ~ Guarded(i)
    BY <1>2, <2>1, <2>2
  <2> QED
    BY <2>3, <2>4 DEF Unguarded
<1> QED
  BY <1>3

\* When the last pass is over, one block may be left that no pass removes.
LEMMA LastPass ==
  ASSUME IInv, Ages, \A i \in Bins : Young(i, 1)
  PROVE  Total(size, Unguarded) < MaxFree
<1>1. MaxFree \in Nat /\ MaxFree > MaxSize /\ MaxSize \in Nat
  BY FreeAssumption, Sizes
<1>2. \A b \in Unguarded : b \in Cached /\ b \in Blocks /\ waited[b] = 0
  <2> SUFFICES ASSUME NEW b \in Unguarded
               PROVE  b \in Cached /\ b \in Blocks /\ waited[b] = 0
    OBVIOUS
  <2>1. b \in Cached /\ b \in Blocks
    BY DEF Unguarded, Cached
  <2>2. waited[b] < 1
    BY <2>1 DEF Unguarded, Young
  <2>3. waited[b] \in Nat
    BY <2>1, AgeAssumption DEF IInv, BlocksTyped
  <2> QED
    BY <2>1, <2>2, <2>3
<1>3. CASE Unguarded = {}
  BY <1>1, <1>3, UnguardedTyped, TotalType
<1>4. CASE Unguarded # {}
  <2>1. PICK b \in Unguarded : TRUE
    BY <1>4
  <2>2. Unguarded \ {b} = {}
    BY <1>2, <2>1 DEF Ages, OneNew
  <2>3. Total(size, Unguarded) = size[b] + Total(size, Unguarded \ {b})
    BY <2>1, UnguardedTyped, TotalRemove
  <2>4. Total(size, Unguarded \ {b}) = 0
    <3>1. IsFiniteSet({})
      BY FS_EmptySet
    <3>2. Total(size, {}) = 0
      BY <3>1, TotalType
    <3> QED
      BY <2>2, <3>2
  <2>5. size[b] \in 0 .. MaxSize
    BY <1>2, <2>1 DEF IInv, BlocksTyped
  <2> QED
    BY <1>1, <2>3, <2>4, <2>5
<1> QED
  BY <1>3, <1>4

LEMMA SameBound ==
  ASSUME IInv, BoundOK, Quiet, UNCHANGED waited, pc \in {"idle", "realloc"}
  PROVE  BoundOK'
<1>1. Cached' = Cached /\ UNCHANGED <<size, freeInCache, tail, waited>>
  BY QuietSame DEF Quiet
<1>2. \A b \in Blocks, i \in Bins : In(b, i)' <=> In(b, i)
  BY DEF Quiet, In
<1>3. \A i \in Bins : Guarded(i)' <=> Guarded(i)
  BY <1>1 DEF Guarded
<1>4. Unguarded' = Unguarded
  BY <1>1, <1>2, <1>3 DEF Unguarded, Cached
<1> QED
  BY <1>1, <1>4 DEF BoundOK

LEMMA BoundStep ==
  ASSUME IInv, IInv', HasLists, HasLists', Ages, PassOK, BoundOK, [Next]_vars
  PROVE  BoundOK'
<1>1. ASSUME NEW j \in Bins, Taken(j), pc \in {"idle", "realloc"} PROVE BoundOK'
  <2>1. head[j] \in Blocks /\ Leaves(head[j])
    BY <1>1, TakenLeaves DEF Taken
  <2>2. freeInCache' <= freeInCache /\ freeInCache \in Int /\ freeInCache' \in Int
    <3>1. size[head[j]] \in Nat
      BY <2>1, CachedFinite DEF Leaves
    <3>2. freeInCache \in Int
      BY DEF IInv, BlocksTyped
    <3> QED
      BY <2>1, <3>1, <3>2 DEF Leaves
  <2>3. Unguarded' \subseteq Unguarded
    BY <1>1, TakenUnguarded
  <2>4. PICK S \in SUBSET Unguarded : S = Unguarded'
    BY <2>3
  <2>5. Total(size, S) <= Total(size, Unguarded)
    BY <2>4, UnguardedTyped, TotalSubset
  <2>6. Total(size', S) = Total(size, S)
    <3>1. IsFiniteSet(S) /\ \A x \in S : size[x] \in Nat
      BY <2>4, UnguardedTyped, FS_Subset
    <3>2. \A x \in S : x \in Blocks \ {head[j]}
      BY <2>1, <2>4 DEF Unguarded, Leaves, Cached
    <3>3. \A x \in S : size[x] = size'[x]
      BY <2>1, <3>2 DEF Leaves
    <3> QED
      BY <3>1, <3>3, TotalSame
  <2>7. Total(size, S) \in Nat
    <3>1. IsFiniteSet(S) /\ \A x \in S : size[x] \in Nat
      BY <2>4, UnguardedTyped, FS_Subset
    <3> QED
      BY <3>1, TotalType
  <2>8. Total(size, Unguarded) \in Nat /\ MaxFree \in Nat
    BY UnguardedTyped, FreeAssumption
  <2>9. Total(size', Unguarded') <= Total(size, Unguarded)
    BY <2>4, <2>5, <2>6
  <2>10. Total(size', Unguarded') \in Nat
    BY <2>4, <2>6, <2>7
  <2>11. freeInCache < MaxFree \/ Total(size, Unguarded) < MaxFree
    BY <1>1 DEF BoundOK
  <2>12. freeInCache' < MaxFree \/ Total(size', Unguarded') < MaxFree
    BY ONLY <2>2, <2>8, <2>9, <2>10, <2>11
  <2> QED
    BY <2>12 DEF BoundOK
<1>2. CASE Request
  <2>1. pc = "idle"
    BY <1>2 DEF Request, MallocHit, MallocMiss, ReallocNoop, ReallocHit, ReallocMiss
  <2> QED
    BY <1>1, <1>2, <2>1, RequestStep, SameBound
<1>3. ASSUME NEW b \in Blocks, place[b] = "program", GiveBack(b), pc \in {"idle", "realloc"}
      PROVE  BoundOK'
  <2>1. CASE Cacheable(b)
    <3>1. pc' \in {"idle", "realloc"} => ~ (freeInCache' >= MaxFree)
      BY <1>3, <2>1 DEF GiveBack
    <3>2. freeInCache' \in Int /\ MaxFree \in Nat
      BY FreeAssumption DEF IInv, BlocksTyped
    <3> QED
      BY <3>1, <3>2 DEF BoundOK
  <2>2. CASE ~ Cacheable(b)
    <3>1. ~ Stored(b)
      BY <2>2 DEF Stored
    <3> QED
      BY <1>3, <3>1, GivenBack, SameBound
  <2> QED
    BY <2>1, <2>2
<1>4. CASE Trim
  <2>1. /\ UNCHANGED freeInCache /\ freeInCache \in Int /\ MaxFree \in Nat /\ MaxFree > 0
        /\ pc' \in {"idle", "realloc"} => ~ (freeInCache > 0)
    BY <1>4, FreeAssumption, Sizes DEF Trim, IInv, BlocksTyped
  <2> QED
    BY <2>1 DEF BoundOK
<1>5. CASE ReleaseLoop
  <2>1. /\ UNCHANGED <<place, size, tail, freeInCache, waited>> /\ pc = "release"
        /\ pc' \in {"idle", "realloc"} => ~ (release_age > 0 /\ freeInCache >= MaxFree)
    BY <1>5 DEF ReleaseLoop, blockVars, listVars
  <2>2. freeInCache \in Int /\ MaxFree \in Nat /\ release_age \in Nat
    BY FreeAssumption, AgeAssumption DEF IInv, BlocksTyped, LoopTyped
  <2>3. release_age = 0 => Total(size, Unguarded) < MaxFree
    BY <2>1, LastPass DEF PassOK
  <2>4. Unguarded' = Unguarded
    BY <2>1 DEF Unguarded, Cached, In, Guarded
  <2> QED
    BY <2>1, <2>2, <2>3, <2>4 DEF BoundOK
<1>6. CASE RemoveOldest \/ NextBin
  <2>1. pc' \notin {"idle", "realloc"}
    BY <1>6 DEF RemoveOldest, NextBin
  <2> QED
    BY <2>1 DEF BoundOK
<1>7. CASE UNCHANGED vars
  <2>1. UNCHANGED <<pc, freeInCache, place, size, tail, waited>>
    BY <1>7 DEF vars, blockVars, listVars
  <2> QED
    BY <2>1 DEF BoundOK, Unguarded, Cached, In, Guarded
<1> QED
  BY <1>2, <1>3, <1>4, <1>5, <1>6, <1>7 DEF Next, Free, ReallocFree, IInv, OldOK

LEMMA AgeingInvariance == Spec => [](Ages /\ PassOK /\ BoundOK)
<1>1. Init => Ages /\ PassOK /\ BoundOK
  <2> SUFFICES ASSUME Init PROVE Ages /\ PassOK /\ BoundOK
    OBVIOUS
  <2>1. Cached = {} /\ pc = "idle" /\ release_age = 0 /\ freeInCache = 0
    BY DEF Init, Cached
  <2>2. \A b, c \in Blocks : next[b] # c
    BY DEF Init
  <2>3. MaxFree > 0
    BY FreeAssumption, Sizes
  <2> QED
    BY <2>1, <2>2, <2>3
       DEF Ages, AgesCounted, OlderBehind, OneNew, PassOK, BoundOK
<1>2. /\ IInv /\ IInv' /\ HasLists /\ HasLists'
      /\ Ages /\ PassOK /\ BoundOK /\ [Next]_vars
      => (Ages /\ PassOK /\ BoundOK)'
  BY AgesStep, PassStep, BoundStep
<1> QED
  BY <1>1, <1>2, Invariance, ListsInvariance, PTL DEF Spec

LEMMA InListed ==
  ASSUME NEW L, Lists(L), NEW b \in Blocks, NEW i \in Bins
  PROVE  b \in Range(Listed(i)) <=> In(b, i)
<1>1. Listed(i) = L[i] /\ L[i] \in Seq(Blocks) /\ (On(b, L[i]) <=> In(b, i))
  BY ListedIs DEF Lists
<1>2. Range(L[i]) = {L[i][k] : k \in 1 .. Len(L[i])}
  BY <1>1, RangeEquality
<1> QED
  BY <1>1, <1>2 DEF On

\* Between calls a cache keeps less than THREADCACHEMAXFREESPACE, and a pass of
\* RemoveCacheEntries leaves nothing behind that is as old as it was asked to
\* remove, unless some block has stayed until the counter of the frees wrapped.
THEOREM Ageing == Spec => []AgeingWorks
<1>1. ASSUME IInv, SpaceCounted, BoundOK PROVE CacheBounded
  <2> SUFFICES ASSUME pc = "idle", ~ (freeInCache < MaxFree)
               PROVE  \E b \in Cached : waited[b] = FreesModulus
    BY DEF CacheBounded
  <2>1. Unguarded # Cached
    BY <1>1 DEF BoundOK, SpaceCounted
  <2>2. PICK b \in Cached : b \notin Unguarded
    BY <2>1 DEF Unguarded
  <2>3. PICK i \in Bins : In(b, i) /\ Guarded(i)
    BY <1>1, <2>2 DEF IInv, BlocksOK, BlockOK, Cached, In, Unguarded
  <2>4. tail[i] \in Cached /\ waited[tail[i]] = FreesModulus
    BY <1>1, <2>3 DEF Guarded, IInv, LinksTyped, Pointers, Links, In, Cached
  <2> QED
    BY <2>4
<1>2. ASSUME IInv, HasLists, PassOK PROVE OldOnesRemoved
  <2> SUFFICES ASSUME pc = "remove", NEW i \in 0 .. bin - 1, NEW b \in Range(Listed(i)),
                      ~ (waited[b] < age)
               PROVE  \E x \in Cached : waited[x] = FreesModulus
    BY DEF OldOnesRemoved
  <2>1. i \in Bins
    BY <1>2, BinAssumption DEF IInv, LoopTyped, Bins
  <2>2. PICK L : Lists(L)
    BY <1>2 DEF HasLists
  <2>3. b \in Blocks
    <3>1. Listed(i) \in Seq(Blocks)
      BY <2>1, <2>2, ListedIs DEF Lists
    <3> QED
      BY <3>1, RangeOfSeq
  <2>4. In(b, i)
    BY <2>1, <2>2, <2>3, InListed
  <2>5. Guarded(i)
    BY <1>2, <2>1, <2>3, <2>4 DEF PassOK, Young
  <2>6. tail[i] \in Cached /\ waited[tail[i]] = FreesModulus
    BY <1>2, <2>1, <2>5 DEF Guarded, IInv, LinksTyped, Pointers, Links, In, Cached
  <2> QED
    BY <2>6
<1>3. /\ IInv /\ SpaceCounted /\ HasLists /\ Ages /\ PassOK /\ BoundOK
      => AgeingWorks
  BY <1>1, <1>2 DEF AgeingWorks
<1> QED
  BY <1>3, Invariance, SpaceInvariance, ListsInvariance, AgeingInvariance, PTL
==============================================================================

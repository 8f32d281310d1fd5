----------------------------- MODULE SumLemmas ------------------------------
(***************************************************************************)
(* Sums over finite sets, as the community modules define them, and the    *)
(* greatest of a bounded set of numbers.  The operators of the models that *)
(* add things up are reasoned about with what is proved here.              *)
(***************************************************************************)
EXTENDS Integers, FiniteSets, Functions, FiniteSetTheorems, TLAPS

-----------------------------------------------------------------------------
(* Numbers.                                                                *)

(* A set of numbers below a bound has a greatest one: those that are not   *)
(* above all of it are an initial segment, as long as it has elements.     *)
LEMMA GreatestExists ==
    ASSUME NEW N \in Nat, NEW R \in SUBSET (0..N), R # {}
    PROVE  \E e \in R : \A f \in R : f <= e
<1> DEFINE D == {n \in 0..N : \E e \in R : n <= e}
           k == Cardinality(D)
<1>1. D \in SUBSET (0..N) /\ R \subseteq D
    OBVIOUS
<1>2. \A n \in D : n \in Nat /\ 0..n \in SUBSET D
    OBVIOUS
<1>3. \A n \in D : \E e \in R : n <= e
    OBVIOUS
<1> HIDE DEF D
<1>4. IsFiniteSet(D) /\ k \in Nat
    <2>1. IsFiniteSet(0..N)
        BY FS_Interval
    <2> QED
        BY <1>1, <2>1, FS_Subset, FS_CardinalityType
<1>5. \A n \in D : n < k
    <2>1. ASSUME NEW n \in D PROVE n < k
        <3>1. n \in Nat /\ 0..n \in SUBSET D
            BY <1>2
        <3>2. Cardinality(0..n) <= k
            BY <1>4, <3>1, FS_Subset
        <3>3. Cardinality(0..n) = n + 1
            BY <3>1, FS_Interval
        <3> HIDE DEF k
        <3> QED
            BY <1>4, <3>1, <3>2, <3>3
    <2> QED
        BY <2>1
<1>6. D = 0..(k - 1)
    <2>1. D \in SUBSET (0..(k - 1))
        <3> HIDE DEF k
        <3> QED
            BY <1>2, <1>4, <1>5
    <2>2. IsFiniteSet(0..(k - 1)) /\ Cardinality(0..(k - 1)) = k
        BY <1>4, FS_Interval
    <2> QED
        BY <2>1, <2>2, FS_Subset
<1> HIDE DEF k
<1>7. k - 1 \in D
    <2>1. PICK n \in R : n \in D
        BY <1>1
    <2>2. n \in Nat /\ n < k
        BY <1>2, <1>5, <2>1
    <2>3. k - 1 \in 0..(k - 1)
        BY <1>4, <2>2
    <2> QED
        BY <1>6, <2>3
<1>8. PICK e \in R : k - 1 <= e
    BY <1>3, <1>7
<1>9. \A f \in R : f \in Nat /\ f < k
    BY <1>1, <1>2, <1>5
<1> QED
    BY <1>4, <1>8, <1>9

(* What holds of 0 and goes on from each number below a bound to the next  *)
(* holds of all numbers up to the bound.                                   *)
LEMMA UpTo ==
    ASSUME NEW N \in Nat, NEW D \in SUBSET (0..N), 0 \in D,
           \A n \in D : n < N => n + 1 \in D
    PROVE  D = 0..N
<1> SUFFICES ASSUME D # 0..N PROVE FALSE
    OBVIOUS
<1> DEFINE R == {N - m : m \in (0..N) \ D}
<1>1. R \in SUBSET (0..N) /\ R # {}
    <2>1. \A m \in 0..N : N - m \in 0..N
        OBVIOUS
    <2>2. PICK m \in 0..N : m \notin D
        OBVIOUS
    <2>3. N - m \in R
        BY <2>2
    <2> QED
        BY <2>1, <2>3
<1>2. PICK e \in R : \A f \in R : f <= e
    BY <1>1, GreatestExists
<1>3. PICK m \in (0..N) \ D : e = N - m
    OBVIOUS
<1>4. m # 0 /\ m - 1 \in 0..N
    BY <1>3
<1>5. m - 1 \in D
    <2>1. ASSUME m - 1 \notin D PROVE FALSE
        <3>1. N - (m - 1) \in R
            BY <1>4, <2>1
        <3>2. N - (m - 1) <= N - m
            BY <1>2, <1>3, <3>1
        <3> QED
            BY <1>3, <3>2
    <2> QED
        BY <2>1
<1> QED
    BY <1>3, <1>4, <1>5

-----------------------------------------------------------------------------
(* Sums.                                                                   *)

SumFirst(s) == CHOOSE x \in s : TRUE

\* What a sum of f over s is, from those of smaller sets.
SumNext(g, f, s) == IF s = {} THEN 0 ELSE f[SumFirst(s)] + g[s \ {SumFirst(s)}]

\* The sums of f over the subsets of S, as the fold of Functions adds them up.
AreSums(g, f, S) == g = [s \in SUBSET S |-> SumNext(g, f, s)]

\* The subsets of S with n elements at most, and the sums over them.
SmallSets(S, n) == {s \in SUBSET S : Cardinality(s) <= n}
AreSmallSums(g, f, S, n) == g = [s \in SmallSets(S, n) |-> SumNext(g, f, s)]

(* A finite set without one of its elements is smaller by one.             *)
LEMMA OneLess ==
    ASSUME NEW S, IsFiniteSet(S), NEW s \in SUBSET S, NEW x \in s
    PROVE  /\ IsFiniteSet(s) /\ Cardinality(s) \in Nat
           /\ s \ {x} \in SUBSET S /\ Cardinality(s \ {x}) = Cardinality(s) - 1
           /\ Cardinality(s) > 0
<1>1. IsFiniteSet(s) /\ Cardinality(s) \in Nat
    BY FS_Subset, FS_CardinalityType
<1>2. IsFiniteSet(s \ {x}) /\ Cardinality(s \ {x}) = Cardinality(s) - 1
    BY <1>1, FS_RemoveElement
<1>3. Cardinality(s \ {x}) \in Nat
    BY <1>2, FS_CardinalityType
<1> QED
    BY <1>1, <1>2, <1>3

(* The element that SumFirst takes is one.                                    *)
LEMMA SumFirstIsIn == ASSUME NEW s, s # {} PROVE SumFirst(s) \in s
BY DEF SumFirst

(* The smallest and the largest of the collections of subsets.             *)
LEMMA SmallSetsEnds ==
    ASSUME NEW S, IsFiniteSet(S)
    PROVE  /\ Cardinality(S) \in Nat /\ SmallSets(S, 0) = {{}} /\ SmallSets(S, Cardinality(S)) = SUBSET S
<1>1. Cardinality(S) \in Nat
    BY FS_CardinalityType
<1>2. \A s \in SUBSET S : IsFiniteSet(s) /\ Cardinality(s) \in Nat /\ Cardinality(s) <= Cardinality(S)
    BY FS_Subset, FS_CardinalityType
<1>3. \A s \in SUBSET S : Cardinality(s) <= 0 <=> s = {}
    BY <1>2, FS_EmptySet
<1> QED
    BY <1>1, <1>2, <1>3 DEF SmallSets

(* Sums of small subsets give those of subsets with one element more.      *)
LEMMA SumsGoOn ==
    ASSUME NEW S, IsFiniteSet(S), NEW f, NEW n \in Nat, NEW g,
           AreSmallSums(g, f, S, n)
    PROVE  \E h : AreSmallSums(h, f, S, n + 1)
<1> DEFINE h == [s \in SmallSets(S, n + 1) |-> SumNext(g, f, s)]
<1>1. \A s \in SmallSets(S, n) : s \in SmallSets(S, n + 1) /\ h[s] = g[s]
    <2>1. \A s \in SUBSET S : Cardinality(s) \in Nat
        BY FS_Subset, FS_CardinalityType
    <2>2. \A s \in SmallSets(S, n) : s \in SmallSets(S, n + 1)
        BY <2>1 DEF SmallSets
    <2> QED
        BY <2>2 DEF AreSmallSums
<1>2. ASSUME NEW s \in SmallSets(S, n + 1) PROVE SumNext(g, f, s) = SumNext(h, f, s)
    <2>1. CASE s = {}
        BY <2>1 DEF SumNext
    <2>2. CASE s # {}
        <3>1. SumFirst(s) \in s /\ s \in SUBSET S /\ Cardinality(s) <= n + 1
            BY <2>2, SumFirstIsIn DEF SmallSets
        <3>2. s \ {SumFirst(s)} \in SmallSets(S, n)
            BY <3>1, OneLess DEF SmallSets
        <3>3. h[s \ {SumFirst(s)}] = g[s \ {SumFirst(s)}]
            BY <1>1, <3>2
        <3> HIDE DEF h
        <3> QED
            BY <2>2, <3>3 DEF SumNext
    <2> QED
        BY <2>1, <2>2
<1>3. h = [s \in SmallSets(S, n + 1) |-> SumNext(h, f, s)]
    <2> DEFINE k == [s \in SmallSets(S, n + 1) |-> SumNext(h, f, s)]
    <2>1. \A s \in SmallSets(S, n + 1) : h[s] = k[s]
        BY <1>2
    <2> QED
        BY <2>1
<1> QED
    BY <1>3 DEF AreSmallSums

(* So there are sums of all subsets of a finite set.                       *)
LEMMA SumsExist ==
    ASSUME NEW S, IsFiniteSet(S), NEW f
    PROVE  \E g : AreSums(g, f, S)
<1> DEFINE N == Cardinality(S)
           D == {n \in 0..N : \E g : AreSmallSums(g, f, S, n)}
<1>1. N \in Nat /\ SmallSets(S, 0) = {{}} /\ SmallSets(S, N) = SUBSET S
    BY SmallSetsEnds
<1>2. 0 \in D
    <2> DEFINE g == [s \in {{}} |-> 0]
    <2>1. g = [s \in {{}} |-> SumNext(g, f, s)]
        BY DEF SumNext
    <2>2. AreSmallSums(g, f, S, 0)
        BY <1>1, <2>1 DEF AreSmallSums
    <2> QED
        BY <1>1, <2>2
<1>3. ASSUME NEW n \in D, n < N PROVE n + 1 \in D
    <2>1. PICK g : AreSmallSums(g, f, S, n)
        OBVIOUS
    <2>2. n \in Nat /\ n + 1 \in 0..N
        BY <1>1, <1>3
    <2>3. \E h : AreSmallSums(h, f, S, n + 1)
        BY <2>1, <2>2, SumsGoOn
    <2> QED
        BY <2>2, <2>3
<1>4. D = 0..N
    <2> HIDE DEF N
    <2>1. D \in SUBSET (0..N)
        OBVIOUS
    <2> HIDE DEF D
    <2> QED
        BY <1>1, <1>2, <1>3, <2>1, UpTo
<1>5. N \in D
    BY <1>1, <1>4
<1> QED
    BY <1>1, <1>5 DEF AreSums, AreSmallSums

(* The fold of a finite set uses such sums.                                *)
LEMMA SumIsOne ==
    ASSUME NEW S, IsFiniteSet(S), NEW f
    PROVE  \E g : AreSums(g, f, S) /\ SumFunctionOnSet(f, S) = g[S]
<1>1. SumFunctionOnSet(f, S) = (CHOOSE g : AreSums(g, f, S))[S]
    BY DEF SumFunctionOnSet, FoldFunctionOnSet, MapThenFoldSet, AreSums, SumNext, SumFirst
<1>2. AreSums(CHOOSE g : AreSums(g, f, S), f, S)
    BY SumsExist
<1> QED
    BY <1>1, <1>2

\* f gives every element of S a whole number.
Whole(f, S) == \A x \in S : f[x] \in Int

\* g gives s a number, out of which any element of s can be taken.
Splits(g, f, s) == g[s] \in Int /\ \A a \in s : g[s] = f[a] + g[s \ {a}]

(* So do the sums of f.                                                    *)
LEMMA SumsTake ==
    ASSUME NEW S, IsFiniteSet(S), NEW f, Whole(f, S), NEW g, AreSums(g, f, S), NEW t \in SUBSET S
    PROVE  Splits(g, f, t)
<1> DEFINE N == Cardinality(S)
           D == {n \in 0..N : \A s \in SmallSets(S, n) : Splits(g, f, s)}
<1>1. N \in Nat /\ SmallSets(S, 0) = {{}} /\ SmallSets(S, N) = SUBSET S
    BY SmallSetsEnds
<1>2. \A s \in SUBSET S : g[s] = SumNext(g, f, s)
    BY DEF AreSums
<1>3. 0 \in D
    <2>1. g[{}] = 0
        BY <1>2 DEF SumNext
    <2>2. Splits(g, f, {})
        BY <2>1 DEF Splits
    <2>3. \A s \in SmallSets(S, 0) : Splits(g, f, s)
        BY <1>1, <2>2
    <2> QED
        BY <1>1, <2>3
<1>4. ASSUME NEW n \in D, n < N PROVE n + 1 \in D
    <2>1. n \in Nat /\ n + 1 \in 0..N /\ \A s \in SmallSets(S, n) : Splits(g, f, s)
        BY <1>1, <1>4
    <2>2. ASSUME NEW s \in SmallSets(S, n + 1) PROVE Splits(g, f, s)
        <3>1. s \in SUBSET S /\ Cardinality(s) <= n + 1
            BY DEF SmallSets
        <3>2. CASE s = {}
            BY <1>2, <3>1, <3>2 DEF SumNext, Splits
        <3>3. CASE s # {}
            <4> DEFINE x == SumFirst(s)
            <4>1. x \in s /\ x \in S
                BY <3>1, <3>3, SumFirstIsIn
            <4>2. \A a \in s : s \ {a} \in SmallSets(S, n)
                <5>1. \A a \in s : Cardinality(s) \in Nat /\ s \ {a} \in SUBSET S
                                   /\ Cardinality(s \ {a}) = Cardinality(s) - 1
                    BY <3>1, OneLess
                <5> QED
                    BY <2>1, <3>1, <5>1 DEF SmallSets
            <4>3. g[s] = f[x] + g[s \ {x}]
                BY <1>2, <3>1, <3>3 DEF SumNext
            <4> HIDE DEF x
            <4>4. \A a \in s : f[a] \in Int /\ g[s \ {a}] \in Int
                BY <2>1, <3>1, <4>2 DEF Whole, Splits
            <4>5. ASSUME NEW a \in s, a # x PROVE g[s] = f[a] + g[s \ {a}]
                <5> DEFINE both == (s \ {x}) \ {a}
                <5>1. both = (s \ {a}) \ {x} /\ a \in s \ {x} /\ x \in s \ {a}
                    BY <4>1, <4>5
                <5>2. g[s \ {x}] = f[a] + g[both]
                    BY <2>1, <4>1, <4>2, <5>1 DEF Splits
                <5>3. g[s \ {a}] = f[x] + g[both]
                    BY <2>1, <4>2, <5>1 DEF Splits
                <5>4. g[both] \in Int
                    <6>1. both \in SmallSets(S, n)
                        <7>1. s \ {x} \in SUBSET S /\ Cardinality(s \ {x}) <= n
                            BY <4>1, <4>2 DEF SmallSets
                        <7>2. both \in SUBSET S /\ Cardinality(both) = Cardinality(s \ {x}) - 1
                              /\ Cardinality(s \ {x}) \in Nat
                            BY <5>1, <7>1, OneLess
                        <7> QED
                            BY <2>1, <7>1, <7>2 DEF SmallSets
                    <6> QED
                        BY <2>1, <6>1 DEF Splits
                <5>5. f[a] \in Int /\ f[x] \in Int
                    BY <4>1, <4>4
                <5> HIDE DEF both
                <5>6. f[x] + (f[a] + g[both]) = f[a] + (f[x] + g[both])
                    BY <5>4, <5>5
                <5> QED
                    BY <4>3, <5>2, <5>3, <5>6
            <4>6. g[s] \in Int
                BY <4>1, <4>3, <4>4
            <4> HIDE DEF D, N
            <4> QED
                BY <4>3, <4>5, <4>6 DEF Splits
        <3> QED
            BY <3>2, <3>3
    <2> QED
        BY <2>1, <2>2
<1>5. D = 0..N
    <2> HIDE DEF N
    <2>1. D \in SUBSET (0..N)
        OBVIOUS
    <2> HIDE DEF D
    <2> QED
        BY <1>1, <1>3, <1>4, <2>1, UpTo
<1>6. Splits(g, f, t)
    <2>1. N \in D
        BY <1>1, <1>5
    <2> QED
        BY <1>1, <2>1
<1> QED
    BY <1>6

(* Sums are unique, also those of different collections of sets.           *)
LEMMA SumsAgree ==
    ASSUME NEW S, IsFiniteSet(S), NEW T \in SUBSET S, NEW f, NEW g, NEW h,
           AreSums(g, f, S), AreSums(h, f, T)
    PROVE  g[T] = h[T]
<1> DEFINE N == Cardinality(T)
           D == {n \in 0..N : \A s \in SmallSets(T, n) : g[s] = h[s]}
<1>1. IsFiniteSet(T)
    BY FS_Subset
<1>2. N \in Nat /\ SmallSets(T, 0) = {{}} /\ SmallSets(T, N) = SUBSET T
    BY <1>1, SmallSetsEnds
<1>3. \A s \in SUBSET T : g[s] = SumNext(g, f, s) /\ h[s] = SumNext(h, f, s)
    BY DEF AreSums
<1>4. 0 \in D
    BY <1>2, <1>3 DEF SumNext
<1>5. ASSUME NEW n \in D, n < N PROVE n + 1 \in D
    <2>1. n \in Nat /\ n + 1 \in 0..N /\ \A s \in SmallSets(T, n) : g[s] = h[s]
        BY <1>2, <1>5
    <2>2. ASSUME NEW s \in SmallSets(T, n + 1) PROVE g[s] = h[s]
        <3>1. s \in SUBSET T /\ Cardinality(s) <= n + 1
            BY DEF SmallSets
        <3>2. CASE s = {}
            BY <1>3, <3>1, <3>2 DEF SumNext
        <3>3. CASE s # {}
            <4>1. SumFirst(s) \in s
                BY <3>3, SumFirstIsIn
            <4>2. s \ {SumFirst(s)} \in SmallSets(T, n)
                BY <1>1, <2>1, <3>1, <4>1, OneLess DEF SmallSets
            <4> QED
                BY <1>3, <2>1, <3>1, <3>3, <4>2 DEF SumNext
        <3> QED
            BY <3>2, <3>3
    <2> QED
        BY <2>1, <2>2
<1>6. D = 0..N
    <2> HIDE DEF N
    <2>1. D \in SUBSET (0..N)
        OBVIOUS
    <2> HIDE DEF D
    <2> QED
        BY <1>2, <1>4, <1>5, <2>1, UpTo
<1> QED
    BY <1>2, <1>6

(* The sum of nothing, and of nothing but zeros.                           *)
LEMMA SumOfZeros ==
    ASSUME NEW S, IsFiniteSet(S), NEW f, \A x \in S : f[x] = 0
    PROVE  SumFunctionOnSet(f, S) = 0
<1> DEFINE g == [s \in SUBSET S |-> 0]
<1>1. \A s \in SUBSET S : SumNext(g, f, s) = 0
    <2>1. \A s \in SUBSET S : s # {} => SumFirst(s) \in S /\ s \ {SumFirst(s)} \in SUBSET S
        BY SumFirstIsIn
    <2> QED
        BY <2>1 DEF SumNext
<1>2. AreSums(g, f, S)
    BY <1>1 DEF AreSums
<1>3. PICK h : AreSums(h, f, S) /\ SumFunctionOnSet(f, S) = h[S]
    BY SumIsOne
<1>4. g[S] = 0
    OBVIOUS
<1> HIDE DEF g
<1> QED
    BY <1>2, <1>3, <1>4, SumsAgree

(* A sum looks at the values of its elements only.                         *)
LEMMA SumOfSame ==
    ASSUME NEW S, IsFiniteSet(S), NEW f, NEW h, \A x \in S : f[x] = h[x]
    PROVE  SumFunctionOnSet(f, S) = SumFunctionOnSet(h, S)
<1>1. PICK g : AreSums(g, f, S) /\ SumFunctionOnSet(f, S) = g[S]
    BY SumIsOne
<1>2. PICK k : AreSums(k, h, S) /\ SumFunctionOnSet(h, S) = k[S]
    BY SumIsOne
<1>3. AreSums(g, h, S)
    <2>1. \A s \in SUBSET S : SumNext(g, f, s) = SumNext(g, h, s)
        <3>1. \A s \in SUBSET S : s # {} => SumFirst(s) \in S
            BY SumFirstIsIn
        <3> QED
            BY <3>1 DEF SumNext
    <2> QED
        BY <1>1, <2>1 DEF AreSums
<1> QED
    BY <1>1, <1>2, <1>3, SumsAgree

(* Any element can be taken out of a sum.                                  *)
LEMMA SumTakes ==
    ASSUME NEW S, IsFiniteSet(S), NEW f, Whole(f, S), NEW a \in S
    PROVE  /\ SumFunctionOnSet(f, S) \in Int /\ SumFunctionOnSet(f, S \ {a}) \in Int
           /\ SumFunctionOnSet(f, S) = f[a] + SumFunctionOnSet(f, S \ {a})
<1>1. PICK g : AreSums(g, f, S) /\ SumFunctionOnSet(f, S) = g[S]
    BY SumIsOne
<1>2. IsFiniteSet(S \ {a})
    BY FS_Subset
<1>3. PICK h : AreSums(h, f, S \ {a}) /\ SumFunctionOnSet(f, S \ {a}) = h[S \ {a}]
    BY <1>2, SumIsOne
<1>4. g[S \ {a}] = h[S \ {a}]
    BY <1>1, <1>3, SumsAgree
<1>5. g[S] = f[a] + g[S \ {a}] /\ g[S] \in Int /\ g[S \ {a}] \in Int
    <2>1. Splits(g, f, S) /\ Splits(g, f, S \ {a})
        BY <1>1, SumsTake
    <2> QED
        BY <2>1 DEF Splits
<1> QED
    BY <1>1, <1>3, <1>4, <1>5

(* A value that grows makes the sum grow by as much.                       *)
LEMMA SumGrows ==
    ASSUME NEW S, IsFiniteSet(S), NEW f, Whole(f, S), NEW h, NEW a \in S, NEW d \in Int,
           h[a] = f[a] + d, \A x \in S : x # a => h[x] = f[x]
    PROVE  SumFunctionOnSet(h, S) = SumFunctionOnSet(f, S) + d
<1>1. Whole(h, S)
    BY DEF Whole
<1>2. IsFiniteSet(S \ {a}) /\ \A x \in S \ {a} : h[x] = f[x]
    BY FS_Subset
<1>3. SumFunctionOnSet(h, S \ {a}) = SumFunctionOnSet(f, S \ {a})
    BY <1>2, SumOfSame
<1>4. /\ SumFunctionOnSet(f, S) = f[a] + SumFunctionOnSet(f, S \ {a})
      /\ SumFunctionOnSet(f, S) \in Int /\ SumFunctionOnSet(f, S \ {a}) \in Int
    BY SumTakes
<1>5. SumFunctionOnSet(h, S) = h[a] + SumFunctionOnSet(h, S \ {a})
    BY <1>1, SumTakes
<1> QED
    BY <1>3, <1>4, <1>5 DEF Whole

(* A sum with one value that is not zero is this value.                    *)
LEMMA SumOfOne ==
    ASSUME NEW S, IsFiniteSet(S), NEW f, NEW a \in S, f[a] \in Int, \A x \in S : x # a => f[x] = 0
    PROVE  SumFunctionOnSet(f, S) = f[a]
<1>1. Whole(f, S) /\ IsFiniteSet(S \ {a})
    BY FS_Subset DEF Whole
<1>2. SumFunctionOnSet(f, S \ {a}) = 0
    BY <1>1, SumOfZeros
<1> QED
    BY <1>1, <1>2, SumTakes
=============================================================================

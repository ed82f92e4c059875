---------------------------- MODULE NumberFacts ----------------------------
(* Induction over numbers in steps, the greatest number of a bounded set,     *)
(* sums over finite sets and division rounding down, for the proofs about     *)
(* chains of headers, position indices, lenders' balances and amounts.        *)
EXTENDS Integers, FiniteSetsExt, FiniteSetTheorems, WellFoundedInduction, TLAPS

\* A set of numbers that holds 0 and, with each number, the next one, holds all.
LEMMA InSteps ==
    ASSUME NEW S \in SUBSET Nat, 0 \in S, \A n \in S : n + 1 \in S
    PROVE  S = Nat
<1> DEFINE T == Nat \ S
<1>1. SUFFICES ASSUME T # {} PROVE FALSE
    OBVIOUS
<1>2. PICK x \in T : \A y \in T : ~(y < x)
  <2>1. IsWellFoundedOn(OpToRel(<, Nat), Nat)
      BY NatLessThanWellFounded
  <2>2. \E x \in T : \A y \in T : ~(<<y, x>> \in OpToRel(<, Nat))
      BY <1>1, <2>1, WFMin
  <2> QED
      BY <2>2 DEF OpToRel
<1>3. x \in Nat /\ x # 0
    OBVIOUS
<1>4. x - 1 \in Nat /\ x - 1 < x
    BY <1>3
<1>5. x - 1 \in S
    BY <1>2, <1>4
<1> QED
    BY <1>3, <1>5

\* Natural numbers have a least one.
LEMMA LeastIs ==
    ASSUME NEW S \in SUBSET Nat, S # {}
    PROVE  \E x \in S : \A y \in S : x <= y
<1>1. IsWellFoundedOn(OpToRel(<, Nat), Nat)
    BY NatLessThanWellFounded
<1>2. \E x \in S : \A y \in S : ~(<<y, x>> \in OpToRel(<, Nat))
    BY <1>1, WFMin
<1>3. PICK x \in S : \A y \in S : ~(y < x)
    BY <1>2 DEF OpToRel
<1> QED
    BY <1>3

\* Max of FiniteSetsExt is what its name says on a bounded set of numbers.
LEMMA MaxIs ==
    ASSUME NEW S \in SUBSET Int, NEW top \in Int, \A x \in S : x <= top, S # {}
    PROVE  Max(S) \in S /\ \A x \in S : x <= Max(S)
<1> DEFINE D == {top - x : x \in S}
<1>1. D \in SUBSET Nat /\ D # {}
  <2>1. \A x \in S : top - x \in Nat
      OBVIOUS
  <2>2. PICK x \in S : TRUE
      OBVIOUS
  <2>3. top - x \in D
      OBVIOUS
  <2> QED
      BY <2>1, <2>3
<1>2. PICK d \in D : \A y \in D : ~(y < d)
  <2>1. IsWellFoundedOn(OpToRel(<, Nat), Nat)
      BY NatLessThanWellFounded
  <2>2. \E d \in D : \A y \in D : ~(<<y, d>> \in OpToRel(<, Nat))
      BY <1>1, <2>1, WFMin
  <2> QED
      BY <1>1, <2>2 DEF OpToRel
<1>3. PICK m \in S : d = top - m
    OBVIOUS
<1>4. \A x \in S : m >= x
  <2>1. ASSUME NEW x \in S PROVE m >= x
    <3>1. top - x \in D /\ ~(top - x < d)
        BY <1>2
    <3> QED
        BY <1>3, <3>1
  <2> QED
      BY <2>1
<1> QED
    BY <1>4 DEF Max

\* The same for two numbers.
LEMMA MaxOfTwo ==
    ASSUME NEW a \in Int, NEW b \in Int
    PROVE  Max({a, b}) \in {a, b} /\ Max({a, b}) >= a /\ Max({a, b}) >= b
<1>1. PICK top \in {a, b} : a <= top /\ b <= top
    OBVIOUS
<1> QED
    BY <1>1, MaxIs

\* A set that holds n and, with a number above c, the one below it, holds c..n.
LEMMA Downward ==
    ASSUME NEW c \in Int, NEW n \in Int, NEW S,
           n \in S, \A i \in (c + 1)..n : i \in S => i - 1 \in S
    PROVE  \A i \in c..n : i \in S
<1> DEFINE T == {k \in Nat : k <= n - c => n - k \in S}
<1>1. 0 \in T
    OBVIOUS
<1>2. ASSUME NEW k \in T PROVE k + 1 \in T
  <2>1. SUFFICES ASSUME k + 1 <= n - c PROVE n - (k + 1) \in S
      OBVIOUS
  <2>2. n - k \in (c + 1)..n /\ n - k \in S
      BY <2>1
  <2>3. (n - k) - 1 \in S
      BY <2>2
  <2> QED
      BY <2>3
<1> HIDE DEF T
<1>3. T = Nat
  <2>1. T \in SUBSET Nat
      BY DEF T
  <2> QED
      BY <1>1, <1>2, <2>1, InSteps
<1>4. ASSUME NEW i \in c..n PROVE i \in S
  <2>1. n - i \in Nat /\ n - i <= n - c /\ n - (n - i) = i
      OBVIOUS
  <2>2. n - i \in T
      BY <1>3, <2>1
  <2> QED
      BY <2>1, <2>2 DEF T
<1> QED
    BY <1>4

\* A set that holds 0 and, with a number below n, the one above it, holds 0..n.
LEMMA Upward ==
    ASSUME NEW n \in Nat, NEW S, 0 \in S, \A i \in 0..(n - 1) : i \in S => i + 1 \in S
    PROVE  \A i \in 0..n : i \in S
<1> DEFINE T == {k \in Nat : k <= n => k \in S}
<1>1. 0 \in T
    OBVIOUS
<1>2. ASSUME NEW k \in T PROVE k + 1 \in T
    OBVIOUS
<1> HIDE DEF T
<1>3. T = Nat
  <2>1. T \in SUBSET Nat
      BY DEF T
  <2> QED
      BY <1>1, <1>2, <2>1, InSteps
<1> QED
    BY <1>3 DEF T

-----------------------------------------------------------------------------
(* Sums over finite sets.  MapThenSumSet takes the elements of a set one by   *)
(* one, always the one that CHOOSE picks of those left.                       *)

Picked(s) == CHOOSE x \in s : TRUE

\* F gives the sum of f over each set of a family.
SumsUp(F, f, Sets) ==
    F = [s \in Sets |-> IF s = {} THEN 0 ELSE f[Picked(s)] + F[s \ {Picked(s)}]]

\* The subsets of S with at most n elements.
Small(S, n) == {s \in SUBSET S : Cardinality(s) <= n}

Total(f, S) == MapThenSumSet(LAMBDA x : f[x], S)

\* What is left of a set without the element picked.
LEMMA Rest ==
    ASSUME NEW S, IsFiniteSet(S), NEW s \in SUBSET S, s # {}
    PROVE  /\ Picked(s) \in s /\ s \ {Picked(s)} \in SUBSET S
           /\ Cardinality(s) \in Nat /\ Cardinality(s \ {Picked(s)}) = Cardinality(s) - 1
<1>1. Picked(s) \in s
    BY DEF Picked
<1>2. IsFiniteSet(s)
    BY FS_Subset
<1>3. Cardinality(s) \in Nat
    BY <1>2, FS_CardinalityType
<1> QED
    BY <1>1, <1>2, <1>3, FS_RemoveElement

\* A family that holds the empty set and, when it holds what is left of a set
\* without the element picked, that set, holds every subset.
LEMMA SubsetInduction ==
    ASSUME NEW S, IsFiniteSet(S), NEW T, {} \in T,
           \A s \in SUBSET S : s # {} /\ s \ {Picked(s)} \in T => s \in T
    PROVE  SUBSET S \subseteq T
<1> DEFINE N == {n \in Nat : Small(S, n) \subseteq T}
<1>1. 0 \in N
  <2>1. ASSUME NEW s \in Small(S, 0) PROVE s = {}
    <3>1. IsFiniteSet(s) /\ Cardinality(s) <= 0
        BY FS_Subset DEF Small
    <3>2. Cardinality(s) = 0
        BY <3>1, FS_CardinalityType
    <3> QED
        BY <3>1, <3>2, FS_EmptySet
  <2> QED
      BY <2>1
<1>2. ASSUME NEW n \in N PROVE n + 1 \in N
  <2>1. ASSUME NEW s \in Small(S, n + 1) PROVE s \in T
    <3>1. CASE s = {}
        BY <3>1
    <3>2. CASE s # {}
      <4>1. s \in SUBSET S /\ Cardinality(s) <= n + 1
          BY <2>1 DEF Small
      <4>2. s \ {Picked(s)} \in Small(S, n)
          BY <3>2, <4>1, Rest DEF Small
      <4> QED
          BY <3>2, <4>1, <4>2
    <3> QED
        BY <3>1, <3>2
  <2> QED
      BY <2>1
<1> HIDE DEF N
<1>3. N = Nat
  <2>1. N \in SUBSET Nat
      BY DEF N
  <2> QED
      BY <1>1, <1>2, <2>1, InSteps
<1>4. SUBSET S \subseteq Small(S, Cardinality(S))
    BY FS_Subset DEF Small
<1>5. Cardinality(S) \in Nat
    BY FS_CardinalityType
<1> QED
    BY <1>3, <1>4, <1>5 DEF N

\* The sums exist for the small subsets, and so for all.
HasSums(f, S, n) == \E F : SumsUp(F, f, Small(S, n))

\* A function that gives the sums exists for every finite set.
LEMMA SumsExist ==
    ASSUME NEW S, IsFiniteSet(S), NEW f
    PROVE  \E F : SumsUp(F, f, SUBSET S)
<1> DEFINE N == {n \in Nat : HasSums(f, S, n)}
<1>1. 0 \in N
  <2> DEFINE F == [s \in Small(S, 0) |-> 0]
  <2>1. ASSUME NEW s \in Small(S, 0) PROVE s = {}
    <3>1. IsFiniteSet(s) /\ Cardinality(s) <= 0
        BY FS_Subset DEF Small
    <3>2. Cardinality(s) = 0
        BY <3>1, FS_CardinalityType
    <3> QED
        BY <3>1, <3>2, FS_EmptySet
  <2>2. SumsUp(F, f, Small(S, 0))
      BY <2>1 DEF SumsUp
  <2> QED
      BY <2>2 DEF HasSums
<1>2. ASSUME NEW n \in N PROVE n + 1 \in N
  <2>1. PICK F : SumsUp(F, f, Small(S, n))
      BY DEF HasSums
  <2> DEFINE G == [s \in Small(S, n + 1) |->
                     IF s = {} THEN 0 ELSE f[Picked(s)] + F[s \ {Picked(s)}]]
  <2>2. \A s \in Small(S, n) :
          F[s] = IF s = {} THEN 0 ELSE f[Picked(s)] + F[s \ {Picked(s)}]
      BY <2>1 DEF SumsUp
  <2>3. \A s \in Small(S, n + 1) :
          G[s] = IF s = {} THEN 0 ELSE f[Picked(s)] + F[s \ {Picked(s)}]
      OBVIOUS
  <2>4. Small(S, n) \subseteq Small(S, n + 1)
    <3>1. \A s \in SUBSET S : Cardinality(s) \in Nat
        BY FS_Subset, FS_CardinalityType
    <3> QED
        BY <3>1 DEF Small
  <2>5. ASSUME NEW s \in Small(S, n + 1), s # {}
        PROVE  F[s \ {Picked(s)}] = G[s \ {Picked(s)}]
    <3>1. s \ {Picked(s)} \in Small(S, n)
        BY <2>5, Rest DEF Small
    <3> HIDE DEF G
    <3> QED
        BY <2>2, <2>3, <2>4, <3>1
  <2>6. G = [s \in Small(S, n + 1) |->
               IF s = {} THEN 0 ELSE f[Picked(s)] + G[s \ {Picked(s)}]]
    <3>1. \A s \in Small(S, n + 1) :
            G[s] = IF s = {} THEN 0 ELSE f[Picked(s)] + G[s \ {Picked(s)}]
        BY <2>3, <2>5
    <3> QED
        BY <3>1
  <2> HIDE DEF G
  <2>7. SumsUp(G, f, Small(S, n + 1))
      BY <2>6 DEF SumsUp
  <2> QED
      BY <2>7 DEF HasSums
<1> HIDE DEF N
<1>3. N = Nat
  <2>1. N \in SUBSET Nat
      BY DEF N
  <2> QED
      BY <1>1, <1>2, <2>1, InSteps
<1>4. Small(S, Cardinality(S)) = SUBSET S
    BY FS_Subset DEF Small
<1>5. Cardinality(S) \in Nat
    BY FS_CardinalityType
<1>6. HasSums(f, S, Cardinality(S))
    BY <1>3, <1>5 DEF N
<1> QED
    BY <1>4, <1>6 DEF HasSums

\* The community modules' sum is one of them.
LEMMA TotalSums ==
    ASSUME NEW S, IsFiniteSet(S), NEW f
    PROVE  \E F : SumsUp(F, f, SUBSET S) /\ Total(f, S) = F[S]
<1> DEFINE F == CHOOSE G : SumsUp(G, f, SUBSET S)
<1>1. SumsUp(F, f, SUBSET S)
    BY SumsExist
<1>2. Total(f, S) = F[S]
    BY DEF Total, MapThenSumSet, MapThenFoldSet, SumsUp, Picked
<1> QED
    BY <1>1, <1>2

\* A sum of integers, taken apart: what one element adds.
Adds(F, f, S) ==
    /\ F[{}] = 0
    /\ \A s \in SUBSET S : F[s] \in Int
    /\ \A s \in SUBSET S : s # {} => F[s] = f[Picked(s)] + F[s \ {Picked(s)}]

LEMMA SumStep ==
    ASSUME NEW S, IsFiniteSet(S), NEW f \in [S -> Int], NEW F, SumsUp(F, f, SUBSET S)
    PROVE  Adds(F, f, S)
<1>1. F[{}] = 0 /\ \A s \in SUBSET S : s # {} => F[s] = f[Picked(s)] + F[s \ {Picked(s)}]
  <2>1. \A s \in SUBSET S : F[s] = IF s = {} THEN 0 ELSE f[Picked(s)] + F[s \ {Picked(s)}]
      BY DEF SumsUp
  <2> QED
      BY <2>1, Zenon
<1> DEFINE T == {s \in SUBSET S : F[s] \in Int}
<1>2. {} \in T
    BY <1>1
<1>3. ASSUME NEW s \in SUBSET S, s # {}, s \ {Picked(s)} \in T PROVE s \in T
  <2>1. f[Picked(s)] \in Int
      BY <1>3, Rest
  <2>2. F[s \ {Picked(s)}] \in Int
      BY <1>3, Zenon
  <2>3. f[Picked(s)] + F[s \ {Picked(s)}] \in Int
      BY <2>1, <2>2
  <2>4. F[s] = f[Picked(s)] + F[s \ {Picked(s)}]
      BY <1>1, <1>3, Zenon
  <2> QED
      BY <2>3, <2>4, Zenon
<1> HIDE DEF T
<1>4. SUBSET S \subseteq T
    BY <1>2, <1>3, SubsetInduction
<1> QED
    BY <1>1, <1>4 DEF T, Adds

\* A sum of zeros is zero.
LEMMA TotalOfZeros ==
    ASSUME NEW S, IsFiniteSet(S), NEW f \in [S -> {0}]
    PROVE  Total(f, S) = 0
<1>1. PICK F : SumsUp(F, f, SUBSET S) /\ Total(f, S) = F[S]
    BY TotalSums
<1>2. f \in [S -> Int]
    OBVIOUS
<1> DEFINE T == {s \in SUBSET S : F[s] = 0}
<1>3. {} \in T
    BY <1>1, <1>2, SumStep DEF Adds
<1>4. ASSUME NEW s \in SUBSET S, s # {}, s \ {Picked(s)} \in T PROVE s \in T
  <2>1. f[Picked(s)] = 0
      BY <1>4, Rest
  <2>2. F[s] = f[Picked(s)] + F[s \ {Picked(s)}]
      BY <1>1, <1>2, <1>4, SumStep DEF Adds
  <2> QED
      BY <1>4, <2>1, <2>2
<1> HIDE DEF T
<1>5. SUBSET S \subseteq T
    BY <1>3, <1>4, SubsetInduction
<1> QED
    BY <1>1, <1>5 DEF T

\* When one term changes, the sum changes with it.
LEMMA TotalChanges ==
    ASSUME NEW S, IsFiniteSet(S), NEW f \in [S -> Int], NEW g \in [S -> Int], NEW x \in S,
           \A y \in S \ {x} : g[y] = f[y]
    PROVE  Total(f, S) \in Int /\ Total(g, S) = Total(f, S) + (g[x] - f[x])
<1>1. PICK F : SumsUp(F, f, SUBSET S) /\ Total(f, S) = F[S]
    BY TotalSums
<1>2. PICK G : SumsUp(G, g, SUBSET S) /\ Total(g, S) = G[S]
    BY TotalSums
<1>3. Adds(F, f, S) /\ Adds(G, g, S)
    BY <1>1, <1>2, SumStep
<1> DEFINE T == {s \in SUBSET S : G[s] = F[s] + IF x \in s THEN g[x] - f[x] ELSE 0}
<1>5. {} \in T
    BY <1>3 DEF Adds
<1>6. ASSUME NEW s \in SUBSET S, s # {}, s \ {Picked(s)} \in T PROVE s \in T
  <2> DEFINE p == Picked(s)
             rest == s \ {p}
  <2>1. p \in s /\ rest \in SUBSET S
      BY <1>6, Rest
  <2>2. F[s] = f[p] + F[rest] /\ G[s] = g[p] + G[rest]
      BY <1>3, <1>6 DEF Adds
  <2>3. F[rest] \in Int /\ F[s] \in Int /\ f[p] \in Int /\ f[x] \in Int /\ g[x] \in Int
      BY <1>3, <2>1 DEF Adds
  <2>4. G[rest] = F[rest] + IF x \in rest THEN g[x] - f[x] ELSE 0
      BY <1>6
  <2> HIDE DEF p
  <2>5. CASE p = x
      BY <2>1, <2>2, <2>3, <2>4, <2>5
  <2>6. CASE p # x
    <3>1. g[p] = f[p] /\ (x \in rest <=> x \in s)
        BY <2>1, <2>6
    <3> QED
        BY <2>1, <2>2, <2>3, <2>4, <3>1
  <2> QED
      BY <2>5, <2>6
<1> HIDE DEF T
<1>7. S \in T
    BY <1>5, <1>6, SubsetInduction
<1> QED
    BY <1>1, <1>2, <1>3, <1>7 DEF T, Adds

\* A sum may be taken apart at any of its elements, not only at the one picked.
LEMMA SumWithout ==
    ASSUME NEW S, IsFiniteSet(S), NEW f \in [S -> Int], NEW F, Adds(F, f, S), NEW x \in S
    PROVE  F[S] = f[x] + F[S \ {x}]
<1> DEFINE Apart(s) == \A y \in s : F[s] = f[y] + F[s \ {y}]
           N == {n \in Nat : \A s \in Small(S, n) : Apart(s)}
<1>1. 0 \in N
  <2>1. ASSUME NEW s \in Small(S, 0) PROVE s = {}
    <3>1. IsFiniteSet(s) /\ Cardinality(s) <= 0
        BY FS_Subset DEF Small
    <3>2. Cardinality(s) = 0
        BY <3>1, FS_CardinalityType
    <3> QED
        BY <3>1, <3>2, FS_EmptySet
  <2> QED
      BY <2>1
<1>2. ASSUME NEW n \in N PROVE n + 1 \in N
  <2> SUFFICES ASSUME NEW s \in Small(S, n + 1), NEW y \in s PROVE F[s] = f[y] + F[s \ {y}]
      OBVIOUS
  <2> DEFINE p == Picked(s)
  <2>1. s \in SUBSET S /\ Cardinality(s) <= n + 1 /\ n \in Nat /\ IsFiniteSet(s)
      BY FS_Subset DEF Small
  <2>2. p \in s /\ Cardinality(s) \in Nat
      BY <2>1, Rest
  <2>3. F[s] = f[p] + F[s \ {p}]
      BY <2>1, <2>2 DEF Adds
  <2>4. CASE y = p
      BY <2>3, <2>4
  <2>5. CASE y # p
    <3>1. Cardinality(s \ {p}) = Cardinality(s) - 1
        BY <2>1, <2>2, Rest
    <3>2. s \ {p} \in Small(S, n)
        BY <2>1, <2>2, <3>1 DEF Small
    <3>3. F[s \ {p}] = f[y] + F[(s \ {p}) \ {y}]
        BY <2>5, <3>2
    <3>4. Cardinality(s \ {y}) = Cardinality(s) - 1
        BY <2>1, FS_RemoveElement
    <3>5. s \ {y} \in Small(S, n)
        BY <2>1, <2>2, <3>4 DEF Small
    <3>6. F[s \ {y}] = f[p] + F[(s \ {y}) \ {p}]
        BY <2>2, <2>5, <3>5
    <3>7. (s \ {y}) \ {p} = (s \ {p}) \ {y}
        OBVIOUS
    <3>8. f[p] \in Int /\ f[y] \in Int /\ F[(s \ {p}) \ {y}] \in Int
        BY <2>1, <2>2 DEF Adds
    <3>9. F[s] = f[p] + (f[y] + F[(s \ {p}) \ {y}]) /\ F[s \ {y}] = f[p] + F[(s \ {p}) \ {y}]
        BY <2>3, <3>3, <3>6, <3>7, Zenon
    <3> QED
        BY <3>8, <3>9
  <2> QED
      BY <2>4, <2>5
<1> HIDE DEF N
<1>3. N = Nat
  <2>1. N \in SUBSET Nat
      BY DEF N
  <2> QED
      BY <1>1, <1>2, <2>1, InSteps
<1>4. Cardinality(S) \in Nat
    BY FS_CardinalityType
<1>5. S \in Small(S, Cardinality(S))
    BY <1>4 DEF Small
<1> QED
    BY <1>3, <1>4, <1>5 DEF N

\* Sums over two sets are equal when one is the image of the other, term by term.
LEMMA SumMoves ==
    ASSUME NEW S, IsFiniteSet(S), NEW T, IsFiniteSet(T), NEW h \in [S -> T],
           \A x, y \in S : h[x] = h[y] => x = y,
           \A z \in T : \E x \in S : h[x] = z,
           NEW f \in [S -> Int], NEW g \in [T -> Int], \A x \in S : g[h[x]] = f[x],
           NEW F, SumsUp(F, f, SUBSET S), NEW G, SumsUp(G, g, SUBSET T)
    PROVE  F[S] = G[T] /\ F[S] \in Int
<1>1. Adds(F, f, S) /\ Adds(G, g, T)
    BY SumStep
<1> DEFINE Image(s) == {h[x] : x \in s}
           Same == {s \in SUBSET S : G[Image(s)] = F[s]}
<1>2. {} \in Same
  <2>1. Image({}) = {}
      OBVIOUS
  <2> QED
      BY <1>1, <2>1 DEF Adds
<1>3. ASSUME NEW s \in SUBSET S, s # {}, s \ {Picked(s)} \in Same PROVE s \in Same
  <2>1. PICK p \in s : p = Picked(s)
      BY <1>3, Rest
  <2>2. F[s] = f[p] + F[s \ {p}]
      BY <1>1, <1>3, <2>1 DEF Adds
  <2>3. Image(s) \in SUBSET T /\ IsFiniteSet(Image(s)) /\ h[p] \in Image(s)
    <3>1. Image(s) \in SUBSET T /\ h[p] \in Image(s)
        OBVIOUS
    <3> QED
        BY <3>1, FS_Subset
  <2>4. Image(s \ {p}) = Image(s) \ {h[p]}
      OBVIOUS
  <2>5. G[Image(s)] = g[h[p]] + G[Image(s) \ {h[p]}]
    <3> DEFINE k == [z \in Image(s) |-> g[z]]
    <3>1. k \in [Image(s) -> Int]
        BY <2>3
    <3>2. Adds(G, k, Image(s))
      <4>1. \A q \in SUBSET Image(s) : q \in SUBSET T /\ (q # {} => Picked(q) \in q)
          BY <2>3 DEF Picked
      <4>2. \A q \in SUBSET Image(s) : q # {} => k[Picked(q)] = g[Picked(q)]
          BY <4>1
      <4> HIDE DEF k
      <4> QED
          BY <1>1, <4>1, <4>2 DEF Adds
    <3>3. k[h[p]] = g[h[p]]
        BY <2>3
    <3> HIDE DEF k, Image
    <3>4. PICK im : im = Image(s)
        OBVIOUS
    <3>5. PICK y \in im : y = h[p]
        BY <2>3, <3>4
    <3>6. IsFiniteSet(im) /\ k \in [im -> Int] /\ Adds(G, k, im)
        BY <2>3, <3>1, <3>2, <3>4, Zenon
    <3>7. G[im] = k[y] + G[im \ {y}]
        BY <3>6, SumWithout
    <3> QED
        BY <3>3, <3>4, <3>5, <3>7, Zenon
  <2>6. g[h[p]] = f[p] /\ G[Image(s \ {p})] = F[s \ {p}]
      BY <1>3, <2>1
  <2> HIDE DEF Image
  <2>7. G[Image(s)] = F[s]
      BY <2>2, <2>4, <2>5, <2>6, Zenon
  <2> QED
      BY <2>7
<1>4. SUBSET S \subseteq Same
  <2> HIDE DEF Same
  <2> QED
      BY <1>2, <1>3, SubsetInduction
<1>5. Image(S) = T
    OBVIOUS
<1>6. G[Image(S)] = F[S]
    BY <1>4
<1> QED
    BY <1>1, <1>5, <1>6 DEF Adds

\* The sums of a set are the community modules' sums of its parts.
LEMMA TotalOfPart ==
    ASSUME NEW S, IsFiniteSet(S), NEW f, NEW F, SumsUp(F, f, SUBSET S), NEW A \in SUBSET S
    PROVE  Total(f, A) = F[A]
<1>1. IsFiniteSet(A)
    BY FS_Subset
<1>2. PICK G : SumsUp(G, f, SUBSET A) /\ Total(f, A) = G[A]
    BY <1>1, TotalSums
<1> DEFINE T == {s \in SUBSET A : G[s] = F[s]}
<1>3. \A s \in SUBSET A : /\ G[s] = IF s = {} THEN 0 ELSE f[Picked(s)] + G[s \ {Picked(s)}]
                          /\ F[s] = IF s = {} THEN 0 ELSE f[Picked(s)] + F[s \ {Picked(s)}]
    BY <1>2 DEF SumsUp
<1>4. {} \in T
    BY <1>3
<1>5. ASSUME NEW s \in SUBSET A, s # {}, s \ {Picked(s)} \in T PROVE s \in T
    BY <1>3, <1>5, Zenon
<1> HIDE DEF T
<1>6. SUBSET A \subseteq T
    BY <1>1, <1>4, <1>5, SubsetInduction
<1> QED
    BY <1>2, <1>6 DEF T

\* Sums of integers stay so on a part.
LEMMA AddsOnPart ==
    ASSUME NEW S, IsFiniteSet(S), NEW f \in [S -> Int], NEW F, Adds(F, f, S), NEW A \in SUBSET S,
           NEW x \in A
    PROVE  F[A] = f[x] + F[A \ {x}]
<1> DEFINE g == [y \in A |-> f[y]]
<1>1. IsFiniteSet(A) /\ g \in [A -> Int]
    BY FS_Subset
<1>2. \A s \in SUBSET A : s # {} => Picked(s) \in A
    BY <1>1, Rest
<1>3. \A s \in SUBSET A : s # {} => g[Picked(s)] = f[Picked(s)]
    BY <1>2
<1>4. g[x] = f[x]
    OBVIOUS
<1> HIDE DEF g
<1>5. \A s \in SUBSET A : s \in SUBSET S
    OBVIOUS
<1>6. Adds(F, g, A)
    BY <1>3, <1>5, Zenon DEF Adds
<1> QED
    BY <1>1, <1>4, <1>6, SumWithout

\* What is left out of a sum counts for at least its least term each.
LEMMA PartAddsUp ==
    ASSUME NEW S, IsFiniteSet(S), NEW f \in [S -> Int], NEW A \in SUBSET S,
           NEW low \in Nat, \A x \in S : f[x] >= low
    PROVE  /\ Total(f, S) \in Int /\ Total(f, A) \in Int
           /\ Total(f, S) >= Total(f, A) + low * (Cardinality(S) - Cardinality(A))
<1>1. PICK F : SumsUp(F, f, SUBSET S) /\ Total(f, S) = F[S]
    BY TotalSums
<1>2. Adds(F, f, S)
    BY <1>1, SumStep
<1>3. Total(f, A) = F[A]
    BY <1>1, TotalOfPart
<1>4. \A s \in SUBSET S : F[s] \in Int
    BY <1>2 DEF Adds
<1>5. \A s \in SUBSET S : IsFiniteSet(s) /\ Cardinality(s) \in Nat
    BY FS_Subset, FS_CardinalityType
<1> DEFINE Above(s, a) == F[s] >= F[a] + low * (Cardinality(s) - Cardinality(a))
           T == {s \in SUBSET S : \A a \in SUBSET s : Above(s, a)}
<1>6. {} \in T
  <2>1. Above({}, {})
      BY <1>4, <1>5
  <2> QED
      BY <2>1
<1>7. ASSUME NEW s \in SUBSET S, s # {}, s \ {Picked(s)} \in T PROVE s \in T
  <2> SUFFICES ASSUME NEW a \in SUBSET s PROVE Above(s, a)
      OBVIOUS
  <2> DEFINE p == Picked(s)
  <2>1. p \in s /\ p \in S /\ Cardinality(s \ {p}) = Cardinality(s) - 1
      BY <1>7, Rest
  <2> HIDE DEF p
  <2>2. F[s] = f[p] + F[s \ {p}]
      BY <1>2, <2>1, AddsOnPart
  <2>3. f[p] \in Int /\ f[p] >= low
      BY <2>1
  <2>4. /\ F[s] \in Int /\ F[a] \in Int /\ F[s \ {p}] \in Int /\ F[a \ {p}] \in Int
        /\ Cardinality(s) \in Nat /\ Cardinality(a) \in Nat
      BY <1>4, <1>5
  <2>5. CASE p \in a
    <3>1. F[a] = f[p] + F[a \ {p}]
        BY <1>2, <2>5, AddsOnPart
    <3>2. Cardinality(a \ {p}) = Cardinality(a) - 1
        BY <1>5, <2>5, FS_RemoveElement
    <3>3. Above(s \ {p}, a \ {p})
        BY <1>7 DEF p
    <3>4. F[s \ {p}] >= F[a \ {p}] + low * (Cardinality(s) - Cardinality(a))
      <4>1. (Cardinality(s) - 1) - (Cardinality(a) - 1) = Cardinality(s) - Cardinality(a)
          BY <2>4
      <4> QED
          BY <2>1, <3>2, <3>3, <4>1
    <3>5. low * (Cardinality(s) - Cardinality(a)) \in Int
        BY <2>4
    <3> QED
        BY <2>2, <2>3, <2>4, <3>1, <3>4, <3>5
  <2>6. CASE p \notin a
    <3>1. Above(s \ {p}, a)
        BY <1>7, <2>6 DEF p
    <3>2. F[s \ {p}] >= F[a] + low * ((Cardinality(s) - 1) - Cardinality(a))
        BY <2>1, <3>1
    <3>3. low * ((Cardinality(s) - 1) - Cardinality(a)) + low
              = low * (Cardinality(s) - Cardinality(a))
        BY <2>4
    <3>4. low * ((Cardinality(s) - 1) - Cardinality(a)) \in Int
        BY <2>4
    <3> QED
        BY <2>2, <2>3, <2>4, <3>2, <3>3, <3>4
  <2> QED
      BY <2>5, <2>6
<1> HIDE DEF T
<1>8. SUBSET S \subseteq T
    BY <1>6, <1>7, SubsetInduction
<1> QED
    BY <1>1, <1>3, <1>4, <1>8 DEF T

\* In an order of S, given by what is before each element, no more than n elements
\* have fewer than n before them.
LEMMA FirstAreFew ==
    ASSUME NEW S, IsFiniteSet(S), NEW Before, Before \in [S -> SUBSET S],
           \A x \in S : x \notin Before[x],
           \A x, y \in S : x # y => x \in Before[y] \/ y \in Before[x],
           \A x, y \in S : x \in Before[y] => Before[x] \subseteq Before[y],
           NEW n \in Nat
    PROVE  Cardinality({x \in S : Cardinality(Before[x]) < n}) <= n
<1> DEFINE A == {x \in S : Cardinality(Before[x]) < n}
           h == [x \in A |-> Cardinality(Before[x]) + 1]
<1>1. \A x \in S : IsFiniteSet(Before[x]) /\ Cardinality(Before[x]) \in Nat
    BY FS_Subset, FS_CardinalityType
<1>2. ASSUME NEW x \in S, NEW y \in S, x \in Before[y]
      PROVE  Cardinality(Before[x]) < Cardinality(Before[y])
  <2>1. Before[x] \in SUBSET Before[y] /\ Before[x] # Before[y]
      BY <1>2
  <2>2. Cardinality(Before[x]) <= Cardinality(Before[y])
        /\ Cardinality(Before[x]) # Cardinality(Before[y])
      BY <1>1, <2>1, FS_Subset
  <2> QED
      BY <1>1, <2>2
<1>3. h \in Injection(A, 1..n)
  <2>1. h \in [A -> 1..n]
      BY <1>1
  <2>2. ASSUME NEW x \in A, NEW y \in A, h[x] = h[y] PROVE x = y
      BY <1>1, <1>2, <2>2
  <2> QED
      BY <2>1, <2>2 DEF Injection, IsInjective
<1>4. IsFiniteSet(1..n) /\ Cardinality(1..n) = n
    BY FS_Interval
<1> HIDE DEF A, h
<1>5. Cardinality(A) <= n
    BY <1>3, <1>4, FS_Injection
<1> QED
    BY <1>5 DEF A

\* A part that leaves out an element is smaller.
LEMMA PartIsSmaller ==
    ASSUME NEW S, IsFiniteSet(S), NEW B \in SUBSET S, NEW x \in S, x \notin B
    PROVE  Cardinality(B) < Cardinality(S)
<1>1. Cardinality(B) <= Cardinality(S) /\ Cardinality(B) # Cardinality(S)
    BY FS_Subset
<1> QED
    BY <1>1, FS_Subset, FS_CardinalityType

-----------------------------------------------------------------------------
(* Division rounding down.                                                     *)

\* The multiple below a number is less than a divisor away.
LEMMA DivBounds ==
    ASSUME NEW a \in Int, NEW b \in Nat \ {0}
    PROVE  /\ a \div b \in Int
           /\ b * (a \div b) <= a
           /\ a < b * (a \div b) + b
OBVIOUS

\* Division of a natural number gives one.
LEMMA DivNat ==
    ASSUME NEW a \in Nat, NEW b \in Nat \ {0}
    PROVE  a \div b \in Nat
OBVIOUS

\* The quotient is the largest number whose multiple fits.
LEMMA DivLargest ==
    ASSUME NEW a \in Int, NEW b \in Nat \ {0}, NEW q \in Int, b * q <= a
    PROVE  q <= a \div b
<1>1. a \div b \in Int /\ a < b * (a \div b) + b
    BY DivBounds
<1>2. SUFFICES ASSUME q >= (a \div b) + 1 PROVE FALSE
    BY <1>1
<1>3. b * q >= b * ((a \div b) + 1)
    BY <1>1, <1>2
<1> QED
    BY <1>1, <1>3

\* Rounding down loses no more on the larger side, up to whole multiples of b.
LEMMA DivAtMost ==
    ASSUME NEW a \in Int, NEW c \in Int, NEW k \in Int, NEW b \in Nat \ {0}, a <= c + k * b
    PROVE  a \div b <= (c \div b) + k
<1>1. a \div b \in Int /\ c \div b \in Int
    BY DivBounds
<1>2. b * (a \div b) <= a /\ c < b * (c \div b) + b
    BY DivBounds
<1>3. b * (a \div b) < b * ((c \div b) + k + 1)
    BY <1>1, <1>2
<1> QED
    BY <1>1, <1>3

\* What a rounded share may claim is covered by the whole.
LEMMA DivCovers ==
    ASSUME NEW v \in Nat, NEW b \in Nat \ {0}, NEW q \in Nat, q <= v \div b
    PROVE  q * b <= v
<1>1. b * (v \div b) <= v /\ v \div b \in Int
    BY DivBounds
<1>2. b * q <= b * (v \div b)
    BY <1>1
<1> QED
    BY <1>1, <1>2

-----------------------------------------------------------------------------
(* Products and quotients.                                                  *)

\* A product grows with its factor.
LEMMA TimesGrows ==
    ASSUME NEW a \in Nat, NEW b \in Nat, NEW c \in Nat, a <= b
    PROVE  a * c <= b * c
OBVIOUS

\* A positive factor of both sides of a comparison may go.
LEMMA TimesCancels ==
    ASSUME NEW a \in Nat, NEW b \in Nat, NEW c \in Nat \ {0}, a * c <= b * c
    PROVE  a <= b
<1> SUFFICES ASSUME b + 1 <= a PROVE FALSE
    OBVIOUS
<1>1. (b + 1) * c <= a * c
    BY TimesGrows
<1>2. (b + 1) * c = b * c + c
    OBVIOUS
<1>3. a * c \in Nat /\ b * c \in Nat /\ c >= 1
    OBVIOUS
<1> QED
    BY <1>1, <1>2, <1>3

\* The quotient is the only number whose multiple is that close below.
LEMMA DivIs ==
    ASSUME NEW a \in Nat, NEW b \in Nat \ {0}, NEW q \in Nat, b * q <= a, a < b * q + b
    PROVE  a \div b = q
<1>1. a \div b \in Nat
    BY DivNat
<1>2. q <= a \div b
    BY DivLargest
<1>3. b * (a \div b) <= a
    BY DivBounds
<1>4. b * (a \div b) < b * (q + 1)
  <2>1. b * (q + 1) = b * q + b
      OBVIOUS
  <2>2. b * q \in Nat /\ b * (a \div b) \in Nat /\ b * (q + 1) \in Nat
      BY <1>1
  <2> QED
      BY <1>3, <2>1, <2>2
<1>5. ~(q + 1 <= a \div b)
  <2> SUFFICES ASSUME q + 1 <= a \div b PROVE FALSE
      OBVIOUS
  <2>1. (q + 1) * b <= (a \div b) * b
      BY <1>1, TimesGrows
  <2>2. (q + 1) * b = b * (q + 1) /\ (a \div b) * b = b * (a \div b)
      BY <1>1
  <2>3. b * (q + 1) \in Nat /\ b * (a \div b) \in Nat
      BY <1>1
  <2> QED
      BY <1>4, <2>1, <2>2, <2>3
<1> QED
    BY <1>1, <1>2, <1>5

\* A quotient rounded down grows with the dividend.
LEMMA DivGrows ==
    ASSUME NEW a \in Nat, NEW c \in Nat, NEW b \in Nat \ {0}, a <= c
    PROVE  a \div b <= c \div b
<1>1. a \div b \in Nat /\ b * (a \div b) <= a
    BY DivNat, DivBounds
<1>2. b * (a \div b) <= c
  <2>1. b * (a \div b) \in Nat
      BY <1>1
  <2> QED
      BY <1>1, <2>1
<1> QED
    BY <1>1, <1>2, DivLargest

\* Dividing by the factor just multiplied by gives back the number.
LEMMA DivOfTimes ==
    ASSUME NEW a \in Nat, NEW b \in Nat \ {0}
    PROVE  (a * b) \div b = a
<1>1. b * a = a * b /\ a * b \in Nat /\ a * b < b * a + b
    OBVIOUS
<1> QED
    BY <1>1, DivIs

\* A factor of both dividend and divisor may go.
LEMMA DivCancels ==
    ASSUME NEW a \in Nat, NEW b \in Nat \ {0}, NEW c \in Nat \ {0}
    PROVE  (a * c) \div (b * c) = a \div b
<1>1. PICK q \in Nat : q = a \div b /\ b * q <= a /\ a < b * q + b
    BY DivNat, DivBounds
<1>2. PICK x \in Nat : x = b * q
    OBVIOUS
<1>3. x * c <= a * c
    BY <1>1, <1>2, TimesGrows
<1>4. (a + 1) * c <= (x + b) * c
  <2>1. a + 1 <= x + b
      BY <1>1, <1>2
  <2> QED
      BY <2>1, TimesGrows
<1>5. PICK y \in Nat \ {0} : y = b * c
    OBVIOUS
<1>6. y * q = x * c
    BY <1>2, <1>5
<1>7. (a + 1) * c = a * c + c /\ (x + b) * c = x * c + y
    BY <1>5
<1>8. y * q <= a * c /\ a * c < y * q + y
  <2>1. a * c \in Nat /\ x * c \in Nat /\ c >= 1
      OBVIOUS
  <2> QED
      BY <1>3, <1>4, <1>5, <1>6, <1>7, <2>1
<1>9. (a * c) \div y = q
    BY <1>8, DivIs
<1> QED
    BY <1>1, <1>5, <1>9

\* Rounding down twice is rounding down once by the product.
LEMMA DivOfDiv ==
    ASSUME NEW a \in Nat, NEW b \in Nat \ {0}, NEW c \in Nat \ {0}
    PROVE  (a \div b) \div c = a \div (b * c)
<1>1. PICK x \in Nat : x = a \div b /\ b * x <= a /\ a < b * x + b
    BY DivNat, DivBounds
<1>2. PICK y \in Nat : y = x \div c /\ c * y <= x /\ x < c * y + c
    BY DivNat, DivBounds
<1>3. PICK z \in Nat : z = c * y
    OBVIOUS
<1>4. PICK d \in Nat \ {0} : d = b * c
    OBVIOUS
<1>5. d * y = z * b
    BY <1>3, <1>4
<1>6. z * b <= x * b /\ (x + 1) * b <= (z + c) * b
  <2>1. z <= x /\ x + 1 <= z + c
      BY <1>2, <1>3
  <2> QED
      BY <2>1, TimesGrows
<1>7. (x + 1) * b = b * x + b /\ (z + c) * b = z * b + d /\ x * b = b * x
    BY <1>4
<1>8. d * y <= a /\ a < d * y + d
  <2>1. b * x \in Nat /\ z * b \in Nat
      OBVIOUS
  <2> QED
      BY <1>1, <1>4, <1>5, <1>6, <1>7, <2>1
<1> QED
    BY <1>1, <1>2, <1>4, <1>8, DivIs
=============================================================================

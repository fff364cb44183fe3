--------------------------- MODULE InductionLemmas ---------------------------
(***************************************************************************)
(* Induction over natural numbers and over finite sets, stated with a set  *)
(* where a predicate would stand, and what it says of sums over a finite   *)
(* set.  The other proof modules cite these lemmas.                        *)
(***************************************************************************)
EXTENDS Integers, FiniteSetsExt, FiniteSetTheorems, WellFoundedInduction, TLAPS

-----------------------------------------------------------------------------
\* Natural numbers.

\* Every set of natural numbers that is not empty has a least element.
LEMMA LeastNatural ==
  ASSUME NEW N \in SUBSET Nat, N # {}
  PROVE  \E n \in N : \A m \in N : n <= m
<1> DEFINE R == OpToRel(<, Nat)
<1>1. IsWellFoundedOn(R, Nat)
  BY NatLessThanWellFounded, Zenon
<1>2. \A m, n \in Nat : m < n => <<m, n>> \in R
  BY DEF OpToRel
<1> HIDE DEF R
<1>3. PICK n \in N : \A m \in N : ~(<<m, n>> \in R)
  BY <1>1, WFMin, Zenon
<1>4. ASSUME NEW m \in N PROVE n <= m
  <2>1. m \in Nat /\ n \in Nat /\ ~(m < n)
    BY <1>2, <1>3
  <2> QED BY <2>1
<1> QED BY <1>4

\* The least and the greatest of a set of natural numbers below a bound.
LEMMA MinIs ==
  ASSUME NEW S \in SUBSET Nat, S # {}
  PROVE  Min(S) \in S /\ \A x \in S : Min(S) <= x
BY LeastNatural, Zenon DEF Min

\* The greatest element of a bounded set of natural numbers is the greatest.
LEMMA MaxIs ==
  ASSUME NEW S \in SUBSET Nat, S # {}, NEW b \in Nat, \A x \in S : x <= b
  PROVE  Max(S) \in S /\ \A x \in S : Max(S) >= x
<1> DEFINE Rest == {r \in Nat : \E x \in S : r = b - x}
<1>1. PICK r \in Rest : \A q \in Rest : r <= q
  <2>1. \A x \in S : b - x \in Rest
    OBVIOUS
  <2>2. Rest # {} /\ Rest \in SUBSET Nat
    BY <2>1
  <2> HIDE DEF Rest
  <2> QED BY <2>2, LeastNatural, Zenon
<1>2. PICK m \in S : r = b - m
  BY <1>1
<1>3. ASSUME NEW x \in S PROVE m >= x
  <2>1. b - x \in Rest
    OBVIOUS
  <2>2. b - m <= b - x /\ m \in Nat /\ x \in Nat
    BY <1>1, <1>2, <2>1
  <2> QED BY <2>2
<1> QED BY <1>3, Zenon DEF Max

\* A set that holds zero and with every number its successor holds all of them.
LEMMA InductionOnNat ==
  ASSUME NEW N, 0 \in N, \A n \in Nat : n \in N => n + 1 \in N
  PROVE  Nat \subseteq N
<1> DEFINE Missing == Nat \ N
<1> SUFFICES ASSUME Missing # {} PROVE FALSE
  OBVIOUS
<1>1. PICK n \in Missing : \A m \in Missing : n <= m
  <2> Missing \in SUBSET Nat
    OBVIOUS
  <2> HIDE DEF Missing
  <2> QED BY LeastNatural, Zenon
<1>2. n \in Nat /\ n # 0
  OBVIOUS
<1>3. n - 1 \in Nat /\ ~(n <= n - 1) /\ (n - 1) + 1 = n
  BY <1>2
<1>4. n - 1 \in N
  BY <1>1, <1>3
<1> QED BY <1>3, <1>4

-----------------------------------------------------------------------------
\* Finite sets, taken apart by the element that CHOOSE finds.

Chosen(S) == CHOOSE x \in S : TRUE

\* Without the chosen element a set is smaller by one.
LEMMA ChosenSmaller ==
  ASSUME NEW E, IsFiniteSet(E), NEW S \in SUBSET E, S # {}
  PROVE  /\ Chosen(S) \in S
         /\ S \ {Chosen(S)} \in SUBSET E
         /\ Cardinality(S) \in Nat
         /\ Cardinality(S) > 0
         /\ Cardinality(S \ {Chosen(S)}) = Cardinality(S) - 1
<1>1. Chosen(S) \in S
  BY DEF Chosen
<1>2. IsFiniteSet(S)
  BY FS_Subset
<1>3. Cardinality(S) \in Nat /\ Cardinality(S) # 0
  BY <1>2, FS_CardinalityType, FS_EmptySet
<1>4. Cardinality(S \ {Chosen(S)}) = Cardinality(S) - 1
  BY <1>1, <1>2, FS_RemoveElement
<1> QED BY <1>1, <1>3, <1>4

\* A set of subsets of E that holds the empty one, and every other one whose rest
\* it holds, holds them all.
LEMMA InductionOnSubsets ==
  ASSUME NEW E, IsFiniteSet(E), NEW Good,
         {} \in Good,
         \A S \in SUBSET E : S # {} /\ S \ {Chosen(S)} \in Good => S \in Good
  PROVE  SUBSET E \subseteq Good
<1> DEFINE N == {n \in Nat : \A S \in SUBSET E : Cardinality(S) = n => S \in Good}
<1>1. ASSUME NEW S \in SUBSET E PROVE Cardinality(S) \in Nat
  BY FS_Subset, FS_CardinalityType
<1>2. 0 \in N
  <2>1. ASSUME NEW S \in SUBSET E, Cardinality(S) = 0 PROVE S \in Good
    <3> S = {}
      BY <2>1, FS_Subset, FS_EmptySet
    <3> QED OBVIOUS
  <2> QED BY <2>1
<1>3. ASSUME NEW n \in Nat, n \in N PROVE n + 1 \in N
  <2>1. ASSUME NEW S \in SUBSET E, Cardinality(S) = n + 1 PROVE S \in Good
    <3>1. S # {}
      <4>1. n + 1 # 0
        OBVIOUS
      <4> QED BY <2>1, <4>1, FS_EmptySet
    <3>2. /\ S \ {Chosen(S)} \in SUBSET E
          /\ Cardinality(S \ {Chosen(S)}) = Cardinality(S) - 1
      BY <3>1, ChosenSmaller
    <3>3. Cardinality(S \ {Chosen(S)}) = n
      BY <2>1, <3>2
    <3>4. S \ {Chosen(S)} \in Good
      BY <1>3, <3>2, <3>3
    <3> QED BY <3>1, <3>4
  <2> QED BY <2>1
<1> HIDE DEF N
<1>4. Nat \subseteq N
  BY <1>2, <1>3, InductionOnNat
<1>5. ASSUME NEW S \in SUBSET E PROVE S \in Good
  <2>1. Cardinality(S) \in N
    BY <1>1, <1>4
  <2> QED BY <2>1 DEF N
<1> QED BY <1>5

-----------------------------------------------------------------------------
\* Sums over a finite set, as the fold of the community modules computes them.

SumFcn(f, E) ==
  CHOOSE sum : sum = [S \in SUBSET E |->
     IF S = {} THEN 0 ELSE f[Chosen(S)] + sum[S \ {Chosen(S)}]]

\* What a function does that adds up f over the subsets of at most n elements.
SumsUpTo(sum, f, E, n) ==
  sum = [S \in SUBSET E |->
    IF S = {} \/ Cardinality(S) > n THEN 0 ELSE f[Chosen(S)] + sum[S \ {Chosen(S)}]]

\* A function that adds up sets of at most n elements has an extension.
LEMMA SumsUpToNext ==
  ASSUME NEW E, IsFiniteSet(E), NEW f, NEW n \in Nat, NEW h, SumsUpTo(h, f, E, n)
  PROVE  \E g : SumsUpTo(g, f, E, n + 1)
<1> DEFINE g == [S \in SUBSET E |->
     IF S = {} \/ Cardinality(S) > n + 1 THEN 0 ELSE f[Chosen(S)] + h[S \ {Chosen(S)}]]
<1>1. ASSUME NEW S \in SUBSET E, Cardinality(S) <= n
      PROVE  g[S] = h[S]
  <2>1. h[S] = IF S = {} \/ Cardinality(S) > n THEN 0 ELSE f[Chosen(S)] + h[S \ {Chosen(S)}]
    BY Zenon DEF SumsUpTo
  <2>2. g[S] = IF S = {} \/ Cardinality(S) > n + 1 THEN 0 ELSE f[Chosen(S)] + h[S \ {Chosen(S)}]
    BY Zenon
  <2>3. CASE S = {}
    BY <2>1, <2>2, <2>3, Zenon
  <2>4. CASE S # {}
    <3>1. Cardinality(S) \in Nat
      BY <2>4, ChosenSmaller
    <3>2. ~(Cardinality(S) > n) /\ ~(Cardinality(S) > n + 1)
      BY <1>1, <3>1
    <3> QED BY <2>1, <2>2, <2>4, <3>2, Zenon
  <2> QED BY <2>3, <2>4
<1>2. ASSUME NEW S \in SUBSET E, S # {}, ~(Cardinality(S) > n + 1)
      PROVE g[S \ {Chosen(S)}] = h[S \ {Chosen(S)}]
  <2> DEFINE T == S \ {Chosen(S)}
  <2>1. T \in SUBSET E /\ Cardinality(S) \in Nat /\ Cardinality(T) = Cardinality(S) - 1
    BY <1>2, ChosenSmaller
  <2>2. Cardinality(T) <= n
    BY <1>2, <2>1
  <2> QED BY <1>1, <2>1, <2>2, Zenon
<1>3. SumsUpTo(g, f, E, n + 1)
  BY <1>2, Zenon DEF SumsUpTo
<1> QED BY <1>3, Zenon

\* There is such a function, so the fold is what its equation says.
LEMMA SumEquation ==
  ASSUME NEW E, IsFiniteSet(E), NEW f
  PROVE  /\ SumFcn(f, E)[{}] = 0
         /\ \A S \in SUBSET E : S # {} =>
              SumFcn(f, E)[S] = f[Chosen(S)] + SumFcn(f, E)[S \ {Chosen(S)}]
<1> DEFINE N == {n \in Nat : \E g : SumsUpTo(g, f, E, n)}
<1>1. 0 \in N
  <2> DEFINE g == [S \in SUBSET E |-> 0]
  <2>1. ASSUME NEW S \in SUBSET E PROVE S = {} \/ Cardinality(S) > 0
    BY ChosenSmaller
  <2>2. SumsUpTo(g, f, E, 0)
    BY <2>1 DEF SumsUpTo
  <2> HIDE DEF g
  <2> QED BY <2>2
<1>2. ASSUME NEW n \in Nat, n \in N PROVE n + 1 \in N
  BY <1>2, SumsUpToNext
<1> DEFINE n == Cardinality(E)
<1>3. n \in N
  <2> HIDE DEF N
  <2>1. Nat \subseteq N
    BY <1>1, <1>2, InductionOnNat
  <2> QED BY <2>1, FS_CardinalityType
<1>4. PICK g : SumsUpTo(g, f, E, n)
  BY <1>3, Zenon
<1>5. ASSUME NEW S \in SUBSET E PROVE ~(Cardinality(S) > n)
  <2>1. Cardinality(S) <= n /\ Cardinality(S) \in Nat /\ n \in Nat
    BY FS_Subset, FS_CardinalityType
  <2> QED BY <2>1
<1>6. g = [S \in SUBSET E |-> IF S = {} THEN 0 ELSE f[Chosen(S)] + g[S \ {Chosen(S)}]]
  BY <1>4, <1>5, Zenon DEF SumsUpTo
<1> DEFINE F == SumFcn(f, E)
<1>7. F = [S \in SUBSET E |-> IF S = {} THEN 0 ELSE f[Chosen(S)] + F[S \ {Chosen(S)}]]
  BY <1>6, Zenon DEF SumFcn
<1> HIDE DEF F
<1>8. /\ F[{}] = 0
      /\ \A S \in SUBSET E : S # {} => F[S] = f[Chosen(S)] + F[S \ {Chosen(S)}]
  BY <1>7, Zenon
<1> QED BY <1>8 DEF F

\* A sum of natural numbers is one.
LEMMA SumType ==
  ASSUME NEW E, IsFiniteSet(E), NEW f \in [E -> Nat]
  PROVE  \A S \in SUBSET E : SumFcn(f, E)[S] \in Nat
<1> DEFINE F == SumFcn(f, E)
<1> DEFINE Good == {S \in SUBSET E : F[S] \in Nat}
<1>1. /\ F[{}] = 0
      /\ \A S \in SUBSET E : S # {} => F[S] = f[Chosen(S)] + F[S \ {Chosen(S)}]
  BY SumEquation
<1> HIDE DEF F
<1>2. {} \in Good
  BY <1>1
<1>3. ASSUME NEW S \in SUBSET E, S # {}, S \ {Chosen(S)} \in Good PROVE S \in Good
  <2>1. Chosen(S) \in E /\ S \ {Chosen(S)} \in SUBSET E
    BY <1>3, ChosenSmaller
  <2>2. F[S] = f[Chosen(S)] + F[S \ {Chosen(S)}]
    BY <1>1, <1>3
  <2>3. f[Chosen(S)] \in Nat /\ F[S \ {Chosen(S)}] \in Nat
    BY <1>3, <2>1
  <2>4. F[S] \in Nat
    BY <2>2, <2>3
  <2> QED BY <2>4
<1>4. SUBSET E \subseteq Good
  <2> HIDE DEF Good
  <2> QED BY <1>2, <1>3, InductionOnSubsets
<1> QED BY <1>4 DEF F

\* When one term changes, so does every sum it is part of, by as much.
LEMMA SumChange ==
  ASSUME NEW E, IsFiniteSet(E), NEW f \in [E -> Nat], NEW g \in [E -> Nat], NEW e \in E,
         \A x \in E : x # e => g[x] = f[x]
  PROVE  SumFcn(g, E)[E] = SumFcn(f, E)[E] + g[e] - f[e]
<1> DEFINE F == SumFcn(f, E)
<1> DEFINE G == SumFcn(g, E)
<1> DEFINE Good == {S \in SUBSET E : G[S] = IF e \in S THEN F[S] + g[e] - f[e] ELSE F[S]}
<1>1. /\ F[{}] = 0
      /\ \A S \in SUBSET E : S # {} => F[S] = f[Chosen(S)] + F[S \ {Chosen(S)}]
      /\ \A S \in SUBSET E : F[S] \in Nat
  BY SumEquation, SumType
<1>2. /\ G[{}] = 0
      /\ \A S \in SUBSET E : S # {} => G[S] = g[Chosen(S)] + G[S \ {Chosen(S)}]
      /\ \A S \in SUBSET E : G[S] \in Nat
  BY SumEquation, SumType
<1> HIDE DEF F, G
<1>3. {} \in Good
  BY <1>1, <1>2
<1>4. ASSUME NEW S \in SUBSET E, S # {}, S \ {Chosen(S)} \in Good PROVE S \in Good
  <2> DEFINE x == Chosen(S)
  <2> DEFINE T == S \ {x}
  <2>1. x \in S /\ x \in E /\ T \in SUBSET E
    BY <1>4, ChosenSmaller
  <2>2. F[S] = f[x] + F[T] /\ G[S] = g[x] + G[T]
    BY <1>1, <1>2, <1>4
  <2>3. G[T] = IF e \in T THEN F[T] + g[e] - f[e] ELSE F[T]
    BY <1>4
  <2>4. {F[T], G[T], f[x], g[x], f[e], g[e]} \subseteq Nat
    BY <1>1, <1>2, <2>1
  <2>5. CASE x = e
    BY <2>1, <2>2, <2>3, <2>4, <2>5
  <2>6. CASE x # e
    <3>1. g[x] = f[x] /\ (e \in T <=> e \in S)
      BY <2>1, <2>6
    <3> QED BY <2>2, <2>3, <2>4, <3>1
  <2> QED BY <2>5, <2>6
<1>5. SUBSET E \subseteq Good
  <2> HIDE DEF Good
  <2> QED BY <1>3, <1>4, InductionOnSubsets
<1>6. G[E] = F[E] + g[e] - f[e]
  BY <1>5
<1> QED BY <1>6 DEF F, G

\* When no term grows, the sum does not.
LEMMA SumMonotone ==
  ASSUME NEW E, IsFiniteSet(E), NEW f \in [E -> Nat], NEW g \in [E -> Nat],
         \A x \in E : g[x] <= f[x]
  PROVE  SumFcn(g, E)[E] <= SumFcn(f, E)[E]
<1> DEFINE F == SumFcn(f, E)
<1> DEFINE G == SumFcn(g, E)
<1> DEFINE Good == {S \in SUBSET E : G[S] <= F[S]}
<1>1. /\ F[{}] = 0
      /\ \A S \in SUBSET E : S # {} => F[S] = f[Chosen(S)] + F[S \ {Chosen(S)}]
      /\ \A S \in SUBSET E : F[S] \in Nat
  BY SumEquation, SumType
<1>2. /\ G[{}] = 0
      /\ \A S \in SUBSET E : S # {} => G[S] = g[Chosen(S)] + G[S \ {Chosen(S)}]
      /\ \A S \in SUBSET E : G[S] \in Nat
  BY SumEquation, SumType
<1> HIDE DEF F, G
<1>3. {} \in Good
  BY <1>1, <1>2
<1>4. ASSUME NEW S \in SUBSET E, S # {}, S \ {Chosen(S)} \in Good PROVE S \in Good
  <2> DEFINE x == Chosen(S)
  <2> DEFINE T == S \ {x}
  <2>1. x \in E /\ T \in SUBSET E
    BY <1>4, ChosenSmaller
  <2>2. F[S] = f[x] + F[T] /\ G[S] = g[x] + G[T]
    BY <1>1, <1>2, <1>4
  <2>3. G[T] <= F[T] /\ g[x] <= f[x]
    BY <1>4, <2>1
  <2>4. {F[T], G[T], f[x], g[x]} \subseteq Nat
    BY <1>1, <1>2, <2>1
  <2> QED BY <2>2, <2>3, <2>4
<1>5. SUBSET E \subseteq Good
  <2> HIDE DEF Good
  <2> QED BY <1>3, <1>4, InductionOnSubsets
<1>6. G[E] <= F[E]
  BY <1>5
<1> QED BY <1>6 DEF F, G

\* A sum of zeros is zero.
LEMMA SumZero ==
  ASSUME NEW E, IsFiniteSet(E), NEW f \in [E -> Nat], \A x \in E : f[x] = 0
  PROVE  SumFcn(f, E)[E] = 0
<1> DEFINE F == SumFcn(f, E)
<1> DEFINE Good == {S \in SUBSET E : F[S] = 0}
<1>1. /\ F[{}] = 0
      /\ \A S \in SUBSET E : S # {} => F[S] = f[Chosen(S)] + F[S \ {Chosen(S)}]
  BY SumEquation
<1> HIDE DEF F
<1>2. {} \in Good
  BY <1>1
<1>3. ASSUME NEW S \in SUBSET E, S # {}, S \ {Chosen(S)} \in Good PROVE S \in Good
  <2>1. Chosen(S) \in E /\ S \ {Chosen(S)} \in SUBSET E
    BY <1>3, ChosenSmaller
  <2>2. F[S] = f[Chosen(S)] + F[S \ {Chosen(S)}]
    BY <1>1, <1>3
  <2>3. f[Chosen(S)] = 0 /\ F[S \ {Chosen(S)}] = 0
    BY <1>3, <2>1
  <2>4. F[S] = 0
    BY <2>2, <2>3
  <2> QED BY <2>4
<1>4. SUBSET E \subseteq Good
  <2> HIDE DEF Good
  <2> QED BY <1>2, <1>3, InductionOnSubsets
<1> QED BY <1>4 DEF F

\* A sum has every term of it.
LEMMA SumHasTerms ==
  ASSUME NEW E, IsFiniteSet(E), NEW f, \A x \in E : f[x] \in Nat
  PROVE  SumFcn(f, E)[E] \in Nat /\ \A x \in E : f[x] <= SumFcn(f, E)[E]
<1> DEFINE F == SumFcn(f, E)
<1> DEFINE Good == {S \in SUBSET E : F[S] \in Nat /\ \A x \in S : f[x] <= F[S]}
<1>1. /\ F[{}] = 0
      /\ \A S \in SUBSET E : S # {} => F[S] = f[Chosen(S)] + F[S \ {Chosen(S)}]
  BY SumEquation
<1> HIDE DEF F
<1>2. {} \in Good
  BY <1>1
<1>3. ASSUME NEW S \in SUBSET E, S # {}, S \ {Chosen(S)} \in Good PROVE S \in Good
  <2> DEFINE c == Chosen(S)
  <2> DEFINE T == S \ {c}
  <2>1. c \in E /\ f[c] \in Nat /\ F[S] = f[c] + F[T] /\ F[T] \in Nat
    BY <1>1, <1>3, ChosenSmaller
  <2>2. \A x \in T : f[x] <= F[T] /\ f[x] \in Nat
    BY <1>3
  <2> HIDE DEF c
  <2>3. \A x \in S : f[x] <= F[S]
    BY <2>1, <2>2
  <2> QED BY <2>1, <2>3
<1>4. SUBSET E \subseteq Good
  <2> HIDE DEF Good
  <2> QED BY <1>2, <1>3, InductionOnSubsets
<1>5. E \in Good
  BY <1>4
<1> QED BY <1>5 DEF F

\* The sum over one element is its term.
LEMMA SumOfOne ==
  ASSUME NEW e, NEW f, f[e] \in Nat
  PROVE  SumFcn(f, {e})[{e}] = f[e]
<1> DEFINE F == SumFcn(f, {e})
<1>1. IsFiniteSet({e})
  BY FS_Singleton
<1>2. /\ F[{}] = 0
      /\ \A S \in SUBSET {e} : S # {} => F[S] = f[Chosen(S)] + F[S \ {Chosen(S)}]
  BY <1>1, SumEquation
<1> HIDE DEF F
<1>3. Chosen({e}) = e
  BY Zenon DEF Chosen
<1>4. F[{e}] = f[e] + F[{}]
  BY <1>2, <1>3
<1> QED BY <1>2, <1>4 DEF F

-----------------------------------------------------------------------------
\* n steps, each a function from values to values.
IsRun(g, n, X, base, step) ==
  g \in [0..n -> X] /\ g[0] = base /\ \A i \in 1..n : g[i] = step[i][g[i - 1]]

\* A step that is a function from numbers and values to values has a run of any length.
LEMMA RecursionOnNat ==
  ASSUME NEW n, NEW X, NEW base, NEW step,
         n \in Nat, base \in X, step \in [1..n -> [X -> X]]
  PROVE  \E g : IsRun(g, n, X, base, step)
<1> DEFINE Run(g, k) == g \in [0..k -> X] /\ g[0] = base /\ \A i \in 1..k : g[i] = step[i][g[i - 1]]
<1> DEFINE N == {k \in Nat : k <= n => \E g : Run(g, k)}
<1>1. 0 \in N
  <2>1. Run([i \in 0..0 |-> base], 0)
    OBVIOUS
  <2> HIDE DEF Run
  <2> QED BY <2>1
<1>2. ASSUME NEW k \in Nat, k \in N PROVE k + 1 \in N
  <2> SUFFICES ASSUME k + 1 <= n PROVE \E g : Run(g, k + 1)
    OBVIOUS
  <2>1. k <= n /\ k + 1 \in 1..n
    OBVIOUS
  <2>2. PICK h : Run(h, k)
    BY <1>2, <2>1
  <2>3. h \in [0..k -> X] /\ h[0] = base /\ \A i \in 1..k : h[i] = step[i][h[i - 1]]
    BY <2>2
  <2> DEFINE x == step[k + 1][h[k]]
  <2> DEFINE g == [i \in 0..(k + 1) |-> IF i = k + 1 THEN x ELSE h[i]]
  <2>4. x \in X
    BY <2>1, <2>3
  <2>5. \A i \in 0..k : g[i] = h[i] /\ i \in 0..(k + 1) /\ i # k + 1
    OBVIOUS
  <2>6. g[k + 1] = x
    OBVIOUS
  <2>7. g \in [0..(k + 1) -> X]
    BY <2>3, <2>4
  <2> HIDE DEF g
  <2>8. \A i \in 1..(k + 1) : g[i] = step[i][g[i - 1]]
    <3> SUFFICES ASSUME NEW i \in 1..(k + 1) PROVE g[i] = step[i][g[i - 1]]
      OBVIOUS
    <3>1. CASE i = k + 1
      <4>1. g[i - 1] = h[k] /\ i - 1 = k
        BY <2>5, <3>1
      <4> QED BY <2>6, <3>1, <4>1
    <3>2. CASE i # k + 1
      <4>1. i \in 1..k /\ i \in 0..k /\ i - 1 \in 0..k
        BY <3>2
      <4> QED BY <2>3, <2>5, <4>1
    <3> QED BY <3>1, <3>2
  <2>9. g[0] = base
    BY <2>3, <2>5
  <2> QED BY <2>7, <2>8, <2>9
<1>3. n \in N
  <2> HIDE DEF N
  <2> QED BY <1>1, <1>2, InductionOnNat
<1> QED BY <1>3 DEF IsRun

\* Any element of a set may be added last.
LEMMA SumRemove ==
  ASSUME NEW E, IsFiniteSet(E), NEW f \in [E -> Nat]
  PROVE  \A S \in SUBSET E : \A c \in S : SumFcn(f, E)[S] = f[c] + SumFcn(f, E)[S \ {c}]
<1> DEFINE F == SumFcn(f, E)
<1> DEFINE N == {n \in Nat : \A S \in SUBSET E : Cardinality(S) = n => \A c \in S : F[S] = f[c] + F[S \ {c}]}
<1>1. \A S \in SUBSET E : S # {} => F[S] = f[Chosen(S)] + F[S \ {Chosen(S)}]
  BY SumEquation
<1>2. \A S \in SUBSET E : F[S] \in Nat /\ IsFiniteSet(S) /\ Cardinality(S) \in Nat
  BY SumType, FS_Subset, FS_CardinalityType
<1> HIDE DEF F
<1>3. 0 \in N
  <2>1. \A S \in SUBSET E : Cardinality(S) = 0 => S = {}
    BY <1>2, FS_EmptySet
  <2> QED BY <2>1
<1>4. ASSUME NEW n \in Nat, n \in N PROVE n + 1 \in N
  <2> SUFFICES ASSUME NEW S \in SUBSET E, Cardinality(S) = n + 1, NEW c \in S
               PROVE  F[S] = f[c] + F[S \ {c}]
    OBVIOUS
  <2> DEFINE x == Chosen(S)
  <2>1. x \in S /\ F[S] = f[x] + F[S \ {x}]
    BY <1>1, ChosenSmaller
  <2> HIDE DEF x
  <2>2. CASE c = x
    BY <2>1, <2>2
  <2>3. CASE c # x
    <3>1. \A y \in S : S \ {y} \in SUBSET E /\ Cardinality(S \ {y}) = n
      <4> SUFFICES ASSUME NEW y \in S PROVE S \ {y} \in SUBSET E /\ Cardinality(S \ {y}) = n
        OBVIOUS
      <4>1. Cardinality(S \ {y}) = Cardinality(S) - 1
        BY <1>2, FS_RemoveElement
      <4> QED BY <4>1
    <3>2. F[S \ {x}] = f[c] + F[(S \ {x}) \ {c}]
      BY <1>4, <2>1, <2>3, <3>1
    <3>3. F[S \ {c}] = f[x] + F[(S \ {c}) \ {x}]
      BY <1>4, <2>1, <2>3, <3>1
    <3>4. (S \ {c}) \ {x} = (S \ {x}) \ {c}
      OBVIOUS
    <3>5. f[x] \in Nat /\ f[c] \in Nat /\ F[(S \ {x}) \ {c}] \in Nat
      BY <1>2, <2>1
    <3>6. F[S \ {c}] = f[x] + F[(S \ {x}) \ {c}]
      BY <3>3, <3>4, Zenon
    <3> DEFINE r == F[(S \ {x}) \ {c}]
    <3> HIDE DEF r, N
    <3> QED BY <2>1, <3>2, <3>5, <3>6 DEF r
  <2> QED BY <2>2, <2>3
<1>5. Nat \subseteq N
  <2> HIDE DEF N
  <2> QED BY <1>3, <1>4, InductionOnNat
<1>6. \A S \in SUBSET E : \A c \in S : F[S] = f[c] + F[S \ {c}]
  BY <1>2, <1>5
<1> QED BY <1>6 DEF F

\* One more element adds its term.
LEMMA SumAdd ==
  ASSUME NEW E, IsFiniteSet(E), NEW e, e \notin E,
         NEW f \in [E \cup {e} -> Nat], NEW g \in [E -> Nat], \A x \in E : g[x] = f[x]
  PROVE  SumFcn(f, E \cup {e})[E \cup {e}] = SumFcn(g, E)[E] + f[e]
<1> DEFINE E2 == E \cup {e}
<1> DEFINE F == SumFcn(f, E2)
<1> DEFINE G == SumFcn(g, E)
<1> DEFINE Good == {S \in SUBSET E : F[S] = G[S]}
<1>1. IsFiniteSet(E2) /\ f \in [E2 -> Nat]
  BY FS_AddElement
<1>2. /\ F[{}] = 0
      /\ \A S \in SUBSET E2 : S # {} => F[S] = f[Chosen(S)] + F[S \ {Chosen(S)}]
  <2> HIDE DEF E2
  <2> QED BY <1>1, SumEquation
<1>3. /\ G[{}] = 0
      /\ \A S \in SUBSET E : S # {} => G[S] = g[Chosen(S)] + G[S \ {Chosen(S)}]
  BY SumEquation
<1>4. F[E2] = f[e] + F[E2 \ {e}]
  <2>1. E2 \in SUBSET E2 /\ e \in E2 /\ f \in [E2 -> Nat]
    OBVIOUS
  <2> HIDE DEF E2
  <2> QED BY <1>1, <2>1, SumRemove
<1>5. G[E] \in Nat /\ f[e] \in Nat
  BY SumType
<1> HIDE DEF F, G
<1>6. {} \in Good
  BY <1>2, <1>3
<1>7. ASSUME NEW S \in SUBSET E, S # {}, S \ {Chosen(S)} \in Good PROVE S \in Good
  <2>1. Chosen(S) \in E
    BY <1>7, ChosenSmaller
  <2>2. F[S] = f[Chosen(S)] + F[S \ {Chosen(S)}] /\ G[S] = g[Chosen(S)] + G[S \ {Chosen(S)}]
    BY <1>2, <1>3, <1>7
  <2>3. f[Chosen(S)] = g[Chosen(S)] /\ F[S \ {Chosen(S)}] = G[S \ {Chosen(S)}]
    BY <1>7, <2>1
  <2> QED BY <2>2, <2>3
<1>8. SUBSET E \subseteq Good
  <2> HIDE DEF Good
  <2> QED BY <1>6, <1>7, InductionOnSubsets
<1>9. F[E] = G[E] /\ E2 \ {e} = E
  BY <1>8
<1>10. F[E2] = G[E] + f[e]
  <2>1. F[E2] = f[e] + G[E]
    BY <1>4, <1>9, Zenon
  <2> HIDE DEF Good
  <2> QED BY <1>5, <2>1
<1> QED BY <1>10 DEF F, G

\* The same, of a set that is named.
LEMMA SumWithLast ==
  ASSUME NEW E, NEW e, NEW E2, NEW f, NEW g, IsFiniteSet(E), e \notin E, E2 = E \cup {e},
         f \in [E2 -> Nat], g \in [E -> Nat], \A x \in E : g[x] = f[x]
  PROVE  SumFcn(f, E2)[E2] = SumFcn(g, E)[E] + f[e]
<1>1. f \in [E \cup {e} -> Nat]
  OBVIOUS
<1>2. SumFcn(f, E \cup {e})[E \cup {e}] = SumFcn(g, E)[E] + f[e]
  BY <1>1, SumAdd, SMT
<1> QED BY <1>2, Zenon

\* The sum over an interval, with its last term.
LEMMA SumNext ==
  ASSUME NEW k \in Nat, NEW f \in [1..(k + 1) -> Nat], NEW g \in [1..k -> Nat],
         \A x \in 1..k : f[x] = g[x]
  PROVE  SumFcn(f, 1..(k + 1))[1..(k + 1)] = SumFcn(g, 1..k)[1..k] + f[k + 1]
<1> DEFINE A == 1..k
<1> DEFINE B == 1..(k + 1)
<1> DEFINE e == k + 1
<1>1. B = A \cup {e} /\ e \notin A
  OBVIOUS
<1>2. IsFiniteSet(A)
  BY FS_Interval
<1>3. f \in [B -> Nat] /\ g \in [A -> Nat] /\ \A x \in A : g[x] = f[x]
  OBVIOUS
<1>5. SumFcn(f, B)[B] = SumFcn(g, A)[A] + f[e]
  <2> HIDE DEF A, B, e
  <2> QED BY <1>1, <1>2, <1>3, SumWithLast
<1> QED BY <1>5

\* The image of a finite set is finite.
LEMMA FiniteImage ==
  ASSUME NEW S, IsFiniteSet(S), NEW f, DOMAIN f = S
  PROVE  IsFiniteSet({f[x] : x \in S})
<1> DEFINE T == {f[x] : x \in S}
<1> DEFINE g == [x \in S |-> f[x]]
<1>1. g \in Surjection(S, T)
  <2>1. g \in [S -> T]
    OBVIOUS
  <2>2. \A t \in T : \E s \in S : g[s] = t
    OBVIOUS
  <2> HIDE DEF g, T
  <2> QED BY <2>1, <2>2 DEF Surjection
<1> HIDE DEF g, T
<1>2. IsFiniteSet(T)
  BY <1>1, FS_Surjection
<1> QED BY <1>2 DEF T

=============================================================================

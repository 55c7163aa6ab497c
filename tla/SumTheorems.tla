------------------------------ MODULE SumTheorems ------------------------------
(***************************************************************************)
(* What a sum over a finite domain (SumFunction) is, for summands that are *)
(* integers: the facts that the ledgers need of it.  The library's         *)
(* induction is over predicates; here it is over the set of the subsets    *)
(* for which a fact holds.                                                 *)
(***************************************************************************)
EXTENDS FiniteSets, FiniteSetsExt, FiniteSetTheorems, TLAPS

\* The element that a fold takes out of a set.
Pick(T) == CHOOSE x \in T : TRUE

\* A set of subsets that has the empty one, and every one that it has without the
\* element a fold takes out, has them all.
LEMMA SubsetInduction ==
  ASSUME NEW S, IsFiniteSet(S), NEW G, {} \in G,
         \A T \in SUBSET S : T # {} /\ T \ {Pick(T)} \in G => T \in G
  PROVE  SUBSET S \subseteq G
<1>. DEFINE Bad == (SUBSET S) \ G
            R == StrictSubsetOrdering(S)
<1>. SUFFICES ASSUME Bad # {} PROVE FALSE
    OBVIOUS
<1>1. \E T \in Bad : \A U \in Bad : ~(<<U, T>> \in R)
  <2>1. IsWellFoundedOn(R, FiniteSubsetsOf(S))
    BY FS_StrictSubsetOrderingWellFounded, Zenon
  <2>2. Bad \subseteq FiniteSubsetsOf(S)
    BY FS_FiniteSubsetsOfFinite
  <2>. HIDE DEF Bad, R
  <2>. QED BY <2>1, <2>2, WFMin, Zenon
<1>2. PICK T \in Bad : \A U \in Bad : ~(<<U, T>> \in R)
    BY <1>1
<1>3. T \in SUBSET S /\ T # {}
    OBVIOUS
<1>4. Pick(T) \in T
    BY <1>3 DEF Pick
<1>5. <<T \ {Pick(T)}, T>> \in R
    BY <1>3, <1>4 DEF StrictSubsetOrdering
<1>. HIDE DEF R
<1>6. T \ {Pick(T)} \notin Bad
    BY <1>2, <1>5
<1>. QED BY <1>3, <1>6

\* The sums over all subsets of S, as the fold builds them.
NextSum(f, h, T) == IF T = {} THEN 0 ELSE f[Pick(T)] + h[T \ {Pick(T)}]
Sums(f, S) == CHOOSE h : h = [T \in SUBSET S |-> NextSum(f, h, T)]

LEMMA SumIsFold ==
  ASSUME NEW f
  PROVE  SumFunction(f) = Sums(f, DOMAIN f)[DOMAIN f]
  BY DEF SumFunction, SumFunctionOnSet, FoldFunctionOnSet, MapThenFoldSet, Sums, NextSum, Pick

\* Such sums exist: those over the sets of at most n elements give those over the sets
\* of one more.
Upto(S, n) == {T \in SUBSET S : Cardinality(T) <= n}
SumsUpto(f, S, n, h) == h = [T \in Upto(S, n) |-> NextSum(f, h, T)]

LEMMA CardinalityInduction ==
  ASSUME NEW T, 0 \in T, \A n \in Nat : n \in T => n + 1 \in T
  PROVE  Nat \subseteq T
<1>. DEFINE Bad == Nat \ T
            R == OpToRel(<, Nat)
<1>. HIDE DEF R
<1>. SUFFICES ASSUME Bad # {} PROVE FALSE
    OBVIOUS
<1>1. \E x \in Bad : \A y \in Bad : ~(<<y, x>> \in R)
  <2>1. IsWellFoundedOn(R, Nat)
    BY NatLessThanWellFounded, Zenon DEF R
  <2>2. Bad \subseteq Nat
    OBVIOUS
  <2>. HIDE DEF Bad
  <2>. QED BY <2>1, <2>2, WFMin, Zenon
<1>2. PICK x \in Bad : \A y \in Bad : ~(<<y, x>> \in R)
    BY <1>1
<1>3. x \in Nat \ {0} /\ x - 1 \in Nat /\ x - 1 < x
    OBVIOUS
<1>4. <<x - 1, x>> \in R
    BY <1>3, Zenon DEF R, OpToRel
<1>5. x - 1 \notin Bad
    BY <1>2, <1>4
<1>. QED BY <1>3, <1>5

LEMMA SumsExtend ==
  ASSUME NEW S, IsFiniteSet(S), NEW f, NEW n \in Nat, NEW h, SumsUpto(f, S, n, h)
  PROVE  \E k : SumsUpto(f, S, n + 1, k)
<1>. DEFINE k == [T \in Upto(S, n + 1) |-> IF T \in Upto(S, n) THEN h[T] ELSE NextSum(f, h, T)]
<1>1. ASSUME NEW T \in Upto(S, n + 1) PROVE k[T] = NextSum(f, k, T)
  <2>1. IsFiniteSet(T) /\ Cardinality(T) \in Nat /\ Cardinality(T) <= n + 1
    BY FS_Subset, FS_CardinalityType DEF Upto
  <2>2. CASE T = {}
    <3>1. Cardinality(T) = 0
      BY <2>2, FS_EmptySet
    <3>2. T \in Upto(S, n)
      BY <3>1 DEF Upto
    <3>. QED BY <2>2, <3>2 DEF SumsUpto, NextSum
  <2>3. CASE T # {}
    <3>. DEFINE U == T \ {Pick(T)}
    <3>1. Pick(T) \in T
      BY <2>3 DEF Pick
    <3>2. Cardinality(U) = Cardinality(T) - 1
      BY <2>1, <3>1, FS_RemoveElement
    <3>3. U \in Upto(S, n) /\ U \in Upto(S, n + 1)
      BY <2>1, <3>2 DEF Upto
    <3>4. k[U] = h[U]
      BY <3>3
    <3>5. NextSum(f, k, T) = NextSum(f, h, T)
      BY <3>4 DEF NextSum
    <3>6. T \in Upto(S, n) => h[T] = NextSum(f, h, T)
      BY DEF SumsUpto
    <3>. QED BY <3>5, <3>6
  <2>. QED BY <2>2, <2>3
<1>2. SumsUpto(f, S, n + 1, k)
  <2>1. k = [T \in Upto(S, n + 1) |-> k[T]]
    OBVIOUS
  <2>. HIDE DEF k
  <2>. QED BY <1>1, <2>1 DEF SumsUpto
<1>. QED BY <1>2

LEMMA SumsExist ==
  ASSUME NEW S, IsFiniteSet(S), NEW f
  PROVE  Sums(f, S) = [T \in SUBSET S |-> NextSum(f, Sums(f, S), T)]
<1>. DEFINE Good == {n \in Nat : \E h : SumsUpto(f, S, n, h)}
<1>1. 0 \in Good
  <2>1. Upto(S, 0) = {{}}
    <3>1. ASSUME NEW T \in SUBSET S PROVE Cardinality(T) <= 0 <=> T = {}
      BY FS_Subset, FS_CardinalityType, FS_EmptySet
    <3>. QED BY <3>1 DEF Upto
  <2>2. SumsUpto(f, S, 0, [T \in Upto(S, 0) |-> 0])
    BY <2>1 DEF SumsUpto, NextSum
  <2>. QED BY <2>2
<1>2. \A n \in Nat : n \in Good => n + 1 \in Good
    BY SumsExtend
<1>3. Nat \subseteq Good
  <2>. HIDE DEF Good
  <2>. QED BY <1>1, <1>2, CardinalityInduction
<1>4. Cardinality(S) \in Nat /\ Upto(S, Cardinality(S)) = SUBSET S
    BY FS_CardinalityType, FS_Subset DEF Upto
<1>5. \E h : SumsUpto(f, S, Cardinality(S), h)
    BY <1>3, <1>4
<1>6. \E h : h = [T \in SUBSET S |-> NextSum(f, h, T)]
    BY <1>4, <1>5 DEF SumsUpto
<1>. QED BY <1>6 DEF Sums

LEMMA SumsStep ==
  ASSUME NEW S, IsFiniteSet(S), NEW f
  PROVE  /\ Sums(f, S)[{}] = 0
         /\ \A T \in SUBSET S : T # {} =>
               Pick(T) \in T /\ Sums(f, S)[T] = f[Pick(T)] + Sums(f, S)[T \ {Pick(T)}]
<1>. DEFINE h == Sums(f, S)
<1>1. h = [U \in SUBSET S |-> NextSum(f, h, U)]
    BY SumsExist
<1>2. \A U \in SUBSET S : h[U] = NextSum(f, h, U)
  <2>. HIDE DEF h
  <2>. QED BY <1>1
<1>3. \A T : T # {} => Pick(T) \in T
    BY DEF Pick
<1>. HIDE DEF h
<1>4. h[{}] = 0 /\ \A T \in SUBSET S : T # {} => h[T] = f[Pick(T)] + h[T \ {Pick(T)}]
    BY <1>2 DEF NextSum
<1>. QED BY <1>3, <1>4 DEF h

\* Two sums of which no summand of the one is above that of the other.
LEMMA SumsMonotone ==
  ASSUME NEW S, IsFiniteSet(S), NEW f \in [S -> Int], NEW g \in [S -> Int],
         \A x \in S : f[x] <= g[x]
  PROVE  /\ Sums(f, S)[S] \in Int /\ Sums(g, S)[S] \in Int
         /\ Sums(f, S)[S] <= Sums(g, S)[S]
<1>. DEFINE F == Sums(f, S)
            H == Sums(g, S)
            Good == {T \in SUBSET S : F[T] \in Int /\ H[T] \in Int /\ F[T] <= H[T]}
<1>1. /\ F[{}] = 0
      /\ \A T \in SUBSET S : T # {} => Pick(T) \in T /\ F[T] = f[Pick(T)] + F[T \ {Pick(T)}]
    BY SumsStep
<1>2. /\ H[{}] = 0
      /\ \A T \in SUBSET S : T # {} => Pick(T) \in T /\ H[T] = g[Pick(T)] + H[T \ {Pick(T)}]
    BY SumsStep
<1>3. {} \in Good
    BY <1>1, <1>2
<1>4. ASSUME NEW T \in SUBSET S, T # {} /\ T \ {Pick(T)} \in Good PROVE T \in Good
  <2>1. /\ Pick(T) \in S
        /\ F[T] = f[Pick(T)] + F[T \ {Pick(T)}]
        /\ H[T] = g[Pick(T)] + H[T \ {Pick(T)}]
    BY <1>1, <1>2, <1>4
  <2>. HIDE DEF F, H
  <2>. QED BY <1>4, <2>1
<1>5. SUBSET S \subseteq Good
  <2>. HIDE DEF Good
  <2>. QED BY <1>3, <1>4, SubsetInduction
<1>. QED BY <1>5

\* One summand changes.
LEMMA SumsExcept ==
  ASSUME NEW S, IsFiniteSet(S), NEW f \in [S -> Int], NEW g \in [S -> Int], NEW a \in S,
         \A x \in S \ {a} : f[x] = g[x]
  PROVE  Sums(g, S)[S] = Sums(f, S)[S] + (g[a] - f[a])
<1>. DEFINE F == Sums(f, S)
            H == Sums(g, S)
            Good == {T \in SUBSET S : /\ F[T] \in Int /\ H[T] \in Int
                                     /\ H[T] = IF a \in T THEN F[T] + (g[a] - f[a]) ELSE F[T]}
<1>1. /\ F[{}] = 0
      /\ \A T \in SUBSET S : T # {} => Pick(T) \in T /\ F[T] = f[Pick(T)] + F[T \ {Pick(T)}]
    BY SumsStep
<1>2. /\ H[{}] = 0
      /\ \A T \in SUBSET S : T # {} => Pick(T) \in T /\ H[T] = g[Pick(T)] + H[T \ {Pick(T)}]
    BY SumsStep
<1>3. {} \in Good
    BY <1>1, <1>2
<1>4. ASSUME NEW T \in SUBSET S, T # {} /\ T \ {Pick(T)} \in Good PROVE T \in Good
  <2>1. /\ Pick(T) \in S /\ Pick(T) \in T
        /\ F[T] = f[Pick(T)] + F[T \ {Pick(T)}]
        /\ H[T] = g[Pick(T)] + H[T \ {Pick(T)}]
    BY <1>1, <1>2, <1>4
  <2>. HIDE DEF F, H
  <2>2. CASE Pick(T) = a
    BY <1>4, <2>1, <2>2
  <2>3. CASE Pick(T) # a
    BY <1>4, <2>1, <2>3
  <2>. QED BY <2>2, <2>3
<1>5. SUBSET S \subseteq Good
  <2>. HIDE DEF Good
  <2>. QED BY <1>3, <1>4, SubsetInduction
<1>. QED BY <1>5

\* All summands are the same.
LEMMA SumsConstant ==
  ASSUME NEW S, IsFiniteSet(S), NEW f \in [S -> Int], NEW c \in Int, \A x \in S : f[x] = c
  PROVE  Sums(f, S)[S] = Cardinality(S) * c
<1>. DEFINE F == Sums(f, S)
            Good == {T \in SUBSET S : F[T] = Cardinality(T) * c}
<1>1. /\ F[{}] = 0
      /\ \A T \in SUBSET S : T # {} => Pick(T) \in T /\ F[T] = f[Pick(T)] + F[T \ {Pick(T)}]
    BY SumsStep
<1>2. {} \in Good
    BY <1>1, FS_EmptySet
<1>3. ASSUME NEW T \in SUBSET S, T # {} /\ T \ {Pick(T)} \in Good PROVE T \in Good
  <2>1. /\ Pick(T) \in S /\ Pick(T) \in T
        /\ F[T] = f[Pick(T)] + F[T \ {Pick(T)}]
    BY <1>1, <1>3
  <2>2. /\ IsFiniteSet(T) /\ Cardinality(T) \in Nat
        /\ Cardinality(T \ {Pick(T)}) = Cardinality(T) - 1
    BY <2>1, FS_Subset, FS_RemoveElement, FS_CardinalityType
  <2>3. \A n \in Nat : c + (n - 1) * c = n * c
    OBVIOUS
  <2>4. F[T] = c + (Cardinality(T) - 1) * c
    BY <1>3, <2>1, <2>2
  <2>. HIDE DEF F
  <2>. QED BY <2>2, <2>3, <2>4
<1>4. SUBSET S \subseteq Good
  <2>. HIDE DEF Good
  <2>. QED BY <1>2, <1>3, SubsetInduction
<1>. QED BY <1>4

-------------------------------------------------------------------------------
(* What the ledgers use *)

LEMMA SumDomain ==
  ASSUME NEW S, NEW T, NEW f \in [S -> T]
  PROVE  SumFunction(f) = Sums(f, S)[S]
  BY SumIsFold

\* A sum of integers is one.
LEMMA SumType ==
  ASSUME NEW S, IsFiniteSet(S), NEW f \in [S -> Int]
  PROVE  SumFunction(f) \in Int
<1>1. SumFunction(f) = Sums(f, S)[S]
    BY SumDomain
<1>2. \A x \in S : f[x] <= f[x]
    OBVIOUS
<1>. QED BY <1>1, <1>2, SumsMonotone

\* No summand of f is above that of g.
LEMMA SumMonotone ==
  ASSUME NEW S, IsFiniteSet(S), NEW f \in [S -> Int], NEW g \in [S -> Int],
         \A x \in S : f[x] <= g[x]
  PROVE  SumFunction(f) <= SumFunction(g)
<1>1. SumFunction(f) = Sums(f, S)[S] /\ SumFunction(g) = Sums(g, S)[S]
    BY SumDomain
<1>2. Sums(f, S)[S] <= Sums(g, S)[S]
    BY SumsMonotone
<1>. QED BY <1>1, <1>2

\* Only the summand of a differs.
THEOREM SumExcept ==
  ASSUME NEW S, IsFiniteSet(S), NEW f \in [S -> Int], NEW g \in [S -> Int], NEW a \in S,
         \A x \in S \ {a} : f[x] = g[x]
  PROVE  SumFunction(g) = SumFunction(f) + (g[a] - f[a])
<1>1. SumFunction(f) = Sums(f, S)[S] /\ SumFunction(g) = Sums(g, S)[S]
    BY SumDomain
<1>2. Sums(g, S)[S] = Sums(f, S)[S] + (g[a] - f[a])
    BY SumsExcept
<1>. QED BY <1>1, <1>2

LEMMA SumConstant ==
  ASSUME NEW S, IsFiniteSet(S), NEW f \in [S -> Int], NEW c \in Int, \A x \in S : f[x] = c
  PROVE  SumFunction(f) = Cardinality(S) * c
  BY SumDomain, SumsConstant
================================================================================

----------------------------- MODULE NatSetTheorems -----------------------------
(***************************************************************************)
(* Least and greatest elements of sets of natural numbers, which the code  *)
(* takes as the lowest or highest set bit of a mask, induction over them,  *)
(* and sums over finite sets, which it keeps in counters.                  *)
(***************************************************************************)
EXTENDS Integers, FiniteSetsExt, FiniteSetTheorems, WellFoundedInduction, TLAPS

\* A set of naturals that is not empty has a least element, and Min is it.
LEMMA MinOfNats ==
  ASSUME NEW S \in SUBSET Nat, S # {}
  PROVE  Min(S) \in S /\ \A y \in S : Min(S) <= y
<1> DEFINE T == {0 .. y : y \in S}
<1>1. T \subseteq FiniteSubsetsOf(Nat) /\ T # {}
  <2>1. ASSUME NEW y \in S PROVE 0 .. y \in FiniteSubsetsOf(Nat)
    <3>1. y \in Int /\ 0 \in Int
      OBVIOUS
    <3>2. IsFiniteSet(0 .. y)
      BY <3>1, FS_Interval
    <3> QED
      BY <3>2 DEF FiniteSubsetsOf
  <2> QED
    BY <2>1
<1>2. PICK t \in T : \A u \in T : ~(<<u, t>> \in StrictSubsetOrdering(Nat))
  BY <1>1, FS_StrictSubsetOrderingWellFounded, WFMin
<1>3. PICK x \in S : t = 0 .. x
  BY <1>2
<1>4. \A y \in S : x <= y
  <2> SUFFICES ASSUME NEW y \in S, y < x PROVE FALSE
    OBVIOUS
  <2>1. 0 .. y \subseteq Nat /\ 0 .. x \subseteq Nat /\ 0 .. y \subseteq 0 .. x
    OBVIOUS
  <2>2. x \in 0 .. x /\ x \notin 0 .. y
    OBVIOUS
  <2>3. <<0 .. y, 0 .. x>> \in StrictSubsetOrdering(Nat)
    BY <2>1, <2>2 DEF StrictSubsetOrdering
  <2> QED
    BY <1>2, <1>3, <2>3
<1> QED
  BY <1>4 DEF Min

\* A set of naturals that is not empty and has a bound has a greatest element,
\* and Max is it.
LEMMA MaxOfNats ==
  ASSUME NEW S \in SUBSET Nat, S # {}, NEW k \in Nat, \A y \in S : y <= k
  PROVE  Max(S) \in S /\ \A y \in S : y <= Max(S)
<1> DEFINE T == {k - y : y \in S}
<1>1. T \in SUBSET Nat /\ T # {}
  <2>1. ASSUME NEW y \in S PROVE k - y \in Nat
    OBVIOUS
  <2>2. T \subseteq Nat
    BY <2>1
  <2>3. PICK y \in S : TRUE
    OBVIOUS
  <2>4. k - y \in T
    OBVIOUS
  <2> QED
    BY <2>2, <2>4
<1>2. Min(T) \in T /\ \A y \in T : Min(T) <= y
  BY <1>1, MinOfNats
<1>3. PICK x \in S : Min(T) = k - x
  BY <1>2
<1>4. ASSUME NEW y \in S PROVE y <= x
  <2>1. k - y \in T
    OBVIOUS
  <2>2. k - x <= k - y
    BY <1>2, <1>3, <2>1
  <2> QED
    BY <2>2
<1> QED
  BY <1>4 DEF Max

-------------------------------------------------------------------------------
(* Induction and recursion over the naturals, for a set or a function that  *)
(* is given: the library states them for operators, which no prover here    *)
(* can instantiate.                                                         *)

\* Induction: a set that has zero and with every number the next has them all.
Inductive(S) == 0 \in S /\ \A n \in Nat : n \in S => n + 1 \in S

LEMMA InductiveHasNat ==
  ASSUME NEW S, Inductive(S)
  PROVE  Nat \subseteq S
<1> DEFINE Out == {n \in Nat : n \notin S}
<1> SUFFICES ASSUME ~(Nat \subseteq S) PROVE FALSE
  OBVIOUS
<1>0. Out # {}
  OBVIOUS
<1>1. PICK k \in Out : \A y \in Out : k <= y
  <2>1. Out \in SUBSET Nat
    OBVIOUS
  <2> QED
    BY <1>0, <2>1, MinOfNats
<1>2. k \in Nat /\ k # 0
  BY <1>1 DEF Inductive
<1>3. k - 1 \in Nat /\ k - 1 \notin Out
  BY <1>1, <1>2
<1>4. k - 1 \in S /\ (k - 1) + 1 = k
  BY <1>3
<1> QED
  BY <1>1, <1>2, <1>3, <1>4 DEF Inductive

\* A prefix of the sequence that starts with a and goes on by g.
Iterates(f, n, a, g) == f[0] = a /\ \A k \in 0 .. n - 1 : f[k + 1] = g[f[k]]

\* Recursion over the naturals: a sequence that starts with a and goes on by g.
LEMMA NatRecursion ==
  ASSUME NEW T, NEW a \in T, NEW g \in [T -> T]
  PROVE  \E f \in [Nat -> T] : f[0] = a /\ \A n \in Nat : f[n + 1] = g[f[n]]
<1> DEFINE Has == {n \in Nat : \E f \in [0 .. n -> T] : Iterates(f, n, a, g)}
<1>1. \A n \in Nat : n \in Has
  <2>1. 0 \in Has
    <3>1. [k \in 0 .. 0 |-> a] \in [0 .. 0 -> T] /\ Iterates([k \in 0 .. 0 |-> a], 0, a, g)
      BY DEF Iterates
    <3> QED
      BY <3>1
  <2>2. ASSUME NEW n \in Nat, n \in Has PROVE n + 1 \in Has
    <3>1. PICK f \in [0 .. n -> T] : Iterates(f, n, a, g)
      BY <2>2
    <3> DEFINE F == [k \in 0 .. n + 1 |-> IF k = n + 1 THEN g[f[n]] ELSE f[k]]
    <3>2. F \in [0 .. n + 1 -> T]
      OBVIOUS
    <3>3. F[0] = a /\ F[n + 1] = g[F[n]]
      BY <3>1 DEF Iterates
    <3>4. ASSUME NEW k \in 0 .. n PROVE F[k + 1] = g[F[k]]
      <4>1. CASE k = n
        BY <4>1, <3>3
      <4>2. CASE k # n
        <5>1. k \in 0 .. n - 1 /\ k + 1 \in 0 .. n + 1 /\ k + 1 # n + 1 /\ k \in 0 .. n + 1 /\ k # n + 1
          BY <4>2
        <5> QED
          BY <5>1, <3>1 DEF Iterates
      <4> QED
        BY <4>1, <4>2
    <3>5. (n + 1) - 1 = n /\ n + 1 \in Nat
      OBVIOUS
    <3>6. Iterates(F, n + 1, a, g)
      BY <3>3, <3>4, <3>5 DEF Iterates
    <3> HIDE DEF F
    <3> QED
      BY <3>2, <3>5, <3>6
  <2> HIDE DEF Has
  <2>3. Inductive(Has)
    BY <2>1, <2>2 DEF Inductive
  <2> QED
    BY <2>3, InductiveHasNat
<1> DEFINE p == [n \in Nat |-> CHOOSE f \in [0 .. n -> T] : Iterates(f, n, a, g)]
<1>2. \A n \in Nat : p[n] \in [0 .. n -> T] /\ Iterates(p[n], n, a, g)
  BY <1>1
<1> HIDE DEF p, Has
<1>3. ASSUME NEW n \in Nat PROVE \A k \in Nat : k <= n => p[n][k] = p[n + 1][k]
  <2> DEFINE Same == {k \in Nat : k <= n => p[n][k] = p[n + 1][k]}
  <2>1. 0 \in Same
    BY <1>2 DEF Iterates
  <2>2. ASSUME NEW k \in Nat, k \in Same PROVE k + 1 \in Same
    <3>1. CASE k + 1 <= n
      <4>1. k \in 0 .. n - 1 /\ k \in 0 .. (n + 1) - 1 /\ k <= n
        BY <3>1
      <4>2. p[n][k + 1] = g[p[n][k]] /\ p[n + 1][k + 1] = g[p[n + 1][k]]
        BY <4>1, <1>2 DEF Iterates
      <4> QED
        BY <4>1, <4>2, <2>2
    <3> QED
      BY <3>1
  <2> HIDE DEF Same
  <2>3. Inductive(Same)
    BY <2>1, <2>2 DEF Inductive
  <2>4. Nat \subseteq Same
    BY <2>3, InductiveHasNat
  <2> QED
    BY <2>4 DEF Same
<1> DEFINE F == [n \in Nat |-> p[n][n]]
<1>4. F \in [Nat -> T]
  <2>1. ASSUME NEW n \in Nat PROVE p[n][n] \in T
    <3>1. n \in 0 .. n
      OBVIOUS
    <3> QED
      BY <3>1, <1>2
  <2> QED
    BY <2>1
<1>5. F[0] = a
  BY <1>2 DEF Iterates
<1>6. ASSUME NEW n \in Nat PROVE F[n + 1] = g[F[n]]
  <2>1. p[n + 1][n + 1] = g[p[n + 1][n]]
    <3>1. n \in 0 .. (n + 1) - 1 /\ n + 1 \in Nat
      OBVIOUS
    <3> QED
      BY <3>1, <1>2 DEF Iterates
  <2>2. p[n + 1][n] = p[n][n]
    BY <1>3
  <2> QED
    BY <2>1, <2>2
<1> HIDE DEF F
<1> QED
  BY <1>4, <1>5, <1>6

-------------------------------------------------------------------------------
(* Sums.  The sum of f over S is the number of units it counts; that needs  *)
(* no recursion, so the provers can reason about it.                        *)

Units(f, S) == UNION {{x} \X (1 .. f[x]) : x \in S}

SumOver(f, S) == Cardinality(Units(f, S))

LEMMA SumOverNone ==
  ASSUME NEW f
  PROVE  SumOver(f, {}) = 0
<1>1. Units(f, {}) = {}
  BY DEF Units
<1> QED
  BY <1>1, FS_EmptySet DEF SumOver

\* Only the values of f on S count.
LEMMA SumOverSame ==
  ASSUME NEW f, NEW g, NEW S, \A x \in S : f[x] = g[x]
  PROVE  SumOver(f, S) = SumOver(g, S)
<1>1. Units(f, S) = Units(g, S)
  BY DEF Units
<1> QED
  BY <1>1 DEF SumOver

LEMMA UnitsAreFinite ==
  ASSUME NEW f, NEW S, IsFiniteSet(S), \A x \in S : f[x] \in Nat
  PROVE  IsFiniteSet(Units(f, S))
<1> DEFINE T == {{x} \X (1 .. f[x]) : x \in S}
           g == [x \in S |-> {x} \X (1 .. f[x])]
<1>1. g \in Surjection(S, T)
  BY DEF Surjection
<1>2. IsFiniteSet(T)
  BY <1>1, FS_Surjection
<1>3. ASSUME NEW x \in S PROVE IsFiniteSet({x} \X (1 .. f[x]))
  <2>1. 1 \in Int /\ f[x] \in Int
    OBVIOUS
  <2>2. IsFiniteSet(1 .. f[x])
    BY <2>1, FS_Interval
  <2>3. IsFiniteSet({x})
    BY FS_Singleton
  <2> QED
    BY <2>2, <2>3, FS_Product
<1>4. \A t \in T : IsFiniteSet(t)
  BY <1>3
<1> HIDE DEF T
<1>5. IsFiniteSet(UNION T)
  BY <1>2, <1>4, FS_UNION
<1> QED
  BY <1>5 DEF Units, T

\* One element's value can be taken out of the sum.
LEMMA SumOverSplit ==
  ASSUME NEW f, NEW S, IsFiniteSet(S), \A x \in S : f[x] \in Nat, NEW y \in S
  PROVE  /\ SumOver(f, S) \in Nat /\ SumOver(f, S \ {y}) \in Nat
         /\ SumOver(f, S) = f[y] + SumOver(f, S \ {y})
<1> DEFINE rest == Units(f, S \ {y})
           mine == {y} \X (1 .. f[y])
<1>1. IsFiniteSet(S \ {y})
  BY FS_RemoveElement
<1>2. IsFiniteSet(rest) /\ IsFiniteSet(Units(f, S))
  BY <1>1, UnitsAreFinite
<1>3. /\ IsFiniteSet({y}) /\ Cardinality({y}) = 1
      /\ IsFiniteSet(1 .. f[y]) /\ Cardinality(1 .. f[y]) = f[y]
  <2>1. 1 \in Int /\ f[y] \in Int /\ f[y] \in Nat
    OBVIOUS
  <2>2. IsFiniteSet(1 .. f[y]) /\ Cardinality(1 .. f[y]) = IF 1 > f[y] THEN 0 ELSE f[y] - 1 + 1
    BY <2>1, FS_Interval
  <2>3. Cardinality(1 .. f[y]) = f[y]
    BY <2>1, <2>2
  <2>4. IsFiniteSet({y}) /\ Cardinality({y}) = 1
    BY FS_Singleton
  <2> QED
    BY <2>2, <2>3, <2>4
<1>4. IsFiniteSet(mine) /\ Cardinality(mine) = f[y]
  BY <1>3, FS_Product
<1>5. Units(f, S) = mine \cup rest /\ mine \cap rest = {}
  BY DEF Units
<1> HIDE DEF mine, rest
<1>6. Cardinality(mine \cup rest) = Cardinality(mine) + Cardinality(rest) - Cardinality({})
  BY <1>2, <1>4, <1>5, FS_Union
<1>7. Cardinality(rest) \in Nat /\ Cardinality({}) = 0 /\ Cardinality(Units(f, S)) \in Nat
  BY <1>2, FS_CardinalityType, FS_EmptySet
<1> QED
  BY <1>4, <1>5, <1>6, <1>7 DEF SumOver, rest

\* What y counts for in the sum of f over S.
ShareOf(f, S, y) == IF y \in S THEN f[y] ELSE 0

\* A sum changes by what the one element that changes counts for.
LEMMA SumOverMoved ==
  ASSUME NEW f, NEW S, IsFiniteSet(S), \A x \in S : f[x] \in Nat,
         NEW g, NEW T, IsFiniteSet(T), \A x \in T : g[x] \in Nat,
         NEW y, S \ {y} = T \ {y}, \A x \in S \ {y} : f[x] = g[x]
  PROVE  SumOver(g, T) - ShareOf(g, T, y) = SumOver(f, S) - ShareOf(f, S, y)
<1>1. ASSUME NEW h, NEW U, IsFiniteSet(U), \A x \in U : h[x] \in Nat
      PROVE  SumOver(h, U) - ShareOf(h, U, y) = SumOver(h, U \ {y})
  <2>1. CASE y \in U
    BY <1>1, <2>1, SumOverSplit DEF ShareOf
  <2>2. CASE y \notin U
    <3>1. U \ {y} = U
      BY <2>2
    <3>2. SumOver(h, U) \in Nat
      BY <1>1, UnitsAreFinite, FS_CardinalityType DEF SumOver
    <3>3. ShareOf(h, U, y) = 0 /\ SumOver(h, U \ {y}) = SumOver(h, U)
      BY <2>2, <3>1 DEF ShareOf
    <3> QED
      BY <3>2, <3>3
  <2> QED
    BY <2>1, <2>2
<1>2. SumOver(f, S \ {y}) = SumOver(g, S \ {y})
  BY SumOverSame
<1> QED
  BY <1>1, <1>2

\* The sum over one element is its value.
LEMMA SumOverOne ==
  ASSUME NEW f, NEW y, f[y] \in Nat
  PROVE  SumOver(f, {y}) = f[y]
<1>1. IsFiniteSet({y}) /\ \A x \in {y} : f[x] \in Nat
  BY FS_Singleton
<1>2. {y} \ {y} = {} /\ y \in {y}
  OBVIOUS
<1>3. SumOver(f, {y}) = f[y] + SumOver(f, {y} \ {y})
  BY <1>1, <1>2, SumOverSplit
<1>4. SumOver(f, {y} \ {y}) = 0
  BY <1>2, SumOverNone
<1> QED
  BY <1>3, <1>4

\* What MapThenSumSet evaluates, for the values of f.
IsSumFold(it, f, S) ==
  it = [s \in SUBSET S |-> IF s = {} THEN 0
                           ELSE LET x == CHOOSE y \in s : TRUE IN f[x] + it[s \ {x}]]

LEMMA SumFoldExists ==
  ASSUME NEW f, NEW S, IsFiniteSet(S), \A x \in S : f[x] \in Nat
  PROVE  \E it : IsSumFold(it, f, S)
<1> DEFINE it == [s \in SUBSET S |-> SumOver(f, s)]
<1>1. ASSUME NEW s \in SUBSET S
      PROVE  SumOver(f, s) = IF s = {} THEN 0
                             ELSE LET x == CHOOSE y \in s : TRUE IN f[x] + it[s \ {x}]
  <2>1. CASE s = {}
    BY <2>1, SumOverNone
  <2>2. CASE s # {}
    <3> DEFINE x == CHOOSE y \in s : TRUE
    <3>1. x \in s
      BY <2>2
    <3>2. IsFiniteSet(s) /\ \A y \in s : f[y] \in Nat
      BY FS_Subset
    <3> HIDE DEF x
    <3>3. SumOver(f, s) = f[x] + SumOver(f, s \ {x})
      BY <3>1, <3>2, SumOverSplit
    <3>4. it[s \ {x}] = SumOver(f, s \ {x})
      OBVIOUS
    <3> HIDE DEF it
    <3>5. SumOver(f, s) = f[x] + it[s \ {x}]
      BY <3>3, <3>4
    <3> QED
      BY <2>2, <3>5 DEF x
  <2> QED
    BY <2>1, <2>2
<1>2. it = [s \in SUBSET S |-> IF s = {} THEN 0
                               ELSE LET x == CHOOSE y \in s : TRUE IN f[x] + it[s \ {x}]]
  BY <1>1
<1> HIDE DEF it
<1>3. IsSumFold(it, f, S)
  BY <1>2 DEF IsSumFold
<1> QED
  BY <1>3

\* Such a fold is the sum: a smallest set it is wrong for would be wrong for a
\* smaller one.
LEMMA SumFoldIsSum ==
  ASSUME NEW f, NEW S, IsFiniteSet(S), \A x \in S : f[x] \in Nat,
         NEW it, IsSumFold(it, f, S)
  PROVE  it[S] = SumOver(f, S)
<1> DEFINE bad == {s \in SUBSET S : it[s] # SumOver(f, s)}
<1>1. SUFFICES ASSUME bad # {} PROVE FALSE
  OBVIOUS
<1>2. bad \subseteq FiniteSubsetsOf(S)
  BY FS_Subset DEF FiniteSubsetsOf
<1>3. PICK s \in bad : \A t \in bad : ~(<<t, s>> \in StrictSubsetOrdering(S))
  BY <1>1, <1>2, FS_StrictSubsetOrderingWellFounded, WFMin
<1>4. s \in SUBSET S /\ it[s] # SumOver(f, s)
  OBVIOUS
<1>5. s # {}
  BY <1>4, SumOverNone DEF IsSumFold
<1> DEFINE x == CHOOSE y \in s : TRUE
<1>6. x \in s /\ it[s] = f[x] + it[s \ {x}]
  BY <1>4, <1>5 DEF IsSumFold
<1> HIDE DEF x
<1>7. <<s \ {x}, s>> \in StrictSubsetOrdering(S) /\ s \ {x} \in SUBSET S
  BY <1>4, <1>6 DEF StrictSubsetOrdering
<1>8. it[s \ {x}] = SumOver(f, s \ {x})
  BY <1>3, <1>7
<1>9. IsFiniteSet(s) /\ \A y \in s : f[y] \in Nat
  BY <1>4, FS_Subset
<1> QED
  BY <1>4, <1>6, <1>8, <1>9, SumOverSplit
===============================================================================

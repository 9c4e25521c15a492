------------------------------- MODULE Folding -------------------------------
(***************************************************************************)
(* Induction over finite sets and what it gives for the folds and sums of  *)
(* the models.  The induction theorems of the library take a predicate as  *)
(* an operator; here the predicate is the set of what satisfies it.        *)
(***************************************************************************)
EXTENDS Slices, Functions, FiniteSetTheorems, SequenceTheorems, TLAPS

LessThan == {ss \in Nat \X Nat : ss[1] < ss[2]}

LEMMA NatSetInduction ==
  ASSUME NEW P, 0 \in P, \A n \in Nat : n \in P => n + 1 \in P
  PROVE  Nat \subseteq P
<1> DEFINE bad == Nat \ P
<1> SUFFICES ASSUME bad # {} PROVE FALSE
  OBVIOUS
<1>1. IsWellFoundedOn(LessThan, Nat)
  BY NatLessThanWellFounded DEF OpToRel, LessThan
<1>2. PICK n \in bad : \A m \in bad : <<m, n>> \notin LessThan
  BY <1>1, WFMin
<1>3. n \in Nat /\ n # 0 /\ n - 1 \in Nat /\ (n - 1) + 1 = n
  BY <1>2
<1>4. <<n - 1, n>> \in LessThan
  BY <1>3 DEF LessThan
<1>5. n - 1 \in P
  BY <1>2, <1>3, <1>4
<1> QED BY <1>2, <1>3, <1>5

\* A property of finite sets that passes from a set's parts to the set.
LEMMA SubsetInduction ==
  ASSUME NEW S, IsFiniteSet(S), NEW P,
         \A T \in SUBSET S : (\A x \in T : T \ {x} \in P) => T \in P
  PROVE  S \in P
<1> DEFINE bad == (SUBSET S) \ P
<1> SUFFICES ASSUME bad # {} PROVE FALSE
  OBVIOUS
<1>1. IsWellFoundedOn(StrictSubsetOrdering(S), SUBSET S)
  <2>1. IsWellFoundedOn(StrictSubsetOrdering(S), FiniteSubsetsOf(S))
    BY FS_StrictSubsetOrderingWellFounded, Zenon
  <2>2. FiniteSubsetsOf(S) = SUBSET S
    BY FS_FiniteSubsetsOfFinite, Zenon
  <2> QED BY <2>1, <2>2
<1>2. PICK T \in bad : \A U \in bad : <<U, T>> \notin StrictSubsetOrdering(S)
  BY <1>1, WFMin
<1>3. ASSUME NEW x \in T PROVE T \ {x} \in P
  <2>1. <<T \ {x}, T>> \in StrictSubsetOrdering(S)
    BY <1>2, <1>3 DEF StrictSubsetOrdering
  <2> QED BY <1>2, <2>1
<1> QED BY <1>2, <1>3

-----------------------------------------------------------------------------
(* Folds.  F is the operation, c chooses which element comes first, and g  *)
(* is a function that satisfies the recursion of MapThenFoldSet on the     *)
(* subsets of S.                                                           *)

Chooses(c, S) == \A s \in SUBSET S : s # {} => c[s] \in s

Body(g, s, base, F, c) == IF s = {} THEN base ELSE F[c[s]][g[s \ {c[s]}]]

Folds(g, S, base, F, c) == \A s \in SUBSET S : g[s] = Body(g, s, base, F, c)

\* There is such a function on every finite set.
LEMMA FoldExists ==
  ASSUME NEW S, IsFiniteSet(S), NEW X, NEW base \in X, NEW F \in [S -> [X -> X]],
         NEW c, Chooses(c, S)
  PROVE  \E g \in [SUBSET S -> X] : Folds(g, S, base, F, c)
<1> DEFINE Good(g, n) == \A s \in SUBSET S : Cardinality(s) <= n => g[s] = Body(g, s, base, F, c)
           P == {n \in Nat : \E g \in [SUBSET S -> X] : Good(g, n)}
<1>1. \A s \in SUBSET S : IsFiniteSet(s) /\ Cardinality(s) \in Nat
  BY FS_Subset, FS_CardinalityType
<1>2. 0 \in P
  <2> DEFINE g == [s \in SUBSET S |-> base]
  <2>1. \A s \in SUBSET S : Cardinality(s) <= 0 => s = {}
    BY <1>1, FS_EmptySet
  <2>2. Good(g, 0)
    BY <2>1 DEF Body
  <2>3. g \in [SUBSET S -> X]
    OBVIOUS
  <2> QED BY <2>2, <2>3
<1>3. ASSUME NEW n \in Nat, n \in P PROVE n + 1 \in P
  <2>1. PICK g \in [SUBSET S -> X] : Good(g, n)
    BY <1>3
  <2> DEFINE h == [s \in SUBSET S |-> IF Cardinality(s) = n + 1 THEN Body(g, s, base, F, c) ELSE g[s]]
  <2>2. ASSUME NEW s \in SUBSET S, s # {}
        PROVE  /\ c[s] \in S /\ s \ {c[s]} \in SUBSET S
               /\ Cardinality(s \ {c[s]}) = Cardinality(s) - 1
               /\ Body(g, s, base, F, c) \in X
    <3>1. c[s] \in s
      BY <2>2 DEF Chooses
    <3>2. Cardinality(s \ {c[s]}) = Cardinality(s) - 1
      BY <1>1, <3>1, FS_RemoveElement
    <3>3. g[s \ {c[s]}] \in X
      BY <2>1
    <3>4. F[c[s]] \in [X -> X]
      BY <3>1
    <3> QED BY <2>2, <3>1, <3>2, <3>3, <3>4 DEF Body
  <2>3. h \in [SUBSET S -> X]
    <3>1. ASSUME NEW s \in SUBSET S PROVE Body(g, s, base, F, c) \in X
      BY <2>2 DEF Body
    <3> QED BY <2>1, <3>1
  <2>4. ASSUME NEW s \in SUBSET S, Cardinality(s) <= n + 1
        PROVE  h[s] = Body(h, s, base, F, c)
    <3>1. CASE s = {}
      <4>1. Cardinality(s) = 0
        BY <3>1, FS_EmptySet
      <4>2. h[s] = g[s] /\ g[s] = Body(g, s, base, F, c)
        BY <2>1, <4>1
      <4> QED BY <3>1, <4>2 DEF Body
    <3>2. CASE s # {}
      <4> DEFINE t == s \ {c[s]}
      <4>1. t \in SUBSET S /\ Cardinality(t) = Cardinality(s) - 1 /\ Cardinality(t) \in Nat
        BY <1>1, <2>2, <3>2
      <4>2. h[t] = g[t]
        BY <2>4, <4>1, <1>1
      <4>3. Body(h, s, base, F, c) = Body(g, s, base, F, c)
        BY <3>2, <4>2 DEF Body
      <4>4. h[s] = Body(g, s, base, F, c)
        BY <1>1, <2>1, <2>4
      <4> QED BY <4>3, <4>4
    <3> QED BY <3>1, <3>2
  <2>5. Good(h, n + 1)
    BY <2>4
  <2> HIDE DEF h
  <2> QED BY <2>3, <2>5
<1>4. Cardinality(S) \in P
  <2> HIDE DEF P
  <2>1. Nat \subseteq P
    BY <1>2, <1>3, NatSetInduction
  <2> QED BY <1>1, <2>1
<1>5. PICK g \in [SUBSET S -> X] : Good(g, Cardinality(S))
  BY <1>4
<1>6. \A s \in SUBSET S : Cardinality(s) <= Cardinality(S)
  BY FS_Subset
<1> QED BY <1>5, <1>6 DEF Folds

-----------------------------------------------------------------------------
(* Sums of the values of a function.                                       *)

Pick(s) == CHOOSE x \in s : TRUE

\* The recursion of a sum.
Sums(g, S, f) == \A s \in SUBSET S : g[s] = IF s = {} THEN 0 ELSE f[Pick(s)] + g[s \ {Pick(s)}]

\* A function satisfies it, and the sum is its value.
LEMMA SumRecursion ==
  ASSUME NEW S, IsFiniteSet(S), NEW f, \A x \in S : f[x] \in Int
  PROVE  \E g \in [SUBSET S -> Int] : Sums(g, S, f) /\ SumFunctionOnSet(f, S) = g[S]
<1> DEFINE c == [s \in SUBSET S |-> Pick(s)]
           F == [x \in S |-> [v \in Int |-> f[x] + v]]
           R(g) == g = [s \in SUBSET S |-> IF s = {} THEN 0 ELSE f[Pick(s)] + g[s \ {Pick(s)}]]
           iter == CHOOSE g : R(g)
<1>1. SumFunctionOnSet(f, S) = iter[S]
  BY DEF SumFunctionOnSet, FoldFunctionOnSet, MapThenFoldSet, Pick
<1>2. \A s \in SUBSET S : s # {} => Pick(s) \in s
  BY DEF Pick
<1>3. \E g \in [SUBSET S -> Int] : Folds(g, S, 0, F, c)
  <2>1. F \in [S -> [Int -> Int]]
    OBVIOUS
  <2>2. Chooses(c, S)
    BY <1>2 DEF Chooses
  <2>3. 0 \in Int
    OBVIOUS
  <2> HIDE DEF F, c
  <2> QED BY <2>1, <2>2, <2>3, FoldExists
<1>4. PICK g \in [SUBSET S -> Int] : Folds(g, S, 0, F, c)
  BY <1>3
<1>5. Sums(g, S, f)
  <2> SUFFICES ASSUME NEW s \in SUBSET S
               PROVE  g[s] = IF s = {} THEN 0 ELSE f[Pick(s)] + g[s \ {Pick(s)}]
    BY DEF Sums
  <2>1. g[s] = IF s = {} THEN 0 ELSE F[c[s]][g[s \ {c[s]}]]
    BY <1>4 DEF Folds, Body
  <2>2. CASE s = {}
    BY <2>1, <2>2
  <2>3. CASE s # {}
    <3>1. c[s] = Pick(s) /\ Pick(s) \in S /\ s \ {Pick(s)} \in SUBSET S
      BY <1>2, <2>3
    <3>2. g[s \ {Pick(s)}] \in Int
      BY <3>1
    <3> HIDE DEF c
    <3> QED BY <2>1, <2>3, <3>1, <3>2
  <2> QED BY <2>2, <2>3
<1>6. R(g)
  BY <1>5 DEF Sums
<1>7. R(iter)
  <2> HIDE DEF R
  <2> QED BY <1>6, Zenon
<1>8. iter[S] = g[S]
  <2> DEFINE P == {s \in SUBSET S : iter[s] = g[s]}
  <2> HIDE DEF iter
  <2>1. ASSUME NEW s \in SUBSET S, \A x \in s : s \ {x} \in P
        PROVE  s \in P
    BY <1>2, <1>5, <1>7, <2>1 DEF Sums
  <2>2. S \in P
    BY <2>1, SubsetInduction
  <2> QED BY <2>2
<1> QED BY <1>1, <1>5, <1>8

\* Sums of subsets satisfy the same recursion.
LEMMA SumStep ==
  ASSUME NEW S, IsFiniteSet(S), NEW f, \A x \in S : f[x] \in Int
  PROVE  /\ SumFunctionOnSet(f, S) \in Int
         /\ SumFunctionOnSet(f, {}) = 0
         /\ S # {} => /\ Pick(S) \in S
                      /\ SumFunctionOnSet(f, S) = f[Pick(S)] + SumFunctionOnSet(f, S \ {Pick(S)})
<1>1. PICK g \in [SUBSET S -> Int] : Sums(g, S, f) /\ SumFunctionOnSet(f, S) = g[S]
  BY SumRecursion
<1>2. ASSUME NEW T \in SUBSET S PROVE SumFunctionOnSet(f, T) = g[T]
  <2>1. IsFiniteSet(T)
    BY FS_Subset
  <2>2. PICK h \in [SUBSET T -> Int] : Sums(h, T, f) /\ SumFunctionOnSet(f, T) = h[T]
    BY <2>1, SumRecursion
  <2> DEFINE P == {s \in SUBSET T : h[s] = g[s]}
  <2>3. ASSUME NEW s \in SUBSET T, \A x \in s : s \ {x} \in P
        PROVE  s \in P
    <3>1. s # {} => Pick(s) \in s
      BY DEF Pick
    <3> QED BY <1>1, <2>2, <2>3, <3>1 DEF Sums
  <2>4. T \in P
    <3> HIDE DEF P
    <3> QED BY <2>1, <2>3, SubsetInduction
  <2> QED BY <2>2, <2>4
<1>3. S # {} => Pick(S) \in S
  BY DEF Pick
<1>4. {} \in SUBSET S /\ S \in SUBSET S /\ S \ {Pick(S)} \in SUBSET S
  OBVIOUS
<1>5. g[S] \in Int /\ g[{}] = 0 /\ (S # {} => g[S] = f[Pick(S)] + g[S \ {Pick(S)}])
  BY <1>1, <1>4 DEF Sums
<1>6. /\ SumFunctionOnSet(f, S) = g[S] /\ SumFunctionOnSet(f, {}) = g[{}]
      /\ SumFunctionOnSet(f, S \ {Pick(S)}) = g[S \ {Pick(S)}]
  BY <1>2, <1>4
<1> QED BY <1>3, <1>5, <1>6, Zenon

\* Any element may come first.
LEMMA SumRemove ==
  ASSUME NEW S, IsFiniteSet(S), NEW f, \A x \in S : f[x] \in Int, NEW y \in S
  PROVE  SumFunctionOnSet(f, S) = f[y] + SumFunctionOnSet(f, S \ {y})
<1> DEFINE sum(T) == SumFunctionOnSet(f, T)
           P == {T \in SUBSET S : \A z \in T : sum(T) = f[z] + sum(T \ {z})}
<1>1. ASSUME NEW T \in SUBSET S, \A x \in T : T \ {x} \in P
      PROVE  T \in P
  <2> SUFFICES ASSUME NEW z \in T PROVE sum(T) = f[z] + sum(T \ {z})
    OBVIOUS
  <2> DEFINE p == Pick(T)
  <2>1. \A U \in SUBSET S : IsFiniteSet(U) /\ sum(U) \in Int
    BY FS_Subset, SumStep
  <2>2. p \in T /\ sum(T) = f[p] + sum(T \ {p})
    BY <2>1, SumStep
  <2>3. CASE z = p
    BY <2>2, <2>3
  <2>4. CASE z # p
    <3> HIDE DEF sum, p
    <3>1. sum(T \ {p}) = f[z] + sum((T \ {p}) \ {z})
      BY <1>1, <2>2, <2>4
    <3>2. sum(T \ {z}) = f[p] + sum((T \ {z}) \ {p})
      BY <1>1, <2>2, <2>4
    <3>3. (T \ {p}) \ {z} = (T \ {z}) \ {p}
      OBVIOUS
    <3>4. sum((T \ {z}) \ {p}) \in Int /\ f[z] \in Int /\ f[p] \in Int
      BY <2>1, <2>2
    <3> DEFINE rest == sum((T \ {z}) \ {p})
    <3>5. sum(T) = f[p] + (f[z] + rest) /\ sum(T \ {z}) = f[p] + rest
      BY <2>2, <3>1, <3>2, <3>3
    <3>6. rest \in Int /\ f[p] \in Int /\ f[z] \in Int
      BY <3>4
    <3> HIDE DEF rest
    <3> QED BY <3>5, <3>6
  <2> QED BY <2>3, <2>4
<1>2. S \in P
  <2> HIDE DEF P
  <2> QED BY <1>1, SubsetInduction
<1> QED BY <1>2

\* The sums of all subsets of S, as integers with one recursion.
LEMMA SumsOfSubsets ==
  ASSUME NEW S, IsFiniteSet(S), NEW f, \A x \in S : f[x] \in Int
  PROVE  \A T \in SUBSET S :
           /\ IsFiniteSet(T) /\ SumFunctionOnSet(f, T) \in Int
           /\ \A y \in T : SumFunctionOnSet(f, T) = f[y] + SumFunctionOnSet(f, T \ {y})
  BY FS_Subset, SumStep, SumRemove

LEMMA SumEmpty == ASSUME NEW f PROVE SumFunctionOnSet(f, {}) = 0
  BY FS_EmptySet, SumStep

\* One element more.
LEMMA SumAdd ==
  ASSUME NEW S, IsFiniteSet(S), NEW f, NEW y, y \notin S, \A x \in S \cup {y} : f[x] \in Int
  PROVE  SumFunctionOnSet(f, S \cup {y}) = f[y] + SumFunctionOnSet(f, S)
<1>1. IsFiniteSet(S \cup {y}) /\ (S \cup {y}) \ {y} = S
  BY FS_AddElement
<1> QED BY <1>1, SumRemove

\* Larger summands, larger sum.
LEMMA SumMonotone ==
  ASSUME NEW S, IsFiniteSet(S), NEW f, NEW g,
         \A x \in S : f[x] \in Int /\ g[x] \in Int /\ f[x] <= g[x]
  PROVE  SumFunctionOnSet(f, S) <= SumFunctionOnSet(g, S)
<1> DEFINE A(T) == SumFunctionOnSet(f, T)
           B(T) == SumFunctionOnSet(g, T)
           P == {T \in SUBSET S : A(T) <= B(T)}
<1>1. \A T \in SUBSET S : /\ A(T) \in Int /\ B(T) \in Int
                         /\ \A y \in T : A(T) = f[y] + A(T \ {y}) /\ B(T) = g[y] + B(T \ {y})
  BY SumsOfSubsets
<1>2. A({}) = 0 /\ B({}) = 0
  BY SumEmpty
<1> HIDE DEF A, B
<1>3. ASSUME NEW T \in SUBSET S, \A x \in T : T \ {x} \in P
      PROVE  T \in P
  <2>1. CASE T = {}
    BY <1>2, <2>1
  <2>2. CASE T # {}
    <3>1. PICK y \in T : TRUE
      BY <2>2
    <3>2. A(T \ {y}) <= B(T \ {y}) /\ A(T \ {y}) \in Int /\ B(T \ {y}) \in Int
      BY <1>1, <1>3
    <3>3. A(T) = f[y] + A(T \ {y}) /\ B(T) = g[y] + B(T \ {y}) /\ f[y] <= g[y]
          /\ f[y] \in Int /\ g[y] \in Int
      BY <1>1
    <3> QED BY <3>2, <3>3
  <2> QED BY <2>1, <2>2
<1>4. S \in P
  <2> HIDE DEF P
  <2> QED BY <1>3, SubsetInduction
<1> QED BY <1>4 DEF A, B

\* Equal summands, equal sum.
LEMMA SumEqual ==
  ASSUME NEW S, IsFiniteSet(S), NEW f, NEW g, \A x \in S : f[x] \in Int /\ g[x] = f[x]
  PROVE  SumFunctionOnSet(g, S) = SumFunctionOnSet(f, S)
<1>1. SumFunctionOnSet(f, S) <= SumFunctionOnSet(g, S)
  BY SumMonotone
<1>2. SumFunctionOnSet(g, S) <= SumFunctionOnSet(f, S)
  BY SumMonotone
<1>3. SumFunctionOnSet(f, S) \in Int /\ SumFunctionOnSet(g, S) \in Int
  BY SumStep
<1> QED BY <1>1, <1>2, <1>3

\* A sum of natural numbers is one, and a part of it is no larger.
LEMMA SumOfPart ==
  ASSUME NEW S, IsFiniteSet(S), NEW f, \A x \in S : f[x] \in Nat, NEW U \in SUBSET S
  PROVE  /\ SumFunctionOnSet(f, U) \in Nat
         /\ SumFunctionOnSet(f, U) <= SumFunctionOnSet(f, S)
<1> DEFINE A(T) == SumFunctionOnSet(f, T)
           P == {T \in SUBSET S : /\ A(T) >= 0
                                  /\ \A V \in SUBSET T : A(V) <= A(T)}
<1>1. \A T \in SUBSET S : /\ A(T) \in Int
                         /\ \A y \in T : A(T) = f[y] + A(T \ {y})
  BY SumsOfSubsets
<1>2. A({}) = 0
  BY SumEmpty
<1> HIDE DEF A
<1>3. ASSUME NEW T \in SUBSET S, \A x \in T : T \ {x} \in P
      PROVE  T \in P
  <2>1. CASE T = {}
    BY <1>2, <2>1
  <2>2. CASE T # {}
    <3>1. ASSUME NEW y \in T
          PROVE  /\ A(T \ {y}) >= 0 /\ A(T \ {y}) <= A(T)
                 /\ A(T \ {y}) \in Int /\ A(T) \in Int
      <4>1. f[y] \in Nat /\ A(T) = f[y] + A(T \ {y}) /\ A(T \ {y}) \in Int
            /\ A(T \ {y}) >= 0
        BY <1>1, <1>3
      <4> QED BY <4>1
    <3>2. A(T) >= 0
      <4>1. PICK y \in T : TRUE
        BY <2>2
      <4>2. A(T \ {y}) >= 0 /\ A(T \ {y}) <= A(T) /\ A(T \ {y}) \in Int /\ A(T) \in Int
        BY <3>1
      <4> QED BY <4>2
    <3>3. ASSUME NEW V \in SUBSET T PROVE A(V) <= A(T)
      <4>1. CASE V = T
        BY <1>1, <4>1
      <4>2. CASE V # T
        <5>1. PICK y \in T : y \notin V
          BY <4>2
        <5>2. V \in SUBSET (T \ {y})
          BY <5>1
        <5>3. A(V) <= A(T \ {y}) /\ A(V) \in Int
          BY <1>1, <1>3, <5>2
        <5>4. A(T \ {y}) <= A(T) /\ A(T \ {y}) \in Int /\ A(T) \in Int
          BY <3>1
        <5> QED BY <5>3, <5>4
      <4> QED BY <4>1, <4>2
    <3> QED BY <3>2, <3>3
  <2> QED BY <2>1, <2>2
<1>4. S \in P /\ U \in P
  <2> HIDE DEF P
  <2>1. IsFiniteSet(U)
    BY FS_Subset
  <2>2. U \in P
    BY <1>3, <2>1, SubsetInduction
  <2> QED BY <1>3, <2>2, SubsetInduction
<1> QED BY <1>1, <1>4 DEF A

\* One summand changes.
LEMMA SumUpdate ==
  ASSUME NEW S, IsFiniteSet(S), NEW f, NEW g, NEW y \in S,
         \A x \in S : f[x] \in Int /\ g[x] \in Int /\ (x # y => g[x] = f[x])
  PROVE  SumFunctionOnSet(g, S) = SumFunctionOnSet(f, S) - f[y] + g[y]
<1> DEFINE a == SumFunctionOnSet(f, S \ {y})
           b == SumFunctionOnSet(g, S \ {y})
<1>1. IsFiniteSet(S \ {y}) /\ a \in Int /\ b \in Int
  BY SumsOfSubsets
<1>2. a = b
  BY <1>1, SumEqual
<1>3. SumFunctionOnSet(f, S) = f[y] + a /\ SumFunctionOnSet(g, S) = g[y] + b
  BY SumRemove
<1>4. f[y] \in Int /\ g[y] \in Int
  OBVIOUS
<1> HIDE DEF a, b
<1> QED BY <1>1, <1>2, <1>3, <1>4

\* Summands between two bounds.
LEMMA SumBounds ==
  ASSUME NEW S, IsFiniteSet(S), NEW f, NEW lo \in Int, NEW hi \in Int,
         \A x \in S : f[x] \in Int /\ lo <= f[x] /\ f[x] <= hi
  PROVE  /\ lo * Cardinality(S) <= SumFunctionOnSet(f, S)
         /\ SumFunctionOnSet(f, S) <= hi * Cardinality(S)
<1> DEFINE A(T) == SumFunctionOnSet(f, T)
           P == {T \in SUBSET S : /\ lo * Cardinality(T) <= A(T)
                                  /\ A(T) <= hi * Cardinality(T)}
<1>1. \A T \in SUBSET S : /\ A(T) \in Int
                         /\ \A y \in T : A(T) = f[y] + A(T \ {y})
  <2>1. \A x \in S : f[x] \in Int
    OBVIOUS
  <2> QED BY ONLY <2>1, IsFiniteSet(S), SumsOfSubsets
<1>2. A({}) = 0
  BY SumEmpty
<1>3. \A T \in SUBSET S : IsFiniteSet(T) /\ Cardinality(T) \in Nat
  BY FS_Subset, FS_CardinalityType
<1> HIDE DEF A
<1>4. ASSUME NEW T \in SUBSET S, \A x \in T : T \ {x} \in P
      PROVE  T \in P
  <2>1. CASE T = {}
    <3>1. Cardinality(T) = 0
      BY <2>1, FS_EmptySet
    <3>2. lo * 0 = 0 /\ hi * 0 = 0
      OBVIOUS
    <3> QED BY <1>2, <2>1, <3>1, <3>2
  <2>2. CASE T # {}
    <3>1. PICK y \in T : TRUE
      BY <2>2
    <3> DEFINE n == Cardinality(T \ {y})
               r == A(T \ {y})
    <3>2. Cardinality(T) = n + 1 /\ n \in Nat
      BY <1>3, FS_RemoveElement
    <3>3. lo * n <= r /\ r <= hi * n /\ r \in Int
      BY <1>1, <1>4
    <3>4. A(T) = f[y] + r /\ f[y] \in Int /\ lo <= f[y] /\ f[y] <= hi
      BY <1>1
    <3> HIDE DEF n, r
    <3>5. lo * (n + 1) = lo * n + lo /\ hi * (n + 1) = hi * n + hi
      BY <3>2
    <3>6. lo * n \in Int /\ hi * n \in Int
      BY <3>2
    <3>7. lo * (n + 1) <= A(T) /\ A(T) <= hi * (n + 1)
      BY <3>3, <3>4, <3>5, <3>6
    <3> QED BY <3>2, <3>7
  <2> QED BY <2>1, <2>2
<1>5. S \in P
  <2> HIDE DEF P
  <2> QED BY <1>4, SubsetInduction
<1> QED BY <1>5 DEF A

-----------------------------------------------------------------------------
(* Averages, and the first elements of an order.                           *)

\* Dividing a sum by the number of its parts stays within their bounds.
LEMMA DivBounds ==
  ASSUME NEW t \in Int, NEW n \in Nat \ {0}, NEW lo \in Int, NEW hi \in Int,
         lo * n <= t, t <= hi * n
  PROVE  t \div n \in Int /\ lo <= t \div n /\ t \div n <= hi
  BY SMT

\* R is a strict total order on S.
Orders(R, S) ==
  /\ \A x, y \in S : <<x, y>> \in R => <<y, x>> \notin R
  /\ \A x, y, z \in S : <<x, y>> \in R /\ <<y, z>> \in R => <<x, z>> \in R
  /\ \A x, y \in S : x # y => <<x, y>> \in R \/ <<y, x>> \in R

\* A finite set has a last element.
LEMMA LastElement ==
  ASSUME NEW S, IsFiniteSet(S), S # {}, NEW R, Orders(R, S)
  PROVE  \E m \in S : \A y \in S \ {m} : <<y, m>> \in R
<1> DEFINE HasLast(T) == \E m \in T : \A y \in T \ {m} : <<y, m>> \in R
           P == {T \in SUBSET S : T # {} => HasLast(T)}
<1>1. ASSUME NEW T \in SUBSET S, \A x \in T : T \ {x} \in P
      PROVE  T \in P
  <2> SUFFICES ASSUME T # {} PROVE HasLast(T)
    OBVIOUS
  <2>1. PICK x \in T : TRUE
    OBVIOUS
  <2>2. CASE T \ {x} = {}
    BY <2>2
  <2>3. CASE T \ {x} # {}
    <3>1. PICK m \in T \ {x} : \A y \in (T \ {x}) \ {m} : <<y, m>> \in R
      BY <1>1, <2>3
    <3>2. CASE <<x, m>> \in R
      BY <3>1, <3>2
    <3>3. CASE <<m, x>> \in R
      BY <3>1, <3>3 DEF Orders
    <3> QED BY <3>1, <3>2, <3>3 DEF Orders
  <2> QED BY <2>2, <2>3
<1>2. S \in P
  <2> HIDE DEF P
  <2> QED BY <1>1, SubsetInduction
<1> QED BY <1>2

\* No more than k elements have fewer than k before them.
LEMMA FirstOnes ==
  ASSUME NEW S, IsFiniteSet(S), NEW R, Orders(R, S), NEW k \in Nat
  PROVE  Cardinality({x \in S : Cardinality({y \in S : <<y, x>> \in R}) < k}) <= k
<1> DEFINE before(x) == {y \in S : <<y, x>> \in R}
           U == {x \in S : Cardinality(before(x)) < k}
<1>1. IsFiniteSet(U) /\ Cardinality(U) \in Nat
  BY FS_Subset, FS_CardinalityType
<1>2. CASE U = {}
  <2>1. Cardinality(U) = 0
    BY <1>2, FS_EmptySet
  <2>2. Cardinality(U) <= k
    BY <2>1
  <2> QED BY <2>2
<1>3. CASE U # {}
  <2>1. Orders(R, U)
    BY DEF Orders
  <2>2. PICK m \in U : \A y \in U \ {m} : <<y, m>> \in R
    <3> HIDE DEF U
    <3> QED BY <1>1, <1>3, <2>1, LastElement
  <2>3. U \ {m} \subseteq before(m)
    BY <2>2
  <2>4. IsFiniteSet(before(m)) /\ Cardinality(before(m)) \in Nat
    BY FS_Subset, FS_CardinalityType
  <2>5. Cardinality(before(m)) < k
    BY <2>2
  <2> HIDE DEF U, before
  <2>6. Cardinality(U \ {m}) <= Cardinality(before(m))
    BY <2>3, <2>4, FS_Subset
  <2>7. Cardinality(U \ {m}) = Cardinality(U) - 1
    BY <1>1, <2>2, FS_RemoveElement
  <2>8. Cardinality(U) <= k
    BY <1>1, <2>4, <2>5, <2>6, <2>7
  <2> QED BY <2>8 DEF U, before
<1> QED BY <1>2, <1>3

\* Among finitely many values there are a least and a greatest one.
LEMMA Extremes ==
  ASSUME NEW S, IsFiniteSet(S), S # {}, NEW f, \A x \in S : f[x] \in Int
  PROVE  \E x, y \in S : \A z \in S : f[x] <= f[z] /\ f[z] <= f[y]
<1> DEFINE Bounds(T) == \E x, y \in T : \A z \in T : f[x] <= f[z] /\ f[z] <= f[y]
           P == {T \in SUBSET S : T # {} => Bounds(T)}
<1>1. ASSUME NEW T \in SUBSET S, \A x \in T : T \ {x} \in P
      PROVE  T \in P
  <2> SUFFICES ASSUME T # {} PROVE Bounds(T)
    OBVIOUS
  <2>1. PICK v \in T : TRUE
    OBVIOUS
  <2>2. CASE T \ {v} = {}
    <3>1. \A z \in T : z = v
      BY <2>2
    <3> QED BY <3>1
  <2>3. CASE T \ {v} # {}
    <3>1. PICK x, y \in T \ {v} : \A z \in T \ {v} : f[x] <= f[z] /\ f[z] <= f[y]
      BY <1>1, <2>3
    <3> DEFINE a == IF f[v] <= f[x] THEN v ELSE x
               b == IF f[v] <= f[y] THEN y ELSE v
    <3>2. a \in T /\ b \in T
      OBVIOUS
    <3>3. ASSUME NEW z \in T PROVE f[a] <= f[z] /\ f[z] <= f[b]
      <4>1. f[v] \in Int /\ f[x] \in Int /\ f[y] \in Int /\ f[z] \in Int
        OBVIOUS
      <4>2. z = v \/ (f[x] <= f[z] /\ f[z] <= f[y])
        BY <3>1
      <4>3. f[x] <= f[y]
        BY <3>1
      <4> QED BY <4>1, <4>2, <4>3
    <3> HIDE DEF a, b
    <3> QED BY <3>2, <3>3
  <2> QED BY <2>2, <2>3
<1>2. S \in P
  <2> HIDE DEF P
  <2> QED BY <1>1, SubsetInduction
<1> QED BY <1>2

\* An average lies between two of the values it is taken from.
LEMMA AverageBetween ==
  ASSUME NEW S, IsFiniteSet(S), S # {}, NEW f, \A x \in S : f[x] \in Nat
  PROVE  LET a == SumFunctionOnSet(f, S) \div Cardinality(S)
         IN  a \in Nat /\ \E x, y \in S : f[x] <= a /\ a <= f[y]
<1> DEFINE t == SumFunctionOnSet(f, S)
           n == Cardinality(S)
<1>1. \A x \in S : f[x] \in Int
  OBVIOUS
<1>2. PICK x, y \in S : \A z \in S : f[x] <= f[z] /\ f[z] <= f[y]
  BY <1>1, Extremes
<1>3. t \in Int
  BY <1>1, SumStep
<1>4. n \in Nat \ {0}
  BY FS_CardinalityType, FS_EmptySet
<1>5. f[x] \in Nat /\ f[y] \in Nat
  OBVIOUS
<1>6. f[x] * n <= t /\ t <= f[y] * n
  BY <1>1, <1>2, SumBounds
<1> DEFINE lo == f[x]
           hi == f[y]
<1> HIDE DEF t, n, lo, hi
<1>7. t \div n \in Int /\ f[x] <= t \div n /\ t \div n <= f[y]
  <2>1. lo \in Int /\ hi \in Int /\ lo * n <= t /\ t <= hi * n
    BY <1>5, <1>6 DEF lo, hi
  <2>2. t \div n \in Int /\ lo <= t \div n /\ t \div n <= hi
    BY <1>3, <1>4, <2>1, DivBounds
  <2> QED BY <2>2 DEF lo, hi
<1>8. t \div n \in Nat
  BY <1>5, <1>7
<1> QED BY <1>7, <1>8 DEF t, n

\* The sum over two parts.
LEMMA SumUnion ==
  ASSUME NEW S, IsFiniteSet(S), NEW T, IsFiniteSet(T), S \cap T = {},
         NEW f, \A x \in S \cup T : f[x] \in Int
  PROVE  SumFunctionOnSet(f, S \cup T) = SumFunctionOnSet(f, S) + SumFunctionOnSet(f, T)
<1> DEFINE A(U) == SumFunctionOnSet(f, U)
           P == {U \in SUBSET T : A(S \cup U) = A(S) + A(U)}
<1>1. IsFiniteSet(S \cup T)
  BY FS_Union
<1>2. \A U \in SUBSET (S \cup T) : /\ A(U) \in Int
                                  /\ \A y \in U : A(U) = f[y] + A(U \ {y})
  BY <1>1, SumsOfSubsets
<1>3. A({}) = 0
  BY SumEmpty
<1> HIDE DEF A
<1>4. ASSUME NEW U \in SUBSET T, \A x \in U : U \ {x} \in P
      PROVE  U \in P
  <2>1. CASE U = {}
    <3>1. S \cup U = S
      BY <2>1
    <3>2. A(S) \in Int
      BY <1>2
    <3> QED BY <1>3, <2>1, <3>1, <3>2
  <2>2. CASE U # {}
    <3>1. PICK y \in U : TRUE
      BY <2>2
    <3>2. A(S \cup (U \ {y})) = A(S) + A(U \ {y})
      BY <1>4
    <3>3. (S \cup U) \ {y} = S \cup (U \ {y})
      OBVIOUS
    <3>4. A(S \cup U) = f[y] + A(S \cup (U \ {y})) /\ A(U) = f[y] + A(U \ {y})
      BY <1>2, <3>3
    <3>5. f[y] \in Int /\ A(S) \in Int /\ A(U \ {y}) \in Int
      BY <1>2
    <3> QED BY <3>2, <3>4, <3>5
  <2> QED BY <2>1, <2>2
<1> HIDE DEF P
<1>5. T \in P
  BY <1>4, SubsetInduction
<1> QED BY <1>5 DEF P, A

\* The sum of two functions.
LEMMA SumPlus ==
  ASSUME NEW S, IsFiniteSet(S), NEW f, NEW g, NEW h,
         \A x \in S : f[x] \in Int /\ g[x] \in Int /\ h[x] = f[x] + g[x]
  PROVE  SumFunctionOnSet(h, S) = SumFunctionOnSet(f, S) + SumFunctionOnSet(g, S)
<1> DEFINE A(T) == SumFunctionOnSet(f, T)
           B(T) == SumFunctionOnSet(g, T)
           C(T) == SumFunctionOnSet(h, T)
           P == {T \in SUBSET S : C(T) = A(T) + B(T)}
<1>1. \A T \in SUBSET S : /\ A(T) \in Int /\ B(T) \in Int
                         /\ \A y \in T : A(T) = f[y] + A(T \ {y}) /\ B(T) = g[y] + B(T \ {y})
  BY SumsOfSubsets
<1>2. \A T \in SUBSET S : C(T) \in Int /\ \A y \in T : C(T) = h[y] + C(T \ {y})
  <2>1. \A x \in S : h[x] \in Int
    OBVIOUS
  <2> QED BY ONLY <2>1, IsFiniteSet(S), SumsOfSubsets
<1>3. A({}) = 0 /\ B({}) = 0 /\ C({}) = 0
  BY SumEmpty
<1> HIDE DEF A, B, C
<1>4. ASSUME NEW T \in SUBSET S, \A x \in T : T \ {x} \in P
      PROVE  T \in P
  <2>1. CASE T = {}
    BY <1>3, <2>1
  <2>2. CASE T # {}
    <3>1. PICK y \in T : TRUE
      BY <2>2
    <3>2. C(T \ {y}) = A(T \ {y}) + B(T \ {y})
      BY <1>4
    <3>3. C(T) = h[y] + C(T \ {y}) /\ A(T) = f[y] + A(T \ {y}) /\ B(T) = g[y] + B(T \ {y})
      BY <1>1, <1>2
    <3>4. f[y] \in Int /\ g[y] \in Int /\ h[y] = f[y] + g[y]
      OBVIOUS
    <3>5. A(T \ {y}) \in Int /\ B(T \ {y}) \in Int
      BY <1>1
    <3> QED BY <3>2, <3>3, <3>4, <3>5
  <2> QED BY <2>1, <2>2
<1> HIDE DEF P
<1>5. S \in P
  BY <1>4, SubsetInduction
<1> QED BY <1>5 DEF P, A, B, C

\* A constant factor.
LEMMA SumScale ==
  ASSUME NEW S, IsFiniteSet(S), NEW c \in Int, NEW f, NEW g,
         \A x \in S : f[x] \in Int /\ g[x] = c * f[x]
  PROVE  SumFunctionOnSet(g, S) = c * SumFunctionOnSet(f, S)
<1> DEFINE A(T) == SumFunctionOnSet(f, T)
           B(T) == SumFunctionOnSet(g, T)
           P == {T \in SUBSET S : B(T) = c * A(T)}
<1>1. \A T \in SUBSET S : A(T) \in Int /\ \A y \in T : A(T) = f[y] + A(T \ {y})
  <2>1. \A x \in S : f[x] \in Int
    OBVIOUS
  <2> QED BY ONLY <2>1, IsFiniteSet(S), SumsOfSubsets
<1>2. \A T \in SUBSET S : B(T) \in Int /\ \A y \in T : B(T) = g[y] + B(T \ {y})
  <2>1. \A x \in S : g[x] \in Int
    OBVIOUS
  <2> QED BY ONLY <2>1, IsFiniteSet(S), SumsOfSubsets
<1>3. A({}) = 0 /\ B({}) = 0
  BY SumEmpty
<1> HIDE DEF A, B
<1>4. ASSUME NEW T \in SUBSET S, \A x \in T : T \ {x} \in P
      PROVE  T \in P
  <2>1. CASE T = {}
    BY <1>3, <2>1
  <2>2. CASE T # {}
    <3>1. PICK y \in T : TRUE
      BY <2>2
    <3>2. B(T \ {y}) = c * A(T \ {y})
      BY <1>4
    <3>3. B(T) = g[y] + B(T \ {y}) /\ A(T) = f[y] + A(T \ {y})
      BY <1>1, <1>2
    <3>4. f[y] \in Int /\ g[y] = c * f[y] /\ A(T \ {y}) \in Int
      BY <1>1
    <3>5. c * (f[y] + A(T \ {y})) = c * f[y] + c * A(T \ {y})
      BY ONLY <3>4, c \in Int
    <3> QED BY <3>2, <3>3, <3>4, <3>5
  <2> QED BY <2>1, <2>2
<1> HIDE DEF P
<1>5. S \in P
  BY <1>4, SubsetInduction
<1> QED BY <1>5 DEF P, A, B

\* The sum of a constant.
LEMMA SumConstant ==
  ASSUME NEW S, IsFiniteSet(S), NEW c \in Int, NEW f, \A x \in S : f[x] = c
  PROVE  SumFunctionOnSet(f, S) = c * Cardinality(S)
<1>1. /\ c * Cardinality(S) <= SumFunctionOnSet(f, S)
      /\ SumFunctionOnSet(f, S) <= c * Cardinality(S)
  BY SumBounds
<1>2. SumFunctionOnSet(f, S) \in Int /\ Cardinality(S) \in Nat
  BY SumStep, FS_CardinalityType
<1> DEFINE n == Cardinality(S)
           t == SumFunctionOnSet(f, S)
<1> HIDE DEF n, t
<1>3. c * n \in Int
  BY <1>2 DEF n
<1>4. c * n <= t /\ t <= c * n /\ t \in Int
  BY <1>1, <1>2 DEF n, t
<1>5. t = c * n
  BY <1>3, <1>4
<1> QED BY <1>5 DEF n, t

-----------------------------------------------------------------------------
(* Folds over a sequence, from the left: the last element is taken off     *)
(* first.                                                                  *)

LEMMA LastIndex ==
  ASSUME NEW n \in Nat
  PROVE  /\ IsFiniteSet(1 .. n)
         /\ \A s \in SUBSET (1 .. n) : s # {} => Max(s) \in s
         /\ \A i \in 1 .. n : Max(1 .. i) = i /\ (1 .. i) \ {i} = 1 .. (i - 1)
<1>1. IsFiniteSet(1 .. n)
  <2>1. 1 \in Int /\ n \in Int
    OBVIOUS
  <2> QED BY <2>1, FS_Interval, Zenon
<1>2. ASSUME NEW s \in SUBSET (1 .. n), s # {} PROVE Max(s) \in s
  <2> DEFINE f == [i \in s |-> i]
  <2>1. IsFiniteSet(s) /\ \A i \in s : f[i] \in Int
    <3>1. IsFiniteSet(s)
      BY <1>1, FS_Subset
    <3>2. \A i \in s : f[i] \in Int
      OBVIOUS
    <3> QED BY <3>1, <3>2
  <2>2. \A i \in s : f[i] = i /\ i \in Int
    OBVIOUS
  <2> HIDE DEF f
  <2>3. PICK x, y \in s : \A z \in s : f[x] <= f[z] /\ f[z] <= f[y]
    BY <1>2, <2>1, Extremes
  <2>4. \A z \in s : y >= z
    BY <2>2, <2>3
  <2> QED BY <2>4 DEF Max
<1>3. ASSUME NEW i \in 1 .. n PROVE Max(1 .. i) = i /\ (1 .. i) \ {i} = 1 .. (i - 1)
  <2>1. i \in 1 .. i /\ \A y \in 1 .. i : i >= y
    OBVIOUS
  <2>2. \A x \in 1 .. i : (\A y \in 1 .. i : x >= y) => x = i
    BY <2>1
  <2>3. Max(1 .. i) = i
    BY <2>1, <2>2 DEF Max
  <2> QED BY <2>3
<1> QED BY <1>1, <1>2, <1>3

\* g satisfies the recursion of FoldLeft, and h is its value on the prefixes.
LeftFolds(g, h, n, base, F) ==
  /\ \A s \in SUBSET (1 .. n) : g[s] = IF s = {} THEN base ELSE F[Max(s)][g[s \ {Max(s)}]]
  /\ h[0] = base /\ h[n] = g[1 .. n]
  /\ \A i \in 1 .. n : h[i] = F[i][h[i - 1]]

LEMMA LeftFold ==
  ASSUME NEW n \in Nat, NEW X, NEW base \in X, NEW F \in [1 .. n -> [X -> X]]
  PROVE  \E g \in [SUBSET (1 .. n) -> X], h \in [0 .. n -> X] : LeftFolds(g, h, n, base, F)
<1> DEFINE S == 1 .. n
           c == [s \in SUBSET S |-> Max(s)]
<1>1. IsFiniteSet(S) /\ \A s \in SUBSET S : s # {} => Max(s) \in s
  BY LastIndex
<1>2. Chooses(c, S)
  BY <1>1 DEF Chooses
<1>3. PICK g \in [SUBSET S -> X] : Folds(g, S, base, F, c)
  <2>1. F \in [S -> [X -> X]]
    OBVIOUS
  <2> HIDE DEF S, c
  <2>2. IsFiniteSet(S)
    BY <1>1
  <2> QED BY <1>2, <2>1, <2>2, FoldExists, Zenon
<1>4. \A s \in SUBSET S : g[s] = IF s = {} THEN base ELSE F[Max(s)][g[s \ {Max(s)}]]
  BY <1>3 DEF Folds, Body
<1> DEFINE h == [i \in 0 .. n |-> g[1 .. i]]
<1>5. \A i \in 0 .. n : (1 .. i) \in SUBSET S
  OBVIOUS
<1>6. h \in [0 .. n -> X]
  BY <1>3, <1>5
<1>7. h[0] = base
  <2>1. 1 .. 0 = {} /\ {} \in SUBSET S
    OBVIOUS
  <2>2. g[{}] = base
    BY <1>4, <2>1
  <2> QED BY <2>1, <2>2
<1>8. ASSUME NEW i \in 1 .. n PROVE h[i] = F[i][h[i - 1]]
  <2>1. (1 .. i) \in SUBSET S /\ 1 .. i # {}
    <3>1. i \in 1 .. i /\ i \in 0 .. n
      OBVIOUS
    <3> QED BY <1>5, <3>1
  <2>2. Max(1 .. i) = i /\ (1 .. i) \ {i} = 1 .. (i - 1)
    BY LastIndex
  <2>3. g[1 .. i] = F[i][g[1 .. (i - 1)]]
    <3> DEFINE s == 1 .. i
    <3>1. s \in SUBSET S /\ s # {} /\ Max(s) = i /\ s \ {i} = 1 .. (i - 1)
      BY <2>1, <2>2
    <3> HIDE DEF s, S
    <3>2. g[s] = F[i][g[1 .. (i - 1)]]
      BY <1>4, <3>1
    <3> QED BY <3>2 DEF s
  <2>4. i - 1 \in 0 .. n /\ i \in 0 .. n
    OBVIOUS
  <2> QED BY <2>3, <2>4
<1>9. h[n] = g[1 .. n]
  OBVIOUS
<1> HIDE DEF h, S
<1>10. LeftFolds(g, h, n, base, F)
  BY <1>4, <1>7, <1>8, <1>9 DEF LeftFolds, S
<1> QED BY <1>3, <1>6, <1>10 DEF S

-----------------------------------------------------------------------------
(* Sequences without repetitions.                                          *)

Distinct(q) == \A i, j \in 1 .. Len(q) : q[i] = q[j] => i = j

Disjoint(p, q) == \A x : ~(Holds(p, x) /\ Holds(q, x))

LEMMA EmptyHolds == /\ \A x : ~Holds(<<>>, x)
                    /\ Distinct(<<>>)
  BY DEF Holds, Distinct

LEMMA ConcatHolds ==
  ASSUME NEW A, NEW p \in Seq(A), NEW q \in Seq(A)
  PROVE  /\ p \o q \in Seq(A)
         /\ \A x : Holds(p \o q, x) <=> Holds(p, x) \/ Holds(q, x)
         /\ Distinct(p) /\ Distinct(q) /\ Disjoint(p, q) => Distinct(p \o q)
         /\ Distinct(p \o q) => Distinct(p) /\ Distinct(q) /\ Disjoint(p, q)
<1> DEFINE r == p \o q
           m == Len(p)
           n == Len(q)
<1>1. r \in Seq(A) /\ m \in Nat /\ n \in Nat /\ Len(r) = m + n
  OBVIOUS
<1>2. \A i \in 1 .. m + n : r[i] = IF i <= m THEN p[i] ELSE q[i - m]
  OBVIOUS
<1> HIDE DEF r, m, n
<1>3. (\A i \in 1 .. m : i \in 1 .. m + n /\ r[i] = p[i])
  BY <1>1, <1>2
<1>4. (\A i \in 1 .. n : i + m \in 1 .. m + n /\ r[i + m] = q[i])
  BY <1>1, <1>2
<1>5. ASSUME NEW x PROVE Holds(r, x) <=> Holds(p, x) \/ Holds(q, x)
  <2>1. ASSUME Holds(r, x) PROVE Holds(p, x) \/ Holds(q, x)
    <3>1. PICK i \in 1 .. m + n : r[i] = x
      BY <1>1, <2>1 DEF Holds
    <3>2. CASE i <= m
      BY <1>1, <1>2, <3>1, <3>2 DEF Holds, m
    <3>3. CASE i > m
      <4>1. i - m \in 1 .. n /\ q[i - m] = x
        BY <1>1, <1>2, <3>1, <3>3
      <4> QED BY <4>1 DEF Holds, n
    <3> QED BY <1>1, <3>2, <3>3
  <2>2. ASSUME Holds(p, x) PROVE Holds(r, x)
    BY <1>1, <1>3, <2>2 DEF Holds, m
  <2>3. ASSUME Holds(q, x) PROVE Holds(r, x)
    <3>1. PICK i \in 1 .. n : q[i] = x
      BY <2>3 DEF Holds, n
    <3> QED BY <1>1, <1>4, <3>1 DEF Holds
  <2> QED BY <2>1, <2>2, <2>3
<1>6. ASSUME Distinct(p), Distinct(q), Disjoint(p, q) PROVE Distinct(r)
  <2> SUFFICES ASSUME NEW i \in 1 .. m + n, NEW j \in 1 .. m + n, r[i] = r[j] PROVE i = j
    BY <1>1 DEF Distinct
  <2>1. \A k \in 1 .. m + n : k > m => k - m \in 1 .. n
    BY <1>1
  <2>2. \A a \in 1 .. m, b \in 1 .. n : p[a] # q[b]
    BY <1>6 DEF Disjoint, Holds, m, n
  <2>3. CASE i <= m /\ j <= m
    <3>1. p[i] = p[j] /\ i \in 1 .. m /\ j \in 1 .. m
      BY <1>1, <1>2, <2>3
    <3> QED BY <1>6, <3>1 DEF Distinct, m
  <2>4. CASE i > m /\ j > m
    <3>1. q[i - m] = q[j - m]
      BY <1>1, <1>2, <2>4
    <3>2. i - m = j - m
      BY <1>6, <2>1, <2>4, <3>1 DEF Distinct, n
    <3> QED BY <1>1, <3>2
  <2>5. CASE i <= m /\ j > m
    <3>1. r[i] = p[i] /\ r[j] = q[j - m]
      BY <1>1, <1>2, <2>5
    <3>2. i \in 1 .. m /\ j - m \in 1 .. n
      BY <1>1, <2>1, <2>5
    <3> QED BY <2>2, <3>1, <3>2
  <2>6. CASE i > m /\ j <= m
    <3>1. r[j] = p[j] /\ r[i] = q[i - m]
      BY <1>1, <1>2, <2>6
    <3>2. j \in 1 .. m /\ i - m \in 1 .. n
      BY <1>1, <2>1, <2>6
    <3> QED BY <2>2, <3>1, <3>2
  <2> QED BY <1>1, <2>3, <2>4, <2>5, <2>6
<1>7. ASSUME Distinct(r) PROVE Distinct(p) /\ Distinct(q) /\ Disjoint(p, q)
  <2>1. Distinct(p)
    BY <1>1, <1>3, <1>7 DEF Distinct, m
  <2>2. ASSUME NEW i \in 1 .. n, NEW j \in 1 .. n, q[i] = q[j] PROVE i = j
    <3>1. i + m = j + m
      BY <1>1, <1>4, <1>7, <2>2 DEF Distinct
    <3> QED BY <1>1, <3>1
  <2>3. ASSUME NEW i \in 1 .. m, NEW j \in 1 .. n, p[i] = q[j] PROVE FALSE
    <3>1. i = j + m
      BY <1>1, <1>3, <1>4, <1>7, <2>3 DEF Distinct
    <3> QED BY <1>1, <3>1
  <2> QED BY <2>1, <2>2, <2>3 DEF Distinct, Disjoint, Holds, m, n
<1> QED BY <1>1, <1>5, <1>6, <1>7 DEF r

\* What a block takes off a pool and what it leaves.
LEMMA SplitHolds ==
  ASSUME NEW A, NEW q \in Seq(A), NEW n \in 0 .. Len(q)
  PROVE  LET p == SubSeq(q, 1, n)
             r == SubSeq(q, n + 1, Len(q))
         IN /\ p \in Seq(A) /\ r \in Seq(A) /\ Len(p) = n
            /\ \A x : Holds(q, x) <=> Holds(p, x) \/ Holds(r, x)
            /\ Distinct(q) => Distinct(p) /\ Distinct(r) /\ Disjoint(p, r)
<1> DEFINE p == SubSeq(q, 1, n)
           r == SubSeq(q, n + 1, Len(q))
<1>1. p \in Seq(A) /\ r \in Seq(A) /\ Len(p) = n
  OBVIOUS
<1>2. q = p \o r
  <2>1. Len(q) \in Nat
    OBVIOUS
  <2>2. 1 \in 1 .. Len(q) + 1 /\ n \in 1 - 1 .. Len(q) /\ Len(q) \in n .. Len(q)
    BY <2>1
  <2>3. p \o r = SubSeq(q, 1, Len(q))
    BY <2>2, ConcatAdjacentSubSeq, Zenon
  <2> QED BY <2>3, SubSeqFull
<1> HIDE DEF p, r
<1>3. /\ \A x : Holds(p \o r, x) <=> Holds(p, x) \/ Holds(r, x)
      /\ Distinct(p \o r) => Distinct(p) /\ Distinct(r) /\ Disjoint(p, r)
  BY <1>1, ConcatHolds
<1> QED BY <1>1, <1>2, <1>3 DEF p, r

-----------------------------------------------------------------------------
(* The loops over a batch, a block or a pool.                              *)

\* h[i] is the slice after i elements.
Slicing(h, q, T) ==
  /\ h[0] = <<>> /\ h[Len(q)] = Selected(q, T)
  /\ \A i \in 1 .. Len(q) : h[i] = IF q[i] \in T THEN Append(h[i - 1], q[i]) ELSE h[i - 1]

LEMMA SelectedSteps ==
  ASSUME NEW A, NEW q \in Seq(A), NEW T
  PROVE  \E h \in [0 .. Len(q) -> Seq(A)] : Slicing(h, q, T)
<1> DEFINE n == Len(q)
           D == 1 .. n
           X == Seq(A)
           F == [i \in 1 .. n |-> [v \in X |-> IF q[i] \in T THEN Append(v, q[i]) ELSE v]]
           R(g) == g = [s \in SUBSET DOMAIN q |->
                          IF s = {} THEN <<>>
                          ELSE IF q[Max(s)] \in T THEN Append(g[s \ {Max(s)}], q[Max(s)]) ELSE g[s \ {Max(s)}]]
           iter == CHOOSE g : R(g)
<1>1. Selected(q, T) = iter[DOMAIN q]
  BY DEF Selected, FoldLeft, MapThenFoldSet
<1>2. n \in Nat /\ DOMAIN q = D /\ <<>> \in X /\ \A i \in 1 .. n : q[i] \in A
  OBVIOUS
<1>3. F \in [1 .. n -> [X -> X]]
  <2>1. \A i \in 1 .. n, v \in X : (IF q[i] \in T THEN Append(v, q[i]) ELSE v) \in X
    BY <1>2
  <2> HIDE DEF X, n
  <2> QED BY <2>1
<1>4. PICK g \in [SUBSET (1 .. n) -> X], h \in [0 .. n -> X] : LeftFolds(g, h, n, <<>>, F)
  <2> HIDE DEF n, X, F
  <2> QED BY <1>2, <1>3, LeftFold, Zenon
<1>5. \A s \in SUBSET D : s # {} => Max(s) \in s
  BY <1>2, LastIndex
<1>6. \A i \in D, v \in X : F[i][v] = IF q[i] \in T THEN Append(v, q[i]) ELSE v
  <2> HIDE DEF X, n
  <2> QED OBVIOUS
<1>7. IsFiniteSet(D)
  BY <1>2, LastIndex
<1> HIDE DEF F, X, n
<1>8. ASSUME NEW s \in SUBSET D
      PROVE  g[s] = IF s = {} THEN <<>>
                    ELSE IF q[Max(s)] \in T THEN Append(g[s \ {Max(s)}], q[Max(s)]) ELSE g[s \ {Max(s)}]
  <2>1. g[s] = IF s = {} THEN <<>> ELSE F[Max(s)][g[s \ {Max(s)}]]
    BY <1>4 DEF LeftFolds
  <2>2. CASE s = {}
    BY <2>1, <2>2
  <2>3. CASE s # {}
    <3> DEFINE k == Max(s)
    <3>1. k \in D /\ s \ {k} \in SUBSET D
      BY <1>5, <2>3
    <3> HIDE DEF k
    <3>2. g[s \ {k}] \in X
      BY <1>4, <3>1
    <3>3. F[k][g[s \ {k}]] = IF q[k] \in T THEN Append(g[s \ {k}], q[k]) ELSE g[s \ {k}]
      BY <1>6, <3>1, <3>2
    <3>4. g[s] = F[k][g[s \ {k}]]
      BY <2>1, <2>3 DEF k
    <3>5. g[s] = IF q[k] \in T THEN Append(g[s \ {k}], q[k]) ELSE g[s \ {k}]
      BY <3>3, <3>4
    <3> QED BY <2>3, <3>5 DEF k
  <2> QED BY <2>2, <2>3
<1>9. R(g)
  BY <1>2, <1>4, <1>8
<1>10. R(iter)
  <2> HIDE DEF R
  <2> QED BY <1>9, Zenon
<1>11. iter[D] = g[D]
  <2> DEFINE P == {s \in SUBSET D : iter[s] = g[s]}
  <2> HIDE DEF iter, D
  <2>1. ASSUME NEW s \in SUBSET D, \A x \in s : s \ {x} \in P
        PROVE  s \in P
    <3>1. iter[s] = IF s = {} THEN <<>>
                    ELSE IF q[Max(s)] \in T THEN Append(iter[s \ {Max(s)}], q[Max(s)]) ELSE iter[s \ {Max(s)}]
      BY <1>2, <1>10
    <3>2. CASE s = {}
      BY <1>8, <3>1, <3>2
    <3>3. CASE s # {}
      <4> DEFINE k == Max(s)
                 u == s \ {k}
      <4>1. iter[u] = g[u]
        BY <1>5, <2>1, <3>3
      <4> HIDE DEF k
      <4>2. iter[s] = IF q[k] \in T THEN Append(iter[u], q[k]) ELSE iter[u]
        BY <3>1, <3>3 DEF k
      <4>3. g[s] = IF q[k] \in T THEN Append(g[u], q[k]) ELSE g[u]
        BY <1>8, <3>3 DEF k
      <4> HIDE DEF u
      <4>4. iter[s] = g[s]
        BY <4>1, <4>2, <4>3
      <4> QED BY <4>4
    <3> QED BY <3>2, <3>3
  <2>2. D \in P
    <3> HIDE DEF P
    <3> QED BY <1>7, <2>1, SubsetInduction
  <2> QED BY <2>2
<1>12. h[0] = <<>> /\ h[n] = g[D]
  BY <1>4 DEF LeftFolds
<1>13. ASSUME NEW i \in 1 .. n
       PROVE  h[i] = IF q[i] \in T THEN Append(h[i - 1], q[i]) ELSE h[i - 1]
  <2>1. i - 1 \in 0 .. n
    BY <1>2
  <2>2. h[i] = F[i][h[i - 1]] /\ h[i - 1] \in X
    BY <1>4, <2>1 DEF LeftFolds
  <2> QED BY <1>6, <2>2
<1>14. h[n] = Selected(q, T)
  BY <1>1, <1>2, <1>11, <1>12
<1>15. Slicing(h, q, T)
  BY <1>12, <1>13, <1>14 DEF Slicing, n
<1> QED BY <1>4, <1>15 DEF n, X

LEMMA AppendHolds ==
  ASSUME NEW A, NEW p \in Seq(A), NEW e \in A
  PROVE  /\ Append(p, e) \in Seq(A)
         /\ \A x : Holds(Append(p, e), x) <=> Holds(p, x) \/ x = e
         /\ Distinct(p) /\ ~Holds(p, e) => Distinct(Append(p, e))
<1>1. <<e>> \in Seq(A) /\ Append(p, e) = p \o <<e>> /\ Append(p, e) \in Seq(A)
  OBVIOUS
<1>2. (\A x : Holds(<<e>>, x) <=> x = e) /\ Distinct(<<e>>)
  BY DEF Holds, Distinct
<1>3. ~Holds(p, e) => Disjoint(p, <<e>>)
  BY <1>2 DEF Disjoint
<1> HIDE DEF Distinct, Holds
<1>4. /\ \A x : Holds(p \o <<e>>, x) <=> Holds(p, x) \/ Holds(<<e>>, x)
      /\ Distinct(p) /\ Distinct(<<e>>) /\ Disjoint(p, <<e>>) => Distinct(p \o <<e>>)
  BY <1>1, ConcatHolds
<1> QED BY <1>1, <1>2, <1>3, <1>4

\* The selection holds what q holds and T has, and repeats nothing.
LEMMA SelectedHolds ==
  ASSUME NEW A, NEW q \in Seq(A), NEW T
  PROVE  /\ Selected(q, T) \in Seq(A)
         /\ \A x : Holds(Selected(q, T), x) <=> Holds(q, x) /\ x \in T
         /\ Distinct(q) => Distinct(Selected(q, T))
<1> DEFINE n == Len(q)
<1>1. n \in Nat /\ \A i \in 1 .. n : q[i] \in A
  OBVIOUS
<1>2. PICK h \in [0 .. n -> Seq(A)] : Slicing(h, q, T)
  BY SelectedSteps
<1> DEFINE Good(i) == /\ \A x : Holds(h[i], x) <=> x \in T /\ \E j \in 1 .. i : q[j] = x
                      /\ Distinct(q) => Distinct(h[i])
           P == {i \in Nat : i <= n => Good(i)}
<1> HIDE DEF n
<1>3. Good(0)
  <2>1. \A x : ~Holds(h[0], x)
    BY <1>2, EmptyHolds DEF Slicing
  <2>2. Distinct(h[0])
    BY <1>2, EmptyHolds DEF Slicing
  <2>3. 1 .. 0 = {}
    OBVIOUS
  <2> QED BY <2>1, <2>2, <2>3
<1>4. ASSUME NEW i \in Nat, i \in P PROVE i + 1 \in P
  <2> SUFFICES ASSUME i + 1 <= n PROVE Good(i + 1)
    OBVIOUS
  <2> DEFINE k == i + 1
  <2>1. k \in 1 .. n /\ k - 1 = i /\ i \in 0 .. n /\ i <= n
    BY <1>1
  <2>2. Good(i)
    BY <1>4, <2>1
  <2>3. h[k] = IF q[k] \in T THEN Append(h[i], q[k]) ELSE h[i]
    BY <1>2, <2>1 DEF Slicing, n
  <2>4. q[k] \in A /\ h[i] \in Seq(A)
    BY <1>1, <1>2, <2>1
  <2>5. \A x : (\E j \in 1 .. k : q[j] = x) <=> (\E j \in 1 .. i : q[j] = x) \/ q[k] = x
    BY <2>1
  <2>6. Distinct(q) => ~\E j \in 1 .. i : q[j] = q[k]
    BY <1>1, <2>1 DEF Distinct, n
  <2> HIDE DEF k
  <2>7. CASE q[k] \in T
    <3>1. /\ \A x : Holds(h[k], x) <=> Holds(h[i], x) \/ x = q[k]
          /\ Distinct(h[i]) /\ ~Holds(h[i], q[k]) => Distinct(h[k])
      BY <2>3, <2>4, <2>7, AppendHolds
    <3>2. Good(k)
      BY <2>2, <2>5, <2>6, <2>7, <3>1
    <3> QED BY <3>2 DEF k
  <2>8. CASE q[k] \notin T
    <3>1. Good(k)
      BY <2>2, <2>3, <2>5, <2>8
    <3> QED BY <3>1 DEF k
  <2> QED BY <2>7, <2>8
<1>5. 0 \in P
  BY <1>3
<1>6. Nat \subseteq P
  <2> HIDE DEF P
  <2> QED BY <1>4, <1>5, NatSetInduction
<1>7. Good(n)
  BY <1>1, <1>6
<1>8. Selected(q, T) \in Seq(A)
  BY <1>1, <1>2 DEF Slicing, n
<1> QED BY <1>2, <1>7, <1>8 DEF Slicing, Holds, n

\* h[i] is the concatenation of the first i slices.
Concatenating(h, q) ==
  /\ h[0] = <<>> /\ h[Len(q)] = Concatenated(q)
  /\ \A i \in 1 .. Len(q) : h[i] = h[i - 1] \o q[i]

LEMMA ConcatenatedSteps ==
  ASSUME NEW A, NEW q \in Seq(Seq(A))
  PROVE  \E h \in [0 .. Len(q) -> Seq(A)] : Concatenating(h, q)
<1> DEFINE n == Len(q)
           D == 1 .. n
           X == Seq(A)
           F == [i \in 1 .. n |-> [v \in X |-> v \o q[i]]]
           R(g) == g = [s \in SUBSET DOMAIN q |->
                          IF s = {} THEN <<>>
                          ELSE g[s \ {Max(s)}] \o q[Max(s)]]
           iter == CHOOSE g : R(g)
<1>1. Concatenated(q) = iter[DOMAIN q]
  BY DEF Concatenated, FoldLeft, MapThenFoldSet
<1>2. n \in Nat /\ DOMAIN q = D /\ <<>> \in X /\ \A i \in 1 .. n : q[i] \in X
  OBVIOUS
<1>3. F \in [1 .. n -> [X -> X]]
  <2>1. \A i \in 1 .. n, v \in X : (v \o q[i]) \in X
    BY <1>2
  <2> HIDE DEF X, n
  <2> QED BY <2>1
<1>4. PICK g \in [SUBSET (1 .. n) -> X], h \in [0 .. n -> X] : LeftFolds(g, h, n, <<>>, F)
  <2> HIDE DEF n, X, F
  <2> QED BY <1>2, <1>3, LeftFold, Zenon
<1>5. \A s \in SUBSET D : s # {} => Max(s) \in s
  BY <1>2, LastIndex
<1>6. \A i \in D, v \in X : F[i][v] = v \o q[i]
  <2> HIDE DEF X, n
  <2> QED OBVIOUS
<1>7. IsFiniteSet(D)
  BY <1>2, LastIndex
<1> HIDE DEF F, X, n
<1>8. ASSUME NEW s \in SUBSET D
      PROVE  g[s] = IF s = {} THEN <<>>
                    ELSE g[s \ {Max(s)}] \o q[Max(s)]
  <2>1. g[s] = IF s = {} THEN <<>> ELSE F[Max(s)][g[s \ {Max(s)}]]
    BY <1>4 DEF LeftFolds
  <2>2. CASE s = {}
    BY <2>1, <2>2
  <2>3. CASE s # {}
    <3> DEFINE k == Max(s)
    <3>1. k \in D /\ s \ {k} \in SUBSET D
      BY <1>5, <2>3
    <3> HIDE DEF k
    <3>2. g[s \ {k}] \in X
      BY <1>4, <3>1
    <3>3. F[k][g[s \ {k}]] = g[s \ {k}] \o q[k]
      BY <1>6, <3>1, <3>2
    <3>4. g[s] = F[k][g[s \ {k}]]
      BY <2>1, <2>3 DEF k
    <3>5. g[s] = g[s \ {k}] \o q[k]
      BY <3>3, <3>4
    <3> QED BY <2>3, <3>5 DEF k
  <2> QED BY <2>2, <2>3
<1>9. R(g)
  BY <1>2, <1>4, <1>8
<1>10. R(iter)
  <2> HIDE DEF R
  <2> QED BY <1>9, Zenon
<1>11. iter[D] = g[D]
  <2> DEFINE P == {s \in SUBSET D : iter[s] = g[s]}
  <2> HIDE DEF iter, D
  <2>1. ASSUME NEW s \in SUBSET D, \A x \in s : s \ {x} \in P
        PROVE  s \in P
    <3>1. iter[s] = IF s = {} THEN <<>>
                    ELSE iter[s \ {Max(s)}] \o q[Max(s)]
      BY <1>2, <1>10
    <3>2. CASE s = {}
      BY <1>8, <3>1, <3>2
    <3>3. CASE s # {}
      <4> DEFINE k == Max(s)
                 u == s \ {k}
      <4>1. iter[u] = g[u]
        BY <1>5, <2>1, <3>3
      <4> HIDE DEF k
      <4>2. iter[s] = iter[u] \o q[k]
        BY <3>1, <3>3 DEF k
      <4>3. g[s] = g[u] \o q[k]
        BY <1>8, <3>3 DEF k
      <4> HIDE DEF u
      <4>4. iter[s] = g[s]
        BY <4>1, <4>2, <4>3
      <4> QED BY <4>4
    <3> QED BY <3>2, <3>3
  <2>2. D \in P
    <3> HIDE DEF P
    <3> QED BY <1>7, <2>1, SubsetInduction
  <2> QED BY <2>2
<1>12. h[0] = <<>> /\ h[n] = g[D]
  BY <1>4 DEF LeftFolds
<1>13. ASSUME NEW i \in 1 .. n
       PROVE  h[i] = h[i - 1] \o q[i]
  <2>1. i - 1 \in 0 .. n
    BY <1>2
  <2>2. h[i] = F[i][h[i - 1]] /\ h[i - 1] \in X
    BY <1>4, <2>1 DEF LeftFolds
  <2> QED BY <1>6, <2>2
<1>14. h[n] = Concatenated(q)
  BY <1>1, <1>2, <1>11, <1>12
<1>15. Concatenating(h, q)
  BY <1>12, <1>13, <1>14 DEF Concatenating, n
<1> QED BY <1>4, <1>15 DEF n, X

\* The concatenation holds what one of the slices holds.
LEMMA ConcatenatedHolds ==
  ASSUME NEW A, NEW q \in Seq(Seq(A))
  PROVE  /\ Concatenated(q) \in Seq(A)
         /\ \A x : Holds(Concatenated(q), x) <=> \E i \in 1 .. Len(q) : Holds(q[i], x)
<1> DEFINE n == Len(q)
<1>1. n \in Nat /\ \A i \in 1 .. n : q[i] \in Seq(A)
  OBVIOUS
<1>2. PICK h \in [0 .. n -> Seq(A)] : Concatenating(h, q)
  BY ConcatenatedSteps
<1> DEFINE Good(i) == \A x : Holds(h[i], x) <=> \E j \in 1 .. i : Holds(q[j], x)
           P == {i \in Nat : i <= n => Good(i)}
<1> HIDE DEF n
<1>3. Good(0)
  <2>1. \A x : ~Holds(h[0], x)
    BY <1>2, EmptyHolds DEF Concatenating
  <2>2. 1 .. 0 = {}
    OBVIOUS
  <2> QED BY <2>1, <2>2
<1>4. ASSUME NEW i \in Nat, i \in P PROVE i + 1 \in P
  <2> SUFFICES ASSUME i + 1 <= n PROVE Good(i + 1)
    OBVIOUS
  <2> DEFINE k == i + 1
  <2>1. k \in 1 .. n /\ k - 1 = i /\ i \in 0 .. n /\ i <= n
    BY <1>1
  <2>2. Good(i)
    BY <1>4, <2>1
  <2>3. h[k] = h[i] \o q[k]
    BY <1>2, <2>1 DEF Concatenating, n
  <2>4. q[k] \in Seq(A) /\ h[i] \in Seq(A)
    BY <1>1, <1>2, <2>1
  <2>5. \A j : j \in 1 .. k <=> j \in 1 .. i \/ j = k
    BY <2>1
  <2> HIDE DEF k
  <2>6. \A x : Holds(h[k], x) <=> Holds(h[i], x) \/ Holds(q[k], x)
    BY <2>3, <2>4, ConcatHolds
  <2>7. Good(k)
    BY <2>2, <2>5, <2>6
  <2> QED BY <2>7 DEF k
<1>5. 0 \in P
  BY <1>3
<1>6. Nat \subseteq P
  <2> HIDE DEF P
  <2> QED BY <1>4, <1>5, NatSetInduction
<1>7. Good(n)
  <2> HIDE DEF Good
  <2> QED BY <1>1, <1>6
<1>8. Concatenated(q) \in Seq(A)
  BY <1>1, <1>2 DEF Concatenating, n
<1> QED BY <1>2, <1>7, <1>8 DEF Concatenating, n
=============================================================================

----------------------------- MODULE OperatorLemmas ----------------------------
(***************************************************************************)
(* Lemmas about operators without state that the models are built from.    *)
(*                                                                         *)
(* Sums of functions over finite sets, which the tally of a vote and the   *)
(* deposits of a mint are made of.  The induction theorems of the library  *)
(* take an operator; here induction is over a set Good of the subsets that *)
(* have the property, which a proof can name.                              *)
(*                                                                         *)
(* And the arithmetic of votes: thresholds, tips and spread votes.         *)
(***************************************************************************)
EXTENDS VoteResolution, FiniteSetTheorems, SequenceTheorems, TLAPS

\* What holds of zero, and of n + 1 whenever it does of n, holds of every number.
LEMMA NatInductionBySet ==
  ASSUME NEW Good, 0 \in Good, \A n \in Nat : n \in Good => n + 1 \in Good
  PROVE  Nat \subseteq Good
<1>. DEFINE Bad == Nat \ Good
            R == OpToRel(<, Nat)
<1>1. SUFFICES ASSUME Bad # {} PROVE FALSE
  OBVIOUS
<1>2. IsWellFoundedOn(R, Nat)
  BY NatLessThanWellFounded
<1>3. \E x \in Bad : \A y \in Bad : ~ (<<y, x>> \in R)
  <2>. HIDE DEF R
  <2>. QED BY <1>1, <1>2, WFMin
<1>4. PICK m \in Bad : \A y \in Bad : ~ (<<y, m>> \in R)
  BY <1>3
<1>5. \A y \in Nat : y < m => <<y, m>> \in R
  BY <1>4 DEF OpToRel
<1>. HIDE DEF R
<1>6. m # 0 /\ m - 1 \in Nat /\ m - 1 < m
  BY <1>4
<1>7. m - 1 \in Good
  BY <1>4, <1>5, <1>6
<1>. QED
  BY <1>4, <1>6, <1>7

\* What holds of the empty set, and of a subset of S with one more element whenever
\* it does of the subset, holds of the finite set S.
LEMMA SubsetInductionBySet ==
  ASSUME NEW S, IsFiniteSet(S), NEW Good, {} \in Good,
         \A T \in SUBSET S : \A x \in S \ T : T \in Good => T \cup {x} \in Good
  PROVE  S \in Good
<1>. DEFINE Bad == (SUBSET S) \ Good
            R == StrictSubsetOrdering(S)
<1>1. SUFFICES ASSUME S \notin Good PROVE FALSE
  OBVIOUS
<1>2. IsWellFoundedOn(R, SUBSET S)
  BY FS_StrictSubsetOrderingWellFounded, FS_FiniteSubsetsOfFinite
<1>3. \E m \in Bad : \A y \in Bad : ~ (<<y, m>> \in R)
  <2>. HIDE DEF R
  <2>. QED BY <1>1, <1>2, WFMin
<1>4. PICK m \in Bad : \A y \in Bad : ~ (<<y, m>> \in R)
  BY <1>3
<1>5. \A y \in SUBSET S : y \subseteq m /\ y # m => y \in Good
  BY <1>4 DEF StrictSubsetOrdering
<1>6. PICK x \in m : TRUE
  BY <1>4
<1>7. m \ {x} \in Good
  BY <1>4, <1>5, <1>6
<1>8. (m \ {x}) \cup {x} = m
  BY <1>6
<1>. QED
  BY <1>4, <1>6, <1>7, <1>8

-----------------------------------------------------------------------------
(* The recursion behind the folds of the library *)

Chosen(s) == CHOOSE x \in s : TRUE

\* What the fold over s adds, given the folds over the smaller sets.
Added(fun, g, s) == IF s = {} THEN 0 ELSE fun[Chosen(s)] + g[s \ {Chosen(s)}]

SubsetsUpTo(S, n) == {s \in SUBSET S : Cardinality(s) <= n}

LEMMA ChosenSmaller ==
  ASSUME NEW S, IsFiniteSet(S), NEW s \in SUBSET S, s # {}
  PROVE  /\ Chosen(s) \in s /\ s \ {Chosen(s)} \in SUBSET S
         /\ Cardinality(s) \in Nat \ {0}
         /\ Cardinality(s \ {Chosen(s)}) = Cardinality(s) - 1
<1>1. Chosen(s) \in s
  BY DEF Chosen
<1>2. IsFiniteSet(s)
  BY FS_Subset
<1>3. Cardinality(s) \in Nat /\ Cardinality(s) # 0
  BY <1>2, FS_CardinalityType, FS_EmptySet
<1>4. Cardinality(s \ {Chosen(s)}) = Cardinality(s) - 1
  BY <1>1, <1>2, FS_RemoveElement
<1>. QED
  BY <1>1, <1>3, <1>4

\* There is a function that satisfies the recursion.
LEMMA FoldExists ==
  ASSUME NEW S, IsFiniteSet(S), NEW fun
  PROVE  \E g : g = [s \in SUBSET S |-> Added(fun, g, s)]
<1>. DEFINE Good == {n \in Nat : \E g : g = [s \in SubsetsUpTo(S, n) |-> Added(fun, g, s)]}
<1>0. \A s \in SUBSET S : Cardinality(s) \in Nat /\ (Cardinality(s) = 0 => s = {})
  BY FS_Subset, FS_CardinalityType, FS_EmptySet
<1>1. 0 \in Good
  <2>1. [s \in SubsetsUpTo(S, 0) |-> 0] = [s \in SubsetsUpTo(S, 0) |->
            Added(fun, [t \in SubsetsUpTo(S, 0) |-> 0], s)]
    BY <1>0 DEF SubsetsUpTo, Added
  <2>. QED  BY <2>1
<1>2. ASSUME NEW n \in Nat, n \in Good PROVE n + 1 \in Good
  <2>1. PICK g : g = [s \in SubsetsUpTo(S, n) |-> Added(fun, g, s)]
    BY <1>2
  <2>. DEFINE h == [s \in SubsetsUpTo(S, n + 1) |-> Added(fun, g, s)]
  <2>2. ASSUME NEW s \in SubsetsUpTo(S, n + 1) PROVE h[s] = Added(fun, h, s)
    <3>1. CASE s = {}
      BY <3>1 DEF Added
    <3>2. CASE s # {}
      <4>. DEFINE t == s \ {Chosen(s)}
      <4>1. s \in SUBSET S /\ Cardinality(s) <= n + 1
        BY DEF SubsetsUpTo
      <4>2. /\ t \in SUBSET S /\ Cardinality(s) \in Nat /\ Cardinality(t) = Cardinality(s) - 1
        BY <3>2, <4>1, ChosenSmaller
      <4>3. t \in SubsetsUpTo(S, n) /\ t \in SubsetsUpTo(S, n + 1)
        BY <4>1, <4>2 DEF SubsetsUpTo
      <4>4. g[t] = Added(fun, g, t) /\ h[t] = Added(fun, g, t)
        BY <2>1, <4>3
      <4>5. h[t] = g[t]
        BY <4>4
      <4>6. h[s] = Added(fun, g, s)
        OBVIOUS
      <4>. HIDE DEF h
      <4>. QED  BY <4>5, <4>6 DEF Added
    <3>. QED  BY <3>1, <3>2
  <2>3. h = [s \in SubsetsUpTo(S, n + 1) |-> h[s]]
    OBVIOUS
  <2>4. h = [s \in SubsetsUpTo(S, n + 1) |-> Added(fun, h, s)]
    <3>. HIDE DEF h
    <3>. QED  BY <2>2, <2>3
  <2>. QED
    <3>. HIDE DEF h
    <3>. QED  BY <2>4
<1>3. Cardinality(S) \in Good
  <2>. HIDE DEF Good
  <2>. QED  BY <1>1, <1>2, NatInductionBySet, <1>0
<1>4. SubsetsUpTo(S, Cardinality(S)) = SUBSET S
  BY FS_Subset DEF SubsetsUpTo
<1>. QED
  BY <1>3, <1>4

\* All functions that satisfy it agree.
LEMMA FoldUnique ==
  ASSUME NEW S, IsFiniteSet(S), NEW fun, NEW g, NEW h,
         \A s \in SUBSET S : g[s] = Added(fun, g, s),
         \A s \in SUBSET S : h[s] = Added(fun, h, s)
  PROVE  g[S] = h[S]
<1>. DEFINE Good == {n \in Nat : \A s \in SubsetsUpTo(S, n) : g[s] = h[s]}
<1>0. \A s \in SUBSET S : Cardinality(s) \in Nat /\ (Cardinality(s) = 0 => s = {})
  BY FS_Subset, FS_CardinalityType, FS_EmptySet
<1>1. 0 \in Good
  BY <1>0 DEF SubsetsUpTo, Added
<1>2. ASSUME NEW n \in Nat, n \in Good PROVE n + 1 \in Good
  <2>1. ASSUME NEW s \in SubsetsUpTo(S, n + 1) PROVE g[s] = h[s]
    <3>1. s \in SUBSET S /\ Cardinality(s) <= n + 1
      BY DEF SubsetsUpTo
    <3>2. CASE s = {}
      BY <3>1, <3>2 DEF Added
    <3>3. CASE s # {}
      <4>. DEFINE t == s \ {Chosen(s)}
      <4>1. t \in SUBSET S /\ Cardinality(s) \in Nat /\ Cardinality(t) = Cardinality(s) - 1
        BY <3>1, <3>3, ChosenSmaller
      <4>2. t \in SubsetsUpTo(S, n)
        BY <3>1, <4>1 DEF SubsetsUpTo
      <4>3. g[t] = h[t]
        BY <1>2, <4>2
      <4>. QED  BY <3>1, <4>3 DEF Added
    <3>. QED  BY <3>2, <3>3
  <2>. QED  BY <2>1
<1>3. Cardinality(S) \in Good
  <2>. HIDE DEF Good
  <2>. QED  BY <1>1, <1>2, NatInductionBySet, <1>0
<1>4. S \in SubsetsUpTo(S, Cardinality(S))
  BY <1>0 DEF SubsetsUpTo
<1>. QED
  BY <1>3, <1>4

\* SumFunctionOnSet is the value of such a function.
LEMMA SumIsFold ==
  ASSUME NEW S, IsFiniteSet(S), NEW fun
  PROVE  \E g : /\ g = [s \in SUBSET S |-> Added(fun, g, s)]
               /\ SumFunctionOnSet(fun, S) = g[S]
<1>. DEFINE Iter == CHOOSE g : g = [s \in SUBSET S |-> Added(fun, g, s)]
<1>1. Iter = [s \in SUBSET S |-> Added(fun, Iter, s)]
  BY FoldExists
<1>2. SumFunctionOnSet(fun, S) = Iter[S]
  BY DEF SumFunctionOnSet, FoldFunctionOnSet, MapThenFoldSet, Added, Chosen
<1>. HIDE DEF Iter
<1>. QED
  BY <1>1, <1>2

-----------------------------------------------------------------------------
(* Sums *)

LEMMA SumOfNone == ASSUME NEW fun PROVE SumFunctionOnSet(fun, {}) = 0
<1>1. PICK g : /\ g = [s \in SUBSET {} |-> Added(fun, g, s)]
               /\ SumFunctionOnSet(fun, {}) = g[{}]
  BY SumIsFold, FS_EmptySet
<1>. QED
  BY <1>1 DEF Added

\* A sum only depends on the values it adds.
LEMMA SumSameValues ==
  ASSUME NEW S, IsFiniteSet(S), NEW f, NEW g, \A x \in S : f[x] = g[x]
  PROVE  SumFunctionOnSet(f, S) = SumFunctionOnSet(g, S)
<1>1. PICK a : /\ a = [s \in SUBSET S |-> Added(f, a, s)]
               /\ SumFunctionOnSet(f, S) = a[S]
  BY SumIsFold
<1>2. PICK b : /\ b = [s \in SUBSET S |-> Added(g, b, s)]
               /\ SumFunctionOnSet(g, S) = b[S]
  BY SumIsFold
<1>3. \A s \in SUBSET S : b[s] = Added(g, b, s)
  BY <1>2
<1>4. \A s \in SUBSET S : b[s] = Added(f, b, s)
  <2>1. ASSUME NEW s \in SUBSET S PROVE Added(g, b, s) = Added(f, b, s)
    <3>1. s # {} => Chosen(s) \in S
      BY ChosenSmaller
    <3>. QED  BY <3>1 DEF Added
  <2>. QED  BY <1>3, <2>1
<1>5. \A s \in SUBSET S : a[s] = Added(f, a, s)
  BY <1>1
<1>6. a[S] = b[S]
  BY <1>4, <1>5, FoldUnique
<1>. QED
  BY <1>1, <1>2, <1>6

LEMMA SumWithoutChosen ==
  ASSUME NEW S, IsFiniteSet(S), S # {}, NEW f
  PROVE  SumFunctionOnSet(f, S) = f[Chosen(S)] + SumFunctionOnSet(f, S \ {Chosen(S)})
<1>. DEFINE T == S \ {Chosen(S)}
<1>0. IsFiniteSet(T) /\ T \in SUBSET S
  BY FS_RemoveElement
<1>1. PICK a : /\ a = [s \in SUBSET S |-> Added(f, a, s)]
               /\ SumFunctionOnSet(f, S) = a[S]
  BY SumIsFold
<1>2. PICK b : /\ b = [s \in SUBSET T |-> Added(f, b, s)]
               /\ SumFunctionOnSet(f, T) = b[T]
  BY <1>0, SumIsFold
<1>3. /\ \A s \in SUBSET T : a[s] = Added(f, a, s)
      /\ \A s \in SUBSET T : b[s] = Added(f, b, s)
  BY <1>0, <1>1, <1>2
<1>4. a[T] = b[T]
  <2>. HIDE DEF T
  <2>. QED  BY <1>0, <1>3, FoldUnique
<1>5. a[S] = f[Chosen(S)] + a[T]
  BY <1>1 DEF Added
<1>. QED
  BY <1>1, <1>2, <1>4, <1>5

\* The elements may be added in any order.
LEMMA SumWithout ==
  ASSUME NEW S, IsFiniteSet(S), NEW f, \A x \in S : f[x] \in Int
  PROVE  /\ SumFunctionOnSet(f, S) \in Int
         /\ \A x \in S : SumFunctionOnSet(f, S) = f[x] + SumFunctionOnSet(f, S \ {x})
<1>. DEFINE Sum(s) == SumFunctionOnSet(f, s)
            Any(s) == Sum(s) \in Int /\ \A x \in s : Sum(s) = f[x] + Sum(s \ {x})
            Good == {n \in Nat : \A s \in SubsetsUpTo(S, n) : Any(s)}
<1>0. \A s \in SUBSET S : /\ IsFiniteSet(s) /\ Cardinality(s) \in Nat
                          /\ (Cardinality(s) = 0 => s = {})
  BY FS_Subset, FS_CardinalityType, FS_EmptySet
<1>1. 0 \in Good
  <2>1. Any({})
    BY SumOfNone
  <2>2. \A s \in SubsetsUpTo(S, 0) : s = {}
    BY <1>0 DEF SubsetsUpTo
  <2>. HIDE DEF Any
  <2>. QED  BY <2>1, <2>2
<1>2. ASSUME NEW n \in Nat, n \in Good PROVE n + 1 \in Good
  <2>1. ASSUME NEW s \in SubsetsUpTo(S, n + 1) PROVE Any(s)
    <3>1. s \in SUBSET S /\ Cardinality(s) <= n + 1 /\ IsFiniteSet(s) /\ Cardinality(s) \in Nat
      BY <1>0 DEF SubsetsUpTo
    <3>2. CASE s = {}
      BY <3>2, SumOfNone
    <3>3. CASE s # {}
      <4>. DEFINE c == Chosen(s)
      <4>1. c \in s /\ c \in S
        BY <3>1, <3>3, ChosenSmaller
      <4>2. ASSUME NEW x \in s PROVE s \ {x} \in SubsetsUpTo(S, n)
        <5>1. Cardinality(s \ {x}) = Cardinality(s) - 1
          BY <3>1, FS_RemoveElement
        <5>. QED  BY <3>1, <5>1 DEF SubsetsUpTo
      <4>3. \A x \in s : Any(s \ {x})
        <5>. HIDE DEF Any
        <5>. QED  BY <1>2, <4>2
      <4>4. Sum(s) = f[c] + Sum(s \ {c})
        BY <3>1, <3>3, SumWithoutChosen
      <4>5. Sum(s) \in Int
        BY <4>1, <4>3, <4>4
      <4>6. ASSUME NEW x \in s, x # c PROVE Sum(s) = f[x] + Sum(s \ {x})
        <5>1. x \in s \ {c} /\ c \in s \ {x} /\ x \in S
          BY <3>1, <4>1, <4>6
        <5>2. Sum(s \ {c}) = f[x] + Sum((s \ {c}) \ {x})
          BY <4>1, <4>3, <5>1
        <5>3. Sum(s \ {x}) = f[c] + Sum((s \ {x}) \ {c})
          BY <4>3, <5>1
        <5>4. (s \ {c}) \ {x} = (s \ {x}) \ {c}
          OBVIOUS
        <5>5. (s \ {c}) \ {x} \in SubsetsUpTo(S, n)
          <6>1. /\ IsFiniteSet(s \ {c}) /\ IsFiniteSet((s \ {c}) \ {x})
                /\ Cardinality(s \ {c}) = Cardinality(s) - 1
                /\ Cardinality((s \ {c}) \ {x}) = Cardinality(s \ {c}) - 1
            BY <3>1, <4>1, <5>1, FS_RemoveElement
          <6>. QED  BY <3>1, <6>1 DEF SubsetsUpTo
        <5>6. Sum((s \ {c}) \ {x}) \in Int
          <6>1. Any((s \ {c}) \ {x})
            <7>. HIDE DEF Any, c
            <7>. QED  BY <1>2, <5>5
          <6>. QED  BY <6>1
        <5>7. f[x] \in Int /\ f[c] \in Int
          BY <4>1, <5>1
        <5>8. Sum((s \ {x}) \ {c}) = Sum((s \ {c}) \ {x})
          BY <5>4
        <5>. DEFINE a == Sum(s)  b == Sum(s \ {c})  d == Sum(s \ {x})  e == Sum((s \ {c}) \ {x})
        <5>9. a = f[c] + b /\ b = f[x] + e /\ d = f[c] + e /\ e \in Int
          BY <4>4, <5>2, <5>3, <5>6, <5>8
        <5>10. a = f[x] + d
          <6>. HIDE DEF a, b, d, e, c
          <6>. QED  BY <5>7, <5>9
        <5>. QED  BY <5>10
      <4>. HIDE DEF c, Sum
      <4>. QED  BY <4>4, <4>5, <4>6
    <3>. HIDE DEF Any
    <3>. QED  BY <3>2, <3>3
  <2>. HIDE DEF Any
  <2>. QED  BY <2>1
<1>3. Cardinality(S) \in Good
  <2>. HIDE DEF Good
  <2>. QED  BY <1>1, <1>2, NatInductionBySet, <1>0
<1>4. S \in SubsetsUpTo(S, Cardinality(S))
  BY <1>0 DEF SubsetsUpTo
<1>5. Any(S)
  <2>. HIDE DEF Any
  <2>. QED  BY <1>3, <1>4
<1>. QED
  BY <1>5

-----------------------------------------------------------------------------
(* What the proofs about accounts need *)

\* One more element.
LEMMA SumExtended ==
  ASSUME NEW f, NEW g, NEW x, IsFiniteSet(DOMAIN f), x \notin DOMAIN f,
         DOMAIN g = DOMAIN f \cup {x}, \A y \in DOMAIN f : g[y] = f[y],
         \A y \in DOMAIN g : g[y] \in Int
  PROVE  /\ SumFunction(f) \in Int
         /\ SumFunction(g) = SumFunction(f) + g[x]
<1>1. IsFiniteSet(DOMAIN g)
  BY FS_AddElement
<1>2. /\ SumFunctionOnSet(g, DOMAIN g) \in Int
      /\ SumFunctionOnSet(g, DOMAIN g) = g[x] + SumFunctionOnSet(g, DOMAIN g \ {x})
  BY <1>1, SumWithout
<1>3. DOMAIN g \ {x} = DOMAIN f
  OBVIOUS
<1>4. SumFunctionOnSet(g, DOMAIN f) = SumFunctionOnSet(f, DOMAIN f)
  BY SumSameValues
<1>5. SumFunctionOnSet(f, DOMAIN f) \in Int
  BY SumWithout
<1>6. g[x] \in Int
  OBVIOUS
<1>. QED
  BY <1>2, <1>3, <1>4, <1>5, <1>6 DEF SumFunction

\* Another value for one element.
LEMMA SumUpdated ==
  ASSUME NEW f, NEW g, NEW x \in DOMAIN f, IsFiniteSet(DOMAIN f), DOMAIN g = DOMAIN f,
         \A y \in DOMAIN f : y # x => g[y] = f[y],
         \A y \in DOMAIN f : f[y] \in Int /\ g[y] \in Int
  PROVE  /\ SumFunction(f) \in Int
         /\ SumFunction(g) = SumFunction(f) - f[x] + g[x]
<1>. DEFINE rest == DOMAIN f \ {x}
<1>1. /\ SumFunctionOnSet(f, DOMAIN f) \in Int
      /\ SumFunctionOnSet(f, DOMAIN f) = f[x] + SumFunctionOnSet(f, rest)
  BY SumWithout
<1>2. /\ SumFunctionOnSet(g, DOMAIN f) \in Int
      /\ SumFunctionOnSet(g, DOMAIN f) = g[x] + SumFunctionOnSet(g, rest)
  BY SumWithout
<1>3. IsFiniteSet(rest)
  BY FS_RemoveElement
<1>4. SumFunctionOnSet(g, rest) = SumFunctionOnSet(f, rest)
  BY <1>3, SumSameValues
<1>5. SumFunctionOnSet(f, rest) \in Int
  BY <1>3, SumWithout
<1>6. f[x] \in Int /\ g[x] \in Int
  OBVIOUS
<1>. QED
  BY <1>1, <1>2, <1>4, <1>5, <1>6 DEF SumFunction

\* Values that are each covered by a value of d, no two by the same one, add up to no
\* more than those of d.
LEMMA SumCovered ==
  ASSUME NEW f, NEW d, NEW by, IsFiniteSet(DOMAIN f), IsFiniteSet(DOMAIN d),
         \A x \in DOMAIN f : f[x] \in Nat /\ by[x] \in DOMAIN d /\ f[x] <= d[by[x]],
         \A x, y \in DOMAIN f : by[x] = by[y] => x = y,
         \A z \in DOMAIN d : d[z] \in Nat
  PROVE  /\ SumFunction(f) \in Nat /\ SumFunction(d) \in Nat
         /\ SumFunction(f) <= SumFunction(d)
<1>. DEFINE S == DOMAIN f
            Covered(s) == \A U \in SUBSET DOMAIN d : {by[x] : x \in s} \subseteq U =>
                /\ SumFunctionOnSet(f, s) \in Nat /\ SumFunctionOnSet(d, U) \in Nat
                /\ SumFunctionOnSet(f, s) <= SumFunctionOnSet(d, U)
            Good == {s \in SUBSET S : Covered(s)}
            Naturals == {U \in SUBSET DOMAIN d : SumFunctionOnSet(d, U) \in Nat}
<1>0. DOMAIN d \in Naturals /\ \A U \in SUBSET DOMAIN d : U \in Naturals
  <2>1. {} \in Naturals
    BY SumOfNone
  <2>2. ASSUME NEW U \in SUBSET DOMAIN d PROVE U \in Naturals
    <3>. DEFINE Good2 == {V \in SUBSET U : V \in Naturals}
    <3>1. {} \in Good2
      BY <2>1
    <3>2. IsFiniteSet(U)
      BY FS_Subset
    <3>3. ASSUME NEW V \in SUBSET U, NEW x \in U \ V, V \in Good2 PROVE V \cup {x} \in Good2
      <4>1. IsFiniteSet(V \cup {x}) /\ \A y \in V \cup {x} : d[y] \in Int
        BY <3>2, FS_Subset, FS_AddElement
      <4>2. SumFunctionOnSet(d, V \cup {x}) = d[x] + SumFunctionOnSet(d, (V \cup {x}) \ {x})
        BY <4>1, SumWithout
      <4>3. (V \cup {x}) \ {x} = V
        OBVIOUS
      <4>4. d[x] \in Nat /\ SumFunctionOnSet(d, V) \in Nat
        BY <3>3
      <4>. QED  BY <4>2, <4>3, <4>4
    <3>4. U \in Good2
      <4>. HIDE DEF Good2
      <4>. QED  BY <3>1, <3>2, <3>3, SubsetInductionBySet
    <3>. QED  BY <3>4
  <2>. QED  BY <2>2
<1>1. {} \in Good
  BY <1>0, SumOfNone
<1>2. ASSUME NEW T \in SUBSET S, NEW x \in S \ T, T \in Good PROVE T \cup {x} \in Good
  <2>1. ASSUME NEW U \in SUBSET DOMAIN d, {by[y] : y \in T \cup {x}} \subseteq U
        PROVE  /\ SumFunctionOnSet(f, T \cup {x}) \in Nat /\ SumFunctionOnSet(d, U) \in Nat
               /\ SumFunctionOnSet(f, T \cup {x}) <= SumFunctionOnSet(d, U)
    <3>. DEFINE W == U \ {by[x]}
    <3>1. by[x] \in U /\ W \in SUBSET DOMAIN d /\ {by[y] : y \in T} \subseteq W
      BY <2>1
    <3>2. /\ SumFunctionOnSet(f, T) \in Nat /\ SumFunctionOnSet(d, W) \in Nat
          /\ SumFunctionOnSet(f, T) <= SumFunctionOnSet(d, W)
      <4>. HIDE DEF W
      <4>. QED  BY <1>2, <3>1
    <3>3. /\ IsFiniteSet(U) /\ \A z \in U : d[z] \in Int
          /\ IsFiniteSet(T \cup {x}) /\ \A y \in T \cup {x} : f[y] \in Int
      BY FS_Subset, FS_AddElement
    <3>4. SumFunctionOnSet(d, U) = d[by[x]] + SumFunctionOnSet(d, W)
      BY <3>1, <3>3, SumWithout
    <3>5. SumFunctionOnSet(f, T \cup {x}) = f[x] + SumFunctionOnSet(f, (T \cup {x}) \ {x})
      BY <3>3, SumWithout
    <3>6. (T \cup {x}) \ {x} = T
      OBVIOUS
    <3>7. f[x] \in Nat /\ d[by[x]] \in Nat /\ f[x] <= d[by[x]]
      OBVIOUS
    <3>8. SumFunctionOnSet(f, T \cup {x}) = f[x] + SumFunctionOnSet(f, T)
      BY <3>5, <3>6
    <3>. DEFINE a == SumFunctionOnSet(f, T)  b == SumFunctionOnSet(d, W)
                c == SumFunctionOnSet(f, T \cup {x})  e == SumFunctionOnSet(d, U)
    <3>9. c \in Nat /\ e \in Nat /\ c <= e
      <4>1. c = f[x] + a /\ e = d[by[x]] + b /\ a \in Nat /\ b \in Nat /\ a <= b
        BY <3>2, <3>4, <3>8
      <4>. HIDE DEF a, b, c, e
      <4>. QED  BY <3>7, <4>1
    <3>. QED  BY <3>9
  <2>. QED  BY <2>1
<1>3. S \in Good
  <2>. HIDE DEF Good
  <2>. QED  BY <1>1, <1>2, SubsetInductionBySet
<1>4. {by[x] : x \in S} \subseteq DOMAIN d
  OBVIOUS
<1>. QED
  BY <1>3, <1>4 DEF SumFunction

LEMMA SumNatural ==
  ASSUME NEW f, IsFiniteSet(DOMAIN f), \A x \in DOMAIN f : f[x] \in Nat
  PROVE  SumFunction(f) \in Nat
<1>. DEFINE by == [x \in DOMAIN f |-> x]
<1>1. /\ \A x \in DOMAIN f : f[x] \in Nat /\ by[x] \in DOMAIN f /\ f[x] <= f[by[x]]
      /\ \A x, y \in DOMAIN f : by[x] = by[y] => x = y
  OBVIOUS
<1>. HIDE DEF by
<1>. QED
  BY <1>1, SumCovered

\* Larger values, and more of them, add up to more.
LEMMA SumMonotone ==
  ASSUME NEW f, NEW g, IsFiniteSet(DOMAIN g), DOMAIN f \subseteq DOMAIN g,
         \A x \in DOMAIN f : f[x] \in Nat /\ f[x] <= g[x],
         \A x \in DOMAIN g : g[x] \in Nat
  PROVE  SumFunction(f) \in Nat /\ SumFunction(g) \in Nat /\ SumFunction(f) <= SumFunction(g)
<1>. DEFINE by == [x \in DOMAIN f |-> x]
<1>1. /\ \A x \in DOMAIN f : f[x] \in Nat /\ by[x] \in DOMAIN g /\ f[x] <= g[by[x]]
      /\ \A x, y \in DOMAIN f : by[x] = by[y] => x = y
  OBVIOUS
<1>2. IsFiniteSet(DOMAIN f)
  BY FS_Subset
<1>. HIDE DEF by
<1>. QED
  BY <1>1, <1>2, SumCovered

\* The sum of two functions is the function of the sums.
LEMMA SumOfTwo ==
  ASSUME NEW f, NEW g, NEW h, IsFiniteSet(DOMAIN h),
         DOMAIN f = DOMAIN h, DOMAIN g = DOMAIN h,
         \A x \in DOMAIN h : f[x] \in Int /\ g[x] \in Int /\ h[x] = f[x] + g[x]
  PROVE  SumFunction(h) = SumFunction(f) + SumFunction(g)
<1>. DEFINE S == DOMAIN h
            A(s) == SumFunctionOnSet(f, s)
            B(s) == SumFunctionOnSet(g, s)
            C(s) == SumFunctionOnSet(h, s)
            Good == {s \in SUBSET S : C(s) = A(s) + B(s)}
<1>1. {} \in Good
  BY SumOfNone
<1>2. ASSUME NEW T \in SUBSET S, NEW x \in S \ T, T \in Good PROVE T \cup {x} \in Good
  <2>. DEFINE U == T \cup {x}
  <2>1. IsFiniteSet(T) /\ IsFiniteSet(U) /\ U \ {x} = T /\ x \in U /\ U \in SUBSET S
    BY FS_Subset, FS_AddElement
  <2>2. \A y \in U : f[y] \in Int /\ g[y] \in Int /\ h[y] \in Int
    OBVIOUS
  <2>3. \A y \in T : f[y] \in Int /\ g[y] \in Int
    OBVIOUS
  <2>. HIDE DEF U
  <2>4. A(U) = f[x] + A(T) /\ B(U) = g[x] + B(T) /\ C(U) = h[x] + C(T)
    BY <2>1, <2>2, SumWithout
  <2>5. A(T) \in Int /\ B(T) \in Int
    BY <2>1, <2>3, SumWithout
  <2>6. C(T) = A(T) + B(T) /\ h[x] = f[x] + g[x] /\ f[x] \in Int /\ g[x] \in Int
    BY <1>2
  <2>7. C(U) = A(U) + B(U)
    <3>. HIDE DEF A, B, C
    <3>. QED  BY <2>4, <2>5, <2>6
  <2>. QED
    <3>. HIDE DEF A, B, C
    <3>. QED  BY <2>1, <2>7 DEF U
<1>3. S \in Good
  <2>. HIDE DEF Good
  <2>. QED  BY <1>1, <1>2, SubsetInductionBySet
<1>. QED
  BY <1>3 DEF SumFunction

\* Values that rise by at most c for each unit of a weight rise by at most c times its sum.
LEMMA SumShifted ==
  ASSUME NEW f, NEW g, NEW w, NEW c \in Int, IsFiniteSet(DOMAIN f),
         DOMAIN g = DOMAIN f, DOMAIN w = DOMAIN f,
         \A x \in DOMAIN f : /\ f[x] \in Int /\ g[x] \in Int /\ w[x] \in Int
                             /\ g[x] <= f[x] + c * w[x]
  PROVE  /\ SumFunction(f) \in Int /\ SumFunction(g) \in Int /\ SumFunction(w) \in Int
         /\ SumFunction(g) <= SumFunction(f) + c * SumFunction(w)
<1>. DEFINE S == DOMAIN f
            A(s) == SumFunctionOnSet(f, s)
            B(s) == SumFunctionOnSet(g, s)
            C(s) == SumFunctionOnSet(w, s)
            Good == {s \in SUBSET S : B(s) <= A(s) + c * C(s)}
<1>1. {} \in Good
  <2>1. A({}) = 0 /\ B({}) = 0 /\ C({}) = 0
    BY SumOfNone
  <2>. HIDE DEF A, B, C
  <2>2. B({}) <= A({}) + c * C({})
    BY <2>1
  <2>. QED  BY <2>2
<1>2. ASSUME NEW T \in SUBSET S, NEW x \in S \ T, T \in Good PROVE T \cup {x} \in Good
  <2>. DEFINE U == T \cup {x}
  <2>1. IsFiniteSet(T) /\ IsFiniteSet(U) /\ U \ {x} = T /\ x \in U /\ U \in SUBSET S
    BY FS_Subset, FS_AddElement
  <2>2. \A y \in U : f[y] \in Int /\ g[y] \in Int /\ w[y] \in Int
    OBVIOUS
  <2>3. \A y \in T : f[y] \in Int /\ g[y] \in Int /\ w[y] \in Int
    OBVIOUS
  <2>. HIDE DEF U
  <2>4. A(U) = f[x] + A(T) /\ B(U) = g[x] + B(T) /\ C(U) = w[x] + C(T)
    BY <2>1, <2>2, SumWithout
  <2>5. A(T) \in Int /\ B(T) \in Int /\ C(T) \in Int
    BY <2>1, <2>3, SumWithout
  <2>6. /\ B(T) <= A(T) + c * C(T) /\ g[x] <= f[x] + c * w[x]
        /\ f[x] \in Int /\ g[x] \in Int /\ w[x] \in Int
    BY <1>2
  <2>7. B(U) <= A(U) + c * C(U)
    <3>. HIDE DEF A, B, C
    <3>. DEFINE t == c * C(T)  v == c * w[x]
    <3>1. c * C(U) = v + t
      BY <2>4, <2>5, <2>6
    <3>2. t \in Int /\ v \in Int
      BY <2>5, <2>6
    <3>. HIDE DEF t, v
    <3>3. B(T) <= A(T) + t /\ g[x] <= f[x] + v
      BY <2>6 DEF t, v
    <3>. QED  BY <2>4, <2>5, <2>6, <3>1, <3>2, <3>3
  <2>. QED
    <3>. HIDE DEF A, B, C
    <3>. QED  BY <2>1, <2>7 DEF U
<1>3. S \in Good
  <2>. HIDE DEF Good
  <2>. QED  BY <1>1, <1>2, SubsetInductionBySet
<1>4. SumFunctionOnSet(f, S) \in Int /\ SumFunctionOnSet(g, S) \in Int /\ SumFunctionOnSet(w, S) \in Int
  BY SumWithout
<1>. QED
  BY <1>3, <1>4 DEF SumFunction

\* A sum is at most the number of its elements times the largest value.
LEMMA SumBounded ==
  ASSUME NEW f, NEW k \in Int, IsFiniteSet(DOMAIN f), \A x \in DOMAIN f : f[x] \in Int /\ f[x] <= k
  PROVE  /\ SumFunction(f) \in Int /\ Cardinality(DOMAIN f) \in Nat
         /\ SumFunction(f) <= Cardinality(DOMAIN f) * k
<1>. DEFINE S == DOMAIN f
            A(s) == SumFunctionOnSet(f, s)
            Good == {s \in SUBSET S : A(s) <= Cardinality(s) * k}
<1>1. {} \in Good
  <2>1. A({}) = 0 /\ Cardinality({}) = 0
    BY SumOfNone, FS_EmptySet
  <2>. HIDE DEF A
  <2>. QED  BY <2>1
<1>2. ASSUME NEW T \in SUBSET S, NEW x \in S \ T, T \in Good PROVE T \cup {x} \in Good
  <2>. DEFINE U == T \cup {x}  n == Cardinality(T)
  <2>1. /\ IsFiniteSet(T) /\ IsFiniteSet(U) /\ U \ {x} = T /\ x \in U /\ U \in SUBSET S
        /\ n \in Nat /\ Cardinality(U) = n + 1
    BY FS_Subset, FS_AddElement, FS_CardinalityType
  <2>2. \A y \in U : f[y] \in Int
    OBVIOUS
  <2>3. \A y \in T : f[y] \in Int
    OBVIOUS
  <2>. HIDE DEF U
  <2>4. A(U) = f[x] + A(T) /\ A(T) \in Int
    BY <2>1, <2>2, <2>3, SumWithout
  <2>5. A(T) <= n * k /\ f[x] <= k /\ f[x] \in Int
    BY <1>2
  <2>6. n \in Nat
    BY <2>1
  <2>. HIDE DEF A, n
  <2>8. (n + 1) * k = n * k + k /\ n * k \in Int
    BY <2>6
  <2>7. A(U) <= Cardinality(U) * k
    <3>. DEFINE v == n * k
    <3>1. A(T) <= v /\ v \in Int /\ Cardinality(U) * k = v + k
      BY <2>1, <2>5, <2>8
    <3>. HIDE DEF v
    <3>. QED  BY <2>4, <2>5, <3>1
  <2>. QED  BY <2>1, <2>7 DEF U
<1>3. S \in Good
  <2>. HIDE DEF Good
  <2>. QED  BY <1>1, <1>2, SubsetInductionBySet
<1>. QED
  BY <1>3, SumWithout, FS_CardinalityType DEF SumFunction

\* Elements of value zero add nothing.
LEMMA SumOfNonZero ==
  ASSUME NEW T, IsFiniteSet(T), NEW S \in SUBSET T, NEW f,
         \A x \in T : f[x] \in Int, \A x \in T \ S : f[x] = 0
  PROVE  SumFunctionOnSet(f, T) = SumFunctionOnSet(f, S)
<1>. DEFINE A(s) == SumFunctionOnSet(f, s)
            Good == {Z \in SUBSET (T \ S) : A(S \cup Z) = A(S)}
<1>0. IsFiniteSet(T \ S) /\ S \cup (T \ S) = T
  BY FS_Subset
<1>1. {} \in Good
  <2>. S \cup {} = S
    OBVIOUS
  <2>. QED  OBVIOUS
<1>2. ASSUME NEW Z \in SUBSET (T \ S), NEW x \in (T \ S) \ Z, Z \in Good
      PROVE  Z \cup {x} \in Good
  <2>. DEFINE U == S \cup (Z \cup {x})  V == S \cup Z
  <2>1. U \in SUBSET T /\ V \in SUBSET T /\ U \ {x} = V /\ x \in U
    OBVIOUS
  <2>2. IsFiniteSet(U) /\ IsFiniteSet(V) /\ \A y \in U : f[y] \in Int
    BY <2>1, FS_Subset
  <2>3. \A y \in V : f[y] \in Int
    BY <2>1
  <2>. HIDE DEF U, V
  <2>4. A(U) = f[x] + A(V) /\ A(V) \in Int
    BY <2>1, <2>2, <2>3, SumWithout
  <2>5. f[x] = 0 /\ A(V) = A(S)
    BY <1>2 DEF V
  <2>6. A(U) = A(S)
    <3>. HIDE DEF A
    <3>. QED  BY <2>4, <2>5
  <2>. QED
    <3>. HIDE DEF A
    <3>. QED  BY <2>6 DEF U
<1>3. T \ S \in Good
  <2>. HIDE DEF Good
  <2>. QED  BY <1>0, <1>1, <1>2, SubsetInductionBySet
<1>. QED
  BY <1>0, <1>3

-----------------------------------------------------------------------------
(* The vote arithmetic for every weight, threshold and tipping *)

\* A quotient rounded up is the least integer that is large enough.
LEMMA CeilingIsLeast ==
    ASSUME NEW n \in Nat
    PROVE  LET quotient == n \div 100
               ceiling  == IF quotient * 100 < n THEN quotient + 1 ELSE quotient
           IN  /\ ceiling \in Nat
               /\ 100 * ceiling >= n
               /\ \A w \in Nat : 100 * w >= n => w >= ceiling
  BY SMT

\* get_min_vote_threshold_weight: the minimum weight is the least one that is pct
\* percent of the maximum weight, and so never more than all of it.
THEOREM ThresholdIsExactAlways ==
    ASSUME NEW pct \in 0..100, NEW max \in Nat
    PROVE  /\ MinVoteThresholdWeight(pct, max) \in 0..max
           /\ ThresholdIsLeastSufficient(pct, max)
<1> DEFINE thr == MinVoteThresholdWeight(pct, max)
<1>1. pct * max \in Nat /\ pct * max <= 100 * max
  BY SMT
<1>2. /\ thr \in Nat
      /\ 100 * thr >= pct * max
      /\ \A w \in Nat : 100 * w >= pct * max => w >= thr
  BY <1>1, CeilingIsLeast DEF MinVoteThresholdWeight
<1>3. thr <= max
  BY <1>1, <1>2
<1> QED
  BY <1>2, <1>3 DEF ThresholdIsLeastSufficient

\* What the last steps of a single Yes/No vote resolve to.
LEMMA YesNoWinners ==
    ASSUME NEW yes \in Nat, NEW deny \in Nat, NEW thr \in Nat
    PROVE  WinningOptions("SingleChoice", <<yes>>, deny, thr) =
               IF yes >= thr /\ yes > deny THEN {1} ELSE {}
<1>1. DOMAIN <<yes>> = {1} /\ <<yes>>[1] = yes
  OBVIOUS
<1>2. BestOptions(<<yes>>, deny, thr) = IF yes >= thr /\ yes > deny THEN {1} ELSE {}
  BY <1>1 DEF BestOptions, PassingOptions, Passes
<1> QED
  BY <1>2 DEF WinningOptions

LEMMA YesNoResolution ==
    ASSUME NEW yes \in Nat, NEW deny \in Nat, NEW thr \in Nat
    PROVE  FinalVoteState("SingleChoice", <<yes>>, TRUE, deny, thr) =
               IF yes >= thr /\ yes > deny THEN "Succeeded" ELSE "Defeated"
  BY YesNoWinners DEF FinalVoteState

\* The state a Yes/No vote tips to, unfolded.
LEMMA YesNoTip ==
    ASSUME NEW yes \in Nat, NEW deny \in Nat, NEW max \in Nat, NEW thr \in Nat,
           NEW tipping \in VoteTippings
    PROVE  TippedElectorateState("SingleChoice", <<yes>>, TRUE, deny, max, thr, tipping) =
               IF YesTips(yes, deny, max, thr, tipping) THEN "Succeeded"
               ELSE IF DenyTips(deny, max, thr, tipping) THEN "Defeated" ELSE "Voting"
<1>1. Len(<<yes>>) = 1 /\ <<yes>>[1] = yes
  OBVIOUS
<1> QED
  BY <1>1 DEF TippedElectorateState, IsTippable

\* try_get_tipped_electorate_vote_state agrees with resolve_final_vote_state on
\* every tally that the maximum weight covers.
THEOREM TipAgreesAlways ==
    ASSUME NEW yes \in Nat, NEW deny \in Nat, NEW max \in Nat, NEW thr \in 0..max,
           NEW tipping \in VoteTippings
    PROVE  TipAgreesWithResolution(yes, deny, max, thr, tipping)
<1> DEFINE tips == YesTips(yes, deny, max, thr, tipping)
           denyTips == DenyTips(deny, max, thr, tipping)
           passes == yes >= thr /\ yes > deny
<1>0. SUFFICES ASSUME yes + deny <= max
               PROVE  (tips => passes) /\ (~tips /\ denyTips => ~passes)
  <2>1. FinalVoteState("SingleChoice", <<yes>>, TRUE, deny, thr) =
            IF passes THEN "Succeeded" ELSE "Defeated"
    BY YesNoResolution, 0..max \subseteq Nat
  <2>2. TippedElectorateState("SingleChoice", <<yes>>, TRUE, deny, max, thr, tipping) =
            IF tips THEN "Succeeded" ELSE IF denyTips THEN "Defeated" ELSE "Voting"
    BY YesNoTip, 0..max \subseteq Nat
  <2> HIDE DEF tips, denyTips, passes
  <2> QED
    BY <2>1, <2>2, Zenon DEF TipAgreesWithResolution
<1>1. CASE tipping = "Strict"
  BY <1>0, <1>1 DEF YesTips, DenyTips, SaturatingSub
<1>2. CASE tipping = "Early"
  BY <1>0, <1>2 DEF YesTips, DenyTips, SaturatingSub
<1>3. CASE tipping = "Disabled"
  BY <1>0, <1>3 DEF YesTips, DenyTips, SaturatingSub
<1> QED
  BY <1>1, <1>2, <1>3 DEF VoteTippings

\* The state a Yes/No vote tips to, and its winners, are those of its resolution.
ResolvesAsTipped(yes, deny, max, thr, tipping) ==
    \/ /\ TippedElectorateState("SingleChoice", <<yes>>, TRUE, deny, max, thr, tipping) = "Succeeded"
       /\ FinalVoteState("SingleChoice", <<yes>>, TRUE, deny, thr) = "Succeeded"
       /\ WinningOptions("SingleChoice", <<yes>>, deny, thr) = {1}
    \/ /\ TippedElectorateState("SingleChoice", <<yes>>, TRUE, deny, max, thr, tipping) = "Defeated"
       /\ FinalVoteState("SingleChoice", <<yes>>, TRUE, deny, thr) = "Defeated"
       /\ WinningOptions("SingleChoice", <<yes>>, deny, thr) = {}

\* An early tip agrees with the resolution on every tally, for it asks what the
\* resolution asks; a strict tip on those the maximum weight covers.
LEMMA TipResolves ==
    ASSUME NEW yes \in Nat, NEW deny \in Nat, NEW max \in Nat, NEW thr \in 0..max,
           NEW tipping \in VoteTippings, tipping = "Strict" => yes + deny <= max,
           TippedElectorateState("SingleChoice", <<yes>>, TRUE, deny, max, thr, tipping) # "Voting"
    PROVE  ResolvesAsTipped(yes, deny, max, thr, tipping)
<1> DEFINE tips == YesTips(yes, deny, max, thr, tipping)
           denyTips == DenyTips(deny, max, thr, tipping)
           passes == yes >= thr /\ yes > deny
           state == TippedElectorateState("SingleChoice", <<yes>>, TRUE, deny, max, thr, tipping)
<1>1. /\ FinalVoteState("SingleChoice", <<yes>>, TRUE, deny, thr) =
             IF passes THEN "Succeeded" ELSE "Defeated"
      /\ WinningOptions("SingleChoice", <<yes>>, deny, thr) = IF passes THEN {1} ELSE {}
  BY YesNoResolution, YesNoWinners, 0..max \subseteq Nat
<1>2. state = IF tips THEN "Succeeded" ELSE IF denyTips THEN "Defeated" ELSE "Voting"
  BY YesNoTip, 0..max \subseteq Nat
<1>3. (tips => passes) /\ (~tips /\ denyTips => ~passes)
  <2>1. CASE tipping = "Strict"
    BY <2>1 DEF YesTips, DenyTips, SaturatingSub
  <2>2. CASE tipping = "Early"
    BY <2>2 DEF YesTips, DenyTips, SaturatingSub
  <2>3. CASE tipping = "Disabled"
    BY <2>3 DEF YesTips, DenyTips, SaturatingSub
  <2> QED
    BY <2>1, <2>2, <2>3 DEF VoteTippings
<1>4. state # "Voting"
  OBVIOUS
<1> HIDE DEF tips, denyTips, passes, state
<1> QED
  BY <1>1, <1>2, <1>3, <1>4 DEF state, ResolvesAsTipped

\* A strict tip to Succeeded and every tip to Defeated is what any distribution
\* of the weight not cast yet resolves to.
THEOREM TipIsFinalAlways ==
    ASSUME NEW yes \in Nat, NEW deny \in Nat, NEW max \in Nat, NEW thr \in 0..max,
           NEW tipping \in VoteTippings
    PROVE  TipIsIrreversible(yes, deny, max, thr, tipping)
<1> DEFINE tips == YesTips(yes, deny, max, thr, tipping)
           denyTips == DenyTips(deny, max, thr, tipping)
           passes(y, d) == y >= thr /\ y > d
<1>0. SUFFICES ASSUME NEW y \in yes..max, NEW d \in deny..max, y + d <= max
               PROVE  /\ tips /\ tipping = "Strict" => passes(y, d)
                      /\ denyTips => ~passes(y, d)
  <2>1. \A y, d \in Nat : FinalVoteState("SingleChoice", <<y>>, TRUE, d, thr) =
                             IF passes(y, d) THEN "Succeeded" ELSE "Defeated"
    BY YesNoResolution, 0..max \subseteq Nat
  <2>2. TippedElectorateState("SingleChoice", <<yes>>, TRUE, deny, max, thr, tipping) =
            IF tips THEN "Succeeded" ELSE IF denyTips THEN "Defeated" ELSE "Voting"
    <3>1. thr \in Nat
      OBVIOUS
    <3>2. TippedElectorateState("SingleChoice", <<yes>>, TRUE, deny, max, thr, tipping) =
              IF YesTips(yes, deny, max, thr, tipping) THEN "Succeeded"
              ELSE IF DenyTips(deny, max, thr, tipping) THEN "Defeated" ELSE "Voting"
      BY <3>1, YesNoTip
    <3> QED
      BY <3>2
  <2>3. yes..max \subseteq Nat /\ deny..max \subseteq Nat
    OBVIOUS
  <2> HIDE DEF tips, denyTips, passes
  <2> QED
    BY <2>1, <2>2, <2>3, Zenon DEF TipIsIrreversible
<1>1. tips /\ tipping = "Strict" => passes(y, d)
  BY <1>0 DEF YesTips, SaturatingSub
<1>2. denyTips => ~passes(y, d)
  BY <1>0 DEF DenyTips, SaturatingSub
<1> QED
  BY <1>1, <1>2

\* An option that wins has outvoted the Deny votes; the winner of a single choice
\* every other option too, for a shared best weight has no winner.
LEMMA WinnersOutvote ==
    ASSUME NEW voteType, NEW weights, \A o \in DOMAIN weights : weights[o] \in Nat,
           NEW deny \in Nat, NEW thr \in Nat,
           NEW o \in WinningOptions(voteType, weights, deny, thr)
    PROVE  /\ weights[o] > deny
           /\ voteType = "SingleChoice" =>
                  \A q \in DOMAIN weights \ {o} : weights[q] < weights[o]
<1>1. o \in DOMAIN weights /\ weights[o] >= thr /\ weights[o] > deny
  BY DEF WinningOptions, BestOptions, PassingOptions, Passes
<1>2. ASSUME voteType = "SingleChoice", NEW q \in DOMAIN weights \ {o}
      PROVE  weights[q] < weights[o]
  <2>1. /\ \A x \in PassingOptions(weights, deny, thr) : weights[x] <= weights[o]
        /\ q \notin BestOptions(weights, deny, thr)
    BY <1>2 DEF WinningOptions, BestOptions
  <2>2. CASE q \in PassingOptions(weights, deny, thr)
    BY <1>1, <2>1, <2>2 DEF BestOptions
  <2>3. CASE q \notin PassingOptions(weights, deny, thr)
    BY <1>1, <2>3 DEF PassingOptions, Passes
  <2> QED
    BY <2>2, <2>3
<1> QED
  BY <1>1, <1>2

-----------------------------------------------------------------------------
(* Spread votes *)

\* A part of a weight, rounded down.
LEMMA PartOfWeight ==
  ASSUME NEW pct \in 0..100, NEW weight \in Nat
  PROVE  /\ ChoiceWeight(pct, weight) \in Nat
         /\ 100 * ChoiceWeight(pct, weight) <= weight * pct
         /\ weight * pct <= 100 * ChoiceWeight(pct, weight) + 99
<1>1. weight * pct \in Nat
  OBVIOUS
<1>. DEFINE n == weight * pct
<1>2. n = weight * pct
  OBVIOUS
<1>3. pct = 100 => n = 100 * weight
  OBVIOUS
<1>. HIDE DEF n
<1>4. ChoiceWeight(pct, weight) = IF pct = 100 THEN weight ELSE n \div 100
  BY <1>2 DEF ChoiceWeight
<1>. QED
  BY <1>1, <1>2, <1>3, <1>4

\* The parts of a weight that go to some of the options.
LEMMA PartsOfWeight ==
  ASSUME NEW S, IsFiniteSet(S), NEW choices, \A o \in S : choices[o] \in 0..100, NEW weight \in Nat
  PROVE  LET parts == [o \in S |-> ChoiceWeight(choices[o], weight)]
             spread == SumFunctionOnSet(parts, S)
             given  == weight * SumFunctionOnSet(choices, S)
         IN  /\ spread \in Int /\ Cardinality(S) \in Nat
             /\ 100 * spread <= given /\ given <= 100 * spread + 99 * Cardinality(S)
<1>. DEFINE parts == [o \in S |-> ChoiceWeight(choices[o], weight)]
            A(s) == SumFunctionOnSet(parts, s)
            C(s) == SumFunctionOnSet(choices, s)
            Good == {s \in SUBSET S : /\ 100 * A(s) <= weight * C(s)
                                      /\ weight * C(s) <= 100 * A(s) + 99 * Cardinality(s)}
<1>1. \A o \in S : /\ parts[o] \in Int /\ choices[o] \in Int /\ 100 * parts[o] <= weight * choices[o]
                   /\ weight * choices[o] <= 100 * parts[o] + 99
  <2>1. ASSUME NEW o \in S
        PROVE  /\ parts[o] \in Int /\ choices[o] \in Int /\ 100 * parts[o] <= weight * choices[o]
               /\ weight * choices[o] <= 100 * parts[o] + 99
    <3>. DEFINE c == choices[o]
    <3>1. c \in 0..100 /\ parts[o] = ChoiceWeight(c, weight)
      OBVIOUS
    <3>. HIDE DEF c, parts
    <3>2. /\ ChoiceWeight(c, weight) \in Nat /\ 100 * ChoiceWeight(c, weight) <= weight * c
          /\ weight * c <= 100 * ChoiceWeight(c, weight) + 99
      BY <3>1, PartOfWeight
    <3>. QED  BY <3>1, <3>2 DEF c
  <2>. QED  BY <2>1
<1>. HIDE DEF parts
<1>2. {} \in Good
  <2>1. A({}) = 0 /\ C({}) = 0 /\ Cardinality({}) = 0
    BY SumOfNone, FS_EmptySet
  <2>. HIDE DEF A, C
  <2>. QED  BY <2>1
<1>3. ASSUME NEW T \in SUBSET S, NEW x \in S \ T, T \in Good PROVE T \cup {x} \in Good
  <2>. DEFINE U == T \cup {x}  n == Cardinality(T)
  <2>1. /\ IsFiniteSet(T) /\ IsFiniteSet(U) /\ U \ {x} = T /\ x \in U /\ U \in SUBSET S
        /\ n \in Nat /\ Cardinality(U) = n + 1
    BY FS_Subset, FS_AddElement, FS_CardinalityType
  <2>2. (\A y \in U : parts[y] \in Int /\ choices[y] \in Int) /\ (\A y \in T : parts[y] \in Int /\ choices[y] \in Int)
    BY <1>1
  <2>. HIDE DEF U
  <2>3. A(U) = parts[x] + A(T) /\ A(T) \in Int /\ C(U) = choices[x] + C(T) /\ C(T) \in Int
    BY <2>1, <2>2, SumWithout
  <2>4. 100 * A(T) <= weight * C(T) /\ weight * C(T) <= 100 * A(T) + 99 * n
    BY <1>3
  <2>5. /\ parts[x] \in Int /\ choices[x] \in Int /\ 100 * parts[x] <= weight * choices[x]
        /\ weight * choices[x] <= 100 * parts[x] + 99
    BY <1>1
  <2>. HIDE DEF A, C, n
  <2>. DEFINE v == weight * C(T)  w == weight * choices[x]
  <2>6. weight * C(U) = w + v /\ v \in Int /\ w \in Int
    BY <2>3, <2>5
  <2>7. 100 * A(U) <= weight * C(U) /\ weight * C(U) <= 100 * A(U) + 99 * Cardinality(U)
    <3>1. /\ 100 * A(T) <= v /\ v <= 100 * A(T) + 99 * n /\ 100 * parts[x] <= w /\ w <= 100 * parts[x] + 99
      BY <2>4, <2>5
    <3>. HIDE DEF v, w
    <3>. QED  BY <2>1, <2>3, <2>5, <2>6, <3>1
  <2>. QED  BY <2>1, <2>7 DEF U
<1>4. S \in Good
  <2>. HIDE DEF Good
  <2>. QED  BY <1>2, <1>3, SubsetInductionBySet
<1>5. A(S) \in Int /\ Cardinality(S) \in Nat
  BY <1>1, SumWithout, FS_CardinalityType
<1>. QED
  BY <1>4, <1>5 DEF parts

\* VoteChoice::get_choice_weight: spreading a vote over any number of options, in any way,
\* gains no weight and loses less than a unit per option.
THEOREM SpreadKeepsWeightAlways ==
  ASSUME NEW choices \in Seq(0..100), NEW weight \in Nat
  PROVE  SpreadVoteKeepsWeight(choices, weight)
<1>. DEFINE S == DOMAIN choices
            parts == [o \in S |-> ChoiceWeight(choices[o], weight)]
            spread == SumFunctionOnSet(parts, S)
<1>. DEFINE n == Len(choices)
<1>1. S = 1..n /\ n \in Nat /\ \A o \in S : choices[o] \in 0..100
  <2>1. choices \in [1..n -> 0..100] /\ n \in Nat
    BY LenProperties
  <2>. QED  BY <2>1
<1>2. IsFiniteSet(S) /\ Cardinality(S) = Len(choices)
  <2>. HIDE DEF n, S
  <2>1. IsFiniteSet(1..n) /\ Cardinality(1..n) = IF 1 > n THEN 0 ELSE n-1+1
    BY <1>1, 1 \in Int, n \in Int, FS_Interval
  <2>. QED  BY <1>1, <2>1 DEF n
<1>3. /\ spread \in Int /\ 100 * spread <= weight * SumFunctionOnSet(choices, S)
      /\ weight * SumFunctionOnSet(choices, S) <= 100 * spread + 99 * Len(choices)
  <2>1. IsFiniteSet(S) /\ \A o \in S : choices[o] \in 0..100
    BY <1>1, <1>2
  <2>. HIDE DEF S
  <2>2. /\ spread \in Int /\ 100 * spread <= weight * SumFunctionOnSet(choices, S)
        /\ weight * SumFunctionOnSet(choices, S) <= 100 * spread + 99 * Cardinality(S)
    BY ONLY <2>1, weight \in Nat, PartsOfWeight
  <2>. QED  BY <1>2, <2>2
<1>4. SumFunction(choices) = SumFunctionOnSet(choices, S) /\ SumFunction(parts) = spread
  BY DEF SumFunction
<1>5. SumFunction(choices) = 100 => Len(choices) >= 1
  <2>1. Len(choices) = 0 => SumFunctionOnSet(choices, S) = 0
    BY <1>1, <1>2, FS_EmptySet, SumOfNone
  <2>. QED  BY <1>1, <1>4, <2>1
<1>. HIDE DEF spread, S
<1>6. ASSUME SumFunction(choices) = 100 PROVE spread <= weight /\ weight < spread + Len(choices)
  BY <1>1, <1>3, <1>4, <1>5, <1>6
<1>. QED
  BY <1>4, <1>6 DEF SpreadVoteKeepsWeight, S
===============================================================================

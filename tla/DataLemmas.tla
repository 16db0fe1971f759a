----------------------------- MODULE DataLemmas -----------------------------
(***************************************************************************)
(* Facts about numbers, sums and sequences that the proofs of several      *)
(* components use.  An induction is done by way of a least counterexample, *)
(* which LeastNat provides.                                                *)
(***************************************************************************)
EXTENDS SequencesExt, Integers, FiniteSetTheorems, WellFoundedInduction, TLAPS

\* A set of natural numbers has a least element.
LEMMA LeastNat ==
  ASSUME NEW S \in SUBSET Nat, S # {}
  PROVE  \E m \in S : \A k \in S : m <= k
<1>1. PICK m \in S : \A k \in S : ~(<<k, m>> \in OpToRel(<, Nat))
  <2> DEFINE R == OpToRel(<, Nat)
  <2>1. IsWellFoundedOn(R, Nat)
    BY NatLessThanWellFounded
  <2> HIDE DEF R
  <2>2. \E x \in S : \A y \in S : ~(<<y, x>> \in R)
    BY <2>1, WFMin
  <2> QED BY <2>2 DEF R
<1>2. \A k \in S : ~(k < m)
  BY <1>1 DEF OpToRel
<1> QED BY <1>2

\* Min of a set of natural numbers.
LEMMA MinNat ==
  ASSUME NEW S \in SUBSET Nat, S # {}
  PROVE  Min(S) \in S /\ \A k \in S : Min(S) <= k
BY LeastNat DEF Min

\* Min and Max of two numbers.
LEMMA MinMaxPair ==
  ASSUME NEW a \in Int, NEW b \in Int
  PROVE  /\ Min({a, b}) = IF a <= b THEN a ELSE b
         /\ Max({a, b}) = IF a >= b THEN a ELSE b
<1>1. \E x \in {a, b} : \A y \in {a, b} : x <= y
  OBVIOUS
<1>2. Min({a, b}) \in {a, b} /\ \A y \in {a, b} : Min({a, b}) <= y
  BY <1>1 DEF Min
<1>3. \E x \in {a, b} : \A y \in {a, b} : x >= y
  OBVIOUS
<1>4. Max({a, b}) \in {a, b} /\ \A y \in {a, b} : Max({a, b}) >= y
  BY <1>3 DEF Max
<1> QED BY <1>2, <1>4

\* What holds of the empty set, and of a finite set when it holds of the smaller
\* ones, holds of every finite set: the sets where it does not are Bad.
LEMMA FiniteInduction ==
  ASSUME NEW S, IsFiniteSet(S), NEW Bad \in SUBSET SUBSET S,
         \A T \in Bad : \E U \in Bad : Cardinality(U) < Cardinality(T)
  PROVE  Bad = {}
<1> SUFFICES ASSUME Bad # {} PROVE FALSE
  OBVIOUS
<1> DEFINE N == {Cardinality(T) : T \in Bad}
<1>1. \A T \in Bad : IsFiniteSet(T) /\ Cardinality(T) \in Nat
  BY FS_Subset, FS_CardinalityType
<1>2. N \in SUBSET Nat /\ N # {}
  BY <1>1
<1>3. PICK n \in N : \A k \in N : n <= k
  BY <1>2, LeastNat
<1>4. PICK T \in Bad : n = Cardinality(T)
  BY <1>3
<1>5. PICK U \in Bad : Cardinality(U) < Cardinality(T)
  BY <1>4
<1>6. n <= Cardinality(U)
  BY <1>3, <1>5
<1> QED BY <1>1, <1>4, <1>5, <1>6

-----------------------------------------------------------------------------
(* Sums.                                                                   *)

Some(s) == CHOOSE x \in s : TRUE

\* One step of the sum of f over s.
SumRule(f, g, s) == IF s = {} THEN 0 ELSE f[Some(s)] + g[s \ {Some(s)}]

\* g sums f over the subsets of S.
Sums(f, S, g) == g = [s \in SUBSET S |-> SumRule(f, g, s)]

\* A finite set without one of its elements is smaller.
LEMMA Smaller ==
  ASSUME NEW S, IsFiniteSet(S), NEW s \in SUBSET S, NEW x \in s
  PROVE  /\ s \ {x} \in SUBSET S /\ IsFiniteSet(s) /\ IsFiniteSet(s \ {x})
         /\ Cardinality(s) \in Nat /\ Cardinality(s \ {x}) \in Nat
         /\ Cardinality(s \ {x}) = Cardinality(s) - 1
BY FS_Subset, FS_CardinalityType, FS_RemoveElement

\* Some element of a set is in it.
LEMMA SomeIn ==
  ASSUME NEW s, s # {}
  PROVE  Some(s) \in s
BY DEF Some

\* The step from a set to one without some element.
LEMMA SmallerSome ==
  ASSUME NEW S, IsFiniteSet(S), NEW s \in SUBSET S, s # {}
  PROVE  /\ Some(s) \in s /\ Some(s) \in S /\ s \ {Some(s)} \in SUBSET S
         /\ Cardinality(s \ {Some(s)}) < Cardinality(s)
<1>1. Some(s) \in s
  BY SomeIn
<1>2. Cardinality(s) \in Nat /\ Cardinality(s \ {Some(s)}) = Cardinality(s) - 1
  BY <1>1, Smaller
<1> QED BY <1>1, <1>2

\* There is a function that sums f.
LEMMA SumsExist ==
  ASSUME NEW S, IsFiniteSet(S), NEW f, \A x \in S : f[x] \in Int
  PROVE  \E g : Sums(f, S, g)
<1> DEFINE Upto(n, g) == /\ g \in [SUBSET S -> Int]
                         /\ \A s \in SUBSET S :
                              Cardinality(s) <= n => g[s] = SumRule(f, g, s)
           Bad == {n \in Nat : ~\E g : Upto(n, g)}
<1>0. \A s \in SUBSET S : IsFiniteSet(s) /\ Cardinality(s) \in Nat
  BY FS_Subset, FS_CardinalityType
<1>1. Bad = {}
  <2> SUFFICES ASSUME Bad # {} PROVE FALSE
    OBVIOUS
  <2>1. PICK m \in Bad : \A k \in Bad : m <= k
    BY LeastNat
  <2>2. m # 0
    <3> DEFINE g == [s \in SUBSET S |-> 0]
    <3>1. \A s \in SUBSET S : Cardinality(s) <= 0 => s = {}
      BY <1>0, FS_EmptySet
    <3>2. Upto(0, g)
      BY <3>1 DEF SumRule
    <3> QED BY <3>2
  <2> HIDE DEF Bad
  <2>3. m \in Nat /\ m - 1 \in Nat /\ m - 1 \notin Bad
    <3>1. m \in Nat
      BY DEF Bad
    <3>2. m - 1 \in Nat /\ ~(m <= m - 1)
      BY <2>2, <3>1
    <3> QED BY <2>1, <3>1, <3>2
  <2>4. PICK g : Upto(m - 1, g)
    BY <2>3 DEF Bad
  <2> DEFINE h == [s \in SUBSET S |-> IF Cardinality(s) <= m - 1 THEN g[s]
                                      ELSE SumRule(f, g, s)]
  <2>5. \A s \in SUBSET S : SumRule(f, g, s) \in Int
    <3> TAKE s \in SUBSET S
    <3>1. CASE s = {}
      BY <3>1 DEF SumRule
    <3>2. CASE s # {}
      <4>1. Some(s) \in S /\ s \ {Some(s)} \in SUBSET S
        BY <3>2, SomeIn
      <4> QED BY <2>4, <3>2, <4>1 DEF SumRule
    <3> QED BY <3>1, <3>2
  <2>6. h \in [SUBSET S -> Int]
    BY <2>4, <2>5
  <2>7. ASSUME NEW s \in SUBSET S, Cardinality(s) <= m
        PROVE  h[s] = SumRule(f, h, s)
    <3>1. CASE s = {}
      <4>1. Cardinality(s) <= m - 1
        BY <2>3, <3>1, FS_EmptySet
      <4> QED BY <2>4, <3>1, <4>1 DEF SumRule
    <3>2. CASE s # {}
      <4> DEFINE u == s \ {Some(s)}
      <4>1. u \in SUBSET S /\ Cardinality(u) = Cardinality(s) - 1
            /\ Cardinality(s) \in Nat
        BY <3>2, SomeIn, Smaller
      <4>2. Cardinality(u) <= m - 1
        BY <2>3, <2>7, <4>1
      <4>3. h[u] = g[u]
        BY <4>1, <4>2
      <4>4. h[s] = SumRule(f, g, s)
        BY <2>4
      <4> HIDE DEF h, u
      <4> QED BY <3>2, <4>3, <4>4 DEF SumRule, u
    <3> QED BY <3>1, <3>2
  <2>8. Upto(m, h)
    BY <2>6, <2>7
  <2> HIDE DEF h
  <2> QED BY <2>1, <2>8 DEF Bad
<1>2. PICK g : Upto(Cardinality(S), g)
  BY <1>0, <1>1
<1>3. \A s \in SUBSET S : Cardinality(s) <= Cardinality(S)
  BY FS_Subset
<1> QED BY <1>2, <1>3 DEF Sums

\* Its values are numbers.
LEMMA SumsType ==
  ASSUME NEW S, IsFiniteSet(S), NEW f, \A x \in S : f[x] \in Int,
         NEW g, Sums(f, S, g)
  PROVE  \A s \in SUBSET S : g[s] \in Int /\ g[s] = SumRule(f, g, s)
<1>1. \A s \in SUBSET S : g[s] = SumRule(f, g, s)
  BY DEF Sums
<1> DEFINE Bad == {s \in SUBSET S : g[s] \notin Int}
<1>2. ASSUME NEW s \in Bad
      PROVE  \E u \in Bad : Cardinality(u) < Cardinality(s)
  <2>1. s # {}
    <3>1. SumRule(f, g, {}) \in Int
      BY DEF SumRule
    <3> QED BY <1>1, <3>1
  <2> DEFINE u == s \ {Some(s)}
  <2>2. Some(s) \in S /\ u \in SUBSET S /\ Cardinality(u) < Cardinality(s)
    BY <2>1, SmallerSome
  <2>3. g[s] = f[Some(s)] + g[u]
    BY <1>1, <2>1 DEF SumRule
  <2>4. g[u] \notin Int
    BY <2>2, <2>3
  <2> QED BY <2>2, <2>4
<1>3. Bad = {}
  BY <1>2, FiniteInduction
<1> QED BY <1>1, <1>3

\* Two of them agree on what both sum.
LEMMA SumsAgree ==
  ASSUME NEW S, IsFiniteSet(S), NEW T, IsFiniteSet(T),
         NEW e, \A x \in S : e[x] \in Int, NEW f, \A x \in T : f[x] \in Int,
         \A x \in S \cap T : e[x] = f[x],
         NEW g, Sums(e, S, g), NEW h, Sums(f, T, h)
  PROVE  \A s \in SUBSET (S \cap T) : g[s] = h[s]
<1> DEFINE Bad == {s \in SUBSET (S \cap T) : g[s] # h[s]}
<1>1. /\ \A s \in SUBSET S : g[s] = SumRule(e, g, s)
      /\ \A s \in SUBSET T : h[s] = SumRule(f, h, s)
  BY DEF Sums
<1>2. IsFiniteSet(S \cap T)
  BY FS_Intersection
<1>3. ASSUME NEW s \in Bad
      PROVE  \E u \in Bad : Cardinality(u) < Cardinality(s)
  <2>1. s # {}
    BY <1>1 DEF SumRule
  <2> DEFINE u == s \ {Some(s)}
  <2>2. Some(s) \in S \cap T /\ u \in SUBSET (S \cap T)
        /\ Cardinality(u) < Cardinality(s)
    BY <1>2, <2>1, SmallerSome
  <2>3. g[s] = e[Some(s)] + g[u] /\ h[s] = f[Some(s)] + h[u]
    BY <1>1, <2>1 DEF SumRule
  <2>4. g[u] # h[u]
    BY <2>2, <2>3
  <2> QED BY <2>2, <2>4
<1>4. Bad = {}
  BY <1>2, <1>3, FiniteInduction
<1> QED BY <1>4

\* SumFunctionOnSet is given by such a function.
LEMMA SumIs ==
  ASSUME NEW S, IsFiniteSet(S), NEW f, \A x \in S : f[x] \in Int
  PROVE  \E g : Sums(f, S, g) /\ SumFunctionOnSet(f, S) = g[S]
<1> DEFINE g == CHOOSE g : Sums(f, S, g)
<1>1. Sums(f, S, g)
  BY SumsExist
<1>2. SumFunctionOnSet(f, S) = g[S]
  BY DEF SumFunctionOnSet, FoldFunctionOnSet, MapThenFoldSet, Sums, SumRule, Some
<1> QED BY <1>1, <1>2

\* The sum over a set is a number; it depends on the values in the set only.
LEMMA SumInt ==
  ASSUME NEW S, IsFiniteSet(S), NEW f, \A x \in S : f[x] \in Int
  PROVE  SumFunctionOnSet(f, S) \in Int
BY SumIs, SumsType

\* Functions that agree on a set have the same sum.
LEMMA SumSame ==
  ASSUME NEW S, IsFiniteSet(S), NEW f, NEW g, \A x \in S : f[x] \in Int /\ g[x] = f[x]
  PROVE  SumFunctionOnSet(g, S) = SumFunctionOnSet(f, S)
<1>1. PICK u : Sums(f, S, u) /\ SumFunctionOnSet(f, S) = u[S]
  BY SumIs
<1>2. \A x \in S : g[x] \in Int
  OBVIOUS
<1>3. PICK v : Sums(g, S, v) /\ SumFunctionOnSet(g, S) = v[S]
  BY <1>2, SumIs
<1>4. \A x \in S \cap S : g[x] = f[x]
  OBVIOUS
<1>5. \A s \in SUBSET (S \cap S) : v[s] = u[s]
  BY <1>1, <1>2, <1>3, <1>4, SumsAgree
<1> QED BY <1>1, <1>3, <1>5

\* One step of the sum.
LEMMA SumStep ==
  ASSUME NEW S, IsFiniteSet(S), NEW f, \A x \in S : f[x] \in Int
  PROVE  SumFunctionOnSet(f, S) =
           IF S = {} THEN 0
           ELSE f[Some(S)] + SumFunctionOnSet(f, S \ {Some(S)})
<1>1. PICK u : Sums(f, S, u) /\ SumFunctionOnSet(f, S) = u[S]
  BY SumIs
<1>2. u[S] = SumRule(f, u, S)
  BY <1>1 DEF Sums
<1>3. CASE S = {}
  BY <1>1, <1>2, <1>3 DEF SumRule
<1>4. CASE S # {}
  <2> DEFINE T == S \ {Some(S)}
  <2>1. IsFiniteSet(T) /\ T \subseteq S /\ T = S \cap T
    BY FS_Subset
  <2>2. \A x \in T : f[x] \in Int
    OBVIOUS
  <2> HIDE DEF T
  <2>3. PICK v : Sums(f, T, v) /\ SumFunctionOnSet(f, T) = v[T]
    BY <2>1, <2>2, SumIs
  <2>4. \A s \in SUBSET (S \cap T) : u[s] = v[s]
    BY <1>1, <2>1, <2>2, <2>3, SumsAgree
  <2> QED BY <1>1, <1>2, <1>4, <2>1, <2>3, <2>4 DEF SumRule, T
<1> QED BY <1>3, <1>4

\* Any element may be taken out first.
LEMMA SumRemove ==
  ASSUME NEW S, IsFiniteSet(S), NEW f, \A x \in S : f[x] \in Int, NEW y \in S
  PROVE  SumFunctionOnSet(f, S) = f[y] + SumFunctionOnSet(f, S \ {y})
<1> DEFINE Sum(T) == SumFunctionOnSet(f, T)
           Bad == {T \in SUBSET S : \E z \in T : Sum(T) # f[z] + Sum(T \ {z})}
<1>1. \A T \in SUBSET S : IsFiniteSet(T) /\ \A x \in T : f[x] \in Int
  BY FS_Subset
<1>2. \A T \in SUBSET S : Sum(T) \in Int
  BY <1>1, SumInt
<1>3. \A T \in SUBSET S : T # {} => Sum(T) = f[Some(T)] + Sum(T \ {Some(T)})
  BY <1>1, SumStep
<1> HIDE DEF Sum
<1>4. ASSUME NEW T \in Bad
      PROVE  \E U \in Bad : Cardinality(U) < Cardinality(T)
  <2>1. T \in SUBSET S
    OBVIOUS
  <2>2. PICK z \in T : Sum(T) # f[z] + Sum(T \ {z})
    OBVIOUS
  <2> DEFINE c == Some(T)
             A == T \ {c}
             B == T \ {z}
             C == (T \ {c}) \ {z}
  <2>3. c \in T /\ Sum(T) = f[c] + Sum(A)
    BY <1>3, <2>2, SomeIn
  <2>4. c # z
    BY <2>2, <2>3
  <2>5. z \in A /\ c \in B /\ A \in SUBSET S /\ B \in SUBSET S /\ C \in SUBSET S
        /\ A \ {z} = C /\ B \ {c} = C
    BY <2>1, <2>3, <2>4
  <2>6. Cardinality(A) < Cardinality(T) /\ Cardinality(B) < Cardinality(T)
    <3>1. Cardinality(T) \in Nat /\ Cardinality(A) = Cardinality(T) - 1
          /\ Cardinality(B) = Cardinality(T) - 1
      BY <2>1, <2>3, Smaller
    <3> QED BY <3>1
  <2>7. /\ f[c] \in Int /\ f[z] \in Int /\ Sum(T) \in Int /\ Sum(A) \in Int
        /\ Sum(B) \in Int /\ Sum(C) \in Int
    BY <1>2, <2>1, <2>3, <2>5
  <2> HIDE DEF A, B, C, c
  <2>8. CASE A \in Bad
    BY <2>6, <2>8
  <2>9. CASE B \in Bad
    BY <2>6, <2>9
  <2>10. CASE A \notin Bad /\ B \notin Bad
    <3>1. Sum(A) = f[z] + Sum(C) /\ Sum(B) = f[c] + Sum(C)
      BY <2>5, <2>10
    <3> QED BY <2>2, <2>3, <2>7, <3>1 DEF B
  <2> QED BY <2>8, <2>9, <2>10
<1>5. Bad = {}
  BY <1>4, FiniteInduction
<1> QED BY <1>5 DEF Sum

\* A sum in two parts.
LEMMA SumSplit ==
  ASSUME NEW S, IsFiniteSet(S), NEW f, \A x \in S : f[x] \in Int, NEW E \in SUBSET S
  PROVE  SumFunctionOnSet(f, S) = SumFunctionOnSet(f, E) + SumFunctionOnSet(f, S \ E)
<1> DEFINE Sum(T) == SumFunctionOnSet(f, T)
           Bad == {T \in SUBSET E : Sum(S) # Sum(T) + Sum(S \ T)}
<1>1. \A T \in SUBSET S : IsFiniteSet(T) /\ \A x \in T : f[x] \in Int
  BY FS_Subset
<1>2. \A T \in SUBSET S : Sum(T) \in Int
  BY <1>1, SumInt
<1>3. \A T \in SUBSET S : \A z \in T : Sum(T) = f[z] + Sum(T \ {z})
  BY <1>1, SumRemove
<1>4. Sum({}) = 0
  BY <1>1, SumStep
<1>5. IsFiniteSet(E)
  BY <1>1
<1> HIDE DEF Sum
<1>6. ASSUME NEW T \in Bad
      PROVE  \E U \in Bad : Cardinality(U) < Cardinality(T)
  <2>1. T \in SUBSET E /\ T \in SUBSET S /\ Sum(S) # Sum(T) + Sum(S \ T)
    OBVIOUS
  <2>2. T # {}
    <3>1. ASSUME T = {} PROVE Sum(T) = 0 /\ Sum(S \ T) = Sum(S)
      <4>1. S \ T = S
        BY <3>1
      <4> QED BY <1>4, <3>1, <4>1
    <3>2. Sum(S) \in Int
      BY <1>2
    <3> QED BY <2>1, <3>1, <3>2
  <2>3. PICK z : z \in T
    BY <2>2
  <2> DEFINE U == T \ {z}
  <2>4. U \in SUBSET E /\ U \in SUBSET S /\ S \ U \in SUBSET S /\ z \in S \ U
        /\ (S \ U) \ {z} = S \ T /\ z \in S
    BY <2>1, <2>3
  <2>5. Sum(T) = f[z] + Sum(U) /\ Sum(S \ U) = f[z] + Sum(S \ T)
    BY <1>3, <2>1, <2>3, <2>4
  <2>6. f[z] \in Int /\ Sum(U) \in Int /\ Sum(S \ T) \in Int
    BY <1>2, <2>4
  <2>7. Sum(S) # Sum(U) + Sum(S \ U)
    BY <2>1, <2>5, <2>6
  <2>8. Cardinality(U) < Cardinality(T)
    <3>1. Cardinality(T) \in Nat /\ Cardinality(U) = Cardinality(T) - 1
      BY <1>5, <2>1, <2>3, Smaller
    <3> QED BY <3>1
  <2> QED BY <2>4, <2>7, <2>8
<1>7. Bad = {}
  BY <1>5, <1>6, FiniteInduction
<1> QED BY <1>7 DEF Sum

\* The sum of a sum.
LEMMA SumPlus ==
  ASSUME NEW S, IsFiniteSet(S), NEW f, NEW g, NEW h,
         \A x \in S : f[x] \in Int /\ g[x] \in Int /\ h[x] = f[x] + g[x]
  PROVE  SumFunctionOnSet(h, S) = SumFunctionOnSet(f, S) + SumFunctionOnSet(g, S)
<1> DEFINE F(T) == SumFunctionOnSet(f, T)
           G(T) == SumFunctionOnSet(g, T)
           H(T) == SumFunctionOnSet(h, T)
           Bad == {T \in SUBSET S : H(T) # F(T) + G(T)}
<1>1. \A T \in SUBSET S : IsFiniteSet(T)
  BY FS_Subset
<1>2. \A T \in SUBSET S : /\ \A x \in T : f[x] \in Int
                          /\ \A x \in T : g[x] \in Int
                          /\ \A x \in T : h[x] \in Int
  OBVIOUS
<1>3. \A T \in SUBSET S : F(T) \in Int /\ G(T) \in Int
  BY <1>1, <1>2, SumInt
<1>4. \A T \in SUBSET S : \A z \in T : /\ F(T) = f[z] + F(T \ {z})
                                       /\ G(T) = g[z] + G(T \ {z})
                                       /\ H(T) = h[z] + H(T \ {z})
  BY <1>1, <1>2, SumRemove
<1>5. F({}) = 0 /\ G({}) = 0 /\ H({}) = 0
  BY <1>1, <1>2, SumStep
<1> HIDE DEF F, G, H
<1>6. ASSUME NEW T \in Bad
      PROVE  \E U \in Bad : Cardinality(U) < Cardinality(T)
  <2>1. PICK z : z \in T
    BY <1>5
  <2> DEFINE U == T \ {z}
  <2>2. U \in SUBSET S /\ z \in S
    BY <2>1
  <2>3. /\ f[z] \in Int /\ g[z] \in Int /\ h[z] = f[z] + g[z]
        /\ F(U) \in Int /\ G(U) \in Int
        /\ F(T) = f[z] + F(U) /\ G(T) = g[z] + G(U) /\ H(T) = h[z] + H(U)
    BY <1>3, <1>4, <2>1, <2>2
  <2>4. H(U) # F(U) + G(U)
    BY <2>3
  <2>5. Cardinality(U) < Cardinality(T)
    <3>1. Cardinality(T) \in Nat /\ Cardinality(U) = Cardinality(T) - 1
      BY <2>1, Smaller
    <3> QED BY <3>1
  <2> QED BY <2>2, <2>4, <2>5
<1>7. Bad = {}
  BY <1>6, FiniteInduction
<1> QED BY <1>7 DEF F, G, H

\* One summand changes.
LEMMA SumChange ==
  ASSUME NEW S, IsFiniteSet(S), NEW f, NEW g, NEW y \in S, NEW d \in Int,
         \A x \in S : f[x] \in Int /\ g[x] = IF x = y THEN f[x] + d ELSE f[x]
  PROVE  SumFunctionOnSet(g, S) = SumFunctionOnSet(f, S) + d
<1> DEFINE T == S \ {y}
<1>1. /\ \A x \in S : f[x] \in Int
      /\ \A x \in S : g[x] \in Int
      /\ \A x \in T : f[x] \in Int /\ g[x] = f[x]
      /\ IsFiniteSet(T) /\ g[y] = f[y] + d /\ f[y] \in Int
  BY FS_Subset
<1>2. /\ SumFunctionOnSet(g, S) = g[y] + SumFunctionOnSet(g, T)
      /\ SumFunctionOnSet(f, S) = f[y] + SumFunctionOnSet(f, T)
  BY <1>1, SumRemove
<1> HIDE DEF T
<1>3. SumFunctionOnSet(g, T) = SumFunctionOnSet(f, T) /\ SumFunctionOnSet(f, T) \in Int
  BY <1>1, SumSame, SumInt
<1> QED BY <1>1, <1>2, <1>3

-----------------------------------------------------------------------------
(* Sequences.                                                              *)

\* What RemoveAt leaves, place by place.
LEMMA RemoveAtIs ==
  ASSUME NEW S, NEW s \in Seq(S), NEW i \in 1..Len(s)
  PROVE  /\ RemoveAt(s, i) \in Seq(S) /\ Len(RemoveAt(s, i)) = Len(s) - 1
         /\ \A j \in 1..(Len(s) - 1) :
              RemoveAt(s, i)[j] = IF j < i THEN s[j] ELSE s[j + 1]
<1> DEFINE a == SubSeq(s, 1, i - 1)
           b == SubSeq(s, i + 1, Len(s))
<1>1. Len(s) \in Nat /\ i \in Nat /\ 1 <= i /\ i <= Len(s)
  OBVIOUS
<1>2. /\ a \in Seq(S) /\ Len(a) = i - 1
      /\ \A j \in 1..(i - 1) : a[j] = s[j]
  BY <1>1
<1>3. /\ b \in Seq(S) /\ Len(b) = Len(s) - i
      /\ \A j \in 1..(Len(s) - i) : b[j] = s[j + i]
  BY <1>1
<1> HIDE DEF a, b
<1>4. /\ a \o b \in Seq(S) /\ Len(a \o b) = Len(s) - 1
      /\ \A j \in 1..(Len(s) - 1) : (a \o b)[j] = IF j <= Len(a) THEN a[j] ELSE b[j - Len(a)]
  <2>1. a \in Seq(S) /\ b \in Seq(S) /\ Len(a) + Len(b) = Len(s) - 1
    BY <1>1, <1>2, <1>3
  <2>2. /\ a \o b \in Seq(S) /\ Len(a \o b) = Len(a) + Len(b)
        /\ \A j \in 1..(Len(a) + Len(b)) :
             (a \o b)[j] = IF j <= Len(a) THEN a[j] ELSE b[j - Len(a)]
    BY <2>1
  <2> QED BY <2>1, <2>2
<1>5. ASSUME NEW j \in 1..(Len(s) - 1)
      PROVE  (a \o b)[j] = IF j < i THEN s[j] ELSE s[j + 1]
  <2>1. CASE j < i
    <3>1. j <= Len(a) /\ j \in 1..(i - 1)
      BY <1>1, <1>2, <2>1
    <3> QED BY <1>2, <1>4, <2>1, <3>1
  <2>2. CASE ~(j < i)
    <3>1. /\ ~(j <= Len(a)) /\ j - Len(a) \in 1..(Len(s) - i)
          /\ j - Len(a) + i = j + 1
      BY <1>1, <1>2, <2>2
    <3> QED BY <1>3, <1>4, <2>2, <3>1
  <2> QED BY <2>1, <2>2
<1> QED BY <1>4, <1>5 DEF RemoveAt, a, b

\* Front and Last.
LEMMA FrontIs ==
  ASSUME NEW S, NEW s \in Seq(S), Len(s) > 0
  PROVE  /\ Front(s) \in Seq(S) /\ Len(Front(s)) = Len(s) - 1
         /\ \A j \in 1..(Len(s) - 1) : Front(s)[j] = s[j]
         /\ Last(s) = s[Len(s)] /\ Len(s) \in 1..Len(s) /\ Last(s) \in S
<1>1. Len(s) \in Nat /\ Len(s) \in 1..Len(s)
  OBVIOUS
<1>2. Front(s) = SubSeq(s, 1, Len(s) - 1) /\ Last(s) = s[Len(s)]
  BY DEF Front, Last
<1>3. s[Len(s)] \in S
  BY <1>1
<1>4. SubSeq(s, 1, Len(s) - 1) \in Seq(S) /\ Len(SubSeq(s, 1, Len(s) - 1)) = Len(s) - 1
  <2>1. PICK n \in Nat : n = Len(s) - 1
    BY <1>1
  <2>2. n \in 0..Len(s)
    BY <1>1, <2>1
  <2>3. Len(SubSeq(s, 1, n)) = n
    BY <2>2
  <2>4. SubSeq(s, 1, n) \in Seq(S)
    BY <2>2
  <2> QED BY <2>1, <2>3, <2>4
<1>5. \A j \in 1..(Len(s) - 1) : SubSeq(s, 1, Len(s) - 1)[j] = s[j]
  BY <1>1
<1> QED BY <1>1, <1>2, <1>3, <1>4, <1>5

\* A sequence with one element put before it.
LEMMA PushIs ==
  ASSUME NEW S, NEW s \in Seq(S), NEW x \in S
  PROVE  /\ <<x>> \o s \in Seq(S) /\ Len(<<x>> \o s) = Len(s) + 1
         /\ (<<x>> \o s)[1] = x
         /\ \A j \in 2..(Len(s) + 1) : (<<x>> \o s)[j] = s[j - 1]
OBVIOUS

\* The places of a sequence whose values lie in E include one whose weight is
\* not less than any other's.
LEMMA GreatestAt ==
  ASSUME NEW S, NEW s \in Seq(S), NEW E, NEW w, \A p \in E : w[p] \in Int,
         \E i \in 1..Len(s) : s[i] \in E
  PROVE  \E i \in 1..Len(s) : /\ s[i] \in E
                              /\ \A j \in 1..Len(s) : s[j] \in E => w[s[i]] >= w[s[j]]
<1> DEFINE Hit(n) == {i \in 1..n : s[i] \in E}
           Top(n) == {i \in Hit(n) : \A j \in Hit(n) : w[s[i]] >= w[s[j]]}
           Bad == {n \in 0..Len(s) : Hit(n) # {} /\ Top(n) = {}}
<1>0. Len(s) \in Nat
  OBVIOUS
<1>1. Bad = {}
  <2> SUFFICES ASSUME Bad # {} PROVE FALSE
    OBVIOUS
  <2>1. Bad \in SUBSET Nat
    BY <1>0
  <2>2. PICK m \in Bad : \A k \in Bad : m <= k
    BY <2>1, LeastNat
  <2>3. m \in 0..Len(s) /\ Hit(m) # {} /\ Top(m) = {}
    BY <2>2
  <2>4. m \in Nat /\ m # 0
    BY <1>0, <2>3
  <2>5. m - 1 \in 0..Len(s) /\ ~(m <= m - 1)
    BY <1>0, <2>3, <2>4
  <2>6. m - 1 \notin Bad
    BY <2>2, <2>5
  <2>7. /\ \A i \in 1..m : i \in 1..(m - 1) \/ i = m
        /\ \A i \in 1..(m - 1) : i \in 1..m
        /\ m \in 1..m
    BY <2>4
  <2>8. \A i \in Hit(m) : w[s[i]] \in Int
    OBVIOUS
  <2>9. CASE Hit(m - 1) = {}
    <3>1. \A i \in Hit(m) : i = m
      BY <2>7, <2>9
    <3> QED BY <2>3, <2>8, <3>1
  <2>10. CASE Hit(m - 1) # {}
    <3>1. PICK i \in Top(m - 1) : TRUE
      BY <2>5, <2>6, <2>10
    <3>2. i \in Hit(m) /\ \A j \in Hit(m) : j = m \/ w[s[i]] >= w[s[j]]
      BY <2>7, <3>1
    <3>3. CASE m \notin Hit(m)
      BY <2>3, <3>2, <3>3
    <3>4. CASE m \in Hit(m) /\ w[s[i]] >= w[s[m]]
      BY <2>3, <3>2, <3>4
    <3>5. CASE m \in Hit(m) /\ ~(w[s[i]] >= w[s[m]])
      <4>1. \A j \in Hit(m) : w[s[m]] >= w[s[j]]
        <5> TAKE j \in Hit(m)
        <5> HIDE DEF Hit
        <5>1. w[s[i]] \in Int /\ w[s[m]] \in Int /\ w[s[j]] \in Int
          BY <2>8, <3>2, <3>5
        <5>2. j = m \/ w[s[i]] >= w[s[j]]
          BY <3>2
        <5>3. CASE j = m
          <6>1. w[s[m]] >= w[s[m]]
            BY <5>1
          <6> QED BY <5>3, <6>1
        <5>4. CASE w[s[i]] >= w[s[j]]
          BY <3>5, <5>1, <5>4
        <5> QED BY <5>2, <5>3, <5>4
      <4> QED BY <2>3, <3>5, <4>1
    <3> QED BY <3>3, <3>4, <3>5
  <2> QED BY <2>9, <2>10
<1>2. Hit(Len(s)) # {} /\ Len(s) \in 0..Len(s)
  BY <1>0
<1>3. Top(Len(s)) # {}
  BY <1>1, <1>2
<1> QED BY <1>3

\* What holds of 0, and of k + 1 whenever it holds of k, holds up to n.
LEMMA Climb ==
  ASSUME NEW n \in Nat, NEW G, 0 \in G, \A k \in 0..n - 1 : k \in G => k + 1 \in G
  PROVE  \A k \in 0..n : k \in G
<1> DEFINE Bad == {k \in 0..n : k \notin G}
<1> SUFFICES ASSUME Bad # {} PROVE FALSE
  OBVIOUS
<1>1. Bad \in SUBSET Nat
  OBVIOUS
<1>2. PICK m \in Bad : \A k \in Bad : m <= k
  BY <1>1, LeastNat
<1>3. m \in Nat /\ m <= n /\ m # 0 /\ m \notin G
  OBVIOUS
<1>4. m - 1 \in 0..n - 1 /\ m - 1 \in 0..n /\ ~(m <= m - 1) /\ (m - 1) + 1 = m
  BY <1>3
<1>5. m - 1 \notin Bad
  <2> HIDE DEF Bad
  <2> QED BY <1>2, <1>4
<1> QED BY <1>3, <1>4, <1>5

\* f[k] is what F taken k times makes of a.
Iterated(f, n, a, F) == f = [k \in 0..n |-> IF k = 0 THEN a ELSE F[f[k - 1]]]

\* A step can be taken n times: there is a function that follows it.
LEMMA Iterates ==
  ASSUME NEW n \in Nat, NEW S, NEW a \in S, NEW F \in [S -> S]
  PROVE  \E f : Iterated(f, n, a, F)
<1> DEFINE Is(f, m) == f = [k \in 0..m |-> IF k = 0 THEN a ELSE F[f[k - 1]]]
           G == {m \in 0..n : \E f : Is(f, m)}
<1>1. 0 \in G
  <2>1. PICK f : f = [k \in 0..0 |-> a]
    OBVIOUS
  <2>2. \A k \in 0..0 : f[k] = IF k = 0 THEN a ELSE F[f[k - 1]]
    BY <2>1
  <2>3. Is(f, 0)
    BY <2>1, <2>2
  <2> QED BY <2>3
<1>2. ASSUME NEW m \in 0..n - 1, m \in G PROVE m + 1 \in G
  <2>1. PICK f : Is(f, m)
    BY <1>2
  <2> DEFINE g == [k \in 0..m + 1 |-> IF k = m + 1 THEN F[f[m]] ELSE f[k]]
  <2>2. m \in Nat /\ m + 1 \in 0..n
    OBVIOUS
  <2>3. ASSUME NEW k \in 0..m + 1 PROVE g[k] = IF k = 0 THEN a ELSE F[g[k - 1]]
    <3>1. CASE k = m + 1
      BY <3>1, <2>2
    <3>2. CASE k # m + 1
      <4>1. k \in 0..m /\ g[k] = f[k]
        BY <3>2, <2>2
      <4>2. f[k] = IF k = 0 THEN a ELSE F[f[k - 1]]
        BY <4>1, <2>1
      <4>3. k # 0 => k - 1 \in 0..m + 1 /\ k - 1 # m + 1
        BY <4>1, <2>2
      <4> QED BY <4>1, <4>2, <4>3
    <3> QED BY <3>1, <3>2
  <2>4. Is(g, m + 1)
    BY <2>3
  <2> QED BY <2>2, <2>4
<1> HIDE DEF G
<1>3. n \in G
  BY <1>1, <1>2, Climb
<1> QED BY <1>3 DEF G, Iterated

\* A finite set with ranks has an element of the lowest rank.
LEMMA LowestRank ==
  ASSUME NEW S, IsFiniteSet(S), S # {}, NEW r, \A x \in S : r[x] \in Int
  PROVE  \E x \in S : \A y \in S : r[x] <= r[y]
<1> DEFINE Bad == {T \in SUBSET S : T # {} /\ ~\E x \in T : \A y \in T : r[x] <= r[y]}
<1>1. ASSUME NEW T \in Bad PROVE \E U \in Bad : Cardinality(U) < Cardinality(T)
  <2>1. PICK x : x \in T
    OBVIOUS
  <2>2. T \in SUBSET S /\ Cardinality(T \ {x}) < Cardinality(T)
    <3>1. T \in SUBSET S
      OBVIOUS
    <3>2. Cardinality(T) \in Nat /\ Cardinality(T \ {x}) = Cardinality(T) - 1
      BY <2>1, <3>1, Smaller
    <3> QED BY <3>1, <3>2
  <2>3. T \ {x} # {}
    <3>1. SUFFICES ASSUME T \ {x} = {} PROVE FALSE
      OBVIOUS
    <3>2. \A y \in T : y = x /\ r[x] \in Int
      BY <2>1, <2>2, <3>1
    <3>3. \A y \in T : r[x] <= r[y]
      BY <3>2
    <3> QED BY <2>1, <3>3
  <2>4. ASSUME NEW z \in T \ {x}, \A y \in T \ {x} : r[z] <= r[y] PROVE FALSE
    <3>1. \A y \in T : r[y] \in Int
      BY <2>2
    <3>2. CASE r[x] <= r[z]
      <4>1. \A y \in T : r[x] <= r[y]
        BY <2>1, <2>4, <3>1, <3>2
      <4> QED BY <2>1, <4>1
    <3>3. CASE ~(r[x] <= r[z])
      <4>1. \A y \in T : r[z] <= r[y]
        BY <2>1, <2>4, <3>1, <3>3
      <4> QED BY <2>4, <4>1
    <3> QED BY <3>2, <3>3
  <2>5. T \ {x} \in Bad
    BY <2>2, <2>3, <2>4
  <2> QED BY <2>2, <2>5
<1>2. Bad \in SUBSET SUBSET S
  OBVIOUS
<1>3. Bad = {}
  <2> HIDE DEF Bad
  <2> QED BY <1>1, <1>2, FiniteInduction
<1> QED BY <1>3
=============================================================================

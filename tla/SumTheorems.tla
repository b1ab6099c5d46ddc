---------------------------- MODULE SumTheorems ----------------------------
(***************************************************************************)
(* Sums over finite sets, for the invariants on balances: what             *)
(* SumFunctionOnSet of module Functions computes, in whatever order it     *)
(* takes the indices.                                                      *)
(*                                                                         *)
(* The sum is a recursive function on the subsets of the index set.  Its   *)
(* equation, and every fact below, is proved by induction on subsets in    *)
(* the form of SubsetInduction, where the property is a set: it follows    *)
(* from the existence of a minimal counterexample.                         *)
(***************************************************************************)
EXTENDS Functions, FiniteSetTheorems, TLAPS

-----------------------------------------------------------------------------
(* The equation of the fold *)

\* What the fold returns for one subset, given what it returns for the smaller ones.
SumStep(f, h, s) ==
    IF s = {} THEN 0 ELSE LET x == CHOOSE x \in s : TRUE IN f[x] + h[s \ {x}]

\* h satisfies the equation of the fold on the subsets of S.
IsSum(f, h, S) == h = [s \in SUBSET S |-> SumStep(f, h, s)]

\* The recursive function the fold defines.
SumOf(f, S) == CHOOSE h : IsSum(f, h, S)

\* The sum is the value of the recursive function at the whole set.
LEMMA SumUnfold ==
    ASSUME NEW f, NEW S
    PROVE  SumFunctionOnSet(f, S) = SumOf(f, S)[S]
BY DEF SumFunctionOnSet, FoldFunctionOnSet, MapThenFoldSet, SumOf, IsSum, SumStep

\* Induction on the subsets of a finite set: a smallest subset outside P would have
\* all its parts inside.
LEMMA SubsetInduction ==
    ASSUME NEW S, IsFiniteSet(S), NEW P,
           \A T \in SUBSET S : (\A U \in SUBSET T : U # T => U \in P) => T \in P
    PROVE  \A T \in SUBSET S : T \in P
<1> DEFINE R   == StrictSubsetOrdering(S)
           bad == {T \in SUBSET S : T \notin P}
<1> SUFFICES ASSUME bad # {} PROVE FALSE
  OBVIOUS
<1>1. IsWellFoundedOn(R, SUBSET S)
  <2>1. FiniteSubsetsOf(S) = SUBSET S
    BY FS_FiniteSubsetsOfFinite
  <2>2. IsWellFoundedOn(R, FiniteSubsetsOf(S))
    BY FS_StrictSubsetOrderingWellFounded
  <2> QED
    BY <2>1, <2>2
<1>2. PICK T \in bad : \A U \in bad : <<U, T>> \notin R
  <2>1. bad \subseteq SUBSET S /\ bad # {}
    OBVIOUS
  <2> HIDE DEF R, bad
  <2> QED
    BY <1>1, <2>1, WFMin
<1>3. ASSUME NEW U \in SUBSET T, U # T PROVE U \in P
  <2>1. U \in SUBSET S /\ T \in SUBSET S
    OBVIOUS
  <2>2. <<U, T>> \in R
    BY <1>3, <2>1 DEF StrictSubsetOrdering
  <2> QED
    BY <1>2, <2>1, <2>2
<1> QED
  BY <1>3

\* Two functions that satisfy the equation agree on the subsets they share.
LEMMA SumUnique ==
    ASSUME NEW S, IsFiniteSet(S), NEW f, NEW g, NEW h, NEW T \in SUBSET S, NEW U \in SUBSET S,
           IsSum(f, g, T), IsSum(f, h, U)
    PROVE  \A s \in SUBSET S : s \subseteq T /\ s \subseteq U => g[s] = h[s]
<1> DEFINE P == {s \in SUBSET S : s \subseteq T /\ s \subseteq U => g[s] = h[s]}
<1>1. ASSUME NEW s \in SUBSET S, \A r \in SUBSET s : r # s => r \in P,
             s \subseteq T, s \subseteq U
      PROVE  g[s] = h[s]
  <2>1. g[s] = SumStep(f, g, s)
    BY <1>1 DEF IsSum
  <2>2. h[s] = SumStep(f, h, s)
    BY <1>1 DEF IsSum
  <2>3. CASE s = {}
    BY <2>1, <2>2, <2>3 DEF SumStep
  <2>4. CASE s # {}
    <3> DEFINE x == CHOOSE x \in s : TRUE
    <3>1. x \in s
      BY <2>4
    <3>2. s \ {x} \in P
      BY <1>1, <3>1
    <3>3. g[s \ {x}] = h[s \ {x}]
      BY <1>1, <3>2
    <3> QED
      BY <2>1, <2>2, <2>4, <3>3 DEF SumStep
  <2> QED
    BY <2>3, <2>4
<1>2. \A s \in SUBSET S : (\A r \in SUBSET s : r # s => r \in P) => s \in P
  BY <1>1
<1>3. \A s \in SUBSET S : s \in P
  <2> HIDE DEF P
  <2> QED
    BY <1>2, SubsetInduction
<1> QED
  BY <1>3

\* There is a function that satisfies the equation, built from those of the parts.
LEMMA SumExists ==
    ASSUME NEW S, IsFiniteSet(S), NEW f
    PROVE  IsSum(f, SumOf(f, S), S)
<1> DEFINE P == {T \in SUBSET S : \E h : IsSum(f, h, T)}
<1>1. ASSUME NEW T \in SUBSET S, \A U \in SUBSET T : U # T => U \in P
      PROVE  \E h : IsSum(f, h, T)
  <2> DEFINE x == CHOOSE x \in T : TRUE
             part == [U \in SUBSET T |-> SumOf(f, U)[U]]
             h == [s \in SUBSET T |-> IF s # T THEN part[s]
                                      ELSE IF T = {} THEN 0 ELSE f[x] + part[T \ {x}]]
  <2>1. \A U \in SUBSET T : U # T => IsSum(f, SumOf(f, U), U)
    BY <1>1 DEF SumOf
  <2>2. ASSUME NEW s \in SUBSET T PROVE h[s] = SumStep(f, h, s)
    <3>1. CASE s = T
      <4>1. CASE T = {}
        BY <3>1, <4>1 DEF SumStep
      <4>2. CASE T # {}
        <5>1. x \in T /\ T \ {x} \in SUBSET T /\ T \ {x} # T
          BY <4>2
        <5>2. h[T \ {x}] = part[T \ {x}] /\ h[T] = f[x] + part[T \ {x}]
          BY <4>2, <5>1
        <5> HIDE DEF h, part
        <5> QED
          BY <3>1, <4>2, <5>2 DEF SumStep
      <4> QED
        BY <4>1, <4>2
    <3>2. CASE s # T
      <4> DEFINE y == CHOOSE y \in s : TRUE
                 r == s \ {y}
      <4>1. h[s] = part[s] /\ part[s] = SumOf(f, s)[s]
        BY <3>2
      <4>2. SumOf(f, s)[s] = SumStep(f, SumOf(f, s), s)
        BY <2>1, <3>2, ZenonT(60) DEF IsSum
      <4>3. CASE s = {}
        BY <4>1, <4>2, <4>3 DEF SumStep
      <4>4. CASE s # {}
        <5>1. y \in s /\ r \in SUBSET s /\ r # s /\ r \in SUBSET T /\ r # T
          BY <4>4
        <5>2. h[r] = SumOf(f, r)[r]
          BY <5>1
        <5>3. IsSum(f, SumOf(f, s), s) /\ IsSum(f, SumOf(f, r), r)
          BY <2>1, <3>2, <5>1
        <5>4. SumOf(f, s)[r] = SumOf(f, r)[r]
          BY <5>1, <5>3, SumUnique
        <5> HIDE DEF h, part
        <5> QED
          BY <4>1, <4>2, <4>4, <5>2, <5>4 DEF SumStep
      <4> QED
        BY <4>3, <4>4
    <3> QED
      BY <3>1, <3>2
  <2>3. h = [s \in SUBSET T |-> SumStep(f, h, s)]
    <3>1. h = [s \in SUBSET T |-> h[s]]
      OBVIOUS
    <3> HIDE DEF h
    <3> QED
      BY <2>2, <3>1, ZenonT(60)
  <2> HIDE DEF h
  <2> QED
    BY <2>3 DEF IsSum
<1>2. \A T \in SUBSET S : (\A U \in SUBSET T : U # T => U \in P) => T \in P
  BY <1>1
<1>3. S \in P
  <2> HIDE DEF P
  <2> QED
    BY <1>2, SubsetInduction
<1> QED
  BY <1>3 DEF SumOf

-----------------------------------------------------------------------------
(* What the invariants need of a sum *)

\* An empty sum is zero.
LEMMA SumEmpty == \A f : SumFunctionOnSet(f, {}) = 0
<1> SUFFICES ASSUME NEW f PROVE SumFunctionOnSet(f, {}) = 0
  OBVIOUS
<1>1. IsSum(f, SumOf(f, {}), {})
  BY FS_EmptySet, SumExists
<1>2. SumOf(f, {})[{}] = SumStep(f, SumOf(f, {}), {})
  BY <1>1 DEF IsSum
<1> QED
  BY <1>2, SumUnfold DEF SumStep

\* A sum takes out one element, the one CHOOSE picks.
LEMMA SumNonempty ==
    ASSUME NEW S, IsFiniteSet(S), S # {}, NEW f
    PROVE  \E x \in S : SumFunctionOnSet(f, S) = f[x] + SumFunctionOnSet(f, S \ {x})
<1> DEFINE x == CHOOSE x \in S : TRUE
           r == S \ {x}
<1>1. x \in S /\ r \in SUBSET S
  OBVIOUS
<1>2. IsFiniteSet(r)
  BY FS_RemoveElement, ZenonT(60)
<1>3. IsSum(f, SumOf(f, S), S) /\ IsSum(f, SumOf(f, r), r)
  BY <1>2, SumExists
<1>4. SumOf(f, S)[r] = SumOf(f, r)[r]
  BY <1>1, <1>3, SumUnique
<1>5. SumOf(f, S)[S] = SumStep(f, SumOf(f, S), S)
  BY <1>3 DEF IsSum
<1>6. SumOf(f, S)[S] = f[x] + SumOf(f, r)[r]
  BY <1>4, <1>5 DEF SumStep
<1> QED
  BY <1>1, <1>6, SumUnfold, ZenonT(60)

\* A sum of integers is an integer.
LEMMA SumType ==
    ASSUME NEW S, IsFiniteSet(S), NEW f, \A x \in S : f[x] \in Int
    PROVE  SumFunctionOnSet(f, S) \in Int
<1> DEFINE P == {T \in SUBSET S : SumFunctionOnSet(f, T) \in Int}
<1>1. ASSUME NEW T \in SUBSET S, \A U \in SUBSET T : U # T => U \in P
      PROVE  SumFunctionOnSet(f, T) \in Int
  <2>1. CASE T = {}
    BY <2>1, SumEmpty
  <2>2. CASE T # {}
    <3>1. IsFiniteSet(T)
      BY FS_Subset
    <3>2. PICK x \in T : SumFunctionOnSet(f, T) = f[x] + SumFunctionOnSet(f, T \ {x})
      BY <2>2, <3>1, SumNonempty
    <3>3. SumFunctionOnSet(f, T \ {x}) \in Int
      BY <1>1
    <3> QED
      BY <3>2, <3>3
  <2> QED
    BY <2>1, <2>2
<1>2. \A T \in SUBSET S : (\A U \in SUBSET T : U # T => U \in P) => T \in P
  BY <1>1
<1>3. S \in P
  <2> HIDE DEF P
  <2> QED
    BY <1>2, SubsetInduction
<1> QED
  BY <1>3

\* The order of the fold does not matter: any element can be taken out.
LEMMA SumRemove ==
    ASSUME NEW S, IsFiniteSet(S), NEW f, \A x \in S : f[x] \in Int, NEW e \in S
    PROVE  SumFunctionOnSet(f, S) = f[e] + SumFunctionOnSet(f, S \ {e})
<1> DEFINE P == {T \in SUBSET S : \A x \in T :
                   SumFunctionOnSet(f, T) = f[x] + SumFunctionOnSet(f, T \ {x})}
<1>1. ASSUME NEW T \in SUBSET S, \A U \in SUBSET T : U # T => U \in P, NEW x \in T
      PROVE  SumFunctionOnSet(f, T) = f[x] + SumFunctionOnSet(f, T \ {x})
  <2>1. IsFiniteSet(T)
    BY FS_Subset
  <2>2. PICK y \in T : SumFunctionOnSet(f, T) = f[y] + SumFunctionOnSet(f, T \ {y})
    BY <2>1, SumNonempty
  <2>3. CASE x = y
    BY <2>2, <2>3
  <2>4. CASE x # y
    <3> DEFINE r == (T \ {x}) \ {y}
    <3>1. T \ {x} \in P /\ T \ {y} \in P
      BY <1>1
    <3>2. SumFunctionOnSet(f, T \ {x}) = f[y] + SumFunctionOnSet(f, r)
      BY <2>4, <3>1
    <3>3. (T \ {y}) \ {x} = r
      OBVIOUS
    <3>4. SumFunctionOnSet(f, T \ {y}) = f[x] + SumFunctionOnSet(f, r)
      BY <2>4, <3>1, <3>3, ZenonT(60)
    <3>5. SumFunctionOnSet(f, r) \in Int
      <4>1. IsFiniteSet(r)
        BY FS_Subset
      <4> QED
        BY <4>1, SumType
    <3> HIDE DEF r
    <3> QED
      BY <2>2, <3>2, <3>4, <3>5
  <2> QED
    BY <2>3, <2>4
<1>2. \A T \in SUBSET S : (\A U \in SUBSET T : U # T => U \in P) => T \in P
  BY <1>1, ZenonT(60)
<1>3. S \in P
  <2> HIDE DEF P
  <2> QED
    BY <1>2, SubsetInduction
<1> QED
  BY <1>3

\* The sum of two functions is the sum of their sums.
LEMMA SumAdd ==
    ASSUME NEW S, IsFiniteSet(S), NEW f, NEW g, NEW h,
           \A x \in S : f[x] \in Int /\ g[x] \in Int /\ h[x] = f[x] + g[x]
    PROVE  SumFunctionOnSet(h, S) = SumFunctionOnSet(f, S) + SumFunctionOnSet(g, S)
<1> DEFINE P == {T \in SUBSET S : SumFunctionOnSet(h, T) = SumFunctionOnSet(f, T) + SumFunctionOnSet(g, T)}
<1>1. ASSUME NEW T \in SUBSET S, \A U \in SUBSET T : U # T => U \in P
      PROVE  SumFunctionOnSet(h, T) = SumFunctionOnSet(f, T) + SumFunctionOnSet(g, T)
  <2>1. CASE T = {}
    BY <2>1, SumEmpty
  <2>2. CASE T # {}
    <3>1. PICK x \in T : TRUE
      BY <2>2
    <3>2. IsFiniteSet(T) /\ IsFiniteSet(T \ {x})
      BY FS_Subset
    <3>3. /\ SumFunctionOnSet(f, T) = f[x] + SumFunctionOnSet(f, T \ {x})
          /\ SumFunctionOnSet(f, T \ {x}) \in Int /\ f[x] \in Int
      BY <3>2, SumRemove, SumType
    <3>4. /\ SumFunctionOnSet(g, T) = g[x] + SumFunctionOnSet(g, T \ {x})
          /\ SumFunctionOnSet(g, T \ {x}) \in Int /\ g[x] \in Int
      BY <3>2, SumRemove, SumType
    <3>5. /\ SumFunctionOnSet(h, T) = h[x] + SumFunctionOnSet(h, T \ {x})
          /\ SumFunctionOnSet(h, T \ {x}) \in Int /\ h[x] \in Int
      BY <3>2, SumRemove, SumType
    <3>6. SumFunctionOnSet(h, T \ {x}) = SumFunctionOnSet(f, T \ {x}) + SumFunctionOnSet(g, T \ {x})
      BY <1>1
    <3> QED
      BY <3>3, <3>4, <3>5, <3>6
  <2> QED
    BY <2>1, <2>2
<1>2. \A T \in SUBSET S : (\A U \in SUBSET T : U # T => U \in P) => T \in P
  BY <1>1
<1>3. S \in P
  <2> HIDE DEF P
  <2> QED
    BY <1>2, SubsetInduction, ZenonT(60)
<1> QED
  BY <1>3

\* A sum grows with its summands.
LEMMA SumMonotonic ==
    ASSUME NEW S, IsFiniteSet(S), NEW f, NEW g,
           \A x \in S : f[x] \in Int /\ g[x] \in Int /\ f[x] <= g[x]
    PROVE  SumFunctionOnSet(f, S) <= SumFunctionOnSet(g, S)
<1> DEFINE P == {T \in SUBSET S : SumFunctionOnSet(f, T) <= SumFunctionOnSet(g, T)}
<1>1. ASSUME NEW T \in SUBSET S, \A U \in SUBSET T : U # T => U \in P
      PROVE  SumFunctionOnSet(f, T) <= SumFunctionOnSet(g, T)
  <2>1. CASE T = {}
    BY <2>1, SumEmpty
  <2>2. CASE T # {}
    <3>1. PICK x \in T : TRUE
      BY <2>2
    <3>2. IsFiniteSet(T) /\ IsFiniteSet(T \ {x})
      BY FS_Subset
    <3>3. /\ SumFunctionOnSet(f, T) = f[x] + SumFunctionOnSet(f, T \ {x})
          /\ SumFunctionOnSet(f, T \ {x}) \in Int /\ f[x] \in Int
      BY <3>2, SumRemove, SumType
    <3>4. /\ SumFunctionOnSet(g, T) = g[x] + SumFunctionOnSet(g, T \ {x})
          /\ SumFunctionOnSet(g, T \ {x}) \in Int /\ g[x] \in Int
      BY <3>2, SumRemove, SumType
    <3>5. SumFunctionOnSet(f, T \ {x}) <= SumFunctionOnSet(g, T \ {x})
      BY <1>1
    <3> QED
      BY <3>3, <3>4, <3>5
  <2> QED
    BY <2>1, <2>2
<1>2. \A T \in SUBSET S : (\A U \in SUBSET T : U # T => U \in P) => T \in P
  BY <1>1
<1>3. S \in P
  <2> HIDE DEF P
  <2> QED
    BY <1>2, SubsetInduction
<1> QED
  BY <1>3

\* A sum of zeros is zero.
LEMMA SumZero ==
    ASSUME NEW S, IsFiniteSet(S), NEW f, \A x \in S : f[x] = 0
    PROVE  SumFunctionOnSet(f, S) = 0
<1> DEFINE P == {T \in SUBSET S : SumFunctionOnSet(f, T) = 0}
<1>1. ASSUME NEW T \in SUBSET S, \A U \in SUBSET T : U # T => U \in P
      PROVE  SumFunctionOnSet(f, T) = 0
  <2>1. CASE T = {}
    BY <2>1, SumEmpty
  <2>2. CASE T # {}
    <3>1. PICK x \in T : TRUE
      BY <2>2
    <3>2. IsFiniteSet(T) /\ IsFiniteSet(T \ {x})
      BY FS_Subset
    <3>3. /\ SumFunctionOnSet(f, T) = f[x] + SumFunctionOnSet(f, T \ {x})
          /\ SumFunctionOnSet(f, T \ {x}) \in Int /\ f[x] \in Int
      BY <3>2, SumRemove, SumType
    <3>4. SumFunctionOnSet(f, T \ {x}) = 0
      BY <1>1
    <3> QED
      BY <3>3, <3>4
  <2> QED
    BY <2>1, <2>2
<1>2. \A T \in SUBSET S : (\A U \in SUBSET T : U # T => U \in P) => T \in P
  BY <1>1
<1>3. S \in P
  <2> HIDE DEF P
  <2> QED
    BY <1>2, SubsetInduction, ZenonT(60)
<1> QED
  BY <1>3

\* The sum depends on the values at the indices only.
LEMMA SumSame ==
    ASSUME NEW S, IsFiniteSet(S), NEW f, NEW g, \A x \in S : f[x] \in Int /\ f[x] = g[x]
    PROVE  SumFunctionOnSet(f, S) = SumFunctionOnSet(g, S)
<1>1. /\ SumFunctionOnSet(f, S) <= SumFunctionOnSet(g, S)
      /\ SumFunctionOnSet(g, S) <= SumFunctionOnSet(f, S)
  BY SumMonotonic
<1>2. SumFunctionOnSet(f, S) \in Int /\ SumFunctionOnSet(g, S) \in Int
  BY SumType
<1> QED
  BY <1>1, <1>2

\* A sum of naturals is a natural, and no smaller than any of them.
LEMMA SumNat ==
    ASSUME NEW S, IsFiniteSet(S), NEW f, \A x \in S : f[x] \in Nat
    PROVE  /\ SumFunctionOnSet(f, S) \in Nat
           /\ \A x \in S : f[x] <= SumFunctionOnSet(f, S)
<1> DEFINE zero == [x \in S |-> 0]
<1>1. ASSUME NEW T \in SUBSET S PROVE SumFunctionOnSet(f, T) \in Nat
  <2>1. IsFiniteSet(T) /\ \A x \in T : f[x] \in Int /\ zero[x] = 0 /\ zero[x] <= f[x]
    BY FS_Subset
  <2>2. SumFunctionOnSet(zero, T) = 0
    BY <2>1, SumZero
  <2>3. SumFunctionOnSet(zero, T) <= SumFunctionOnSet(f, T)
    BY <2>1, SumMonotonic
  <2>4. SumFunctionOnSet(f, T) \in Int
    BY <2>1, SumType
  <2> QED
    BY <2>2, <2>3, <2>4
<1>2. ASSUME NEW x \in S PROVE f[x] <= SumFunctionOnSet(f, S)
  <2>1. SumFunctionOnSet(f, S) = f[x] + SumFunctionOnSet(f, S \ {x})
    BY SumRemove
  <2>2. SumFunctionOnSet(f, S \ {x}) \in Nat
    BY <1>1
  <2> QED
    BY <2>1, <2>2
<1> QED
  BY <1>1, <1>2

\* A sum of which one summand changes.
LEMMA SumUpdate ==
    ASSUME NEW S, IsFiniteSet(S), NEW f, NEW g, NEW e \in S,
           \A x \in S : f[x] \in Int /\ g[x] \in Int,
           \A x \in S \ {e} : f[x] = g[x]
    PROVE  SumFunctionOnSet(g, S) = SumFunctionOnSet(f, S) + g[e] - f[e]
<1>1. /\ SumFunctionOnSet(f, S) = f[e] + SumFunctionOnSet(f, S \ {e})
      /\ SumFunctionOnSet(g, S) = g[e] + SumFunctionOnSet(g, S \ {e})
  BY SumRemove
<1>2. IsFiniteSet(S \ {e})
  BY FS_RemoveElement
<1>3. SumFunctionOnSet(f, S \ {e}) = SumFunctionOnSet(g, S \ {e})
  BY <1>2, SumSame
<1>4. SumFunctionOnSet(f, S \ {e}) \in Int /\ SumFunctionOnSet(g, S \ {e}) \in Int
  BY <1>2, SumType
<1> QED
  BY <1>1, <1>3, <1>4

\* Summands that are zero can be left out.
LEMMA SumPart ==
    ASSUME NEW S, IsFiniteSet(S), NEW A \in SUBSET S, NEW f,
           \A x \in S : f[x] \in Int /\ (x \notin A => f[x] = 0)
    PROVE  SumFunctionOnSet(f, A) = SumFunctionOnSet(f, S)
<1> DEFINE P == {T \in SUBSET S : SumFunctionOnSet(f, T \cap A) = SumFunctionOnSet(f, T)}
<1>1. ASSUME NEW T \in SUBSET S, \A U \in SUBSET T : U # T => U \in P
      PROVE  SumFunctionOnSet(f, T \cap A) = SumFunctionOnSet(f, T)
  <2>1. CASE T = {}
    BY <2>1, SumEmpty
  <2>2. CASE T # {}
    <3>1. PICK x \in T : TRUE
      BY <2>2
    <3>2. IsFiniteSet(T) /\ IsFiniteSet(T \ {x})
      BY FS_Subset
    <3>3. SumFunctionOnSet(f, T) = f[x] + SumFunctionOnSet(f, T \ {x})
      BY <3>2, SumRemove
    <3>4. T \ {x} \in P /\ IsFiniteSet(T \cap A)
      BY <1>1, FS_Subset
    <3>5. SumFunctionOnSet(f, (T \ {x}) \cap A) = SumFunctionOnSet(f, T \ {x})
      BY <3>4
    <3>6. SumFunctionOnSet(f, T \ {x}) \in Int
      BY <3>2, SumType
    <3>7. CASE x \in A
      <4>1. SumFunctionOnSet(f, T \cap A) = f[x] + SumFunctionOnSet(f, (T \cap A) \ {x})
        BY <3>4, <3>7, SumRemove
      <4>2. (T \cap A) \ {x} = (T \ {x}) \cap A
        OBVIOUS
      <4> QED
        BY <3>3, <3>5, <4>1, <4>2
    <3>8. CASE x \notin A
      <4>1. T \cap A = (T \ {x}) \cap A /\ f[x] = 0
        BY <3>8
      <4>2. SumFunctionOnSet(f, T) = SumFunctionOnSet(f, T \ {x})
        BY <3>3, <3>6, <4>1
      <4>3. SumFunctionOnSet(f, T \cap A) = SumFunctionOnSet(f, (T \ {x}) \cap A)
        BY <4>1
      <4> QED
        BY <3>5, <4>2, <4>3
    <3> QED
      BY <3>7, <3>8
  <2> QED
    BY <2>1, <2>2
<1>2. \A T \in SUBSET S : (\A U \in SUBSET T : U # T => U \in P) => T \in P
  BY <1>1
<1>3. S \in P
  <2> HIDE DEF P
  <2> QED
    BY <1>2, SubsetInduction
<1>4. S \cap A = A
  OBVIOUS
<1> QED
  BY <1>3, <1>4
=============================================================================

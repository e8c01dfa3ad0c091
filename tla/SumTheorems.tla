---------------------------- MODULE SumTheorems -----------------------------
(***************************************************************************)
(* Facts about SumFunctionOnSet(f, S), the sum of f[x] for x in a finite   *)
(* set S, which the ledger of a wallet and the figures of an invoice are   *)
(* stated with: it exists, it can be taken apart at any element or along   *)
(* any subset, and a change of one element changes it by the difference.   *)
(*                                                                         *)
(* The community modules define the sum by recursion over the subsets of   *)
(* S.  Every fact follows from the next one by the same argument: a least  *)
(* subset for which it fails would have a smaller one (FiniteInduction).   *)
(***************************************************************************)
EXTENDS Functions, FiniteSetTheorems, TLAPS

Pick(s) == CHOOSE x \in s : TRUE

(* One level of the recursion: the sum over s, given g for smaller sets.   *)
Level(f, g, s) == IF s = {} THEN 0 ELSE f[Pick(s)] + g[s \ {Pick(s)}]
Defines(f, g, S) == g = [s \in SUBSET S |-> Level(f, g, s)]

LEMMA PickIn == ASSUME NEW S, S # {} PROVE Pick(S) \in S
  BY DEF Pick

(* Induction over the subsets of a finite set, A being those for which a   *)
(* fact is known to hold.                                                  *)
LEMMA FiniteInduction ==
  ASSUME NEW S, IsFiniteSet(S), NEW A,
         \A T \in SUBSET S : (\A t \in SUBSET T : t # T => t \in A) => T \in A
  PROVE  S \in A
<1> SUFFICES ASSUME S \notin A PROVE FALSE
  OBVIOUS
<1> DEFINE Bad == {T \in SUBSET S : T \notin A}
<1>1. IsWellFoundedOn(StrictSubsetOrdering(S), SUBSET S)
  <2>1. FiniteSubsetsOf(S) = SUBSET S
    BY FS_FiniteSubsetsOfFinite
  <2>2. IsWellFoundedOn(StrictSubsetOrdering(S), FiniteSubsetsOf(S))
    BY FS_StrictSubsetOrderingWellFounded
  <2> QED  BY <2>1, <2>2
<1>2. Bad \subseteq SUBSET S /\ Bad # {}
  OBVIOUS
<1> HIDE DEF Bad
<1>3. PICK T \in Bad : \A t \in Bad : ~ (<<t, T>> \in StrictSubsetOrdering(S))
  BY <1>1, <1>2, WFMin
<1>4. ASSUME NEW t \in SUBSET T, t # T PROVE t \in A
  <2>1. T \in SUBSET S /\ t \in SUBSET S
    BY <1>2
  <2>2. <<t, T>> \in StrictSubsetOrdering(S)
    BY <2>1, <1>4 DEF StrictSubsetOrdering
  <2> QED  BY <2>1, <2>2, <1>3 DEF Bad
<1>5. T \in SUBSET S /\ T \notin A
  BY DEF Bad
<1> QED  BY <1>4, <1>5

------------------------------------------------------------------------------
(* What the community modules' definition comes to.                        *)
LEMMA SumUnfold ==
  ASSUME NEW f, NEW S
  PROVE  SumFunctionOnSet(f, S) = (CHOOSE g : Defines(f, g, S))[S]
  BY DEF SumFunctionOnSet, FoldFunctionOnSet, MapThenFoldSet, Defines, Level, Pick

(* Two functions that the recursion defines agree where both are defined.  *)
LEMMA DefinesAgree ==
  ASSUME NEW f, NEW g, NEW h, NEW S, NEW T \in SUBSET S, IsFiniteSet(S),
         Defines(f, g, S), Defines(f, h, T)
  PROVE  g[T] = h[T]
<1> DEFINE A == {t \in SUBSET T : g[t] = h[t]}
<1>1. IsFiniteSet(T)
  BY FS_Subset
<1>2. ASSUME NEW t \in SUBSET T, \A u \in SUBSET t : u # t => u \in A
      PROVE  t \in A
  <2>1. /\ g[t] = Level(f, g, t)
        /\ h[t] = Level(f, h, t)
    BY DEF Defines
  <2>2. CASE t = {}
    BY <2>1, <2>2 DEF Level
  <2>3. CASE t # {}
    <3>1. Pick(t) \in t
      BY <2>3, PickIn
    <3>2. t \ {Pick(t)} \in A
      BY <3>1, <1>2
    <3> QED  BY <2>1, <2>3, <3>2 DEF Level
  <2> QED  BY <2>2, <2>3
<1> HIDE DEF A
<1>3. T \in A
  BY <1>1, <1>2, FiniteInduction
<1> QED  BY <1>3 DEF A

(* The recursion defines a function on the subsets of every finite set.    *)
LEMMA SumDefined ==
  ASSUME NEW f, NEW S, IsFiniteSet(S)
  PROVE  \E g : Defines(f, g, S)
<1> DEFINE A == {T \in SUBSET S : \E g : Defines(f, g, T)}
           w(t) == CHOOSE g : Defines(f, g, t)
<1>1. ASSUME NEW T \in SUBSET S, \A t \in SUBSET T : t # T => t \in A
      PROVE  T \in A
  <2> DEFINE below == [t \in SUBSET T |-> w(t)[t]]
             F == [t \in SUBSET T |-> IF t = T THEN Level(f, below, T) ELSE w(t)[t]]
  <2>1. \A t \in SUBSET T : t # T => Defines(f, w(t), t)
    BY <1>1
  <2> HIDE DEF w
  <2>2. ASSUME NEW t \in SUBSET T PROVE F[t] = Level(f, F, t)
    <3>1. CASE t = {}
      <4>1. CASE t = T
        BY <3>1, <4>1 DEF Level
      <4>2. CASE t # T
        <5>1. Defines(f, w(t), t)
          BY <2>1, <4>2
        <5>2. w(t)[t] = Level(f, w(t), t)
          BY <5>1 DEF Defines
        <5> QED  BY <5>2, <4>2, <3>1 DEF Level
      <4> QED  BY <4>1, <4>2
    <3>2. CASE t # {}
      <4> DEFINE u == t \ {Pick(t)}
      <4>1. u \in SUBSET t /\ u # t /\ u # T /\ u \in SUBSET T
        BY <3>2, PickIn
      <4>2. F[u] = w(u)[u]
        BY <4>1
      <4>3. CASE t = T
        <5>1. F[t] = Level(f, below, T) /\ below[u] = w(u)[u]
          BY <4>1, <4>3
        <5> QED  BY <5>1, <4>2, <4>3, <3>2 DEF Level
      <4>4. CASE t # T
        <5>1. Defines(f, w(t), t) /\ Defines(f, w(u), u)
          BY <2>1, <4>1, <4>4
        <5>2. IsFiniteSet(t)
          BY FS_Subset
        <5>3. w(t)[u] = w(u)[u]
          BY <5>1, <5>2, <4>1, DefinesAgree
        <5>4. w(t)[t] = Level(f, w(t), t)
          BY <5>1 DEF Defines
        <5> QED  BY <5>3, <5>4, <4>2, <4>4, <3>2 DEF Level
      <4> QED  BY <4>3, <4>4
    <3> QED  BY <3>1, <3>2
  <2>3. F = [t \in SUBSET T |-> F[t]]
    OBVIOUS
  <2> HIDE DEF F
  <2>4. Defines(f, F, T)
    BY <2>2, <2>3 DEF Defines
  <2> QED  BY <2>4
<1> HIDE DEF A, w
<1>2. S \in A
  BY <1>1, FiniteInduction
<1> QED  BY <1>2 DEF A

(* So the sum is what the recursion says.                                  *)
LEMMA SumLevel ==
  ASSUME NEW f, NEW S, IsFiniteSet(S)
  PROVE  SumFunctionOnSet(f, S) =
           IF S = {} THEN 0
           ELSE f[Pick(S)] + SumFunctionOnSet(f, S \ {Pick(S)})
<1> DEFINE g == CHOOSE g : Defines(f, g, S)
           T == S \ {Pick(S)}
           h == CHOOSE h : Defines(f, h, T)
<1>1. IsFiniteSet(T) /\ T \in SUBSET S
  BY FS_Subset
<1>2. Defines(f, g, S) /\ Defines(f, h, T)
  BY <1>1, SumDefined
<1>3. SumFunctionOnSet(f, S) = g[S] /\ SumFunctionOnSet(f, T) = h[T]
  BY SumUnfold
<1> HIDE DEF g, h
<1>4. g[S] = Level(f, g, S)
  BY <1>2 DEF Defines
<1>5. g[T] = h[T]
  BY <1>1, <1>2, DefinesAgree
<1> QED  BY <1>3, <1>4, <1>5 DEF Level

------------------------------------------------------------------------------
(* The sum over nothing is zero.                                           *)
THEOREM SumEmpty == ASSUME NEW f PROVE SumFunctionOnSet(f, {}) = 0
  BY SumLevel, FS_EmptySet

(* Two functions equal on the set have the same sum.                       *)
THEOREM SumEqual ==
  ASSUME NEW S, IsFiniteSet(S), NEW f, NEW g, \A x \in S : f[x] = g[x]
  PROVE  SumFunctionOnSet(f, S) = SumFunctionOnSet(g, S)
<1> DEFINE A == {T \in SUBSET S : SumFunctionOnSet(f, T) = SumFunctionOnSet(g, T)}
<1>1. ASSUME NEW T \in SUBSET S, \A t \in SUBSET T : t # T => t \in A
      PROVE  T \in A
  <2>1. IsFiniteSet(T)
    BY FS_Subset
  <2>2. CASE T = {}
    BY <2>2, SumEmpty
  <2>3. CASE T # {}
    <3>1. Pick(T) \in T
      BY <2>3, PickIn
    <3>2. T \ {Pick(T)} \in A
      BY <3>1, <1>1
    <3> QED  BY <2>1, <2>3, <3>1, <3>2, SumLevel
  <2> QED  BY <2>2, <2>3
<1> HIDE DEF A
<1>2. S \in A
  BY <1>1, FiniteInduction
<1> QED  BY <1>2 DEF A

(* A sum of zeros is zero.                                                 *)
THEOREM SumZero ==
  ASSUME NEW S, IsFiniteSet(S), NEW f, \A x \in S : f[x] = 0
  PROVE  SumFunctionOnSet(f, S) = 0
<1> DEFINE A == {T \in SUBSET S : SumFunctionOnSet(f, T) = 0}
<1>1. ASSUME NEW T \in SUBSET S, \A t \in SUBSET T : t # T => t \in A
      PROVE  T \in A
  <2>1. IsFiniteSet(T)
    BY FS_Subset
  <2>2. CASE T = {}
    BY <2>2, SumEmpty
  <2>3. CASE T # {}
    <3>1. Pick(T) \in T
      BY <2>3, PickIn
    <3>2. T \ {Pick(T)} \in A
      BY <3>1, <1>1
    <3> QED  BY <2>1, <2>3, <3>1, <3>2, SumLevel
  <2> QED  BY <2>2, <2>3
<1> HIDE DEF A
<1>2. S \in A
  BY <1>1, FiniteInduction
<1> QED  BY <1>2 DEF A

(* A sum of integers is one.                                               *)
THEOREM SumInt ==
  ASSUME NEW S, IsFiniteSet(S), NEW f, \A x \in S : f[x] \in Int
  PROVE  SumFunctionOnSet(f, S) \in Int
<1> DEFINE A == {T \in SUBSET S : SumFunctionOnSet(f, T) \in Int}
<1>1. ASSUME NEW T \in SUBSET S, \A t \in SUBSET T : t # T => t \in A
      PROVE  T \in A
  <2>1. IsFiniteSet(T)
    BY FS_Subset
  <2>2. CASE T = {}
    BY <2>2, SumEmpty
  <2>3. CASE T # {}
    <3>1. Pick(T) \in T
      BY <2>3, PickIn
    <3>2. T \ {Pick(T)} \in A
      BY <3>1, <1>1
    <3>3. f[Pick(T)] \in Int /\ SumFunctionOnSet(f, T \ {Pick(T)}) \in Int
      BY <3>1, <3>2
    <3> QED  BY <2>1, <2>3, <3>3, SumLevel
  <2> QED  BY <2>2, <2>3
<1> HIDE DEF A
<1>2. S \in A
  BY <1>1, FiniteInduction
<1> QED  BY <1>2 DEF A

(* The sum can be taken apart at any element.                              *)
THEOREM SumRemove ==
  ASSUME NEW S, IsFiniteSet(S), NEW f, \A z \in S : f[z] \in Int, NEW x \in S
  PROVE  SumFunctionOnSet(f, S) = f[x] + SumFunctionOnSet(f, S \ {x})
<1> DEFINE Sum(T) == SumFunctionOnSet(f, T)
           A == {T \in SUBSET S : \A y \in T : Sum(T) = f[y] + Sum(T \ {y})}
<1>1. ASSUME NEW T \in SUBSET S, \A t \in SUBSET T : t # T => t \in A
      PROVE  T \in A
  <2> SUFFICES ASSUME NEW y \in T PROVE Sum(T) = f[y] + Sum(T \ {y})
    OBVIOUS
  <2> DEFINE p == Pick(T)
             U == (T \ {p}) \ {y}
  <2>1. p \in T
    BY PickIn
  <2>2. IsFiniteSet(T) /\ IsFiniteSet(T \ {p}) /\ IsFiniteSet(T \ {y}) /\ IsFiniteSet(U)
    BY FS_Subset
  <2>3. Sum(T) = f[p] + Sum(T \ {p})
    BY <2>1, <2>2, SumLevel
  <2>4. CASE y = p
    BY <2>3, <2>4
  <2>5. CASE y # p
    <3>1. T \ {p} \in A /\ T \ {y} \in A /\ y \in T \ {p} /\ p \in T \ {y}
      BY <1>1, <2>1, <2>5
    <3>2. Sum(T \ {p}) = f[y] + Sum(U)
      BY <3>1
    <3>3. Sum(T \ {y}) = f[p] + Sum((T \ {y}) \ {p})
      BY <3>1
    <3>4. U = (T \ {y}) \ {p}
      OBVIOUS
    <3>5. f[p] \in Int /\ f[y] \in Int /\ Sum(U) \in Int
      BY <2>1, <2>2, SumInt
    <3> HIDE DEF Sum, U, p
    <3>6. Sum(T) = f[p] + (f[y] + Sum(U)) /\ Sum(T \ {y}) = f[p] + Sum(U)
      BY <2>3, <3>2, <3>3, <3>4
    <3> QED  BY <3>5, <3>6
  <2> QED  BY <2>4, <2>5
<1> HIDE DEF A
<1>2. S \in A
  BY <1>1, FiniteInduction
<1> QED  BY <1>2 DEF A

(* Changing the value of one element changes the sum by the difference.    *)
THEOREM SumUpdate ==
  ASSUME NEW S, IsFiniteSet(S), NEW f, NEW g, NEW x \in S,
         \A z \in S : f[z] \in Int /\ g[z] \in Int,
         \A z \in S \ {x} : g[z] = f[z]
  PROVE  SumFunctionOnSet(g, S) = SumFunctionOnSet(f, S) + (g[x] - f[x])
<1>1. IsFiniteSet(S \ {x})
  BY FS_Subset
<1>2. SumFunctionOnSet(g, S \ {x}) = SumFunctionOnSet(f, S \ {x})
  BY <1>1, SumEqual
<1>3. SumFunctionOnSet(f, S) = f[x] + SumFunctionOnSet(f, S \ {x})
  BY SumRemove
<1>4. SumFunctionOnSet(g, S) = g[x] + SumFunctionOnSet(g, S \ {x})
  BY SumRemove
<1>5. SumFunctionOnSet(f, S \ {x}) \in Int /\ f[x] \in Int /\ g[x] \in Int
  BY <1>1, SumInt
<1> QED  BY <1>2, <1>3, <1>4, <1>5

(* A sum of amounts none of which is negative is at least each of them.    *)
THEOREM SumAtLeast ==
  ASSUME NEW S, IsFiniteSet(S), NEW f, \A z \in S : f[z] \in Nat
  PROVE  /\ SumFunctionOnSet(f, S) \in Nat
         /\ \A x \in S : f[x] <= SumFunctionOnSet(f, S)
<1> DEFINE A == {T \in SUBSET S : SumFunctionOnSet(f, T) \in Nat}
<1>1. ASSUME NEW T \in SUBSET S, \A t \in SUBSET T : t # T => t \in A
      PROVE  T \in A
  <2>1. IsFiniteSet(T)
    BY FS_Subset
  <2>2. CASE T = {}
    BY <2>2, SumEmpty
  <2>3. CASE T # {}
    <3>1. Pick(T) \in T
      BY <2>3, PickIn
    <3>2. T \ {Pick(T)} \in A
      BY <3>1, <1>1
    <3>3. f[Pick(T)] \in Nat /\ SumFunctionOnSet(f, T \ {Pick(T)}) \in Nat
      BY <3>1, <3>2
    <3> QED  BY <2>1, <2>3, <3>3, SumLevel
  <2> QED  BY <2>2, <2>3
<1>2. ASSUME NEW T \in SUBSET S PROVE SumFunctionOnSet(f, T) \in Nat
  <2>1. IsFiniteSet(T) /\ \A U \in SUBSET T : (\A t \in SUBSET U : t # U => t \in A) => U \in A
    BY <1>1, FS_Subset
  <2> HIDE DEF A
  <2>2. T \in A
    BY <2>1, FiniteInduction
  <2> QED  BY <2>2 DEF A
<1>3. ASSUME NEW x \in S PROVE f[x] <= SumFunctionOnSet(f, S)
  <2>1. SumFunctionOnSet(f, S) = f[x] + SumFunctionOnSet(f, S \ {x})
    BY SumRemove
  <2>2. SumFunctionOnSet(f, S \ {x}) \in Nat /\ f[x] \in Nat
    BY <1>2
  <2> QED  BY <2>1, <2>2
<1> QED  BY <1>2, <1>3

(* A sum can be taken apart along a subset.                                *)
THEOREM SumSplit ==
  ASSUME NEW S, IsFiniteSet(S), NEW f, \A z \in S : f[z] \in Int, NEW T \in SUBSET S
  PROVE  SumFunctionOnSet(f, S) = SumFunctionOnSet(f, T) + SumFunctionOnSet(f, S \ T)
<1> DEFINE Total(U) == SumFunctionOnSet(f, U)
           A == {U \in SUBSET T : Total(S) = Total(U) + Total(S \ U)}
<1>0. \A U \in SUBSET S : IsFiniteSet(U) /\ Total(U) \in Int
  BY FS_Subset, SumInt
<1>1. ASSUME NEW U \in SUBSET T, \A u \in SUBSET U : u # U => u \in A
      PROVE  U \in A
  <2>1. CASE U = {}
    <3>1. Total(U) = 0 /\ Total(S) \in Int
      BY <1>0, <2>1, SumEmpty
    <3>2. S \ U = S
      BY <2>1
    <3>3. Total(S \ U) = Total(S)
      BY <3>2, Zenon
    <3> HIDE DEF Total
    <3> QED  BY <3>1, <3>3
  <2>2. CASE U # {}
    <3> DEFINE p == Pick(U)
               V == U \ {p}
    <3>1. p \in U
      BY <2>2, PickIn
    <3>2. V \in A /\ V \subseteq S /\ p \in S \ V
      BY <1>1, <3>1
    <3>3. Total(U) = f[p] + Total(V)
      BY <1>0, <3>1, SumRemove
    <3>4. Total(S \ V) = f[p] + Total(S \ U)
      <4>1. IsFiniteSet(S \ V) /\ \A z \in S \ V : f[z] \in Int
        BY <1>0
      <4>2. (S \ V) \ {p} = S \ U
        BY <3>1
      <4>3. Total((S \ V) \ {p}) = Total(S \ U)
        BY <4>2, Zenon
      <4> HIDE DEF p, V
      <4>4. Total(S \ V) = f[p] + Total((S \ V) \ {p})
        BY <3>2, <4>1, SumRemove
      <4> QED  BY <4>3, <4>4
    <3>5. Total(S) = Total(V) + Total(S \ V)
      BY <3>2
    <3>6. f[p] \in Int /\ Total(V) \in Int /\ Total(S \ U) \in Int
      BY <1>0, <3>1, <3>2
    <3> HIDE DEF Total, p, V
    <3> QED  BY <3>2, <3>3, <3>4, <3>5, <3>6
  <2> QED  BY <2>1, <2>2
<1>2. IsFiniteSet(T)
  BY <1>0
<1> HIDE DEF A
<1>3. T \in A
  BY <1>1, <1>2, FiniteInduction
<1> QED  BY <1>3 DEF A

(* A sum over more amounts, none of them negative, is not less.            *)
THEOREM SumMonotone ==
  ASSUME NEW S, IsFiniteSet(S), NEW f, \A z \in S : f[z] \in Nat, NEW T \in SUBSET S
  PROVE  SumFunctionOnSet(f, T) <= SumFunctionOnSet(f, S)
<1>1. SumFunctionOnSet(f, S) = SumFunctionOnSet(f, T) + SumFunctionOnSet(f, S \ T)
  BY SumSplit
<1>2. IsFiniteSet(T) /\ IsFiniteSet(S \ T)
  BY FS_Subset
<1>3. SumFunctionOnSet(f, T) \in Nat /\ SumFunctionOnSet(f, S \ T) \in Nat
  BY <1>2, SumAtLeast
<1> QED  BY <1>1, <1>3
=============================================================================

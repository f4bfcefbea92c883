------------------------------ MODULE SumTheorems ------------------------------
(***************************************************************************)
(* Sums over finite sets, SumFunctionOnSet of the module Functions, for    *)
(* the proofs about totals: what a sum is when an element is added,        *)
(* removed or changed, how two sums compare, and the two inductions these  *)
(* facts rest on, stated with a set of good values so that they follow     *)
(* from the well-foundedness theorems of the library.                      *)
(***************************************************************************)
EXTENDS FiniteSetTheorems, TLAPS

Below == {nn \in Nat \X Nat : nn[1] < nn[2]}

LEMMA BelowWellFounded == IsWellFoundedOn(Below, Nat)
  BY NatLessThanWellFounded DEF OpToRel, Below

\* A set of naturals that holds 0 and the successor of each member holds all.
LEMMA NatSets ==
    ASSUME NEW Good, 0 \in Good, \A n \in Nat : n \in Good => n + 1 \in Good
    PROVE  Nat \subseteq Good
<1> SUFFICES ASSUME Nat \ Good # {} PROVE FALSE
  OBVIOUS
<1>1. PICK n \in Nat \ Good : \A m \in Nat \ Good : ~(<<m, n>> \in Below)
  BY BelowWellFounded, WFMin
<1>2. n # 0 /\ n - 1 \in Nat /\ (n - 1) + 1 = n
  BY <1>1
<1>3. <<n - 1, n>> \in Below
  BY <1>2 DEF Below
<1> QED
  BY <1>1, <1>2, <1>3

\* A set that holds each subset of S whose subsets short of one element it
\* holds, the empty set among them, holds all subsets of S.
LEMMA SetInduction ==
    ASSUME NEW S, IsFiniteSet(S), NEW Good,
           \A T \in SUBSET S : (\A x \in T : T \ {x} \in Good) => T \in Good
    PROVE  SUBSET S \subseteq Good
<1> SUFFICES ASSUME (SUBSET S) \ Good # {} PROVE FALSE
  OBVIOUS
<1>1. IsWellFoundedOn(StrictSubsetOrdering(S), SUBSET S)
  <2>1. IsWellFoundedOn(StrictSubsetOrdering(S), FiniteSubsetsOf(S))
    BY FS_StrictSubsetOrderingWellFounded
  <2>2. FiniteSubsetsOf(S) = SUBSET S
    BY FS_FiniteSubsetsOfFinite
  <2> QED
    BY <2>1, <2>2
<1>2. PICK T \in (SUBSET S) \ Good :
        \A U \in (SUBSET S) \ Good : ~(<<U, T>> \in StrictSubsetOrdering(S))
  BY <1>1, WFMin
<1>3. ASSUME NEW x \in T
      PROVE  T \ {x} \in Good
  <2>1. <<T \ {x}, T>> \in StrictSubsetOrdering(S)
    BY DEF StrictSubsetOrdering
  <2> QED
    BY <1>2, <2>1
<1> QED
  BY <1>2, <1>3

--------------------------------------------------------------------------------
(* The sum is well defined *)

Some(s) == CHOOSE x \in s : TRUE
Summed(it, f, s) == IF s = {} THEN 0 ELSE f[Some(s)] + it[s \ {Some(s)}]
IsSum(it, f, S) == it = [s \in SUBSET S |-> Summed(it, f, s)]

\* The subsets of S with at most n elements, and the sums over them.
Layer(S, n) == {s \in SUBSET S : Cardinality(s) <= n}
SumsLayer(it, f, S, n) == it = [s \in Layer(S, n) |-> Summed(it, f, s)]

LEMMA SomeElement == ASSUME NEW s, s # {} PROVE Some(s) \in s
  BY DEF Some

LEMMA NextLayer ==
    ASSUME NEW S, IsFiniteSet(S), NEW f, NEW n \in Nat, NEW it, SumsLayer(it, f, S, n)
    PROVE  \E jt : SumsLayer(jt, f, S, n + 1)
<1> DEFINE jt == [s \in Layer(S, n + 1) |-> Summed(it, f, s)]
<1>1. ASSUME NEW s \in Layer(S, n + 1), s # {}
      PROVE  s \ {Some(s)} \in Layer(S, n)
  <2>1. IsFiniteSet(s) /\ Some(s) \in s /\ Cardinality(s) \in Nat /\ Cardinality(s) <= n + 1
    BY <1>1, FS_Subset, FS_CardinalityType, SomeElement DEF Layer
  <2>2. Cardinality(s \ {Some(s)}) = Cardinality(s) - 1
    BY <2>1, FS_RemoveElement
  <2> QED
    BY <2>1, <2>2 DEF Layer
<1>2. Layer(S, n) \subseteq Layer(S, n + 1)
  <2>1. ASSUME NEW s \in Layer(S, n)
        PROVE  s \in Layer(S, n + 1)
    <3>1. Cardinality(s) \in Nat
      BY FS_Subset, FS_CardinalityType DEF Layer
    <3> QED
      BY <3>1 DEF Layer
  <2> QED
    BY <2>1
<1>3. ASSUME NEW s \in Layer(S, n)
      PROVE  jt[s] = it[s]
  BY <1>2 DEF SumsLayer
<1>4. ASSUME NEW s \in Layer(S, n + 1)
      PROVE  Summed(it, f, s) = Summed(jt, f, s)
  BY <1>1, <1>3 DEF Summed
<1> QED
  BY <1>4 DEF SumsLayer

LEMMA SumsExist ==
    ASSUME NEW S, IsFiniteSet(S), NEW f
    PROVE  \E it : IsSum(it, f, S)
<1> DEFINE Good == {n \in Nat : \E it : SumsLayer(it, f, S, n)}
<1>1. 0 \in Good
  <2> DEFINE it == [s \in Layer(S, 0) |-> 0]
  <2>1. ASSUME NEW s \in Layer(S, 0)
        PROVE  s = {}
    <3>1. IsFiniteSet(s) /\ Cardinality(s) \in Nat /\ Cardinality(s) <= 0
      BY FS_Subset, FS_CardinalityType DEF Layer
    <3> QED
      BY <3>1, FS_EmptySet
  <2>2. SumsLayer(it, f, S, 0)
    BY <2>1 DEF SumsLayer, Summed
  <2> QED
    BY <2>2
<1>2. \A n \in Nat : n \in Good => n + 1 \in Good
  BY NextLayer
<1> HIDE DEF Good
<1>3. Cardinality(S) \in Good
  BY <1>1, <1>2, NatSets, FS_CardinalityType
<1>4. PICK it : SumsLayer(it, f, S, Cardinality(S))
  BY <1>3 DEF Good
<1>5. Layer(S, Cardinality(S)) = SUBSET S
  BY FS_Subset DEF Layer
<1> QED
  BY <1>4, <1>5 DEF SumsLayer, IsSum

LEMMA SumsAgree ==
    ASSUME NEW S, IsFiniteSet(S), NEW T \in SUBSET S, NEW f, NEW it, NEW jt,
           IsSum(it, f, S), IsSum(jt, f, T)
    PROVE  it[T] = jt[T]
<1> DEFINE Good == {s \in SUBSET T : it[s] = jt[s]}
<1>1. IsFiniteSet(T)
  BY FS_Subset
<1>2. ASSUME NEW s \in SUBSET T, \A x \in s : s \ {x} \in Good
      PROVE  s \in Good
  <2>1. it[s] = Summed(it, f, s) /\ jt[s] = Summed(jt, f, s)
    BY DEF IsSum
  <2> QED
    BY <1>2, <2>1, SomeElement DEF Summed
<1> HIDE DEF Good
<1>3. SUBSET T \subseteq Good
  BY <1>1, <1>2, SetInduction
<1> QED
  BY <1>3 DEF Good

LEMMA SumChosen ==
    ASSUME NEW S, IsFiniteSet(S), NEW f
    PROVE  \E it : IsSum(it, f, S) /\ SumFunctionOnSet(f, S) = it[S]
<1>1. SumFunctionOnSet(f, S) = (CHOOSE it : IsSum(it, f, S))[S]
  BY DEF SumFunctionOnSet, FoldFunctionOnSet, MapThenFoldSet, IsSum, Summed, Some
<1> QED
  BY <1>1, SumsExist

\* No summand: the sum is zero.
LEMMA SumEmpty == ASSUME NEW f PROVE SumFunctionOnSet(f, {}) = 0
  BY SumChosen, FS_EmptySet DEF IsSum, Summed

LEMMA SumFirst ==
    ASSUME NEW S, IsFiniteSet(S), S # {}, NEW f
    PROVE  SumFunctionOnSet(f, S) = f[Some(S)] + SumFunctionOnSet(f, S \ {Some(S)})
<1> DEFINE T == S \ {Some(S)}
<1>1. PICK it : IsSum(it, f, S) /\ SumFunctionOnSet(f, S) = it[S]
  BY SumChosen
<1>2. T \in SUBSET S /\ IsFiniteSet(T)
  BY FS_Subset
<1>3. PICK jt : IsSum(jt, f, T) /\ SumFunctionOnSet(f, T) = jt[T]
  BY <1>2, SumChosen
<1>4. it[T] = jt[T]
  BY <1>1, <1>2, <1>3, SumsAgree
<1>5. it[S] = f[Some(S)] + it[T]
  BY <1>1 DEF IsSum, Summed
<1> QED
  BY <1>1, <1>3, <1>4, <1>5

--------------------------------------------------------------------------------
(* What sums are *)

\* Integers add up to an integer.
LEMMA SumInt ==
    ASSUME NEW S, IsFiniteSet(S), NEW f, \A x \in S : f[x] \in Int
    PROVE  SumFunctionOnSet(f, S) \in Int
<1> DEFINE Good == {T \in SUBSET S : SumFunctionOnSet(f, T) \in Int}
<1>1. ASSUME NEW T \in SUBSET S, \A x \in T : T \ {x} \in Good
      PROVE  T \in Good
  <2>1. CASE T = {}
    BY <2>1, SumEmpty
  <2>2. CASE T # {}
    <3>1. Some(T) \in T /\ IsFiniteSet(T)
      BY <2>2, SomeElement, FS_Subset
    <3>2. SumFunctionOnSet(f, T) = f[Some(T)] + SumFunctionOnSet(f, T \ {Some(T)})
      BY <2>2, <3>1, SumFirst
    <3> QED
      BY <1>1, <3>1, <3>2
  <2> QED
    BY <2>1, <2>2
<1> HIDE DEF Good
<1>2. SUBSET S \subseteq Good
  BY <1>1, SetInduction
<1> QED
  BY <1>2 DEF Good

\* Any element may be taken out first.
LEMMA SumRemove ==
    ASSUME NEW S, IsFiniteSet(S), NEW f, \A x \in S : f[x] \in Int, NEW e \in S
    PROVE  SumFunctionOnSet(f, S) = f[e] + SumFunctionOnSet(f, S \ {e})
<1> DEFINE Sum(T) == SumFunctionOnSet(f, T)
           Good == {T \in SUBSET S : \A x \in T : Sum(T) = f[x] + Sum(T \ {x})}
<1>1. ASSUME NEW T \in SUBSET S, \A x \in T : T \ {x} \in Good, NEW x \in T
      PROVE  Sum(T) = f[x] + Sum(T \ {x})
  <2> DEFINE y == Some(T)
             rest == (T \ {x}) \ {y}
  <2>1. y \in T /\ IsFiniteSet(T) /\ IsFiniteSet(rest)
    BY SomeElement, FS_Subset
  <2>2. Sum(T) = f[y] + Sum(T \ {y})
    BY <2>1, SumFirst
  <2>3. CASE x # y
    <3>1. (T \ {y}) \ {x} = rest /\ x \in T \ {y} /\ y \in T \ {x}
      BY <2>1, <2>3
    <3>2. Sum(T \ {y}) = f[x] + Sum(rest) /\ Sum(T \ {x}) = f[y] + Sum(rest)
      BY <1>1, <2>1, <3>1
    <3>3. Sum(rest) \in Int /\ f[x] \in Int /\ f[y] \in Int
      BY <2>1, SumInt
    <3> HIDE DEF Sum, y, rest
    <3> QED
      BY <2>2, <3>2, <3>3
  <2> QED
    BY <2>2, <2>3
<1> HIDE DEF Sum
<1>2. \A T \in SUBSET S : (\A x \in T : T \ {x} \in Good) => T \in Good
  BY <1>1
<1> HIDE DEF Good
<1>3. S \in Good
  BY <1>2, SetInduction
<1> QED
  BY <1>3 DEF Good, Sum

\* Functions that agree on a set have the same sum over it.
LEMMA SumSame ==
    ASSUME NEW S, IsFiniteSet(S), NEW f, NEW g, \A x \in S : f[x] = g[x]
    PROVE  SumFunctionOnSet(f, S) = SumFunctionOnSet(g, S)
<1> DEFINE Good == {T \in SUBSET S : SumFunctionOnSet(f, T) = SumFunctionOnSet(g, T)}
<1>1. ASSUME NEW T \in SUBSET S, \A x \in T : T \ {x} \in Good
      PROVE  T \in Good
  <2>1. CASE T = {}
    BY <2>1, SumEmpty
  <2>2. CASE T # {}
    <3>1. Some(T) \in T /\ IsFiniteSet(T)
      BY <2>2, SomeElement, FS_Subset
    <3> QED
      BY <1>1, <2>2, <3>1, SumFirst
  <2> QED
    BY <2>1, <2>2
<1> HIDE DEF Good
<1>2. SUBSET S \subseteq Good
  BY <1>1, SetInduction
<1> QED
  BY <1>2 DEF Good

\* One element more.
LEMMA SumInsert ==
    ASSUME NEW S, IsFiniteSet(S), NEW f, NEW e, e \notin S,
           \A x \in S \cup {e} : f[x] \in Int
    PROVE  SumFunctionOnSet(f, S \cup {e}) = SumFunctionOnSet(f, S) + f[e]
<1>1. IsFiniteSet(S \cup {e}) /\ (S \cup {e}) \ {e} = S
  BY FS_AddElement
<1>2. SumFunctionOnSet(f, S \cup {e}) = f[e] + SumFunctionOnSet(f, S)
  BY <1>1, SumRemove
<1> QED
  BY <1>2, SumInt

\* One element changed.
LEMMA SumChange ==
    ASSUME NEW S, IsFiniteSet(S), NEW f, NEW g, NEW e \in S,
           \A x \in S : f[x] \in Int /\ g[x] \in Int,
           \A x \in S \ {e} : g[x] = f[x]
    PROVE  SumFunctionOnSet(g, S) = SumFunctionOnSet(f, S) + g[e] - f[e]
<1>1. IsFiniteSet(S \ {e})
  BY FS_Subset
<1>2. SumFunctionOnSet(g, S \ {e}) = SumFunctionOnSet(f, S \ {e})
  BY <1>1, SumSame
<1>3. SumFunctionOnSet(f, S \ {e}) \in Int
  BY <1>1, SumInt
<1>4. /\ SumFunctionOnSet(f, S) = f[e] + SumFunctionOnSet(f, S \ {e})
      /\ SumFunctionOnSet(g, S) = g[e] + SumFunctionOnSet(g, S \ {e})
  BY SumRemove
<1> QED
  BY <1>2, <1>3, <1>4

\* Smaller summands, smaller sum.
LEMMA SumOrder ==
    ASSUME NEW S, IsFiniteSet(S), NEW f, NEW g,
           \A x \in S : f[x] \in Int /\ g[x] \in Int /\ f[x] <= g[x]
    PROVE  SumFunctionOnSet(f, S) <= SumFunctionOnSet(g, S)
<1> DEFINE Good == {T \in SUBSET S : SumFunctionOnSet(f, T) <= SumFunctionOnSet(g, T)}
<1>1. ASSUME NEW T \in SUBSET S, \A x \in T : T \ {x} \in Good
      PROVE  T \in Good
  <2>1. CASE T = {}
    BY <2>1, SumEmpty
  <2>2. ASSUME NEW e \in T
        PROVE  T \in Good
    <3>1. IsFiniteSet(T) /\ IsFiniteSet(T \ {e})
      BY FS_Subset
    <3>2. /\ SumFunctionOnSet(f, T) = f[e] + SumFunctionOnSet(f, T \ {e})
          /\ SumFunctionOnSet(g, T) = g[e] + SumFunctionOnSet(g, T \ {e})
      BY <3>1, SumRemove
    <3>3. SumFunctionOnSet(f, T \ {e}) \in Int /\ SumFunctionOnSet(g, T \ {e}) \in Int
      BY <3>1, SumInt
    <3>4. SumFunctionOnSet(f, T \ {e}) <= SumFunctionOnSet(g, T \ {e})
      BY <1>1
    <3>5. f[e] \in Int /\ g[e] \in Int /\ f[e] <= g[e]
      BY <2>2
    <3>6. SumFunctionOnSet(f, T) <= SumFunctionOnSet(g, T)
      BY <3>2, <3>3, <3>4, <3>5
    <3> QED
      BY <3>6
  <2> QED
    BY <2>1, <2>2
<1> HIDE DEF Good
<1>2. SUBSET S \subseteq Good
  BY <1>1, SetInduction
<1> QED
  BY <1>2 DEF Good

\* Zeros add up to zero.
LEMMA SumZero ==
    ASSUME NEW S, IsFiniteSet(S), NEW f, \A x \in S : f[x] = 0
    PROVE  SumFunctionOnSet(f, S) = 0
<1> DEFINE Good == {T \in SUBSET S : SumFunctionOnSet(f, T) = 0}
<1>1. ASSUME NEW T \in SUBSET S, \A x \in T : T \ {x} \in Good
      PROVE  T \in Good
  <2>1. CASE T = {}
    BY <2>1, SumEmpty
  <2>2. CASE T # {}
    <3>1. Some(T) \in T /\ IsFiniteSet(T)
      BY <2>2, SomeElement, FS_Subset
    <3>2. SumFunctionOnSet(f, T) = f[Some(T)] + SumFunctionOnSet(f, T \ {Some(T)})
      BY <2>2, <3>1, SumFirst
    <3> QED
      BY <1>1, <3>1, <3>2
  <2> QED
    BY <2>1, <2>2
<1> HIDE DEF Good
<1>2. SUBSET S \subseteq Good
  BY <1>1, SetInduction
<1> QED
  BY <1>2 DEF Good

\* Natural numbers add up to a natural number.
LEMMA SumNat ==
    ASSUME NEW S, IsFiniteSet(S), NEW f, \A x \in S : f[x] \in Nat
    PROVE  SumFunctionOnSet(f, S) \in Nat
<1> DEFINE zero == [x \in S |-> 0]
<1>1. SumFunctionOnSet(f, S) \in Int
  BY SumInt
<1>2. SumFunctionOnSet(zero, S) = 0
  BY SumZero
<1>3. SumFunctionOnSet(zero, S) <= SumFunctionOnSet(f, S)
  BY SumOrder
<1> QED
  BY <1>1, <1>2, <1>3

\* Of natural numbers, no summand exceeds the sum.
LEMMA SumHolds ==
    ASSUME NEW S, IsFiniteSet(S), NEW f, \A x \in S : f[x] \in Nat, NEW e \in S
    PROVE  f[e] <= SumFunctionOnSet(f, S)
<1>1. IsFiniteSet(S \ {e})
  BY FS_Subset
<1>2. SumFunctionOnSet(f, S \ {e}) \in Nat
  BY <1>1, SumNat
<1>3. SumFunctionOnSet(f, S) = f[e] + SumFunctionOnSet(f, S \ {e})
  BY SumRemove
<1> QED
  BY <1>2, <1>3

\* A sum falls into the part on a subset and the part on the rest.
LEMMA SumSplit ==
    ASSUME NEW S, IsFiniteSet(S), NEW f, \A x \in S : f[x] \in Int, NEW T \in SUBSET S
    PROVE  SumFunctionOnSet(f, S) = SumFunctionOnSet(f, T) + SumFunctionOnSet(f, S \ T)
<1> DEFINE Sum(U) == SumFunctionOnSet(f, U)
           Good == {U \in SUBSET S : Sum(U) = Sum(U \cap T) + Sum(U \ T)}
<1>1. ASSUME NEW U \in SUBSET S, \A x \in U : U \ {x} \in Good
      PROVE  U \in Good
  <2>1. CASE U = {}
    <3>1. U \cap T = {} /\ U \ T = {} /\ Sum({}) = 0
      BY <2>1, SumEmpty
    <3> QED
      BY <2>1, <3>1
  <2>2. ASSUME U # {} PROVE U \in Good
    <3>1. PICK x \in U : TRUE
      BY <2>2
    <3> DEFINE A == U \cap T
               B == U \ T
               V == U \ {x}
    <3>2. /\ A \in SUBSET S /\ B \in SUBSET S /\ V \in SUBSET S
          /\ IsFiniteSet(U) /\ IsFiniteSet(A) /\ IsFiniteSet(B)
      BY FS_Subset
    <3>3. Sum(V) = Sum(V \cap T) + Sum(V \ T)
      BY <1>1
    <3>4. Sum(U) = f[x] + Sum(V)
      BY <3>2, SumRemove
    <3>5. \A W \in SUBSET S : Sum(W) \in Int
      <4>1. \A W \in SUBSET S : IsFiniteSet(W) /\ \A y \in W : f[y] \in Int
        BY FS_Subset
      <4> QED
        BY <4>1, SumInt
    <3>6. CASE x \in T
      <4>1. V \cap T = A \ {x} /\ V \ T = B /\ x \in A
        BY <3>6
      <4>2. Sum(A) = f[x] + Sum(A \ {x})
        BY <3>2, <4>1, SumRemove
      <4>3. f[x] \in Int /\ Sum(A \ {x}) \in Int /\ Sum(B) \in Int
        BY <3>2, <3>5
      <4>4. Sum(V) = Sum(A \ {x}) + Sum(B)
        BY <3>3, <4>1
      <4> DEFINE a == Sum(A \ {x})
                 b == Sum(B)
      <4>5. Sum(U) = f[x] + Sum(V) /\ Sum(V) = a + b /\ Sum(A) = f[x] + a
        BY <3>4, <4>2, <4>4
      <4> HIDE DEF a, b
      <4>6. f[x] \in Int /\ a \in Int /\ b \in Int
        BY <4>3 DEF a, b
      <4>7. Sum(U) = Sum(A) + b
        BY <4>5, <4>6
      <4>8. Sum(U) = Sum(A) + Sum(B)
        BY <4>2, <4>3, <4>5, <4>6, <4>7 DEF b
      <4> QED
        BY <4>8
    <3>7. CASE x \notin T
      <4>1. V \cap T = A /\ V \ T = B \ {x} /\ x \in B
        BY <3>7
      <4>2. Sum(B) = f[x] + Sum(B \ {x})
        BY <3>2, <4>1, SumRemove
      <4>3. f[x] \in Int /\ Sum(B \ {x}) \in Int /\ Sum(A) \in Int
        BY <3>2, <3>5
      <4>4. Sum(V) = Sum(A) + Sum(B \ {x})
        BY <3>3, <4>1
      <4> DEFINE a == Sum(B \ {x})
                 b == Sum(A)
      <4>5. Sum(U) = f[x] + Sum(V) /\ Sum(V) = b + a /\ Sum(B) = f[x] + a
        BY <3>4, <4>2, <4>4
      <4> HIDE DEF a, b
      <4>6. f[x] \in Int /\ a \in Int /\ b \in Int
        BY <4>3 DEF a, b
      <4>7. Sum(U) = Sum(B) + b
        BY <4>5, <4>6
      <4>8. Sum(U) = Sum(A) + Sum(B)
        BY <4>2, <4>3, <4>5, <4>6, <4>7 DEF b
      <4> QED
        BY <4>8
    <3> QED
      BY <3>6, <3>7
  <2> QED
    BY <2>1, <2>2
<1>2. SUBSET S \subseteq Good
  <2> HIDE DEF Good
  <2> QED
    BY <1>1, SetInduction
<1>3. S \cap T = T
  OBVIOUS
<1> QED
  BY <1>2, <1>3

LEMMA Distribute ==
    ASSUME NEW k \in Int, NEW x \in Int, NEW y \in Int
    PROVE  k * (x + y) = k * x + k * y /\ k * x \in Int
  OBVIOUS

\* One step of the sum below, on numbers.
LEMMA WeightedTurn ==
    ASSUME NEW k \in Int, NEW m \in Int, NEW lo \in Int, NEW hi \in Int,
           NEW f1 \in Int, NEW g1 \in Int, NEW fs \in Int, NEW gs \in Int, NEW n \in Int,
           lo <= k * f1 - m * g1, k * f1 - m * g1 <= hi,
           n * lo <= k * fs - m * gs, k * fs - m * gs <= n * hi
    PROVE  /\ (n + 1) * lo <= k * (f1 + fs) - m * (g1 + gs)
           /\ k * (f1 + fs) - m * (g1 + gs) <= (n + 1) * hi
<1>1. k * (f1 + fs) = k * f1 + k * fs /\ m * (g1 + gs) = m * g1 + m * gs
  BY Distribute
<1>2. (n + 1) * lo = n * lo + lo /\ (n + 1) * hi = n * hi + hi
  OBVIOUS
<1> DEFINE kf == k * f1
           ks == k * fs
           mg == m * g1
           ms == m * gs
           nl == n * lo
           nh == n * hi
<1>3. kf \in Int /\ ks \in Int /\ mg \in Int /\ ms \in Int /\ nl \in Int /\ nh \in Int
  OBVIOUS
<1>4. lo <= kf - mg /\ kf - mg <= hi /\ nl <= ks - ms /\ ks - ms <= nh
  OBVIOUS
<1>5. nl + lo <= kf + ks - (mg + ms) /\ kf + ks - (mg + ms) <= nh + hi
  <2> HIDE DEF kf, ks, mg, ms, nl, nh
  <2> QED
    BY <1>3, <1>4
<1> QED
  BY <1>1, <1>2, <1>5

\* What lies between bounds for each element adds up to that many times them.
LEMMA SumWeighted ==
    ASSUME NEW S, IsFiniteSet(S), NEW f, NEW g, NEW k \in Int, NEW m \in Int,
           NEW lo \in Int, NEW hi \in Int, \A x \in S : f[x] \in Int /\ g[x] \in Int,
           \A x \in S : lo <= k * f[x] - m * g[x] /\ k * f[x] - m * g[x] <= hi
    PROVE  LET sum == k * SumFunctionOnSet(f, S) - m * SumFunctionOnSet(g, S)
           IN  Cardinality(S) * lo <= sum /\ sum <= Cardinality(S) * hi
<1> DEFINE Sum(T) == k * SumFunctionOnSet(f, T) - m * SumFunctionOnSet(g, T)
           Good == {T \in SUBSET S : Cardinality(T) * lo <= Sum(T) /\ Sum(T) <= Cardinality(T) * hi}
<1>1. ASSUME NEW T \in SUBSET S, \A x \in T : T \ {x} \in Good
      PROVE  T \in Good
  <2>1. CASE T = {}
    <3>1. SumFunctionOnSet(f, T) = 0 /\ SumFunctionOnSet(g, T) = 0 /\ Cardinality(T) = 0
      BY <2>1, SumEmpty, FS_EmptySet
    <3>2. Sum(T) = 0
      BY <3>1
    <3> QED
      BY <3>1, <3>2
  <2>2. CASE T # {}
    <3> DEFINE x == Some(T)
               n == Cardinality(T \ {x})
               fs == SumFunctionOnSet(f, T \ {x})
               gs == SumFunctionOnSet(g, T \ {x})
    <3>1. x \in T /\ x \in S /\ IsFiniteSet(T) /\ IsFiniteSet(T \ {x})
      BY <2>2, SomeElement, FS_Subset
    <3>2. /\ SumFunctionOnSet(f, T) = f[x] + fs /\ SumFunctionOnSet(g, T) = g[x] + gs
      BY <2>2, <3>1, SumFirst
    <3>3. n \in Nat /\ Cardinality(T) = n + 1
      <4>1. Cardinality(T) \in Nat /\ n = Cardinality(T) - 1
        BY <3>1, FS_RemoveElement, FS_CardinalityType
      <4>2. n \in Nat
        BY <3>1, FS_CardinalityType
      <4> HIDE DEF n
      <4> QED
        BY <4>1, <4>2
    <3>4. fs \in Int /\ gs \in Int /\ f[x] \in Int /\ g[x] \in Int
      BY <3>1, SumInt
    <3>5. /\ n * lo <= k * fs - m * gs /\ k * fs - m * gs <= n * hi
      BY <1>1, <3>1
    <3>6. lo <= k * f[x] - m * g[x] /\ k * f[x] - m * g[x] <= hi
      BY <3>1
    <3>7. /\ (n + 1) * lo <= k * (f[x] + fs) - m * (g[x] + gs)
          /\ k * (f[x] + fs) - m * (g[x] + gs) <= (n + 1) * hi
      <4> HIDE DEF n, fs, gs, x
      <4> QED
        BY <3>3, <3>4, <3>5, <3>6, WeightedTurn
    <3> QED
      BY <3>2, <3>3, <3>7
  <2> QED
    BY <2>1, <2>2
<1>2. SUBSET S \subseteq Good
  <2> HIDE DEF Good
  <2> QED
    BY <1>1, SetInduction
<1>3. S \in Good
  BY <1>2
<1> QED
  BY <1>3

--------------------------------------------------------------------------------
(* Counting *)

\* Sets that differ in one element at most.
LEMMA CountTurn ==
    ASSUME NEW A, IsFiniteSet(A), NEW B, NEW e, B \ {e} = A \ {e}
    PROVE  /\ IsFiniteSet(B) /\ Cardinality(A) \in Nat /\ Cardinality(B) \in Nat
           /\ Cardinality(B) <= Cardinality(A) + 1
           /\ (e \in B => e \in A) => Cardinality(B) <= Cardinality(A)
           /\ (e \notin B /\ e \in A) => Cardinality(B) = Cardinality(A) - 1
           /\ (e \in B /\ e \notin A) => Cardinality(B) = Cardinality(A) + 1
<1> DEFINE rest == A \ {e}
<1>1. IsFiniteSet(rest) /\ Cardinality(A) \in Nat /\ Cardinality(rest) \in Nat
  BY FS_Subset, FS_CardinalityType
<1>2. Cardinality(rest) = IF e \in A THEN Cardinality(A) - 1 ELSE Cardinality(A)
  BY FS_RemoveElement
<1>3. IsFiniteSet(rest \cup {e}) /\ Cardinality(rest \cup {e}) = Cardinality(rest) + 1
  BY <1>1, FS_AddElement
<1>4. e \in B => B = rest \cup {e}
  OBVIOUS
<1>5. e \notin B => B = rest
  OBVIOUS
<1> HIDE DEF rest
<1>6. CASE e \in B
  <2>1. IsFiniteSet(B) /\ Cardinality(B) = Cardinality(rest) + 1
    BY <1>3, <1>4, <1>6
  <2> QED
    BY <1>1, <1>2, <1>6, <2>1
<1>7. CASE e \notin B
  <2>1. IsFiniteSet(B) /\ Cardinality(B) = Cardinality(rest)
    BY <1>1, <1>5, <1>7
  <2> QED
    BY <1>1, <1>2, <1>7, <2>1
<1> QED
  BY <1>6, <1>7

================================================================================

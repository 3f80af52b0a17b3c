----------------------------- MODULE FoldLemmas -----------------------------
(***************************************************************************)
(* Induction over finite sets, that a fold over a finite set is what its   *)
(* recursive definition says, and the laws of sums.                        *)
(*                                                                         *)
(* The induction principles take a set (of the numbers, or of the subsets, *)
(* for which the claim holds) where those of the library take an operator, *)
(* which the provers cannot instantiate.  They rest on the least element   *)
(* of a set of numbers.                                                    *)
(***************************************************************************)
EXTENDS Functions, FiniteSetsExt, FiniteSetTheorems, WellFoundedInduction, TLAPS

\* Every set of numbers has a least element.
LEMMA LeastElement ==
  ASSUME NEW T, T \subseteq Nat, T # {}
  PROVE  \E n \in T : \A m \in T : n <= m
<1> DEFINE R == OpToRel(<, Nat)
<1>1. IsWellFoundedOn(R, Nat)
  BY NatLessThanWellFounded
<1> HIDE DEF R
<1>2. \E x \in T : \A y \in T : ~ (<<y, x>> \in R)
  BY <1>1, WFMin
<1>3. \A x, y \in T : <<y, x>> \in R <=> y < x
  BY DEF R, OpToRel
<1>4. PICK n \in T : \A m \in T : ~ (m < n)
  BY <1>2, <1>3
<1>5. \A m \in T : n \in Nat /\ m \in Nat
  OBVIOUS
<1> QED
  BY <1>4, <1>5

\* Induction over the natural numbers.
LEMMA NumberInduction ==
  ASSUME NEW Good \in SUBSET Nat, 0 \in Good, \A n \in Good : n + 1 \in Good
  PROVE  Good = Nat
<1> SUFFICES ASSUME Nat \ Good # {} PROVE FALSE
  OBVIOUS
<1>1. PICK n \in Nat \ Good : \A m \in Nat \ Good : n <= m
  BY LeastElement
<1>2. n # 0
  OBVIOUS
<1>3. n - 1 \in Nat /\ n - 1 \notin Nat \ Good
  BY <1>1, <1>2
<1>4. n - 1 \in Good
  BY <1>3
<1>5. (n - 1) + 1 = n
  OBVIOUS
<1> QED
  BY <1>4, <1>5

\* Induction over the subsets of a finite set.
LEMMA SubsetInduction ==
  ASSUME NEW D, IsFiniteSet(D), NEW Good \in SUBSET SUBSET D,
         ASSUME NEW s \in SUBSET D, \A x \in s : s \ {x} \in Good
         PROVE  s \in Good
  PROVE  Good = SUBSET D
<1> DEFINE Bad == (SUBSET D) \ Good
           Sizes == {Cardinality(s) : s \in Bad}
<1> SUFFICES ASSUME Bad # {} PROVE FALSE
  OBVIOUS
<1>1. \A s \in SUBSET D : IsFiniteSet(s) /\ Cardinality(s) \in Nat
  BY FS_Subset, FS_CardinalityType
<1>2. Sizes # {} /\ Sizes \subseteq Nat
  BY <1>1
<1>3. PICK n \in Sizes : \A m \in Sizes : n <= m
  BY <1>2, LeastElement
<1>4. PICK s \in Bad : Cardinality(s) = n
  BY <1>3
<1>5. ASSUME NEW x \in s
      PROVE  s \ {x} \in Good
  <2>1. Cardinality(s \ {x}) = n - 1 /\ n \in Nat
    BY <1>1, <1>4, FS_RemoveElement
  <2>2. n - 1 \notin Sizes
    BY <1>3, <2>1
  <2> QED
    BY <1>4, <2>1, <2>2
<1> QED
  BY <1>4, <1>5

\* Every finite set of numbers has a greatest element.
LEMMA GreatestElement ==
  ASSUME NEW T, T \subseteq Nat, IsFiniteSet(T), T # {}
  PROVE  \E m \in T : \A n \in T : n <= m
<1> DEFINE Good == {s \in SUBSET T : s = {} \/ \E m \in s : \A n \in s : n <= m}
<1>1. ASSUME NEW s \in SUBSET T, \A x \in s : s \ {x} \in Good
      PROVE  s \in Good
  <2>1. CASE \E x \in s : s \ {x} # {}
    <3>1. PICK x \in s : s \ {x} # {}
      BY <2>1
    <3>2. PICK m \in s \ {x} : \A n \in s \ {x} : n <= m
      BY <1>1, <3>1
    <3>3. x \in Nat /\ \A n \in s : n \in Nat
      OBVIOUS
    <3>4. (\A n \in s : n <= m) \/ (\A n \in s : n <= x)
      BY <3>2, <3>3
    <3> QED
      BY <3>2, <3>4
  <2>2. CASE \A x \in s : s \ {x} = {}
    <3>1. \A x, n \in s : n = x
      BY <2>2
    <3> QED
      BY <3>1
  <2> QED
    BY <2>1, <2>2
<1> HIDE DEF Good
<1>2. Good \in SUBSET SUBSET T
  BY DEF Good
<1>3. Good = SUBSET T
  BY <1>1, <1>2, SubsetInduction
<1>4. T \in Good
  BY <1>3
<1> QED
  BY <1>4 DEF Good

-----------------------------------------------------------------------------
(* Folds: pick chooses an element of a set, step[x] adds it to the result. *)

Picks(pick, D) == pick \in [(SUBSET D) \ {{}} -> D] /\ \A s \in (SUBSET D) \ {{}} : pick[s] \in s

\* The equation of a fold, for the subset s of D.
Folds(g, base, pick, step, s) ==
  g[s] = IF s = {} THEN base ELSE step[pick[s]][g[s \ {pick[s]}]]

AllFold(g, D, base, pick, step) == \A s \in SUBSET D : Folds(g, base, pick, step, s)

Steps(step, D, V) == step \in [D -> [V -> V]]

HasFold(D, V, base, pick, step) ==
  \E g \in [SUBSET D -> V] : AllFold(g, D, base, pick, step)

\* There is such a fold.
LEMMA FoldExists ==
  ASSUME NEW D, IsFiniteSet(D), NEW V, NEW base \in V,
         NEW pick, Picks(pick, D), NEW step, Steps(step, D, V)
  PROVE  HasFold(D, V, base, pick, step)
<1> DEFINE UpTo(g, n) ==
             \A s \in SUBSET D : Cardinality(s) <= n => Folds(g, base, pick, step, s)
           Good == {n \in Nat : \E g \in [SUBSET D -> V] : UpTo(g, n)}
<1>1. \A s \in SUBSET D : IsFiniteSet(s) /\ Cardinality(s) \in Nat
  BY FS_Subset, FS_CardinalityType
<1>2. \A s \in SUBSET D : Cardinality(s) = 0 <=> s = {}
  BY <1>1, FS_EmptySet
<1>3. \A s \in (SUBSET D) \ {{}} :
        /\ pick[s] \in s
        /\ s \ {pick[s]} \in SUBSET D
        /\ Cardinality(s \ {pick[s]}) = Cardinality(s) - 1
  BY <1>1, FS_RemoveElement DEF Picks
<1>4. 0 \in Good
  <2> DEFINE g == [s \in SUBSET D |-> base]
  <2>1. UpTo(g, 0)
    BY <1>1, <1>2 DEF Folds
  <2>2. g \in [SUBSET D -> V]
    OBVIOUS
  <2> QED
    BY <2>1, <2>2
<1>5. ASSUME NEW n \in Good
      PROVE  n + 1 \in Good
  <2>1. PICK g \in [SUBSET D -> V] : UpTo(g, n)
    OBVIOUS
  <2> DEFINE h == [s \in SUBSET D |->
                     IF s = {} THEN base ELSE step[pick[s]][g[s \ {pick[s]}]]]
  <2>2. h \in [SUBSET D -> V]
    <3>1. ASSUME NEW s \in (SUBSET D) \ {{}}
          PROVE  step[pick[s]][g[s \ {pick[s]}]] \in V
      <4>1. pick[s] \in D /\ g[s \ {pick[s]}] \in V
        BY <1>3
      <4>2. step[pick[s]] \in [V -> V]
        BY <4>1 DEF Steps
      <4> QED
        BY <4>1, <4>2
    <3> QED
      BY <3>1
  <2>3. ASSUME NEW s \in SUBSET D, Cardinality(s) <= n
        PROVE  h[s] = g[s]
    BY <2>1, <2>3 DEF Folds
  <2>4. ASSUME NEW s \in SUBSET D, Cardinality(s) <= n + 1
        PROVE  Folds(h, base, pick, step, s)
    <3>1. CASE s = {}
      BY <3>1 DEF Folds
    <3>2. CASE s # {}
      <4>1. Cardinality(s \ {pick[s]}) <= n /\ s \ {pick[s]} \in SUBSET D
        BY <1>1, <1>3, <2>4, <3>2
      <4>2. h[s \ {pick[s]}] = g[s \ {pick[s]}]
        BY <2>3, <4>1
      <4>3. h[s] = step[pick[s]][g[s \ {pick[s]}]]
        BY <3>2
      <4> QED
        BY <3>2, <4>2, <4>3 DEF Folds
    <3> QED
      BY <3>1, <3>2
  <2> HIDE DEF h
  <2>5. UpTo(h, n + 1)
    BY <2>4
  <2> QED
    BY <2>2, <2>5
<1>6. Good = Nat
  <2> HIDE DEF Good
  <2>1. Good \subseteq Nat
    BY DEF Good
  <2> QED
    BY <1>4, <1>5, <2>1, NumberInduction
<1>7. Cardinality(D) \in Good
  BY <1>1, <1>6
<1>8. PICK g \in [SUBSET D -> V] : UpTo(g, Cardinality(D))
  BY <1>7
<1>9. \A s \in SUBSET D : Cardinality(s) <= Cardinality(D)
  BY FS_Subset
<1>10. AllFold(g, D, base, pick, step)
  BY <1>8, <1>9 DEF AllFold
<1> QED
  BY <1>10 DEF HasFold

-----------------------------------------------------------------------------
(* Folds of sequences: the element chosen is the last one, so that the     *)
(* fold over 1 .. N goes through its prefixes.                             *)

Latest(pick, N) ==
  /\ Picks(pick, 1 .. N)
  /\ \A s \in (SUBSET (1 .. N)) \ {{}} : \A n \in s : n <= pick[s]

\* The last element of every set of indices can be picked.
LEMMA LatestExists ==
  ASSUME NEW N \in Nat, NEW pick,
         pick = [s \in (SUBSET (1 .. N)) \ {{}} |-> CHOOSE x \in s : \A y \in s : x >= y]
  PROVE  Latest(pick, N)
<1>1. ASSUME NEW s \in (SUBSET (1 .. N)) \ {{}}
      PROVE  pick[s] \in s /\ \A n \in s : n <= pick[s]
  <2>1. s \subseteq Nat /\ IsFiniteSet(s)
    <3>1. IsFiniteSet(1 .. N)
      BY FS_Interval
    <3>2. s \in SUBSET (1 .. N)
      OBVIOUS
    <3>3. IsFiniteSet(s)
      BY <3>1, <3>2, FS_Subset
    <3> QED
      BY <3>2, <3>3
  <2>2. PICK m \in s : \A n \in s : n <= m
    BY <2>1, GreatestElement
  <2>3. \A n \in s : m >= n
    BY <2>1, <2>2
  <2>4. pick[s] \in s /\ \A n \in s : pick[s] >= n
    BY <2>3
  <2> QED
    BY <2>1, <2>4
<1> QED
  BY <1>1 DEF Latest, Picks

\* The last element of a prefix is its length.
LEMMA LatestOfPrefix ==
  ASSUME NEW N \in Nat, NEW pick, Latest(pick, N), NEW n \in 1 .. N
  PROVE  /\ (1 .. n) \in (SUBSET (1 .. N)) \ {{}}
         /\ pick[1 .. n] = n
         /\ (1 .. n) \ {n} = 1 .. (n - 1)
<1>1. (1 .. n) \in (SUBSET (1 .. N)) \ {{}} /\ n \in 1 .. n
  OBVIOUS
<1>2. pick[1 .. n] \in 1 .. n /\ n <= pick[1 .. n]
  BY <1>1 DEF Latest, Picks
<1>3. pick[1 .. n] = n
  BY <1>2
<1>4. (1 .. n) \ {n} = 1 .. (n - 1)
  OBVIOUS
<1> QED
  BY <1>1, <1>3, <1>4

\* There is a fold over 1 .. N that chooses the last element first.
LEMMA LatestFold ==
  ASSUME NEW N \in Nat, NEW V, NEW base \in V, NEW pick, Latest(pick, N),
         NEW step, Steps(step, 1 .. N, V)
  PROVE  HasFold(1 .. N, V, base, pick, step)
<1>1. IsFiniteSet(1 .. N)
  BY FS_Interval
<1> QED
  BY <1>1, FoldExists DEF Latest

-----------------------------------------------------------------------------
(* What FoldLeft goes through, for the folds over rules and over redactors. *)

FoldsLeft(N, S, base, step) ==
  \E g \in [SUBSET (1 .. N) -> S] :
    /\ g[{}] = base
    /\ \A s \in (SUBSET (1 .. N)) \ {{}} :
         Max(s) \in 1 .. N /\ g[s \ {Max(s)}] \in S /\ g[s] = step[Max(s)][g[s \ {Max(s)}]]

LEMMA LeftFold ==
  ASSUME NEW N \in Nat, NEW S, NEW base \in S, NEW step, Steps(step, 1 .. N, S)
  PROVE  FoldsLeft(N, S, base, step)
<1>1. PICK pick : pick = [s \in (SUBSET (1 .. N)) \ {{}} |-> CHOOSE x \in s : \A y \in s : x >= y]
  OBVIOUS
<1>2. \A s \in (SUBSET (1 .. N)) \ {{}} : pick[s] = Max(s)
  BY <1>1 DEF Max
<1>3. Latest(pick, N)
  BY <1>1, LatestExists
<1>4. PICK g \in [SUBSET (1 .. N) -> S] : AllFold(g, 1 .. N, base, pick, step)
  BY <1>3, LatestFold DEF HasFold
<1>5. ASSUME NEW s \in (SUBSET (1 .. N)) \ {{}}
      PROVE  Max(s) \in 1 .. N /\ g[s \ {Max(s)}] \in S /\ g[s] = step[Max(s)][g[s \ {Max(s)}]]
  <2>1. pick[s] \in s
    BY <1>3 DEF Latest, Picks
  <2> QED
    BY <1>2, <1>4, <2>1 DEF AllFold, Folds
<1>6. g[{}] = base
  BY <1>4 DEF AllFold, Folds
<1> QED
  BY <1>5, <1>6 DEF FoldsLeft

LEMMA MaxOfPrefix ==
  ASSUME NEW N \in Nat, NEW n \in 1 .. N
  PROVE  /\ (1 .. n) \in (SUBSET (1 .. N)) \ {{}}
         /\ Max(1 .. n) = n
         /\ (1 .. n) \ {n} = 1 .. (n - 1)
         /\ n \in 0 .. N /\ n - 1 \in 0 .. N
<1>1. PICK pick : pick = [s \in (SUBSET (1 .. N)) \ {{}} |-> CHOOSE x \in s : \A y \in s : x >= y]
  OBVIOUS
<1>2. \A s \in (SUBSET (1 .. N)) \ {{}} : pick[s] = Max(s)
  BY <1>1 DEF Max
<1>3. Latest(pick, N)
  BY <1>1, LatestExists
<1>4. /\ (1 .. n) \in (SUBSET (1 .. N)) \ {{}}
      /\ pick[1 .. n] = n
      /\ (1 .. n) \ {n} = 1 .. (n - 1)
  BY <1>3, LatestOfPrefix
<1>5. n \in 0 .. N /\ n - 1 \in 0 .. N
  OBVIOUS
<1> QED
  BY <1>2, <1>4, <1>5

LEMMA LeftTypes ==
  ASSUME NEW N \in Nat, NEW S, NEW step, Steps(step, 1 .. N, S),
         NEW h, DOMAIN h = 0 .. N, h = [n \in 0 .. N |-> h[n]], h[0] \in S,
         \A n \in 1 .. N : h[n - 1] \in S => h[n] = step[n][h[n - 1]]
  PROVE  h \in [0 .. N -> S]
<1> DEFINE Good == {n \in Nat : n <= N => h[n] \in S}
<1>1. 0 \in Good
  OBVIOUS
<1>2. ASSUME NEW n \in Good PROVE n + 1 \in Good
  <2> SUFFICES ASSUME n + 1 <= N PROVE h[n + 1] \in S
    OBVIOUS
  <2>1. PICK m \in 1 .. N : m = n + 1 /\ m - 1 = n
    OBVIOUS
  <2>2. h[n] \in S
    OBVIOUS
  <2>3. h[m] = step[m][h[m - 1]] /\ step[m][h[m - 1]] \in S
    BY <2>1, <2>2 DEF Steps
  <2> QED
    BY <2>1, <2>3
<1>3. Good = Nat
  <2> HIDE DEF Good
  <2>1. Good \subseteq Nat
    BY DEF Good
  <2> QED
    BY <1>1, <1>2, <2>1, NumberInduction
<1>4. \A n \in Nat : n <= N => h[n] \in S
  BY <1>3
<1>5. \A n \in 0 .. N : h[n] \in S
  BY <1>4
<1> QED
  BY <1>5

-----------------------------------------------------------------------------
(* Sums of the values of a function over a finite set.                     *)

Adds(f, g, s) ==
  g[s] = IF s = {} THEN 0
         ELSE f[CHOOSE x \in s : TRUE] + g[s \ {CHOOSE x \in s : TRUE}]

AllAdd(f, g, D) == \A s \in SUBSET D : Adds(f, g, s)

Numbers(f, D) == \A x \in D : f[x] \in Nat

\* g gives the sum of every subset of D.
SumsUp(f, g, D) ==
  /\ g \in [SUBSET D -> Nat]
  /\ AllAdd(f, g, D)
  /\ \A s \in SUBSET D : SumFunctionOnSet(f, s) = g[s]

\* The sums that these equations define are unique.
LEMMA AddsUnique ==
  ASSUME NEW D, IsFiniteSet(D), NEW f, NEW g, NEW h,
         AllAdd(f, g, D), AllAdd(f, h, D)
  PROVE  \A s \in SUBSET D : g[s] = h[s]
<1> DEFINE Good == {s \in SUBSET D : g[s] = h[s]}
<1>1. ASSUME NEW s \in SUBSET D, \A x \in s : s \ {x} \in Good
      PROVE  s \in Good
  <2>1. Adds(f, g, s) /\ Adds(f, h, s)
    BY DEF AllAdd
  <2>2. CASE s = {}
    BY <2>1, <2>2 DEF Adds
  <2>3. CASE s # {}
    <3>1. PICK c \in s : g[s] = f[c] + g[s \ {c}] /\ h[s] = f[c] + h[s \ {c}]
      BY <2>1, <2>3 DEF Adds
    <3>2. g[s \ {c}] = h[s \ {c}]
      BY <1>1, <3>1
    <3> QED
      BY <3>1, <3>2
  <2> QED
    BY <2>2, <2>3
<1>2. Good = SUBSET D
  <2> HIDE DEF Good
  <2>1. Good \in SUBSET SUBSET D
    BY DEF Good
  <2> QED
    BY <1>1, <2>1, SubsetInduction
<1> QED
  BY <1>2

\* The recursive function inside SumFunctionOnSet is the one fold there is.
LEMMA SumIsFold ==
  ASSUME NEW E, IsFiniteSet(E), NEW f, Numbers(f, E)
  PROVE  \E g \in [SUBSET E -> Nat] :
           AllAdd(f, g, E) /\ SumFunctionOnSet(f, E) = g[E]
<1>1. PICK pick : pick = [s \in (SUBSET E) \ {{}} |-> CHOOSE x \in s : TRUE]
  OBVIOUS
<1>2. PICK step : step = [x \in E |-> [v \in Nat |-> f[x] + v]]
  OBVIOUS
<1>3. Picks(pick, E)
  BY <1>1 DEF Picks
<1>4. Steps(step, E, Nat)
  BY <1>2 DEF Steps, Numbers
<1>5. HasFold(E, Nat, 0, pick, step)
  BY <1>3, <1>4, FoldExists
<1>6. PICK g \in [SUBSET E -> Nat] : AllFold(g, E, 0, pick, step)
  BY <1>5 DEF HasFold
<1>7. AllAdd(f, g, E)
  BY <1>1, <1>2, <1>3, <1>6 DEF AllFold, Folds, Adds, AllAdd, Picks
<1> DEFINE Eq(h) == h = [s \in SUBSET E |->
              IF s = {} THEN 0 ELSE f[CHOOSE x \in s : TRUE] + h[s \ {CHOOSE x \in s : TRUE}]]
<1>8. Eq(g)
  BY <1>7 DEF Adds, AllAdd
<1>9. PICK iter : iter = CHOOSE h : Eq(h)
  OBVIOUS
<1>10. SumFunctionOnSet(f, E) = iter[E]
  BY <1>9 DEF SumFunctionOnSet, FoldFunctionOnSet, MapThenFoldSet
<1>11. Eq(iter)
  <2> HIDE DEF Eq
  <2> QED
    BY <1>8, <1>9
<1>12. AllAdd(f, iter, E)
  BY <1>11 DEF Adds, AllAdd
<1>13. iter[E] = g[E]
  <2> HIDE DEF Eq
  <2>1. E \in SUBSET E
    OBVIOUS
  <2> QED
    BY <1>7, <1>12, <2>1, AddsUnique
<1> QED
  BY <1>7, <1>10, <1>13

\* The sums over the subsets of D, as one function.
LEMMA SumsOver ==
  ASSUME NEW D, IsFiniteSet(D), NEW f, Numbers(f, D)
  PROVE  \E g : SumsUp(f, g, D)
<1>1. PICK g \in [SUBSET D -> Nat] : AllAdd(f, g, D)
  BY SumIsFold
<1>2. ASSUME NEW s \in SUBSET D
      PROVE  SumFunctionOnSet(f, s) = g[s]
  <2>1. IsFiniteSet(s) /\ Numbers(f, s)
    BY FS_Subset DEF Numbers
  <2>2. PICK h : AllAdd(f, h, s) /\ SumFunctionOnSet(f, s) = h[s]
    BY <2>1, SumIsFold
  <2>3. AllAdd(f, g, s)
    BY <1>1 DEF AllAdd
  <2>4. s \in SUBSET s
    OBVIOUS
  <2>5. h[s] = g[s]
    BY <2>1, <2>2, <2>3, <2>4, AddsUnique
  <2> QED
    BY <2>2, <2>5
<1> QED
  BY <1>1, <1>2 DEF SumsUp

\* The sum over no elements.
LEMMA SumEmpty ==
  ASSUME NEW f
  PROVE  SumFunctionOnSet(f, {}) = 0
<1>1. IsFiniteSet({}) /\ Numbers(f, {})
  BY FS_EmptySet DEF Numbers
<1>2. PICK g : SumsUp(f, g, {})
  BY <1>1, SumsOver
<1> QED
  BY <1>2 DEF SumsUp, Adds, AllAdd

\* A sum of numbers is a number.
LEMMA SumType ==
  ASSUME NEW D, IsFiniteSet(D), NEW f, Numbers(f, D)
  PROVE  SumFunctionOnSet(f, D) \in Nat
<1>1. PICK g : SumsUp(f, g, D)
  BY SumsOver
<1> QED
  BY <1>1 DEF SumsUp

\* The order does not matter: any element can be taken out first.
LEMMA SumAdd ==
  ASSUME NEW D, IsFiniteSet(D), NEW f, Numbers(f, D), NEW x \in D
  PROVE  SumFunctionOnSet(f, D) = f[x] + SumFunctionOnSet(f, D \ {x})
<1>1. PICK g : SumsUp(f, g, D)
  BY SumsOver
<1> DEFINE Good == {s \in SUBSET D : \A y \in s : g[s] = f[y] + g[s \ {y}]}
<1>2. ASSUME NEW s \in SUBSET D, \A y \in s : s \ {y} \in Good
      PROVE  s \in Good
  <2>1. ASSUME NEW y \in s
        PROVE  g[s] = f[y] + g[s \ {y}]
    <3>1. PICK c \in s : g[s] = f[c] + g[s \ {c}]
      BY <1>1 DEF SumsUp, Adds, AllAdd
    <3>2. CASE c = y
      BY <3>1, <3>2
    <3>3. CASE c # y
      <4> DEFINE rest == (s \ {c}) \ {y}
      <4>1. g[s \ {c}] = f[y] + g[rest]
        BY <1>2, <3>3
      <4>2. (s \ {y}) \ {c} = rest
        OBVIOUS
      <4>3. g[s \ {y}] = f[c] + g[rest]
        BY <1>2, <3>3, <4>2
      <4>4. f[c] \in Nat /\ f[y] \in Nat /\ g[rest] \in Nat
        BY <1>1 DEF Numbers, SumsUp
      <4> HIDE DEF rest
      <4> QED
        BY <3>1, <4>1, <4>3, <4>4
    <3> QED
      BY <3>2, <3>3
  <2> QED
    BY <2>1
<1>3. Good = SUBSET D
  <2> HIDE DEF Good
  <2>1. Good \in SUBSET SUBSET D
    BY DEF Good
  <2> QED
    BY <1>2, <2>1, SubsetInduction
<1>4. D \in Good /\ D \ {x} \in SUBSET D /\ D \in SUBSET D
  BY <1>3
<1> QED
  BY <1>1, <1>4 DEF SumsUp

\* Functions that agree on a set have the same sum over it.
LEMMA SumSame ==
  ASSUME NEW D, IsFiniteSet(D), NEW f, Numbers(f, D), NEW h, \A x \in D : h[x] = f[x]
  PROVE  SumFunctionOnSet(h, D) = SumFunctionOnSet(f, D)
<1>1. PICK g : SumsUp(f, g, D)
  BY SumsOver
<1>2. Numbers(h, D)
  BY DEF Numbers
<1>3. PICK k : SumsUp(h, k, D)
  BY <1>2, SumsOver
<1>4. AllAdd(f, k, D) /\ AllAdd(f, g, D)
  BY <1>1, <1>3 DEF SumsUp, Adds, AllAdd
<1>5. D \in SUBSET D
  OBVIOUS
<1>6. k[D] = g[D]
  BY <1>4, <1>5, AddsUnique
<1> QED
  BY <1>1, <1>3, <1>5, <1>6 DEF SumsUp

\* Larger terms have a sum at least as large.
LEMMA SumMono ==
  ASSUME NEW D, IsFiniteSet(D), NEW f, Numbers(f, D), NEW h, Numbers(h, D),
         \A x \in D : f[x] <= h[x]
  PROVE  SumFunctionOnSet(f, D) <= SumFunctionOnSet(h, D)
<1>1. PICK g : SumsUp(f, g, D)
  BY SumsOver
<1>2. PICK k : SumsUp(h, k, D)
  BY SumsOver
<1> DEFINE Good == {s \in SUBSET D : g[s] <= k[s]}
<1>3. ASSUME NEW s \in SUBSET D, \A x \in s : s \ {x} \in Good
      PROVE  s \in Good
  <2>1. CASE s = {}
    BY <1>1, <1>2, <2>1 DEF SumsUp, Adds, AllAdd
  <2>2. CASE s # {}
    <3>1. PICK c \in s : g[s] = f[c] + g[s \ {c}] /\ k[s] = h[c] + k[s \ {c}]
      BY <1>1, <1>2, <2>2 DEF SumsUp, Adds, AllAdd
    <3>2. g[s \ {c}] <= k[s \ {c}] /\ g[s \ {c}] \in Nat /\ k[s \ {c}] \in Nat
      BY <1>1, <1>2, <1>3 DEF SumsUp
    <3>3. f[c] \in Nat /\ h[c] \in Nat /\ f[c] <= h[c]
      BY DEF Numbers
    <3> QED
      BY <3>1, <3>2, <3>3
  <2> QED
    BY <2>1, <2>2
<1>4. Good = SUBSET D
  <2> HIDE DEF Good
  <2>1. Good \in SUBSET SUBSET D
    BY DEF Good
  <2> QED
    BY <1>3, <2>1, SubsetInduction
<1>5. D \in Good
  BY <1>4
<1> QED
  BY <1>1, <1>2, <1>5 DEF SumsUp

\* One term changes, and the sum by as much.
LEMMA SumChanged ==
  ASSUME NEW D, IsFiniteSet(D), NEW f, Numbers(f, D), NEW h, Numbers(h, D),
         NEW x \in D, \A y \in D \ {x} : h[y] = f[y]
  PROVE  SumFunctionOnSet(h, D) + f[x] = SumFunctionOnSet(f, D) + h[x]
<1> DEFINE rest == D \ {x}
<1>1. IsFiniteSet(rest) /\ Numbers(f, rest)
  BY FS_Subset DEF Numbers
<1>2. SumFunctionOnSet(h, rest) = SumFunctionOnSet(f, rest)
  BY <1>1, SumSame
<1>3. SumFunctionOnSet(f, D) = f[x] + SumFunctionOnSet(f, rest)
  BY SumAdd
<1>4. SumFunctionOnSet(h, D) = h[x] + SumFunctionOnSet(h, rest)
  BY SumAdd
<1>5. f[x] \in Nat /\ h[x] \in Nat /\ SumFunctionOnSet(f, rest) \in Nat
  BY <1>1, SumType DEF Numbers
<1> HIDE DEF rest
<1> QED
  BY <1>2, <1>3, <1>4, <1>5
=============================================================================

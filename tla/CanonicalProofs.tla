-------------------------- MODULE CanonicalProofs --------------------------
(***************************************************************************)
(* The three encoders agree, and no two values share an encoding: for all  *)
(* values, however deep, with keys and texts of any length.                *)
(*                                                                         *)
(* What is written is read back from left to right.  A piece ends where    *)
(* the next one begins: it is settled by what it starts with, and by what  *)
(* may follow it.  So the pieces of a text that is put together of pieces  *)
(* are determined one after the other, and a value by its depth.           *)
(***************************************************************************)
EXTENDS Canonical, FoldLemmas, SequenceTheorems

-----------------------------------------------------------------------------
(* FlattenSeq, from its first element on.                                  *)

LEMMA Associative ==
  ASSUME NEW S
  PROVE  \A s, t, u \in Seq(S) : (s \o t) \o u = s \o (t \o u)
BY ConcatAssociative

\* What two texts begin with alike can be left out.
LEMMA CancelLeft ==
  ASSUME NEW S
  PROVE  \A s, t, u \in Seq(S) : s \o t = s \o u => t = u
BY ConcatSimplifications

Flattens(f, ss) == f[1] = ss[1] /\ \A i \in 2 .. Len(ss) : f[i] = f[i - 1] \o ss[i]

LEMMA FlattenIs ==
  ASSUME NEW S, NEW ss \in Seq(Seq(S)), ss # << >>
  PROVE  \E f \in [1 .. Len(ss) -> Seq(S)] : Flattens(f, ss) /\ FlattenSeq(ss) = f[Len(ss)]
<1> DEFINE N == Len(ss)
           V == Seq(S)
           P(i) == ss[i]
           J(x, i) == x \o ss[i]
<1>1. N \in Nat \ {0} /\ \A i \in 1 .. N : P(i) \in V
  BY EmptySeq, ElementOfSeq
<1>2. ASSUME NEW x \in V, NEW i \in 1 .. N PROVE J(x, i) \in V
  BY <1>1, ConcatProperties
<1> DEFINE Eq(g) == g = [i \in 1 .. N |-> IF i = 1 THEN P(i) ELSE J(g[i - 1], i)]
           flatten == CHOOSE g : Eq(g)
<1>3. FlattenSeq(ss) = flatten[N]
  BY <1>1 DEF FlattenSeq
<1> HIDE DEF flatten, N, V, P, J
<1> DEFINE UpTo(f, n) == f[1] = P(1) /\ \A i \in 2 .. N : i <= n => f[i] = J(f[i - 1], i)
           Good == {n \in Nat : n <= N => \E f \in [1 .. N -> V] : UpTo(f, n)}
<1>4. 0 \in Good
  <2> DEFINE f == [i \in 1 .. N |-> P(1)]
  <2>1. f \in [1 .. N -> V] /\ UpTo(f, 0)
    BY <1>1
  <2> QED
    BY <2>1
<1>5. ASSUME NEW n \in Good PROVE n + 1 \in Good
  <2> SUFFICES ASSUME n + 1 <= N PROVE \E f \in [1 .. N -> V] : UpTo(f, n + 1)
    OBVIOUS
  <2>0. n \in Nat /\ n <= N
    BY <1>1
  <2>1. PICK f \in [1 .. N -> V] : UpTo(f, n)
    BY <2>0
  <2>2. CASE n = 0
    <3>1. UpTo(f, n + 1)
      BY <2>1, <2>2
    <3> QED
      BY <3>1
  <2>3. CASE n # 0
    <3> DEFINE h == [f EXCEPT ![n + 1] = J(f[n], n + 1)]
    <3>1. n \in 1 .. N /\ n + 1 \in 1 .. N /\ f[n] \in V
      BY <1>1, <2>3
    <3>2. h \in [1 .. N -> V]
      BY <1>2, <3>1
    <3>3. UpTo(h, n + 1)
      BY <1>1, <2>1, <3>1
    <3> QED
      BY <3>2, <3>3
  <2> QED
    BY <2>2, <2>3
<1>6. Good = Nat
  <2> HIDE DEF Good
  <2>1. Good \subseteq Nat
    BY DEF Good
  <2> QED
    BY <1>4, <1>5, <2>1, NumberInduction
<1>7. PICK f \in [1 .. N -> V] : UpTo(f, N)
  <2>1. N \in Good /\ N <= N
    <3> HIDE DEF Good
    <3> QED
      BY <1>1, <1>6
  <2> QED
    BY <2>1
<1>8. Eq(f)
  <2>1. ASSUME NEW i \in 1 .. N
        PROVE  f[i] = IF i = 1 THEN P(i) ELSE J(f[i - 1], i)
    BY <1>1, <1>7
  <2> QED
    BY <2>1
<1>9. Eq(flatten)
  BY <1>8 DEF flatten
<1>10. \A i \in 1 .. N : flatten[i] = IF i = 1 THEN P(i) ELSE J(flatten[i - 1], i)
  BY <1>9
<1> DEFINE Same == {n \in Nat : n \in 1 .. N => flatten[n] = f[n]}
<1>11. 0 \in Same
  OBVIOUS
<1>12. ASSUME NEW n \in Same PROVE n + 1 \in Same
  BY <1>1, <1>7, <1>10
<1>13. Same = Nat
  <2> HIDE DEF Same
  <2>1. Same \subseteq Nat
    BY DEF Same
  <2> QED
    BY <1>11, <1>12, <2>1, NumberInduction
<1>14. flatten[N] = f[N]
  <2>1. N \in Same /\ N \in 1 .. N
    <3> HIDE DEF Same
    <3> QED
      BY <1>1, <1>13
  <2> QED
    BY <2>1
<1>15. Flattens(f, ss)
  <2>1. f[1] = P(1) /\ \A i \in 2 .. N : f[i] = J(f[i - 1], i)
    BY <1>1, <1>7
  <2> QED
    BY <2>1 DEF Flattens, N, P, J
<1> QED
  BY <1>3, <1>14, <1>15 DEF N, V

\* The first element, and what the others make.
LEMMA FlattenFirst ==
  ASSUME NEW S, NEW ss \in Seq(Seq(S)), ss # << >>
  PROVE  /\ ss[1] \in Seq(S)
         /\ Tail(ss) \in Seq(Seq(S))
         /\ FlattenSeq(Tail(ss)) \in Seq(S)
         /\ FlattenSeq(ss) = ss[1] \o FlattenSeq(Tail(ss))
<1> DEFINE N == Len(ss)
           ts == Tail(ss)
           V == Seq(S)
           C(x, y) == x \o y
           P(i) == ss[i]
           T(i) == ts[i]
<1>1. N \in Nat \ {0} /\ \A i \in 1 .. N : P(i) \in V
  BY EmptySeq, ElementOfSeq
<1>2. ts \in Seq(V) /\ Len(ts) = N - 1 /\ \A i \in 1 .. N - 1 : T(i) = P(i + 1)
  BY HeadTailProperties
<1>3. PICK f \in [1 .. N -> V] : Flattens(f, ss) /\ FlattenSeq(ss) = f[N]
  BY FlattenIs
<1>4. f[1] = P(1) /\ \A i \in 2 .. N : f[i] = C(f[i - 1], P(i))
  BY <1>3 DEF Flattens
<1>5. ASSUME NEW x \in V, NEW y \in V, NEW z \in V PROVE C(C(x, y), z) = C(x, C(y, z))
  BY SMTT(60), Associative
<1>6. CASE N = 1
  <2>1. ts = << >>
    <3>1. Len(ts) \notin Nat \ {0}
      BY <1>2, <1>6
    <3> QED
      BY <1>2, <3>1, EmptySeq, Zenon
  <2>2. FlattenSeq(ts) = << >>
    BY <2>1 DEF FlattenSeq
  <2>3. << >> \in Seq(S) /\ ss[1] \o << >> = ss[1]
    BY <1>1, ConcatEmptySeq, EmptySeq
  <2>4. FlattenSeq(ss) = P(1)
    BY <1>3, <1>4, <1>6
  <2>5. P(1) \in V
    BY <1>1
  <2> QED
    BY <1>2, <2>2, <2>3, <2>4, <2>5
<1>7. CASE N # 1
  <2>1. ts # << >>
    <3>1. Len(ts) # 0
      BY <1>1, <1>2, <1>7
    <3> QED
      BY <3>1, EmptySeq, Zenon
  <2>2. PICK g \in [1 .. N - 1 -> V] : Flattens(g, ts) /\ FlattenSeq(ts) = g[N - 1]
    BY <1>2, <2>1, FlattenIs
  <2>3. g[1] = T(1) /\ \A i \in 2 .. N - 1 : g[i] = C(g[i - 1], T(i))
    BY <1>2, <2>2 DEF Flattens
  <2> HIDE DEF N, ts, V, C, P, T
  <2> DEFINE Good == {n \in Nat : n \in 1 .. N - 1 => f[n + 1] = C(P(1), g[n])}
  <2>4. 0 \in Good
    OBVIOUS
  <2>5. ASSUME NEW n \in Good PROVE n + 1 \in Good
    <3> SUFFICES ASSUME n + 1 \in 1 .. N - 1 PROVE f[n + 2] = C(P(1), g[n + 1])
      <4>1. (n + 1) + 1 = n + 2
        OBVIOUS
      <4> QED
        BY <4>1
    <3>1. f[n + 2] = C(f[n + 1], P(n + 2))
      <4>1. n + 2 \in 2 .. N /\ (n + 2) - 1 = n + 1
        BY <1>1
      <4> QED
        BY <1>4, <4>1
    <3>2. T(n + 1) = P(n + 2)
      <4>1. (n + 1) + 1 = n + 2
        OBVIOUS
      <4> QED
        BY <1>2, <4>1
    <3>3. CASE n = 0
      BY <1>4, <2>3, <3>1, <3>2, <3>3
    <3>4. CASE n # 0
      <4>1. n \in 1 .. N - 1 /\ n + 1 \in 2 .. N - 1 /\ (n + 1) - 1 = n
        BY <1>1, <3>4
      <4>2. f[n + 1] = C(P(1), g[n])
        BY <4>1
      <4>3. g[n + 1] = C(g[n], T(n + 1))
        BY <2>3, <4>1
      <4>4. g[n] \in V /\ T(n + 1) \in V /\ P(1) \in V
        <5>1. n + 2 \in 1 .. N /\ 1 \in 1 .. N
          BY <1>1
        <5> QED
          BY <1>1, <3>2, <4>1, <5>1
      <4> QED
        BY <1>5, <3>1, <3>2, <4>2, <4>3, <4>4
    <3> QED
      BY <3>3, <3>4
  <2>6. Good = Nat
    <3> HIDE DEF Good
    <3>1. Good \subseteq Nat
      BY DEF Good
    <3> QED
      BY <2>4, <2>5, <3>1, NumberInduction
  <2>7. N - 1 \in Good /\ (N - 1) + 1 = N /\ N - 1 \in 1 .. N - 1 /\ N - 1 \in Nat
    <3>1. (N - 1) + 1 = N /\ N - 1 \in 1 .. N - 1 /\ N - 1 \in Nat
      BY <1>1, <1>7
    <3> HIDE DEF Good
    <3> QED
      BY <2>6, <3>1
  <2>8. f[N] = C(P(1), g[N - 1]) /\ g[N - 1] \in V
    BY <2>7
  <2>9. P(1) \in V
    BY <1>1
  <2> QED
    BY <1>2, <1>3, <2>2, <2>8, <2>9 DEF ts, V, P, C
<1> QED
  BY <1>6, <1>7

LEMMA FlattenType ==
  ASSUME NEW S, NEW ss \in Seq(Seq(S))
  PROVE  FlattenSeq(ss) \in Seq(S)
<1>1. CASE ss = << >>
  <2>1. FlattenSeq(ss) = << >>
    BY <1>1 DEF FlattenSeq
  <2> QED
    BY <2>1, EmptySeq
<1>2. CASE ss # << >>
  <2>1. FlattenSeq(ss) = ss[1] \o FlattenSeq(Tail(ss)) /\ ss[1] \in Seq(S)
          /\ FlattenSeq(Tail(ss)) \in Seq(S)
    BY <1>2, FlattenFirst
  <2> QED
    BY <2>1, ConcatProperties
<1> QED
  BY <1>1, <1>2

-----------------------------------------------------------------------------
(* Texts that are put together of pieces.                                  *)

Codes == Seq(Nat)

\* Concatenation under a name, so that it can be left unexpanded.
Cat(x, y) == x \o y

LEMMA CodesAssociative == \A x, y, z \in Codes : (x \o y) \o z = x \o (y \o z)
<1>1. PICK S : S = Nat
  OBVIOUS
<1>2. Codes = Seq(S)
  BY <1>1 DEF Codes
<1> DEFINE C(x, y) == x \o y
<1>3. \A x, y, z \in Seq(S) : C(C(x, y), z) = C(x, C(y, z))
  BY Associative
<1> HIDE DEF C
<1>4. \A x, y, z \in Codes : C(C(x, y), z) = C(x, C(y, z))
  BY <1>2, <1>3
<1> QED
  BY <1>4 DEF C

Begins(x, K) == x # << >> /\ x[1] \in K

\* A piece is determined where a code of K follows.
Delimited(A, K) ==
  \A a, b \in A, x, y \in Codes :
    Begins(x, K) /\ Begins(y, K) /\ a \o x = b \o y => a = b

\* Every piece begins with a code of K, but none with c, which comes after the last.
Pieces(A, K, c) ==
  /\ A \subseteq Codes
  /\ c \in K \cap Nat
  /\ \A a \in A : Begins(a, K \ {c})
  /\ Delimited(A, K)

LEMMA HeadOfConcat ==
  ASSUME NEW a \in Codes, NEW x \in Codes
  PROVE  /\ a \o x \in Codes
         /\ a # << >> => a \o x # << >> /\ (a \o x)[1] = a[1]
<1>1. /\ a \o x \in Codes /\ Len(a \o x) = Len(a) + Len(x)
      /\ \A i \in 1 .. Len(a) + Len(x) : (a \o x)[i] = IF i <= Len(a) THEN a[i] ELSE x[i - Len(a)]
  BY ConcatProperties DEF Codes
<1>2. Len(a) \in Nat /\ Len(x) \in Nat /\ (a # << >> => Len(a) # 0)
  BY EmptySeq, LenProperties DEF Codes
<1>3. ASSUME a # << >> PROVE a \o x # << >> /\ (a \o x)[1] = a[1]
  <2>1. 1 \in 1 .. Len(a) + Len(x) /\ 1 <= Len(a) /\ Len(a) + Len(x) # 0
    BY <1>2, <1>3
  <2>2. (a \o x)[1] = a[1]
    BY <1>1, <2>1
  <2>3. a \o x # << >>
    BY <1>1, <2>1, EmptySeq
  <2> QED
    BY <2>2, <2>3
<1> QED
  BY <1>1, <1>3

LEMMA SameByTail ==
  ASSUME NEW S, NEW s \in Seq(S), NEW t \in Seq(S), s # << >>, t # << >>,
         s[1] = t[1], Tail(s) = Tail(t)
  PROVE  s = t
<1>1. /\ Len(s) \in Nat \ {0} /\ Len(t) \in Nat \ {0}
      /\ Len(Tail(s)) = Len(s) - 1 /\ Len(Tail(t)) = Len(t) - 1
      /\ \A i \in 1 .. Len(s) - 1 : Tail(s)[i] = s[i + 1]
      /\ \A i \in 1 .. Len(t) - 1 : Tail(t)[i] = t[i + 1]
  BY EmptySeq, HeadTailProperties
<1>2. PICK n \in Nat \ {0} : n = Len(s) /\ n = Len(t)
  <2>1. PICK m \in Nat \ {0} : m = Len(s)
    BY <1>1
  <2>2. PICK n \in Nat \ {0} : n = Len(t)
    BY <1>1
  <2>3. m - 1 = n - 1
    BY <1>1, <2>1, <2>2
  <2>4. m = n
    BY <2>3
  <2> QED
    BY <2>1, <2>2, <2>4
<1>3. ASSUME NEW i \in 1 .. Len(s) PROVE s[i] = t[i]
  <2>1. CASE i = 1
    BY <2>1
  <2>2. CASE i # 1
    <3>1. i - 1 \in 1 .. n - 1 /\ (i - 1) + 1 = i
      BY <1>2, <2>2
    <3> QED
      BY <1>1, <1>2, <3>1
  <2> QED
    BY <2>1, <2>2
<1> QED
  BY <1>2, <1>3, SeqEqual

LEMMA PiecesDetermined ==
  ASSUME NEW A, NEW K, NEW c, Pieces(A, K, c)
  PROVE  \A ss, ts \in Seq(A), x, y \in Codes :
           Cat(FlattenSeq(ss), Cat(<<c>>, x)) = Cat(FlattenSeq(ts), Cat(<<c>>, y))
             => ss = ts /\ x = y
<1> DEFINE C(x, y) == x \o y
           F(ss) == FlattenSeq(ss)
           E == << >>
           End == <<c>>
           B(x) == Begins(x, K)
           H(x) == x[1]
           T(ss) == Tail(ss)
           Q == Seq(A)
           L(ss) == Len(ss)
<1>1. ASSUME NEW ss \in Q, ss # E
      PROVE  /\ T(ss) \in Q
             /\ L(ss) \in Nat \ {0} /\ L(T(ss)) = L(ss) - 1
             /\ H(ss) \in A
             /\ F(ss) = C(H(ss), F(T(ss)))
  <2>1. ss \in Seq(Codes)
    BY SeqMonotonic DEF Pieces
  <2>2. F(ss) = C(H(ss), F(T(ss)))
    BY <1>1, <2>1, FlattenFirst DEF Codes
  <2>3. T(ss) \in Q /\ L(T(ss)) = L(ss) - 1 /\ L(ss) \in Nat \ {0}
    BY <1>1, HeadTailProperties, EmptySeq
  <2>4. H(ss) \in A
    <3>1. 1 \in 1 .. Len(ss)
      BY <2>3
    <3> QED
      BY <3>1, ElementOfSeq
  <2> QED
    BY <2>2, <2>3, <2>4
<1>2. ASSUME NEW ss \in Q PROVE F(ss) \in Codes /\ L(ss) \in Nat
  <2>1. ss \in Seq(Codes)
    BY SeqMonotonic DEF Pieces
  <2> QED
    BY <2>1, FlattenType, LenProperties DEF Codes
<1>3. F(E) = E /\ L(E) = 0
  BY EmptySeq DEF FlattenSeq
<1>4. ASSUME NEW x \in Codes
      PROVE  C(E, x) = x
  BY ConcatEmptySeq DEF Codes
<1>5. \A x, y, z \in Codes : C(C(x, y), z) = C(x, C(y, z))
  BY CodesAssociative
<1>6. \A x, y, z \in Codes : C(x, y) = C(x, z) => y = z
  BY CancelLeft DEF Codes
<1>7. ASSUME NEW a \in A, NEW x \in Codes
      PROVE  /\ a \in Codes
             /\ C(a, x) \in Codes
             /\ B(C(a, x)) /\ H(C(a, x)) # c
  <2>1. a \in Codes /\ Begins(a, K \ {c})
    BY DEF Pieces
  <2> QED
    BY <2>1, HeadOfConcat DEF Begins
<1>8. End \in Codes /\ End # E /\ H(End) = c
  BY DEF Pieces, Codes
<1>9. ASSUME NEW x \in Codes
      PROVE  C(End, x) \in Codes /\ B(C(End, x)) /\ H(C(End, x)) = c
  <2>1. C(End, x) \in Codes /\ C(End, x) # E /\ H(C(End, x)) = c
    BY <1>8, HeadOfConcat
  <2>2. c \in K
    BY DEF Pieces
  <2> QED
    BY <2>1, <2>2 DEF Begins
<1>10. \A a, b \in A, x, y \in Codes : B(x) /\ B(y) /\ C(a, x) = C(b, y) => a = b
  BY DEF Pieces, Delimited
<1>11. \A ss, ts \in Q : ss # E /\ ts # E /\ H(ss) = H(ts) /\ T(ss) = T(ts) => ss = ts
  BY SameByTail
<1> HIDE DEF C, F, E, End, B, H, T, Q, L
<1> DEFINE Holds(ss) ==
             \A ts \in Q, x, y \in Codes :
               C(F(ss), C(End, x)) = C(F(ts), C(End, y)) => ss = ts /\ x = y
           Good == {n \in Nat : \A ss \in Q : L(ss) = n => Holds(ss)}
\* What comes after a piece is a text of its own.
<1>12. ASSUME NEW ss \in Q, ss # E, NEW x \in Codes
       PROVE  /\ C(F(T(ss)), C(End, x)) \in Codes
              /\ B(C(F(T(ss)), C(End, x)))
              /\ C(F(ss), C(End, x)) = C(H(ss), C(F(T(ss)), C(End, x)))
  <2>1. T(ss) \in Q /\ F(T(ss)) \in Codes /\ H(ss) \in A /\ H(ss) \in Codes /\ C(End, x) \in Codes
    BY <1>1, <1>2, <1>7, <1>9, <1>12
  <2>2. C(F(ss), C(End, x)) = C(H(ss), C(F(T(ss)), C(End, x)))
    BY <1>1, <1>5, <1>12, <2>1
  <2>3. CASE T(ss) = E
    BY <1>3, <1>4, <1>9, <2>1, <2>2, <2>3
  <2>4. CASE T(ss) # E
    <3>1. F(T(ss)) = C(H(T(ss)), F(T(T(ss)))) /\ H(T(ss)) \in A /\ T(T(ss)) \in Q
      BY <1>1, <2>1, <2>4
    <3>2. F(T(T(ss))) \in Codes /\ H(T(ss)) \in Codes
      BY <1>2, <1>7, <1>8, <3>1
    <3>3. C(F(T(ss)), C(End, x)) = C(H(T(ss)), C(F(T(T(ss))), C(End, x)))
      BY <1>5, <2>1, <3>1, <3>2
    <3>4. C(F(T(T(ss))), C(End, x)) \in Codes
      <4>1. CASE T(T(ss)) = E
        BY <1>3, <1>4, <2>1, <4>1
      <4>2. CASE T(T(ss)) # E
        <5>1. F(T(T(ss))) = C(H(T(T(ss))), F(T(T(T(ss))))) /\ H(T(T(ss))) \in A /\ T(T(T(ss))) \in Q
          BY <1>1, <3>1, <4>2
        <5>2. F(T(T(T(ss)))) \in Codes
          BY <1>2, <5>1
        <5> QED
          BY <2>1, <3>2, HeadOfConcat DEF C
      <4> QED
        BY <4>1, <4>2
    <3> QED
      BY <1>7, <2>2, <3>1, <3>3, <3>4
  <2> QED
    BY <2>3, <2>4
<1>13. ASSUME NEW ss \in Q, ss = E PROVE Holds(ss)
  <2> SUFFICES ASSUME NEW ts \in Q, NEW x \in Codes, NEW y \in Codes,
                      C(F(ss), C(End, x)) = C(F(ts), C(End, y))
               PROVE  ss = ts /\ x = y
    OBVIOUS
  <2>1. C(F(ss), C(End, x)) = C(End, x) /\ H(C(End, x)) = c
    BY <1>3, <1>4, <1>9, <1>13
  <2>2. CASE ts = E
    <3>1. C(F(ts), C(End, y)) = C(End, y)
      BY <1>3, <1>4, <1>9, <2>2
    <3>2. x = y
      BY <1>6, <1>8, <2>1, <3>1
    <3> QED
      BY <1>13, <2>2, <3>2
  <2>3. CASE ts # E
    <3>1. C(F(ts), C(End, y)) = C(H(ts), C(F(T(ts)), C(End, y))) /\ C(F(T(ts)), C(End, y)) \in Codes
      BY <1>12, <2>3
    <3>2. H(C(F(ts), C(End, y))) # c
      BY <1>1, <1>7, <2>3, <3>1
    <3> QED
      BY <2>1, <3>2
  <2> QED
    BY <2>2, <2>3
<1>14. 0 \in Good
  <2>1. \A ss \in Q : L(ss) = 0 => ss = E
    BY <1>1
  <2> HIDE DEF Holds
  <2> QED
    BY <1>13, <2>1
<1>15. ASSUME NEW n \in Good PROVE n + 1 \in Good
  <2> SUFFICES ASSUME NEW ss \in Q, L(ss) = n + 1,
                      NEW ts \in Q, NEW x \in Codes, NEW y \in Codes,
                      C(F(ss), C(End, x)) = C(F(ts), C(End, y))
               PROVE  ss = ts /\ x = y
    OBVIOUS
  <2>0. n \in Nat /\ ss # E
    BY <1>3
  <2>1. T(ss) \in Q /\ L(T(ss)) = n /\ H(ss) \in A
    BY <1>1, <2>0
  <2>2. Holds(T(ss))
    BY <2>1
  <2> DEFINE u == C(F(T(ss)), C(End, x))
  <2>3. u \in Codes /\ B(u) /\ C(F(ss), C(End, x)) = C(H(ss), u)
    BY <1>12, <2>0
  <2>4. CASE ts = E
    <3>1. H(C(F(ts), C(End, y))) = c
      BY <1>3, <1>4, <1>9, <2>4
    <3>2. H(C(H(ss), u)) # c
      BY <1>7, <2>1, <2>3
    <3> QED
      BY <2>3, <3>1, <3>2
  <2>5. CASE ts # E
    <3> DEFINE w == C(F(T(ts)), C(End, y))
    <3>1. w \in Codes /\ B(w) /\ C(F(ts), C(End, y)) = C(H(ts), w)
      BY <1>12, <2>5
    <3>2. H(ts) \in A /\ T(ts) \in Q
      BY <1>1, <2>5
    <3>6. C(H(ss), u) = C(H(ts), w)
      BY <2>3, <3>1
    <3> HIDE DEF u, w
    <3>3. H(ss) = H(ts)
      BY <1>10, <2>1, <2>3, <3>1, <3>2, <3>6
    <3>4. u = w
      <4>1. H(ss) \in Codes
        BY <1>7, <1>8, <2>1
      <4> QED
        BY <1>6, <2>3, <3>1, <3>3, <3>6, <4>1
    <3>5. T(ss) = T(ts) /\ x = y
      BY <2>2, <3>2, <3>4 DEF u, w
    <3> QED
      BY <1>11, <2>0, <2>5, <3>3, <3>5
  <2> QED
    BY <2>4, <2>5
<1>16. Good = Nat
  <2> HIDE DEF Good
  <2>1. Good \subseteq Nat
    BY DEF Good
  <2> QED
    BY <1>14, <1>15, <2>1, NumberInduction
<1>17. \A ss \in Q : Holds(ss)
  BY <1>2, <1>16
<1> QED
  BY <1>17 DEF C, F, End, Q, Cat

-----------------------------------------------------------------------------
(* Recursive functions: what is written as a recursion is one, as there is *)
(* a function that the equation holds of.                                  *)

\* The digits of a number.
LEMMA DigitsAre ==
  ASSUME NEW base \in {10, 16}
  PROVE  Digits(base) = [n \in Nat |-> IF n < base THEN <<HexDigit(n)>> ELSE Digits(base)[n \div base] \o <<HexDigit(n % base)>>]
<1> DEFINE B(f, n) == IF n < base THEN <<HexDigit(n)>> ELSE f[n \div base] \o <<HexDigit(n % base)>>
<1>1. ASSUME NEW f, NEW g, NEW n \in Nat, \A m \in Nat : m < n => f[m] = g[m]
      PROVE  B(f, n) = B(g, n)
  <2>1. CASE n < base
    BY <2>1
  <2>2. CASE ~(n < base)
    <3>1. n \div base \in Nat /\ n \div base < n
      <4>1. CASE base = 10
        BY <2>2, <4>1
      <4>2. CASE base = 16
        BY <2>2, <4>2
      <4> QED
        BY <4>1, <4>2
    <3>2. f[n \div base] = g[n \div base]
      BY <1>1, <3>1
    <3> QED
      BY <2>2, <3>2
  <2> QED
    BY <2>1, <2>2
<1>0. Digits(base) = CHOOSE f : f = [n \in Nat |-> B(f, n)]
  BY DEF Digits
<1> HIDE DEF B
<1> DEFINE UpTo(f, n) == \A m \in Nat : m <= n => f[m] = B(f, m)
           Good == {n \in Nat : \E f : UpTo(f, n)}
           Same == {n \in Nat : \A f, g : UpTo(f, n) /\ UpTo(g, n) => \A m \in Nat : m <= n => f[m] = g[m]}
<1>2. 0 \in Good
  <2> DEFINE f == [m \in Nat |-> B(<< >>, 0)]
  <2>1. B(f, 0) = B(<< >>, 0)
    BY <1>1
  <2>2. UpTo(f, 0)
    BY <2>1
  <2> QED
    BY <2>2
<1>3. ASSUME NEW n \in Good PROVE n + 1 \in Good
  <2>1. n \in Nat /\ \E f : UpTo(f, n)
    OBVIOUS
  <2>2. PICK f : UpTo(f, n)
    BY <2>1
  <2> DEFINE h == [m \in Nat |-> IF m <= n THEN f[m] ELSE B(f, n + 1)]
  <2>3. \A m \in Nat : m <= n => h[m] = f[m]
    OBVIOUS
  <2>4. h[n + 1] = B(f, n + 1)
    BY <2>1
  <2> HIDE DEF h
  <2>5. ASSUME NEW m \in Nat, m <= n PROVE h[m] = B(h, m)
    <3>1. \A k \in Nat : k < m => f[k] = h[k]
      BY <2>1, <2>3, <2>5
    <3>2. B(f, m) = B(h, m)
      BY <1>1, <3>1
    <3> QED
      BY <2>2, <2>3, <2>5, <3>2
  <2>6. h[n + 1] = B(h, n + 1)
    <3>1. n + 1 \in Nat /\ \A k \in Nat : k < n + 1 => f[k] = h[k]
      BY <2>1, <2>3
    <3>2. B(f, n + 1) = B(h, n + 1)
      BY <1>1, <3>1
    <3> QED
      BY <2>4, <3>2
  <2>7. ASSUME NEW m \in Nat, m <= n + 1 PROVE m <= n \/ m = n + 1
    BY <2>1, <2>7
  <2>8. UpTo(h, n + 1)
    BY <2>5, <2>6, <2>7
  <2> QED
    BY <2>1, <2>8
<1>4. 0 \in Same
  <2> SUFFICES ASSUME NEW f, NEW g, UpTo(f, 0), UpTo(g, 0), NEW m \in Nat, m <= 0
               PROVE  f[m] = g[m]
    OBVIOUS
  <2>1. m = 0 /\ B(f, 0) = B(g, 0)
    BY <1>1
  <2> QED
    BY <2>1
<1>5. ASSUME NEW n \in Same PROVE n + 1 \in Same
  <2> SUFFICES ASSUME NEW f, NEW g, UpTo(f, n + 1), UpTo(g, n + 1), NEW m \in Nat, m <= n + 1
               PROVE  f[m] = g[m]
    OBVIOUS
  <2>1. n \in Nat /\ UpTo(f, n) /\ UpTo(g, n)
    OBVIOUS
  <2>2. \A k \in Nat : k <= n => f[k] = g[k]
    BY <2>1
  <2>3. B(f, m) = B(g, m)
    <3>1. \A k \in Nat : k < m => k <= n
      BY <2>1
    <3> QED
      BY <1>1, <2>2, <3>1
  <2> QED
    BY <2>3
<1> HIDE DEF UpTo
<1>6. Good = Nat
  <2> HIDE DEF Good
  <2>1. Good \subseteq Nat
    BY DEF Good
  <2> QED
    BY <1>2, <1>3, <2>1, NumberInduction
<1>7. Same = Nat
  <2> HIDE DEF Same
  <2>1. Same \subseteq Nat
    BY DEF Same
  <2> QED
    BY <1>4, <1>5, <2>1, NumberInduction
<1> DEFINE pick == [n \in Nat |-> CHOOSE f : UpTo(f, n)]
           all == [n \in Nat |-> pick[n][n]]
<1>8. \A n \in Nat : UpTo(pick[n], n)
  BY <1>6
<1> HIDE DEF pick
<1>9. ASSUME NEW n \in Nat PROVE all[n] = B(all, n)
  <2>1. ASSUME NEW m \in Nat, m < n PROVE all[m] = pick[n][m]
    <3>1. UpTo(pick[m], m) /\ UpTo(pick[n], m)
      <4>1. UpTo(pick[n], n) /\ UpTo(pick[m], m)
        BY <1>8
      <4>2. \A k \in Nat : k <= m => k <= n
        BY <2>1
      <4> QED
        BY <4>1, <4>2 DEF UpTo
    <3>2. m \in Same /\ m <= m
      BY <1>7
    <3>3. pick[m][m] = pick[n][m]
      BY <3>1, <3>2
    <3> QED
      BY <3>3
  <2>2. B(all, n) = B(pick[n], n)
    <3> HIDE DEF all
    <3> QED
      BY <1>1, <2>1
  <2>3. pick[n][n] = B(pick[n], n)
    BY <1>8 DEF UpTo
  <2> QED
    BY <2>2, <2>3
<1>10. all = [n \in Nat |-> B(all, n)]
  BY <1>9
<1> HIDE DEF all
<1>11. \E f : f = [n \in Nat |-> B(f, n)]
  BY <1>10
<1> QED
  BY <1>0, <1>11 DEF B

\* The values that nest no deeper than n.
LEMMA ValuesAre ==
  ASSUME NEW numbers, NEW chars
  PROVE  Values(numbers, chars) = [n \in Nat |-> Nested(numbers, chars, IF n = 0 THEN {} ELSE Values(numbers, chars)[n - 1])]
<1> DEFINE B(f, n) == Nested(numbers, chars, IF n = 0 THEN {} ELSE f[n - 1])
<1>1. ASSUME NEW f, NEW g, NEW n \in Nat, \A m \in Nat : m < n => f[m] = g[m]
      PROVE  B(f, n) = B(g, n)
  <2>1. (IF n = 0 THEN {} ELSE f[n - 1]) = (IF n = 0 THEN {} ELSE g[n - 1])
    <3>1. n # 0 => n - 1 \in Nat /\ n - 1 < n
      OBVIOUS
    <3> QED
      BY <1>1, <3>1
  <2> QED
    BY <2>1
<1>0. Values(numbers, chars) = CHOOSE f : f = [n \in Nat |-> B(f, n)]
  BY DEF Values
<1> HIDE DEF B
<1> DEFINE UpTo(f, n) == \A m \in Nat : m <= n => f[m] = B(f, m)
           Good == {n \in Nat : \E f : UpTo(f, n)}
           Same == {n \in Nat : \A f, g : UpTo(f, n) /\ UpTo(g, n) => \A m \in Nat : m <= n => f[m] = g[m]}
<1>2. 0 \in Good
  <2> DEFINE f == [m \in Nat |-> B(<< >>, 0)]
  <2>1. B(f, 0) = B(<< >>, 0)
    BY <1>1
  <2>2. UpTo(f, 0)
    BY <2>1
  <2> QED
    BY <2>2
<1>3. ASSUME NEW n \in Good PROVE n + 1 \in Good
  <2>1. n \in Nat /\ \E f : UpTo(f, n)
    OBVIOUS
  <2>2. PICK f : UpTo(f, n)
    BY <2>1
  <2> DEFINE h == [m \in Nat |-> IF m <= n THEN f[m] ELSE B(f, n + 1)]
  <2>3. \A m \in Nat : m <= n => h[m] = f[m]
    OBVIOUS
  <2>4. h[n + 1] = B(f, n + 1)
    BY <2>1
  <2> HIDE DEF h
  <2>5. ASSUME NEW m \in Nat, m <= n PROVE h[m] = B(h, m)
    <3>1. \A k \in Nat : k < m => f[k] = h[k]
      BY <2>1, <2>3, <2>5
    <3>2. B(f, m) = B(h, m)
      BY <1>1, <3>1
    <3> QED
      BY <2>2, <2>3, <2>5, <3>2
  <2>6. h[n + 1] = B(h, n + 1)
    <3>1. n + 1 \in Nat /\ \A k \in Nat : k < n + 1 => f[k] = h[k]
      BY <2>1, <2>3
    <3>2. B(f, n + 1) = B(h, n + 1)
      BY <1>1, <3>1
    <3> QED
      BY <2>4, <3>2
  <2>7. ASSUME NEW m \in Nat, m <= n + 1 PROVE m <= n \/ m = n + 1
    BY <2>1, <2>7
  <2>8. UpTo(h, n + 1)
    BY <2>5, <2>6, <2>7
  <2> QED
    BY <2>1, <2>8
<1>4. 0 \in Same
  <2> SUFFICES ASSUME NEW f, NEW g, UpTo(f, 0), UpTo(g, 0), NEW m \in Nat, m <= 0
               PROVE  f[m] = g[m]
    OBVIOUS
  <2>1. m = 0 /\ B(f, 0) = B(g, 0)
    BY <1>1
  <2> QED
    BY <2>1
<1>5. ASSUME NEW n \in Same PROVE n + 1 \in Same
  <2> SUFFICES ASSUME NEW f, NEW g, UpTo(f, n + 1), UpTo(g, n + 1), NEW m \in Nat, m <= n + 1
               PROVE  f[m] = g[m]
    OBVIOUS
  <2>1. n \in Nat /\ UpTo(f, n) /\ UpTo(g, n)
    OBVIOUS
  <2>2. \A k \in Nat : k <= n => f[k] = g[k]
    BY <2>1
  <2>3. B(f, m) = B(g, m)
    <3>1. \A k \in Nat : k < m => k <= n
      BY <2>1
    <3> QED
      BY <1>1, <2>2, <3>1
  <2> QED
    BY <2>3
<1> HIDE DEF UpTo
<1>6. Good = Nat
  <2> HIDE DEF Good
  <2>1. Good \subseteq Nat
    BY DEF Good
  <2> QED
    BY <1>2, <1>3, <2>1, NumberInduction
<1>7. Same = Nat
  <2> HIDE DEF Same
  <2>1. Same \subseteq Nat
    BY DEF Same
  <2> QED
    BY <1>4, <1>5, <2>1, NumberInduction
<1> DEFINE pick == [n \in Nat |-> CHOOSE f : UpTo(f, n)]
           all == [n \in Nat |-> pick[n][n]]
<1>8. \A n \in Nat : UpTo(pick[n], n)
  BY <1>6
<1> HIDE DEF pick
<1>9. ASSUME NEW n \in Nat PROVE all[n] = B(all, n)
  <2>1. ASSUME NEW m \in Nat, m < n PROVE all[m] = pick[n][m]
    <3>1. UpTo(pick[m], m) /\ UpTo(pick[n], m)
      <4>1. UpTo(pick[n], n) /\ UpTo(pick[m], m)
        BY <1>8
      <4>2. \A k \in Nat : k <= m => k <= n
        BY <2>1
      <4> QED
        BY <4>1, <4>2 DEF UpTo
    <3>2. m \in Same /\ m <= m
      BY <1>7
    <3>3. pick[m][m] = pick[n][m]
      BY <3>1, <3>2
    <3> QED
      BY <3>3
  <2>2. B(all, n) = B(pick[n], n)
    <3> HIDE DEF all
    <3> QED
      BY <1>1, <2>1
  <2>3. pick[n][n] = B(pick[n], n)
    BY <1>8 DEF UpTo
  <2> QED
    BY <2>2, <2>3
<1>10. all = [n \in Nat |-> B(all, n)]
  BY <1>9
<1> HIDE DEF all
<1>11. \E f : f = [n \in Nat |-> B(f, n)]
  BY <1>10
<1> QED
  BY <1>0, <1>11 DEF B

\* What is written.
LEMMA EncodingIs ==
  ASSUME NEW lang
  PROVE  Encoding(lang) = [n \in Nat |-> [v \in Value[n] |-> EncodeWith(lang, v, IF n = 0 THEN << >> ELSE Encoding(lang)[n - 1])]]
<1> DEFINE B(f, n) == [v \in Value[n] |-> EncodeWith(lang, v, IF n = 0 THEN << >> ELSE f[n - 1])]
<1>1. ASSUME NEW f, NEW g, NEW n \in Nat, \A m \in Nat : m < n => f[m] = g[m]
      PROVE  B(f, n) = B(g, n)
  <2>1. (IF n = 0 THEN << >> ELSE f[n - 1]) = (IF n = 0 THEN << >> ELSE g[n - 1])
    <3>1. n # 0 => n - 1 \in Nat /\ n - 1 < n
      OBVIOUS
    <3> QED
      BY <1>1, <3>1
  <2> QED
    BY <2>1
<1>0. Encoding(lang) = CHOOSE f : f = [n \in Nat |-> B(f, n)]
  BY DEF Encoding
<1> HIDE DEF B
<1> DEFINE UpTo(f, n) == \A m \in Nat : m <= n => f[m] = B(f, m)
           Good == {n \in Nat : \E f : UpTo(f, n)}
           Same == {n \in Nat : \A f, g : UpTo(f, n) /\ UpTo(g, n) => \A m \in Nat : m <= n => f[m] = g[m]}
<1>2. 0 \in Good
  <2> DEFINE f == [m \in Nat |-> B(<< >>, 0)]
  <2>1. B(f, 0) = B(<< >>, 0)
    BY <1>1
  <2>2. UpTo(f, 0)
    BY <2>1
  <2> QED
    BY <2>2
<1>3. ASSUME NEW n \in Good PROVE n + 1 \in Good
  <2>1. n \in Nat /\ \E f : UpTo(f, n)
    OBVIOUS
  <2>2. PICK f : UpTo(f, n)
    BY <2>1
  <2> DEFINE h == [m \in Nat |-> IF m <= n THEN f[m] ELSE B(f, n + 1)]
  <2>3. \A m \in Nat : m <= n => h[m] = f[m]
    OBVIOUS
  <2>4. h[n + 1] = B(f, n + 1)
    BY <2>1
  <2> HIDE DEF h
  <2>5. ASSUME NEW m \in Nat, m <= n PROVE h[m] = B(h, m)
    <3>1. \A k \in Nat : k < m => f[k] = h[k]
      BY <2>1, <2>3, <2>5
    <3>2. B(f, m) = B(h, m)
      BY <1>1, <3>1
    <3> QED
      BY <2>2, <2>3, <2>5, <3>2
  <2>6. h[n + 1] = B(h, n + 1)
    <3>1. n + 1 \in Nat /\ \A k \in Nat : k < n + 1 => f[k] = h[k]
      BY <2>1, <2>3
    <3>2. B(f, n + 1) = B(h, n + 1)
      BY <1>1, <3>1
    <3> QED
      BY <2>4, <3>2
  <2>7. ASSUME NEW m \in Nat, m <= n + 1 PROVE m <= n \/ m = n + 1
    BY <2>1, <2>7
  <2>8. UpTo(h, n + 1)
    BY <2>5, <2>6, <2>7
  <2> QED
    BY <2>1, <2>8
<1>4. 0 \in Same
  <2> SUFFICES ASSUME NEW f, NEW g, UpTo(f, 0), UpTo(g, 0), NEW m \in Nat, m <= 0
               PROVE  f[m] = g[m]
    OBVIOUS
  <2>1. m = 0 /\ B(f, 0) = B(g, 0)
    BY <1>1
  <2> QED
    BY <2>1
<1>5. ASSUME NEW n \in Same PROVE n + 1 \in Same
  <2> SUFFICES ASSUME NEW f, NEW g, UpTo(f, n + 1), UpTo(g, n + 1), NEW m \in Nat, m <= n + 1
               PROVE  f[m] = g[m]
    OBVIOUS
  <2>1. n \in Nat /\ UpTo(f, n) /\ UpTo(g, n)
    OBVIOUS
  <2>2. \A k \in Nat : k <= n => f[k] = g[k]
    BY <2>1
  <2>3. B(f, m) = B(g, m)
    <3>1. \A k \in Nat : k < m => k <= n
      BY <2>1
    <3> QED
      BY <1>1, <2>2, <3>1
  <2> QED
    BY <2>3
<1> HIDE DEF UpTo
<1>6. Good = Nat
  <2> HIDE DEF Good
  <2>1. Good \subseteq Nat
    BY DEF Good
  <2> QED
    BY <1>2, <1>3, <2>1, NumberInduction
<1>7. Same = Nat
  <2> HIDE DEF Same
  <2>1. Same \subseteq Nat
    BY DEF Same
  <2> QED
    BY <1>4, <1>5, <2>1, NumberInduction
<1> DEFINE pick == [n \in Nat |-> CHOOSE f : UpTo(f, n)]
           all == [n \in Nat |-> pick[n][n]]
<1>8. \A n \in Nat : UpTo(pick[n], n)
  BY <1>6
<1> HIDE DEF pick
<1>9. ASSUME NEW n \in Nat PROVE all[n] = B(all, n)
  <2>1. ASSUME NEW m \in Nat, m < n PROVE all[m] = pick[n][m]
    <3>1. UpTo(pick[m], m) /\ UpTo(pick[n], m)
      <4>1. UpTo(pick[n], n) /\ UpTo(pick[m], m)
        BY <1>8
      <4>2. \A k \in Nat : k <= m => k <= n
        BY <2>1
      <4> QED
        BY <4>1, <4>2 DEF UpTo
    <3>2. m \in Same /\ m <= m
      BY <1>7
    <3>3. pick[m][m] = pick[n][m]
      BY <3>1, <3>2
    <3> QED
      BY <3>3
  <2>2. B(all, n) = B(pick[n], n)
    <3> HIDE DEF all
    <3> QED
      BY <1>1, <2>1
  <2>3. pick[n][n] = B(pick[n], n)
    BY <1>8 DEF UpTo
  <2> QED
    BY <2>2, <2>3
<1>10. all = [n \in Nat |-> B(all, n)]
  BY <1>9
<1> HIDE DEF all
<1>11. \E f : f = [n \in Nat |-> B(f, n)]
  BY <1>10
<1> QED
  BY <1>0, <1>11 DEF B

\* What is meant.
LEMMA MeaningsAre ==
  Meanings = [n \in Nat |-> [v \in Value[n] |-> MeaningWith(v, IF n = 0 THEN << >> ELSE Meanings[n - 1])]]
<1> DEFINE B(f, n) == [v \in Value[n] |-> MeaningWith(v, IF n = 0 THEN << >> ELSE f[n - 1])]
<1>1. ASSUME NEW f, NEW g, NEW n \in Nat, \A m \in Nat : m < n => f[m] = g[m]
      PROVE  B(f, n) = B(g, n)
  <2>1. (IF n = 0 THEN << >> ELSE f[n - 1]) = (IF n = 0 THEN << >> ELSE g[n - 1])
    <3>1. n # 0 => n - 1 \in Nat /\ n - 1 < n
      OBVIOUS
    <3> QED
      BY <1>1, <3>1
  <2> QED
    BY <2>1
<1>0. Meanings = CHOOSE f : f = [n \in Nat |-> B(f, n)]
  BY DEF Meanings
<1> HIDE DEF B
<1> DEFINE UpTo(f, n) == \A m \in Nat : m <= n => f[m] = B(f, m)
           Good == {n \in Nat : \E f : UpTo(f, n)}
           Same == {n \in Nat : \A f, g : UpTo(f, n) /\ UpTo(g, n) => \A m \in Nat : m <= n => f[m] = g[m]}
<1>2. 0 \in Good
  <2> DEFINE f == [m \in Nat |-> B(<< >>, 0)]
  <2>1. B(f, 0) = B(<< >>, 0)
    BY <1>1
  <2>2. UpTo(f, 0)
    BY <2>1
  <2> QED
    BY <2>2
<1>3. ASSUME NEW n \in Good PROVE n + 1 \in Good
  <2>1. n \in Nat /\ \E f : UpTo(f, n)
    OBVIOUS
  <2>2. PICK f : UpTo(f, n)
    BY <2>1
  <2> DEFINE h == [m \in Nat |-> IF m <= n THEN f[m] ELSE B(f, n + 1)]
  <2>3. \A m \in Nat : m <= n => h[m] = f[m]
    OBVIOUS
  <2>4. h[n + 1] = B(f, n + 1)
    BY <2>1
  <2> HIDE DEF h
  <2>5. ASSUME NEW m \in Nat, m <= n PROVE h[m] = B(h, m)
    <3>1. \A k \in Nat : k < m => f[k] = h[k]
      BY <2>1, <2>3, <2>5
    <3>2. B(f, m) = B(h, m)
      BY <1>1, <3>1
    <3> QED
      BY <2>2, <2>3, <2>5, <3>2
  <2>6. h[n + 1] = B(h, n + 1)
    <3>1. n + 1 \in Nat /\ \A k \in Nat : k < n + 1 => f[k] = h[k]
      BY <2>1, <2>3
    <3>2. B(f, n + 1) = B(h, n + 1)
      BY <1>1, <3>1
    <3> QED
      BY <2>4, <3>2
  <2>7. ASSUME NEW m \in Nat, m <= n + 1 PROVE m <= n \/ m = n + 1
    BY <2>1, <2>7
  <2>8. UpTo(h, n + 1)
    BY <2>5, <2>6, <2>7
  <2> QED
    BY <2>1, <2>8
<1>4. 0 \in Same
  <2> SUFFICES ASSUME NEW f, NEW g, UpTo(f, 0), UpTo(g, 0), NEW m \in Nat, m <= 0
               PROVE  f[m] = g[m]
    OBVIOUS
  <2>1. m = 0 /\ B(f, 0) = B(g, 0)
    BY <1>1
  <2> QED
    BY <2>1
<1>5. ASSUME NEW n \in Same PROVE n + 1 \in Same
  <2> SUFFICES ASSUME NEW f, NEW g, UpTo(f, n + 1), UpTo(g, n + 1), NEW m \in Nat, m <= n + 1
               PROVE  f[m] = g[m]
    OBVIOUS
  <2>1. n \in Nat /\ UpTo(f, n) /\ UpTo(g, n)
    OBVIOUS
  <2>2. \A k \in Nat : k <= n => f[k] = g[k]
    BY <2>1
  <2>3. B(f, m) = B(g, m)
    <3>1. \A k \in Nat : k < m => k <= n
      BY <2>1
    <3> QED
      BY <1>1, <2>2, <3>1
  <2> QED
    BY <2>3
<1> HIDE DEF UpTo
<1>6. Good = Nat
  <2> HIDE DEF Good
  <2>1. Good \subseteq Nat
    BY DEF Good
  <2> QED
    BY <1>2, <1>3, <2>1, NumberInduction
<1>7. Same = Nat
  <2> HIDE DEF Same
  <2>1. Same \subseteq Nat
    BY DEF Same
  <2> QED
    BY <1>4, <1>5, <2>1, NumberInduction
<1> DEFINE pick == [n \in Nat |-> CHOOSE f : UpTo(f, n)]
           all == [n \in Nat |-> pick[n][n]]
<1>8. \A n \in Nat : UpTo(pick[n], n)
  BY <1>6
<1> HIDE DEF pick
<1>9. ASSUME NEW n \in Nat PROVE all[n] = B(all, n)
  <2>1. ASSUME NEW m \in Nat, m < n PROVE all[m] = pick[n][m]
    <3>1. UpTo(pick[m], m) /\ UpTo(pick[n], m)
      <4>1. UpTo(pick[n], n) /\ UpTo(pick[m], m)
        BY <1>8
      <4>2. \A k \in Nat : k <= m => k <= n
        BY <2>1
      <4> QED
        BY <4>1, <4>2 DEF UpTo
    <3>2. m \in Same /\ m <= m
      BY <1>7
    <3>3. pick[m][m] = pick[n][m]
      BY <3>1, <3>2
    <3> QED
      BY <3>3
  <2>2. B(all, n) = B(pick[n], n)
    <3> HIDE DEF all
    <3> QED
      BY <1>1, <2>1
  <2>3. pick[n][n] = B(pick[n], n)
    BY <1>8 DEF UpTo
  <2> QED
    BY <2>2, <2>3
<1>10. all = [n \in Nat |-> B(all, n)]
  BY <1>9
<1> HIDE DEF all
<1>11. \E f : f = [n \in Nat |-> B(f, n)]
  BY <1>10
<1> QED
  BY <1>0, <1>11 DEF B

-----------------------------------------------------------------------------
(* Concatenation.                                                          *)

LEMMA CatType ==
  ASSUME NEW x \in Codes, NEW y \in Codes
  PROVE  /\ Cat(x, y) \in Codes
         /\ Len(x) \in Nat /\ Len(y) \in Nat
         /\ Len(Cat(x, y)) = Len(x) + Len(y)
         /\ \A i \in 1 .. Len(x) : Cat(x, y)[i] = x[i]
         /\ \A i \in 1 .. Len(y) : Cat(x, y)[Len(x) + i] = y[i]
<1> DEFINE z == x \o y
<1>1. /\ z \in Codes /\ Len(z) = Len(x) + Len(y)
      /\ \A i \in 1 .. Len(x) + Len(y) : z[i] = IF i <= Len(x) THEN x[i] ELSE y[i - Len(x)]
  BY ConcatProperties DEF Codes
<1>2. Len(x) \in Nat /\ Len(y) \in Nat
  BY LenProperties DEF Codes
<1> HIDE DEF z
<1>3. PICK m \in Nat : m = Len(x)
  BY <1>2
<1>4. PICK n \in Nat : n = Len(y)
  BY <1>2
<1>5. \A i \in 1 .. m : z[i] = x[i]
  BY <1>1, <1>3, <1>4
<1>6. ASSUME NEW i \in 1 .. n PROVE z[m + i] = y[i]
  <2>1. m + i \in 1 .. m + n /\ ~(m + i <= m) /\ (m + i) - m = i
    OBVIOUS
  <2> QED
    BY <1>1, <1>3, <1>4, <2>1
<1> QED
  BY <1>1, <1>2, <1>3, <1>4, <1>5, <1>6 DEF Cat, z

LEMMA CatLaws ==
  /\ \A x, y, z \in Codes : Cat(Cat(x, y), z) = Cat(x, Cat(y, z))
  /\ \A x, y, z \in Codes : Cat(x, y) = Cat(x, z) => y = z
  /\ \A x \in Codes : Cat(<< >>, x) = x /\ Cat(x, << >>) = x
<1>1. PICK S : S = Nat
  OBVIOUS
<1>2. Codes = Seq(S)
  BY <1>1 DEF Codes
<1>3. \A x, y, z \in Seq(S) : Cat(x, y) = Cat(x, z) => y = z
  BY CancelLeft DEF Cat
<1>4. ASSUME NEW x \in Seq(S) PROVE Cat(<< >>, x) = x /\ Cat(x, << >>) = x
  BY ConcatEmptySeq DEF Cat
<1>5. \A x, y, z \in Codes : Cat(Cat(x, y), z) = Cat(x, Cat(y, z))
  BY CodesAssociative DEF Cat
<1> QED
  BY <1>2, <1>3, <1>4, <1>5

LEMMA CodesLength ==
  ASSUME NEW x \in Codes
  PROVE  /\ Len(x) \in Nat
         /\ x # << >> => Len(x) >= 1
         /\ \A i \in 1 .. Len(x) : x[i] \in Nat
<1>1. Len(x) \in Nat /\ (x # << >> => Len(x) \in Nat \ {0})
  BY EmptySeq, LenProperties DEF Codes
<1>2. \A i \in 1 .. Len(x) : x[i] \in Nat
  BY ElementOfSeq DEF Codes
<1> QED
  BY <1>1, <1>2

\* Texts that begin with two of one length share them.
LEMMA CatSameLength ==
  ASSUME NEW a \in Codes, NEW b \in Codes, NEW x \in Codes, NEW y \in Codes,
         Len(a) = Len(b), Cat(a, x) = Cat(b, y)
  PROVE  a = b
<1>1. \A i \in 1 .. Len(a) : Cat(a, x)[i] = a[i]
  BY CatType
<1>2. \A i \in 1 .. Len(b) : Cat(b, y)[i] = b[i]
  BY CatType
<1>3. \A i \in 1 .. Len(a) : a[i] = b[i]
  BY <1>1, <1>2
<1> QED
  BY <1>3, SeqEqual DEF Codes

LEMMA CatLast ==
  ASSUME NEW s \in Codes, NEW t \in Codes, NEW a \in Nat, NEW b \in Nat,
         Cat(s, <<a>>) = Cat(t, <<b>>)
  PROVE  s = t /\ a = b
<1>1. Append(s, a) = Cat(s, <<a>>) /\ Append(t, b) = Cat(t, <<b>>)
  BY AppendIsConcat DEF Cat, Codes
<1>2. Append(s, a) = Append(t, b)
  BY <1>1
<1> QED
  BY <1>2, AppendInjective DEF Codes

LEMMA OneCode ==
  ASSUME NEW a \in Nat
  PROVE  <<a>> \in Codes /\ <<a>> # << >> /\ Len(<<a>>) = 1 /\ <<a>>[1] = a
BY DEF Codes

-----------------------------------------------------------------------------
(* Numbers.                                                                *)

Figure == 48 .. 57

\* Figures, the first of which may be a sign.
Numerals == {x \in Codes : x # << >> /\ \A i \in 2 .. Len(x) : x[i] \in Figure}

LEMMA DigitsStep ==
  ASSUME NEW n \in Nat
  PROVE  /\ n < 10 => Digits(10)[n] = <<48 + n>>
         /\ n >= 10 => /\ n \div 10 \in Nat /\ n \div 10 < n /\ (n % 10) \in 0 .. 9
                       /\ n = 10 * (n \div 10) + (n % 10)
                       /\ Digits(10)[n] = Cat(Digits(10)[n \div 10], <<48 + (n % 10)>>)
<1>1. Digits(10)[n] =
        IF n < 10 THEN <<HexDigit(n)>> ELSE Digits(10)[n \div 10] \o <<HexDigit(n % 10)>>
  <2>1. Digits(10) = [k \in Nat |->
          IF k < 10 THEN <<HexDigit(k)>> ELSE Digits(10)[k \div 10] \o <<HexDigit(k % 10)>>]
    BY DigitsAre
  <2> QED
    BY <2>1
<1>2. CASE n < 10
  <2>1. HexDigit(n) = 48 + n
    BY <1>2 DEF HexDigit
  <2> QED
    BY <1>1, <1>2, <2>1
<1>3. CASE ~(n < 10)
  <2>1. n \div 10 \in Nat /\ n \div 10 < n /\ (n % 10) \in 0 .. 9 /\ n = 10 * (n \div 10) + (n % 10)
    BY <1>3
  <2>2. HexDigit(n % 10) = 48 + (n % 10)
    BY <2>1 DEF HexDigit
  <2> QED
    BY <1>1, <1>3, <2>1, <2>2 DEF Cat
<1> QED
  BY <1>2, <1>3

Figures(x) == x \in Codes /\ x # << >> /\ \A i \in 1 .. Len(x) : x[i] \in Figure

LEMMA DigitsAreFigures ==
  \A n \in Nat : Figures(Digits(10)[n])
<1> DEFINE D(n) == Digits(10)[n]
           Good == {n \in Nat : \A k \in Nat : k <= n => Figures(D(k))}
<1>1. ASSUME NEW n \in Nat, n < 10 PROVE Figures(D(n))
  <2>0. 48 + n \in Nat /\ 48 + n \in Figure
    BY <1>1 DEF Figure
  <2>1. D(n) = <<48 + n>>
    BY <1>1, DigitsStep
  <2> HIDE DEF D
  <2>2. PICK d \in Nat : d = 48 + n
    BY <2>0
  <2>3. D(n) \in Codes /\ D(n) # << >> /\ Len(D(n)) = 1 /\ D(n)[1] = d
    BY <2>1, <2>2, OneCode
  <2>4. \A i \in 1 .. Len(D(n)) : i = 1
    BY <2>3
  <2> QED
    BY <2>0, <2>2, <2>3, <2>4 DEF Figures
<1>2. ASSUME NEW n \in Nat, n >= 10, Figures(D(n \div 10)) PROVE Figures(D(n))
  <2>1. D(n) = Cat(D(n \div 10), <<48 + (n % 10)>>) /\ (n % 10) \in 0 .. 9
    BY <1>2, DigitsStep
  <2>2. PICK d \in Nat : d = 48 + (n % 10) /\ d \in Figure
    BY <2>1 DEF Figure
  <2>3. <<d>> \in Codes /\ Len(<<d>>) = 1 /\ <<d>>[1] = d
    BY <2>2, OneCode
  <2>4. PICK s \in Codes : s = D(n \div 10) /\ s # << >> /\ \A i \in 1 .. Len(s) : s[i] \in Figure
    BY <1>2 DEF Figures
  <2>5. D(n) = Cat(s, <<d>>)
    BY <2>1, <2>2, <2>4
  <2> HIDE DEF D
  <2>6. /\ D(n) \in Codes /\ Len(s) \in Nat /\ Len(D(n)) = Len(s) + 1
        /\ \A i \in 1 .. Len(s) : D(n)[i] = s[i]
        /\ D(n)[Len(s) + 1] = d
    <3>1. PICK t \in Codes : t = <<d>> /\ Len(t) = 1 /\ t[1] = d
      BY <2>3
    <3>2. 1 \in 1 .. Len(t) /\ D(n) = Cat(s, t)
      BY <2>5, <3>1
    <3>3. /\ Cat(s, t) \in Codes /\ Len(s) \in Nat /\ Len(Cat(s, t)) = Len(s) + Len(t)
          /\ \A i \in 1 .. Len(s) : Cat(s, t)[i] = s[i]
          /\ \A i \in 1 .. Len(t) : Cat(s, t)[Len(s) + i] = t[i]
      BY CatType
    <3> QED
      BY <3>1, <3>2, <3>3
  <2>7. \A i \in 1 .. Len(D(n)) : i \in 1 .. Len(s) \/ i = Len(s) + 1
    BY <2>6
  <2>8. D(n) # << >>
    BY <2>6, EmptySeq
  <2> QED
    BY <2>2, <2>4, <2>6, <2>7, <2>8 DEF Figures
<1> HIDE DEF D
<1>3. 0 \in Good
  <2>1. \A k \in Nat : k <= 0 => k < 10
    OBVIOUS
  <2> QED
    BY <1>1, <2>1
<1>4. ASSUME NEW n \in Good PROVE n + 1 \in Good
  <2> SUFFICES ASSUME NEW k \in Nat, k <= n + 1 PROVE Figures(D(k))
    OBVIOUS
  <2>1. CASE k < 10
    BY <1>1, <2>1
  <2>2. CASE ~(k < 10)
    <3>1. k \div 10 \in Nat /\ k \div 10 <= n
      BY <2>2
    <3> QED
      BY <1>2, <2>2, <3>1
  <2> QED
    BY <2>1, <2>2
<1>5. Good = Nat
  <2> HIDE DEF Good
  <2>1. Good \subseteq Nat
    BY DEF Good
  <2> QED
    BY <1>3, <1>4, <2>1, NumberInduction
<1>6. \A n \in Nat : n \in Good /\ n <= n
  <2> HIDE DEF Good
  <2> QED
    BY <1>5
<1>7. \A n \in Nat : Figures(D(n))
  BY <1>6
<1> QED
  BY <1>7 DEF D

\* No two numbers have the same digits.
LEMMA DigitsTell ==
  \A m, n \in Nat : Digits(10)[m] = Digits(10)[n] => m = n
<1> DEFINE D(n) == Digits(10)[n]
           Tells(k) == \A m \in Nat : D(k) = D(m) => k = m
           Good == {n \in Nat : \A k \in Nat : k <= n => Tells(k)}
<1>1. ASSUME NEW n \in Nat PROVE D(n) \in Codes /\ Len(D(n)) \in Nat \ {0}
  BY DigitsAreFigures, CodesLength DEF Figures
<1>2. ASSUME NEW n \in Nat, n < 10 PROVE D(n) = <<48 + n>> /\ Len(D(n)) = 1
  <2>1. D(n) = <<48 + n>>
    BY <1>2, DigitsStep
  <2> QED
    BY <2>1
<1>3. ASSUME NEW n \in Nat, n >= 10
      PROVE  /\ D(n) = Cat(D(n \div 10), <<48 + (n % 10)>>)
             /\ n \div 10 \in Nat /\ n \div 10 < n /\ (n % 10) \in 0 .. 9
             /\ n = 10 * (n \div 10) + (n % 10)
             /\ Len(D(n)) > 1
  <2>1. /\ D(n) = Cat(D(n \div 10), <<48 + (n % 10)>>)
        /\ n \div 10 \in Nat /\ n \div 10 < n /\ (n % 10) \in 0 .. 9
        /\ n = 10 * (n \div 10) + (n % 10)
    BY <1>3, DigitsStep
  <2>2. PICK d \in Nat : d = 48 + (n % 10)
    BY <2>1
  <2>3. PICK m \in Nat : m = n \div 10
    BY <2>1
  <2>4. <<d>> \in Codes /\ Len(<<d>>) = 1 /\ D(m) \in Codes /\ Len(D(m)) \in Nat \ {0}
    BY <1>1, OneCode
  <2>5. D(n) = Cat(D(m), <<d>>)
    BY <2>1, <2>2, <2>3
  <2> HIDE DEF D
  <2>6. Len(D(n)) = Len(D(m)) + 1
    BY <2>4, <2>5, CatType
  <2>7. Len(D(n)) > 1
    BY <2>4, <2>6
  <2> QED
    BY <2>1, <2>7
<1> HIDE DEF D
<1>4. ASSUME NEW k \in Nat, NEW m \in Nat, D(k) = D(m), k < 10 PROVE k = m
  <2>1. m < 10
    <3> SUFFICES ASSUME m >= 10 PROVE FALSE
      OBVIOUS
    <3>1. Len(D(k)) = 1
      BY <1>2, <1>4
    <3>2. Len(D(m)) > 1
      BY <1>3
    <3> QED
      BY <1>4, <3>1, <3>2
  <2>2. <<48 + k>> = <<48 + m>>
    BY <1>2, <1>4, <2>1
  <2>3. 48 + k = 48 + m
    BY <2>2
  <2> QED
    BY <2>3
<1>5. ASSUME NEW k \in Nat, k >= 10, Tells(k \div 10) PROVE Tells(k)
  <2> SUFFICES ASSUME NEW m \in Nat, D(k) = D(m) PROVE k = m
    OBVIOUS
  <2>1. m >= 10
    <3> SUFFICES ASSUME m < 10 PROVE FALSE
      OBVIOUS
    <3>1. Len(D(m)) = 1
      BY <1>2
    <3>2. Len(D(k)) > 1
      BY <1>3, <1>5
    <3> QED
      BY <3>1, <3>2
  <2>2. PICK a \in Nat : a = k \div 10
    BY <1>3, <1>5
  <2>3. PICK b \in Nat : b = m \div 10
    BY <1>3, <2>1
  <2>4. PICK c \in 0 .. 9 : c = k % 10
    BY <1>3, <1>5
  <2>5. PICK d \in 0 .. 9 : d = m % 10
    BY <1>3, <2>1
  <2>6. PICK e \in Nat : e = 48 + c
    OBVIOUS
  <2>7. PICK g \in Nat : g = 48 + d
    OBVIOUS
  <2>8. Cat(D(a), <<e>>) = Cat(D(b), <<g>>)
    BY <1>3, <1>5, <2>1, <2>2, <2>3, <2>4, <2>5, <2>6, <2>7
  <2>9. D(a) = D(b) /\ e = g
    <3>1. D(a) \in Codes /\ D(b) \in Codes
      BY <1>1
    <3> QED
      BY <2>8, <3>1, CatLast
  <2>10. a = b /\ c = d
    BY <1>5, <2>2, <2>6, <2>7, <2>9
  <2>11. k = 10 * a + c /\ m = 10 * b + d
    BY <1>3, <1>5, <2>1, <2>2, <2>3, <2>4, <2>5
  <2> QED
    BY <2>10, <2>11
<1>6. 0 \in Good
  <2>1. \A k \in Nat : k <= 0 => k < 10
    OBVIOUS
  <2> QED
    BY <1>4, <2>1
<1>7. ASSUME NEW n \in Good PROVE n + 1 \in Good
  <2> SUFFICES ASSUME NEW k \in Nat, k <= n + 1 PROVE Tells(k)
    OBVIOUS
  <2>1. CASE k < 10
    BY <1>4, <2>1
  <2>2. CASE ~(k < 10)
    <3>1. k \div 10 \in Nat /\ k \div 10 <= n
      BY <2>2
    <3>2. Tells(k \div 10)
      BY <3>1
    <3> HIDE DEF Tells
    <3> QED
      BY <1>5, <2>2, <3>2
  <2> QED
    BY <2>1, <2>2
<1>8. Good = Nat
  <2> HIDE DEF Good
  <2>1. Good \subseteq Nat
    BY DEF Good
  <2> QED
    BY <1>6, <1>7, <2>1, NumberInduction
<1>9. ASSUME NEW m \in Nat, NEW n \in Nat, D(m) = D(n) PROVE m = n
  <2>1. m \in Good /\ m <= m
    <3> HIDE DEF Good
    <3> QED
      BY <1>8
  <2> QED
    BY <1>9, <2>1
<1> QED
  BY <1>9 DEF D

\* Where a value ends: a comma, or the end of the array or object it is in.
Stops == {44, 93, 125}

LEMMA DecimalShape ==
  ASSUME NEW n \in Int
  PROVE  /\ Decimal(n) \in Numerals
         /\ Decimal(n)[1] \in Figure \cup {45}
         /\ n < 0 <=> Decimal(n)[1] = 45
<1>1. CASE n < 0
  <2>1. PICK x \in Codes : x = Digits(10)[-n] /\ x # << >> /\ \A i \in 1 .. Len(x) : x[i] \in Figure
    <3>1. -n \in Nat
      BY <1>1
    <3> QED
      BY <3>1, DigitsAreFigures DEF Figures
  <2>2. PICK s \in Codes : s = <<45>> /\ Len(s) = 1 /\ s[1] = 45
    BY OneCode
  <2>3. Decimal(n) = Cat(s, x)
    BY <1>1, <2>1, <2>2 DEF Decimal, Cat
  <2>4. /\ Cat(s, x) \in Codes /\ Len(x) \in Nat /\ Len(Cat(s, x)) = 1 + Len(x)
        /\ \A i \in 1 .. 1 : Cat(s, x)[i] = s[i]
        /\ \A i \in 1 .. Len(x) : Cat(s, x)[1 + i] = x[i]
    BY <2>2, CatType
  <2>5. Decimal(n)[1] = 45
    BY <2>2, <2>3, <2>4
  <2>6. ASSUME NEW i \in 2 .. Len(Decimal(n)) PROVE Decimal(n)[i] \in Figure
    <3>1. PICK j \in 1 .. Len(x) : i = 1 + j
      <4>1. i - 1 \in 1 .. Len(x) /\ 1 + (i - 1) = i
        BY <2>3, <2>4
      <4> QED
        BY <4>1
    <3> QED
      BY <2>1, <2>3, <2>4, <3>1
  <2>7. Decimal(n) # << >>
    BY <2>3, <2>4, EmptySeq
  <2> QED
    BY <1>1, <2>3, <2>4, <2>5, <2>6, <2>7 DEF Numerals
<1>2. CASE ~(n < 0)
  <2>1. PICK x \in Codes : x = Digits(10)[n] /\ x # << >> /\ \A i \in 1 .. Len(x) : x[i] \in Figure
    <3>1. n \in Nat
      BY <1>2
    <3> QED
      BY <3>1, DigitsAreFigures DEF Figures
  <2>2. Decimal(n) = x
    BY <1>2, <2>1 DEF Decimal
  <2>3. Len(x) \in Nat /\ Len(x) >= 1
    BY <2>1, CodesLength
  <2>4. x[1] \in Figure /\ x[1] # 45 /\ \A i \in 2 .. Len(x) : x[i] \in Figure
    BY <2>1, <2>3 DEF Figure
  <2> QED
    BY <1>2, <2>1, <2>2, <2>4 DEF Numerals
<1> QED
  BY <1>1, <1>2

\* No two numbers are written alike.
LEMMA DecimalTells ==
  ASSUME NEW m \in Int, NEW n \in Int, Decimal(m) = Decimal(n)
  PROVE  m = n
<1>1. m < 0 <=> n < 0
  BY DecimalShape
<1>2. CASE m < 0
  <2>1. -m \in Nat /\ -n \in Nat
    BY <1>1, <1>2
  <2>2. PICK x \in Codes : x = Digits(10)[-m]
    BY <2>1, DigitsAreFigures DEF Figures
  <2>3. PICK y \in Codes : y = Digits(10)[-n]
    BY <2>1, DigitsAreFigures DEF Figures
  <2>4. PICK s \in Codes : s = <<45>>
    BY OneCode
  <2>5. Cat(s, x) = Cat(s, y)
    BY <1>1, <1>2, <2>2, <2>3, <2>4 DEF Decimal, Cat
  <2>6. x = y
    BY <2>5, CatLaws
  <2>7. -m = -n
    BY <2>1, <2>2, <2>3, <2>6, DigitsTell
  <2> QED
    BY <2>7
<1>3. CASE ~(m < 0)
  <2>1. m \in Nat /\ n \in Nat
    BY <1>1, <1>3
  <2>2. Digits(10)[m] = Digits(10)[n]
    BY <1>1, <1>3 DEF Decimal
  <2> QED
    BY <2>1, <2>2, DigitsTell
<1> QED
  BY <1>2, <1>3

\* A number ends where no figure follows.
LEMMA NumeralsDelimited == Delimited(Numerals, Stops)
<1>1. ASSUME NEW a \in Numerals, NEW b \in Numerals, NEW x \in Codes, NEW y \in Codes,
             Begins(x, Stops), Cat(a, x) = Cat(b, y), Len(a) < Len(b)
      PROVE  FALSE
  <2>1. a \in Codes /\ b \in Codes /\ a # << >> /\ \A i \in 2 .. Len(b) : b[i] \in Figure
    BY DEF Numerals
  <2>2. PICK m \in Nat : m = Len(a) /\ m >= 1
    BY <2>1, CodesLength
  <2>3. PICK n \in Nat : n = Len(b) /\ m < n
    BY <1>1, <2>1, <2>2, CodesLength
  <2>4. Len(x) \in Nat /\ 1 \in 1 .. Len(x) /\ x[1] \in Stops
    BY <1>1, CodesLength DEF Begins
  <2>5. Cat(a, x)[m + 1] = x[1]
    BY <2>1, <2>2, <2>4, CatType
  <2>6. m + 1 \in 1 .. n /\ m + 1 \in 2 .. n
    BY <2>2, <2>3
  <2>7. Cat(b, y)[m + 1] = b[m + 1]
    BY <2>1, <2>3, <2>6, CatType
  <2>8. b[m + 1] \in Figure
    BY <2>1, <2>3, <2>6
  <2> QED
    <3>1. x[1] = b[m + 1]
      BY <1>1, <2>5, <2>7
    <3> QED
      BY <2>4, <2>8, <3>1 DEF Stops, Figure
<1>2. ASSUME NEW a \in Numerals, NEW b \in Numerals, NEW x \in Codes, NEW y \in Codes,
             Begins(x, Stops), Begins(y, Stops), Cat(a, x) = Cat(b, y)
      PROVE  a = b
  <2>1. a \in Codes /\ b \in Codes
    BY DEF Numerals
  <2>2. ~(Len(a) < Len(b)) /\ ~(Len(b) < Len(a))
    BY <1>1, <1>2
  <2>3. Len(a) \in Nat /\ Len(b) \in Nat
    BY <2>1, CodesLength
  <2>4. Len(a) = Len(b)
    BY <2>2, <2>3
  <2> QED
    BY <1>2, <2>1, <2>4, CatSameLength
<1> QED
  BY <1>2 DEF Delimited, Cat

-----------------------------------------------------------------------------
(* Characters.                                                             *)

LEMMA HexDigitTells ==
  ASSUME NEW c \in 0 .. 15, NEW d \in 0 .. 15
  PROVE  HexDigit(c) \in Nat /\ (HexDigit(c) = HexDigit(d) => c = d)
BY DEF HexDigit

LEMMA CatIs ==
  ASSUME NEW s \in Codes, NEW t \in Codes, NEW u \in Codes, Len(u) = Len(s) + Len(t),
         \A i \in 1 .. Len(s) : u[i] = s[i], \A i \in 1 .. Len(t) : u[Len(s) + i] = t[i]
  PROVE  Cat(s, t) = u
<1>0. PICK m \in Nat : m = Len(s)
  BY CodesLength
<1>3. PICK n \in Nat : n = Len(t)
  BY CodesLength
<1>1. /\ Cat(s, t) \in Codes /\ Len(Cat(s, t)) = m + n
      /\ \A i \in 1 .. m : Cat(s, t)[i] = s[i]
      /\ \A i \in 1 .. n : Cat(s, t)[m + i] = t[i]
  BY <1>0, <1>3, CatType
<1>2. ASSUME NEW i \in 1 .. m + n PROVE Cat(s, t)[i] = u[i]
  <2>1. CASE i \in 1 .. m
    BY <1>0, <1>1, <2>1
  <2>2. CASE i \notin 1 .. m
    <3>1. PICK j \in 1 .. n : i = m + j
      <4>1. i - m \in 1 .. n /\ i = m + (i - m)
        BY <2>2
      <4> QED
        BY <4>1
    <3> QED
      BY <1>0, <1>1, <1>3, <3>1
  <2> QED
    BY <2>1, <2>2
<1> QED
  BY <1>0, <1>1, <1>2, <1>3, SeqEqual DEF Codes

LEMMA TuplesAreCodes ==
  ASSUME NEW a \in Nat, NEW b \in Nat, NEW c \in Nat, NEW d \in Nat
  PROVE  /\ <<a>> \in Codes /\ Len(<<a>>) = 1 /\ <<a>>[1] = a
         /\ <<a, b>> \in Codes /\ Len(<<a, b>>) = 2 /\ <<a, b>>[1] = a /\ <<a, b>>[2] = b
         /\ <<a, b, c>> \in Codes /\ Len(<<a, b, c>>) = 3
         /\ <<a, b, c>>[1] = a /\ <<a, b, c>>[2] = b /\ <<a, b, c>>[3] = c
         /\ <<a, b, c, d>> \in Codes /\ Len(<<a, b, c, d>>) = 4
         /\ <<a, b, c, d>>[1] = a /\ <<a, b, c, d>>[2] = b
         /\ <<a, b, c, d>>[3] = c /\ <<a, b, c, d>>[4] = d
BY DEF Codes

LEMMA ShortTexts ==
  ASSUME NEW a \in Nat, NEW b \in Nat, NEW c \in Nat, NEW d \in Nat
  PROVE  /\ <<a>> \o <<b>> = <<a, b>>
         /\ <<a, b>> \o <<c, d>> = <<a, b, c, d>>
         /\ <<a, b, c>> \o <<d>> = <<a, b, c, d>>
<1> DEFINE A == <<a>>
           B == <<b>>
           D == <<d>>
           AB == <<a, b>>
           CD == <<c, d>>
           ABC == <<a, b, c>>
           ABCD == <<a, b, c, d>>
<1>1. /\ A \in Codes /\ Len(A) = 1 /\ A[1] = a
      /\ B \in Codes /\ Len(B) = 1 /\ B[1] = b
      /\ D \in Codes /\ Len(D) = 1 /\ D[1] = d
      /\ AB \in Codes /\ Len(AB) = 2 /\ AB[1] = a /\ AB[2] = b
      /\ CD \in Codes /\ Len(CD) = 2 /\ CD[1] = c /\ CD[2] = d
      /\ ABC \in Codes /\ Len(ABC) = 3 /\ ABC[1] = a /\ ABC[2] = b /\ ABC[3] = c
      /\ ABCD \in Codes /\ Len(ABCD) = 4
      /\ ABCD[1] = a /\ ABCD[2] = b /\ ABCD[3] = c /\ ABCD[4] = d
  BY TuplesAreCodes
<1> HIDE DEF A, B, D, AB, CD, ABC, ABCD
<1>2. Cat(A, B) = AB
  <2>1. /\ Len(AB) = Len(A) + Len(B)
        /\ \A i \in 1 .. Len(A) : AB[i] = A[i]
        /\ \A i \in 1 .. Len(B) : AB[Len(A) + i] = B[i]
    BY <1>1
  <2> QED
    BY <1>1, <2>1, CatIs
<1>3. Cat(AB, CD) = ABCD
  <2>1. /\ Len(ABCD) = Len(AB) + Len(CD)
        /\ \A i \in 1 .. Len(AB) : ABCD[i] = AB[i]
        /\ \A i \in 1 .. Len(CD) : ABCD[Len(AB) + i] = CD[i]
    BY <1>1
  <2> QED
    BY <1>1, <2>1, CatIs
<1>4. Cat(ABC, D) = ABCD
  <2>1. /\ Len(ABCD) = Len(ABC) + Len(D)
        /\ \A i \in 1 .. Len(ABC) : ABCD[i] = ABC[i]
        /\ \A i \in 1 .. Len(D) : ABCD[Len(ABC) + i] = D[i]
    BY <1>1
  <2> QED
    BY <1>1, <2>1, CatIs
<1> QED
  BY <1>2, <1>3, <1>4 DEF Cat, A, B, D, AB, CD, ABC, ABCD

\* The two ways to write a control character.
Control(n) == <<48, 48, HexDigit(n \div 16), HexDigit(n % 16)>>

LEMMA HexAsFormatted ==
  ASSUME NEW n \in 0 .. 31, NEW lang, lang # "ts"
  PROVE  Hex4(lang, n) = Control(n)
<1>1. 16 ^ 0 = 1 /\ 16 ^ 1 = 16 /\ 16 ^ 2 = 256 /\ 16 ^ 3 = 4096
  OBVIOUS
<1> DEFINE d(i) == HexDigit((n \div 16 ^ (4 - i)) % 16)
<1>2. d(1) = 48
  <2>1. 4 - 1 = 3 /\ (n \div 4096) % 16 = 0
    OBVIOUS
  <2> QED
    BY <1>1, <2>1 DEF HexDigit
<1>3. d(2) = 48
  <2>1. 4 - 2 = 2 /\ (n \div 256) % 16 = 0
    OBVIOUS
  <2> QED
    BY <1>1, <2>1 DEF HexDigit
<1>4. d(3) = HexDigit(n \div 16)
  <2>1. 4 - 3 = 1 /\ (n \div 16) % 16 = n \div 16
    OBVIOUS
  <2> QED
    BY <1>1, <2>1
<1>5. d(4) = HexDigit(n % 16)
  <2>1. 4 - 4 = 0 /\ n \div 1 = n
    OBVIOUS
  <2> QED
    BY <1>1, <2>1
<1>6. Hex4(lang, n) = [i \in 1 .. 4 |-> d(i)]
  BY DEF Hex4
<1> HIDE DEF d
<1>7. [i \in 1 .. 4 |-> d(i)] = <<d(1), d(2), d(3), d(4)>>
  OBVIOUS
<1> QED
  BY <1>2, <1>3, <1>4, <1>5, <1>6, <1>7 DEF Control

LEMMA HexAsPadded ==
  ASSUME NEW n \in 0 .. 31
  PROVE  Hex4("ts", n) = Control(n)
<1>1. \A k \in Nat : Digits(16)[k] =
        IF k < 16 THEN <<HexDigit(k)>> ELSE Digits(16)[k \div 16] \o <<HexDigit(k % 16)>>
  <2>1. Digits(16) = [k \in Nat |->
          IF k < 16 THEN <<HexDigit(k)>> ELSE Digits(16)[k \div 16] \o <<HexDigit(k % 16)>>]
    BY DigitsAre
  <2> QED
    BY <2>1
<1>0. n \in Nat /\ 1 \in Nat
  OBVIOUS
<1>2. HexDigit(0) = 48
  BY DEF HexDigit
<1>3. Hex4("ts", n) = Zeros(4 - Len(Digits(16)[n])) \o Digits(16)[n]
  BY DEF Hex4
<1>4. PICK c \in Nat : c = HexDigit(n % 16)
  BY DEF HexDigit
<1>5. CASE n < 16
  <2>1. Digits(16)[n] = <<c>>
    <3>1. n % 16 = n
      BY <1>5
    <3>2. Digits(16)[n] = <<HexDigit(n)>>
      BY <1>0, <1>1, <1>5
    <3> QED
      BY <1>4, <3>1, <3>2
  <2>2. n \div 16 = 0
    BY <1>5
  <2>3. Zeros(3) = <<48, 48, 48>>
    BY DEF Zeros
  <2>4. Len(<<c>>) = 1 /\ 4 - 1 = 3
    OBVIOUS
  <2>5. <<48, 48, 48>> \o <<c>> = <<48, 48, 48, c>>
    <3>1. 48 \in Nat
      OBVIOUS
    <3> QED
      BY <3>1, ShortTexts
  <2> QED
    BY <1>2, <1>3, <1>4, <2>1, <2>2, <2>3, <2>4, <2>5 DEF Control
<1>6. CASE ~(n < 16)
  <2>1. n \div 16 = 1
    BY <1>6
  <2>2. Digits(16)[1] = <<HexDigit(1)>>
    <3>1. 1 \in Nat /\ 1 < 16
      OBVIOUS
    <3> QED
      BY <1>1, <3>1
  <2>3. PICK b \in Nat : b = HexDigit(1)
    BY DEF HexDigit
  <2>4. Digits(16)[n] = <<b>> \o <<c>>
    <3>1. Digits(16)[n] = Digits(16)[n \div 16] \o <<HexDigit(n % 16)>>
      BY <1>0, <1>1, <1>6
    <3> QED
      BY <1>4, <2>1, <2>2, <2>3, <3>1
  <2>5. Zeros(2) = <<48, 48>>
    BY DEF Zeros
  <2>6. Len(<<b, c>>) = 2 /\ 4 - 2 = 2
    OBVIOUS
  <2>7. <<b>> \o <<c>> = <<b, c>> /\ <<48, 48>> \o <<b, c>> = <<48, 48, b, c>>
    BY ShortTexts
  <2> QED
    BY <1>3, <1>4, <2>1, <2>3, <2>4, <2>5, <2>6, <2>7 DEF Control
<1> QED
  BY <1>5, <1>6

\* The characters that have an escape of their own.
LEMMA NamedAre ==
  /\ DOMAIN Named = {8, 9, 10, 12, 13, 34, 92}
  /\ \A c \in DOMAIN Named : Named[c] \in Nat /\ Named[c] # 117
  /\ \A c, d \in DOMAIN Named : Named[c] = Named[d] => c = d
<1>1. DOMAIN Named = {8, 9, 10, 12, 13, 34, 92}
  BY DEF Named, Quote, Backslash
<1>2. /\ Named[8] = 98 /\ Named[9] = 116 /\ Named[10] = 110 /\ Named[12] = 102
      /\ Named[13] = 114 /\ Named[34] = 34 /\ Named[92] = 92
  BY DEF Named, Quote, Backslash
<1> QED
  BY <1>1, <1>2

LEMMA EscapedAlike ==
  ASSUME NEW ch \in Nat, NEW lang
  PROVE  Escaped(lang, ch) = Escaped("rust", ch)
<1>1. ch < 32 => Hex4(lang, ch) = Hex4("rust", ch)
  <2> SUFFICES ASSUME ch < 32 PROVE Hex4(lang, ch) = Hex4("rust", ch)
    OBVIOUS
  <2>1. ch \in 0 .. 31 /\ "rust" # "ts"
    OBVIOUS
  <2>2. Hex4("rust", ch) = Control(ch)
    BY <2>1, HexAsFormatted
  <2>3. CASE lang = "ts"
    BY <2>1, <2>2, <2>3, HexAsPadded
  <2>4. CASE lang # "ts"
    BY <2>1, <2>2, <2>4, HexAsFormatted
  <2> QED
    BY <2>3, <2>4
<1> QED
  BY <1>1 DEF Escaped

\* How e, what is written for the character ch, can be told from the others.
Written(e, ch) ==
  \/ /\ Len(e) = 2 /\ e[1] = 92 /\ e[2] # 117
     /\ ch \in DOMAIN Named /\ e[2] = Named[ch]
  \/ /\ Len(e) = 6 /\ e[1] = 92 /\ e[2] = 117
     /\ ch \in 0 .. 31 /\ e[5] = HexDigit(ch \div 16) /\ e[6] = HexDigit(ch % 16)
  \/ Len(e) = 1 /\ e[1] = ch /\ ch # 92

LEMMA EscapedIsWritten ==
  ASSUME NEW ch \in Nat, NEW e, e = Escaped("rust", ch)
  PROVE  /\ e \in Codes /\ e # << >> /\ e[1] \in Nat \ {34}
         /\ Written(e, ch)
<1>1. CASE ch \in DOMAIN Named
  <2>1. PICK d \in Nat : d = Named[ch] /\ d # 117
    BY <1>1, NamedAre
  <2>2. e = <<92, d>>
    BY <1>1, <2>1 DEF Escaped, Backslash
  <2>3. 92 \in Nat
    OBVIOUS
  <2>4. <<92, d>> \in Codes /\ Len(<<92, d>>) = 2 /\ <<92, d>>[1] = 92 /\ <<92, d>>[2] = d
    BY <2>3, TuplesAreCodes
  <2>5. e \in Codes /\ Len(e) = 2 /\ e[1] = 92 /\ e[2] = d
    BY <2>2, <2>4
  <2>6. e # << >>
    BY <2>5, EmptySeq
  <2> QED
    BY <1>1, <2>1, <2>5, <2>6 DEF Written
<1>2. CASE ch \notin DOMAIN Named /\ ch < 32
  <2>1. ch \in 0 .. 31 /\ "rust" # "ts"
    BY <1>2
  <2>2. HexDigit(ch \div 16) \in Nat /\ HexDigit(ch % 16) \in Nat
    <3>1. ch \div 16 \in Nat /\ ch % 16 \in Nat
      BY <2>1
    <3> QED
      BY <3>1 DEF HexDigit
  <2>3. PICK p \in Nat : p = HexDigit(ch \div 16)
    BY <2>2
  <2>4. PICK q \in Nat : q = HexDigit(ch % 16)
    BY <2>2
  <2> DEFINE s == <<92, 117>>
             t == <<48, 48, p, q>>
  <2>5. Hex4("rust", ch) = t
    BY <2>1, <2>3, <2>4, HexAsFormatted DEF Control
  <2>6. e = Cat(s, t)
    BY <1>2, <2>5 DEF Escaped, Backslash, Cat
  <2>7. s \in Codes /\ Len(s) = 2 /\ s[1] = 92 /\ s[2] = 117
    <3>1. PICK a \in Nat, b \in Nat : a = 92 /\ b = 117
      OBVIOUS
    <3>2. <<a, b>> \in Codes /\ Len(<<a, b>>) = 2 /\ <<a, b>>[1] = a /\ <<a, b>>[2] = b
      BY <3>1 DEF Codes
    <3> QED
      BY <3>1, <3>2
  <2>8. t \in Codes /\ Len(t) = 4 /\ t[3] = p /\ t[4] = q
    <3>1. 48 \in Nat /\ p \in Nat /\ q \in Nat
      BY <2>3, <2>4
    <3> QED
      BY <3>1, TuplesAreCodes
  <2> HIDE DEF s, t
  <2>9. /\ e \in Codes /\ Len(e) = 2 + 4
        /\ \A i \in 1 .. 2 : e[i] = s[i]
        /\ \A i \in 1 .. 4 : e[2 + i] = t[i]
    <3>1. /\ Cat(s, t) \in Codes /\ Len(Cat(s, t)) = Len(s) + Len(t)
          /\ \A i \in 1 .. Len(s) : Cat(s, t)[i] = s[i]
          /\ \A i \in 1 .. Len(t) : Cat(s, t)[Len(s) + i] = t[i]
      <4>1. s \in Codes /\ t \in Codes
        BY <2>7, <2>8
      <4> QED
        BY <4>1, CatType
    <3> QED
      BY <2>6, <2>7, <2>8, <3>1
  <2>10. e[1] = 92 /\ e[2] = 117 /\ e[2 + 3] = p /\ e[2 + 4] = q
    BY <2>7, <2>8, <2>9
  <2>11. e[5] = p /\ e[6] = q /\ Len(e) = 6
    BY <2>9, <2>10
  <2>12. e # << >>
    BY <2>11, EmptySeq
  <2> QED
    BY <2>1, <2>3, <2>4, <2>9, <2>10, <2>11, <2>12 DEF Written
<1>3. CASE ch \notin DOMAIN Named /\ ~(ch < 32)
  <2>1. e = <<ch>>
    BY <1>3 DEF Escaped
  <2>2. e \in Codes /\ e # << >> /\ Len(e) = 1 /\ e[1] = ch
    BY <2>1, OneCode
  <2>3. ch # 34 /\ ch # 92
    BY <1>3, NamedAre
  <2> QED
    BY <2>2, <2>3 DEF Written
<1> QED
  BY <1>1, <1>2, <1>3

\* No two characters are written alike.
LEMMA EscapedTells ==
  ASSUME NEW c \in Nat, NEW d \in Nat, Escaped("rust", c) = Escaped("rust", d)
  PROVE  c = d
<1>1. PICK e : e = Escaped("rust", c)
  OBVIOUS
<1>2. Written(e, c) /\ Written(e, d)
  BY <1>1, EscapedIsWritten
<1>3. CASE Len(e) = 1
  BY <1>2, <1>3 DEF Written
<1>4. CASE Len(e) = 2
  BY <1>2, <1>4, NamedAre DEF Written
<1>5. CASE Len(e) = 6
  <2>1. /\ c \in 0 .. 31 /\ d \in 0 .. 31
        /\ HexDigit(c \div 16) = HexDigit(d \div 16) /\ HexDigit(c % 16) = HexDigit(d % 16)
    BY <1>2, <1>5 DEF Written
  <2>2. /\ c \div 16 \in 0 .. 15 /\ d \div 16 \in 0 .. 15 /\ c % 16 \in 0 .. 15 /\ d % 16 \in 0 .. 15
        /\ c = 16 * (c \div 16) + (c % 16) /\ d = 16 * (d \div 16) + (d % 16)
    BY <2>1
  <2>3. c \div 16 = d \div 16 /\ c % 16 = d % 16
    BY <2>1, <2>2, HexDigitTells
  <2> QED
    BY <2>2, <2>3
<1> QED
  BY <1>2, <1>3, <1>4, <1>5 DEF Written

Escapes == {Escaped("rust", ch) : ch \in Scalar}

LEMMA ScalarsAreNumbers == Scalar \subseteq Nat
BY DEF Scalar

\* What is written for a character is determined whatever follows, and is not
\* taken for the end of the text.
LEMMA EscapesArePieces == Pieces(Escapes, Nat, Quote)
<1>1. ASSUME NEW a \in Escapes
      PROVE  /\ a \in Codes /\ a # << >> /\ a[1] \in Nat \ {34}
             /\ Len(a) = IF a[1] # 92 THEN 1 ELSE IF a[2] # 117 THEN 2 ELSE 6
  <2>1. PICK ch \in Nat : a = Escaped("rust", ch)
    BY ScalarsAreNumbers DEF Escapes
  <2>2. a \in Codes /\ a # << >> /\ a[1] \in Nat \ {34} /\ Written(a, ch)
    BY <2>1, EscapedIsWritten
  <2> QED
    BY <2>2 DEF Written
<1>2. ASSUME NEW a \in Escapes, NEW b \in Escapes, NEW x \in Codes, NEW y \in Codes,
             Cat(a, x) = Cat(b, y)
      PROVE  a = b
  <2>1. a \in Codes /\ b \in Codes /\ Len(a) \in Nat /\ Len(b) \in Nat /\ Len(a) >= 1 /\ Len(b) >= 1
    BY <1>1, CodesLength
  <2>2. /\ \A i \in 1 .. Len(a) : Cat(a, x)[i] = a[i]
        /\ \A i \in 1 .. Len(b) : Cat(b, y)[i] = b[i]
    BY <2>1, CatType
  <2>3. a[1] = b[1]
    BY <1>2, <2>1, <2>2
  <2>4. a[1] = 92 => a[2] = b[2]
    <3> SUFFICES ASSUME a[1] = 92 PROVE a[2] = b[2]
      OBVIOUS
    <3>1. Len(a) >= 2 /\ Len(b) >= 2
      BY <1>1, <2>3
    <3>2. 2 \in 1 .. Len(a) /\ 2 \in 1 .. Len(b)
      BY <2>1, <3>1
    <3> QED
      BY <1>2, <2>2, <3>2
  <2>5. Len(a) = Len(b)
    BY <1>1, <2>3, <2>4
  <2> QED
    BY <1>2, <2>1, <2>5, CatSameLength
<1>3. Delimited(Escapes, Nat)
  BY <1>2 DEF Delimited, Cat
<1> QED
  BY <1>1, <1>3 DEF Pieces, Begins, Quote

-----------------------------------------------------------------------------
(* Texts.                                                                  *)

Escapings(lang, s) == [i \in DOMAIN s |-> Escaped(lang, s[i])]

LEMMA EscapingsAre ==
  ASSUME NEW s \in Seq(Scalar)
  PROVE  /\ Escapings("rust", s) \in Seq(Escapes)
         /\ Len(Escapings("rust", s)) = Len(s)
         /\ \A i \in 1 .. Len(s) : Escapings("rust", s)[i] = Escaped("rust", s[i])
         /\ \A lang : Escapings(lang, s) = Escapings("rust", s)
<1>1. Len(s) \in Nat /\ DOMAIN s = 1 .. Len(s) /\ \A i \in 1 .. Len(s) : s[i] \in Scalar
  BY LenProperties, ElementOfSeq
<1>2. PICK n \in Nat : n = Len(s)
  BY <1>1
<1>3. \A i \in 1 .. n : Escaped("rust", s[i]) \in Escapes
  BY <1>1, <1>2 DEF Escapes
<1>4. Escapings("rust", s) = [i \in 1 .. n |-> Escaped("rust", s[i])]
  BY <1>1, <1>2 DEF Escapings
<1>5. ASSUME NEW lang PROVE Escapings(lang, s) = Escapings("rust", s)
  <2>1. \A i \in 1 .. n : Escaped(lang, s[i]) = Escaped("rust", s[i])
    BY <1>1, <1>2, EscapedAlike, ScalarsAreNumbers
  <2>2. Escapings(lang, s) = [i \in 1 .. n |-> Escaped(lang, s[i])]
    BY <1>1, <1>2 DEF Escapings
  <2> QED
    BY <1>4, <2>1, <2>2
<1>6. Escapings("rust", s) \in Seq(Escapes) /\ Len(Escapings("rust", s)) = n
  BY <1>3, <1>4
<1> QED
  BY <1>2, <1>4, <1>5, <1>6

LEMMA HeadOfCat ==
  ASSUME NEW a \in Codes, NEW x \in Codes, a # << >>
  PROVE  Cat(a, x) \in Codes /\ Cat(a, x) # << >> /\ Cat(a, x)[1] = a[1]
BY HeadOfConcat DEF Cat

LEMMA QuotedAlike ==
  ASSUME NEW s \in Seq(Scalar), NEW lang
  PROVE  Quoted(lang, s) = Quoted("rust", s)
<1>1. Escapings(lang, s) = Escapings("rust", s)
  BY EscapingsAre
<1> QED
  BY <1>1 DEF Quoted, Escapings

Unquoted(s) == FlattenSeq(Escapings("rust", s))

LEMMA QuotedIs ==
  ASSUME NEW s \in Seq(Scalar)
  PROVE  /\ Unquoted(s) \in Codes
         /\ Quoted("rust", s) \in Codes
         /\ Quoted("rust", s) # << >> /\ Quoted("rust", s)[1] = 34
         /\ \A x \in Codes :
              Cat(Quoted("rust", s), x) = Cat(<<34>>, Cat(Unquoted(s), Cat(<<34>>, x)))
<1> DEFINE q == <<34>>
           u == Unquoted(s)
<1>1. q \in Codes /\ q # << >> /\ q[1] = 34
  <2>1. 34 \in Nat
    OBVIOUS
  <2> QED
    BY <2>1, OneCode
<1>2. u \in Codes
  <2>1. Escapes \subseteq Codes
    BY EscapesArePieces DEF Pieces
  <2>2. Escapings("rust", s) \in Seq(Codes)
    BY <2>1, EscapingsAre, SeqMonotonic
  <2> QED
    BY <2>2, FlattenType DEF Unquoted, Codes
<1>3. Quoted("rust", s) = Cat(Cat(q, u), q)
  BY DEF Quoted, Unquoted, Escapings, Cat, Quote
<1> HIDE DEF q, u
<1>4. Cat(u, q) \in Codes /\ Cat(q, u) \in Codes
  BY <1>1, <1>2, CatType
<1>5. Quoted("rust", s) = Cat(q, Cat(u, q))
  BY <1>1, <1>2, <1>3, CatLaws
<1>6. Quoted("rust", s) \in Codes /\ Quoted("rust", s) # << >> /\ Quoted("rust", s)[1] = 34
  BY <1>1, <1>4, <1>5, HeadOfCat
<1>7. ASSUME NEW x \in Codes
      PROVE  Cat(Quoted("rust", s), x) = Cat(q, Cat(u, Cat(q, x)))
  <2>1. Cat(Cat(Cat(q, u), q), x) = Cat(Cat(q, u), Cat(q, x))
    BY <1>1, <1>4, <1>7, CatLaws
  <2>2. Cat(q, x) \in Codes
    BY <1>1, <1>7, CatType
  <2>3. Cat(Cat(q, u), Cat(q, x)) = Cat(q, Cat(u, Cat(q, x)))
    BY <1>1, <1>2, <2>2, CatLaws
  <2> QED
    BY <1>3, <2>1, <2>3
<1> QED
  BY <1>2, <1>6, <1>7 DEF q, u

\* A text is read back, whatever follows it.
LEMMA QuotedDetermined ==
  ASSUME NEW s \in Seq(Scalar), NEW t \in Seq(Scalar), NEW x \in Codes, NEW y \in Codes,
         Cat(Quoted("rust", s), x) = Cat(Quoted("rust", t), y)
  PROVE  s = t /\ x = y
<1> DEFINE q == <<34>>
<1>1. q \in Codes
  <2>1. 34 \in Nat
    OBVIOUS
  <2> QED
    BY <2>1, OneCode
<1>2. /\ Unquoted(s) \in Codes /\ Unquoted(t) \in Codes
      /\ Cat(Quoted("rust", s), x) = Cat(q, Cat(Unquoted(s), Cat(q, x)))
      /\ Cat(Quoted("rust", t), y) = Cat(q, Cat(Unquoted(t), Cat(q, y)))
  BY QuotedIs
<1> HIDE DEF q
<1>3. /\ Cat(q, x) \in Codes /\ Cat(q, y) \in Codes
      /\ Cat(Unquoted(s), Cat(q, x)) \in Codes /\ Cat(Unquoted(t), Cat(q, y)) \in Codes
  BY <1>1, <1>2, CatType
<1>4. Cat(Unquoted(s), Cat(q, x)) = Cat(Unquoted(t), Cat(q, y))
  BY <1>1, <1>2, <1>3, CatLaws
<1>5. Cat(FlattenSeq(Escapings("rust", s)), Cat(<<Quote>>, x)) = Cat(FlattenSeq(Escapings("rust", t)), Cat(<<Quote>>, y))
  BY <1>4 DEF Unquoted, q, Quote
<1>6. Escapings("rust", s) \in Seq(Escapes) /\ Escapings("rust", t) \in Seq(Escapes)
  BY EscapingsAre
<1>7. Escapings("rust", s) = Escapings("rust", t) /\ x = y
  BY <1>5, <1>6, EscapesArePieces, PiecesDetermined
<1>8. Len(s) = Len(t) /\ \A i \in 1 .. Len(s) : Escaped("rust", s[i]) = Escaped("rust", t[i])
  BY <1>7, EscapingsAre
<1>9. ASSUME NEW i \in 1 .. Len(s) PROVE s[i] = t[i]
  <2>1. s[i] \in Nat /\ t[i] \in Nat
    BY <1>8, ElementOfSeq, ScalarsAreNumbers
  <2> QED
    BY <1>8, <2>1, EscapedTells
<1> QED
  BY <1>7, <1>8, <1>9, SeqEqual

-----------------------------------------------------------------------------
(* Lists.                                                                  *)

\* After the pieces there is a code of K, be it of one of them or the last.
LEMMA PiecesBegin ==
  ASSUME NEW A, NEW K, NEW c, Pieces(A, K, c), NEW ss \in Seq(A), NEW x \in Codes
  PROVE  /\ FlattenSeq(ss) \in Codes
         /\ Cat(FlattenSeq(ss), Cat(<<c>>, x)) \in Codes
         /\ Begins(Cat(FlattenSeq(ss), Cat(<<c>>, x)), K)
<1> DEFINE z == Cat(<<c>>, x)
           E == << >>
           F(us) == FlattenSeq(us)
           T(us) == Tail(us)
<1>1. c \in K /\ <<c>> \in Codes /\ <<c>> # << >> /\ <<c>>[1] = c
  BY OneCode DEF Pieces
<1>2. z \in Codes /\ z # << >> /\ z[1] = c
  BY <1>1, HeadOfCat
<1>4. F(ss) \in Codes
  <2>1. ss \in Seq(Codes)
    BY SeqMonotonic DEF Pieces
  <2> QED
    BY <2>1, FlattenType DEF Codes
<1>5. Cat(F(ss), z) \in Codes
  BY <1>2, <1>4, CatType
<1>6. CASE ss = E
  <2>1. F(ss) = E
    BY <1>6, EmptySeq DEF FlattenSeq
  <2>2. Cat(F(ss), z) = z
    BY <1>2, <2>1, CatLaws
  <2> QED
    BY <1>1, <1>2, <1>4, <2>2 DEF Begins
<1>7. CASE ss # E
  <2>1. ss[1] \in A
    <3>1. Len(ss) \in Nat /\ Len(ss) # 0
      BY <1>7, EmptySeq, LenProperties
    <3>2. 1 \in 1 .. Len(ss)
      BY <3>1
    <3> QED
      BY <3>2, ElementOfSeq
  <2>2. PICK a : a = ss[1]
    OBVIOUS
  <2>3. a \in Codes /\ a # << >> /\ a[1] \in K
    BY <2>1, <2>2 DEF Pieces, Begins
  <2>4. F(T(ss)) \in Codes /\ F(ss) = Cat(a, F(T(ss)))
    <3>1. ss \in Seq(Codes)
      BY SeqMonotonic DEF Pieces
    <3> QED
      BY <1>7, <2>2, <3>1, FlattenFirst DEF Codes, Cat
  <2> HIDE DEF z, F, T
  <2>5. F(ss) # << >> /\ F(ss)[1] = a[1]
    BY <2>3, <2>4, HeadOfCat
  <2>6. Cat(F(ss), z) # << >> /\ Cat(F(ss), z)[1] = a[1]
    BY <1>2, <1>4, <2>5, HeadOfCat
  <2>7. Begins(Cat(F(ss), z), K)
    BY <2>3, <2>6 DEF Begins
  <2> QED
    BY <1>4, <1>5, <2>7 DEF F, z
<1> QED
  BY <1>6, <1>7

\* What a list is made of, besides its first element.
Further(A) == {Cat(<<44>>, a) : a \in A}

Listed(A) == A \subseteq Codes /\ Delimited(A, Stops) /\ \A a \in A : a # << >> /\ a[1] \notin Stops

LEMMA Comma == <<44>> \in Codes /\ <<44>> # << >> /\ <<44>>[1] = 44
<1>1. PICK n \in Nat : n = 44
  OBVIOUS
<1>2. <<n>> \in Codes /\ <<n>> # << >> /\ <<n>>[1] = n
  BY <1>1, OneCode
<1> QED
  BY <1>1, <1>2

LEMMA FurtherArePieces ==
  ASSUME NEW A, Listed(A), NEW end \in {93, 125}
  PROVE  Pieces(Further(A), Stops, end)
<1>1. ASSUME NEW a \in A
      PROVE  a \in Codes /\ Cat(<<44>>, a) \in Codes /\ Begins(Cat(<<44>>, a), Stops \ {end})
  <2>1. a \in Codes
    BY DEF Listed
  <2>2. Cat(<<44>>, a) \in Codes /\ Cat(<<44>>, a) # << >> /\ Cat(<<44>>, a)[1] = 44
    BY <2>1, Comma, HeadOfCat
  <2>3. 44 \in Stops \ {end}
    BY DEF Stops
  <2> QED
    BY <2>1, <2>2, <2>3 DEF Begins
<1>2. ASSUME NEW a \in A, NEW b \in A, NEW x \in Codes, NEW y \in Codes,
             Begins(x, Stops), Begins(y, Stops),
             Cat(Cat(<< 44 >>, a), x) = Cat(Cat(<< 44 >>, b), y)
      PROVE  a = b
  <2>1. a \in Codes /\ b \in Codes /\ Cat(a, x) \in Codes /\ Cat(b, y) \in Codes
    BY <1>1, CatType
  <2>2. Cat(<<44>>, Cat(a, x)) = Cat(<<44>>, Cat(b, y))
    BY <1>2, <2>1, Comma, CatLaws
  <2>3. Cat(a, x) = Cat(b, y)
    BY <2>1, <2>2, Comma, CatLaws
  <2> QED
    BY <1>2, <2>3 DEF Listed, Delimited, Cat
<1>3. Delimited(Further(A), Stops)
  <2> SUFFICES ASSUME NEW p \in Further(A), NEW q \in Further(A), NEW x \in Codes, NEW y \in Codes,
                      Begins(x, Stops), Begins(y, Stops), Cat(p, x) = Cat(q, y)
               PROVE  p = q
    BY DEF Delimited, Cat
  <2>1. PICK a \in A : p = Cat(<<44>>, a)
    BY DEF Further
  <2>2. PICK b \in A : q = Cat(<<44>>, b)
    BY DEF Further
  <2> QED
    BY <1>2, <2>1, <2>2
<1>4. end \in Stops \cap Nat
  BY DEF Stops
<1> QED
  BY <1>1, <1>3, <1>4 DEF Pieces, Further

Parts(ps) == [i \in DOMAIN ps |-> IF i = 1 THEN ps[i] ELSE Cat(<<44>>, ps[i])]

LEMMA JoinedIs ==
  ASSUME NEW A, Listed(A), NEW ps \in Seq(A)
  PROVE  /\ Joined(ps) \in Codes
         /\ Joined(<< >>) = << >>
         /\ ps # << >> => /\ Len(ps) \in Nat \ {0} /\ ps[1] \in A
                          /\ Tail(Parts(ps)) \in Seq(Further(A))
                          /\ Len(Tail(Parts(ps))) = Len(ps) - 1
                          /\ \A i \in 2 .. Len(ps) :
                               ps[i] \in A /\ Tail(Parts(ps))[i - 1] = Cat(<<44>>, ps[i])
                          /\ Joined(ps) = Cat(ps[1], FlattenSeq(Tail(Parts(ps))))
                          /\ FlattenSeq(Tail(Parts(ps))) \in Codes
<1>1. Joined(ps) = FlattenSeq(Parts(ps))
  BY DEF Joined, Parts, Cat
<1>2. PICK n \in Nat : n = Len(ps) /\ DOMAIN ps = 1 .. n /\ \A i \in 1 .. n : ps[i] \in A
  BY LenProperties, ElementOfSeq
<1>3. \A i \in 1 .. n : ps[i] \in Codes /\ Cat(<<44>>, ps[i]) \in Codes /\ Cat(<<44>>, ps[i]) \in Further(A)
  BY <1>2, Comma, CatType DEF Listed, Further
<1>4. PICK us : us = Parts(ps)
  OBVIOUS
<1>5. us = [i \in 1 .. n |-> IF i = 1 THEN ps[i] ELSE Cat(<<44>>, ps[i])]
  BY <1>2, <1>4 DEF Parts
<1>6. us \in Seq(Codes) /\ Len(us) = n /\ \A i \in 2 .. n : us[i] = Cat(<<44>>, ps[i]) 
  BY <1>3, <1>5
<1>7. Joined(ps) \in Codes
  BY <1>1, <1>4, <1>6, FlattenType DEF Codes
<1>8. Joined(<< >>) = << >>
  <2>1. [i \in DOMAIN << >> |-> IF i = 1 THEN << >>[i] ELSE <<44>> \o << >>[i]] = << >>
    OBVIOUS
  <2>2. FlattenSeq(<< >>) = << >>
    BY EmptySeq DEF FlattenSeq
  <2> QED
    BY <2>1, <2>2 DEF Joined
<1>9. ASSUME ps # << >>
      PROVE  /\ n # 0 /\ ps[1] \in A
             /\ Tail(us) \in Seq(Further(A))
             /\ Len(Tail(us)) = n - 1
             /\ \A i \in 2 .. n : ps[i] \in A /\ Tail(us)[i - 1] = Cat(<<44>>, ps[i])
             /\ Joined(ps) = Cat(ps[1], FlattenSeq(Tail(us)))
             /\ FlattenSeq(Tail(us)) \in Codes
  <2>1. n # 0 /\ us # << >> /\ 1 \in 1 .. n
    <3>1. n # 0
      BY <1>2, <1>9, EmptySeq
    <3> QED
      BY <1>6, <3>1, EmptySeq
  <2>2. us[1] = ps[1] /\ ps[1] \in A
    BY <1>2, <1>5, <2>1
  <2>3. /\ Len(Tail(us)) = n - 1 /\ Tail(us) \in Seq(Codes)
        /\ \A i \in 1 .. n - 1 : Tail(us)[i] = us[i + 1]
    BY <1>6, <2>1, HeadTailProperties
  <2>4. ASSUME NEW i \in 2 .. n PROVE ps[i] \in A /\ Tail(us)[i - 1] = Cat(<<44>>, ps[i])
    <3>1. i - 1 \in 1 .. n - 1 /\ (i - 1) + 1 = i /\ i \in 1 .. n
      OBVIOUS
    <3> QED
      BY <1>2, <1>6, <2>3, <3>1
  <2>5. \A i \in 1 .. n - 1 : Tail(us)[i] \in Further(A)
    <3> SUFFICES ASSUME NEW i \in 1 .. n - 1 PROVE Tail(us)[i] \in Further(A)
      OBVIOUS
    <3>1. i + 1 \in 2 .. n /\ i + 1 \in 1 .. n
      OBVIOUS
    <3> QED
      BY <1>3, <1>6, <2>3, <3>1
  <2>6. Tail(us) \in Seq(Further(A))
    <3> DEFINE T == Tail(us)
    <3>1. T \in Seq(Codes) /\ Len(T) = n - 1 /\ \A i \in 1 .. n - 1 : T[i] \in Further(A)
      BY <2>3, <2>5
    <3> HIDE DEF T
    <3>2. T = [i \in 1 .. n - 1 |-> T[i]]
      BY <3>1, LenProperties
    <3>3. n - 1 \in Nat
      BY <2>1
    <3>4. T \in Seq(Further(A))
      BY <3>1, <3>2, <3>3
    <3> QED
      BY <3>4 DEF T
  <2>7. FlattenSeq(Tail(us)) \in Codes /\ FlattenSeq(us) = Cat(us[1], FlattenSeq(Tail(us)))
    BY <1>6, <2>1, FlattenFirst DEF Codes, Cat
  <2> QED
    BY <1>1, <1>4, <2>1, <2>2, <2>3, <2>4, <2>6, <2>7
<1> QED
  BY <1>2, <1>4, <1>7, <1>8, <1>9

\* A list is read back, whatever follows it.
LEMMA ListDetermined ==
  ASSUME NEW A, Listed(A), NEW end \in {93, 125}, NEW ps \in Seq(A), NEW qs \in Seq(A),
         NEW x \in Codes, NEW y \in Codes,
         Cat(Joined(ps), Cat(<<end>>, x)) = Cat(Joined(qs), Cat(<<end>>, y))
  PROVE  ps = qs /\ x = y
<1> DEFINE v == Cat(<<end>>, x)
           w == Cat(<<end>>, y)
           R(us) == Tail(Parts(us))
           F(us) == FlattenSeq(us)
           E == << >>
<1>1. /\ v \in Codes /\ Begins(v, Stops) /\ w \in Codes /\ Begins(w, Stops)
      /\ Cat(<<end>>, x) = Cat(<<end>>, y) => x = y
  <2>1. <<end>> \in Codes /\ <<end>> # << >> /\ <<end>>[1] = end
    <3>1. end \in Nat
      OBVIOUS
    <3> QED
      BY <3>1, OneCode
  <2>2. end \in Stops
    BY DEF Stops
  <2>3. v \in Codes /\ v # << >> /\ v[1] = end /\ w \in Codes /\ w # << >> /\ w[1] = end
    BY <2>1, HeadOfCat
  <2>4. Cat(<<end>>, x) = Cat(<<end>>, y) => x = y
    BY <2>1, CatLaws
  <2> QED
    BY <2>2, <2>3, <2>4 DEF Begins
<1>2. Pieces(Further(A), Stops, end)
  BY FurtherArePieces
<1>3. ASSUME NEW us \in Seq(A), us # E
      PROVE  /\ Len(us) \in Nat \ {0} /\ us[1] \in A
             /\ R(us) \in Seq(Further(A)) /\ Len(R(us)) = Len(us) - 1
             /\ \A i \in 2 .. Len(us) : us[i] \in A /\ R(us)[i - 1] = Cat(<<44>>, us[i])
             /\ Joined(us) = Cat(us[1], F(R(us)))
             /\ F(R(us)) \in Codes
  BY <1>3, JoinedIs
<1>4. Joined(E) = E
  BY JoinedIs
<1>5. ASSUME NEW a \in A PROVE a \in Codes /\ a # << >> /\ a[1] \notin Stops
  BY DEF Listed
<1> HIDE DEF R, F, E
<1>6. ASSUME NEW us \in Seq(A), us # E, NEW z \in Codes
      PROVE  /\ Cat(F(R(us)), Cat(<<end>>, z)) \in Codes
             /\ Begins(Cat(F(R(us)), Cat(<<end>>, z)), Stops)
             /\ Cat(Joined(us), Cat(<<end>>, z)) = Cat(us[1], Cat(F(R(us)), Cat(<<end>>, z)))
             /\ ~ Begins(Cat(Joined(us), Cat(<<end>>, z)), Stops)
  <2>1. R(us) \in Seq(Further(A)) /\ us[1] \in A /\ F(R(us)) \in Codes
    BY <1>3, <1>6
  <2>2. /\ Cat(F(R(us)), Cat(<<end>>, z)) \in Codes
        /\ Begins(Cat(F(R(us)), Cat(<<end>>, z)), Stops)
    BY <1>2, <2>1, PiecesBegin DEF F
  <2>3. PICK a \in A : a = us[1]
    BY <2>1
  <2>4. Joined(us) = Cat(a, F(R(us)))
    BY <1>3, <1>6, <2>3
  <2>5. Cat(<<end>>, z) \in Codes
    <3>1. end \in Nat
      OBVIOUS
    <3> QED
      BY <3>1, OneCode, CatType
  <2>6. Cat(Joined(us), Cat(<<end>>, z)) = Cat(a, Cat(F(R(us)), Cat(<<end>>, z)))
    BY <1>5, <2>1, <2>4, <2>5, CatLaws
  <2>7. Cat(a, Cat(F(R(us)), Cat(<<end>>, z)))[1] = a[1]
    BY <1>5, <2>2, HeadOfCat
  <2> QED
    BY <1>5, <2>2, <2>3, <2>6, <2>7 DEF Begins
<1>7. Cat(E, v) = v /\ Cat(E, w) = w
  BY <1>1, CatLaws DEF E
<1>8. CASE ps = E /\ qs = E
  BY <1>1, <1>4, <1>7, <1>8
<1>9. CASE ps = E /\ qs # E
  <2>1. ~ Begins(Cat(Joined(qs), w), Stops)
    BY <1>6, <1>9
  <2>2. Cat(Joined(ps), v) = v
    BY <1>4, <1>7, <1>9
  <2> QED
    BY <1>1, <2>1, <2>2
<1>10. CASE ps # E /\ qs = E
  <2>1. ~ Begins(Cat(Joined(ps), v), Stops)
    BY <1>6, <1>10
  <2>2. Cat(Joined(qs), w) = w
    BY <1>4, <1>7, <1>10
  <2> QED
    BY <1>1, <2>1, <2>2
<1>11. CASE ps # E /\ qs # E
  <2>1. PICK a \in A : a = ps[1]
    BY <1>3, <1>11
  <2>2. PICK b \in A : b = qs[1]
    BY <1>3, <1>11
  <2> DEFINE s == Cat(F(R(ps)), v)
             t == Cat(F(R(qs)), w)
  <2>3. s \in Codes /\ Begins(s, Stops) /\ Cat(Joined(ps), v) = Cat(a, s)
    BY <1>6, <1>11, <2>1
  <2>4. t \in Codes /\ Begins(t, Stops) /\ Cat(Joined(qs), w) = Cat(b, t)
    BY <1>6, <1>11, <2>2
  <2>5. Cat(a, s) = Cat(b, t)
    BY <2>3, <2>4
  <2> HIDE DEF s, t
  <2>6. a = b
    BY <2>3, <2>4, <2>5 DEF Listed, Delimited, Cat
  <2>7. s = t
    BY <1>5, <2>3, <2>4, <2>5, <2>6, CatLaws
  <2>8. R(ps) \in Seq(Further(A)) /\ R(qs) \in Seq(Further(A))
    BY <1>3, <1>11
  <2>9. R(ps) = R(qs) /\ x = y
    BY <1>2, <2>7, <2>8, PiecesDetermined DEF s, t, F
  <2>10. PICK n \in Nat \ {0} : n = Len(ps)
    BY <1>3, <1>11
  <2>11. Len(qs) = n
    <3>1. PICK m \in Nat \ {0} : m = Len(qs)
      BY <1>3, <1>11
    <3>2. n - 1 = m - 1
      BY <1>3, <1>11, <2>9, <2>10, <3>1
    <3> QED
      BY <3>1, <3>2
  <2>12. ASSUME NEW i \in 1 .. n PROVE ps[i] = qs[i]
    <3>1. CASE i = 1
      BY <2>1, <2>2, <2>6, <3>1
    <3>2. CASE i # 1
      <4>1. i \in 2 .. n
        BY <3>2
      <4>2. /\ ps[i] \in A /\ R(ps)[i - 1] = Cat(<<44>>, ps[i])
            /\ qs[i] \in A /\ R(qs)[i - 1] = Cat(<<44>>, qs[i])
        <5>1. i \in 2 .. Len(ps) /\ i \in 2 .. Len(qs)
          BY <2>10, <2>11, <4>1
        <5>2. /\ Len(ps) \in Nat \ {0} /\ ps[1] \in A
              /\ R(ps) \in Seq(Further(A)) /\ Len(R(ps)) = Len(ps) - 1
              /\ \A k \in 2 .. Len(ps) : ps[k] \in A /\ R(ps)[k - 1] = Cat(<<44>>, ps[k])
              /\ Joined(ps) = Cat(ps[1], F(R(ps)))
              /\ F(R(ps)) \in Codes
          BY <1>3, <1>11
        <5>3. /\ Len(qs) \in Nat \ {0} /\ qs[1] \in A
              /\ R(qs) \in Seq(Further(A)) /\ Len(R(qs)) = Len(qs) - 1
              /\ \A k \in 2 .. Len(qs) : qs[k] \in A /\ R(qs)[k - 1] = Cat(<<44>>, qs[k])
              /\ Joined(qs) = Cat(qs[1], F(R(qs)))
              /\ F(R(qs)) \in Codes
          BY <1>3, <1>11
        <5> QED
          BY <5>1, <5>2, <5>3
      <4> QED
        BY <1>5, <2>9, <4>2, Comma, CatLaws
    <3> QED
      BY <3>1, <3>2
  <2> QED
    BY <2>9, <2>10, <2>11, <2>12, SeqEqual
<1> QED
  BY <1>8, <1>9, <1>10, <1>11

\* The members of an object are such a list, if the values in it are.
Member(k, t) == Cat(Quoted("rust", k), Cat(<<58>>, t))
MembersOf(A) == {Member(k, t) : k \in Seq(Scalar), t \in A}

LEMMA MemberIs ==
  ASSUME NEW k \in Seq(Scalar), NEW t \in Codes
  PROVE  /\ Member(k, t) \in Codes /\ Member(k, t) # << >> /\ Member(k, t)[1] = 34
         /\ \A x \in Codes : Cat(Member(k, t), x) = Cat(Quoted("rust", k), Cat(<<58>>, Cat(t, x)))
         /\ <<58>> \in Codes
<1>1. <<58>> \in Codes
  <2>1. 58 \in Nat
    OBVIOUS
  <2> QED
    BY <2>1, OneCode
<1>2. Cat(<<58>>, t) \in Codes
  BY <1>1, CatType
<1>3. Quoted("rust", k) \in Codes /\ Quoted("rust", k) # << >> /\ Quoted("rust", k)[1] = 34
  BY QuotedIs
<1>4. Member(k, t) \in Codes /\ Member(k, t) # << >> /\ Member(k, t)[1] = 34
  BY <1>2, <1>3, HeadOfCat DEF Member
<1>5. ASSUME NEW x \in Codes
      PROVE  Cat(Member(k, t), x) = Cat(Quoted("rust", k), Cat(<<58>>, Cat(t, x)))
  <2>1. Cat(Member(k, t), x) = Cat(Quoted("rust", k), Cat(Cat(<<58>>, t), x))
    BY <1>2, <1>3, CatLaws DEF Member
  <2>2. Cat(Cat(<<58>>, t), x) = Cat(<<58>>, Cat(t, x))
    BY <1>1, CatLaws
  <2> QED
    BY <2>1, <2>2
<1> QED
  BY <1>1, <1>4, <1>5

LEMMA MemberTells ==
  ASSUME NEW k \in Seq(Scalar), NEW l \in Seq(Scalar), NEW s \in Codes, NEW t \in Codes,
         Cat(Quoted("rust", k), Cat(<< 58 >>, s)) = Cat(Quoted("rust", l), Cat(<< 58 >>, t))
  PROVE  k = l /\ s = t
<1>1. <<58>> \in Codes
  BY MemberIs
<1>2. Cat(<<58>>, s) \in Codes /\ Cat(<<58>>, t) \in Codes
  BY <1>1, CatType
<1>3. k = l /\ Cat(<<58>>, s) = Cat(<<58>>, t)
  BY <1>2, QuotedDetermined
<1> QED
  BY <1>1, <1>3, CatLaws

LEMMA MembersListed ==
  ASSUME NEW A, Listed(A)
  PROVE  Listed(MembersOf(A))
<1>1. ASSUME NEW m \in MembersOf(A) PROVE m \in Codes /\ m # << >> /\ m[1] \notin Stops
  <2>1. PICK k \in Seq(Scalar), t \in A : m = Member(k, t)
    BY DEF MembersOf
  <2>2. t \in Codes
    BY DEF Listed
  <2>3. m \in Codes /\ m # << >> /\ m[1] = 34
    BY <2>1, <2>2, MemberIs
  <2> QED
    BY <2>3 DEF Stops
<1>2. Delimited(MembersOf(A), Stops)
  <2> SUFFICES ASSUME NEW m \in MembersOf(A), NEW p \in MembersOf(A), NEW x \in Codes, NEW y \in Codes,
                      Begins(x, Stops), Begins(y, Stops), Cat(m, x) = Cat(p, y)
               PROVE  m = p
    BY DEF Delimited, Cat
  <2>1. PICK k \in Seq(Scalar), t \in A : m = Member(k, t)
    BY DEF MembersOf
  <2>2. PICK l \in Seq(Scalar), u \in A : p = Member(l, u)
    BY DEF MembersOf
  <2>3. t \in Codes /\ u \in Codes /\ Cat(t, x) \in Codes /\ Cat(u, y) \in Codes
    BY CatType DEF Listed
  <2>4. Cat(Quoted("rust", k), Cat(<<58>>, Cat(t, x))) = Cat(Quoted("rust", l), Cat(<<58>>, Cat(u, y)))
    BY <2>1, <2>2, <2>3, MemberIs
  <2>5. k = l /\ Cat(t, x) = Cat(u, y)
    BY <2>3, <2>4, MemberTells
  <2>6. t = u
    BY <2>5 DEF Listed, Delimited, Cat
  <2> QED
    BY <2>1, <2>2, <2>5, <2>6
<1> QED
  BY <1>1, <1>2 DEF Listed

-----------------------------------------------------------------------------
(* Arrangements by a strict total order R on S.                            *)

StrictOrder(R, S) ==
  /\ \A x \in S : <<x, x>> \notin R
  /\ \A x, y, z \in S : <<x, y>> \in R /\ <<y, z>> \in R => <<x, z>> \in R
  /\ \A x, y \in S : x # y => <<x, y>> \in R \/ <<y, x>> \in R

LEMMA LastOne ==
  ASSUME NEW S, NEW R, StrictOrder(R, S)
  PROVE  \A n \in Nat : \A g \in [1 .. n + 1 -> S] :
           (\A i, j \in 1 .. n + 1 : g[i] = g[j] => i = j)
             => \E m \in 1 .. n + 1 : \A i \in (1 .. n + 1) \ {m} : <<g[i], g[m]>> \in R
<1> DEFINE Once(g, n) == \A i, j \in 1 .. n + 1 : g[i] = g[j] => i = j
           Highest(g, n, m) == \A i \in (1 .. n + 1) \ {m} : <<g[i], g[m]>> \in R
           Good == {n \in Nat : \A g \in [1 .. n + 1 -> S] : Once(g, n) => \E m \in 1 .. n + 1 : Highest(g, n, m)}
<1>1. 0 \in Good
  <2>1. \A g : Highest(g, 0, 1) /\ 1 \in 1 .. 0 + 1
    OBVIOUS
  <2> QED
    BY <2>1
<1>2. ASSUME NEW n \in Good PROVE n + 1 \in Good
  <2>1. n \in Nat /\ n + 1 \in Nat
    OBVIOUS
  <2> HIDE DEF Once, Highest
  <2> SUFFICES ASSUME NEW g \in [1 .. n + 1 + 1 -> S], Once(g, n + 1)
               PROVE  \E m \in 1 .. n + 1 + 1 : Highest(g, n + 1, m)
    BY <2>1
  <2> USE DEF Once, Highest
  <2> DEFINE h == [i \in 1 .. n + 1 |-> g[i]]
  <2>2. \A i \in 1 .. n + 1 : i \in 1 .. n + 1 + 1 /\ h[i] = g[i]
    BY <2>1
  <2>3. h \in [1 .. n + 1 -> S] /\ Once(h, n)
    BY <2>2
  <2> HIDE DEF h
  <2>4. PICK m \in 1 .. n + 1 : Highest(h, n, m)
    BY <2>3
  <2> DEFINE e == n + 1 + 1
  <2>5. /\ m \in 1 .. e /\ e \in 1 .. e /\ m # e
        /\ \A i \in 1 .. e : i \in 1 .. n + 1 \/ i = e
        /\ \A i \in (1 .. n + 1) \ {m} : <<g[i], g[m]>> \in R
    BY <2>1, <2>2, <2>4
  <2>6. g[m] \in S /\ g[e] \in S /\ g[m] # g[e]
    BY <2>5
  <2>7. CASE <<g[e], g[m]>> \in R
    BY <2>5, <2>7
  <2>8. CASE <<g[m], g[e]>> \in R
    <3>1. ASSUME NEW i \in 1 .. n + 1 PROVE <<g[i], g[e]>> \in R
      <4>1. CASE i = m
        BY <2>8, <4>1
      <4>2. CASE i # m
        <5>1. <<g[i], g[m]>> \in R /\ g[i] \in S
          BY <2>2, <2>5, <4>2
        <5> QED
          BY <2>6, <2>8, <5>1 DEF StrictOrder
      <4> QED
        BY <4>1, <4>2
    <3>2. Highest(g, n + 1, e)
      BY <2>5, <3>1
    <3> QED
      BY <2>5, <3>2
  <2>9. <<g[e], g[m]>> \in R \/ <<g[m], g[e]>> \in R
    BY <2>6 DEF StrictOrder
  <2> QED
    BY <2>7, <2>8, <2>9
<1>3. Good = Nat
  <2> HIDE DEF Good
  <2>1. Good \subseteq Nat
    BY DEF Good
  <2> QED
    BY <1>1, <1>2, <2>1, NumberInduction
<1> QED
  BY <1>3

LEMMA Arranged ==
  ASSUME NEW S, NEW R, StrictOrder(R, S)
  PROVE  \A n \in Nat : \A g \in [1 .. n -> S] :
           (\A i, j \in 1 .. n : g[i] = g[j] => i = j)
             => \E f \in [1 .. n -> S] : /\ Range(f) = Range(g)
                                         /\ \A i, j \in 1 .. n : i < j => <<f[i], f[j]>> \in R
<1> DEFINE Once(g, n) == \A i, j \in 1 .. n : g[i] = g[j] => i = j
           Rising(f, n) == \A i, j \in 1 .. n : i < j => <<f[i], f[j]>> \in R
           Good == {n \in Nat : \A g \in [1 .. n -> S] : Once(g, n) =>
                      \E f \in [1 .. n -> S] : Range(f) = Range(g) /\ Rising(f, n)}
<1>1. 0 \in Good
  BY DEF Range
<1>2. ASSUME NEW n \in Good PROVE n + 1 \in Good
  <2> SUFFICES ASSUME NEW g \in [1 .. n + 1 -> S], Once(g, n + 1)
               PROVE  \E f \in [1 .. n + 1 -> S] : Range(f) = Range(g) /\ Rising(f, n + 1)
    OBVIOUS
  <2>1. n \in Nat
    OBVIOUS
  <2>2. PICK m \in 1 .. n + 1 : \A i \in (1 .. n + 1) \ {m} : <<g[i], g[m]>> \in R
    BY <2>1, LastOne
  <2> DEFINE e == n + 1
             h == [i \in 1 .. n |-> IF i = m THEN g[e] ELSE g[i]]
  <2>3. /\ \A i \in 1 .. n : i \in 1 .. e /\ i # e
        /\ \A i \in 1 .. e : i \in 1 .. n \/ i = e
        /\ m \in 1 .. e /\ e \in 1 .. e
    BY <2>1
  <2>4. /\ h \in [1 .. n -> S] /\ Once(h, n)
        /\ \A i \in 1 .. n : h[i] = IF i = m THEN g[e] ELSE g[i]
    BY <2>3
  <2> HIDE DEF h
  <2>5. PICK f \in [1 .. n -> S] : Range(f) = Range(h) /\ Rising(f, n)
    BY <2>4
  <2>6. \A x : x \in Range(h) <=> \E i \in (1 .. e) \ {m} : x = g[i]
    <3>1. \A i \in 1 .. n : \E j \in (1 .. e) \ {m} : h[i] = g[j]
      BY <2>3, <2>4
    <3>2. \A j \in (1 .. e) \ {m} : \E i \in 1 .. n : h[i] = g[j]
      <4> SUFFICES ASSUME NEW j \in (1 .. e) \ {m} PROVE \E i \in 1 .. n : h[i] = g[j]
        OBVIOUS
      <4>1. CASE j = e
        <5>1. m \in 1 .. n
          BY <2>3, <4>1
        <5> QED
          BY <2>4, <4>1, <5>1
      <4>2. CASE j # e
        <5>1. j \in 1 .. n
          BY <2>3, <4>2
        <5> QED
          BY <2>4, <5>1
      <4> QED
        BY <4>1, <4>2
    <3>3. \A x : x \in Range(h) <=> \E i \in 1 .. n : x = h[i]
      <4>1. Range(h) = {h[i] : i \in 1 .. n}
        BY <2>4 DEF Range
      <4> QED
        BY <4>1
    <3> DEFINE Rest == (1 .. e) \ {m}
    <3>4. ASSUME NEW x, x \in Range(h) PROVE \E i \in Rest : x = g[i]
      <4>1. PICK i \in 1 .. n : x = h[i]
        BY <3>3, <3>4
      <4> QED
        BY <3>1, <4>1
    <3>5. ASSUME NEW x, NEW j \in Rest, x = g[j] PROVE x \in Range(h)
      <4>1. PICK i \in 1 .. n : h[i] = g[j]
        BY <3>2
      <4> QED
        BY <3>3, <3>5, <4>1
    <3> HIDE DEF Rest
    <3>6. \A x : x \in Range(h) <=> \E i \in Rest : x = g[i]
      BY <3>4, <3>5
    <3> QED
      BY <3>6 DEF Rest
  <2> DEFINE k == [i \in 1 .. e |-> IF i = e THEN g[m] ELSE f[i]]
  <2>7. /\ k \in [1 .. e -> S]
        /\ k[e] = g[m] /\ \A i \in 1 .. n : k[i] = f[i]
    BY <2>3
  <2> HIDE DEF k
  <2>8. \A i \in 1 .. n : f[i] \in Range(h)
    BY <2>5 DEF Range
  <2>9. Rising(k, e)
    <3> SUFFICES ASSUME NEW i \in 1 .. e, NEW j \in 1 .. e, i < j PROVE <<k[i], k[j]>> \in R
      OBVIOUS
    <3>1. i \in 1 .. n /\ (j \in 1 .. n \/ j = e)
      BY <2>1
    <3>2. CASE j \in 1 .. n
      BY <2>5, <2>7, <3>1, <3>2
    <3>3. CASE j = e
      <4>1. PICK l \in (1 .. e) \ {m} : f[i] = g[l]
        BY <2>6, <2>8, <3>1
      <4> QED
        BY <2>2, <2>7, <3>1, <3>3, <4>1
    <3> QED
      BY <3>1, <3>2, <3>3
  <2>10. Range(k) = Range(g)
    <3>1. /\ \A x : x \in Range(k) <=> \E i \in 1 .. e : x = k[i]
          /\ \A x : x \in Range(g) <=> \E i \in 1 .. e : x = g[i]
      <4>1. Range(k) = {k[i] : i \in 1 .. e} /\ Range(g) = {g[i] : i \in 1 .. e}
        BY <2>7 DEF Range
      <4> QED
        BY <4>1
    <3>2. ASSUME NEW i \in 1 .. e PROVE \E j \in 1 .. e : k[i] = g[j]
      <4>1. CASE i = e
        BY <2>3, <2>7, <4>1
      <4>2. CASE i \in 1 .. n
        BY <2>6, <2>7, <2>8, <4>2
      <4> QED
        BY <2>3, <4>1, <4>2
    <3>3. ASSUME NEW j \in 1 .. e PROVE \E i \in 1 .. e : k[i] = g[j]
      <4>1. CASE j = m
        BY <2>3, <2>7, <4>1
      <4>2. CASE j # m
        <5>1. g[j] \in Range(f)
          BY <2>5, <2>6, <4>2
        <5>2. PICK i \in 1 .. n : g[j] = f[i]
          BY <5>1 DEF Range
        <5> QED
          BY <2>3, <2>7, <5>2
      <4> QED
        BY <4>1, <4>2
    <3>4. ASSUME NEW x PROVE x \in Range(k) <=> x \in Range(g)
      <4>1. ASSUME x \in Range(k) PROVE x \in Range(g)
        <5>1. PICK i \in 1 .. e : x = k[i]
          BY <3>1, <4>1
        <5> QED
          BY <3>1, <3>2, <5>1
      <4>2. ASSUME x \in Range(g) PROVE x \in Range(k)
        <5>1. PICK i \in 1 .. e : x = g[i]
          BY <3>1, <4>2
        <5> QED
          BY <3>1, <3>3, <5>1
      <4> QED
        BY <4>1, <4>2
    <3> QED
      BY <3>4
  <2> QED
    BY <2>7, <2>9, <2>10
<1>3. Good = Nat
  <2> HIDE DEF Good
  <2>1. Good \subseteq Nat
    BY DEF Good
  <2> QED
    BY <1>1, <1>2, <2>1, NumberInduction
<1> QED
  BY <1>3

\* There is only one arrangement.
LEMMA ArrangedOnce ==
  ASSUME NEW S, NEW R, StrictOrder(R, S), NEW m \in Nat, NEW n \in Nat,
         NEW f \in [1 .. m -> S], NEW g \in [1 .. n -> S], Range(f) = Range(g),
         \A i, j \in 1 .. m : i < j => <<f[i], f[j]>> \in R,
         \A i, j \in 1 .. n : i < j => <<g[i], g[j]>> \in R
  PROVE  m = n /\ f = g
<1>1. /\ \A i \in 1 .. m : \E j \in 1 .. n : f[i] = g[j]
      /\ \A j \in 1 .. n : \E i \in 1 .. m : f[i] = g[j]
  <2>1. Range(f) = {f[i] : i \in 1 .. m} /\ Range(g) = {g[i] : i \in 1 .. n}
    BY DEF Range
  <2> QED
    BY <2>1
<1>2. ASSUME NEW i \in 1 .. m, NEW j \in 1 .. m, f[i] = f[j] PROVE i = j
  <2>1. f[i] \in S /\ <<f[i], f[i]>> \notin R
    BY DEF StrictOrder
  <2>2. i < j \/ j < i \/ i = j
    OBVIOUS
  <2> QED
    BY <1>2, <2>1, <2>2
<1>3. ASSUME NEW i \in 1 .. n, NEW j \in 1 .. n, g[i] = g[j] PROVE i = j
  <2>1. g[i] \in S /\ <<g[i], g[i]>> \notin R
    BY DEF StrictOrder
  <2>2. i < j \/ j < i \/ i = j
    OBVIOUS
  <2> QED
    BY <1>3, <2>1, <2>2
<1> DEFINE Same(i) == i \in 1 .. m /\ i \in 1 .. n => f[i] = g[i]
           Good == {k \in Nat : \A i \in Nat : i <= k => Same(i)}
<1>4. 0 \in Good
  OBVIOUS
<1>5. ASSUME NEW k \in Good PROVE k + 1 \in Good
  <2>1. k \in Nat /\ \A i \in Nat : i <= k => Same(i)
    OBVIOUS
  <2> DEFINE e == k + 1
  <2>2. Same(e)
    <3> SUFFICES ASSUME e \in 1 .. m, e \in 1 .. n, f[e] # g[e] PROVE FALSE
      OBVIOUS
    <3>1. PICK j \in 1 .. n : f[e] = g[j]
      BY <1>1
    <3>2. PICK i \in 1 .. m : f[i] = g[e]
      BY <1>1
    <3>3. e < j
      <4> SUFFICES ASSUME j <= e PROVE FALSE
        BY <2>1
      <4>1. j # e
        BY <3>1
      <4>2. j <= k /\ j \in 1 .. m
        BY <2>1, <4>1
      <4>3. f[j] = g[j]
        BY <2>1, <4>2
      <4> QED
        BY <1>2, <3>1, <4>1, <4>2, <4>3
    <3>4. e < i
      <4> SUFFICES ASSUME i <= e PROVE FALSE
        BY <2>1
      <4>1. i # e
        BY <3>2
      <4>2. i <= k /\ i \in 1 .. n
        BY <2>1, <4>1
      <4>3. f[i] = g[i]
        BY <2>1, <4>2
      <4> QED
        BY <1>3, <3>2, <4>1, <4>2, <4>3
    <3>5. <<g[e], f[e]>> \in R /\ <<f[e], g[e]>> \in R
      BY <3>1, <3>2, <3>3, <3>4
    <3>6. f[e] \in S /\ g[e] \in S
      OBVIOUS
    <3>7. <<g[e], g[e]>> \in R
      BY <3>5, <3>6 DEF StrictOrder
    <3> QED
      BY <3>6, <3>7 DEF StrictOrder
  <2> HIDE DEF Same
  <2>3. \A i \in Nat : i <= k + 1 => Same(i)
    <3>1. \A i \in Nat : i <= k + 1 => i <= k \/ i = e
      BY <2>1
    <3> QED
      BY <2>1, <2>2, <3>1
  <2> QED
    BY <2>1, <2>3
<1>6. \A i : Same(i)
  <2>1. Good = Nat
    <3> HIDE DEF Good
    <3>1. Good \subseteq Nat
      BY DEF Good
    <3> QED
      BY <1>4, <1>5, <3>1, NumberInduction
  <2>2. \A i \in Nat : Same(i)
    <3> HIDE DEF Same, Good
    <3>1. \A i \in Nat : i \in Good /\ i <= i
      BY <2>1
    <3> QED
      BY <3>1 DEF Good
  <2> QED
    BY <2>2
<1>7. ~(m < n)
  <2> SUFFICES ASSUME m < n PROVE FALSE
    OBVIOUS
  <2>1. m + 1 \in 1 .. n
    OBVIOUS
  <2>2. PICK i \in 1 .. m : f[i] = g[m + 1]
    BY <1>1, <2>1
  <2>3. i \in 1 .. n /\ i # m + 1
    OBVIOUS
  <2> QED
    BY <1>3, <1>6, <2>1, <2>2, <2>3
<1>8. ~(n < m)
  <2> SUFFICES ASSUME n < m PROVE FALSE
    OBVIOUS
  <2>1. n + 1 \in 1 .. m
    OBVIOUS
  <2>2. PICK i \in 1 .. n : f[n + 1] = g[i]
    BY <1>1, <2>1
  <2>3. i \in 1 .. m /\ i # n + 1
    OBVIOUS
  <2> QED
    BY <1>2, <1>6, <2>1, <2>2, <2>3
<1> QED
  BY <1>6, <1>7, <1>8

-----------------------------------------------------------------------------
(* The order of keys.                                                      *)

\* A text by its places: after the end it has the least there can be.
At(s, i) == IF i <= Len(s) THEN s[i] ELSE -1
Place == Nat \ {0}
DiffersAt(s, t, i) == At(s, i) < At(t, i) /\ \A j \in 1 .. i - 1 : At(s, j) = At(t, j)

LEMMA AtIs ==
  ASSUME NEW s \in Codes
  PROVE  /\ Len(s) \in Nat
         /\ \A i \in Place : At(s, i) \in Int /\ At(s, i) >= -1 /\ (At(s, i) = -1 <=> i > Len(s))
         /\ \A i \in 1 .. Len(s) : At(s, i) = s[i] /\ s[i] \in Nat
<1>1. Len(s) \in Nat /\ \A i \in 1 .. Len(s) : s[i] \in Nat
  BY CodesLength
<1>2. PICK n \in Nat : n = Len(s)
  BY <1>1
<1>3. ASSUME NEW i \in Place
      PROVE  At(s, i) \in Int /\ At(s, i) >= -1 /\ (At(s, i) = -1 <=> i > n)
  <2>1. CASE i <= n
    <3>1. i \in 1 .. n
      BY <2>1 DEF Place
    <3>2. At(s, i) = s[i] /\ s[i] \in Nat
      BY <1>1, <1>2, <3>1 DEF At
    <3> QED
      BY <2>1, <3>2 DEF Place
  <2>2. CASE ~ (i <= n)
    BY <1>2, <2>2 DEF At, Place
  <2> QED
    BY <2>1, <2>2
<1>4. ASSUME NEW i \in 1 .. n PROVE At(s, i) = s[i] /\ s[i] \in Nat
  BY <1>1, <1>2 DEF At
<1> QED
  BY <1>2, <1>3, <1>4

LEMMA SameAt ==
  ASSUME NEW s \in Codes, NEW t \in Codes, \A i \in Place : At(s, i) = At(t, i)
  PROVE  s = t
<1>1. PICK m \in Nat : m = Len(s)
  BY AtIs
<1>2. PICK n \in Nat : n = Len(t)
  BY AtIs
<1>3. m + 1 \in Place /\ n + 1 \in Place
  BY DEF Place
<1>4. m = n
  BY <1>1, <1>2, <1>3, AtIs
<1>5. ASSUME NEW i \in 1 .. Len(s) PROVE s[i] = t[i]
  <2>1. i \in Place
    BY <1>1 DEF Place
  <2> QED
    BY <1>1, <1>2, <1>4, <2>1, AtIs
<1> QED
  BY <1>1, <1>2, <1>4, <1>5, SeqEqual DEF Codes

LEMMA BeforeIs ==
  ASSUME NEW s \in Codes, NEW t \in Codes
  PROVE  Before(s, t) <=> \E i \in Place : DiffersAt(s, t, i)
<1>1. PICK m \in Nat : m = Len(s) /\ DOMAIN s = 1 .. m
  BY LenProperties DEF Codes
<1>2. PICK n \in Nat : n = Len(t) /\ DOMAIN t = 1 .. n
  BY LenProperties DEF Codes
<1>3. /\ \A i \in Place : At(s, i) \in Int /\ At(s, i) >= -1 /\ (At(s, i) = -1 <=> i > m)
      /\ \A i \in 1 .. m : At(s, i) = s[i] /\ s[i] \in Nat
      /\ \A i \in Place : At(t, i) \in Int /\ At(t, i) >= -1 /\ (At(t, i) = -1 <=> i > n)
      /\ \A i \in 1 .. n : At(t, i) = t[i] /\ t[i] \in Nat
  BY <1>1, <1>2, AtIs
<1>4. IsStrictPrefix(s, t) <=> m < n /\ \A j \in 1 .. m : s[j] = t[j]
  <2>1. IsPrefix(s, t) <=> m <= n /\ \A j \in 1 .. m : s[j] = t[j]
    <3> SUFFICES ASSUME m <= n
                 PROVE  SubSeq(s, 1, m) = SubSeq(t, 1, m) <=> \A j \in 1 .. m : s[j] = t[j]
      BY <1>1, <1>2 DEF IsPrefix
    <3>1. SubSeq(s, 1, m) = [j \in 1 .. m |-> s[j]] /\ SubSeq(t, 1, m) = [j \in 1 .. m |-> t[j]]
      OBVIOUS
    <3> QED
      BY <3>1
  <2>2. (m = n /\ \A j \in 1 .. m : s[j] = t[j]) <=> s = t
    BY <1>1, <1>2, SeqEqual DEF Codes
  <2> QED
    BY <2>1, <2>2 DEF IsStrictPrefix
<1>5. ASSUME IsStrictPrefix(s, t) PROVE DiffersAt(s, t, m + 1) /\ m + 1 \in Place
  <2>1. m + 1 \in Place /\ m + 1 > m /\ ~ (m + 1 > n)
    BY <1>4, <1>5 DEF Place
  <2>2. At(s, m + 1) < At(t, m + 1)
    BY <1>3, <2>1
  <2>3. \A j \in 1 .. m : At(s, j) = At(t, j)
    <3>1. \A j \in 1 .. m : j \in 1 .. n
      BY <1>4, <1>5
    <3> QED
      BY <1>3, <1>4, <1>5, <3>1
  <2> QED
    BY <2>1, <2>2, <2>3 DEF DiffersAt
<1>6. ASSUME NEW i \in DOMAIN s \cap DOMAIN t, s[i] < t[i], \A j \in 1 .. i - 1 : s[j] = t[j]
      PROVE  DiffersAt(s, t, i) /\ i \in Place
  <2>1. i \in 1 .. m /\ i \in 1 .. n /\ i \in Place
    BY <1>1, <1>2 DEF Place
  <2>2. \A j \in 1 .. i - 1 : j \in 1 .. m /\ j \in 1 .. n
    BY <2>1
  <2> QED
    BY <1>3, <1>6, <2>1, <2>2 DEF DiffersAt
<1>7. ASSUME NEW i \in Place, DiffersAt(s, t, i) PROVE Before(s, t)
  <2>1. i <= n
    BY <1>3, <1>7 DEF DiffersAt, Place
  <2>2. \A j \in 1 .. i - 1 : j \in 1 .. n /\ j \in Place
    BY <2>1 DEF Place
  <2>3. \A j \in 1 .. i - 1 : j \in 1 .. m /\ s[j] = t[j]
    <3> SUFFICES ASSUME NEW j \in 1 .. i - 1 PROVE j \in 1 .. m /\ s[j] = t[j]
      OBVIOUS
    <3>1. At(s, j) = At(t, j) /\ At(t, j) # -1
      BY <1>3, <1>7, <2>2 DEF DiffersAt
    <3>2. j \in 1 .. m
      BY <1>3, <2>2, <3>1 DEF Place
    <3> QED
      BY <1>3, <2>2, <3>1, <3>2
  <2>4. CASE i <= m
    <3>1. i \in 1 .. m /\ i \in 1 .. n
      BY <2>1, <2>4 DEF Place
    <3>2. s[i] < t[i]
      BY <1>3, <1>7, <3>1 DEF DiffersAt
    <3> QED
      BY <1>1, <1>2, <2>3, <3>1, <3>2 DEF Before
  <2>5. CASE i > m
    <3>1. i - 1 <= m
      <4>1. CASE i = 1
        BY <4>1
      <4>2. CASE i # 1
        <5>1. i - 1 \in 1 .. i - 1
          BY <4>2 DEF Place
        <5> QED
          BY <2>3, <5>1
      <4> QED
        BY <4>1, <4>2
    <3>2. i - 1 = m
      BY <2>5, <3>1 DEF Place
    <3> QED
      BY <1>4, <2>1, <2>3, <3>2 DEF Before, Place
  <2> QED
    BY <2>4, <2>5 DEF Place
<1> QED
  BY <1>5, <1>6, <1>7 DEF Before

LEMMA BeforeOrders ==
  /\ \A s \in Codes : ~ Before(s, s)
  /\ \A s, t, u \in Codes : Before(s, t) /\ Before(t, u) => Before(s, u)
  /\ \A s, t \in Codes : s # t => Before(s, t) \/ Before(t, s)
<1>1. ASSUME NEW s \in Codes PROVE ~ Before(s, s)
  <2> SUFFICES ASSUME NEW i \in Place, DiffersAt(s, s, i) PROVE FALSE
    BY BeforeIs
  <2>1. At(s, i) \in Int /\ At(s, i) < At(s, i)
    BY AtIs DEF DiffersAt
  <2> QED
    BY <2>1
<1>2. ASSUME NEW s \in Codes, NEW t \in Codes, NEW u \in Codes, Before(s, t), Before(t, u)
      PROVE  Before(s, u)
  <2>1. PICK i \in Place : DiffersAt(s, t, i)
    BY <1>2, BeforeIs
  <2>2. PICK k \in Place : DiffersAt(t, u, k)
    BY <1>2, BeforeIs
  <2>3. \A j \in Place : At(s, j) \in Int /\ At(t, j) \in Int /\ At(u, j) \in Int
    BY AtIs
  <2>4. /\ At(s, i) < At(t, i) /\ \A j \in 1 .. i - 1 : At(s, j) = At(t, j)
        /\ At(t, k) < At(u, k) /\ \A j \in 1 .. k - 1 : At(t, j) = At(u, j)
    BY <2>1, <2>2 DEF DiffersAt
  <2>5. CASE i <= k
    <3>1. \A j \in 1 .. i - 1 : j \in 1 .. k - 1
      BY <2>5 DEF Place
    <3>2. i = k \/ i \in 1 .. k - 1
      BY <2>5 DEF Place
    <3>3. At(s, i) < At(u, i)
      BY <2>3, <2>4, <3>2
    <3>4. \A j \in 1 .. i - 1 : At(s, j) = At(u, j)
      BY <2>4, <3>1
    <3> QED
      BY <3>3, <3>4, BeforeIs DEF DiffersAt
  <2>6. CASE k < i
    <3>1. k \in 1 .. i - 1 /\ \A j \in 1 .. k - 1 : j \in 1 .. i - 1
      BY <2>6 DEF Place
    <3>2. At(s, k) < At(u, k) /\ \A j \in 1 .. k - 1 : At(s, j) = At(u, j)
      BY <2>3, <2>4, <3>1
    <3> QED
      BY <3>2, BeforeIs DEF DiffersAt
  <2> QED
    BY <2>5, <2>6 DEF Place
<1>3. ASSUME NEW s \in Codes, NEW t \in Codes, s # t
      PROVE  Before(s, t) \/ Before(t, s)
  <2> DEFINE Apart == {i \in Place : At(s, i) # At(t, i)}
  <2>1. Apart \subseteq Nat /\ Apart # {}
    BY <1>3, SameAt DEF Place
  <2>2. PICK i \in Apart : \A j \in Apart : i <= j
    BY <2>1, LeastElement
  <2>3. \A j \in 1 .. i - 1 : At(s, j) = At(t, j)
    <3>1. \A j \in 1 .. i - 1 : j \in Place /\ ~ (i <= j)
      BY <2>1 DEF Place
    <3> QED
      BY <2>2, <3>1
  <2>4. i \in Place /\ At(s, i) \in Int /\ At(t, i) \in Int /\ At(s, i) # At(t, i)
    BY AtIs
  <2>5. At(s, i) < At(t, i) \/ At(t, i) < At(s, i)
    BY <2>4
  <2> QED
    BY <2>3, <2>4, <2>5, BeforeIs DEF DiffersAt
<1> QED
  BY <1>1, <1>2, <1>3

-----------------------------------------------------------------------------
(* Keys as UTF-16.                                                         *)

UnitsOf(s) == [i \in DOMAIN s |-> Units(s[i])]
Characters == {Units(c) : c \in Scalar}

Beyond == 65536  \* no code unit

\* Half of a pair is told by its value.
Encoded(u, c) ==
  \/ Len(u) = 1 /\ u[1] = c /\ u[1] \notin Surrogate
  \/ Len(u) = 2 /\ u[1] \in Surrogate /\ c = 65536 + 1024 * (u[1] - 55296) + (u[2] - 56320)

LEMMA UnitsAre ==
  ASSUME NEW c \in Scalar, NEW u, u = Units(c)
  PROVE  u \in Codes /\ u # << >> /\ u[1] \in Nat \ {Beyond} /\ Encoded(u, c)
<1>1. c \in Nat /\ c <= 1114111 /\ c \notin Surrogate
  BY DEF Scalar, Surrogate
<1>2. CASE c < 65536
  <2>1. u = <<c>>
    BY <1>2 DEF Units
  <2>2. u \in Codes /\ u # << >> /\ Len(u) = 1 /\ u[1] = c
    BY <1>1, <2>1, OneCode
  <2> QED
    BY <1>1, <1>2, <2>2 DEF Encoded, Beyond
<1>3. CASE ~ (c < 65536)
  <2>1. PICK d \in Nat : d = c - 65536 /\ d <= 1048575
    BY <1>1, <1>3
  <2>2. PICK p \in Nat : p = d \div 1024
    BY <2>1
  <2>3. PICK q \in Nat : q = d % 1024
    BY <2>1
  <2>4. d = 1024 * p + q /\ q < 1024 /\ p <= 1023
    BY <2>1, <2>2, <2>3
  <2>5. PICK a \in Nat : a = 55296 + p
    BY <2>2
  <2>6. PICK b \in Nat : b = 56320 + q
    BY <2>3
  <2>7. u = <<a, b>>
    BY <1>3, <2>1, <2>2, <2>3, <2>5, <2>6 DEF Units
  <2>8. u \in Codes /\ Len(u) = 2 /\ u[1] = a /\ u[2] = b
    BY <2>7 DEF Codes
  <2>9. u # << >>
    BY <2>8, EmptySeq
  <2>10. a \in Surrogate /\ a # Beyond
    BY <2>4, <2>5 DEF Surrogate, Beyond
  <2>11. c = 65536 + 1024 * (a - 55296) + (b - 56320)
    BY <1>1, <2>1, <2>4, <2>5, <2>6
  <2> QED
    BY <2>8, <2>9, <2>10, <2>11 DEF Encoded
<1> QED
  BY <1>2, <1>3

LEMMA CharactersArePieces == Pieces(Characters, Nat, Beyond)
<1>1. ASSUME NEW a \in Characters
      PROVE  /\ a \in Codes /\ a # << >> /\ a[1] \in Nat \ {Beyond}
             /\ Len(a) = IF a[1] \in Surrogate THEN 2 ELSE 1
  <2>1. PICK c \in Scalar : a = Units(c)
    BY DEF Characters
  <2>2. a \in Codes /\ a # << >> /\ a[1] \in Nat \ {Beyond} /\ Encoded(a, c)
    BY <2>1, UnitsAre
  <2> QED
    BY <2>2 DEF Encoded
<1>2. ASSUME NEW a \in Characters, NEW b \in Characters, NEW x \in Codes, NEW y \in Codes,
             Cat(a, x) = Cat(b, y)
      PROVE  a = b
  <2>1. a \in Codes /\ b \in Codes /\ a # << >> /\ b # << >>
    BY <1>1
  <2>2. Cat(a, x)[1] = a[1] /\ Cat(b, y)[1] = b[1]
    BY <2>1, HeadOfCat
  <2>3. Len(a) = Len(b)
    BY <1>1, <1>2, <2>2
  <2> QED
    BY <1>2, <2>1, <2>3, CatSameLength
<1>3. Delimited(Characters, Nat)
  BY <1>2 DEF Delimited, Cat
<1> QED
  BY <1>1, <1>3 DEF Pieces, Begins, Beyond

LEMMA UnitsOfAre ==
  ASSUME NEW s \in Seq(Scalar)
  PROVE  /\ UnitsOf(s) \in Seq(Characters)
         /\ Len(UnitsOf(s)) = Len(s)
         /\ \A i \in 1 .. Len(s) : s[i] \in Scalar /\ UnitsOf(s)[i] = Units(s[i])
         /\ Utf16(s) = FlattenSeq(UnitsOf(s))
         /\ Utf16(s) \in Codes
<1>1. PICK n \in Nat : n = Len(s) /\ DOMAIN s = 1 .. n /\ \A i \in 1 .. n : s[i] \in Scalar
  BY LenProperties, ElementOfSeq
<1>2. UnitsOf(s) = [i \in 1 .. n |-> Units(s[i])]
  BY <1>1 DEF UnitsOf
<1>3. \A i \in 1 .. n : Units(s[i]) \in Characters
  BY <1>1 DEF Characters
<1>4. UnitsOf(s) \in Seq(Characters) /\ Len(UnitsOf(s)) = n
  BY <1>2, <1>3
<1>5. Utf16(s) = FlattenSeq(UnitsOf(s))
  BY DEF Utf16, UnitsOf
<1>6. UnitsOf(s) \in Seq(Codes)
  BY <1>4, CharactersArePieces, SeqMonotonic DEF Pieces
<1> QED
  BY <1>1, <1>2, <1>4, <1>5, <1>6, FlattenType DEF Codes

LEMMA Utf16Tells ==
  ASSUME NEW s \in Seq(Scalar), NEW t \in Seq(Scalar), Utf16(s) = Utf16(t)
  PROVE  s = t
<1>1. /\ UnitsOf(s) \in Seq(Characters) /\ UnitsOf(t) \in Seq(Characters)
      /\ FlattenSeq(UnitsOf(s)) = FlattenSeq(UnitsOf(t))
  BY UnitsOfAre
<1>2. << >> \in Codes
  BY EmptySeq DEF Codes
<1>3. UnitsOf(s) = UnitsOf(t)
  <2>1. PICK e : e = << >>
    OBVIOUS
  <2>2. Cat(FlattenSeq(UnitsOf(s)), Cat(<<Beyond>>, e)) = Cat(FlattenSeq(UnitsOf(t)), Cat(<<Beyond>>, e))
    BY <1>1
  <2>3. \A ss, ts \in Seq(Characters), x, y \in Codes :
          Cat(FlattenSeq(ss), Cat(<<Beyond>>, x)) = Cat(FlattenSeq(ts), Cat(<<Beyond>>, y))
            => ss = ts /\ x = y
    BY CharactersArePieces, PiecesDetermined
  <2>4. e \in Codes
    BY <1>2, <2>1
  <2> QED
    BY <1>1, <2>2, <2>3, <2>4
<1>4. Len(s) = Len(t) /\ \A i \in 1 .. Len(s) : Units(s[i]) = Units(t[i]) /\ s[i] \in Scalar /\ t[i] \in Scalar
  BY <1>3, UnitsOfAre
<1>5. ASSUME NEW i \in 1 .. Len(s) PROVE s[i] = t[i]
  <2>1. PICK c \in Scalar : c = s[i]
    BY <1>4
  <2>2. PICK d \in Scalar : d = t[i]
    BY <1>4
  <2>3. PICK u : u = Units(c) /\ u = Units(d)
    BY <1>4, <2>1, <2>2
  <2>4. Encoded(u, c) /\ Encoded(u, d)
    BY <2>3, UnitsAre
  <2>5. c = d
    BY <2>4 DEF Encoded
  <2> QED
    BY <2>1, <2>2, <2>5
<1> QED
  BY <1>4, <1>5, SeqEqual

\* A text of the BMP has one unit for each character.
LEMMA Flat ==
  ASSUME NEW S
  PROVE  \A s \in Seq(S) : FlattenSeq([i \in DOMAIN s |-> <<s[i]>>]) = s
<1> DEFINE O(s) == [i \in DOMAIN s |-> <<s[i]>>]
           E == << >>
           F(ss) == FlattenSeq(ss)
           Good == {n \in Nat : \A s \in Seq(S) : Len(s) = n => F(O(s)) = s}
<1>1. 0 \in Good
  <2> SUFFICES ASSUME NEW s \in Seq(S), Len(s) = 0 PROVE F(O(s)) = s
    OBVIOUS
  <2>1. s = E
    BY EmptySeq
  <2>2. O(E) = E
    OBVIOUS
  <2>3. F(E) = E
    BY EmptySeq DEF FlattenSeq
  <2> QED
    BY <2>1, <2>2, <2>3
<1>2. ASSUME NEW n \in Good PROVE n + 1 \in Good
  <2>1. n \in Nat /\ n + 1 \in Nat /\ \A s \in Seq(S) : Len(s) = n => F(O(s)) = s
    OBVIOUS
  <2> SUFFICES ASSUME NEW s \in Seq(S), Len(s) = n + 1 PROVE F(O(s)) = s
    BY <2>1
  <2> DEFINE T == Tail(s)
             V == Seq(S)
             U == O(s)
  <2>2. s # E /\ DOMAIN s = 1 .. n + 1 /\ \A i \in 1 .. n + 1 : s[i] \in S /\ <<s[i]>> \in V
    <3>1. s # E
      BY <2>1, EmptySeq
    <3> QED
      BY <2>1, <3>1, LenProperties, ElementOfSeq
  <2>3. /\ T \in V /\ Len(T) = n /\ DOMAIN T = 1 .. n
        /\ \A i \in 1 .. n : T[i] = s[i + 1] /\ i + 1 \in 1 .. n + 1
    <3>1. /\ T \in V /\ Len(T) = n
          /\ \A i \in 1 .. n : T[i] = s[i + 1]
      BY <2>1, <2>2, HeadTailProperties
    <3>2. \A i \in 1 .. n : i + 1 \in 1 .. n + 1
      BY <2>1
    <3> QED
      BY <3>1, <3>2, LenProperties
  <2>4. U \in Seq(V) /\ Len(U) = n + 1 /\ \A i \in 1 .. n + 1 : U[i] = <<s[i]>>
    <3>1. U = [i \in 1 .. n + 1 |-> <<s[i]>>]
      BY <2>2
    <3> QED
      BY <2>1, <2>2, <3>1
  <2>5. O(T) = [i \in 1 .. n |-> <<T[i]>>]
    BY <2>3
  <2> HIDE DEF U
  <2>6. U # E /\ Tail(U) \in Seq(V) /\ Len(Tail(U)) = n /\ \A i \in 1 .. n : Tail(U)[i] = U[i + 1]
    BY <2>1, <2>4, EmptySeq, HeadTailProperties
  <2>7. Tail(U) = O(T)
    <3>1. DOMAIN Tail(U) = 1 .. n /\ Tail(U) = [i \in 1 .. n |-> Tail(U)[i]]
      BY <2>6, LenProperties
    <3>2. \A i \in 1 .. n : Tail(U)[i] = <<T[i]>>
      BY <2>3, <2>4, <2>6
    <3> QED
      BY <2>5, <3>1, <3>2
  <2>8. F(U) = U[1] \o F(Tail(U))
    BY <2>4, <2>6, FlattenFirst
  <2>9. U[1] = <<s[1]>>
    <3>1. 1 \in 1 .. n + 1
      BY <2>1
    <3> QED
      BY <2>4, <3>1
  <2>10. F(U) = <<s[1]>> \o T
    BY <2>1, <2>3, <2>7, <2>8, <2>9
  <2>11. s = <<s[1]>> \o T
    BY <2>2, HeadTailProperties, ConcatProperties, SeqEqual
  <2> QED
    BY <2>10, <2>11 DEF U
<1>3. Good = Nat
  <2> HIDE DEF Good
  <2>1. Good \subseteq Nat
    BY DEF Good
  <2> QED
    BY <1>1, <1>2, <2>1, NumberInduction
<1>4. ASSUME NEW s \in Seq(S) PROVE F(O(s)) = s
  <2>1. Len(s) \in Nat
    BY LenProperties
  <2> HIDE DEF O, F
  <2> QED
    BY <1>3, <2>1
<1> QED
  BY <1>4

LEMMA Utf16OfBmp ==
  ASSUME NEW s \in Seq(Bmp)
  PROVE  s \in Codes /\ Utf16(s) = s
<1>1. \A c \in Bmp : c \in Nat /\ c < 65536
  BY DEF Bmp, Scalar
<1>2. DOMAIN s = 1 .. Len(s) /\ \A i \in 1 .. Len(s) : s[i] < 65536
  BY <1>1, LenProperties, ElementOfSeq
<1>3. \A i \in DOMAIN s : Units(s[i]) = <<s[i]>>
  BY <1>2 DEF Units
<1>4. [i \in DOMAIN s |-> Units(s[i])] = [i \in DOMAIN s |-> <<s[i]>>]
  BY <1>3
<1>5. s \in Codes
  BY <1>1, SeqMonotonic DEF Codes
<1> QED
  BY <1>4, <1>5, Flat DEF Utf16

-----------------------------------------------------------------------------
(* Members in order.                                                       *)

KeyLess(s, t) == KeyBefore("rust", s, t)

LEMMA KeysAreOrdered ==
  LET K == Seq(Scalar) IN
    /\ \A s \in K : ~ KeyLess(s, s)
    /\ \A s, t, u \in K : KeyLess(s, t) /\ KeyLess(t, u) => KeyLess(s, u)
    /\ \A s, t \in K : s # t => KeyLess(s, t) \/ KeyLess(t, s)
<1> DEFINE K == Seq(Scalar)
<1>1. \A s \in K : Utf16(s) \in Codes
  BY UnitsOfAre
<1>2. \A s, t \in K : s # t => Utf16(s) # Utf16(t)
  BY Utf16Tells
<1>3. \A s, t : KeyLess(s, t) <=> Before(Utf16(s), Utf16(t))
  BY DEF KeyLess, KeyBefore
<1> HIDE DEF K
<1>4. /\ \A s \in K : ~ KeyLess(s, s)
      /\ \A s, t, u \in K : KeyLess(s, t) /\ KeyLess(t, u) => KeyLess(s, u)
      /\ \A s, t \in K : s # t => KeyLess(s, t) \/ KeyLess(t, s)
  BY <1>1, <1>2, <1>3, BeforeOrders
<1> QED
  BY <1>4 DEF K

LEMMA KeyOrders ==
  /\ \A s, t : KeyBefore("ts", s, t) <=> KeyLess(s, t)
  /\ \A s, t \in Seq(Bmp) : KeyBefore("py", s, t) <=> KeyLess(s, t)
<1>1. \A s, t : KeyBefore("ts", s, t) <=> KeyLess(s, t)
  BY DEF KeyBefore, KeyLess
<1>2. ASSUME NEW s \in Seq(Bmp), NEW t \in Seq(Bmp)
      PROVE  KeyBefore("py", s, t) <=> KeyLess(s, t)
  <2>1. Utf16(s) = s /\ Utf16(t) = t
    BY Utf16OfBmp
  <2> QED
    BY <2>1 DEF KeyBefore, KeyLess
<1> QED
  BY <1>1, <1>2

LEMMA KeyedIs ==
  ASSUME NEW chars, NEW A, NEW ms \in Keyed(chars, A)
  PROVE  /\ ms \in Seq(Seq(chars) \X A)
         /\ Len(ms) \in Nat /\ DOMAIN ms = 1 .. Len(ms)
         /\ ms \in [1 .. Len(ms) -> Range(ms)]
         /\ \A i \in 1 .. Len(ms) : ms[i] \in Seq(chars) \X A /\ ms[i][1] \in Seq(chars) /\ ms[i][2] \in A
         /\ \A i, j \in 1 .. Len(ms) : ms[i][1] = ms[j][1] => i = j
         /\ \A x \in Range(ms) : \E i \in 1 .. Len(ms) : x = ms[i]
         /\ \A i \in 1 .. Len(ms) : ms[i] \in Range(ms)
<1> DEFINE P == Seq(chars) \X A
<1>1. ms \in Seq(P) /\ \A i, j \in DOMAIN ms : ms[i][1] = ms[j][1] => i = j
  BY DEF Keyed
<1>2. \A x \in P : x[1] \in Seq(chars) /\ x[2] \in A
  OBVIOUS
<1> HIDE DEF P
<1>3. PICK n \in Nat : n = Len(ms) /\ DOMAIN ms = 1 .. n /\ ms \in [1 .. n -> P]
  BY <1>1, LenProperties
<1>4. Range(ms) = {ms[i] : i \in 1 .. n}
  BY <1>3 DEF Range
<1>5. ms \in [1 .. n -> Range(ms)]
  BY <1>3, <1>4
<1>6. \A i \in 1 .. n : ms[i] \in P
  BY <1>3
<1>7. \A x \in Range(ms) : \E i \in 1 .. n : x = ms[i]
  BY <1>4
<1>8. \A i \in 1 .. n : ms[i] \in Range(ms)
  BY <1>4
<1> QED
  BY <1>1, <1>2, <1>3, <1>5, <1>6, <1>7, <1>8 DEF P

LEMMA MembersInOrderIs ==
  ASSUME NEW A, NEW ms \in Keyed(Scalar, A), NEW lang, lang # "legacy",
         \A i, j \in 1 .. Len(ms) : KeyBefore(lang, ms[i][1], ms[j][1]) <=> KeyLess(ms[i][1], ms[j][1]),
         NEW os, os = MembersInOrder(lang, ms)
  PROVE  /\ os \in [1 .. Len(ms) -> Range(ms)]
         /\ Range(os) = Range(ms)
         /\ \A i, j \in 1 .. Len(ms) : i < j => KeyLess(os[i][1], os[j][1])
         /\ os = MembersInOrder("rust", ms)
<1>0. /\ ms \in Seq(Seq(Scalar) \X A)
      /\ Len(ms) \in Nat /\ DOMAIN ms = 1 .. Len(ms)
      /\ ms \in [1 .. Len(ms) -> Range(ms)]
      /\ \A i \in 1 .. Len(ms) : ms[i] \in Seq(Scalar) \X A /\ ms[i][1] \in Seq(Scalar) /\ ms[i][2] \in A
      /\ \A i, j \in 1 .. Len(ms) : ms[i][1] = ms[j][1] => i = j
      /\ \A x \in Range(ms) : \E i \in 1 .. Len(ms) : x = ms[i]
      /\ \A i \in 1 .. Len(ms) : ms[i] \in Range(ms)
  BY KeyedIs
<1> DEFINE M == Range(ms)
           K == Seq(Scalar)
           R == {p \in M \X M : KeyLess(p[1][1], p[2][1])}
<1>1. PICK n \in Nat : n = Len(ms)
  BY <1>0
<1>2. /\ DOMAIN ms = 1 .. n
      /\ ms \in [1 .. n -> M]
      /\ \A i \in 1 .. n : ms[i][1] \in K
      /\ \A i, j \in 1 .. n : ms[i][1] = ms[j][1] => i = j
      /\ \A x \in M : \E i \in 1 .. n : x = ms[i]
  BY <1>0, <1>1
<1>3. \A x \in M : x[1] \in K
  BY <1>2
<1>4. \A x, y \in M : x[1] = y[1] => x = y
  BY <1>2
<1>5. \A x, y \in M : KeyBefore(lang, x[1], y[1]) <=> KeyLess(x[1], y[1])
  BY <1>1, <1>2
<1> HIDE DEF M, K
<1>6. \A x, y \in M : <<x, y>> \in R <=> KeyLess(x[1], y[1])
  OBVIOUS
<1> HIDE DEF R
<1>7. StrictOrder(R, M)
  <2>1. /\ \A s \in K : ~ KeyLess(s, s)
        /\ \A s, t, u \in K : KeyLess(s, t) /\ KeyLess(t, u) => KeyLess(s, u)
        /\ \A s, t \in K : s # t => KeyLess(s, t) \/ KeyLess(t, s)
    BY KeysAreOrdered DEF K
  <2> QED
    BY <1>3, <1>4, <1>6, <2>1 DEF StrictOrder
<1>8. \A i, j \in 1 .. n : ms[i] = ms[j] => i = j
  BY <1>2
<1>9. PICK f \in [1 .. n -> M] : Range(f) = M /\ \A i, j \in 1 .. n : i < j => <<f[i], f[j]>> \in R
  <2>0. \A k \in Nat : \A g \in [1 .. k -> M] :
          (\A i, j \in 1 .. k : g[i] = g[j] => i = j)
            => \E f \in [1 .. k -> M] : /\ Range(f) = Range(g)
                                        /\ \A i, j \in 1 .. k : i < j => <<f[i], f[j]>> \in R
    BY <1>7, Arranged
  <2>1. \A g \in [1 .. n -> M] :
          (\A i, j \in 1 .. n : g[i] = g[j] => i = j)
            => \E f \in [1 .. n -> M] : /\ Range(f) = Range(g)
                                        /\ \A i, j \in 1 .. n : i < j => <<f[i], f[j]>> \in R
    BY <1>1, <2>0
  <2>2. Range(ms) = M
    BY DEF M
  <2> QED
    BY <1>2, <1>8, <2>1, <2>2
<1> DEFINE InKeyOrder(l, o) == /\ o \in [1 .. n -> M] /\ Range(o) = M
                       /\ \A i, j \in 1 .. n : i < j => KeyBefore(l, o[i][1], o[j][1])
<1>10. ASSUME NEW l, l # "legacy", \A x, y \in M : KeyBefore(l, x[1], y[1]) <=> KeyLess(x[1], y[1])
       PROVE  InKeyOrder(l, MembersInOrder(l, ms))
  <2>1. \A i, j \in 1 .. n : i < j => KeyBefore(l, f[i][1], f[j][1])
    BY <1>6, <1>9, <1>10
  <2>2. InKeyOrder(l, f)
    BY <1>9, <2>1
  <2>3. MembersInOrder(l, ms) =
          CHOOSE o \in [1 .. n -> M] :
            Range(o) = M /\ \A i, j \in DOMAIN o : i < j => KeyBefore(l, o[i][1], o[j][1])
    BY <1>2, <1>10 DEF MembersInOrder, M
  <2>4. \A o \in [1 .. n -> M] : DOMAIN o = 1 .. n
    OBVIOUS
  <2> QED
    BY <2>2, <2>3, <2>4
<1>11. ASSUME NEW l, NEW o, InKeyOrder(l, o), \A x, y \in M : KeyBefore(l, x[1], y[1]) <=> KeyLess(x[1], y[1])
       PROVE  \A i, j \in 1 .. n : i < j => <<o[i], o[j]>> \in R
  BY <1>6, <1>11
<1>12. InKeyOrder(lang, os) /\ InKeyOrder("rust", MembersInOrder("rust", ms))
  <2>1. "rust" # "legacy" /\ \A x, y \in M : KeyBefore("rust", x[1], y[1]) <=> KeyLess(x[1], y[1])
    BY DEF KeyLess
  <2> QED
    BY <1>5, <1>10, <2>1
<1>13. os = MembersInOrder("rust", ms)
  <2> DEFINE rs == MembersInOrder("rust", ms)
  <2>1. \A i, j \in 1 .. n : i < j => <<os[i], os[j]>> \in R
    BY <1>5, <1>11, <1>12
  <2>2. \A i, j \in 1 .. n : i < j => <<rs[i], rs[j]>> \in R
    BY <1>11, <1>12 DEF KeyLess
  <2>3. os \in [1 .. n -> M] /\ rs \in [1 .. n -> M] /\ Range(os) = Range(rs)
    BY <1>12
  <2> HIDE DEF rs
  <2>4. os = rs
    BY <1>7, <2>1, <2>2, <2>3, ArrangedOnce
  <2> QED
    BY <2>4 DEF rs
<1>14. \A i, j \in 1 .. n : i < j => KeyLess(os[i][1], os[j][1])
  BY <1>5, <1>12
<1> QED
  BY <1>1, <1>12, <1>13, <1>14 DEF M

-----------------------------------------------------------------------------
(* The texts of values, by those of the values in them.                    *)

List(a, ps, b) == Cat(Cat(<<a>>, Joined(ps)), <<b>>)

BareTexts == {<<110>>, <<116>>, <<102>>}
NumberTexts == {x \in Numerals : x[1] \in Figure \cup {45}}
QuotedTexts == {Quoted("rust", s) : s \in Seq(Scalar)}
ArrayTexts(A) == {List(91, ps, 93) : ps \in Seq(A)}
ObjectTexts(A) == {List(123, ps, 125) : ps \in Seq(MembersOf(A))}
TextsAbove(A) == BareTexts \cup NumberTexts \cup QuotedTexts \cup ArrayTexts(A) \cup ObjectTexts(A)

LEMMA ListIs ==
  ASSUME NEW A, Listed(A), NEW a \in Nat, NEW b \in {93, 125}, NEW ps \in Seq(A)
  PROVE  /\ List(a, ps, b) \in Codes /\ List(a, ps, b) # << >> /\ List(a, ps, b)[1] = a
         /\ \A x \in Codes : Cat(List(a, ps, b), x) = Cat(<<a>>, Cat(Joined(ps), Cat(<<b>>, x)))
<1> DEFINE p == <<a>>
           q == <<b>>
           j == Joined(ps)
<1>1. p \in Codes /\ p # << >> /\ p[1] = a
  BY OneCode
<1>2. q \in Codes
  <2>1. b \in Nat
    OBVIOUS
  <2> QED
    BY <2>1, OneCode
<1>3. j \in Codes
  BY JoinedIs
<1>4. List(a, ps, b) = Cat(Cat(p, j), q)
  BY DEF List
<1> HIDE DEF p, q, j
<1>5. Cat(p, j) \in Codes /\ Cat(p, j) # << >> /\ Cat(p, j)[1] = a
  BY <1>1, <1>3, HeadOfCat
<1>6. Cat(Cat(p, j), q) \in Codes /\ Cat(Cat(p, j), q) # << >> /\ Cat(Cat(p, j), q)[1] = a
  BY <1>2, <1>5, HeadOfCat
<1>7. ASSUME NEW x \in Codes PROVE Cat(Cat(Cat(p, j), q), x) = Cat(p, Cat(j, Cat(q, x)))
  <2>1. Cat(q, x) \in Codes
    BY <1>2, CatType
  <2>2. Cat(Cat(Cat(p, j), q), x) = Cat(Cat(p, j), Cat(q, x))
    BY <1>2, <1>5, CatLaws
  <2>3. Cat(Cat(p, j), Cat(q, x)) = Cat(p, Cat(j, Cat(q, x)))
    BY <1>1, <1>3, <2>1, CatLaws
  <2> QED
    BY <2>2, <2>3
<1> QED
  BY <1>4, <1>6, <1>7 DEF p, q, j

LEMMA ListsTell ==
  ASSUME NEW A, Listed(A), NEW a \in Nat, NEW b \in {93, 125}, NEW ps \in Seq(A), NEW qs \in Seq(A),
         NEW x \in Codes, NEW y \in Codes, Cat(List(a, ps, b), x) = Cat(List(a, qs, b), y)
  PROVE  ps = qs /\ x = y
<1>1. Cat(<<a>>, Cat(Joined(ps), Cat(<<b>>, x))) = Cat(<<a>>, Cat(Joined(qs), Cat(<<b>>, y)))
  BY ListIs
<1>2. <<a>> \in Codes /\ <<b>> \in Codes
  <2>1. b \in Nat
    OBVIOUS
  <2> QED
    BY <2>1, OneCode
<1>3. Joined(ps) \in Codes /\ Joined(qs) \in Codes
  BY JoinedIs
<1>4. Cat(<<b>>, x) \in Codes /\ Cat(<<b>>, y) \in Codes
  BY <1>2, CatType
<1>5. Cat(Joined(ps), Cat(<<b>>, x)) \in Codes /\ Cat(Joined(qs), Cat(<<b>>, y)) \in Codes
  BY <1>3, <1>4, CatType
<1>6. Cat(Joined(ps), Cat(<<b>>, x)) = Cat(Joined(qs), Cat(<<b>>, y))
  BY <1>1, <1>2, <1>5, CatLaws
<1> QED
  BY <1>6, ListDetermined

\* What a text begins with tells what it is.
Initial == {110, 116, 102}

LEMMA Heads ==
  ASSUME NEW A, Listed(A)
  PROVE  /\ \A e \in BareTexts : e \in Codes /\ e # << >> /\ e[1] \in Initial /\ e = <<e[1]>>
         /\ \A e \in NumberTexts : e \in Codes /\ e # << >> /\ e[1] \in Figure \cup {45}
         /\ \A e \in QuotedTexts : e \in Codes /\ e # << >> /\ e[1] = 34
         /\ \A e \in ArrayTexts(A) : e \in Codes /\ e # << >> /\ e[1] = 91
         /\ \A e \in ObjectTexts(A) : e \in Codes /\ e # << >> /\ e[1] = 123
<1>1. ASSUME NEW e \in BareTexts PROVE e \in Codes /\ e # << >> /\ e[1] \in Initial /\ e = <<e[1]>>
  <2>1. PICK a \in Nat : a \in Initial /\ e = <<a>>
    BY DEF BareTexts, Initial
  <2> QED
    BY <2>1, OneCode
<1>2. ASSUME NEW e \in NumberTexts PROVE e \in Codes /\ e # << >> /\ e[1] \in Figure \cup {45}
  BY DEF NumberTexts, Numerals
<1>3. ASSUME NEW e \in QuotedTexts PROVE e \in Codes /\ e # << >> /\ e[1] = 34
  BY QuotedIs DEF QuotedTexts
<1>4. ASSUME NEW e \in ArrayTexts(A) PROVE e \in Codes /\ e # << >> /\ e[1] = 91
  <2>1. PICK ps \in Seq(A) : e = List(91, ps, 93)
    BY DEF ArrayTexts
  <2>2. PICK a \in Nat : a = 91
    OBVIOUS
  <2>3. PICK b \in {93, 125} : b = 93
    OBVIOUS
  <2>4. /\ List(a, ps, b) \in Codes /\ List(a, ps, b) # << >> /\ List(a, ps, b)[1] = a
        /\ \A x \in Codes : Cat(List(a, ps, b), x) = Cat(<<a>>, Cat(Joined(ps), Cat(<<b>>, x)))
    BY <2>2, <2>3, ListIs
  <2> QED
    BY <2>1, <2>2, <2>3, <2>4
<1>5. ASSUME NEW e \in ObjectTexts(A) PROVE e \in Codes /\ e # << >> /\ e[1] = 123
  <2>0. Listed(MembersOf(A))
    BY MembersListed
  <2>1. PICK ps \in Seq(MembersOf(A)) : e = List(123, ps, 125)
    BY DEF ObjectTexts
  <2>2. PICK a \in Nat : a = 123
    OBVIOUS
  <2>3. PICK b \in {93, 125} : b = 125
    OBVIOUS
  <2>4. /\ List(a, ps, b) \in Codes /\ List(a, ps, b) # << >> /\ List(a, ps, b)[1] = a
        /\ \A x \in Codes : Cat(List(a, ps, b), x) = Cat(<<a>>, Cat(Joined(ps), Cat(<<b>>, x)))
    BY <2>0, <2>2, <2>3, ListIs
  <2> QED
    BY <2>1, <2>2, <2>3, <2>4
<1> QED
  BY <1>1, <1>2, <1>3, <1>4, <1>5

LEMMA TextsListed ==
  ASSUME NEW A, Listed(A)
  PROVE  Listed(TextsAbove(A))
<1> DEFINE T == TextsAbove(A)
<1>1. /\ \A e \in BareTexts : e \in Codes /\ e # << >> /\ e[1] \in Initial /\ e = <<e[1]>>
      /\ \A e \in NumberTexts : e \in Codes /\ e # << >> /\ e[1] \in Figure \cup {45}
      /\ \A e \in QuotedTexts : e \in Codes /\ e # << >> /\ e[1] = 34
      /\ \A e \in ArrayTexts(A) : e \in Codes /\ e # << >> /\ e[1] = 91
      /\ \A e \in ObjectTexts(A) : e \in Codes /\ e # << >> /\ e[1] = 123
  BY Heads
<1>2. \A e \in T : \/ e \in BareTexts \/ e \in NumberTexts \/ e \in QuotedTexts \/ e \in ArrayTexts(A) \/ e \in ObjectTexts(A)
  BY DEF TextsAbove
<1> HIDE DEF T
<1>3. ASSUME NEW e \in T PROVE e \in Codes /\ e # << >>
  BY <1>1, <1>2
<1>4. ASSUME NEW e \in T PROVE e[1] \notin Stops
  <2>1. \/ e[1] \in Initial \/ e[1] \in Figure \cup {45} \/ e[1] = 34 \/ e[1] = 91 \/ e[1] = 123
    BY <1>1, <1>2
  <2> QED
    BY <2>1 DEF Initial, Figure, Stops
<1>5. ASSUME NEW d \in T, NEW e \in T, d[1] = e[1]
      PROVE  \/ d \in BareTexts /\ e \in BareTexts
             \/ d \in NumberTexts /\ e \in NumberTexts
             \/ d \in QuotedTexts /\ e \in QuotedTexts
             \/ d \in ArrayTexts(A) /\ e \in ArrayTexts(A)
             \/ d \in ObjectTexts(A) /\ e \in ObjectTexts(A)
  <2> DEFINE Kind(k, c) == \/ k = 1 /\ c \in Initial
                           \/ k = 2 /\ c \in Figure \cup {45}
                           \/ k = 3 /\ c = 34
                           \/ k = 4 /\ c = 91
                           \/ k = 5 /\ c = 123
             In(k, x) == \/ k = 1 /\ x \in BareTexts
                         \/ k = 2 /\ x \in NumberTexts
                         \/ k = 3 /\ x \in QuotedTexts
                         \/ k = 4 /\ x \in ArrayTexts(A)
                         \/ k = 5 /\ x \in ObjectTexts(A)
  <2>1. \A k, l \in 1 .. 5 : \A c : Kind(k, c) /\ Kind(l, c) => k = l
    BY DEF Initial, Figure
  <2>2. ASSUME NEW x \in T PROVE \E k \in 1 .. 5 : In(k, x)
    <3>1. In(1, x) \/ In(2, x) \/ In(3, x) \/ In(4, x) \/ In(5, x)
      BY <1>2
    <3> HIDE DEF In
    <3> QED
      BY <3>1
  <2>3. ASSUME NEW x \in T, NEW k \in 1 .. 5, In(k, x) PROVE Kind(k, x[1])
    BY <1>1, <2>3
  <2> HIDE DEF Kind
  <2>4. PICK k \in 1 .. 5 : In(k, d)
    BY <2>2
  <2>5. PICK l \in 1 .. 5 : In(l, e)
    BY <2>2
  <2>6. Kind(k, d[1]) /\ Kind(l, e[1])
    BY <2>3, <2>4, <2>5
  <2>7. k = l
    BY <1>5, <2>1, <2>6
  <2> QED
    BY <2>4, <2>5, <2>7
<1>6. ASSUME NEW d \in T, NEW e \in T, NEW x \in Codes, NEW y \in Codes,
             Begins(x, Stops), Begins(y, Stops), Cat(d, x) = Cat(e, y)
      PROVE  d = e
  <2>1. d \in Codes /\ d # << >> /\ e \in Codes /\ e # << >>
    BY <1>3
  <2>2. Cat(d, x)[1] = d[1] /\ Cat(e, y)[1] = e[1]
    BY <2>1, HeadOfCat
  <2>3. d[1] = e[1]
    BY <1>6, <2>2
  <2>4. CASE d \in BareTexts /\ e \in BareTexts
    BY <1>1, <2>3, <2>4
  <2>5. CASE d \in NumberTexts /\ e \in NumberTexts
    <3>1. d \in Numerals /\ e \in Numerals
      BY <2>5 DEF NumberTexts
    <3> QED
      BY <1>6, <3>1, NumeralsDelimited DEF Delimited, Cat
  <2>6. CASE d \in QuotedTexts /\ e \in QuotedTexts
    <3>1. PICK s \in Seq(Scalar) : d = Quoted("rust", s)
      BY <2>6 DEF QuotedTexts
    <3>2. PICK t \in Seq(Scalar) : e = Quoted("rust", t)
      BY <2>6 DEF QuotedTexts
    <3> QED
      BY <1>6, <3>1, <3>2, QuotedDetermined
  <2>7. CASE d \in ArrayTexts(A) /\ e \in ArrayTexts(A)
    <3>1. PICK ps \in Seq(A) : d = List(91, ps, 93)
      BY <2>7 DEF ArrayTexts
    <3>2. PICK qs \in Seq(A) : e = List(91, qs, 93)
      BY <2>7 DEF ArrayTexts
    <3>3. PICK a \in Nat : a = 91
      OBVIOUS
    <3>4. PICK b \in {93, 125} : b = 93
      OBVIOUS
    <3>5. Cat(List(a, ps, b), x) = Cat(List(a, qs, b), y)
      BY <1>6, <3>1, <3>2, <3>3, <3>4
    <3>6. ps = qs
      BY <3>5, ListsTell
    <3> QED
      BY <3>1, <3>2, <3>6
  <2>8. CASE d \in ObjectTexts(A) /\ e \in ObjectTexts(A)
    <3>0. Listed(MembersOf(A))
      BY MembersListed
    <3>1. PICK ps \in Seq(MembersOf(A)) : d = List(123, ps, 125)
      BY <2>8 DEF ObjectTexts
    <3>2. PICK qs \in Seq(MembersOf(A)) : e = List(123, qs, 125)
      BY <2>8 DEF ObjectTexts
    <3>3. PICK a \in Nat : a = 123
      OBVIOUS
    <3>4. PICK b \in {93, 125} : b = 125
      OBVIOUS
    <3>5. Cat(List(a, ps, b), x) = Cat(List(a, qs, b), y)
      BY <1>6, <3>1, <3>2, <3>3, <3>4
    <3>6. ps = qs
      BY <3>0, <3>5, ListsTell
    <3> QED
      BY <3>1, <3>2, <3>6
  <2> QED
    BY <1>5, <2>3, <2>4, <2>5, <2>6, <2>7, <2>8
<1>7. Delimited(T, Stops)
  BY <1>6 DEF Delimited, Cat
<1> QED
  BY <1>3, <1>4, <1>7 DEF Listed, T

-----------------------------------------------------------------------------
(* Values by their kinds.                                                  *)

LEMMA KindOf ==
  ASSUME NEW numbers, NEW chars, NEW inner, NEW v
  PROVE  v \in Nested(numbers, chars, inner)
           <=> \/ v = Null
               \/ \E b \in BOOLEAN : v = Bool(b)
               \/ \E n \in numbers : v = Number(n)
               \/ \E s \in Seq(Scalar) : v = Text(s)
               \/ \E vs \in Seq(inner) : v = Array(vs)
               \/ \E ms \in Keyed(chars, inner) : v = Object(ms)
<1> DEFINE T == Seq(Scalar)
           I == Seq(inner)
           K == Keyed(chars, inner)
<1>1. v \in Nested(numbers, chars, inner)
        <=> \/ v = Null
            \/ v \in [bool : BOOLEAN]
            \/ v \in [number : numbers]
            \/ v \in [text : T]
            \/ v \in [items : I]
            \/ v \in [members : K]
  BY DEF Nested
<1> HIDE DEF T, I, K
<1>2. /\ v \in [bool : BOOLEAN] <=> \E b \in BOOLEAN : v = Bool(b)
      /\ v \in [number : numbers] <=> \E n \in numbers : v = Number(n)
      /\ v \in [text : T] <=> \E s \in T : v = Text(s)
      /\ v \in [items : I] <=> \E vs \in I : v = Array(vs)
      /\ v \in [members : K] <=> \E ms \in K : v = Object(ms)
  BY DEF Bool, Number, Text, Array, Object
<1> QED
  BY <1>1, <1>2 DEF T, I, K

LEMMA NullWritten ==
  ASSUME NEW lang, NEW inner
  PROVE  EncodeWith(lang, Null, inner) = <<110>>
BY DEF EncodeWith, Is, Null

LEMMA BoolWritten ==
  ASSUME NEW lang, NEW inner, NEW b \in BOOLEAN
  PROVE  EncodeWith(lang, Bool(b), inner) = IF b THEN <<116>> ELSE <<102>>
BY DEF EncodeWith, Is, Bool

LEMMA NumberWritten ==
  ASSUME NEW lang, NEW inner, NEW n
  PROVE  EncodeWith(lang, Number(n), inner) = NumberText(lang, n)
BY DEF EncodeWith, Is, Number

LEMMA TextWritten ==
  ASSUME NEW lang, NEW inner, NEW s
  PROVE  EncodeWith(lang, Text(s), inner) = Quoted(lang, s)
BY DEF EncodeWith, Is, Text

ImagesOf(g, vs) == [i \in DOMAIN vs |-> g[vs[i]]]

LEMMA ArrayWritten ==
  ASSUME NEW lang, NEW inner, NEW vs
  PROVE  EncodeWith(lang, Array(vs), inner) = List(91, ImagesOf(inner, vs), 93)
<1>1. EncodeWith(lang, Array(vs), inner) = List(91, [i \in DOMAIN vs |-> inner[vs[i]]], 93)
  BY DEF EncodeWith, Is, Array, List, Cat
<1> QED
  BY <1>1 DEF ImagesOf

MembersAs(lang, inner, os) ==
  [i \in DOMAIN os |-> Quoted(lang, os[i][1]) \o <<58>> \o inner[os[i][2]]]

LEMMA ObjectWritten ==
  ASSUME NEW lang, NEW inner, NEW ms
  PROVE  EncodeWith(lang, Object(ms), inner)
           = List(123, MembersAs(lang, inner, MembersInOrder(lang, ms)), 125)
<1>1. EncodeWith(lang, Object(ms), inner)
        = LET os == MembersInOrder(lang, ms) IN
            List(123, [i \in DOMAIN os |-> Quoted(lang, os[i][1]) \o <<58>> \o inner[os[i][2]]], 125)
  BY DEF EncodeWith, Is, Object, List, Cat
<1> QED
  BY <1>1 DEF MembersAs

LEMMA MeaningWithIs ==
  ASSUME NEW inner
  PROVE  /\ MeaningWith(Null, inner) = Null
         /\ \A b : MeaningWith(Bool(b), inner) = Bool(b)
         /\ \A n : MeaningWith(Number(n), inner) = Number(n)
         /\ \A s : MeaningWith(Text(s), inner) = Text(s)
         /\ \A vs : MeaningWith(Array(vs), inner) = Array([i \in DOMAIN vs |-> inner[vs[i]]])
         /\ \A ms : MeaningWith(Object(ms), inner)
                      = Object({<<ms[i][1], inner[ms[i][2]]>> : i \in DOMAIN ms})
<1>1. MeaningWith(Null, inner) = Null
  BY DEF MeaningWith, Is, Null
<1>2. ASSUME NEW b PROVE MeaningWith(Bool(b), inner) = Bool(b)
  BY DEF MeaningWith, Is, Bool
<1>3. ASSUME NEW n PROVE MeaningWith(Number(n), inner) = Number(n)
  BY DEF MeaningWith, Is, Number
<1>4. ASSUME NEW s PROVE MeaningWith(Text(s), inner) = Text(s)
  BY DEF MeaningWith, Is, Text
<1>5. ASSUME NEW vs
      PROVE  MeaningWith(Array(vs), inner) = Array([i \in DOMAIN vs |-> inner[vs[i]]])
  BY DEF MeaningWith, Is, Array
<1>6. ASSUME NEW ms
      PROVE  MeaningWith(Object(ms), inner)
               = Object({<<ms[i][1], inner[ms[i][2]]>> : i \in DOMAIN ms})
  BY DEF MeaningWith, Is, Object
<1> QED
  BY <1>1, <1>2, <1>3, <1>4, <1>5, <1>6

\* Whatever is in them, values of two kinds are two values.
LEMMA KindsTell ==
  /\ \A b : Null # Bool(b) /\ Null # Number(b) /\ Null # Text(b) /\ Null # Array(b) /\ Null # Object(b)
  /\ \A a, b : /\ Bool(a) # Number(b) /\ Bool(a) # Text(b) /\ Bool(a) # Array(b) /\ Bool(a) # Object(b)
               /\ Number(a) # Text(b) /\ Number(a) # Array(b) /\ Number(a) # Object(b)
               /\ Text(a) # Array(b) /\ Text(a) # Object(b) /\ Array(a) # Object(b)
  /\ \A a, b : /\ Bool(a) = Bool(b) => a = b
               /\ Number(a) = Number(b) => a = b
               /\ Text(a) = Text(b) => a = b
               /\ Array(a) = Array(b) => a = b
               /\ Object(a) = Object(b) => a = b
<1>1. \A a : /\ DOMAIN Null = {"null"} /\ DOMAIN Bool(a) = {"bool"} /\ DOMAIN Number(a) = {"number"}
             /\ DOMAIN Text(a) = {"text"} /\ DOMAIN Array(a) = {"items"} /\ DOMAIN Object(a) = {"members"}
  BY DEF Null, Bool, Number, Text, Array, Object
<1>2. \A a : /\ Bool(a).bool = a /\ Number(a).number = a /\ Text(a).text = a
             /\ Array(a).items = a /\ Object(a).members = a
  BY DEF Bool, Number, Text, Array, Object
<1>3. \A x, y : DOMAIN x # DOMAIN y => x # y
  OBVIOUS
<1> QED
  BY <1>1, <1>2, <1>3

-----------------------------------------------------------------------------
(* What is written for values of each kind.                                *)

\* The members of an object, ordered by their keys.
InKeyOrder(I, ms, os) ==
  /\ Len(ms) \in Nat /\ DOMAIN os = 1 .. Len(ms)
  /\ \A i \in 1 .. Len(ms) : os[i][1] \in Seq(Scalar) /\ os[i][2] \in I
  /\ \A i, j \in 1 .. Len(ms) : i < j => KeyLess(os[i][1], os[j][1])
  /\ \A i \in 1 .. Len(ms) : \E j \in 1 .. Len(ms) : os[i] = ms[j]
  /\ \A j \in 1 .. Len(ms) : \E i \in 1 .. Len(ms) : os[i] = ms[j]

LEMMA MembersOrdered ==
  ASSUME NEW I, NEW ms \in Keyed(Scalar, I), NEW os, os = MembersInOrder("rust", ms)
  PROVE  InKeyOrder(I, ms, os)
<1>1. /\ ms \in Seq(Seq(Scalar) \X I)
      /\ Len(ms) \in Nat /\ DOMAIN ms = 1 .. Len(ms)
      /\ ms \in [1 .. Len(ms) -> Range(ms)]
      /\ \A i \in 1 .. Len(ms) : ms[i] \in Seq(Scalar) \X I /\ ms[i][1] \in Seq(Scalar) /\ ms[i][2] \in I
      /\ \A i, j \in 1 .. Len(ms) : ms[i][1] = ms[j][1] => i = j
      /\ \A x \in Range(ms) : \E i \in 1 .. Len(ms) : x = ms[i]
      /\ \A i \in 1 .. Len(ms) : ms[i] \in Range(ms)
  BY KeyedIs
<1>2. PICK lang : lang = "rust"
  OBVIOUS
<1>3. /\ os \in [1 .. Len(ms) -> Range(ms)]
      /\ Range(os) = Range(ms)
      /\ \A i, j \in 1 .. Len(ms) : i < j => KeyLess(os[i][1], os[j][1])
      /\ os = MembersInOrder("rust", ms)
  <2>1. lang # "legacy" /\ os = MembersInOrder(lang, ms)
    BY <1>2
  <2>2. \A i, j \in 1 .. Len(ms) : KeyBefore(lang, ms[i][1], ms[j][1]) <=> KeyLess(ms[i][1], ms[j][1])
    BY <1>2 DEF KeyLess
  <2> QED
    BY <2>1, <2>2, MembersInOrderIs
<1>4. \A i \in 1 .. Len(ms) : os[i] \in Range(ms)
  BY <1>3
<1>5. \A x \in Range(ms) : \E i \in 1 .. Len(ms) : os[i] = x
  BY <1>3 DEF Range
<1> QED
  BY <1>1, <1>3, <1>4, <1>5 DEF InKeyOrder

\* The texts of the values in one.
TextsIn(I, g) == {g[v] : v \in I}

\* The members of an object in the order in which they are written, as texts.
MemberTexts(g, os) == [i \in DOMAIN os |-> Member(os[i][1], g[os[i][2]])]

LEMMA MembersWritten ==
  ASSUME NEW I, NEW g, NEW A, A = TextsIn(I, g), Listed(A),
         NEW ms \in Keyed(Scalar, I), NEW os, os = MembersInOrder("rust", ms)
  PROVE  /\ MemberTexts(g, os) \in Seq(MembersOf(A))
         /\ Len(MemberTexts(g, os)) = Len(ms)
         /\ EncodeWith("rust", Object(ms), g) = List(123, MemberTexts(g, os), 125)
<1>0. InKeyOrder(I, ms, os)
  BY MembersOrdered
<1>1. /\ Len(ms) \in Nat /\ DOMAIN os = 1 .. Len(ms)
      /\ \A i \in 1 .. Len(ms) : os[i][1] \in Seq(Scalar) /\ os[i][2] \in I
  BY <1>0 DEF InKeyOrder
<1>2. PICK n \in Nat : n = Len(ms)
  BY <1>1
<1>3. ASSUME NEW i \in 1 .. n
      PROVE  /\ g[os[i][2]] \in A
             /\ Member(os[i][1], g[os[i][2]]) \in MembersOf(A)
             /\ Quoted("rust", os[i][1]) \o <<58>> \o g[os[i][2]] = Member(os[i][1], g[os[i][2]])
  <2>1. os[i][1] \in Seq(Scalar) /\ os[i][2] \in I
    BY <1>1, <1>2
  <2>2. PICK k \in Seq(Scalar) : k = os[i][1]
    BY <2>1
  <2>3. PICK t \in A : t = g[os[i][2]]
    BY <2>1 DEF TextsIn
  <2>4. Member(k, t) \in MembersOf(A)
    BY DEF MembersOf
  <2>5. t \in Codes /\ Quoted("rust", k) \in Codes /\ <<58>> \in Codes
    BY QuotedIs, MemberIs DEF Listed
  <2>6. Cat(Cat(Quoted("rust", k), <<58>>), t) = Member(k, t)
    BY <2>5, CatLaws DEF Member
  <2> QED
    BY <2>2, <2>3, <2>4, <2>6 DEF Cat
<1>4. MemberTexts(g, os) = [i \in 1 .. n |-> Member(os[i][1], g[os[i][2]])]
  BY <1>1, <1>2 DEF MemberTexts
<1>5. MemberTexts(g, os) \in Seq(MembersOf(A)) /\ Len(MemberTexts(g, os)) = n
  <2> DEFINE P(i) == Member(os[i][1], g[os[i][2]])
             M == MembersOf(A)
  <2>1. \A i \in 1 .. n : P(i) \in M
    BY <1>3
  <2>2. MemberTexts(g, os) = [i \in 1 .. n |-> P(i)]
    BY <1>4
  <2> HIDE DEF P, M
  <2>3. [i \in 1 .. n |-> P(i)] \in Seq(M) /\ Len([i \in 1 .. n |-> P(i)]) = n
    BY <2>1
  <2> QED
    BY <2>2, <2>3 DEF M
<1>6. MembersAs("rust", g, os) = MemberTexts(g, os)
  <2>1. MembersAs("rust", g, os)
          = [i \in 1 .. n |-> Quoted("rust", os[i][1]) \o <<58>> \o g[os[i][2]]]
    BY <1>1, <1>2 DEF MembersAs
  <2> QED
    BY <1>3, <1>4, <2>1
<1>7. EncodeWith("rust", Object(ms), g) = List(123, MembersAs("rust", g, MembersInOrder("rust", ms)), 125)
  BY ObjectWritten
<1> QED
  BY <1>2, <1>5, <1>6, <1>7

LEMMA ItemsWritten ==
  ASSUME NEW I, NEW g, NEW A, A = TextsIn(I, g), NEW vs \in Seq(I)
  PROVE  /\ ImagesOf(g, vs) \in Seq(A)
         /\ Len(ImagesOf(g, vs)) = Len(vs) /\ Len(vs) \in Nat
         /\ \A i \in 1 .. Len(vs) : vs[i] \in I /\ ImagesOf(g, vs)[i] = g[vs[i]]
         /\ EncodeWith("rust", Array(vs), g) = List(91, ImagesOf(g, vs), 93)
<1>1. PICK n \in Nat : n = Len(vs) /\ DOMAIN vs = 1 .. n /\ \A i \in 1 .. n : vs[i] \in I
  BY LenProperties, ElementOfSeq
<1>2. ImagesOf(g, vs) = [i \in 1 .. n |-> g[vs[i]]]
  BY <1>1 DEF ImagesOf
<1>3. \A i \in 1 .. n : g[vs[i]] \in A
  BY <1>1 DEF TextsIn
<1>4. ImagesOf(g, vs) \in Seq(A) /\ Len(ImagesOf(g, vs)) = n
  BY <1>2, <1>3
<1>5. EncodeWith("rust", Array(vs), g) = List(91, ImagesOf(g, vs), 93)
  BY ArrayWritten
<1> QED
  BY <1>1, <1>2, <1>4, <1>5

LEMMA TextsOfValues ==
  ASSUME NEW I, NEW g, NEW A, A = TextsIn(I, g), Listed(A), NEW v \in Nested(Int, Scalar, I)
  PROVE  EncodeWith("rust", v, g) \in TextsAbove(A)
<1>0. \/ v = Null
      \/ \E b \in BOOLEAN : v = Bool(b)
      \/ \E n \in Int : v = Number(n)
      \/ \E s \in Seq(Scalar) : v = Text(s)
      \/ \E vs \in Seq(I) : v = Array(vs)
      \/ \E ms \in Keyed(Scalar, I) : v = Object(ms)
  BY KindOf
<1>1. EncodeWith("rust", Null, g) \in TextsAbove(A)
  BY NullWritten DEF TextsAbove, BareTexts
<1>2. ASSUME NEW b \in BOOLEAN PROVE EncodeWith("rust", Bool(b), g) \in TextsAbove(A)
  <2>1. EncodeWith("rust", Bool(b), g) = IF b THEN <<116>> ELSE <<102>>
    BY BoolWritten
  <2>2. EncodeWith("rust", Bool(b), g) \in BareTexts
    BY <2>1 DEF BareTexts
  <2> QED
    BY <2>2 DEF TextsAbove
<1>3. ASSUME NEW n \in Int PROVE EncodeWith("rust", Number(n), g) \in TextsAbove(A)
  <2>1. EncodeWith("rust", Number(n), g) = NumberText("rust", n)
    BY NumberWritten
  <2>2. NumberText("rust", n) = Decimal(n)
    BY DEF NumberText
  <2>3. Decimal(n) \in NumberTexts
    BY DecimalShape DEF NumberTexts
  <2> QED
    BY <2>1, <2>2, <2>3 DEF TextsAbove
<1>4. ASSUME NEW s \in Seq(Scalar) PROVE EncodeWith("rust", Text(s), g) \in TextsAbove(A)
  <2>1. EncodeWith("rust", Text(s), g) = Quoted("rust", s)
    BY TextWritten
  <2> QED
    BY <2>1 DEF TextsAbove, QuotedTexts
<1>5. ASSUME NEW vs \in Seq(I) PROVE EncodeWith("rust", Array(vs), g) \in TextsAbove(A)
  <2>1. ImagesOf(g, vs) \in Seq(A) /\ EncodeWith("rust", Array(vs), g) = List(91, ImagesOf(g, vs), 93)
    BY ItemsWritten
  <2> QED
    BY <2>1 DEF TextsAbove, ArrayTexts
<1>6. ASSUME NEW ms \in Keyed(Scalar, I) PROVE EncodeWith("rust", Object(ms), g) \in TextsAbove(A)
  <2>1. PICK os : os = MembersInOrder("rust", ms)
    OBVIOUS
  <2>2. /\ MemberTexts(g, os) \in Seq(MembersOf(A))
        /\ Len(MemberTexts(g, os)) = Len(ms)
        /\ EncodeWith("rust", Object(ms), g) = List(123, MemberTexts(g, os), 125)
    BY <2>1, MembersWritten
  <2> QED
    BY <2>2 DEF TextsAbove, ObjectTexts
<1> QED
  BY <1>0, <1>1, <1>2, <1>3, <1>4, <1>5, <1>6

-----------------------------------------------------------------------------
(* Equal texts are of equal values.                                        *)

OfKind(k, v, I) ==
  \/ k = 1 /\ v = Null
  \/ k = 2 /\ \E b \in BOOLEAN : v = Bool(b)
  \/ k = 3 /\ \E n \in Int : v = Number(n)
  \/ k = 4 /\ \E s \in Seq(Scalar) : v = Text(s)
  \/ k = 5 /\ \E vs \in Seq(I) : v = Array(vs)
  \/ k = 6 /\ \E ms \in Keyed(Scalar, I) : v = Object(ms)

LEMMA EveryKind ==
  ASSUME NEW I, NEW v \in Nested(Int, Scalar, I)
  PROVE  \E k \in 1 .. 6 : OfKind(k, v, I)
<1>1. \/ v = Null
      \/ \E b \in BOOLEAN : v = Bool(b)
      \/ \E n \in Int : v = Number(n)
      \/ \E s \in Seq(Scalar) : v = Text(s)
      \/ \E vs \in Seq(I) : v = Array(vs)
      \/ \E ms \in Keyed(Scalar, I) : v = Object(ms)
  BY KindOf
<1>2. OfKind(1, v, I) \/ OfKind(2, v, I) \/ OfKind(3, v, I) \/ OfKind(4, v, I) \/ OfKind(5, v, I) \/ OfKind(6, v, I)
  BY <1>1 DEF OfKind
<1> QED
  BY <1>2

\* The first code of a text tells the kind of the value.
HeadOf(k, c) ==
  \/ k = 1 /\ c = 110
  \/ k = 2 /\ c \in {116, 102}
  \/ k = 3 /\ c \in Figure \cup {45}
  \/ k = 4 /\ c = 34
  \/ k = 5 /\ c = 91
  \/ k = 6 /\ c = 123

LEMMA TextTellsKind ==
  ASSUME NEW I, NEW g, NEW A, A = TextsIn(I, g), Listed(A),
         NEW v, NEW k \in 1 .. 6, OfKind(k, v, I)
  PROVE  HeadOf(k, EncodeWith("rust", v, g)[1])
<1>0. /\ \A e \in BareTexts : e \in Codes /\ e # << >> /\ e[1] \in Initial /\ e = <<e[1]>>
      /\ \A e \in NumberTexts : e \in Codes /\ e # << >> /\ e[1] \in Figure \cup {45}
      /\ \A e \in QuotedTexts : e \in Codes /\ e # << >> /\ e[1] = 34
      /\ \A e \in ArrayTexts(A) : e \in Codes /\ e # << >> /\ e[1] = 91
      /\ \A e \in ObjectTexts(A) : e \in Codes /\ e # << >> /\ e[1] = 123
  BY Heads
<1>1. CASE k = 1
  <2>1. EncodeWith("rust", v, g) = <<110>>
    BY <1>1, NullWritten DEF OfKind
  <2> QED
    BY <1>1, <2>1 DEF HeadOf
<1>2. CASE k = 2
  <2>1. PICK b \in BOOLEAN : v = Bool(b)
    BY <1>2 DEF OfKind
  <2>2. EncodeWith("rust", v, g) = IF b THEN <<116>> ELSE <<102>>
    BY <2>1, BoolWritten
  <2> QED
    BY <1>2, <2>2 DEF HeadOf
<1>3. CASE k = 3
  <2>1. PICK n \in Int : v = Number(n)
    BY <1>3 DEF OfKind
  <2>2. EncodeWith("rust", v, g) = NumberText("rust", n)
    BY <2>1, NumberWritten
  <2>3. NumberText("rust", n) = Decimal(n)
    BY DEF NumberText
  <2>4. Decimal(n)[1] \in Figure \cup {45}
    BY DecimalShape
  <2> QED
    BY <1>3, <2>2, <2>3, <2>4 DEF HeadOf
<1>4. CASE k = 4
  <2>1. PICK s \in Seq(Scalar) : v = Text(s)
    BY <1>4 DEF OfKind
  <2>2. EncodeWith("rust", v, g) = Quoted("rust", s)
    BY <2>1, TextWritten
  <2>3. EncodeWith("rust", v, g)[1] = 34
    BY <2>2, QuotedIs
  <2> QED
    BY <1>4, <2>3 DEF HeadOf
<1>5. CASE k = 5
  <2>1. PICK vs \in Seq(I) : v = Array(vs)
    BY <1>5 DEF OfKind
  <2>2. ImagesOf(g, vs) \in Seq(A) /\ EncodeWith("rust", Array(vs), g) = List(91, ImagesOf(g, vs), 93)
    BY ItemsWritten
  <2>3. EncodeWith("rust", v, g) \in ArrayTexts(A)
    BY <2>1, <2>2 DEF ArrayTexts
  <2>4. EncodeWith("rust", v, g)[1] = 91
    BY <1>0, <2>3
  <2> QED
    BY <1>5, <2>4 DEF HeadOf
<1>6. CASE k = 6
  <2>1. PICK ms \in Keyed(Scalar, I) : v = Object(ms)
    BY <1>6 DEF OfKind
  <2>2. PICK os : os = MembersInOrder("rust", ms)
    OBVIOUS
  <2>3. /\ MemberTexts(g, os) \in Seq(MembersOf(A))
        /\ Len(MemberTexts(g, os)) = Len(ms)
        /\ EncodeWith("rust", Object(ms), g) = List(123, MemberTexts(g, os), 125)
    BY <2>2, MembersWritten
  <2>4. EncodeWith("rust", v, g) \in ObjectTexts(A)
    BY <2>1, <2>3 DEF ObjectTexts
  <2>5. EncodeWith("rust", v, g)[1] = 123
    BY <1>0, <2>4
  <2> QED
    BY <1>6, <2>5 DEF HeadOf
<1> QED
  BY <1>1, <1>2, <1>3, <1>4, <1>5, <1>6

\* So does the meaning.
Stands(k, x) ==
  \/ k = 1 /\ x = Null
  \/ k = 2 /\ \E b : x = Bool(b)
  \/ k = 3 /\ \E n : x = Number(n)
  \/ k = 4 /\ \E s : x = Text(s)
  \/ k = 5 /\ \E vs : x = Array(vs)
  \/ k = 6 /\ \E ms : x = Object(ms)

LEMMA MeaningTellsKind ==
  ASSUME NEW I, NEW m, NEW v, NEW k \in 1 .. 6, OfKind(k, v, I)
  PROVE  Stands(k, MeaningWith(v, m))
<1>1. CASE k = 1
  BY <1>1, MeaningWithIs DEF OfKind, Stands
<1>2. CASE k = 2
  BY <1>2, MeaningWithIs DEF OfKind, Stands
<1>3. CASE k = 3
  BY <1>3, MeaningWithIs DEF OfKind, Stands
<1>4. CASE k = 4
  BY <1>4, MeaningWithIs DEF OfKind, Stands
<1>5. CASE k = 5
  <2>1. PICK vs : v = Array(vs)
    BY <1>5 DEF OfKind
  <2>2. MeaningWith(v, m) = Array([i \in DOMAIN vs |-> m[vs[i]]])
    BY <2>1, MeaningWithIs
  <2> QED
    BY <1>5, <2>2 DEF Stands
<1>6. CASE k = 6
  <2>1. PICK ms : v = Object(ms)
    BY <1>6 DEF OfKind
  <2>2. MeaningWith(v, m) = Object({<<ms[i][1], m[ms[i][2]]>> : i \in DOMAIN ms})
    BY <2>1, MeaningWithIs
  <2> QED
    BY <1>6, <2>2 DEF Stands
<1> QED
  BY <1>1, <1>2, <1>3, <1>4, <1>5, <1>6

LEMMA StandsForOneKind ==
  ASSUME NEW x, NEW k \in 1 .. 6, NEW l \in 1 .. 6, Stands(k, x), Stands(l, x)
  PROVE  k = l
BY KindsTell DEF Stands

LEMMA EmptyCodes == << >> \in Codes
BY EmptySeq DEF Codes

\* The same list, if the brackets are the same.
LEMMA SameLists ==
  ASSUME NEW A, Listed(A), NEW a \in Nat, NEW b \in {93, 125}, NEW ps \in Seq(A), NEW qs \in Seq(A),
         List(a, ps, b) = List(a, qs, b)
  PROVE  ps = qs
<1>1. PICK e : e = << >>
  OBVIOUS
<1>2. e \in Codes
  BY <1>1, EmptyCodes
<1>3. Cat(List(a, ps, b), e) = Cat(List(a, qs, b), e)
  OBVIOUS
<1> QED
  BY <1>2, <1>3, ListsTell

Agree(I, g, m) == \A v, w \in I : g[v] = g[w] <=> m[v] = m[w]

LEMMA ArraysAgree ==
  ASSUME NEW I, NEW g, NEW m, NEW A, A = TextsIn(I, g), Listed(A), Agree(I, g, m),
         NEW vs \in Seq(I), NEW ws \in Seq(I)
  PROVE  EncodeWith("rust", Array(vs), g) = EncodeWith("rust", Array(ws), g)
           <=> MeaningWith(Array(vs), m) = MeaningWith(Array(ws), m)
<1>1. /\ ImagesOf(g, vs) \in Seq(A)
      /\ Len(ImagesOf(g, vs)) = Len(vs) /\ Len(vs) \in Nat
      /\ \A i \in 1 .. Len(vs) : vs[i] \in I /\ ImagesOf(g, vs)[i] = g[vs[i]]
      /\ EncodeWith("rust", Array(vs), g) = List(91, ImagesOf(g, vs), 93)
  BY ItemsWritten
<1>2. /\ ImagesOf(g, ws) \in Seq(A)
      /\ Len(ImagesOf(g, ws)) = Len(ws) /\ Len(ws) \in Nat
      /\ \A i \in 1 .. Len(ws) : ws[i] \in I /\ ImagesOf(g, ws)[i] = g[ws[i]]
      /\ EncodeWith("rust", Array(ws), g) = List(91, ImagesOf(g, ws), 93)
  BY ItemsWritten
<1>3. MeaningWith(Array(vs), m) = Array(ImagesOf(m, vs)) /\ MeaningWith(Array(ws), m) = Array(ImagesOf(m, ws))
  BY MeaningWithIs DEF ImagesOf
<1>4. PICK p \in Nat : p = Len(vs)
  BY <1>1
<1>5. PICK q \in Nat : q = Len(ws)
  BY <1>2
<1>6. DOMAIN vs = 1 .. p /\ DOMAIN ws = 1 .. q
  BY <1>4, <1>5, LenProperties
<1>7. ImagesOf(m, vs) = [i \in 1 .. p |-> m[vs[i]]] /\ ImagesOf(m, ws) = [i \in 1 .. q |-> m[ws[i]]]
  BY <1>6 DEF ImagesOf
<1>8. ASSUME EncodeWith("rust", Array(vs), g) = EncodeWith("rust", Array(ws), g)
      PROVE  MeaningWith(Array(vs), m) = MeaningWith(Array(ws), m)
  <2>1. PICK a \in Nat : a = 91
    OBVIOUS
  <2>2. PICK b \in {93, 125} : b = 93
    OBVIOUS
  <2>3. List(a, ImagesOf(g, vs), b) = List(a, ImagesOf(g, ws), b)
    BY <1>1, <1>2, <1>8, <2>1, <2>2
  <2>4. ImagesOf(g, vs) = ImagesOf(g, ws)
    BY <1>1, <1>2, <2>3, SameLists
  <2>5. p = q /\ \A i \in 1 .. p : vs[i] \in I /\ ws[i] \in I /\ g[vs[i]] = g[ws[i]]
    BY <1>1, <1>2, <1>4, <1>5, <2>4
  <2>6. \A i \in 1 .. p : m[vs[i]] = m[ws[i]]
    BY <2>5 DEF Agree
  <2> QED
    BY <1>3, <1>7, <2>5, <2>6
<1>9. ASSUME MeaningWith(Array(vs), m) = MeaningWith(Array(ws), m)
      PROVE  EncodeWith("rust", Array(vs), g) = EncodeWith("rust", Array(ws), g)
  <2>1. ImagesOf(m, vs) = ImagesOf(m, ws)
    BY <1>3, <1>9, KindsTell
  <2>2. p = q
    <3>1. DOMAIN ImagesOf(m, vs) = 1 .. p /\ DOMAIN ImagesOf(m, ws) = 1 .. q
      BY <1>7
    <3>2. 1 .. p = 1 .. q
      BY <2>1, <3>1
    <3> QED
      BY <3>2
  <2>3. \A i \in 1 .. p : m[vs[i]] = m[ws[i]]
    BY <1>7, <2>1, <2>2
  <2>4. \A i \in 1 .. p : vs[i] \in I /\ ws[i] \in I
    BY <1>1, <1>2, <1>4, <1>5, <2>2
  <2>5. \A i \in 1 .. p : g[vs[i]] = g[ws[i]]
    BY <2>3, <2>4 DEF Agree
  <2>6. \A i \in 1 .. Len(ImagesOf(g, vs)) : ImagesOf(g, vs)[i] = ImagesOf(g, ws)[i]
    BY <1>1, <1>2, <1>4, <1>5, <2>2, <2>5
  <2>7. ImagesOf(g, vs) = ImagesOf(g, ws)
    BY <1>1, <1>2, <1>4, <1>5, <2>2, <2>6, SeqEqual
  <2> QED
    BY <1>1, <1>2, <2>7
<1> QED
  BY <1>8, <1>9

\* What an object means, by the order in which it is written.
LEMMA ObjectMeans ==
  ASSUME NEW I, NEW m, NEW ms \in Keyed(Scalar, I), NEW os, os = MembersInOrder("rust", ms)
  PROVE  MeaningWith(Object(ms), m) = Object({<<os[i][1], m[os[i][2]]>> : i \in 1 .. Len(ms)})
<1>6. InKeyOrder(I, ms, os)
  BY MembersOrdered
<1>0. /\ Len(ms) \in Nat /\ DOMAIN os = 1 .. Len(ms)
      /\ \A i \in 1 .. Len(ms) : \E j \in 1 .. Len(ms) : os[i] = ms[j]
      /\ \A j \in 1 .. Len(ms) : \E i \in 1 .. Len(ms) : os[i] = ms[j]
  BY <1>6 DEF InKeyOrder
<1>5. PICK n \in Nat : n = Len(ms)
  BY <1>0
<1>1. /\ \A i \in 1 .. n : \E j \in 1 .. n : os[i] = ms[j]
      /\ \A j \in 1 .. n : \E i \in 1 .. n : os[i] = ms[j]
  BY <1>0, <1>5
<1>2. DOMAIN ms = 1 .. n
  BY <1>5, KeyedIs
<1>3. {<<ms[i][1], m[ms[i][2]]>> : i \in 1 .. n} = {<<os[i][1], m[os[i][2]]>> : i \in 1 .. n}
  <2> DEFINE P(x) == <<x[1], m[x[2]]>>
             X == {P(ms[i]) : i \in 1 .. n}
             Y == {P(os[i]) : i \in 1 .. n}
  <2> HIDE DEF P
  <2>1. ASSUME NEW x \in X PROVE x \in Y
    <3>1. PICK j \in 1 .. n : x = P(ms[j])
      OBVIOUS
    <3>2. PICK i \in 1 .. n : os[i] = ms[j]
      BY <1>1
    <3> QED
      BY <3>1, <3>2
  <2>2. ASSUME NEW x \in Y PROVE x \in X
    <3>1. PICK i \in 1 .. n : x = P(os[i])
      OBVIOUS
    <3>2. PICK j \in 1 .. n : os[i] = ms[j]
      BY <1>1
    <3> QED
      BY <3>1, <3>2
  <2>3. X = Y
    <3> HIDE DEF X, Y
    <3> QED
      BY <2>1, <2>2
  <2> QED
    BY <2>3 DEF P
<1>4. MeaningWith(Object(ms), m) = Object({<<ms[i][1], m[ms[i][2]]>> : i \in DOMAIN ms})
  BY MeaningWithIs
<1> QED
  BY <1>2, <1>3, <1>4, <1>5

KeyOrder == {p \in Seq(Scalar) \X Seq(Scalar) : KeyLess(p[1], p[2])}

LEMMA KeyOrderIs ==
  /\ \A s, t \in Seq(Scalar) : <<s, t>> \in KeyOrder <=> KeyLess(s, t)
  /\ StrictOrder(KeyOrder, Seq(Scalar))
<1> DEFINE K == Seq(Scalar)
<1>1. /\ \A s \in K : ~ KeyLess(s, s)
      /\ \A s, t, u \in K : KeyLess(s, t) /\ KeyLess(t, u) => KeyLess(s, u)
      /\ \A s, t \in K : s # t => KeyLess(s, t) \/ KeyLess(t, s)
  BY KeysAreOrdered
<1>2. KeyOrder = {p \in K \X K : KeyLess(p[1], p[2])}
  BY DEF KeyOrder
<1> HIDE DEF K
<1>3. \A s, t \in K : <<s, t>> \in KeyOrder <=> KeyLess(s, t)
  BY <1>2
<1>4. StrictOrder(KeyOrder, K)
  BY <1>1, <1>3 DEF StrictOrder
<1> QED
  BY <1>3, <1>4 DEF K

Rising(n, k) ==
  /\ \A i \in 1 .. n : k[i] \in Seq(Scalar)
  /\ \A i, j \in 1 .. n : i < j => KeyLess(k[i], k[j])
Pairs(n, k, a) == {<<k[i], a[i]>> : i \in 1 .. n}

\* Pairs under keys that rise on either side are the same one by one.
LEMMA SamePairs ==
  ASSUME NEW p \in Nat, NEW q \in Nat, NEW k, NEW l, NEW a, NEW b,
         Rising(p, k), Rising(q, l), Pairs(p, k, a) = Pairs(q, l, b)
  PROVE  p = q /\ \A i \in 1 .. p : k[i] = l[i] /\ a[i] = b[i]
<1>1. ASSUME NEW i \in 1 .. p PROVE \E j \in 1 .. q : k[i] = l[j] /\ a[i] = b[j]
  <2>1. <<k[i], a[i]>> \in Pairs(p, k, a)
    BY DEF Pairs
  <2>2. <<k[i], a[i]>> \in Pairs(q, l, b)
    BY <2>1
  <2> QED
    BY <2>2 DEF Pairs
<1>2. ASSUME NEW j \in 1 .. q PROVE \E i \in 1 .. p : k[i] = l[j] /\ a[i] = b[j]
  <2>1. <<l[j], b[j]>> \in Pairs(q, l, b)
    BY DEF Pairs
  <2>2. <<l[j], b[j]>> \in Pairs(p, k, a)
    BY <2>1
  <2> QED
    BY <2>2 DEF Pairs
<1> DEFINE f == [i \in 1 .. p |-> k[i]]
           g == [i \in 1 .. q |-> l[i]]
           K == Seq(Scalar)
<1>3. f \in [1 .. p -> K] /\ g \in [1 .. q -> K]
  BY DEF Rising
<1>4. Range(f) = Range(g)
  <2>1. /\ \A x : x \in Range(f) <=> \E i \in 1 .. p : x = k[i]
        /\ \A x : x \in Range(g) <=> \E i \in 1 .. q : x = l[i]
    BY DEF Range
  <2> HIDE DEF f, g
  <2>2. ASSUME NEW x, x \in Range(f) PROVE x \in Range(g)
    <3>1. PICK i \in 1 .. p : x = k[i]
      BY <2>1, <2>2
    <3> QED
      BY <1>1, <2>1, <3>1
  <2>3. ASSUME NEW x, x \in Range(g) PROVE x \in Range(f)
    <3>1. PICK i \in 1 .. q : x = l[i]
      BY <2>1, <2>3
    <3> QED
      BY <1>2, <2>1, <3>1
  <2> QED
    BY <2>2, <2>3
<1>5. /\ \A i, j \in 1 .. p : i < j => <<f[i], f[j]>> \in KeyOrder
      /\ \A i, j \in 1 .. q : i < j => <<g[i], g[j]>> \in KeyOrder
  BY KeyOrderIs DEF Rising
<1>6. /\ \A i \in 1 .. p : f[i] = k[i]
      /\ \A i \in 1 .. q : g[i] = l[i]
  OBVIOUS
<1>7. StrictOrder(KeyOrder, K)
  BY KeyOrderIs
<1> HIDE DEF f, g, K
<1>8. p = q /\ f = g
  BY <1>3, <1>4, <1>5, <1>7, ArrangedOnce
<1>9. ASSUME NEW i \in 1 .. p PROVE k[i] = l[i] /\ a[i] = b[i]
  <2>1. k[i] = l[i]
    BY <1>6, <1>8
  <2>2. PICK j \in 1 .. q : k[i] = l[j] /\ a[i] = b[j]
    BY <1>1
  <2>3. i = j
    <3>1. f[i] = f[j] /\ f[i] \in K /\ i \in 1 .. p /\ j \in 1 .. p
      BY <1>3, <1>6, <1>8, <2>2
    <3>2. i < j \/ j < i \/ i = j
      BY <3>1
    <3>3. <<f[i], f[i]>> \notin KeyOrder
      BY <1>7, <3>1 DEF StrictOrder
    <3> QED
      BY <1>5, <3>1, <3>2, <3>3
  <2> QED
    BY <2>1, <2>2, <2>3
<1> QED
  BY <1>8, <1>9

LEMMA ObjectsAgree ==
  ASSUME NEW I, NEW g, NEW m, NEW A, A = TextsIn(I, g), Listed(A), Agree(I, g, m),
         NEW ms \in Keyed(Scalar, I), NEW ns \in Keyed(Scalar, I)
  PROVE  EncodeWith("rust", Object(ms), g) = EncodeWith("rust", Object(ns), g)
           <=> MeaningWith(Object(ms), m) = MeaningWith(Object(ns), m)
<1>1. PICK os : os = MembersInOrder("rust", ms)
  OBVIOUS
<1>2. PICK xs : xs = MembersInOrder("rust", ns)
  OBVIOUS
<1>3. InKeyOrder(I, ms, os)
  BY <1>1, MembersOrdered
<1>4. InKeyOrder(I, ns, xs)
  BY <1>2, MembersOrdered
<1>5. PICK p \in Nat : p = Len(ms)
  BY <1>3 DEF InKeyOrder
<1>6. PICK q \in Nat : q = Len(ns)
  BY <1>4 DEF InKeyOrder
<1>7. /\ DOMAIN os = 1 .. p
      /\ \A i \in 1 .. p : os[i][1] \in Seq(Scalar) /\ os[i][2] \in I
      /\ \A i, j \in 1 .. p : i < j => KeyLess(os[i][1], os[j][1])
  BY <1>3, <1>5 DEF InKeyOrder
<1>8. /\ DOMAIN xs = 1 .. q
      /\ \A i \in 1 .. q : xs[i][1] \in Seq(Scalar) /\ xs[i][2] \in I
      /\ \A i, j \in 1 .. q : i < j => KeyLess(xs[i][1], xs[j][1])
  BY <1>4, <1>6 DEF InKeyOrder
<1>9. /\ MemberTexts(g, os) \in Seq(MembersOf(A))
      /\ Len(MemberTexts(g, os)) = Len(ms)
      /\ EncodeWith("rust", Object(ms), g) = List(123, MemberTexts(g, os), 125)
  BY <1>1, MembersWritten
<1>10. /\ MemberTexts(g, xs) \in Seq(MembersOf(A))
       /\ Len(MemberTexts(g, xs)) = Len(ns)
       /\ EncodeWith("rust", Object(ns), g) = List(123, MemberTexts(g, xs), 125)
  BY <1>2, MembersWritten
<1>11. MeaningWith(Object(ms), m) = Object({<<os[i][1], m[os[i][2]]>> : i \in 1 .. p})
  BY <1>1, <1>5, ObjectMeans
<1>12. MeaningWith(Object(ns), m) = Object({<<xs[i][1], m[xs[i][2]]>> : i \in 1 .. q})
  BY <1>2, <1>6, ObjectMeans
<1>13. /\ \A i \in 1 .. p : MemberTexts(g, os)[i] = Member(os[i][1], g[os[i][2]])
       /\ \A i \in 1 .. q : MemberTexts(g, xs)[i] = Member(xs[i][1], g[xs[i][2]])
  BY <1>7, <1>8 DEF MemberTexts
<1>14. ASSUME EncodeWith("rust", Object(ms), g) = EncodeWith("rust", Object(ns), g)
       PROVE  MeaningWith(Object(ms), m) = MeaningWith(Object(ns), m)
  <2>1. PICK a \in Nat : a = 123
    OBVIOUS
  <2>2. PICK b \in {93, 125} : b = 125
    OBVIOUS
  <2>3. List(a, MemberTexts(g, os), b) = List(a, MemberTexts(g, xs), b)
    BY <1>9, <1>10, <1>14, <2>1, <2>2
  <2>4. Listed(MembersOf(A))
    BY MembersListed
  <2>5. MemberTexts(g, os) = MemberTexts(g, xs)
    BY <1>9, <1>10, <2>3, <2>4, SameLists
  <2>6. p = q
    BY <1>5, <1>6, <1>9, <1>10, <2>5
  <2>7. ASSUME NEW i \in 1 .. p PROVE os[i][1] = xs[i][1] /\ m[os[i][2]] = m[xs[i][2]]
    <3>1. PICK k \in Seq(Scalar) : k = os[i][1]
      BY <1>7
    <3>2. PICK l \in Seq(Scalar) : l = xs[i][1]
      BY <1>8, <2>6
    <3>3. PICK v \in I : v = os[i][2]
      BY <1>7
    <3>4. PICK w \in I : w = xs[i][2]
      BY <1>8, <2>6
    <3>5. g[v] \in A /\ g[w] \in A
      BY DEF TextsIn
    <3>6. g[v] \in Codes /\ g[w] \in Codes
      BY <3>5 DEF Listed
    <3>7. Member(k, g[v]) = Member(l, g[w])
      BY <1>13, <2>5, <2>6, <3>1, <3>2, <3>3, <3>4
    <3>8. Cat(Quoted("rust", k), Cat(<<58>>, g[v])) = Cat(Quoted("rust", l), Cat(<<58>>, g[w]))
      BY <3>7 DEF Member
    <3>9. k = l /\ g[v] = g[w]
      BY <3>6, <3>8, MemberTells
    <3>10. m[v] = m[w]
      BY <3>9 DEF Agree
    <3> QED
      BY <3>1, <3>2, <3>3, <3>4, <3>9, <3>10
  <2>8. {<<os[i][1], m[os[i][2]]>> : i \in 1 .. p} = {<<xs[i][1], m[xs[i][2]]>> : i \in 1 .. p}
    BY <2>7
  <2> QED
    BY <1>11, <1>12, <2>6, <2>8
<1>15. ASSUME MeaningWith(Object(ms), m) = MeaningWith(Object(ns), m)
       PROVE  EncodeWith("rust", Object(ms), g) = EncodeWith("rust", Object(ns), g)
  <2>1. {<<os[i][1], m[os[i][2]]>> : i \in 1 .. p} = {<<xs[i][1], m[xs[i][2]]>> : i \in 1 .. q}
    BY <1>11, <1>12, <1>15, KindsTell
  <2>2. PICK k : k = [i \in 1 .. p |-> os[i][1]]
    OBVIOUS
  <2>3. PICK l : l = [i \in 1 .. q |-> xs[i][1]]
    OBVIOUS
  <2>4. PICK c : c = [i \in 1 .. p |-> m[os[i][2]]]
    OBVIOUS
  <2>5. PICK d : d = [i \in 1 .. q |-> m[xs[i][2]]]
    OBVIOUS
  <2>6. Rising(p, k) /\ Rising(q, l)
    BY <1>7, <1>8, <2>2, <2>3 DEF Rising
  <2>7. Pairs(p, k, c) = {<<os[i][1], m[os[i][2]]>> : i \in 1 .. p}
    BY <2>2, <2>4 DEF Pairs
  <2>8. Pairs(q, l, d) = {<<xs[i][1], m[xs[i][2]]>> : i \in 1 .. q}
    BY <2>3, <2>5 DEF Pairs
  <2>9. Pairs(p, k, c) = Pairs(q, l, d)
    BY <2>1, <2>7, <2>8
  <2>10. p = q /\ \A i \in 1 .. p : k[i] = l[i] /\ c[i] = d[i]
    BY <2>6, <2>9, SamePairs
  <2>11. ASSUME NEW i \in 1 .. p PROVE Member(os[i][1], g[os[i][2]]) = Member(xs[i][1], g[xs[i][2]])
    <3>1. os[i][1] = xs[i][1] /\ m[os[i][2]] = m[xs[i][2]]
      BY <2>2, <2>3, <2>4, <2>5, <2>10
    <3>2. os[i][2] \in I /\ xs[i][2] \in I
      BY <1>7, <1>8, <2>10
    <3>3. g[os[i][2]] = g[xs[i][2]]
      BY <3>1, <3>2 DEF Agree
    <3> QED
      BY <3>1, <3>3
  <2>12. /\ MemberTexts(g, os) = [i \in 1 .. p |-> Member(os[i][1], g[os[i][2]])]
         /\ MemberTexts(g, xs) = [i \in 1 .. p |-> Member(xs[i][1], g[xs[i][2]])]
    BY <1>7, <1>8, <2>10 DEF MemberTexts
  <2>13. MemberTexts(g, os) = MemberTexts(g, xs)
    BY <2>11, <2>12
  <2> QED
    BY <1>9, <1>10, <2>13
<1> QED
  BY <1>14, <1>15

LEMMA KindOfText ==
  ASSUME NEW c, NEW k \in 1 .. 6, NEW l \in 1 .. 6, HeadOf(k, c), HeadOf(l, c)
  PROVE  k = l
BY DEF HeadOf, Figure

\* One level up, the bytes of two values agree whenever their meanings do.
LEMMA TellsStep ==
  ASSUME NEW I, NEW g, NEW m, NEW A, A = TextsIn(I, g), Listed(A), Agree(I, g, m),
         NEW v \in Nested(Int, Scalar, I), NEW w \in Nested(Int, Scalar, I)
  PROVE  EncodeWith("rust", v, g) = EncodeWith("rust", w, g)
           <=> MeaningWith(v, m) = MeaningWith(w, m)
<1>1. PICK k \in 1 .. 6 : OfKind(k, v, I)
  BY EveryKind
<1>2. PICK l \in 1 .. 6 : OfKind(l, w, I)
  BY EveryKind
<1>3. HeadOf(k, EncodeWith("rust", v, g)[1])
  BY <1>1, TextTellsKind
<1>4. HeadOf(l, EncodeWith("rust", w, g)[1])
  BY <1>2, TextTellsKind
<1>5. Stands(k, MeaningWith(v, m)) /\ Stands(l, MeaningWith(w, m))
  BY <1>1, <1>2, MeaningTellsKind
<1>6. EncodeWith("rust", v, g) = EncodeWith("rust", w, g) => k = l
  BY <1>3, <1>4, KindOfText
<1>7. MeaningWith(v, m) = MeaningWith(w, m) => k = l
  BY <1>5, StandsForOneKind
<1>8. CASE k # l
  BY <1>6, <1>7, <1>8
<1>9. CASE k = l
  <2>1. CASE k = 1
    <3>1. v = Null /\ w = Null
      BY <1>1, <1>2, <1>9, <2>1 DEF OfKind
    <3> QED
      BY <3>1
  <2>2. CASE k = 2
    <3>1. PICK b \in BOOLEAN : v = Bool(b)
      BY <1>1, <2>2 DEF OfKind
    <3>2. PICK c \in BOOLEAN : w = Bool(c)
      BY <1>2, <1>9, <2>2 DEF OfKind
    <3>3. /\ EncodeWith("rust", v, g) = IF b THEN <<116>> ELSE <<102>>
          /\ EncodeWith("rust", w, g) = IF c THEN <<116>> ELSE <<102>>
      BY <3>1, <3>2, BoolWritten
    <3>4. EncodeWith("rust", v, g) = EncodeWith("rust", w, g) <=> b = c
      <4>1. <<116>> # <<102>>
        OBVIOUS
      <4> QED
        BY <3>3, <4>1
    <3>5. MeaningWith(v, m) = Bool(b) /\ MeaningWith(w, m) = Bool(c)
      BY <3>1, <3>2, MeaningWithIs
    <3>6. MeaningWith(v, m) = MeaningWith(w, m) <=> b = c
      BY <3>5, KindsTell
    <3> QED
      BY <3>4, <3>6
  <2>3. CASE k = 3
    <3>1. PICK b \in Int : v = Number(b)
      BY <1>1, <2>3 DEF OfKind
    <3>2. PICK c \in Int : w = Number(c)
      BY <1>2, <1>9, <2>3 DEF OfKind
    <3>3. /\ EncodeWith("rust", v, g) = Decimal(b)
          /\ EncodeWith("rust", w, g) = Decimal(c)
      BY <3>1, <3>2, NumberWritten DEF NumberText
    <3>4. EncodeWith("rust", v, g) = EncodeWith("rust", w, g) <=> b = c
      BY <3>3, DecimalTells
    <3>5. MeaningWith(v, m) = Number(b) /\ MeaningWith(w, m) = Number(c)
      BY <3>1, <3>2, MeaningWithIs
    <3>6. MeaningWith(v, m) = MeaningWith(w, m) <=> b = c
      BY <3>5, KindsTell
    <3> QED
      BY <3>4, <3>6
  <2>4. CASE k = 4
    <3>1. PICK b \in Seq(Scalar) : v = Text(b)
      BY <1>1, <2>4 DEF OfKind
    <3>2. PICK c \in Seq(Scalar) : w = Text(c)
      BY <1>2, <1>9, <2>4 DEF OfKind
    <3>3. /\ EncodeWith("rust", v, g) = Quoted("rust", b)
          /\ EncodeWith("rust", w, g) = Quoted("rust", c)
      BY <3>1, <3>2, TextWritten
    <3>4. Quoted("rust", b) = Quoted("rust", c) => b = c
      <4>1. PICK e : e = << >>
        OBVIOUS
      <4>2. e \in Codes
        BY <4>1, EmptyCodes
      <4>3. Quoted("rust", b) = Quoted("rust", c) => Cat(Quoted("rust", b), e) = Cat(Quoted("rust", c), e)
        OBVIOUS
      <4> QED
        BY <4>2, <4>3, QuotedDetermined
    <3>5. MeaningWith(v, m) = Text(b) /\ MeaningWith(w, m) = Text(c)
      BY <3>1, <3>2, MeaningWithIs
    <3>6. MeaningWith(v, m) = MeaningWith(w, m) <=> b = c
      BY <3>5, KindsTell
    <3> QED
      BY <3>3, <3>4, <3>6
  <2>5. CASE k = 5
    <3>1. PICK b \in Seq(I) : v = Array(b)
      BY <1>1, <2>5 DEF OfKind
    <3>2. PICK c \in Seq(I) : w = Array(c)
      BY <1>2, <1>9, <2>5 DEF OfKind
    <3> QED
      BY <3>1, <3>2, ArraysAgree
  <2>6. CASE k = 6
    <3>1. PICK b \in Keyed(Scalar, I) : v = Object(b)
      BY <1>1, <2>6 DEF OfKind
    <3>2. PICK c \in Keyed(Scalar, I) : w = Object(c)
      BY <1>2, <1>9, <2>6 DEF OfKind
    <3> QED
      BY <3>1, <3>2, ObjectsAgree
  <2> QED
    BY <2>1, <2>2, <2>3, <2>4, <2>5, <2>6
<1> QED
  BY <1>8, <1>9

-----------------------------------------------------------------------------
(* The implementations write the same.                                     *)

\* Values with these numbers and these characters in their keys are no different
\* for this implementation.
Fits(lang, numbers, chars) ==
  /\ lang # "legacy" /\ numbers \subseteq Int /\ chars \subseteq Scalar
  /\ \A n \in numbers : NumberText(lang, n) = NumberText("rust", n)
  /\ \A s, t \in Seq(chars) : KeyBefore(lang, s, t) <=> KeyLess(s, t)

\* What KindOf says a value is.
OfSomeKind(numbers, chars, inner, v) ==
  \/ v = Null
  \/ \E b \in BOOLEAN : v = Bool(b)
  \/ \E n \in numbers : v = Number(n)
  \/ \E s \in Seq(Scalar) : v = Text(s)
  \/ \E vs \in Seq(inner) : v = Array(vs)
  \/ \E ms \in Keyed(chars, inner) : v = Object(ms)

LEMMA SomeKind ==
  ASSUME NEW numbers, NEW chars, NEW inner, NEW v
  PROVE  v \in Nested(numbers, chars, inner) <=> OfSomeKind(numbers, chars, inner, v)
<1>1. v \in Nested(numbers, chars, inner)
           <=> \/ v = Null
               \/ \E b \in BOOLEAN : v = Bool(b)
               \/ \E n \in numbers : v = Number(n)
               \/ \E s \in Seq(Scalar) : v = Text(s)
               \/ \E vs \in Seq(inner) : v = Array(vs)
               \/ \E ms \in Keyed(chars, inner) : v = Object(ms)
  BY KindOf
<1> QED
  BY <1>1 DEF OfSomeKind

LEMMA NestedInside ==
  ASSUME NEW numbers, NEW chars, numbers \subseteq Int, chars \subseteq Scalar, NEW J, NEW I, J \subseteq I
  PROVE  /\ Keyed(chars, J) \subseteq Keyed(Scalar, I)
         /\ Nested(numbers, chars, J) \subseteq Nested(Int, Scalar, I)
<1>1. Seq(J) \subseteq Seq(I) /\ Seq(chars) \subseteq Seq(Scalar)
  OBVIOUS
<1>2. Seq(Seq(chars) \X J) \subseteq Seq(Seq(Scalar) \X I)
  <2>1. Seq(chars) \X J \subseteq Seq(Scalar) \X I
    BY <1>1
  <2> DEFINE P == Seq(chars) \X J
             Q == Seq(Scalar) \X I
  <2>2. P \subseteq Q
    BY <2>1
  <2> HIDE DEF P, Q
  <2>3. Seq(P) \subseteq Seq(Q)
    BY <2>2
  <2> QED
    BY <2>3 DEF P, Q
<1>3. Keyed(chars, J) \subseteq Keyed(Scalar, I)
  <2> DEFINE P == Seq(Seq(chars) \X J)
             Q == Seq(Seq(Scalar) \X I)
  <2>1. P \subseteq Q
    BY <1>2
  <2>2. /\ Keyed(chars, J) = {ms \in P : \A i, j \in DOMAIN ms : ms[i][1] = ms[j][1] => i = j}
        /\ Keyed(Scalar, I) = {ms \in Q : \A i, j \in DOMAIN ms : ms[i][1] = ms[j][1] => i = j}
    BY DEF Keyed
  <2> HIDE DEF P, Q
  <2> QED
    BY <2>1, <2>2
<1>4. ASSUME NEW v \in Nested(numbers, chars, J) PROVE v \in Nested(Int, Scalar, I)
  <2>1. OfSomeKind(numbers, chars, J, v)
    BY SomeKind
  <2>2. OfSomeKind(Int, Scalar, I, v)
    BY <1>1, <1>3, <2>1 DEF OfSomeKind
  <2> QED
    BY <2>2, SomeKind
<1> QED
  BY <1>3, <1>4

LEMMA AlikeStep ==
  ASSUME NEW lang, NEW numbers, NEW chars, Fits(lang, numbers, chars),
         NEW J, NEW g, NEW h, \A u \in J : h[u] = g[u], NEW v \in Nested(numbers, chars, J)
  PROVE  EncodeWith(lang, v, h) = EncodeWith("rust", v, g)
<1>0. \/ v = Null
      \/ \E b \in BOOLEAN : v = Bool(b)
      \/ \E n \in numbers : v = Number(n)
      \/ \E s \in Seq(Scalar) : v = Text(s)
      \/ \E vs \in Seq(J) : v = Array(vs)
      \/ \E ms \in Keyed(chars, J) : v = Object(ms)
  BY KindOf
<1>1. EncodeWith(lang, Null, h) = EncodeWith("rust", Null, g)
  BY NullWritten
<1>2. ASSUME NEW b \in BOOLEAN PROVE EncodeWith(lang, Bool(b), h) = EncodeWith("rust", Bool(b), g)
  BY BoolWritten
<1>3. ASSUME NEW n \in numbers PROVE EncodeWith(lang, Number(n), h) = EncodeWith("rust", Number(n), g)
  BY NumberWritten DEF Fits
<1>4. ASSUME NEW s \in Seq(Scalar) PROVE EncodeWith(lang, Text(s), h) = EncodeWith("rust", Text(s), g)
  BY TextWritten, QuotedAlike
<1>5. ASSUME NEW vs \in Seq(J) PROVE EncodeWith(lang, Array(vs), h) = EncodeWith("rust", Array(vs), g)
  <2>1. \A i \in DOMAIN vs : vs[i] \in J
    BY LenProperties, ElementOfSeq
  <2>2. ImagesOf(h, vs) = ImagesOf(g, vs)
    BY <2>1 DEF ImagesOf
  <2> QED
    BY <2>2, ArrayWritten
<1>6. ASSUME NEW ms \in Keyed(chars, J)
      PROVE  EncodeWith(lang, Object(ms), h) = EncodeWith("rust", Object(ms), g)
  <2>1. ms \in Keyed(Scalar, J)
    BY NestedInside DEF Fits
  <2>2. PICK os : os = MembersInOrder(lang, ms)
    OBVIOUS
  <2>3. lang # "legacy" /\ \A s, t \in Seq(chars) : KeyBefore(lang, s, t) <=> KeyLess(s, t)
    BY DEF Fits
  <2>4. /\ ms \in Seq(Seq(chars) \X J)
        /\ Len(ms) \in Nat /\ DOMAIN ms = 1 .. Len(ms)
        /\ ms \in [1 .. Len(ms) -> Range(ms)]
        /\ \A i \in 1 .. Len(ms) : ms[i] \in Seq(chars) \X J /\ ms[i][1] \in Seq(chars) /\ ms[i][2] \in J
        /\ \A i, j \in 1 .. Len(ms) : ms[i][1] = ms[j][1] => i = j
        /\ \A x \in Range(ms) : \E i \in 1 .. Len(ms) : x = ms[i]
        /\ \A i \in 1 .. Len(ms) : ms[i] \in Range(ms)
    BY KeyedIs
  <2>5. \A i, j \in 1 .. Len(ms) : KeyBefore(lang, ms[i][1], ms[j][1]) <=> KeyLess(ms[i][1], ms[j][1])
    BY <2>3, <2>4
  <2>6. /\ os \in [1 .. Len(ms) -> Range(ms)]
        /\ Range(os) = Range(ms)
        /\ \A i, j \in 1 .. Len(ms) : i < j => KeyLess(os[i][1], os[j][1])
        /\ os = MembersInOrder("rust", ms)
    BY <2>1, <2>2, <2>3, <2>5, MembersInOrderIs
  <2>7. ASSUME NEW i \in 1 .. Len(ms) PROVE os[i][1] \in Seq(Scalar) /\ os[i][2] \in J
    <3>1. os[i] \in Range(ms)
      BY <2>6
    <3>2. PICK j \in 1 .. Len(ms) : os[i] = ms[j]
      BY <2>4, <3>1
    <3>3. ms[j][1] \in Seq(chars) /\ ms[j][2] \in J
      BY <2>4
    <3>4. Seq(chars) \subseteq Seq(Scalar)
      BY DEF Fits
    <3> QED
      BY <3>2, <3>3, <3>4
  <2>8. DOMAIN os = 1 .. Len(ms)
    BY <2>6
  <2>9. ASSUME NEW i \in 1 .. Len(ms)
        PROVE  Quoted(lang, os[i][1]) = Quoted("rust", os[i][1]) /\ h[os[i][2]] = g[os[i][2]]
    BY <2>7, QuotedAlike
  <2>10. MembersAs(lang, h, os) = MembersAs("rust", g, os)
    BY <2>8, <2>9 DEF MembersAs
  <2>11. EncodeWith(lang, Object(ms), h) = List(123, MembersAs(lang, h, MembersInOrder(lang, ms)), 125)
    BY ObjectWritten
  <2>12. EncodeWith("rust", Object(ms), g) = List(123, MembersAs("rust", g, MembersInOrder("rust", ms)), 125)
    BY ObjectWritten
  <2> QED
    BY <2>2, <2>6, <2>10, <2>11, <2>12
<1> QED
  BY <1>0, <1>1, <1>2, <1>3, <1>4, <1>5, <1>6

\* The bytes of these values are told apart, and so are the values by their bytes.
BytesTell(I, g, m) == Listed(TextsIn(I, g)) /\ Agree(I, g, m)

LEMMA PartListed ==
  ASSUME NEW A, Listed(A), NEW B, B \subseteq A
  PROVE  Listed(B)
<1> DEFINE Apart(a, b) == \A x, y \in Codes :
                            Begins(x, Stops) /\ Begins(y, Stops) /\ a \o x = b \o y => a = b
<1>1. A \subseteq Codes /\ \A a \in A : a # << >> /\ a[1] \notin Stops
  BY DEF Listed
<1>2. \A a, b \in A : Apart(a, b)
  BY DEF Listed, Delimited
<1> HIDE DEF Apart
<1>3. \A a, b \in B : Apart(a, b)
  BY <1>2
<1>4. Delimited(B, Stops)
  BY <1>3 DEF Delimited, Apart
<1> QED
  BY <1>1, <1>4 DEF Listed

LEMMA BytesTellAbove ==
  ASSUME NEW I, NEW g, NEW m, BytesTell(I, g, m),
         NEW V, V = Nested(Int, Scalar, I),
         NEW G, G = [v \in V |-> EncodeWith("rust", v, g)],
         NEW M, M = [v \in V |-> MeaningWith(v, m)]
  PROVE  BytesTell(V, G, M)
<1>1. PICK A : A = TextsIn(I, g)
  OBVIOUS
<1>2. Listed(A) /\ Agree(I, g, m)
  BY <1>1 DEF BytesTell
<1>3. Listed(TextsAbove(A))
  BY <1>2, TextsListed
<1>4. ASSUME NEW x \in TextsIn(V, G) PROVE x \in TextsAbove(A)
  <2>1. PICK v \in V : x = G[v]
    BY DEF TextsIn
  <2>2. v \in Nested(Int, Scalar, I)
    OBVIOUS
  <2>3. EncodeWith("rust", v, g) \in TextsAbove(A)
    BY <1>1, <1>2, <2>2, TextsOfValues
  <2> QED
    BY <2>1, <2>3
<1>5. Listed(TextsIn(V, G))
  BY <1>3, <1>4, PartListed
<1>6. ASSUME NEW v \in V, NEW w \in V PROVE G[v] = G[w] <=> M[v] = M[w]
  <2>1. v \in Nested(Int, Scalar, I) /\ w \in Nested(Int, Scalar, I)
    OBVIOUS
  <2>2. EncodeWith("rust", v, g) = EncodeWith("rust", w, g) <=> MeaningWith(v, m) = MeaningWith(w, m)
    BY <1>1, <1>2, <2>1, TellsStep
  <2> QED
    BY <2>2
<1>7. Agree(V, G, M)
  BY <1>6 DEF Agree
<1> QED
  BY <1>5, <1>7 DEF BytesTell

LEMMA ValueIs ==
  ASSUME NEW n \in Nat
  PROVE  Value[n] = Nested(Int, Scalar, IF n = 0 THEN {} ELSE Value[n - 1])
<1>1. Value = [k \in Nat |-> Nested(Int, Scalar, IF k = 0 THEN {} ELSE Value[k - 1])]
  BY ValuesAre DEF Value
<1> QED
  BY <1>1

LEMMA BytesTellAll ==
  ASSUME NEW n \in Nat
  PROVE  BytesTell(Value[n], Encoding("rust")[n], Meanings[n])
<1> DEFINE E == Encoding("rust")
           Good == {k \in Nat : BytesTell(Value[k], E[k], Meanings[k])}
<1>1. E = [k \in Nat |-> [v \in Value[k] |-> EncodeWith("rust", v, IF k = 0 THEN << >> ELSE E[k - 1])]]
  BY EncodingIs
<1>2. Meanings = [k \in Nat |-> [v \in Value[k] |-> MeaningWith(v, IF k = 0 THEN << >> ELSE Meanings[k - 1])]]
  BY MeaningsAre
<1> HIDE DEF E
<1>3. 0 \in Good
  <2>1. PICK I : I = {}
    OBVIOUS
  <2>2. PICK e : e = << >>
    OBVIOUS
  <2>3. BytesTell(I, e, e)
    BY <2>1 DEF BytesTell, Listed, Delimited, TextsIn, Agree
  <2>4. 0 \in Nat
    OBVIOUS
  <2>5. Value[0] = Nested(Int, Scalar, I)
    BY <2>1, <2>4, ValueIs
  <2>6. E[0] = [v \in Value[0] |-> EncodeWith("rust", v, e)]
    BY <1>1, <2>2, <2>4
  <2>7. Meanings[0] = [v \in Value[0] |-> MeaningWith(v, e)]
    BY <1>2, <2>2, <2>4
  <2>8. BytesTell(Value[0], E[0], Meanings[0])
    BY <2>3, <2>5, <2>6, <2>7, BytesTellAbove
  <2> QED
    BY <2>4, <2>8
<1>4. ASSUME NEW k \in Good PROVE k + 1 \in Good
  <2>1. k \in Nat /\ k + 1 \in Nat /\ k + 1 # 0 /\ (k + 1) - 1 = k /\ BytesTell(Value[k], E[k], Meanings[k])
    OBVIOUS
  <2>2. Value[k + 1] = Nested(Int, Scalar, Value[k])
    BY <2>1, ValueIs
  <2>3. E[k + 1] = [v \in Value[k + 1] |-> EncodeWith("rust", v, E[k])]
    BY <1>1, <2>1
  <2>4. Meanings[k + 1] = [v \in Value[k + 1] |-> MeaningWith(v, Meanings[k])]
    BY <1>2, <2>1
  <2>5. BytesTell(Value[k + 1], E[k + 1], Meanings[k + 1])
    BY <2>1, <2>2, <2>3, <2>4, BytesTellAbove
  <2> QED
    BY <2>1, <2>5
<1>5. Good = Nat
  <2>1. Good \in SUBSET Nat
    OBVIOUS
  <2> HIDE DEF Good
  <2> QED
    BY <1>3, <1>4, <2>1, NumberInduction
<1>6. n \in Good
  BY <1>5
<1> QED
  BY <1>6 DEF E

LEMMA SameBytes ==
  ASSUME NEW lang, NEW numbers, NEW chars, Fits(lang, numbers, chars),
         NEW n \in Nat, NEW v \in Values(numbers, chars)[n]
  PROVE  v \in Value[n] /\ Encoding(lang)[n][v] = Encoding("rust")[n][v]
<1> DEFINE E == Encoding("rust")
           F == Encoding(lang)
           W == Values(numbers, chars)
           Good == {k \in Nat : \A u \in W[k] : u \in Value[k] /\ F[k][u] = E[k][u]}
<1>1. E = [k \in Nat |-> [u \in Value[k] |-> EncodeWith("rust", u, IF k = 0 THEN << >> ELSE E[k - 1])]]
  BY EncodingIs
<1>2. F = [k \in Nat |-> [u \in Value[k] |-> EncodeWith(lang, u, IF k = 0 THEN << >> ELSE F[k - 1])]]
  BY EncodingIs
<1>3. W = [k \in Nat |-> Nested(numbers, chars, IF k = 0 THEN {} ELSE W[k - 1])]
  BY ValuesAre
<1>4. numbers \subseteq Int /\ chars \subseteq Scalar
  BY DEF Fits
<1> HIDE DEF E, F, W
<1>5. 0 \in Good
  <2>1. PICK I : I = {}
    OBVIOUS
  <2>2. PICK e : e = << >>
    OBVIOUS
  <2>3. 0 \in Nat
    OBVIOUS
  <2>4. W[0] = Nested(numbers, chars, I)
    BY <1>3, <2>1, <2>3
  <2>5. Value[0] = Nested(Int, Scalar, I)
    BY <2>1, <2>3, ValueIs
  <2>6. ASSUME NEW u \in W[0] PROVE u \in Value[0] /\ F[0][u] = E[0][u]
    <3>1. u \in Nested(numbers, chars, I)
      BY <2>4
    <3>2. Nested(numbers, chars, I) \subseteq Nested(Int, Scalar, I)
      BY <1>4, NestedInside
    <3>3. u \in Value[0]
      BY <2>5, <3>1, <3>2
    <3>4. F[0][u] = EncodeWith(lang, u, e) /\ E[0][u] = EncodeWith("rust", u, e)
      BY <1>1, <1>2, <2>2, <2>3, <3>3
    <3>5. \A x \in I : e[x] = e[x]
      OBVIOUS
    <3>6. EncodeWith(lang, u, e) = EncodeWith("rust", u, e)
      BY <3>1, <3>5, AlikeStep
    <3> QED
      BY <3>3, <3>4, <3>6
  <2> QED
    BY <2>3, <2>6
<1>6. ASSUME NEW k \in Good PROVE k + 1 \in Good
  <2>1. /\ k \in Nat /\ k + 1 \in Nat /\ k + 1 # 0 /\ (k + 1) - 1 = k
        /\ \A u \in W[k] : u \in Value[k] /\ F[k][u] = E[k][u]
    OBVIOUS
  <2>2. PICK J : J = W[k]
    OBVIOUS
  <2>3. PICK I : I = Value[k]
    OBVIOUS
  <2>4. PICK h : h = F[k]
    OBVIOUS
  <2>5. PICK g : g = E[k]
    OBVIOUS
  <2>6. J \subseteq I /\ \A u \in J : h[u] = g[u]
    BY <2>1, <2>2, <2>3, <2>4, <2>5
  <2>7. W[k + 1] = Nested(numbers, chars, J)
    BY <1>3, <2>1, <2>2
  <2>8. Value[k + 1] = Nested(Int, Scalar, I)
    BY <2>1, <2>3, ValueIs
  <2>9. ASSUME NEW u \in W[k + 1] PROVE u \in Value[k + 1] /\ F[k + 1][u] = E[k + 1][u]
    <3>1. u \in Nested(numbers, chars, J)
      BY <2>7
    <3>2. Nested(numbers, chars, J) \subseteq Nested(Int, Scalar, I)
      BY <1>4, <2>6, NestedInside
    <3>3. u \in Value[k + 1]
      BY <2>8, <3>1, <3>2
    <3>4. F[k + 1][u] = EncodeWith(lang, u, h) /\ E[k + 1][u] = EncodeWith("rust", u, g)
      BY <1>1, <1>2, <2>1, <2>4, <2>5, <3>3
    <3>5. EncodeWith(lang, u, h) = EncodeWith("rust", u, g)
      BY <2>6, <3>1, AlikeStep
    <3> QED
      BY <3>3, <3>4, <3>5
  <2> QED
    BY <2>1, <2>9
<1>7. Good = Nat
  <2>1. Good \in SUBSET Nat
    OBVIOUS
  <2> HIDE DEF Good
  <2> QED
    BY <1>5, <1>6, <2>1, NumberInduction
<1>8. v \in W[n]
  BY DEF W
<1>9. n \in Good
  BY <1>7
<1>10. v \in Value[n] /\ F[n][v] = E[n][v]
  BY <1>8, <1>9
<1> QED
  BY <1>10 DEF E, F

LEMMA TsFits == Fits("ts", Safe, Scalar)
<1>1. Safe \subseteq Int /\ Scalar \subseteq Scalar
  BY DEF Safe
<1>2. \A n \in Safe : NumberText("ts", n) = NumberText("rust", n)
  BY DEF Safe, NumberText
<1>3. \A s, t \in Seq(Scalar) : KeyBefore("ts", s, t) <=> KeyLess(s, t)
  BY KeyOrders
<1> QED
  BY <1>1, <1>2, <1>3 DEF Fits

LEMMA PyFits == Fits("py", Int, Bmp)
<1>1. Int \subseteq Int /\ Bmp \subseteq Scalar
  BY DEF Bmp
<1>2. \A n \in Int : NumberText("py", n) = NumberText("rust", n)
  BY DEF NumberText
<1>3. \A s, t \in Seq(Bmp) : KeyBefore("py", s, t) <=> KeyLess(s, t)
  BY KeyOrders
<1> QED
  BY <1>1, <1>2, <1>3 DEF Fits

\* For any set of values: Rust and TypeScript write the same bytes for those whose numbers
\* are safe, Rust and Python for those whose keys are of the BMP; and two values have the
\* same bytes only if they are the same value.
THEOREM EncodersTell ==
  ASSUME NEW bodies \in SUBSET Value[Depth]
  PROVE  BytesAgree(bodies)
<1>0. Depth \in Nat
  BY CanonicalAssumption
<1> DEFINE E == Encoding("rust")[Depth]
<1>1. \A v : /\ RustBytes(2, v) = E[v]
             /\ TsBytes(2, v) = Encoding("ts")[Depth][v]
             /\ PyBytes(2, v) = Encoding("py")[Depth][v]
             /\ Meaning(v) = Meanings[Depth][v]
  BY DEF RustBytes, TsBytes, PyBytes, Encode, Meaning
<1>2. ASSUME NEW v \in Values(Safe, Scalar)[Depth] PROVE Encoding("ts")[Depth][v] = E[v]
  BY <1>0, TsFits, SameBytes
<1>3. ASSUME NEW v \in Values(Int, Bmp)[Depth] PROVE Encoding("py")[Depth][v] = E[v]
  BY <1>0, PyFits, SameBytes
<1>4. BytesTell(Value[Depth], E, Meanings[Depth])
  BY <1>0, BytesTellAll
<1> HIDE DEF E
<1>5. \A v, w \in bodies : E[v] = E[w] <=> Meanings[Depth][v] = Meanings[Depth][w]
  BY <1>4 DEF BytesTell, Agree
<1>6. \A v \in bodies :
        /\ v \in Values(Safe, Scalar)[Depth] => RustBytes(2, v) = TsBytes(2, v)
        /\ v \in Values(Int, Bmp)[Depth] => RustBytes(2, v) = PyBytes(2, v)
  BY <1>1, <1>2, <1>3
<1>7. ASSUME NEW x \in {<<RustBytes(2, v), Meaning(v)>> : v \in bodies},
             NEW y \in {<<RustBytes(2, v), Meaning(v)>> : v \in bodies}
      PROVE  x[1] = y[1] <=> x[2] = y[2]
  <2>1. PICK v \in bodies : x = <<E[v], Meanings[Depth][v]>>
    BY <1>1
  <2>2. PICK w \in bodies : y = <<E[w], Meanings[Depth][w]>>
    BY <1>1
  <2> QED
    BY <1>5, <2>1, <2>2
<1> QED
  BY <1>6, <1>7 DEF BytesAgree

-----------------------------------------------------------------------------
(* The bodies.                                                             *)

LEMMA ValuesGrow == \A n \in Nat : Value[n] \subseteq Value[n + 1]
<1> DEFINE Good == {n \in Nat : Value[n] \subseteq Value[n + 1]}
<1>1. Int \subseteq Int /\ Scalar \subseteq Scalar
  OBVIOUS
<1>2. \A J, I : J \subseteq I => Nested(Int, Scalar, J) \subseteq Nested(Int, Scalar, I)
  BY <1>1, NestedInside
<1>3. 0 \in Good
  <2>1. Value[0] = Nested(Int, Scalar, {})
    BY ValueIs
  <2>2. Value[1] = Nested(Int, Scalar, Value[0])
    BY ValueIs
  <2>3. Nested(Int, Scalar, {}) \subseteq Nested(Int, Scalar, Value[0])
    BY <1>2
  <2>4. 0 + 1 = 1 /\ 0 \in Nat
    OBVIOUS
  <2> QED
    BY <2>1, <2>2, <2>3, <2>4
<1>4. ASSUME NEW n \in Good PROVE n + 1 \in Good
  <2>1. n \in Nat /\ n + 1 \in Nat /\ (n + 1) + 1 \in Nat /\ n + 1 # 0 /\ (n + 1) + 1 # 0
        /\ (n + 1) - 1 = n /\ ((n + 1) + 1) - 1 = n + 1
    OBVIOUS
  <2>2. Value[n + 1] = Nested(Int, Scalar, Value[n])
    BY <2>1, ValueIs
  <2>3. Value[(n + 1) + 1] = Nested(Int, Scalar, Value[n + 1])
    BY <2>1, ValueIs
  <2>4. Value[n] \subseteq Value[n + 1]
    OBVIOUS
  <2>5. Nested(Int, Scalar, Value[n]) \subseteq Nested(Int, Scalar, Value[n + 1])
    BY <1>2, <2>4
  <2> QED
    BY <2>1, <2>2, <2>3, <2>5
<1>5. Good = Nat
  <2>1. Good \in SUBSET Nat
    OBVIOUS
  <2> HIDE DEF Good
  <2> QED
    BY <1>3, <1>4, <2>1, NumberInduction
<1> QED
  BY <1>5

LEMMA TwoDeep == Value[2] \subseteq Value[Depth]
<1> DEFINE Good == {n \in Nat : Value[2] \subseteq Value[n + 2]}
<1>1. 0 \in Good
  OBVIOUS
<1>2. ASSUME NEW n \in Good PROVE n + 1 \in Good
  <2>1. n + 2 \in Nat /\ (n + 2) + 1 = (n + 1) + 2
    OBVIOUS
  <2>2. Value[n + 2] \subseteq Value[(n + 2) + 1]
    BY <2>1, ValuesGrow
  <2> QED
    BY <2>1, <2>2
<1>3. Good = Nat
  <2>1. Good \in SUBSET Nat
    OBVIOUS
  <2> HIDE DEF Good
  <2> QED
    BY <1>1, <1>2, <2>1, NumberInduction
<1>4. Depth - 2 \in Nat /\ (Depth - 2) + 2 = Depth
  BY CanonicalAssumption
<1> QED
  BY <1>3, <1>4

LEMMA FewMembers ==
  ASSUME NEW I, NEW k \in Seq(Scalar), NEW l \in Seq(Scalar), NEW v \in I, NEW w \in I
  PROVE  /\ << >> \in Keyed(Scalar, I)
         /\ << <<k, v>> >> \in Keyed(Scalar, I)
         /\ k # l => << <<k, v>>, <<l, w>> >> \in Keyed(Scalar, I)
<1>1. PICK P : P = Seq(Scalar) \X I
  OBVIOUS
<1>2. PICK a \in P : a = <<k, v>> /\ a[1] = k
  <2>1. <<k, v>> \in P /\ <<k, v>>[1] = k
    BY <1>1
  <2> QED
    BY <2>1
<1>3. PICK b \in P : b = <<l, w>> /\ b[1] = l
  <2>1. <<l, w>> \in P /\ <<l, w>>[1] = l
    BY <1>1
  <2> QED
    BY <2>1
<1>4. Keyed(Scalar, I) = {ms \in Seq(P) : \A i, j \in DOMAIN ms : ms[i][1] = ms[j][1] => i = j}
  BY <1>1 DEF Keyed
<1>5. << >> \in Keyed(Scalar, I) /\ <<a>> \in Keyed(Scalar, I)
  BY <1>4
<1>6. ASSUME k # l PROVE <<a, b>> \in Keyed(Scalar, I)
  <2>1. PICK ms \in Seq(P) : ms = <<a, b>>
    <3>1. <<a, b>> \in Seq(P)
      OBVIOUS
    <3> QED
      BY <3>1
  <2>2. DOMAIN ms = {1, 2} /\ ms[1] = a /\ ms[2] = b
    BY <2>1
  <2>3. \A i, j \in DOMAIN ms : ms[i][1] = ms[j][1] => i = j
    BY <1>2, <1>3, <1>6, <2>2
  <2> QED
    BY <1>4, <2>1, <2>3
<1> QED
  BY <1>2, <1>3, <1>5, <1>6

LEMMA BodiesAreValues == Bodies \subseteq Value[Depth]
<1>1. \A I, v : OfSomeKind(Int, Scalar, I, v) => v \in Nested(Int, Scalar, I)
  BY SomeKind
<1>2. /\ Value[0] = Nested(Int, Scalar, {})
      /\ Value[1] = Nested(Int, Scalar, Value[0])
      /\ Value[2] = Nested(Int, Scalar, Value[1])
  BY ValueIs
<1>3. Value[0] \subseteq Value[1] /\ Value[1] \subseteq Value[2]
  BY ValuesGrow
<1>4. /\ Null \in Nested(Int, Scalar, {})
      /\ \A b \in BOOLEAN : Bool(b) \in Nested(Int, Scalar, {})
      /\ \A n \in Int : Number(n) \in Nested(Int, Scalar, {})
      /\ \A s \in Seq(Scalar) : Text(s) \in Nested(Int, Scalar, {})
  BY <1>1 DEF OfSomeKind
<1>5. \A I : /\ \A vs \in Seq(I) : Array(vs) \in Nested(Int, Scalar, I)
             /\ \A ms \in Keyed(Scalar, I) : Object(ms) \in Nested(Int, Scalar, I)
  BY <1>1 DEF OfSomeKind
<1>6. {1, 8, 31, Quote, 44, 58, Backslash, 98} \subseteq Scalar /\ {97, 57344, 65536} \subseteq Scalar
  BY DEF Scalar, Surrogate, Quote, Backslash
<1>7. Keys \subseteq Seq(Scalar) /\ <<98>> \in Seq(Scalar)
  BY <1>6 DEF Keys
<1>8. Texts \subseteq Seq(Scalar)
  <2>1. PICK C : C = {1, 8, 31, Quote, 44, 58, Backslash, 98}
    OBVIOUS
  <2>2. Texts = UNION {[1 .. m -> C] : m \in 0 .. 2}
    BY <2>1 DEF Texts, BoundedSeq, SeqOf
  <2>3. \A m \in 0 .. 2 : [1 .. m -> C] \subseteq Seq(Scalar)
    BY <1>6, <2>1
  <2> QED
    BY <2>2, <2>3
<1>9. Inner \subseteq Value[0]
  <2>1. << >> \in Seq(Scalar) /\ <<Quote, 44, Quote>> \in Seq(Scalar)
    BY <1>6
  <2>2. 1 \in Int
    OBVIOUS
  <2> QED
    BY <1>2, <1>4, <2>1, <2>2 DEF Inner
<1>10. Array(<< >>) \in Value[0]
  <2>1. << >> \in Seq({})
    OBVIOUS
  <2> QED
    BY <1>2, <1>5, <2>1
<1>11. \A vs \in BoundedSeq(Inner \cup {Array(<< >>)}, 2) : Array(vs) \in Value[1]
  <2>1. PICK A : A = Inner \cup {Array(<< >>)}
    OBVIOUS
  <2>2. A \subseteq Value[0]
    BY <1>9, <1>10, <2>1
  <2>3. BoundedSeq(A, 2) = UNION {[1 .. m -> A] : m \in 0 .. 2}
    BY DEF BoundedSeq, SeqOf
  <2>4. \A m \in 0 .. 2 : [1 .. m -> A] \subseteq Seq(Value[0])
    BY <2>2
  <2>5. BoundedSeq(A, 2) \subseteq Seq(Value[0])
    BY <2>3, <2>4
  <2> QED
    BY <1>2, <1>5, <2>1, <2>5
<1>12. ASSUME NEW a \in Entries, NEW b \in Entries
       PROVE  /\ Object(<< >>) \in Value[1]
              /\ Object(<<a>>) \in Value[1]
              /\ a[1] # b[1] => Object(<<a, b>>) \in Value[1]
  <2>1. a[1] \in Keys /\ a[2] \in Inner /\ a = <<a[1], a[2]>>
    BY DEF Entries
  <2>2. b[1] \in Keys /\ b[2] \in Inner /\ b = <<b[1], b[2]>>
    BY DEF Entries
  <2>3. PICK k \in Seq(Scalar), v \in Value[0] : a = <<k, v>> /\ k = a[1]
    BY <1>7, <1>9, <2>1
  <2>4. PICK l \in Seq(Scalar), w \in Value[0] : b = <<l, w>> /\ l = b[1]
    BY <1>7, <1>9, <2>2
  <2>5. /\ << >> \in Keyed(Scalar, Value[0])
        /\ << <<k, v>> >> \in Keyed(Scalar, Value[0])
        /\ k # l => << <<k, v>>, <<l, w>> >> \in Keyed(Scalar, Value[0])
    BY FewMembers
  <2> QED
    BY <1>2, <1>5, <2>3, <2>4, <2>5
<1>13. ASSUME NEW v \in Inner, NEW w \in Inner
       PROVE  Mixed(v, w) \in Value[2]
  <2>1. PICK k \in Seq(Scalar) : k = <<97>>
    <3>1. <<97>> \in Seq(Scalar)
      BY <1>7 DEF Keys
    <3> QED
      BY <3>1
  <2>2. PICK l \in Seq(Scalar) : l = <<98>>
    <3>1. <<98>> \in Seq(Scalar)
      BY <1>7
    <3> QED
      BY <3>1
  <2>8. k # l
    <3>1. k[1] = 97 /\ l[1] = 98
      BY <2>1, <2>2
    <3> QED
      BY <3>1
  <2>3. v \in Value[0] /\ w \in Value[0]
    BY <1>9
  <2>4. PICK x \in Value[1] : x = Array(<<v>>)
    <3>1. \A I : v \in I => <<v>> \in Seq(I)
      OBVIOUS
    <3>2. <<v>> \in Seq(Value[0])
      BY <2>3, <3>1
    <3>3. Array(<<v>>) \in Value[1]
      BY <1>2, <1>5, <3>2
    <3> QED
      BY <3>3
  <2>5. PICK y \in Value[1] : y = Object(<< <<k, w>> >>)
    <3>1. /\ << >> \in Keyed(Scalar, Value[0])
          /\ << <<k, w>> >> \in Keyed(Scalar, Value[0])
          /\ k # k => << <<k, w>>, <<k, w>> >> \in Keyed(Scalar, Value[0])
      BY <2>3, FewMembers
    <3> QED
      BY <1>2, <1>5, <3>1
  <2>6. /\ << >> \in Keyed(Scalar, Value[1])
        /\ << <<k, x>> >> \in Keyed(Scalar, Value[1])
        /\ k # l => << <<k, x>>, <<l, y>> >> \in Keyed(Scalar, Value[1])
    BY FewMembers
  <2>7. Object(<< <<k, x>>, <<l, y>> >>) \in Value[2]
    BY <1>2, <1>5, <2>6, <2>8
  <2> QED
    BY <2>1, <2>2, <2>4, <2>5, <2>7 DEF Mixed
<1>14. {Null, Bool(TRUE), Bool(FALSE)} \cup {Text(s) : s \in Texts} \subseteq Value[2]
  BY <1>2, <1>3, <1>4, <1>8
<1>15. {Number(n) : n \in -10 .. MaxSafe + 1} \subseteq Value[2]
  <2>1. \A n \in -10 .. MaxSafe + 1 : n \in Int
    OBVIOUS
  <2> QED
    BY <1>2, <1>3, <1>4, <2>1
<1>16. {Array(vs) : vs \in BoundedSeq(Inner \cup {Array(<< >>)}, 2)} \subseteq Value[2]
  BY <1>3, <1>11
<1>17. {Object(ms) : ms \in {<< >>} \cup {<<e>> : e \in Entries}} \subseteq Value[2]
  <2>1. PICK e : e \in Entries
    <3>1. Null \in Inner /\ <<97>> \in Keys
      BY DEF Inner, Keys
    <3>2. <<<<97>>, Null>> \in Entries
      BY <3>1 DEF Entries
    <3> QED
      BY <3>2
  <2> QED
    BY <1>3, <1>12, <2>1
<1>18. {Object(ms) : ms \in {ms \in Entries \X Entries : ms[1][1] # ms[2][1]}} \subseteq Value[2]
  <2>1. ASSUME NEW ms \in Entries \X Entries, ms[1][1] # ms[2][1]
        PROVE  Object(ms) \in Value[2]
    <3>1. PICK a \in Entries, b \in Entries : ms = <<a, b>> /\ a = ms[1] /\ b = ms[2]
      <4>1. ms[1] \in Entries /\ ms[2] \in Entries /\ ms = <<ms[1], ms[2]>>
        OBVIOUS
      <4> QED
        BY <4>1
    <3> QED
      BY <1>3, <1>12, <2>1, <3>1
  <2> QED
    BY <2>1
<1>19. {Mixed(v, w) : v, w \in Inner} \subseteq Value[2]
  BY <1>13
<1> QED
  <2> DEFINE B1 == {Null, Bool(TRUE), Bool(FALSE)} \cup {Text(s) : s \in Texts}
             B2 == {Number(n) : n \in -10 .. MaxSafe + 1}
             B3 == {Array(vs) : vs \in BoundedSeq(Inner \cup {Array(<< >>)}, 2)}
             B4 == {Object(ms) : ms \in {<< >>} \cup {<<e>> : e \in Entries}}
             B5 == {Object(ms) : ms \in {ms \in Entries \X Entries : ms[1][1] # ms[2][1]}}
             B6 == {Mixed(v, w) : v, w \in Inner}
  <2>1. Bodies = B1 \cup B2 \cup B3 \cup B4 \cup B5 \cup B6
    BY DEF Bodies
  <2>2. B1 \subseteq Value[2]
    BY <1>14
  <2>3. B2 \subseteq Value[2]
    BY <1>15
  <2>4. B3 \subseteq Value[2]
    BY <1>16
  <2>5. B4 \subseteq Value[2]
    BY <1>17
  <2>6. B5 \subseteq Value[2]
    BY <1>18
  <2>7. B6 \subseteq Value[2]
    BY <1>19
  <2> HIDE DEF B1, B2, B3, B4, B5, B6
  <2> QED
    BY <2>1, <2>2, <2>3, <2>4, <2>5, <2>6, <2>7, TwoDeep
=============================================================================

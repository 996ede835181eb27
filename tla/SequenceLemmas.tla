--------------------------- MODULE SequenceLemmas ---------------------------
(***************************************************************************)
(* Induction over the numbers, in a form without an operator parameter,    *)
(* and what it shows of sequences.                                         *)
(***************************************************************************)
EXTENDS Integers, Sequences, SequencesExt, FiniteSetTheorems, TLAPS

(* Strict inclusion of finite sets is well-founded; so is then the order   *)
(* of the intervals 1..n.                                                  *)
LEMMA LeastNat ==
  ASSUME NEW T, T \subseteq Nat, T # {}
  PROVE  \E n \in T : \A m \in T : n <= m
<1> DEFINE R == StrictSubsetOrdering(Nat)
           S == FiniteSubsetsOf(Nat)
           V == {1..n : n \in T}
<1>1. IsWellFoundedOn(R, S)
  BY FS_StrictSubsetOrderingWellFounded
<1>2. V \subseteq S /\ V # {}
  <2>1. \A n \in T : 1..n \subseteq Nat /\ IsFiniteSet(1..n)
    BY FS_Interval
  <2>2. QED
    BY <2>1 DEF FiniteSubsetsOf
<1> HIDE DEF R, S, V
<1>3. \E x \in V : \A y \in V : ~(<<y, x>> \in R)
  BY <1>1, <1>2, WFMin
<1>4. PICK n \in T : \A y \in V : ~(<<y, 1..n>> \in R)
  BY <1>3 DEF V
<1>5. ASSUME NEW m \in T, m < n PROVE FALSE
  <2>1. 1..m \in SUBSET Nat /\ 1..n \in SUBSET Nat
    BY <1>5
  <2>2. 1..m \subseteq 1..n
    BY <1>5
  <2>3. n \in 1..n /\ n \notin 1..m
    BY <1>5
  <2>4. <<1..m, 1..n>> \in R
    BY <2>1, <2>2, <2>3 DEF R, StrictSubsetOrdering
  <2>5. QED
    BY <1>4, <2>4 DEF V
<1>6. QED
  BY <1>5

LEMMA AllNat ==
  ASSUME NEW T, 0 \in T, \A n \in Nat : n \in T => n + 1 \in T
  PROVE  Nat \subseteq T
<1> SUFFICES ASSUME ~(Nat \subseteq T) PROVE FALSE
  OBVIOUS
<1> DEFINE U == Nat \ T
<1>1. PICK n \in U : \A m \in U : n <= m
  BY LeastNat
<1>2. n # 0 /\ n \in Nat /\ n - 1 \in Nat /\ n - 1 \notin U
  BY <1>1
<1>3. QED
  BY <1>1, <1>2

LEMMA GreatestNat ==
  ASSUME NEW n \in Nat, NEW T, T \subseteq 0..n, T # {}
  PROVE  \E m \in T : \A k \in T : k <= m
<1> DEFINE U == {n - k : k \in T}
<1>1. U \subseteq Nat /\ U # {}
  <2>1. \A k \in T : k \in 0..n
    OBVIOUS
  <2>2. \A k \in T : n - k \in Nat
    BY <2>1
  <2>3. QED
    BY <2>2
<1>2. PICK u \in U : \A v \in U : u <= v
  BY <1>1, LeastNat
<1>3. PICK m \in T : u = n - m
  BY <1>2
<1>4. \A k \in T : k <= m
  <2> SUFFICES ASSUME NEW k \in T PROVE k <= m
    OBVIOUS
  <2>1. n - m <= n - k
    BY <1>2, <1>3
  <2>2. k \in 0..n /\ m \in 0..n
    OBVIOUS
  <2> HIDE DEF U
  <2>3. QED
    BY <2>1, <2>2
<1>5. QED
  BY <1>4

(* What does not fall from one number to the next does not fall at all.    *)
LEMMA Climbs ==
  ASSUME NEW n \in Nat, NEW r, \A i \in 0..n : r[i] \in Int,
         \A i \in 1..n : r[i - 1] <= r[i]
  PROVE  \A i \in 0..n : \A j \in i..n : r[i] <= r[j]
<1> SUFFICES ASSUME NEW i \in 0..n, NEW j \in i..n PROVE r[i] <= r[j]
  OBVIOUS
<1> DEFINE T == {d \in Nat : i + d <= n => r[i] <= r[i + d]}
<1>1. 0 \in T
  OBVIOUS
<1>2. ASSUME NEW d \in Nat, d \in T PROVE d + 1 \in T
  <2> SUFFICES ASSUME i + (d + 1) <= n PROVE r[i] <= r[i + (d + 1)]
    OBVIOUS
  <2>1. i + (d + 1) \in 1..n /\ i + (d + 1) - 1 = i + d /\ i + d \in 0..n /\ i + d <= n
    OBVIOUS
  <2>2. r[i + d] <= r[i + (d + 1)] /\ r[i] <= r[i + d]
    BY <1>2, <2>1
  <2>3. r[i] \in Int /\ r[i + d] \in Int /\ r[i + (d + 1)] \in Int
    BY <2>1
  <2>4. QED
    BY <2>2, <2>3
<1> HIDE DEF T
<1>3. Nat \subseteq T
  BY <1>1, <1>2, AllNat
<1>4. j - i \in T /\ i + (j - i) = j
  BY <1>3
<1>5. QED
  BY <1>4 DEF T

-----------------------------------------------------------------------------
(* Parts of a sequence.                                                    *)

LEMMA SubSeqShape ==
  ASSUME NEW S, NEW w \in Seq(S), NEW a \in 0..Len(w), NEW b \in a..Len(w)
  PROVE  /\ SubSeq(w, a + 1, b) \in Seq(S) /\ Len(SubSeq(w, a + 1, b)) = b - a
         /\ \A k \in 1..(b - a) : SubSeq(w, a + 1, b)[k] = w[a + k]
OBVIOUS

LEMMA SubSeqIs ==
  ASSUME NEW S, NEW w \in Seq(S), NEW a \in 0..Len(w), NEW b \in a..Len(w),
         NEW s \in Seq(S), Len(s) = b - a, \A k \in 1..Len(s) : s[k] = w[a + k]
  PROVE  s = SubSeq(w, a + 1, b)
OBVIOUS

LEMMA SubSeqJoin ==
  ASSUME NEW S, NEW w \in Seq(S), NEW a \in 0..Len(w), NEW b \in a..Len(w),
         NEW c \in b..Len(w)
  PROVE  SubSeq(w, a + 1, b) \o SubSeq(w, b + 1, c) = SubSeq(w, a + 1, c)
OBVIOUS

(* FlattenSeq is a function by recursion, and that there is one is shown   *)
(* by induction.                                                           *)
IsFlatten(f, s, n) == f = [i \in 1..n |-> IF i = 1 THEN s[i] ELSE f[i - 1] \o s[i]]

LEMMA FlattenExists ==
  ASSUME NEW s, NEW n \in Nat
  PROVE  \E f : IsFlatten(f, s, n)
<1> DEFINE T == {m \in Nat : \E f : IsFlatten(f, s, m)}
<1>1. 0 \in T
  <2> DEFINE f0 == [i \in 1..0 |-> IF i = 1 THEN s[i] ELSE << >>[i - 1] \o s[i]]
  <2>1. IsFlatten(f0, s, 0)
    BY DEF IsFlatten
  <2>2. QED
    BY <2>1
<1>2. ASSUME NEW m \in Nat, m \in T PROVE m + 1 \in T
  <2>1. PICK f : IsFlatten(f, s, m)
    BY <1>2
  <2> DEFINE g == [i \in 1..(m + 1) |-> IF i \in 1..m THEN f[i]
                                        ELSE IF i = 1 THEN s[i] ELSE f[i - 1] \o s[i]]
  <2>2. \A i \in 1..m : g[i] = f[i]
    OBVIOUS
  <2>3. ASSUME NEW i \in 1..(m + 1)
        PROVE  g[i] = IF i = 1 THEN s[i] ELSE g[i - 1] \o s[i]
    <3>1. CASE i \in 1..m
      <4>1. g[i] = f[i] /\ (i # 1 => g[i - 1] = f[i - 1])
        BY <2>2, <3>1
      <4>2. f[i] = IF i = 1 THEN s[i] ELSE f[i - 1] \o s[i]
        BY <2>1, <3>1 DEF IsFlatten
      <4>3. QED
        BY <4>1, <4>2
    <3>2. CASE i = m + 1
      <4>1. i \notin 1..m /\ (i # 1 => i - 1 \in 1..m)
        BY <3>2
      <4>2. g[i] = IF i = 1 THEN s[i] ELSE f[i - 1] \o s[i]
        BY <4>1
      <4>3. i # 1 => g[i - 1] = f[i - 1]
        BY <2>2, <4>1
      <4>4. QED
        BY <4>2, <4>3
    <3>3. QED
      BY <3>1, <3>2
  <2>4. DOMAIN g = 1..(m + 1) /\ g = [i \in 1..(m + 1) |-> g[i]]
    OBVIOUS
  <2> HIDE DEF g
  <2>5. g = [i \in 1..(m + 1) |-> IF i = 1 THEN s[i] ELSE g[i - 1] \o s[i]]
    BY <2>3, <2>4
  <2>6. IsFlatten(g, s, m + 1)
    BY <2>5 DEF IsFlatten
  <2>7. QED
    BY <2>6
<1> HIDE DEF T
<1>3. Nat \subseteq T
  BY <1>1, <1>2, AllNat
<1>4. QED
  BY <1>3 DEF T

LEMMA FlattenIs ==
  ASSUME NEW s, NEW n \in Nat \ {0}, Len(s) = n
  PROVE  \E f : IsFlatten(f, s, n) /\ FlattenSeq(s) = f[n]
<1> DEFINE F == CHOOSE f : IsFlatten(f, s, n)
<1>1. IsFlatten(F, s, n)
  BY FlattenExists
<1>2. FlattenSeq(s) = F[n]
  BY DEF FlattenSeq, IsFlatten
<1>3. QED
  BY <1>1, <1>2

(* The pieces of a sequence, one behind the other, are the sequence.       *)
Pieces(s, n, w, e) ==
  /\ s = [i \in 1..n |-> s[i]]
  /\ \A i \in 0..n : e[i] \in 0..Len(w)
  /\ \A i \in 1..n : e[i - 1] <= e[i] /\ s[i] = SubSeq(w, e[i - 1] + 1, e[i])

LEMMA FlattenWindow ==
  ASSUME NEW S, NEW w \in Seq(S), NEW n \in Nat, NEW s, NEW e, Pieces(s, n, w, e)
  PROVE  FlattenSeq(s) = SubSeq(w, e[0] + 1, e[n]) /\ e[0] <= e[n]
<1>0. /\ \A i \in 0..n : e[i] \in 0..Len(w)
      /\ \A i \in 1..n : e[i - 1] <= e[i] /\ s[i] = SubSeq(w, e[i - 1] + 1, e[i])
  BY DEF Pieces
<1>1. Len(s) = n
  BY DEF Pieces
<1>2. CASE n = 0
  <2>1. FlattenSeq(s) = << >>
    BY <1>1, <1>2 DEF FlattenSeq
  <2>2. e[0] \in 0..Len(w)
    BY <1>0, <1>2
  <2>3. SubSeq(w, e[0] + 1, e[0]) = << >>
    BY <2>2
  <2>4. e[n] = e[0] /\ e[0] <= e[0]
    BY <1>2, <2>2
  <2>5. QED
    BY <2>1, <2>3, <2>4
<1>3. CASE n # 0
  <2>1. PICK f : IsFlatten(f, s, n) /\ FlattenSeq(s) = f[n]
    BY <1>1, <1>3, FlattenIs
  <2> DEFINE P(i) == f[i] = SubSeq(w, e[0] + 1, e[i]) /\ e[0] <= e[i]
             T == {d \in Nat : d + 1 <= n => P(d + 1)}
  <2>2. 0 \in T
    <3>1. f[1] = s[1] /\ 1 \in 1..n
      BY <1>3, <2>1 DEF IsFlatten
    <3>2. e[0] <= e[1] /\ s[1] = SubSeq(w, e[1 - 1] + 1, e[1]) /\ 1 - 1 = 0
      BY <1>0, <3>1
    <3>3. QED
      BY <3>1, <3>2
  <2>3. ASSUME NEW d \in Nat, d \in T PROVE d + 1 \in T
    <3> SUFFICES ASSUME d + 1 + 1 <= n PROVE P(d + 1 + 1)
      OBVIOUS
    <3> DEFINE i == d + 1 + 1
    <3>1. i \in 1..n /\ i # 1 /\ i - 1 = d + 1 /\ P(i - 1) /\ i - 1 \in 0..n /\ 0 \in 0..n /\ i \in 0..n
      BY <2>3
    <3> HIDE DEF i
    <3>2. f[i] = f[i - 1] \o s[i]
      BY <2>1, <3>1 DEF IsFlatten
    <3>3. f[i - 1] = SubSeq(w, e[0] + 1, e[i - 1]) /\ e[0] <= e[i - 1]
      BY <3>1
    <3>4. s[i] = SubSeq(w, e[i - 1] + 1, e[i]) /\ e[i - 1] <= e[i]
      BY <1>0, <3>1
    <3>a. e[0] \in 0..Len(w) /\ e[i - 1] \in 0..Len(w) /\ e[i] \in 0..Len(w)
      BY <1>0, <3>1
    <3>5. e[0] \in 0..Len(w) /\ e[i - 1] \in e[0]..Len(w) /\ e[i] \in e[i - 1]..Len(w)
      BY <3>3, <3>4, <3>a
    <3>6. SubSeq(w, e[0] + 1, e[i - 1]) \o SubSeq(w, e[i - 1] + 1, e[i]) = SubSeq(w, e[0] + 1, e[i])
      BY <3>5, SubSeqJoin
    <3>7. e[0] <= e[i]
      BY <3>5
    <3>8. QED
      BY <3>2, <3>3, <3>4, <3>6, <3>7 DEF i
  <2> HIDE DEF T
  <2>4. Nat \subseteq T
    BY <2>2, <2>3, AllNat
  <2>5. n - 1 \in T /\ n - 1 + 1 = n
    BY <1>3, <2>4
  <2>6. P(n)
    BY <2>5 DEF T
  <2>7. QED
    BY <2>1, <2>6
<1>4. QED
  BY <1>2, <1>3

(* What a filter keeps of a sequence: here, the places of an interval.     *)
SievedTo(s, w, from, to) ==
  s = [k \in 1..Len(w) |-> IF from <= k /\ k <= to THEN <<w[k]>> ELSE << >>]

LEMMA SievedPart ==
  ASSUME NEW S, NEW w \in Seq(S), NEW from \in 1..(Len(w) + 1), NEW to \in (from - 1)..Len(w),
         NEW s, SievedTo(s, w, from, to)
  PROVE  FlattenSeq(s) = SubSeq(w, from, to)
<1> DEFINE n == Len(w)
           e == [k \in 0..n |-> IF k < from THEN from - 1 ELSE IF k <= to THEN k ELSE to]
<1>0. /\ n \in Nat /\ s = [i \in 1..n |-> s[i]]
      /\ \A k \in 1..n : s[k] = IF from <= k /\ k <= to THEN <<w[k]>> ELSE << >>
  BY DEF SievedTo
<1>1. n = Len(w)
  OBVIOUS
<1> HIDE DEF n
<1>2. \A i \in 0..n : e[i] \in 0..n
  BY <1>0, <1>1
<1>4. ASSUME NEW i \in 1..n PROVE e[i - 1] <= e[i] /\ s[i] = SubSeq(w, e[i - 1] + 1, e[i])
  <2>0. /\ i - 1 \in 0..n
        /\ e[i] = IF i < from THEN from - 1 ELSE IF i <= to THEN i ELSE to
        /\ e[i - 1] = IF i - 1 < from THEN from - 1 ELSE IF i - 1 <= to THEN i - 1 ELSE to
        /\ s[i] = IF from <= i /\ i <= to THEN <<w[i]>> ELSE << >>
    BY <1>0
  <2> HIDE DEF e
  <2>1. CASE from <= i /\ i <= to
    <3>1. e[i] = i /\ s[i] = <<w[i]>>
      BY <2>0, <2>1
    <3>2. e[i - 1] = i - 1
      BY <1>0, <2>0, <2>1
    <3>3. SubSeq(w, (i - 1) + 1, i) = <<w[i]>>
      <4>1. i - 1 \in 0..Len(w) /\ i \in (i - 1)..Len(w) /\ i \in 1..Len(w)
        BY <1>0, <1>1
      <4>2. w[i] \in S /\ <<w[i]>> \in Seq(S) /\ Len(<<w[i]>>) = 1 /\ <<w[i]>>[1] = w[i]
        BY <4>1
      <4>3. i - (i - 1) = 1 /\ (i - 1) + 1 = i
        BY <4>1
      <4> DEFINE one == <<w[i]>>
      <4>4. one \in Seq(S) /\ Len(one) = i - (i - 1) /\ \A k \in 1..Len(one) : one[k] = w[(i - 1) + k]
        BY <4>2, <4>3
      <4> HIDE DEF one
      <4>5. one = SubSeq(w, (i - 1) + 1, i)
        BY <4>1, <4>4, SubSeqIs
      <4>6. QED
        BY <4>5 DEF one
    <3>4. i - 1 <= i
      BY <1>0
    <3>5. QED
      BY <3>1, <3>2, <3>3, <3>4
  <2>2. CASE ~(from <= i /\ i <= to)
    <3>1. s[i] = << >> /\ e[i] = e[i - 1] /\ e[i] \in 0..n
      BY <1>0, <1>2, <2>0, <2>2
    <3>2. SubSeq(w, e[i] + 1, e[i]) = << >>
      BY <1>1, <3>1
    <3>3. QED
      BY <3>1, <3>2
  <2>3. QED
    BY <2>1, <2>2
<1>5. e[0] = from - 1 /\ e[n] = to
  BY <1>0, <1>1
<1> HIDE DEF e
<1>6. FlattenSeq(s) = SubSeq(w, e[0] + 1, e[n])
  <2>1. Pieces(s, n, w, e)
    BY <1>0, <1>1, <1>2, <1>4 DEF Pieces
  <2>2. QED
    BY <1>0, <2>1, FlattenWindow
<1>7. (from - 1) + 1 = from
  OBVIOUS
<1>8. QED
  BY <1>5, <1>6, <1>7

(* The same of the numbers up to n.                                        *)
Sieve(s, n, from, to) ==
  s = [k \in 1..n |-> IF from <= k /\ k <= to THEN <<k>> ELSE << >>]

LEMMA FilterRange ==
  ASSUME NEW n \in Nat, NEW from \in 1..(n + 1), NEW to \in (from - 1)..n,
         NEW s, Sieve(s, n, from, to)
  PROVE  /\ FlattenSeq(s) \in Seq(Nat) /\ Len(FlattenSeq(s)) = to - from + 1
         /\ \A k \in 1..(to - from + 1) : FlattenSeq(s)[k] = from - 1 + k
<1> DEFINE w == [k \in 1..n |-> k]
<1>1. w \in Seq(Nat) /\ Len(w) = n /\ \A k \in 1..n : w[k] = k
  OBVIOUS
<1> HIDE DEF w
<1>2. SievedTo(s, w, from, to)
  BY <1>1 DEF Sieve, SievedTo
<1>3. from \in 1..(Len(w) + 1) /\ to \in (from - 1)..Len(w)
  BY <1>1
<1>4. FlattenSeq(s) = SubSeq(w, from, to)
  BY <1>1, <1>2, <1>3, SievedPart
<1>5. from - 1 \in 0..Len(w) /\ to \in (from - 1)..Len(w) /\ (from - 1) + 1 = from
  BY <1>1
<1>6. /\ SubSeq(w, (from - 1) + 1, to) \in Seq(Nat)
      /\ Len(SubSeq(w, (from - 1) + 1, to)) = to - (from - 1)
      /\ \A k \in 1..(to - (from - 1)) : SubSeq(w, (from - 1) + 1, to)[k] = w[from - 1 + k]
  BY <1>1, <1>5, SubSeqShape
<1>7. \A k \in 1..(to - (from - 1)) : w[from - 1 + k] = from - 1 + k
  BY <1>1
<1>8. to - (from - 1) = to - from + 1
  OBVIOUS
<1>9. QED
  BY <1>4, <1>5, <1>6, <1>7, <1>8

(* Pieces f to l of a sequence that is cut at r[1], r[2], ...              *)
Blocks(s, n, w, r, f, l) ==
  /\ s = [i \in 1..n |-> s[i]]
  /\ \A i \in 0..n : r[i] \in 0..Len(w)
  /\ \A i \in 1..n : r[i - 1] <= r[i]
  /\ \A i \in 1..n : s[i] = IF i \in f..l THEN SubSeq(w, r[i - 1] + 1, r[i]) ELSE << >>

LEMMA FlattenBlocks ==
  ASSUME NEW S, NEW w \in Seq(S), NEW n \in Nat, NEW r,
         NEW f \in 1..n, NEW l \in f..n, NEW s, Blocks(s, n, w, r, f, l)
  PROVE  FlattenSeq(s) = SubSeq(w, r[f - 1] + 1, r[l]) /\ r[f - 1] <= r[l]
<1>0. /\ s = [i \in 1..n |-> s[i]]
      /\ \A i \in 0..n : r[i] \in 0..Len(w)
      /\ \A i \in 1..n : r[i - 1] <= r[i]
      /\ \A i \in 1..n : s[i] = IF i \in f..l THEN SubSeq(w, r[i - 1] + 1, r[i]) ELSE << >>
  BY DEF Blocks
<1> DEFINE At(i) == IF i < f THEN f - 1 ELSE IF i <= l THEN i ELSE l
           e == [i \in 0..n |-> r[At(i)]]
<1>1. \A i \in 0..n : At(i) \in 0..n
  OBVIOUS
<1>2. \A i \in 0..n : e[i] = r[At(i)]
  OBVIOUS
<1>3. \A i \in 0..n : e[i] \in 0..Len(w)
  BY <1>0, <1>1
<1>4. ASSUME NEW i \in 1..n PROVE e[i - 1] <= e[i] /\ s[i] = SubSeq(w, e[i - 1] + 1, e[i])
  <2>1. i \in 0..n /\ i - 1 \in 0..n
    OBVIOUS
  <2>2. CASE i \in f..l
    <3>1. At(i) = i /\ At(i - 1) = i - 1
      BY <2>2
    <3>2. e[i] = r[i] /\ e[i - 1] = r[i - 1]
      BY <1>2, <2>1, <3>1
    <3>3. s[i] = SubSeq(w, r[i - 1] + 1, r[i]) /\ r[i - 1] <= r[i]
      BY <1>0, <2>2
    <3> HIDE DEF e, At
    <3>4. QED
      BY <3>2, <3>3
  <2>3. CASE i \notin f..l
    <3>1. At(i - 1) = At(i)
      BY <2>3
    <3>2. e[i - 1] = e[i] /\ e[i] \in 0..Len(w)
      BY <1>2, <1>3, <2>1, <3>1
    <3>3. s[i] = << >>
      BY <1>0, <2>3
    <3> HIDE DEF e, At
    <3>4. SubSeq(w, e[i] + 1, e[i]) = << >> /\ e[i] <= e[i]
      BY <3>2
    <3>5. QED
      BY <3>2, <3>3, <3>4
  <2>4. QED
    BY <2>2, <2>3
<1>5. e[0] = r[f - 1] /\ e[n] = r[l]
  OBVIOUS
<1> HIDE DEF e, At
<1>6. Pieces(s, n, w, e)
  <2>1. \A i \in 1..n : e[i - 1] <= e[i] /\ s[i] = SubSeq(w, e[i - 1] + 1, e[i])
    BY <1>4
  <2>2. QED
    BY <1>0, <1>3, <2>1 DEF Pieces
<1>7. FlattenSeq(s) = SubSeq(w, e[0] + 1, e[n]) /\ e[0] <= e[n]
  BY <1>6, FlattenWindow
<1>8. QED
  BY <1>5, <1>7

Empties(s, n) == s = [i \in 1..n |-> << >>]

LEMMA FlattenNone ==
  ASSUME NEW n \in Nat, NEW s, Empties(s, n)
  PROVE  FlattenSeq(s) = << >>
<1> DEFINE w == << >>
           e == [i \in 0..n |-> 0]
<1>1. w \in Seq({}) /\ Len(w) = 0
  OBVIOUS
<1>2. \A i \in 1..n : s[i] = << >>
  BY DEF Empties
<1>3. SubSeq(w, 0 + 1, 0) = << >>
  OBVIOUS
<1>4. \A i \in 0..n : e[i] = 0
  OBVIOUS
<1>5. s = [i \in 1..n |-> s[i]]
  BY DEF Empties
<1> HIDE DEF w, e
<1>6. Pieces(s, n, w, e)
  <2>1. \A i \in 0..n : e[i] \in 0..Len(w)
    BY <1>1, <1>4
  <2>2. ASSUME NEW i \in 1..n
        PROVE  e[i - 1] <= e[i] /\ s[i] = SubSeq(w, e[i - 1] + 1, e[i])
    <3>1. e[i - 1] = 0 /\ e[i] = 0
      BY <1>4
    <3>2. s[i] = << >>
      BY <1>2
    <3>3. s[i] = SubSeq(w, e[i - 1] + 1, e[i])
      BY <1>3, <3>1, <3>2
    <3>4. QED
      BY <3>1, <3>3
  <2>3. QED
    BY <1>5, <2>1, <2>2 DEF Pieces
<1>7. FlattenSeq(s) = SubSeq(w, e[0] + 1, e[n])
  BY <1>1, <1>6, FlattenWindow
<1>8. e[0] = 0 /\ e[n] = 0
  BY <1>4
<1>9. QED
  BY <1>3, <1>7, <1>8

(* What a filter keeps of the numbers up to n: in their order, all the     *)
(* numbers of a set and no other.                                          *)
Enumerates(p, T, n) ==
  /\ p \in Seq(Nat)
  /\ \A a \in 1..Len(p) : p[a] \in T /\ p[a] \in 1..n
  /\ \A a \in 2..Len(p) : p[a - 1] < p[a]
  /\ \A t \in 1..n : t \in T => \E a \in 1..Len(p) : p[a] = t

Extended(q, p, T, n) == q = p \o (IF n \in T THEN <<n>> ELSE << >>)

LEMMA EnumerateMore ==
  ASSUME NEW n \in Nat, NEW T, NEW p, Enumerates(p, T, n), NEW q, Extended(q, p, T, n + 1)
  PROVE  Enumerates(q, T, n + 1)
<1> DEFINE m == Len(p)
           t0 == n + 1
<1>1. /\ p \in Seq(Nat) /\ m \in Nat
      /\ \A a \in 1..m : p[a] \in T /\ p[a] \in 1..n
      /\ \A a \in 2..m : p[a - 1] < p[a]
      /\ \A t \in 1..n : t \in T => \E a \in 1..m : p[a] = t
  BY DEF Enumerates
<1>2. q = p \o (IF t0 \in T THEN <<t0>> ELSE << >>)
  BY DEF Extended
<1>3. t0 \in Nat /\ \A t \in 1..t0 : t \in 1..n \/ t = t0
  OBVIOUS
<1>4. \A t \in 1..n : t \in 1..t0 /\ t < t0
  OBVIOUS
<1>0. t0 \in 1..t0
  OBVIOUS
<1>5. CASE t0 \in T
  <2> HIDE DEF t0
  <2>1. q = p \o <<t0>>
    BY <1>2, <1>5
  <2>2. q \in Seq(Nat) /\ Len(q) = m + 1 /\ q[m + 1] = t0 /\ \A a \in 1..m : q[a] = p[a]
    BY <1>1, <1>3, <2>1
  <2> HIDE DEF m
  <2>3. ASSUME NEW a \in 1..(m + 1) PROVE q[a] \in T /\ q[a] \in 1..t0
    <3>1. a \in 1..m \/ a = m + 1
      BY <1>1
    <3>2. QED
      BY <1>0, <1>1, <1>4, <1>5, <2>2, <3>1
  <2>4. ASSUME NEW a \in 2..(m + 1) PROVE q[a - 1] < q[a]
    <3>1. CASE a = m + 1
      <4>1. m \in 1..m /\ a - 1 = m
        BY <1>1, <3>1
      <4>2. q[m] = p[m] /\ p[m] < t0
        BY <1>1, <1>4, <2>2, <4>1
      <4>3. QED
        BY <2>2, <3>1, <4>1, <4>2
    <3>2. CASE a # m + 1
      <4>1. a \in 2..m /\ a - 1 \in 1..m /\ a \in 1..m
        BY <1>1, <3>2
      <4>2. QED
        BY <1>1, <2>2, <4>1
    <3>3. QED
      BY <3>1, <3>2
  <2>5. ASSUME NEW t \in 1..t0, t \in T PROVE \E a \in 1..(m + 1) : q[a] = t
    <3>1. CASE t = t0
      <4>1. m + 1 \in 1..(m + 1)
        BY <1>1
      <4>2. QED
        BY <2>2, <3>1, <4>1
    <3>2. CASE t # t0
      <4>1. PICK a \in 1..m : p[a] = t
        BY <1>1, <1>3, <2>5, <3>2
      <4>2. a \in 1..(m + 1) /\ q[a] = t
        BY <1>1, <2>2, <4>1
      <4>3. QED
        BY <4>2
    <3>3. QED
      BY <3>1, <3>2
  <2>6. QED
    BY <2>2, <2>3, <2>4, <2>5 DEF Enumerates, t0
<1>6. CASE t0 \notin T
  <2> HIDE DEF t0
  <2>1. q = p
    BY <1>1, <1>2, <1>6
  <2>2. \A a \in 1..m : p[a] \in T /\ p[a] \in 1..t0
    BY <1>1, <1>4
  <2>3. \A t \in 1..t0 : t \in T => \E a \in 1..m : p[a] = t
    BY <1>1, <1>3, <1>6
  <2>4. QED
    BY <1>1, <2>1, <2>2, <2>3 DEF Enumerates, t0
<1>7. QED
  BY <1>5, <1>6

Chosen(s, T, n) == s = [i \in 1..n |-> IF i \in T THEN <<i>> ELSE << >>]

LEMMA FilterEnumerates ==
  ASSUME NEW n \in Nat, NEW T, NEW s, Chosen(s, T, n)
  PROVE  Enumerates(FlattenSeq(s), T, n)
<1>1. Len(s) = n /\ \A i \in 1..n : s[i] = IF i \in T THEN <<i>> ELSE << >>
  BY DEF Chosen
<1>0. Enumerates(<< >>, T, 0)
  BY DEF Enumerates
<1>2. CASE n = 0
  <2>1. FlattenSeq(s) = << >>
    BY <1>1, <1>2 DEF FlattenSeq
  <2>2. QED
    BY <1>0, <1>2, <2>1
<1>3. CASE n # 0
  <2>1. PICK f : IsFlatten(f, s, n) /\ FlattenSeq(s) = f[n]
    BY <1>1, <1>3, FlattenIs
  <2>2. \A i \in 1..n : f[i] = IF i = 1 THEN s[i] ELSE f[i - 1] \o s[i]
    BY <2>1 DEF IsFlatten
  <2> DEFINE U == {d \in Nat : d + 1 <= n => Enumerates(f[d + 1], T, d + 1)}
  <2>3. 0 \in U
    <3>1. 1 \in 1..n /\ f[1] = s[1]
      BY <1>3, <2>2
    <3>2. Extended(f[1], << >>, T, 0 + 1)
      <4>1. s[1] = IF 1 \in T THEN <<1>> ELSE << >>
        BY <1>1, <3>1
      <4>2. << >> \o <<1>> = <<1>> /\ << >> \o << >> = << >> /\ 0 + 1 = 1
        OBVIOUS
      <4>3. f[1] = << >> \o (IF 1 \in T THEN <<1>> ELSE << >>)
        BY <3>1, <4>1, <4>2
      <4>4. QED
        BY <4>2, <4>3 DEF Extended
    <3>3. Enumerates(f[1], T, 0 + 1)
      BY <1>0, <3>2, EnumerateMore
    <3>4. 0 + 1 = 1
      OBVIOUS
    <3>5. QED
      BY <3>3, <3>4
  <2>4. ASSUME NEW d \in Nat, d \in U PROVE d + 1 \in U
    <3> SUFFICES ASSUME (d + 1) + 1 <= n PROVE Enumerates(f[(d + 1) + 1], T, (d + 1) + 1)
      BY <2>4
    <3>1. Enumerates(f[d + 1], T, d + 1)
      BY <2>4
    <3> DEFINE i == (d + 1) + 1
    <3>2. i \in 1..n /\ i # 1 /\ i - 1 = d + 1 /\ d + 1 \in Nat
      OBVIOUS
    <3>3. f[i] = f[d + 1] \o (IF i \in T THEN <<i>> ELSE << >>)
      BY <1>1, <2>2, <3>2
    <3>4. Extended(f[i], f[d + 1], T, (d + 1) + 1)
      BY <3>3 DEF Extended
    <3> HIDE DEF i
    <3>5. Enumerates(f[i], T, (d + 1) + 1)
      BY <3>1, <3>2, <3>4, EnumerateMore
    <3>6. QED
      BY <3>5 DEF i
  <2> HIDE DEF U
  <2>5. Nat \subseteq U
    BY <2>3, <2>4, AllNat
  <2>6. n - 1 \in U /\ (n - 1) + 1 = n
    BY <1>3, <2>5
  <2>7. Enumerates(f[n], T, n)
    BY <2>6 DEF U
  <2>8. QED
    BY <2>1, <2>7
<1>4. QED
  BY <1>2, <1>3
=============================================================================

---------------------------- MODULE SequenceLemmas --------------------------
(***************************************************************************)
(* Induction on numbers and sequences, stated for sets instead of          *)
(* predicates, and what FlattenSeq computes.                               *)
(***************************************************************************)
EXTENDS Integers, Sequences, SequencesExt, SequenceTheorems, FiniteSets,
        FiniteSetTheorems, WellFoundedInduction, TLAPS

(***************************************************************************)
(* Induction and recursion.                                                *)
(***************************************************************************)

\* A set with 0 and the successor of each of its numbers has all numbers.
LEMMA NumberInduction ==
  ASSUME NEW S, 0 \in S, \A n \in Nat : n \in S => n + 1 \in S
  PROVE  Nat \subseteq S
<1> DEFINE T == Nat \ S
<1> SUFFICES ASSUME T # {} PROVE FALSE
  OBVIOUS
<1>1. PICK m \in T : \A n \in T : ~ (<<n, m>> \in OpToRel(<, Nat))
  BY WFMin, NatLessThanWellFounded
<1>2. \A n \in T : ~ (n < m)
  BY <1>1, Zenon DEF OpToRel
<1>3. m \in Nat /\ m \notin S /\ m # 0
  OBVIOUS
<1>4. m - 1 \in Nat /\ m - 1 < m
  BY <1>3
<1>5. m - 1 \in S
  BY <1>2, <1>4
<1>6. m \in S
  BY <1>4, <1>5, <1>3
<1> QED
  BY <1>3, <1>6

\* The same up to a bound.
LEMMA BoundedInduction ==
  ASSUME NEW k \in Nat, NEW S, 0 \in S,
         \A n \in 0 .. k - 1 : n \in S => n + 1 \in S
  PROVE  0 .. k \subseteq S
<1> DEFINE T == {n \in Nat : n <= k => n \in S}
<1>1. 0 \in T
  OBVIOUS
<1>2. ASSUME NEW n \in Nat, n \in T PROVE n + 1 \in T
  <2>1. SUFFICES ASSUME n + 1 <= k PROVE n + 1 \in S
    OBVIOUS
  <2>2. n \in 0 .. k - 1 /\ n \in S
    BY <1>2, <2>1
  <2> QED
    BY <2>2
<1>3. Nat \subseteq T
  <2> HIDE DEF T
  <2> QED
    BY <1>1, <1>2, NumberInduction
<1> QED
  BY <1>3

\* A set with <<>> and each extension of its sequences has all sequences.
LEMMA AppendInduction ==
  ASSUME NEW S, NEW P, <<>> \in P,
         \A s \in Seq(S), e \in S : s \in P => Append(s, e) \in P
  PROVE  Seq(S) \subseteq P
<1> DEFINE T == {n \in Nat : \A s \in Seq(S) : Len(s) = n => s \in P}
<1>1. 0 \in T
  <2>1. \A s \in Seq(S) : Len(s) = 0 => s = <<>>
    OBVIOUS
  <2> QED
    BY <2>1
<1>2. ASSUME NEW n \in Nat, n \in T PROVE n + 1 \in T
  <2>1. SUFFICES ASSUME NEW s \in Seq(S), Len(s) = n + 1 PROVE s \in P
    OBVIOUS
  <2>2. s # <<>>
    BY <2>1
  <2>3. PICK t \in Seq(S), e \in S : s = Append(t, e)
    BY <2>2, SequenceEmptyOrAppend
  <2>4. Len(t) = n
    BY <2>1, <2>3, AppendProperties, LenProperties
  <2> QED
    BY <1>2, <2>3, <2>4
<1>3. Nat \subseteq T
  <2> HIDE DEF T
  <2> QED
    BY <1>1, <1>2, NumberInduction
<1> QED
  BY <1>3, LenProperties

\* g begins with a and goes on with the steps D.
Follows(g, k, a, D) == g[0] = a /\ \A i \in 1 .. k : g[i] = D[i][g[i - 1]]

\* A function given by its first value and by steps exists.
LEMMA Recursion ==
  ASSUME NEW k \in Nat, NEW A, NEW a \in A, NEW D \in [1 .. k -> [A -> A]]
  PROVE  \E g \in [0 .. k -> A] : Follows(g, k, a, D)
<1> USE DEF Follows
<1> DEFINE Q(n, g) == Follows(g, n, a, D)
           T == {n \in Nat : n <= k => \E g \in [0 .. n -> A] : Q(n, g)}
<1>1. 0 \in T
  <2> DEFINE g == [i \in 0 .. 0 |-> a]
  <2>1. g \in [0 .. 0 -> A] /\ Q(0, g)
    OBVIOUS
  <2>2. \E h \in [0 .. 0 -> A] : Q(0, h)
    BY <2>1
  <2> QED
    BY <2>2
<1>2. ASSUME NEW n \in Nat, n \in T PROVE n + 1 \in T
  <2>1. SUFFICES ASSUME n + 1 <= k
                 PROVE \E h \in [0 .. n + 1 -> A] : Q(n + 1, h)
    OBVIOUS
  <2>2. PICK g \in [0 .. n -> A] : Q(n, g)
    BY <1>2, <2>1
  <2>3. D[n + 1][g[n]] \in A
    BY <2>1
  <2> DEFINE h == [i \in 0 .. n + 1 |-> IF i = n + 1 THEN D[n + 1][g[n]] ELSE g[i]]
  <2>4. h \in [0 .. n + 1 -> A]
    BY <2>3
  <2>5. h[0] = a
    BY <2>2
  <2>6. \A i \in 1 .. n : h[i] = g[i] /\ h[i - 1] = g[i - 1]
    OBVIOUS
  <2>7. h[n + 1] = D[n + 1][h[n]]
    OBVIOUS
  <2>8. Q(n + 1, h)
    <3> HIDE DEF h
    <3>1. ASSUME NEW i \in 1 .. n + 1 PROVE h[i] = D[i][h[i - 1]]
      <4>1. CASE i = n + 1
        BY <4>1, <2>7
      <4>2. CASE i \in 1 .. n
        BY <4>2, <2>2, <2>6
      <4> QED
        BY <4>1, <4>2
    <3> QED
      BY <2>5, <3>1
  <2> QED
    BY <2>4, <2>8
<1>3. Nat \subseteq T
  <2> HIDE DEF T
  <2> QED
    BY <1>1, <1>2, NumberInduction
<1> QED
  BY <1>3

\* The greatest of numbers.
LEMMA MaxOfInterval ==
  ASSUME NEW k \in Nat
  PROVE  Max(1 .. k + 1) = k + 1 /\ (1 .. k + 1) \ {k + 1} = 1 .. k
BY DEF Max

LEMMA MaxOfNumbers ==
  ASSUME NEW n \in Nat, NEW s \in SUBSET (1 .. n), s # {}
  PROVE  Max(s) \in s /\ \A x \in s : x <= Max(s)
<1> DEFINE T == {k \in Nat : \A r \in SUBSET (1 .. k) :
                   r # {} => \E x \in r : \A y \in r : x >= y}
<1>1. 0 \in T
  <2>1. \A r \in SUBSET (1 .. 0) : r = {}
    OBVIOUS
  <2> QED
    BY <2>1
<1>2. ASSUME NEW k \in Nat, k \in T
      PROVE  k + 1 \in T
  <2> SUFFICES ASSUME NEW r \in SUBSET (1 .. k + 1), r # {}
               PROVE  \E x \in r : \A y \in r : x >= y
    OBVIOUS
  <2>1. CASE k + 1 \in r
    BY <2>1
  <2>2. CASE k + 1 \notin r
    <3>1. r \in SUBSET (1 .. k)
      BY <2>2
    <3> QED
      BY <1>2, <3>1
  <2> QED
    BY <2>1, <2>2
<1>3. n \in T
  <2> HIDE DEF T
  <2> QED
    BY <1>1, <1>2, NumberInduction
<1>4. \E x \in s : \A y \in s : x >= y
  BY <1>3
<1>5. Max(s) \in s /\ \A y \in s : Max(s) >= y
  BY <1>4 DEF Max
<1> HIDE DEF T
<1>6. Max(s) \in Nat /\ \A y \in s : y \in Nat
  <2>1. \A y \in s : y \in 1 .. n
    OBVIOUS
  <2>2. Max(s) \in 1 .. n
    BY <1>5
  <2> HIDE <1>5
  <2> QED
    BY <2>1, <2>2
<1> QED
  BY <1>5, <1>6

\* g takes the elements out of a set that c chooses, and goes on with the steps
\* D, from a for the empty set: the recursion behind the folds.
TakesOut(g, S, c, a, D) ==
  \A s \in SUBSET S : g[s] = IF s = {} THEN a ELSE D[c[s]][g[s \ {c[s]}]]

LEMMA SubsetRecursion ==
  ASSUME NEW S, IsFiniteSet(S), NEW A, NEW a \in A, NEW D \in [S -> [A -> A]],
         NEW c, \A s \in SUBSET S : s # {} => c[s] \in s
  PROVE  \E g \in [SUBSET S -> A] : TakesOut(g, S, c, a, D)
<1> DEFINE Small(n) == {s \in SUBSET S : Cardinality(s) <= n}
           Q(n, g) == \A s \in Small(n) :
                        g[s] = IF s = {} THEN a ELSE D[c[s]][g[s \ {c[s]}]]
           T == {n \in Nat : \E g \in [Small(n) -> A] : Q(n, g)}
<1>0. \A s \in SUBSET S : IsFiniteSet(s) /\ Cardinality(s) \in Nat
  BY FS_Subset, FS_CardinalityType
<1>1. 0 \in T
  <2> DEFINE g == [s \in Small(0) |-> a]
  <2>1. \A s \in Small(0) : s = {}
    BY <1>0, FS_EmptySet
  <2>2. g \in [Small(0) -> A] /\ Q(0, g)
    BY <2>1
  <2>3. \E h \in [Small(0) -> A] : Q(0, h)
    BY <2>2
  <2> QED
    BY <2>3
<1>6. ASSUME NEW n \in Nat PROVE {} \in Small(n)
  BY FS_EmptySet
<1>2. ASSUME NEW n \in Nat, n \in T PROVE n + 1 \in T
  <2>1. PICK g \in [Small(n) -> A] : Q(n, g)
    BY <1>2
  <2> DEFINE h == [s \in Small(n + 1) |->
                     IF s \in Small(n) THEN g[s] ELSE D[c[s]][g[s \ {c[s]}]]]
  <2>2. ASSUME NEW s \in Small(n + 1), s # {}
        PROVE  s \ {c[s]} \in Small(n) /\ c[s] \in S
    <3>1. IsFiniteSet(s) /\ Cardinality(s) \in Nat /\ Cardinality(s) <= n + 1 /\ c[s] \in s
      BY <1>0, <2>2
    <3>2. Cardinality(s \ {c[s]}) = Cardinality(s) - 1
      BY <3>1, FS_RemoveElement
    <3> QED
      BY <3>1, <3>2
  <2>3. \A s \in Small(n) : s \in Small(n + 1) /\ h[s] = g[s]
    BY <1>0
  <2>4. h \in [Small(n + 1) -> A]
    <3>1. ASSUME NEW s \in Small(n + 1)
          PROVE  (IF s \in Small(n) THEN g[s] ELSE D[c[s]][g[s \ {c[s]}]]) \in A
      <4>1. CASE s \in Small(n)
        BY <4>1
      <4>2. CASE s \notin Small(n)
        <5>1. s # {}
          BY <4>2, <1>6
        <5>2. g[s \ {c[s]}] \in A /\ D[c[s]] \in [A -> A]
          BY <2>2, <5>1
        <5> QED
          BY <4>2, <5>2
      <4> QED
        BY <4>1, <4>2
    <3> QED
      BY <3>1
  <2>5. Q(n + 1, h)
    <3> SUFFICES ASSUME NEW s \in Small(n + 1)
                 PROVE  h[s] = IF s = {} THEN a ELSE D[c[s]][h[s \ {c[s]}]]
      OBVIOUS
    <3>1. s # {} => h[s \ {c[s]}] = g[s \ {c[s]}]
      BY <2>2, <2>3
    <3>2. CASE s \in Small(n)
      <4>1. h[s] = g[s]
        BY <2>3, <3>2
      <4>2. g[s] = IF s = {} THEN a ELSE D[c[s]][g[s \ {c[s]}]]
        BY <2>1, <3>2
      <4> HIDE DEF h
      <4> QED
        BY <3>1, <4>1, <4>2
    <3>3. CASE s \notin Small(n)
      <4>1. s # {}
        BY <3>3, <1>6
      <4>2. h[s] = D[c[s]][g[s \ {c[s]}]]
        BY <3>3
      <4> HIDE DEF h
      <4> QED
        BY <3>1, <4>1, <4>2
    <3> QED
      BY <3>2, <3>3
  <2>6. \E f \in [Small(n + 1) -> A] : Q(n + 1, f)
    <3> HIDE DEF h
    <3> QED
      BY <2>4, <2>5
  <2> HIDE DEF Q, Small
  <2> QED
    BY <2>6
<1>3. Nat \subseteq T
  <2> HIDE DEF T
  <2> QED
    BY <1>1, <1>2, NumberInduction
<1>4. PICK g \in [Small(Cardinality(S)) -> A] : Q(Cardinality(S), g)
  BY <1>0, <1>3
<1>5. Small(Cardinality(S)) = SUBSET S
  BY <1>0, FS_Subset
<1> QED
  BY <1>4, <1>5 DEF TakesOut

(***************************************************************************)
(* Sequences given by their elements.                                      *)
(***************************************************************************)

LEMMA SequenceByElements ==
  ASSUME NEW S, NEW n \in Nat, NEW s,
         s = [i \in 1 .. n |-> s[i]], \A i \in 1 .. n : s[i] \in S
  PROVE  s \in Seq(S) /\ Len(s) = n /\ DOMAIN s = 1 .. n
<1>1. s \in [1 .. n -> S] /\ DOMAIN s = 1 .. n
  OBVIOUS
<1> QED
  BY <1>1

LEMMA AppendByElements ==
  ASSUME NEW S, NEW s \in Seq(S), NEW e \in S, NEW t \in Seq(S),
         Len(t) = Len(s) + 1,
         \A i \in 1 .. Len(s) : t[i] = s[i], t[Len(s) + 1] = e
  PROVE  t = Append(s, e)
<1> DEFINE n == Len(s)
           u == Append(s, e)
<1>1. n \in Nat
  BY LenProperties
<1>2. /\ u \in Seq(S) /\ Len(u) = n + 1 /\ u[n + 1] = e
      /\ \A i \in 1 .. n : u[i] = s[i]
  BY AppendProperties
<1> HIDE DEF u
<1>3. \A i \in 1 .. n + 1 : t[i] = u[i]
  BY <1>1, <1>2
<1>4. t = u
  BY <1>2, <1>3, SeqEqual
<1> QED
  BY <1>4 DEF u

\* Appending keeps a sequence and what it holds.
LEMMA AppendKeeps ==
  ASSUME NEW S, NEW s \in Seq(S), NEW e \in S
  PROVE  /\ Append(s, e) \in Seq(S)
         /\ Len(Append(s, e)) = Len(s) + 1
         /\ DOMAIN Append(s, e) = 1 .. Len(s) + 1
         /\ Append(s, e)[Len(s) + 1] = e
         /\ \A j \in DOMAIN s : Append(s, e)[j] = s[j]
OBVIOUS

\* A piece of a sequence.
LEMMA PieceKeeps ==
  ASSUME NEW S, NEW s \in Seq(S), NEW a \in Nat \ {0}, NEW b \in 0 .. Len(s)
  PROVE  /\ SubSeq(s, a, b) \in Seq(S)
         /\ Len(SubSeq(s, a, b)) = IF a <= b THEN b - a + 1 ELSE 0
         /\ DOMAIN SubSeq(s, a, b) = 1 .. Len(SubSeq(s, a, b))
         /\ \A i \in 1 .. Len(SubSeq(s, a, b)) : SubSeq(s, a, b)[i] = s[a + i - 1]
OBVIOUS

\* The parts of a concatenation.
LEMMA ConcatLength ==
  ASSUME NEW S, NEW s \in Seq(S), NEW t \in Seq(S)
  PROVE  /\ s \o t \in Seq(S) /\ Len(s \o t) = Len(s) + Len(t)
         /\ Len(s) \in Nat /\ Len(t) \in Nat
BY ConcatProperties, LenProperties

\* Where the elements of two sequences are once they are joined.
LEMMA ConcatAt ==
  ASSUME NEW S, NEW s \in Seq(S), NEW t \in Seq(S)
  PROVE  /\ s \o t \in Seq(S) /\ Len(s \o t) = Len(s) + Len(t)
         /\ Len(s) \in Nat /\ Len(t) \in Nat
         /\ \A i \in 1 .. Len(s) : (s \o t)[i] = s[i]
         /\ \A i \in 1 .. Len(t) : (s \o t)[Len(s) + i] = t[i]
<1>1. s \o t \in Seq(S) /\ Len(s \o t) = Len(s) + Len(t) /\ Len(s) \in Nat /\ Len(t) \in Nat
  BY ConcatLength
<1>2. ASSUME NEW i \in 1 .. Len(s)
      PROVE  (s \o t)[i] = s[i]
  <2>1. i \in 1 .. Len(s) + Len(t) /\ i <= Len(s)
    BY <1>1
  <2> QED
    BY <2>1, ConcatProperties
<1>3. ASSUME NEW i \in 1 .. Len(t)
      PROVE  (s \o t)[Len(s) + i] = t[i]
  <2>1. /\ Len(s) + i \in 1 .. Len(s) + Len(t) /\ ~(Len(s) + i <= Len(s))
        /\ (Len(s) + i) - Len(s) = i
    BY <1>1
  <2> QED
    BY <2>1, ConcatProperties
<1> QED
  BY <1>1, <1>2, <1>3

LEMMA ConcatFirst ==
  ASSUME NEW S, NEW s \in Seq(S), NEW t \in Seq(S)
  PROVE  SubSeq(s \o t, 1, Len(s)) = s
<1> DEFINE a == SubSeq(s \o t, 1, Len(s))
<1>1. /\ Len(s) \in Nat
      /\ \A i \in 1 .. Len(s) : (s \o t)[i] = s[i] /\ s[i] \in S
  BY ConcatProperties, LenProperties, ElementOfSeq
<1>2. a \in Seq(S) /\ Len(a) = Len(s) /\ \A i \in 1 .. Len(s) : a[i] = s[i]
  BY <1>1, SubSeqProperties
<1> HIDE DEF a
<1>3. a = s
  BY <1>2, SeqEqual
<1> QED
  BY <1>3 DEF a

LEMMA ConcatSecond ==
  ASSUME NEW S, NEW s \in Seq(S), NEW t \in Seq(S)
  PROVE  SubSeq(s \o t, Len(s) + 1, Len(s) + Len(t)) = t
<1> DEFINE u == s \o t
           m == Len(s)
           n == Len(t)
           a == SubSeq(u, m + 1, m + n)
<1>1. m \in Nat /\ n \in Nat
  BY LenProperties
<1>2. ASSUME NEW i \in 1 .. n PROVE u[m + i] = t[i] /\ t[i] \in S
  <2>1. m + i \in 1 .. m + n /\ ~ (m + i <= m) /\ (m + i) - m = i
    BY <1>1
  <2> QED
    BY <2>1, ConcatProperties, ElementOfSeq
<1> HIDE DEF u
<1>3. ASSUME NEW j \in m + 1 .. m + n PROVE u[j] \in S
  <2>1. j - m \in 1 .. n /\ m + (j - m) = j
    BY <1>1
  <2> QED
    BY <1>2, <2>1
<1>4. /\ a \in Seq(S) /\ Len(a) = IF m + 1 <= m + n THEN (m + n) - (m + 1) + 1 ELSE 0
      /\ \A i \in 1 .. (m + n) - (m + 1) + 1 : a[i] = u[(m + 1) + i - 1]
  <2>1. m + 1 \in Int /\ m + n \in Int
    BY <1>1
  <2> QED
    BY <1>3, <2>1, SubSeqProperties
<1> HIDE DEF a
<1>5. Len(a) = n
  BY <1>1, <1>4
<1>6. ASSUME NEW i \in 1 .. n PROVE a[i] = t[i]
  <2>1. i \in 1 .. (m + n) - (m + 1) + 1 /\ (m + 1) + i - 1 = m + i
    BY <1>1
  <2> QED
    BY <1>2, <1>4, <2>1
<1>7. a = t
  BY <1>4, <1>5, <1>6, SeqEqual
<1> QED
  BY <1>7 DEF a, u

LEMMA ConcatWithin ==
  ASSUME NEW S, NEW s \in Seq(S), NEW t \in Seq(S),
         NEW j \in Nat \ {0}, NEW k \in Nat, k <= Len(s)
  PROVE  SubSeq(s \o t, j, k) = SubSeq(s, j, k)
<1>1. CASE j <= k
  <2>1. j \in 1 .. Len(s) /\ k \in 1 .. Len(s)
    BY <1>1, LenProperties
  <2> QED
    BY <2>1, SubSeqOfConcat1
<1>2. CASE k < j
  BY <1>2, SubSeqEmpty
<1> QED
  BY <1>1, <1>2

(***************************************************************************)
(* FlattenSeq: the concatenation of a sequence of sequences.               *)
(***************************************************************************)

\* FlattenSeq computes the last of the partial concatenations.
LEMMA FlattenDetermined ==
  ASSUME NEW S, NEW ss \in Seq(Seq(S)), NEW f \in [0 .. Len(ss) -> Seq(S)],
         f[0] = <<>>, \A i \in 1 .. Len(ss) : f[i] = f[i - 1] \o ss[i]
  PROVE  FlattenSeq(ss) = f[Len(ss)]
<1> DEFINE n == Len(ss)
           Eq(g) == g = [i \in 1 .. n |-> IF i = 1 THEN ss[i] ELSE g[i - 1] \o ss[i]]
           g == CHOOSE g : Eq(g)
           h == [i \in 1 .. n |-> f[i]]
<1>0. n \in Nat /\ \A i \in 1 .. n : ss[i] \in Seq(S)
  BY LenProperties, ElementOfSeq
<1>1. CASE n = 0
  <2>1. ss = <<>>
    BY <1>1
  <2> QED
    BY <2>1, <1>1 DEF FlattenSeq
<1>2. CASE n # 0
  <2>1. n \in 1 .. n
    BY <1>0, <1>2
  <2>2. FlattenSeq(ss) = g[n]
    BY <1>2 DEF FlattenSeq
  <2>3. Eq(h)
    <3>1. ASSUME NEW i \in 1 .. n
          PROVE  h[i] = IF i = 1 THEN ss[i] ELSE h[i - 1] \o ss[i]
      <4>1. CASE i = 1
        <5>0. 1 \in 1 .. n /\ 1 - 1 = 0
          BY <4>1
        <5>1. f[1] = <<>> \o ss[1] /\ ss[1] \in Seq(S)
          BY <5>0, <1>0
        <5>2. f[1] = ss[1]
          BY <5>1, ConcatEmptySeq
        <5> QED
          BY <4>1, <5>2
      <4>2. CASE i # 1
        <5>1. i - 1 \in 1 .. n
          BY <4>2, <1>0
        <5> QED
          BY <4>2, <5>1
      <4> QED
        BY <4>1, <4>2
    <3> QED
      BY <3>1
  <2>4. Eq(g)
    <3> HIDE DEF h, Eq
    <3> QED
      BY <2>3
  <2>5. \A i \in 1 .. n : g[i] = IF i = 1 THEN ss[i] ELSE g[i - 1] \o ss[i]
    <3> HIDE DEF g
    <3> QED
      BY <2>4
  <2> HIDE DEF g, h, Eq
  <2> DEFINE T == {i \in Nat : i >= 1 => g[i] = f[i]}
  <2>6. 0 \in T
    OBVIOUS
  <2>7. ASSUME NEW i \in 0 .. n - 1, i \in T PROVE i + 1 \in T
    <3>1. i + 1 \in 1 .. n /\ i + 1 \in Nat /\ (i + 1) - 1 = i
      BY <1>0
    <3>2. f[i + 1] = f[i] \o ss[i + 1]
      BY <3>1
    <3>3. CASE i = 0
      <4>0. i = 0 /\ 1 = i + 1
        BY <3>3
      <4>. 1 \in 1 .. n /\ f[1] = f[0] \o ss[1]
        BY <3>1, <3>2, <4>0
      <4>1. g[1] = ss[1] /\ f[1] = <<>> \o ss[1] /\ ss[1] \in Seq(S)
        BY <2>5, <1>0
      <4>2. g[1] = f[1]
        BY <4>1, ConcatEmptySeq
      <4> QED
        BY <3>3, <4>2
    <3>4. CASE i # 0
      <4>1. g[i] = f[i]
        BY <2>7, <3>4, <1>0
      <4>0. i + 1 # 1
        BY <3>4
      <4>2. g[i + 1] = g[i] \o ss[i + 1]
        BY <3>1, <4>0, <2>5
      <4> QED
        BY <3>1, <3>2, <4>1, <4>2
    <3> QED
      BY <3>3, <3>4
  <2>8. n \in T
    <3> HIDE DEF T
    <3>1. 0 .. n \subseteq T
      BY <2>6, <2>7, <1>0, BoundedInduction
    <3> QED
      BY <3>1, <1>0
  <2> QED
    BY <2>1, <2>2, <2>8
<1> QED
  BY <1>1, <1>2

\* There are such partial concatenations.
LEMMA FlattenPartial ==
  ASSUME NEW S, NEW ss \in Seq(Seq(S))
  PROVE  \E f \in [0 .. Len(ss) -> Seq(S)] :
           /\ f[0] = <<>>
           /\ \A i \in 1 .. Len(ss) : f[i] = f[i - 1] \o ss[i]
           /\ FlattenSeq(ss) = f[Len(ss)]
<1> DEFINE n == Len(ss)
           A == Seq(S)
           D == [i \in 1 .. n |-> [s \in A |-> s \o ss[i]]]
<1>0. n \in Nat
  BY LenProperties
<1>. \A i \in 1 .. n : ss[i] \in A
  BY LenProperties, ElementOfSeq
<1>1. <<>> \in A
  OBVIOUS
<1>2. D \in [1 .. n -> [A -> A]]
  BY ConcatProperties
<1>3. PICK f \in [0 .. n -> A] : f[0] = <<>> /\ \A i \in 1 .. n : f[i] = D[i][f[i - 1]]
  <2>1. PICK f \in [0 .. n -> A] : Follows(f, n, <<>>, D)
    <3> HIDE DEF D, A, n
    <3> QED
      BY <1>0, <1>1, <1>2, Recursion
  <2> QED
    BY <2>1 DEF Follows
<1>4. ASSUME NEW i \in 1 .. n PROVE f[i] = f[i - 1] \o ss[i]
  <2>1. i - 1 \in 0 .. n
    BY <1>0
  <2>2. f[i - 1] \in A
    BY <2>1
  <2> QED
    BY <1>3, <2>2
<1>5. FlattenSeq(ss) = f[n]
  BY <1>3, <1>4, FlattenDetermined
<1> QED
  BY <1>3, <1>4, <1>5

\* What FlattenSeq returns: a sequence, built from left to right.
LEMMA FlattenType ==
  ASSUME NEW S, NEW ss \in Seq(Seq(S))
  PROVE  FlattenSeq(ss) \in Seq(S)
<1>1. Len(ss) \in 0 .. Len(ss)
  BY LenProperties
<1>2. PICK f \in [0 .. Len(ss) -> Seq(S)] : FlattenSeq(ss) = f[Len(ss)]
  BY FlattenPartial, Zenon
<1> QED
  BY <1>1, <1>2

LEMMA FlattenEmpty == FlattenSeq(<<>>) = <<>>
BY DEF FlattenSeq

LEMMA FlattenAppend ==
  ASSUME NEW S, NEW ss \in Seq(Seq(S)), NEW s \in Seq(S)
  PROVE  FlattenSeq(Append(ss, s)) = FlattenSeq(ss) \o s
<1> DEFINE n  == Len(ss)
           tt == Append(ss, s)
<1>0. tt \in Seq(Seq(S)) /\ n \in Nat
  BY AppendProperties, LenProperties
<1>1. /\ Len(tt) = n + 1
      /\ tt[n + 1] = s /\ \A i \in 1 .. n : tt[i] = ss[i]
  BY AppendProperties, LenProperties
<1> HIDE DEF tt
<1>2. PICK f \in [0 .. Len(tt) -> Seq(S)] :
           /\ f[0] = <<>>
           /\ \A i \in 1 .. Len(tt) : f[i] = f[i - 1] \o tt[i]
           /\ FlattenSeq(tt) = f[Len(tt)]
  BY <1>0, FlattenPartial, Zenon
<1> DEFINE g == [i \in 0 .. n |-> f[i]]
<1>3. /\ g \in [0 .. n -> Seq(S)] /\ g[0] = <<>>
      /\ \A i \in 1 .. n : g[i] = g[i - 1] \o ss[i]
  <2>1. ASSUME NEW i \in 1 .. n PROVE g[i] = g[i - 1] \o ss[i]
    <3>1. i \in 1 .. Len(tt) /\ i \in 0 .. n /\ i - 1 \in 0 .. n
      BY <1>0, <1>1
    <3>2. f[i] = f[i - 1] \o tt[i] /\ tt[i] = ss[i]
      BY <1>1, <1>2, <3>1
    <3> QED
      BY <3>1, <3>2
  <2>2. \A i \in 0 .. n : i \in 0 .. Len(tt)
    BY <1>0, <1>1
  <2>3. g \in [0 .. n -> Seq(S)]
    BY <1>2, <2>2
  <2>4. g[0] = <<>>
    BY <1>0, <1>2
  <2> QED
    BY <2>1, <2>3, <2>4
<1>4. g[n] = f[n]
  BY <1>0
<1> HIDE DEF g
<1>5. FlattenSeq(ss) = g[n]
  BY <1>3, FlattenDetermined
<1>6. n + 1 \in 1 .. n + 1 /\ (n + 1) - 1 = n
  BY <1>0
<1>7. f[n + 1] = f[n] \o tt[n + 1]
  BY <1>1, <1>2, <1>6
<1> QED
  BY <1>1, <1>2, <1>4, <1>5, <1>7 DEF tt

LEMMA FlattenOne ==
  ASSUME NEW S, NEW s \in Seq(S)
  PROVE  FlattenSeq(<<s>>) = s
<1>1. <<s>> = Append(<<>>, s) /\ <<>> \in Seq(Seq(S))
  OBVIOUS
<1>2. FlattenSeq(<<s>>) = <<>> \o s
  BY <1>1, FlattenAppend, FlattenEmpty
<1> QED
  BY <1>2, ConcatEmptySeq

\* Sequences and concatenation under names of their own, which hide from the
\* provers what they are, and how brackets move.
ListsOf(S) == Seq(S)
Cat(a, b) == a \o b

LEMMA Associate ==
  \A S : \A x, y, z \in ListsOf(S) : Cat(Cat(x, y), z) = Cat(x, Cat(y, z))
<1> SUFFICES ASSUME NEW S, NEW x \in Seq(S), NEW y \in Seq(S), NEW z \in Seq(S)
             PROVE  (x \o y) \o z = x \o (y \o z)
  BY DEF ListsOf, Cat
<1> QED
  BY ConcatAssociative, SMTT(30)

LEMMA FlattenConcat ==
  ASSUME NEW S, NEW ss \in Seq(Seq(S)), NEW tt \in Seq(Seq(S))
  PROVE  FlattenSeq(ss \o tt) = FlattenSeq(ss) \o FlattenSeq(tt)
<1> DEFINE P == {uu \in Seq(Seq(S)) :
                   FlattenSeq(ss \o uu) = FlattenSeq(ss) \o FlattenSeq(uu)}
<1>1. <<>> \in P
  <2>1. ss \o <<>> = ss /\ FlattenSeq(ss) \in Seq(S)
    BY ConcatEmptySeq, FlattenType
  <2>2. FlattenSeq(ss) \o <<>> = FlattenSeq(ss)
    BY <2>1, ConcatEmptySeq
  <2> QED
    BY <2>1, <2>2, FlattenEmpty
<1>2. ASSUME NEW uu \in Seq(Seq(S)), NEW s \in Seq(S), uu \in P
      PROVE  Append(uu, s) \in P
  <2> DEFINE a == FlattenSeq(ss)
             b == FlattenSeq(uu)
  <2>1. a \in Seq(S) /\ b \in Seq(S) /\ ss \o uu \in Seq(Seq(S))
    BY FlattenType, ConcatProperties
  <2>2. ss \o Append(uu, s) = Append(ss \o uu, s)
    OBVIOUS
  <2>3. FlattenSeq(ss \o Append(uu, s)) = (a \o b) \o s
    BY <1>2, <2>1, <2>2, FlattenAppend
  <2>4. FlattenSeq(Append(uu, s)) = b \o s
    BY FlattenAppend
  <2> HIDE DEF a, b
  <2>5. (a \o b) \o s = a \o (b \o s)
    <3>1. a \in ListsOf(S) /\ b \in ListsOf(S) /\ s \in ListsOf(S)
      BY <2>1 DEF ListsOf
    <3>2. Cat(Cat(a, b), s) = Cat(a, Cat(b, s))
      BY ONLY <3>1, Associate
    <3> QED
      BY ONLY <3>2, Zenon DEF Cat
  <2>6. Append(uu, s) \in Seq(Seq(S))
    OBVIOUS
  <2> QED
    BY <2>3, <2>4, <2>5, <2>6 DEF a, b
<1>3. Seq(Seq(S)) \subseteq P
  <2> HIDE DEF P
  <2> QED
    BY <1>1, <1>2, AppendInduction
<1> QED
  BY <1>3

\* The first sequence comes first.
LEMMA FlattenHead ==
  ASSUME NEW S, NEW ss \in Seq(Seq(S)), ss # <<>>
  PROVE  FlattenSeq(ss) = Head(ss) \o FlattenSeq(Tail(ss))
<1>1. /\ Head(ss) \in Seq(S) /\ Tail(ss) \in Seq(Seq(S))
      /\ ss = <<Head(ss)>> \o Tail(ss)
  OBVIOUS
<1>2. <<Head(ss)>> \in Seq(Seq(S))
  BY <1>1
<1>3. FlattenSeq(ss) = FlattenSeq(<<Head(ss)>>) \o FlattenSeq(Tail(ss))
  BY <1>1, <1>2, FlattenConcat
<1> QED
  BY <1>1, <1>3, FlattenOne

(***************************************************************************)
(* Positions: the first one with an element, inserting and removing.       *)
(***************************************************************************)

\* The first position of a sequence that passes a test, the least of a set.
LEMMA MinOfNumbers ==
  ASSUME NEW n \in Nat, NEW s \in SUBSET (1 .. n), s # {}
  PROVE  Min(s) \in s /\ \A x \in s : Min(s) <= x
<1> DEFINE T == {k \in Nat : \A y \in s : y > k}
<1>0. \A y \in s : y \in 1 .. n
  OBVIOUS
<1>1. \E x \in s : \A y \in s : x <= y
  <2> SUFFICES ASSUME \A x \in s : \E y \in s : y < x
               PROVE  FALSE
    BY <1>0
  <2>1. 0 \in T
    BY <1>0
  <2>2. \A k \in Nat : k \in T => k + 1 \in T
    <3> SUFFICES ASSUME NEW k \in Nat, k \in T, NEW y \in s, ~ (y > k + 1)
                 PROVE  FALSE
      BY <1>0
    <3>1. y = k + 1
      BY <1>0
    <3> QED
      BY <1>0, <3>1
  <2>3. Nat \subseteq T
    <3> HIDE DEF T
    <3> QED
      BY <2>1, <2>2, NumberInduction
  <2>4. PICK y \in s : TRUE
    OBVIOUS
  <2> QED
    BY <1>0, <2>3, <2>4
<1> QED
  BY <1>1 DEF Min

\* pull_until_end_of_item.
Position(s, d) == SelectInSeq(s, LAMBDA x : x = d)

\* Where d is first, or that it is not there.
LEMMA PositionFound ==
  ASSUME NEW S, NEW s \in Seq(S), NEW d
  PROVE  \/ /\ Position(s, d) = 0
            /\ \A i \in 1 .. Len(s) : s[i] # d
         \/ /\ Position(s, d) \in 1 .. Len(s) /\ s[Position(s, d)] = d
            /\ \A i \in 1 .. Position(s, d) - 1 : s[i] # d
<1> DEFINE I == {i \in 1 .. Len(s) : s[i] = d}
<1>1. Len(s) \in Nat /\ I \in SUBSET (1 .. Len(s))
  BY LenProperties
<1>2. Position(s, d) = IF I # {} THEN Min(I) ELSE 0
  BY DEF Position, SelectInSeq
<1>3. CASE I = {}
  BY <1>2, <1>3
<1>4. CASE I # {}
  <2>1. Min(I) \in I /\ \A x \in I : Min(I) <= x
    <3> HIDE DEF I
    <3> QED
      BY <1>1, <1>4, MinOfNumbers
  <2>2. Position(s, d) = Min(I)
    BY <1>2, <1>4
  <2>3. Position(s, d) \in 1 .. Len(s) /\ s[Position(s, d)] = d
    BY <2>1, <2>2
  <2>4. ASSUME NEW i \in 1 .. Position(s, d) - 1, s[i] = d
        PROVE  FALSE
    <3>1. i \in 1 .. Len(s) /\ i < Position(s, d)
      BY <1>1, <2>3
    <3>2. i \in I
      BY <2>4, <3>1
    <3> HIDE DEF I
    <3> QED
      BY <1>1, <2>1, <2>2, <2>3, <3>1, <3>2
  <2> QED
    BY <2>3, <2>4
<1> QED
  BY <1>3, <1>4

\* A sequence is its first k elements and the rest.
LEMMA SplitSeq ==
  ASSUME NEW S, NEW b \in Seq(S), NEW k \in 0 .. Len(b)
  PROVE  b = SubSeq(b, 1, k) \o SubSeq(b, k + 1, Len(b))
<1> DEFINE x == SubSeq(b, 1, k)
           y == SubSeq(b, k + 1, Len(b))
           n == Len(b)
<1>0. n \in Nat /\ k \in Nat
  BY LenProperties
<1>1. x \in Seq(S) /\ Len(x) = k /\ \A i \in 1 .. k : x[i] = b[i]
  <2>1. 1 \in Nat \ {0}
    OBVIOUS
  <2>2. /\ x \in Seq(S) /\ Len(x) = IF 1 <= k THEN k - 1 + 1 ELSE 0
        /\ \A i \in 1 .. Len(x) : x[i] = b[1 + i - 1]
    BY <2>1, PieceKeeps
  <2> HIDE DEF x
  <2>3. Len(x) = k
    BY <1>0, <2>2
  <2> QED
    BY <1>0, <2>2, <2>3
<1>2. y \in Seq(S) /\ Len(y) = n - k /\ \A i \in 1 .. n - k : y[i] = b[k + i]
  <2>1. k + 1 \in Nat \ {0} /\ n \in 0 .. Len(b)
    BY <1>0
  <2>2. /\ y \in Seq(S) /\ Len(y) = IF k + 1 <= n THEN n - (k + 1) + 1 ELSE 0
        /\ \A i \in 1 .. Len(y) : y[i] = b[(k + 1) + i - 1]
    <3> HIDE DEF n
    <3>1. /\ SubSeq(b, k + 1, n) \in Seq(S)
          /\ Len(SubSeq(b, k + 1, n)) = IF k + 1 <= n THEN n - (k + 1) + 1 ELSE 0
          /\ \A i \in 1 .. Len(SubSeq(b, k + 1, n)) : SubSeq(b, k + 1, n)[i] = b[(k + 1) + i - 1]
      BY <2>1, PieceKeeps
    <3> QED
      BY <3>1 DEF n
  <2> HIDE DEF y, n
  <2>0. k <= n
    BY DEF n
  <2>3. Len(y) = n - k
    BY <1>0, <2>0, <2>2
  <2>4. \A i \in 1 .. n - k : (k + 1) + i - 1 = k + i
    BY <1>0
  <2> QED
    BY <2>2, <2>3, <2>4
<1> HIDE DEF x, y
<1> DEFINE z == x \o y
<1>3. z \in Seq(S) /\ Len(z) = k + (n - k) /\ \A i \in 1 .. k + (n - k) : z[i] = IF i <= k THEN x[i] ELSE y[i - k]
  <2>1. x \in Seq(S) /\ y \in Seq(S)
    BY <1>1, <1>2
  <2>2. /\ z \in Seq(S) /\ Len(z) = Len(x) + Len(y)
        /\ \A i \in 1 .. Len(x) + Len(y) : z[i] = IF i <= Len(x) THEN x[i] ELSE y[i - Len(x)]
    BY <2>1, ConcatProperties
  <2> HIDE DEF z, n
  <2> QED
    BY <1>1, <1>2, <2>2
<1>4. k + (n - k) = n
  BY <1>0
<1> HIDE DEF z, n
<1>5. ASSUME NEW i \in 1 .. n
      PROVE  b[i] = z[i]
  <2>1. CASE i <= k
    <3>1. i \in 1 .. k
      BY <1>0, <2>1
    <3> QED
      BY <1>1, <1>3, <1>4, <2>1, <3>1
  <2>2. CASE ~ (i <= k)
    <3>1. i - k \in 1 .. n - k /\ k + (i - k) = i
      BY <1>0, <2>2
    <3> QED
      BY <1>2, <1>3, <1>4, <2>2, <3>1
  <2> QED
    BY <2>1, <2>2
<1>6. b = z
  BY <1>3, <1>4, <1>5, SeqEqual DEF n
<1> QED
  BY <1>6 DEF x, y, z

\* What InsertAt leaves in place and what it moves up.
LEMMA InsertKeeps ==
  ASSUME NEW S, NEW s \in Seq(S), NEW e \in S, NEW p \in 1 .. Len(s) + 1
  PROVE  /\ InsertAt(s, p, e) \in Seq(S) /\ Len(InsertAt(s, p, e)) = Len(s) + 1
         /\ InsertAt(s, p, e)[p] = e
         /\ \A i \in 1 .. p - 1 : InsertAt(s, p, e)[i] = s[i]
         /\ \A i \in p .. Len(s) : InsertAt(s, p, e)[i + 1] = s[i]
<1> DEFINE n == Len(s)
           a == SubSeq(s, 1, p - 1)
           b == <<e>>
           c == SubSeq(s, p, n)
           ab == a \o b
           r == ab \o c
<1>0. n \in Nat /\ p \in Nat \ {0} /\ p <= n + 1
  BY LenProperties
<1>1. /\ a \in Seq(S) /\ Len(a) = p - 1 /\ \A i \in 1 .. p - 1 : a[i] = s[i]
  <2>1. 1 \in Nat \ {0} /\ p - 1 \in 0 .. n
    BY <1>0
  <2>2. /\ a \in Seq(S) /\ Len(a) = (IF 1 <= p - 1 THEN p - 1 - 1 + 1 ELSE 0)
        /\ \A i \in 1 .. Len(a) : a[i] = s[1 + i - 1]
    BY <2>1, PieceKeeps
  <2> HIDE DEF a
  <2>3. Len(a) = p - 1
    BY <1>0, <2>2
  <2>4. \A i \in 1 .. p - 1 : 1 + i - 1 = i
    BY <1>0
  <2> QED
    BY <2>2, <2>3, <2>4
<1>2. b \in Seq(S) /\ Len(b) = 1 /\ b[1] = e
  OBVIOUS
<1>3. /\ c \in Seq(S) /\ Len(c) = n - p + 1 /\ \A i \in 1 .. n - p + 1 : c[i] = s[p + i - 1]
  <2>1. n \in 0 .. n
    BY <1>0
  <2>2. /\ c \in Seq(S) /\ Len(c) = (IF p <= n THEN n - p + 1 ELSE 0)
        /\ \A i \in 1 .. Len(c) : c[i] = s[p + i - 1]
    BY <1>0, <2>1, PieceKeeps
  <2> HIDE DEF c
  <2>3. Len(c) = n - p + 1
    BY <1>0, <2>2
  <2> QED
    BY <2>2, <2>3
<1>4. InsertAt(s, p, e) = r
  BY DEF InsertAt
<1> HIDE DEF a, b, c, n
<1>5. /\ ab \in Seq(S) /\ Len(ab) = p /\ ab[p] = e
      /\ \A i \in 1 .. p - 1 : ab[i] = s[i]
  <2>1. /\ ab \in Seq(S) /\ Len(ab) = Len(a) + Len(b)
        /\ \A i \in 1 .. Len(a) + Len(b) :
             ab[i] = IF i <= Len(a) THEN a[i] ELSE b[i - Len(a)]
    BY <1>1, <1>2, ConcatProperties
  <2> HIDE DEF ab
  <2>2. Len(a) + Len(b) = p
    BY <1>0, <1>1, <1>2
  <2>3. p \in 1 .. p /\ ~ (p <= p - 1) /\ p - (p - 1) = 1
    BY <1>0
  <2>4. ab[p] = e
    BY <1>1, <1>2, <2>1, <2>2, <2>3
  <2>5. ASSUME NEW i \in 1 .. p - 1 PROVE ab[i] = s[i]
    <3>1. i \in 1 .. p /\ i <= p - 1
      BY <1>0
    <3> QED
      BY <1>1, <2>1, <2>2, <3>1
  <2> QED
    BY <2>1, <2>2, <2>4, <2>5
<1> HIDE DEF ab
<1>6. /\ r \in Seq(S) /\ Len(r) = n + 1
      /\ \A i \in 1 .. n + 1 : r[i] = IF i <= p THEN ab[i] ELSE c[i - p]
  <2>1. /\ r \in Seq(S) /\ Len(r) = Len(ab) + Len(c)
        /\ \A i \in 1 .. Len(ab) + Len(c) :
             r[i] = IF i <= Len(ab) THEN ab[i] ELSE c[i - Len(ab)]
    BY <1>3, <1>5, ConcatProperties
  <2> HIDE DEF r
  <2>2. Len(ab) + Len(c) = n + 1
    BY <1>0, <1>3, <1>5
  <2> QED
    BY <1>5, <2>1, <2>2
<1> HIDE DEF r
<1>7. r[p] = e
  BY <1>0, <1>5, <1>6
<1>8. ASSUME NEW i \in 1 .. p - 1 PROVE r[i] = s[i]
  <2>1. i \in 1 .. n + 1 /\ i <= p
    BY <1>0
  <2> QED
    BY <1>5, <1>6, <2>1
<1>9. ASSUME NEW i \in p .. n PROVE r[i + 1] = s[i]
  <2>1. i + 1 \in 1 .. n + 1 /\ ~ (i + 1 <= p)
    BY <1>0
  <2>2. (i + 1) - p \in 1 .. n - p + 1 /\ p + ((i + 1) - p) - 1 = i
    BY <1>0
  <2>3. r[i + 1] = c[(i + 1) - p]
    BY <1>6, <2>1
  <2> QED
    BY <1>3, <2>2, <2>3
<1> QED
  BY <1>4, <1>6, <1>7, <1>8, <1>9 DEF n

\* What RemoveAt leaves in place and what it moves down.
LEMMA RemoveKeeps ==
  ASSUME NEW S, NEW s \in Seq(S), NEW p \in 1 .. Len(s)
  PROVE  /\ RemoveAt(s, p) \in Seq(S) /\ Len(RemoveAt(s, p)) = Len(s) - 1
         /\ \A i \in 1 .. p - 1 : RemoveAt(s, p)[i] = s[i]
         /\ \A i \in p .. Len(s) - 1 : RemoveAt(s, p)[i] = s[i + 1]
<1> DEFINE n == Len(s)
           a == SubSeq(s, 1, p - 1)
           c == SubSeq(s, p + 1, n)
           r == a \o c
<1>0. n \in Nat /\ p \in Nat \ {0} /\ p <= n
  BY LenProperties
<1>1. /\ a \in Seq(S) /\ Len(a) = p - 1 /\ \A i \in 1 .. p - 1 : a[i] = s[i]
  <2>1. 1 \in Nat \ {0} /\ p - 1 \in 0 .. n
    BY <1>0
  <2>2. /\ a \in Seq(S) /\ Len(a) = (IF 1 <= p - 1 THEN p - 1 - 1 + 1 ELSE 0)
        /\ \A i \in 1 .. Len(a) : a[i] = s[1 + i - 1]
    BY <2>1, PieceKeeps
  <2> HIDE DEF a
  <2>3. Len(a) = p - 1
    BY <1>0, <2>2
  <2>4. \A i \in 1 .. p - 1 : 1 + i - 1 = i
    BY <1>0
  <2> QED
    BY <2>2, <2>3, <2>4
<1>3. /\ c \in Seq(S) /\ Len(c) = n - p /\ \A i \in 1 .. n - p : c[i] = s[p + i]
  <2> DEFINE q == p + 1
  <2>1. n \in 0 .. n /\ q \in Nat \ {0} /\ q <= n + 1 /\ n - q + 1 = n - p
    BY <1>0
  <2> HIDE DEF q
  <2>2. /\ SubSeq(s, q, n) \in Seq(S) /\ Len(SubSeq(s, q, n)) = (IF q <= n THEN n - q + 1 ELSE 0)
        /\ \A i \in 1 .. Len(SubSeq(s, q, n)) : SubSeq(s, q, n)[i] = s[q + i - 1]
    BY <2>1, PieceKeeps
  <2>3. c = SubSeq(s, q, n)
    BY DEF q
  <2> HIDE DEF c
  <2>4. Len(c) = n - p
    BY <1>0, <2>1, <2>2, <2>3
  <2>5. \A i \in 1 .. n - p : q + i - 1 = p + i
    BY <1>0 DEF q
  <2> QED
    BY <2>2, <2>3, <2>4, <2>5
<1>4. RemoveAt(s, p) = r
  BY DEF RemoveAt
<1> HIDE DEF a, c, n
<1>6. /\ r \in Seq(S) /\ Len(r) = n - 1
      /\ \A i \in 1 .. n - 1 : r[i] = IF i <= p - 1 THEN a[i] ELSE c[i - (p - 1)]
  <2>1. /\ r \in Seq(S) /\ Len(r) = Len(a) + Len(c)
        /\ \A i \in 1 .. Len(a) + Len(c) :
             r[i] = IF i <= Len(a) THEN a[i] ELSE c[i - Len(a)]
    BY <1>1, <1>3, ConcatProperties
  <2> HIDE DEF r
  <2>2. Len(a) + Len(c) = n - 1
    BY <1>0, <1>1, <1>3
  <2> QED
    BY <1>1, <2>1, <2>2
<1> HIDE DEF r
<1>8. ASSUME NEW i \in 1 .. p - 1 PROVE r[i] = s[i]
  <2>1. i \in 1 .. n - 1 /\ i <= p - 1
    BY <1>0
  <2> QED
    BY <1>1, <1>6, <2>1
<1>9. ASSUME NEW i \in p .. n - 1 PROVE r[i] = s[i + 1]
  <2>1. i \in 1 .. n - 1 /\ ~ (i <= p - 1)
    BY <1>0
  <2>2. i - (p - 1) \in 1 .. n - p /\ p + (i - (p - 1)) = i + 1
    BY <1>0
  <2>3. r[i] = c[i - (p - 1)]
    BY <1>6, <2>1
  <2> QED
    BY <1>3, <2>2, <2>3
<1> QED
  BY <1>4, <1>6, <1>8, <1>9 DEF n

\* RemoveFirst takes away no other element.
LEMMA RemoveFirstKeeps ==
  ASSUME NEW S, NEW s \in Seq(S), NEW e
  PROVE  RemoveFirst(s, e) \in Seq(S) /\ \A x \in ToSet(s) : x # e => x \in ToSet(RemoveFirst(s, e))
<1> DEFINE n == Len(s)
           I == {i \in 1 .. n : s[i] = e}
           p == SelectInSeq(s, LAMBDA v : v = e)
<1>1. n \in Nat /\ ToSet(s) = {s[i] : i \in 1 .. n}
  BY LenProperties DEF ToSet
<1>2. CASE I = {}
  <2>1. RemoveFirst(s, e) = s
    BY <1>2 DEF RemoveFirst
  <2> QED
    BY <2>1
<1>3. CASE I # {}
  <2>1. p = Min(I)
    BY <1>3 DEF SelectInSeq
  <2>2. Min(I) \in I
    <3>1. I \in SUBSET (1 .. n)
      OBVIOUS
    <3> HIDE DEF I, n
    <3> QED
      BY <1>1, <1>3, <3>1, MinOfNumbers
  <2>3. p \in 1 .. n /\ s[p] = e
    BY <2>1, <2>2
  <2>4. RemoveFirst(s, e) = RemoveAt(s, p)
    BY <1>3 DEF RemoveFirst
  <2> HIDE DEF p, I
  <2> DEFINE r == RemoveAt(s, p)
  <2>5. /\ r \in Seq(S) /\ Len(r) = n - 1
        /\ \A i \in 1 .. p - 1 : r[i] = s[i]
        /\ \A i \in p .. n - 1 : r[i] = s[i + 1]
    BY <2>3, RemoveKeeps
  <2> HIDE DEF r
  <2>6. ASSUME NEW i \in 1 .. n, s[i] # e
        PROVE  \E j \in 1 .. Len(r) : r[j] = s[i]
    <3>1. CASE i < p
      BY <1>1, <2>3, <2>5, <3>1
    <3>2. CASE i > p
      <4>1. i - 1 \in p .. n - 1 /\ i - 1 \in 1 .. Len(r) /\ (i - 1) + 1 = i
        BY <1>1, <2>3, <2>5, <3>2
      <4> QED
        BY <2>5, <4>1
    <3> QED
      BY <1>1, <2>3, <2>6, <3>1, <3>2
  <2>7. ToSet(r) = {r[j] : j \in 1 .. Len(r)}
    BY <2>5, LenProperties DEF ToSet
  <2> HIDE DEF n
  <2> QED
    BY <1>1, <2>4, <2>5, <2>6, <2>7 DEF r
<1> QED
  BY <1>2, <1>3

(***************************************************************************)
(* Folds over the numbers from 1 to n.                                     *)
(***************************************************************************)

\* h is, for every set of numbers up to n, what a fold with the steps D leaves.
Folded(h, n, a, D) ==
  \A s \in SUBSET (1 .. n) : h[s] = IF s = {} THEN a ELSE D[Max(s)][h[s \ {Max(s)}]]

\* The function by which a fold is defined exists.
LEMMA FoldExists ==
  ASSUME NEW n \in Nat, NEW A, NEW a \in A, NEW D \in [1 .. n -> [A -> A]]
  PROVE  \E h \in [SUBSET (1 .. n) -> A] :
           /\ Folded(h, n, a, D)
           /\ \A s \in SUBSET (1 .. n) :
                s # {} => Max(s) \in 1 .. n /\ h[s \ {Max(s)}] \in A
<1> DEFINE S == 1 .. n
           c == [s \in SUBSET S |-> Max(s)]
<1>1. IsFiniteSet(S)
  BY FS_Interval
<1>2. \A s \in SUBSET S : s # {} => c[s] \in s
  BY MaxOfNumbers
<1>3. \A s \in SUBSET S : c[s] = Max(s)
  OBVIOUS
<1>4. D \in [S -> [A -> A]]
  OBVIOUS
<1> HIDE DEF c, S
<1>5. PICK h \in [SUBSET S -> A] : TakesOut(h, S, c, a, D)
  <2>1. IsFiniteSet(S) /\ a \in A /\ D \in [S -> [A -> A]]
    BY <1>1, <1>4
  <2> QED
    BY ONLY <1>2, <2>1, SubsetRecursion
<1>6. ASSUME NEW s \in SUBSET S
      PROVE  h[s] = IF s = {} THEN a ELSE D[Max(s)][h[s \ {Max(s)}]]
  BY <1>3, <1>5 DEF TakesOut
<1>7. \A s \in SUBSET S : s # {} => Max(s) \in S /\ h[s \ {Max(s)}] \in A
  BY <1>2, <1>3
<1>8. Folded(h, n, a, D)
  BY <1>6 DEF Folded, S
<1> QED
  BY <1>7, <1>8 DEF S

\* From 1 .. j - 1 to 1 .. j the function it makes the step j.
Stepwise(it, n, A, a, D) ==
  /\ it[{}] = a
  /\ \A j \in 1 .. n : it[1 .. j - 1] \in A => it[1 .. j] = D[j][it[1 .. j - 1]]

\* g follows the steps D from a to what it has for 1 .. n.
LeadsTo(g, n, a, D, it) == Follows(g, n, a, D) /\ g[n] = it[1 .. n]

\* Its values for 1 .. j follow the steps one by one.
LEMMA FoldFollows ==
  ASSUME NEW n \in Nat, NEW A, NEW a \in A, NEW D \in [1 .. n -> [A -> A]], NEW it,
         Stepwise(it, n, A, a, D)
  PROVE  \E g \in [0 .. n -> A] : LeadsTo(g, n, a, D, it)
<1> USE DEF Stepwise
<1>1. PICK g \in [0 .. n -> A] : Follows(g, n, a, D)
  BY Recursion
<1> DEFINE T == {j \in 0 .. n : g[j] = it[1 .. j]}
<1>2. 0 \in T
  <2>1. 1 .. 0 = {}
    OBVIOUS
  <2> QED
    BY <1>1, <2>1 DEF Follows
<1>3. ASSUME NEW j \in 0 .. n - 1, j \in T
      PROVE  j + 1 \in T
  <2>1. j + 1 \in 1 .. n /\ (j + 1) - 1 = j /\ j + 1 \in 0 .. n /\ j \in 0 .. n
    OBVIOUS
  <2>2. g[j + 1] = D[j + 1][g[j]]
    BY <1>1, <2>1 DEF Follows
  <2>3. g[j] = it[1 .. j] /\ g[j] \in A
    BY <1>3, <2>1
  <2>4. it[1 .. j + 1] = D[j + 1][it[1 .. j]]
    BY <2>1, <2>3
  <2> QED
    BY <2>1, <2>2, <2>3, <2>4
<1> HIDE DEF T
<1>4. 0 .. n \subseteq T
  BY <1>2, <1>3, BoundedInduction
<1>5. n \in T
  BY <1>4
<1> QED
  BY <1>1, <1>5 DEF T, LeadsTo

\* The interval without its greatest number.
LEMMA IntervalPart ==
  ASSUME NEW n \in Nat, NEW j \in 1 .. n
  PROVE  /\ 1 .. j \in SUBSET (1 .. n) /\ 1 .. j # {}
         /\ Max(1 .. j) = j /\ (1 .. j) \ {j} = 1 .. j - 1
<1>1. j - 1 \in Nat /\ (j - 1) + 1 = j
  OBVIOUS
<1>2. Max(1 .. (j - 1) + 1) = (j - 1) + 1 /\ (1 .. (j - 1) + 1) \ {(j - 1) + 1} = 1 .. j - 1
  BY <1>1, MaxOfInterval
<1>3. j \in 1 .. j /\ \A x \in 1 .. j : x \in 1 .. n
  OBVIOUS
<1> QED
  BY <1>1, <1>2, <1>3

=============================================================================

----------------------------- MODULE NetLinkProofs --------------------------
(***************************************************************************)
(* Theorems about the frames of Escape, for every vector of bytes, and     *)
(* about the link of NetLink, for every set of payloads and every bound.   *)
(***************************************************************************)
EXTENDS NetLink, SequenceLemmas

Bytes == 0 .. 255

(***************************************************************************)
(* The insertion and the erasing loop, byte by byte.                       *)
(***************************************************************************)

\* b begins a run of escape characters behind v.
Starts(v, b) == b = EscapeChar /\ (v = <<>> \/ v[Len(v)] # EscapeChar)

Inserted(v) == [i \in DOMAIN v |->
                  IF RunStart(v, i) THEN <<EscapeChar, v[i]>> ELSE <<v[i]>>]
Erased(p)   == [i \in DOMAIN p |-> IF RunStart(p, i) THEN <<>> ELSE <<p[i]>>]

\* Whether a run begins at a position is not changed by what follows.
LEMMA RunStartAppend ==
  ASSUME NEW v \in Seq(Bytes), NEW b \in Bytes
  PROVE  LET w == Append(v, b)
         IN  /\ DOMAIN w = 1 .. Len(v) + 1
             /\ w[Len(v) + 1] = b
             /\ RunStart(w, Len(v) + 1) <=> Starts(v, b)
             /\ \A i \in 1 .. Len(v) : w[i] = v[i] /\ (RunStart(w, i) <=> RunStart(v, i))
<1> DEFINE w == Append(v, b)
           n == Len(v)
<1>1. /\ n \in Nat /\ DOMAIN w = 1 .. n + 1 /\ w[n + 1] = b
      /\ \A i \in 1 .. n : w[i] = v[i]
  BY AppendProperties, LenProperties
<1> HIDE DEF w
<1>2. RunStart(w, n + 1) <=> Starts(v, b)
  <2>1. CASE v = <<>>
    <3>1. n = 0
      BY <2>1
    <3> QED
      BY <1>1, <2>1, <3>1 DEF RunStart, Starts
  <2>2. CASE v # <<>>
    <3>1. n \in 1 .. n /\ n + 1 # 1 /\ (n + 1) - 1 = n
      BY <1>1, <2>2, EmptySeq
    <3> QED
      BY <1>1, <2>2, <3>1 DEF RunStart, Starts
  <2> QED
    BY <2>1, <2>2
<1>3. ASSUME NEW i \in 1 .. n PROVE RunStart(w, i) <=> RunStart(v, i)
  <2>1. CASE i = 1
    BY <1>1, <2>1 DEF RunStart
  <2>2. CASE i # 1
    <3>1. i - 1 \in 1 .. n
      BY <1>1, <2>2
    <3> QED
      BY <1>1, <2>2, <3>1 DEF RunStart
  <2> QED
    BY <2>1, <2>2
<1> QED
  BY <1>1, <1>2, <1>3 DEF w

LEMMA InsertedType ==
  ASSUME NEW v \in Seq(Bytes)
  PROVE  Inserted(v) \in Seq(Seq(Bytes)) /\ Len(Inserted(v)) = Len(v)
<1> DEFINE n == Len(v)
<1>1. n \in Nat /\ DOMAIN v = 1 .. n /\ \A i \in 1 .. n : v[i] \in Bytes
  BY LenProperties, ElementOfSeq
<1>2. Inserted(v) = [i \in 1 .. n |-> Inserted(v)[i]]
  BY <1>1 DEF Inserted
<1>3. ASSUME NEW i \in 1 .. n PROVE Inserted(v)[i] \in Seq(Bytes)
  <2>1. <<v[i]>> \in Seq(Bytes) /\ <<EscapeChar, v[i]>> \in Seq(Bytes)
    BY <1>1, EscapeAssumption DEF Bytes
  <2>2. Inserted(v)[i] \in {<<v[i]>>, <<EscapeChar, v[i]>>}
    BY <1>1 DEF Inserted
  <2> QED
    BY <2>1, <2>2
<1> QED
  BY <1>1, <1>2, <1>3, SequenceByElements

LEMMA EscapedAppend ==
  ASSUME NEW v \in Seq(Bytes), NEW b \in Bytes
  PROVE  /\ Escaped(v) \in Seq(Bytes)
         /\ Escaped(Append(v, b)) =
              Escaped(v) \o (IF Starts(v, b) THEN <<EscapeChar, b>> ELSE <<b>>)
<1> DEFINE w == Append(v, b)
           n == Len(v)
           e == IF Starts(v, b) THEN <<EscapeChar, b>> ELSE <<b>>
<1>1. n \in Nat /\ DOMAIN v = 1 .. n /\ \A i \in 1 .. n : v[i] \in Bytes
  BY LenProperties, ElementOfSeq
<1>2. Inserted(v) \in Seq(Seq(Bytes)) /\ Len(Inserted(v)) = n
  BY InsertedType
<1>3. e \in Seq(Bytes)
  <2>1. <<b>> \in Seq(Bytes) /\ <<EscapeChar, b>> \in Seq(Bytes)
    BY EscapeAssumption DEF Bytes
  <2> QED
    BY <2>1
<1>4. Inserted(w) = Append(Inserted(v), e)
  <2>1. DOMAIN w = 1 .. n + 1 /\ DOMAIN Inserted(w) = 1 .. n + 1
    BY RunStartAppend DEF Inserted
  <2>2. \A i \in 1 .. n : Inserted(w)[i] = Inserted(v)[i]
    BY <1>1, <2>1, RunStartAppend DEF Inserted
  <2>3. Inserted(w)[n + 1] = e
    <3>1. w[n + 1] = b /\ n + 1 \in DOMAIN w /\ (RunStart(w, n + 1) <=> Starts(v, b))
      BY <1>1, RunStartAppend
    <3> HIDE DEF w
    <3> QED
      BY <3>1 DEF Inserted
  <2>4. w \in Seq(Bytes) /\ Len(w) = n + 1
    BY <1>1, AppendProperties
  <2> DEFINE s == Inserted(v)
             u == Inserted(w)
  <2>5. u \in Seq(Seq(Bytes)) /\ Len(u) = n + 1
    <3> HIDE DEF w
    <3> QED
      BY <2>4, InsertedType
  <2>6. (\A i \in 1 .. Len(s) : u[i] = s[i]) /\ u[Len(s) + 1] = e /\ Len(u) = Len(s) + 1
    BY <1>2, <2>2, <2>3, <2>5
  <2> HIDE DEF e, w, s, u
  <2>7. s \in Seq(Seq(Bytes))
    BY <1>2 DEF s
  <2>8. u = Append(s, e)
    BY <1>3, <2>5, <2>6, <2>7, AppendByElements
  <2> QED
    BY <2>8 DEF s, u
<1>5. Escaped(v) = FlattenSeq(Inserted(v)) /\ Escaped(w) = FlattenSeq(Inserted(w))
  BY DEF Escaped, Inserted
<1> HIDE DEF e
<1>6. FlattenSeq(Append(Inserted(v), e)) = FlattenSeq(Inserted(v)) \o e
  BY <1>2, <1>3, FlattenAppend
<1>7. FlattenSeq(Inserted(v)) \in Seq(Bytes)
  BY <1>2, FlattenType
<1> QED
  BY <1>4, <1>5, <1>6, <1>7 DEF e

LEMMA ErasedType ==
  ASSUME NEW v \in Seq(Bytes)
  PROVE  Erased(v) \in Seq(Seq(Bytes)) /\ Len(Erased(v)) = Len(v)
<1> DEFINE n == Len(v)
<1>1. n \in Nat /\ DOMAIN v = 1 .. n /\ \A i \in 1 .. n : v[i] \in Bytes
  BY LenProperties, ElementOfSeq
<1>2. Erased(v) = [i \in 1 .. n |-> Erased(v)[i]]
  BY <1>1 DEF Erased
<1>3. ASSUME NEW i \in 1 .. n PROVE Erased(v)[i] \in Seq(Bytes)
  <2>1. <<v[i]>> \in Seq(Bytes) /\ <<>> \in Seq(Bytes)
    BY <1>1
  <2>2. Erased(v)[i] \in {<<v[i]>>, <<>>}
    BY <1>1 DEF Erased
  <2> QED
    BY <2>1, <2>2
<1> QED
  BY <1>1, <1>2, <1>3, SequenceByElements

LEMMA UnescapedAppend ==
  ASSUME NEW v \in Seq(Bytes), NEW b \in Bytes
  PROVE  /\ Unescaped(v) \in Seq(Bytes)
         /\ Unescaped(Append(v, b)) =
              Unescaped(v) \o (IF Starts(v, b) THEN <<>> ELSE <<b>>)
<1> DEFINE w == Append(v, b)
           n == Len(v)
           e == IF Starts(v, b) THEN <<>> ELSE <<b>>
<1>1. n \in Nat /\ DOMAIN v = 1 .. n /\ \A i \in 1 .. n : v[i] \in Bytes
  BY LenProperties, ElementOfSeq
<1>2. Erased(v) \in Seq(Seq(Bytes)) /\ Len(Erased(v)) = n
  BY ErasedType
<1>3. e \in Seq(Bytes)
  <2>1. <<b>> \in Seq(Bytes) /\ <<>> \in Seq(Bytes)
    OBVIOUS
  <2> QED
    BY <2>1
<1>4. Erased(w) = Append(Erased(v), e)
  <2>1. DOMAIN w = 1 .. n + 1 /\ DOMAIN Erased(w) = 1 .. n + 1
    BY RunStartAppend DEF Erased
  <2>2. \A i \in 1 .. n : Erased(w)[i] = Erased(v)[i]
    BY <1>1, <2>1, RunStartAppend DEF Erased
  <2>3. Erased(w)[n + 1] = e
    <3>1. w[n + 1] = b /\ n + 1 \in DOMAIN w /\ (RunStart(w, n + 1) <=> Starts(v, b))
      BY <1>1, RunStartAppend
    <3> HIDE DEF w
    <3> QED
      BY <3>1 DEF Erased
  <2>4. w \in Seq(Bytes) /\ Len(w) = n + 1
    BY <1>1, AppendProperties
  <2> DEFINE s == Erased(v)
             u == Erased(w)
  <2>5. u \in Seq(Seq(Bytes)) /\ Len(u) = n + 1
    <3> HIDE DEF w
    <3> QED
      BY <2>4, ErasedType
  <2>6. (\A i \in 1 .. Len(s) : u[i] = s[i]) /\ u[Len(s) + 1] = e /\ Len(u) = Len(s) + 1
    BY <1>2, <2>2, <2>3, <2>5
  <2> HIDE DEF e, w, s, u
  <2>7. s \in Seq(Seq(Bytes))
    BY <1>2 DEF s
  <2>8. u = Append(s, e)
    BY <1>3, <2>5, <2>6, <2>7, AppendByElements
  <2> QED
    BY <2>8 DEF s, u
<1>5. Unescaped(v) = FlattenSeq(Erased(v)) /\ Unescaped(w) = FlattenSeq(Erased(w))
  BY DEF Unescaped, Erased
<1> HIDE DEF e
<1>6. FlattenSeq(Append(Erased(v), e)) = FlattenSeq(Erased(v)) \o e
  BY <1>2, <1>3, FlattenAppend
<1>7. FlattenSeq(Erased(v)) \in Seq(Bytes)
  BY <1>2, FlattenType
<1> QED
  BY <1>4, <1>5, <1>6, <1>7 DEF e

\* Escaping keeps whether there is a last byte, and which.
SameEnd(s, v) == IF v = <<>> THEN s = <<>> ELSE s # <<>> /\ s[Len(s)] = v[Len(v)]

LEMMA EmptyEscaped == Escaped(<<>>) = <<>> /\ Unescaped(<<>>) = <<>>
BY FlattenEmpty DEF Escaped, Unescaped

LEMMA SameEndStarts ==
  ASSUME NEW v \in Seq(Bytes), NEW s \in Seq(Bytes), NEW b, SameEnd(s, v)
  PROVE  Starts(s, b) <=> Starts(v, b)
BY DEF Starts, SameEnd

LEMMA EscapedEnd ==
  ASSUME NEW v \in Seq(Bytes)
  PROVE  Escaped(v) \in Seq(Bytes) /\ SameEnd(Escaped(v), v)
<1> DEFINE P == {s \in Seq(Bytes) : Escaped(s) \in Seq(Bytes) /\ SameEnd(Escaped(s), s)}
<1>1. <<>> \in P
  <2>1. SameEnd(<<>>, <<>>)
    BY DEF SameEnd
  <2>2. <<>> \in Seq(Bytes)
    OBVIOUS
  <2> QED
    BY <2>1, <2>2, EmptyEscaped
<1>2. ASSUME NEW s \in Seq(Bytes), NEW b \in Bytes, s \in P PROVE Append(s, b) \in P
  <2> DEFINE e == IF Starts(s, b) THEN <<EscapeChar, b>> ELSE <<b>>
             x == Escaped(s)
  <2>1. x \in Seq(Bytes) /\ Escaped(Append(s, b)) = x \o e
    BY EscapedAppend
  <2>2. e \in Seq(Bytes) /\ Len(e) \in Nat /\ Len(e) >= 1 /\ e[Len(e)] = b
    <3>1. EscapeChar \in Bytes
      BY EscapeAssumption DEF Bytes
    <3>2. CASE e = <<b>>
      BY <3>2
    <3>3. CASE e = <<EscapeChar, b>>
      <4> HIDE DEF e
      <4> QED
        BY <3>1, <3>3
    <3> QED
      BY <3>2, <3>3
  <2> HIDE DEF e, x
  <2> DEFINE y == x \o e
  <2>3. y \in Seq(Bytes) /\ y # <<>> /\ y[Len(y)] = b
    <3>1. Len(x) \in Nat /\ Len(e) \in Nat /\ Len(e) >= 1
      <4>1. Len(x) \in Nat
        BY <2>1, LenProperties
      <4> QED
        BY <2>2, <4>1
    <3>2. /\ y \in Seq(Bytes) /\ Len(y) = Len(x) + Len(e)
          /\ \A i \in 1 .. Len(x) + Len(e) : y[i] = IF i <= Len(x) THEN x[i] ELSE e[i - Len(x)]
      BY <2>1, <2>2, ConcatProperties
    <3> HIDE DEF y
    <3>. Len(y) = Len(x) + Len(e)
      BY <3>2
    <3>3. /\ Len(y) \in 1 .. Len(x) + Len(e) /\ ~ (Len(y) <= Len(x))
          /\ Len(y) - Len(x) = Len(e)
      BY <3>1
    <3>4. y[Len(y)] = e[Len(e)]
      BY <3>2, <3>3
    <3>5. Len(y) # 0
      BY <3>3
    <3> QED
      BY <2>2, <3>2, <3>4, <3>5
  <2>4. /\ Append(s, b) \in Seq(Bytes) /\ Append(s, b) # <<>>
        /\ Append(s, b)[Len(Append(s, b))] = b
    OBVIOUS
  <2> QED
    BY <2>1, <2>3, <2>4 DEF SameEnd
<1>3. Seq(Bytes) \subseteq P
  <2> HIDE DEF P
  <2> QED
    BY <1>1, <1>2, AppendInduction
<1> QED
  BY <1>3

\* The erasing loop undoes the insertion loop, for every vector of bytes: the
\* property test/test_escape.cpp tries on random ones.
THEOREM EscapeRoundTrip ==
  ASSUME NEW v \in Seq(Bytes)
  PROVE  Unescaped(Escaped(v)) = v
<1> DEFINE P == {s \in Seq(Bytes) : Unescaped(Escaped(s)) = s}
<1>1. <<>> \in P
  BY EmptyEscaped
<1>2. ASSUME NEW s \in Seq(Bytes), NEW b \in Bytes, s \in P PROVE Append(s, b) \in P
  <2> DEFINE x == Escaped(s)
  <2>1. x \in Seq(Bytes) /\ SameEnd(x, s) /\ Unescaped(x) = s
    BY <1>2, EscapedEnd
  <2>2. Escaped(Append(s, b)) = x \o (IF Starts(s, b) THEN <<EscapeChar, b>> ELSE <<b>>)
    BY EscapedAppend
  <2> HIDE DEF x
  <2>3. Starts(x, b) <=> Starts(s, b)
    BY <2>1, SameEndStarts
  <2>4. s \o <<>> = s /\ s \o <<b>> = Append(s, b)
    OBVIOUS
  <2>5. CASE Starts(s, b)
    <3> DEFINE y == Append(x, b)
    <3>1. b = EscapeChar
      BY <2>5 DEF Starts
    <3>2. x \o <<EscapeChar, b>> = Append(y, b) /\ y \in Seq(Bytes)
      BY <2>1, <3>1
    <3>3. y # <<>> /\ y[Len(y)] = b
      BY <2>1
    <3>4. Unescaped(y) = s \o <<>>
      BY <2>1, <2>3, <2>5, UnescapedAppend
    <3> HIDE DEF y
    <3>5. ~ Starts(y, b)
      BY <3>1, <3>3 DEF Starts
    <3>6. Unescaped(Append(y, b)) = s \o <<b>>
      BY <2>4, <3>2, <3>4, <3>5, UnescapedAppend
    <3>7. Escaped(Append(s, b)) = Append(y, b)
      BY <2>2, <2>5, <3>2
    <3>8. Unescaped(Escaped(Append(s, b))) = Append(s, b)
      BY <2>4, <3>6, <3>7
    <3>9. Append(s, b) \in Seq(Bytes)
      OBVIOUS
    <3> QED
      BY <3>8, <3>9
  <2>6. CASE ~ Starts(s, b)
    <3>1. x \o <<b>> = Append(x, b)
      BY <2>1
    <3>2. Unescaped(Append(x, b)) = s \o <<b>>
      BY <2>1, <2>3, <2>6, UnescapedAppend
    <3>3. Escaped(Append(s, b)) = Append(x, b)
      BY <2>2, <2>6, <3>1
    <3>4. Unescaped(Escaped(Append(s, b))) = Append(s, b)
      BY <2>4, <3>2, <3>3
    <3>5. Append(s, b) \in Seq(Bytes)
      OBVIOUS
    <3> QED
      BY <3>4, <3>5
  <2> QED
    BY <2>5, <2>6
<1>3. Seq(Bytes) \subseteq P
  <2> HIDE DEF P
  <2> QED
    BY <1>1, <1>2, AppendInduction
<1> QED
  BY <1>3

(***************************************************************************)
(* The header.                                                             *)
(***************************************************************************)

\* The byte order functions are inverse on lengths of four bytes.
LEMMA NumberRoundTrip ==
  ASSUME NEW n \in Nat, n \div 256^3 < 256
  PROVE  /\ Bytes32(n) \in Seq(Bytes) /\ Len(Bytes32(n)) = 4
         /\ Number32(Bytes32(n)) = n
<1>1. 256^3 = 16777216 /\ 256^2 = 65536 /\ 256^1 = 256 /\ 256^0 = 1
  OBVIOUS
<1> DEFINE s == Bytes32(n)
<1>2. /\ s[1] = (n \div 16777216) % 256 /\ s[2] = (n \div 65536) % 256
      /\ s[3] = (n \div 256) % 256 /\ s[4] = n % 256
  BY <1>1 DEF Bytes32
<1>3. s = [i \in 1 .. 4 |-> s[i]]
  BY DEF Bytes32
<1>4. \A i \in 1 .. 4 : s[i] \in Bytes
  <2> HIDE DEF s
  <2> QED
    BY <1>2 DEF Bytes
<1>5. s \in Seq(Bytes) /\ Len(s) = 4
  BY <1>3, <1>4, SequenceByElements
<1>6. Number32(s) = n
  <2>1. Number32(s) = s[1] * 16777216 + s[2] * 65536 + s[3] * 256 + s[4]
    BY <1>1 DEF Number32
  <2>2. n \div 16777216 < 256
    BY <1>1
  <2> HIDE DEF s
  <2> QED
    BY <1>2, <2>1, <2>2
<1> QED
  BY <1>5, <1>6

(***************************************************************************)
(* Frames.                                                                 *)
(***************************************************************************)

\* What is known of the frame of a payload.
LEMMA FrameShape ==
  ASSUME NEW p \in Payloads
  PROVE  /\ p \in Seq(Bytes) /\ Escaped(p) \in Seq(Bytes)
         /\ Len(Escaped(p)) \in Nat /\ Len(Escaped(p)) >= 1
         /\ EscapeVector(p) \in Seq(Bytes) /\ EscapeVector(p)[1] = EscapeChar
         /\ Len(EscapeVector(p)) = HeaderSize + Len(Escaped(p))
         /\ SubSeq(EscapeVector(p), 2, HeaderSize) = Bytes32(Len(Escaped(p)))
         /\ Number32(SubSeq(EscapeVector(p), 2, HeaderSize)) = Len(Escaped(p))
         /\ SubSeq(EscapeVector(p), HeaderSize + 1, HeaderSize + Len(Escaped(p))) = Escaped(p)
<1> DEFINE x == Escaped(p)
           n == Len(x)
           h == Bytes32(n)
           f == EscapeVector(p)
<1>1. p \in Seq(Bytes) /\ p # <<>>
  BY PayloadsAssumption DEF Bytes
<1>2. x \in Seq(Bytes) /\ x # <<>>
  BY <1>1, EscapedEnd DEF SameEnd
<1>3. n \in Nat /\ n >= 1
  BY <1>2
<1>4. h \in Seq(Bytes) /\ Len(h) = 4 /\ Number32(h) = n
  <2> HIDE DEF n
  <2> QED
    BY <1>3, NumberRoundTrip, LengthAssumption DEF n
<1>5. f = (<<EscapeChar>> \o h) \o x /\ <<EscapeChar>> \in Seq(Bytes)
  BY EscapeAssumption DEF EscapeVector, Bytes
<1> HIDE DEF x, n, h, f
<1> DEFINE a == <<EscapeChar>> \o h
<1>6. a \in Seq(Bytes) /\ Len(a) = 5 /\ a[1] = EscapeChar
  <2> DEFINE o == <<EscapeChar>>
  <2>1. Len(o) = 1 /\ o[1] = EscapeChar /\ o \in Seq(Bytes) /\ a = o \o h
    BY <1>5
  <2> HIDE DEF o, a
  <2>2. /\ a \in Seq(Bytes) /\ Len(a) = Len(o) + Len(h)
        /\ \A i \in 1 .. Len(o) : a[i] = o[i]
    <3>1. o \in Seq(Bytes) /\ h \in Seq(Bytes)
      BY <1>4, <2>1
    <3>2. /\ o \o h \in Seq(Bytes) /\ Len(o \o h) = Len(o) + Len(h)
          /\ \A i \in 1 .. Len(o) : (o \o h)[i] = o[i]
      BY ONLY <3>1, ConcatAt
    <3> QED
      BY <2>1, <3>2
  <2> QED
    BY <1>4, <2>1, <2>2
<1>7. SubSeq(a, 2, 5) = h
  <2>1. Len(<<EscapeChar>>) = 1
    OBVIOUS
  <2>2. SubSeq(a, 1 + 1, 1 + 4) = h
    BY <1>4, <1>5, <2>1, ConcatSecond
  <2> QED
    BY <2>2
<1>8. f = a \o x
  BY <1>5
<1> HIDE DEF a
<1>9. f \in Seq(Bytes) /\ Len(f) = 5 + n /\ f[1] = EscapeChar
  <2>1. /\ f \in Seq(Bytes) /\ Len(f) = Len(a) + Len(x)
        /\ \A i \in 1 .. Len(a) : f[i] = a[i]
    <3>1. a \in Seq(Bytes) /\ x \in Seq(Bytes)
      BY <1>2, <1>6
    <3>2. /\ a \o x \in Seq(Bytes) /\ Len(a \o x) = Len(a) + Len(x)
          /\ \A i \in 1 .. Len(a) : (a \o x)[i] = a[i]
      BY ONLY <3>1, ConcatAt
    <3> QED
      BY <1>8, <3>2
  <2>2. 1 \in 1 .. Len(a)
    BY <1>6
  <2> QED
    BY <1>6, <2>1, <2>2 DEF n
<1>10. SubSeq(f, 2, 5) = h
  <2>1. 2 \in Nat \ {0} /\ 5 \in Nat /\ 5 <= Len(a)
    BY <1>6
  <2>2. SubSeq(a \o x, 2, 5) = SubSeq(a, 2, 5)
    BY <1>2, <1>6, <2>1, ConcatWithin
  <2> QED
    BY <1>7, <1>8, <2>2
<1>11. SubSeq(f, 5 + 1, 5 + n) = x
  BY <1>2, <1>6, <1>8, ConcatSecond DEF n
<1> QED
  BY <1>1, <1>2, <1>3, <1>4, <1>9, <1>10, <1>11 DEF HeaderSize, x, n, h, f

\* A frame is read whatever follows it.
LEMMA FrameRead ==
  ASSUME NEW p \in Payloads, NEW x \in Seq(Bytes)
  PROVE  UnescapeVector(EscapeVector(p) \o x) =
           [payload |-> p, size |-> Len(EscapeVector(p))]
<1> DEFINE f == EscapeVector(p)
           n == Len(Escaped(p))
           v == f \o x
<1>1. /\ f \in Seq(Bytes) /\ n \in Nat /\ n >= 1 /\ Len(f) = 5 + n /\ f[1] = EscapeChar
      /\ Number32(SubSeq(f, 2, 5)) = n /\ SubSeq(f, 5 + 1, 5 + n) = Escaped(p)
  BY FrameShape DEF HeaderSize
<1>2. Unescaped(Escaped(p)) = p
  BY FrameShape, EscapeRoundTrip
<1> HIDE DEF f, n
<1>3. /\ v \in Seq(Bytes) /\ Len(v) = Len(f) + Len(x) /\ Len(x) \in Nat
      /\ v[1] = EscapeChar
  <2>1. /\ v \in Seq(Bytes) /\ Len(v) = Len(f) + Len(x) /\ Len(x) \in Nat
        /\ \A i \in 1 .. Len(f) : v[i] = f[i]
    BY <1>1, ConcatAt
  <2>2. 1 \in 1 .. Len(f)
    BY <1>1
  <2> HIDE DEF v
  <2> QED
    BY <1>1, <2>1, <2>2
<1>4. SubSeq(v, 2, 5) = SubSeq(f, 2, 5)
  <2>1. 2 \in Nat \ {0} /\ 5 \in Nat /\ 5 <= Len(f)
    BY <1>1
  <2> QED
    BY <1>1, <2>1, ConcatWithin
<1>5. SubSeq(v, 5 + 1, 5 + n) = SubSeq(f, 5 + 1, 5 + n)
  <2>1. 5 + 1 \in Nat \ {0} /\ 5 + n \in Nat /\ 5 + n <= Len(f)
    BY <1>1
  <2> QED
    BY <1>1, <2>1, ConcatWithin
<1> HIDE DEF v
<1>6. ~ (Len(v) <= 5) /\ n + 5 <= Len(v) /\ n # -1
  BY <1>1, <1>3
<1>7. BodySize(v) = n
  BY <1>1, <1>3, <1>4, <1>6 DEF BodySize, HeaderSize
<1>8. UnescapeVector(v) = [payload |-> Unescaped(SubSeq(v, 5 + 1, 5 + n)), size |-> 5 + n]
  BY <1>6, <1>7 DEF UnescapeVector, HeaderSize
<1> QED
  BY <1>1, <1>2, <1>5, <1>8 DEF f, v

\* The beginning of a frame is not taken for one.
LEMMA FrameWaits ==
  ASSUME NEW p \in Payloads, NEW t \in Seq(Bytes), NEW y \in Seq(Bytes),
         t \o y = EscapeVector(p), y # <<>>
  PROVE  UnescapeVector(t).size = 0
<1> DEFINE f == EscapeVector(p)
           n == Len(Escaped(p))
<1>1. n \in Nat /\ Len(f) = 5 + n /\ Number32(SubSeq(f, 2, 5)) = n
  BY FrameShape DEF HeaderSize
<1> HIDE DEF f, n
<1>2. Len(t) \in Nat /\ Len(y) \in Nat /\ Len(y) # 0 /\ Len(f) = Len(t) + Len(y)
  BY ConcatLength DEF f
<1>3. BodySize(t) = -1
  <2>1. CASE Len(t) <= 5
    BY <2>1 DEF BodySize, HeaderSize
  <2>2. CASE Len(t) > 5
    <3>1. 2 \in Nat \ {0} /\ 5 \in Nat /\ 5 <= Len(t)
      BY <1>2, <2>2
    <3>2. SubSeq(f, 2, 5) = SubSeq(t, 2, 5)
      BY <3>1, ConcatWithin DEF f
    <3>3. ~ (n + 5 <= Len(t)) /\ ~ (Len(t) <= 5)
      BY <1>1, <1>2, <2>2
    <3> QED
      BY <1>1, <3>2, <3>3 DEF BodySize, HeaderSize
  <2> QED
    BY <1>2, <2>1, <2>2
<1> QED
  BY <1>3 DEF UnescapeVector

LEMMA EmptyWaits == UnescapeVector(<<>>).size = 0
BY DEF UnescapeVector, BodySize, HeaderSize

\* A vector is read within its bounds.
LEMMA UnescapeVectorBounds ==
  ASSUME NEW v \in Seq(Bytes)
  PROVE  UnescapeVector(v).size \in 0 .. Len(v)
<1> DEFINE n == Number32(SubSeq(v, 2, 5))
<1>1. CASE BodySize(v) = -1
  BY <1>1, LenProperties DEF UnescapeVector
<1>2. CASE BodySize(v) # -1
  <2>1. Len(v) \in Nat /\ Len(v) > 5 /\ BodySize(v) = n /\ n + 5 <= Len(v)
    BY <1>2, LenProperties DEF BodySize, HeaderSize
  <2>2. n \in Nat
    <3> DEFINE s == SubSeq(v, 2, 5)
    <3>1. \A i \in 2 .. 5 : v[i] \in Bytes
      BY <2>1, ElementOfSeq
    <3>2. s \in Seq(Bytes) /\ Len(s) = 4
      BY <3>1, SubSeqProperties
    <3> HIDE DEF s
    <3>3. \A b \in Bytes : b \in Nat
      BY DEF Bytes
    <3>4. s[1] \in Nat /\ s[2] \in Nat /\ s[3] \in Nat /\ s[4] \in Nat
      <4>1. \A i \in 1 .. Len(s) : s[i] \in Nat
        BY <3>2, <3>3, ElementOfSeq
      <4>2. 1 \in 1 .. Len(s) /\ 2 \in 1 .. Len(s) /\ 3 \in 1 .. Len(s) /\ 4 \in 1 .. Len(s)
        BY <3>2
      <4> QED
        BY <4>1, <4>2
    <3> DEFINE x == 256^3
               y == 256^2
               z == 256
    <3>5. x \in Nat /\ y \in Nat /\ z \in Nat /\ Number32(s) = s[1] * x + s[2] * y + s[3] * z + s[4]
      BY SMT DEF Number32
    <3> HIDE DEF x, y, z
    <3>6. \A a, b, c, d \in Nat : a * x + b * y + c * z + d \in Nat
      BY <3>5, SMT
    <3>7. s[1] * x + s[2] * y + s[3] * z + s[4] \in Nat
      BY <3>4, <3>6
    <3>8. Number32(s) \in Nat
      BY <3>5, <3>7
    <3> QED
      BY <3>8 DEF s
  <2> HIDE DEF n
  <2>3. UnescapeVector(v).size = 5 + n
    BY <1>2, <2>1 DEF UnescapeVector, HeaderSize
  <2> QED
    BY <2>1, <2>2, <2>3
<1> QED
  BY <1>1, <1>2

(***************************************************************************)
(* Cutting a stream into frames.                                           *)
(***************************************************************************)

\* The body of the recursion in UnescapeAllVectors.
CutAt(v, all, i) ==
  LET one  == UnescapeVector(Drop(v, i))
      tail == all[i + one.size]
  IN  IF one.size = 0
      THEN [list |-> <<>>, rest |-> Drop(v, i)]
      ELSE [tail EXCEPT !.list =
              (IF one.payload = <<>> THEN <<>> ELSE <<one.payload>>) \o @]

LEMMA DropProperties ==
  ASSUME NEW v \in Seq(Bytes), NEW i \in 0 .. Len(v)
  PROVE  Drop(v, i) \in Seq(Bytes) /\ Len(Drop(v, i)) = Len(v) - i
<1>1. /\ Len(v) \in Nat /\ i + 1 \in Int /\ i \in Nat /\ i <= Len(v)
      /\ \A j \in i + 1 .. Len(v) : v[j] \in Bytes
  <2>1. \A j \in i + 1 .. Len(v) : j \in 1 .. Len(v)
    OBVIOUS
  <2> QED
    BY <2>1, LenProperties, ElementOfSeq
<1>2. /\ Drop(v, i) \in Seq(Bytes)
      /\ Len(Drop(v, i)) = IF i + 1 <= Len(v) THEN Len(v) - (i + 1) + 1 ELSE 0
  BY <1>1, SubSeqProperties DEF Drop
<1> QED
  BY <1>1, <1>2

\* The result at an offset depends on those at later offsets only.
LEMMA CutAtLater ==
  ASSUME NEW v \in Seq(Bytes), NEW i \in 0 .. Len(v), NEW g, NEW h,
         \A j \in i + 1 .. Len(v) : g[j] = h[j]
  PROVE  CutAt(v, g, i) = CutAt(v, h, i)
<1> DEFINE k == UnescapeVector(Drop(v, i)).size
<1>1. Len(v) \in Nat /\ k \in 0 .. Len(v) - i
  BY LenProperties, DropProperties, UnescapeVectorBounds
<1>2. CASE k = 0
  BY <1>2 DEF CutAt
<1>3. CASE k # 0
  <2> HIDE DEF k
  <2>1. i + k \in i + 1 .. Len(v)
    BY <1>1, <1>3
  <2>2. g[i + k] = h[i + k]
    BY <2>1
  <2> QED
    BY <2>2 DEF CutAt, k
<1> QED
  BY <1>2, <1>3

\* So the recursion has a solution, and UnescapeAllVectors is its value at 0.
LEMMA Cuts ==
  ASSUME NEW v \in Seq(Bytes)
  PROVE  \E all : /\ \A i \in 0 .. Len(v) : all[i] = CutAt(v, all, i)
                  /\ UnescapeAllVectors(v) = all[0]
<1> DEFINE n == Len(v)
           Cut(all) == all = [i \in 0 .. n |-> CutAt(v, all, i)]
           From(k, g) == /\ DOMAIN g = 0 .. n /\ g = [i \in 0 .. n |-> g[i]]
                         /\ \A i \in 0 .. n : i >= n - k => g[i] = CutAt(v, g, i)
           T == {k \in Nat : k <= n => \E g : From(k, g)}
<1>0. n \in Nat
  BY LenProperties
<1>1. 0 \in T
  <2> DEFINE g == [i \in 0 .. n |-> CutAt(v, <<>>, i)]
  <2>1. CutAt(v, <<>>, n) = CutAt(v, g, n)
    <3> HIDE DEF g
    <3>1. n \in 0 .. n /\ \A j \in n + 1 .. n : <<>>[j] = g[j]
      BY <1>0
    <3> QED
      BY <3>1, CutAtLater
  <2>2. DOMAIN g = 0 .. n /\ g = [i \in 0 .. n |-> g[i]] /\ g[n] = CutAt(v, <<>>, n)
    BY <1>0
  <2> HIDE DEF g
  <2>3. \A i \in 0 .. n : i >= n - 0 => i = n
    BY <1>0
  <2>4. From(0, g)
    BY <2>1, <2>2, <2>3
  <2> QED
    BY <2>4
<1>2. ASSUME NEW k \in Nat, k \in T PROVE k + 1 \in T
  <2>1. SUFFICES ASSUME k + 1 <= n PROVE \E h : From(k + 1, h)
    OBVIOUS
  <2>2. PICK g : From(k, g)
    BY <1>0, <1>2, <2>1
  <2> DEFINE j == n - (k + 1)
             h == [g EXCEPT ![j] = CutAt(v, g, j)]
  <2>3. j \in 0 .. n
    BY <1>0, <2>1
  <2>4. /\ DOMAIN h = 0 .. n /\ h = [i \in 0 .. n |-> h[i]]
        /\ h[j] = CutAt(v, g, j) /\ \A i \in 0 .. n : i # j => h[i] = g[i]
    BY <2>2, <2>3
  <2> HIDE DEF h
  <2>5. ASSUME NEW i \in 0 .. n, i >= n - (k + 1) PROVE h[i] = CutAt(v, h, i)
    <3>1. \A m \in i + 1 .. n : m \in 0 .. n /\ m # j
      BY <1>0, <2>3, <2>5
    <3>2. \A m \in i + 1 .. n : g[m] = h[m]
      BY <2>4, <3>1
    <3>3. CutAt(v, g, i) = CutAt(v, h, i)
      BY <3>2, CutAtLater
    <3>4. CASE i = j
      BY <2>4, <3>3, <3>4
    <3>5. CASE i # j
      <4>1. i >= n - k
        BY <1>0, <2>3, <2>5, <3>5
      <4> QED
        BY <2>2, <2>4, <3>3, <3>5, <4>1
    <3> QED
      BY <3>4, <3>5
  <2>6. From(k + 1, h)
    BY <2>4, <2>5
  <2> QED
    BY <2>6
<1>3. PICK g : From(n, g)
  <2>1. Nat \subseteq T
    <3> HIDE DEF T
    <3> QED
      BY <1>1, <1>2, NumberInduction
  <2> QED
    BY <1>0, <2>1
<1>4. Cut(g)
  <2>1. \A i \in 0 .. n : i >= n - n
    BY <1>0
  <2>2. \A i \in 0 .. n : g[i] = CutAt(v, g, i)
    BY <1>3, <2>1
  <2> QED
    BY <1>3, <2>2
<1> DEFINE all == CHOOSE all : Cut(all)
<1>5. Cut(all)
  <2> HIDE DEF Cut
  <2> QED
    BY <1>4
<1>6. UnescapeAllVectors(v) = all[0]
  BY DEF UnescapeAllVectors, CutAt
<1> HIDE DEF all
<1>7. \A i \in 0 .. n : all[i] = CutAt(v, all, i)
  BY <1>5
<1> QED
  BY <1>6, <1>7

\* The bytes of the frames of datagrams.
Frames(ps) == [i \in DOMAIN ps |-> EscapeVector(ps[i])]
Stream(ps) == FlattenSeq(Frames(ps))

LEMMA FramesType ==
  ASSUME NEW ps \in Seq(Payloads)
  PROVE  /\ Frames(ps) \in Seq(Seq(Bytes)) /\ Len(Frames(ps)) = Len(ps)
         /\ Stream(ps) \in Seq(Bytes)
<1>1. Len(ps) \in Nat /\ DOMAIN ps = 1 .. Len(ps)
  BY LenProperties
<1>2. Frames(ps) = [i \in 1 .. Len(ps) |-> Frames(ps)[i]]
  BY <1>1 DEF Frames
<1>3. ASSUME NEW i \in 1 .. Len(ps) PROVE Frames(ps)[i] \in Seq(Bytes)
  <2>1. ps[i] \in Payloads
    BY ElementOfSeq
  <2>2. EscapeVector(ps[i]) \in Seq(Bytes)
    BY <2>1, FrameShape
  <2> QED
    BY <1>1, <2>2 DEF Frames
<1>4. Frames(ps) \in Seq(Seq(Bytes)) /\ Len(Frames(ps)) = Len(ps)
  BY <1>1, <1>2, <1>3, SequenceByElements
<1> QED
  BY <1>4, FlattenType DEF Stream

LEMMA StreamEmpty == Stream(<<>>) = <<>>
<1>1. Frames(<<>>) = <<>>
  BY DEF Frames
<1> QED
  BY <1>1, FlattenEmpty DEF Stream

LEMMA StreamHead ==
  ASSUME NEW ps \in Seq(Payloads), ps # <<>>
  PROVE  /\ Head(ps) \in Payloads /\ Tail(ps) \in Seq(Payloads)
         /\ Len(ps) = Len(Tail(ps)) + 1 /\ ps = <<Head(ps)>> \o Tail(ps)
         /\ Stream(ps) = EscapeVector(Head(ps)) \o Stream(Tail(ps))
<1> DEFINE n == Len(ps)
           r == Tail(ps)
<1>1. /\ n \in Nat /\ n >= 1 /\ r \in Seq(Payloads) /\ Len(r) = n - 1
      /\ \A i \in 1 .. n - 1 : r[i] = ps[i + 1]
      /\ Head(ps) = ps[1] /\ ps[1] \in Payloads
  BY EmptySeq, HeadTailProperties, LenProperties
<1>2. ps = <<Head(ps)>> \o r
  OBVIOUS
<1> HIDE DEF r
<1> DEFINE f == Frames(ps)
           g == Frames(r)
<1>3. f \in Seq(Seq(Bytes)) /\ Len(f) = n /\ g \in Seq(Seq(Bytes)) /\ Len(g) = n - 1
  BY <1>1, FramesType
<1>4. /\ \A i \in 1 .. n : f[i] = EscapeVector(ps[i])
      /\ \A i \in 1 .. n - 1 : g[i] = EscapeVector(r[i])
  BY <1>1, LenProperties DEF Frames
<1> HIDE DEF f, g
<1>5. f # <<>> /\ Head(f) = f[1] /\ 1 \in 1 .. n
  BY <1>1, <1>3
<1>6. Tail(f) = g
  <2> DEFINE u == Tail(f)
  <2>1. /\ u \in Seq(Seq(Bytes)) /\ Len(u) = n - 1
        /\ \A i \in 1 .. n - 1 : u[i] = f[i + 1]
    BY <1>3, <1>5, HeadTailProperties
  <2> HIDE DEF u
  <2>2. \A i \in 1 .. n - 1 : i + 1 \in 1 .. n
    BY <1>1
  <2>3. \A i \in 1 .. n - 1 : u[i] = g[i]
    BY <1>1, <1>4, <2>1, <2>2
  <2>4. u = g
    BY <1>3, <2>1, <2>3, SeqEqual
  <2> QED
    BY <2>4 DEF u
<1>7. FlattenSeq(f) = Head(f) \o FlattenSeq(Tail(f))
  BY <1>3, <1>5, FlattenHead
<1>8. Head(f) = EscapeVector(Head(ps))
  BY <1>1, <1>4, <1>5
<1>9. Stream(ps) = EscapeVector(Head(ps)) \o Stream(r)
  BY <1>6, <1>7, <1>8 DEF Stream, f, g
<1> QED
  BY <1>1, <1>2, <1>9 DEF r

\* A stream begins with the frame of its first datagram and the first byte of
\* the next frame, as far as it goes.
LEMMA StreamBegins ==
  ASSUME NEW ps \in Seq(Payloads), ps # <<>>
  PROVE  LET f == EscapeVector(Head(ps))
             c == Stream(ps)
         IN  /\ Head(ps) \in Payloads /\ f \in Seq(Bytes) /\ Len(f) \in Nat /\ Len(f) >= 1
             /\ c \in Seq(Bytes) /\ c[1] = EscapeChar
             /\ Len(Beginning(Head(ps))) = Len(f) + 1
             /\ \A j \in 1 .. Len(c) : j <= Len(f) + 1 => c[j] = Beginning(Head(ps))[j]
<1> DEFINE p == Head(ps)
           f == EscapeVector(p)
           r == Tail(ps)
           x == Stream(r)
           c == Stream(ps)
           g == Beginning(p)
<1>1. p \in Payloads /\ r \in Seq(Payloads) /\ c = f \o x
  BY StreamHead
<1>2. x \in Seq(Bytes)
  BY <1>1, FramesType
<1> HIDE DEF p
<1>3. f \in Seq(Bytes) /\ f[1] = EscapeChar /\ Len(f) \in Nat /\ Len(f) >= 1
  <2>1. /\ f \in Seq(Bytes) /\ f[1] = EscapeChar
        /\ Len(f) = 5 + Len(Escaped(p)) /\ Len(Escaped(p)) \in Nat
    BY <1>1, FrameShape DEF HeaderSize
  <2> HIDE DEF f
  <2> QED
    BY <2>1
<1>4. x # <<>> => x[1] = EscapeChar
  <2>1. SUFFICES ASSUME x # <<>> PROVE x[1] = EscapeChar
    OBVIOUS
  <2>2. r # <<>>
    BY <2>1, StreamEmpty
  <2> DEFINE q == Head(r)
             h == EscapeVector(q)
             y == Stream(Tail(r))
  <2>3. q \in Payloads /\ Tail(r) \in Seq(Payloads) /\ x = h \o y
    BY <1>1, <2>2, StreamHead
  <2>4. y \in Seq(Bytes)
    BY <2>3, FramesType
  <2> HIDE DEF q, y, x
  <2>5. h \in Seq(Bytes) /\ h[1] = EscapeChar /\ 1 \in 1 .. Len(h)
    <3>1. /\ h \in Seq(Bytes) /\ h[1] = EscapeChar
          /\ Len(h) = 5 + Len(Escaped(q)) /\ Len(Escaped(q)) \in Nat
      BY <2>3, FrameShape DEF HeaderSize
    <3> HIDE DEF h
    <3> QED
      BY <3>1
  <2> HIDE DEF h
  <2> QED
    BY <2>3, <2>4, <2>5, ConcatAt
<1>5. /\ Len(g) = Len(f) + 1 /\ g[Len(f) + 1] = EscapeChar
      /\ \A j \in 1 .. Len(f) : g[j] = f[j]
  <2>1. g = Append(f, EscapeChar) /\ EscapeChar \in Bytes
    BY EscapeAssumption DEF Beginning, Bytes
  <2> HIDE DEF f, g
  <2> QED
    BY <1>3, <2>1, AppendProperties
<1> HIDE DEF f, g, x, c
<1>6. /\ c \in Seq(Bytes) /\ Len(c) = Len(f) + Len(x) /\ Len(x) \in Nat
      /\ \A i \in 1 .. Len(f) : c[i] = f[i]
      /\ \A i \in 1 .. Len(x) : c[Len(f) + i] = x[i]
  BY <1>1, <1>2, <1>3, ConcatAt
<1>7. ASSUME NEW j \in 1 .. Len(c), j <= Len(f) + 1 PROVE c[j] = g[j]
  <2>1. CASE j <= Len(f)
    BY <1>3, <1>5, <1>6, <2>1
  <2>2. CASE j = Len(f) + 1
    <3>1. 1 \in 1 .. Len(x) /\ Len(x) # 0
      BY <1>3, <1>6, <1>7, <2>2
    <3>2. x # <<>>
      BY <3>1
    <3> QED
      BY <1>4, <1>5, <1>6, <2>2, <3>1, <3>2
  <2> QED
    BY <1>3, <1>7, <2>1, <2>2
<1>8. c[1] = EscapeChar
  BY <1>3, <1>6
<1> QED
  BY <1>1, <1>3, <1>5, <1>6, <1>7, <1>8 DEF p, f, g, c

LEMMA StreamAppend ==
  ASSUME NEW ps \in Seq(Payloads), NEW p \in Payloads
  PROVE  Stream(Append(ps, p)) = Stream(ps) \o EscapeVector(p)
<1> DEFINE n == Len(ps)
           u == Append(ps, p)
           f == Frames(ps)
           g == Frames(u)
           e == EscapeVector(p)
<1>1. /\ n \in Nat /\ u \in Seq(Payloads) /\ Len(u) = n + 1 /\ u[n + 1] = p
      /\ \A i \in 1 .. n : u[i] = ps[i]
  BY AppendProperties, LenProperties
<1> HIDE DEF u
<1>2. /\ f \in Seq(Seq(Bytes)) /\ Len(f) = n /\ g \in Seq(Seq(Bytes)) /\ Len(g) = n + 1
  BY <1>1, FramesType
<1>3. /\ \A i \in 1 .. n : f[i] = EscapeVector(ps[i])
      /\ \A i \in 1 .. n + 1 : g[i] = EscapeVector(u[i])
  BY <1>1, LenProperties DEF Frames
<1>4. e \in Seq(Bytes)
  BY FrameShape
<1> HIDE DEF f, g, e
<1>5. /\ \A i \in 1 .. Len(f) : g[i] = f[i]
      /\ g[Len(f) + 1] = e /\ Len(g) = Len(f) + 1
  <2>1. n + 1 \in 1 .. n + 1 /\ \A i \in 1 .. n : i \in 1 .. n + 1
    BY <1>1
  <2> QED
    BY <1>1, <1>2, <1>3, <2>1 DEF e
<1>6. g = Append(f, e)
  BY <1>2, <1>4, <1>5, AppendByElements
<1>7. FlattenSeq(g) = FlattenSeq(f) \o e
  BY <1>2, <1>4, <1>6, FlattenAppend
<1> QED
  BY <1>7 DEF Stream, f, g, e, u

LEMMA DropDrop ==
  ASSUME NEW v \in Seq(Bytes), NEW i \in 0 .. Len(v), NEW k \in 0 .. Len(v) - i
  PROVE  Drop(Drop(v, i), k) = Drop(v, i + k)
<1> DEFINE w == Drop(v, i)
           a == Drop(w, k)
           b == Drop(v, i + k)
           n == Len(v)
<1>1. n \in Nat /\ i \in Nat /\ k \in Nat /\ i + k <= n
  BY LenProperties
<1>2. w \in Seq(Bytes) /\ Len(w) = n - i
  BY DropProperties
<1>3. ASSUME NEW u \in Seq(Bytes), NEW j \in Nat, j <= Len(u)
      PROVE  /\ Drop(u, j) \in Seq(Bytes) /\ Len(Drop(u, j)) = Len(u) - j
             /\ \A m \in 1 .. Len(u) - j : Drop(u, j)[m] = u[j + m]
  <2>1. Len(u) \in Nat /\ j \in 0 .. Len(u)
    BY <1>3, LenProperties
  <2>2. \A m \in j + 1 .. Len(u) : u[m] \in Bytes
    BY <2>1, ElementOfSeq
  <2>3. \A m \in 1 .. Len(u) - (j + 1) + 1 : SubSeq(u, j + 1, Len(u))[m] = u[(j + 1) + m - 1]
    BY <2>1, <2>2, SubSeqProperties
  <2>4. ASSUME NEW m \in 1 .. Len(u) - j PROVE Drop(u, j)[m] = u[j + m]
    <3>1. m \in 1 .. Len(u) - (j + 1) + 1 /\ (j + 1) + m - 1 = j + m
      BY <2>1
    <3> QED
      BY <2>3, <3>1 DEF Drop
  <2> QED
    BY <2>1, <2>4, DropProperties
<1>4. /\ a \in Seq(Bytes) /\ Len(a) = Len(w) - k
      /\ \A m \in 1 .. Len(w) - k : a[m] = w[k + m]
  <2> HIDE DEF w
  <2>1. k <= Len(w)
    BY <1>1, <1>2
  <2> QED
    BY <1>1, <1>2, <1>3, <2>1
<1>5. /\ b \in Seq(Bytes) /\ Len(b) = n - (i + k)
      /\ \A m \in 1 .. n - (i + k) : b[m] = v[(i + k) + m]
  <2>1. i + k \in Nat /\ i + k <= Len(v)
    BY <1>1
  <2> QED
    BY <1>3, <2>1
<1>6. \A m \in 1 .. n - i : w[m] = v[i + m]
  BY <1>1, <1>3
<1> HIDE DEF a, b, w
<1>7. Len(a) = Len(b)
  BY <1>1, <1>2, <1>4, <1>5
<1>8. ASSUME NEW m \in 1 .. Len(a) PROVE a[m] = b[m]
  <2>1. /\ m \in 1 .. Len(w) - k /\ m \in 1 .. n - (i + k)
        /\ k + m \in 1 .. n - i /\ (i + k) + m = i + (k + m)
    BY <1>1, <1>2, <1>4
  <2> QED
    BY <1>4, <1>5, <1>6, <2>1
<1>9. a = b
  BY <1>4, <1>5, <1>7, <1>8, SeqEqual
<1> QED
  BY <1>9 DEF a, b, w

LEMMA DropConcat ==
  ASSUME NEW s \in Seq(Bytes), NEW t \in Seq(Bytes)
  PROVE  Drop(s \o t, Len(s)) = t
BY ConcatLength, ConcatSecond DEF Drop

\* What UnescapeAllVectors returns for whole frames with a rest behind them.
THEOREM WholeFramesCut ==
  ASSUME NEW ps \in Seq(Payloads), NEW t \in Seq(Bytes), UnescapeVector(t).size = 0
  PROVE  UnescapeAllVectors(Stream(ps) \o t) = [list |-> ps, rest |-> t]
<1> DEFINE v == Stream(ps) \o t
<1>0. v \in Seq(Bytes)
  BY FramesType, ConcatLength
<1> HIDE DEF v
<1>1. PICK all : /\ \A i \in 0 .. Len(v) : all[i] = CutAt(v, all, i)
                 /\ UnescapeAllVectors(v) = all[0]
  BY <1>0, Cuts
<1> DEFINE Ok(qs, i) == Drop(v, i) = Stream(qs) \o t => all[i] = [list |-> qs, rest |-> t]
           T == {m \in Nat : \A qs \in Seq(Payloads), i \in 0 .. Len(v) :
                               Len(qs) = m => Ok(qs, i)}
<1>2. 0 \in T
  <2>1. SUFFICES ASSUME NEW qs \in Seq(Payloads), NEW i \in 0 .. Len(v), Len(qs) = 0,
                        Drop(v, i) = Stream(qs) \o t
                 PROVE  all[i] = [list |-> qs, rest |-> t]
    OBVIOUS
  <2>2. qs = <<>>
    BY <2>1
  <2>3. Drop(v, i) = t
    BY <2>1, <2>2, StreamEmpty, ConcatEmptySeq
  <2>4. CutAt(v, all, i) = [list |-> <<>>, rest |-> t]
    BY <2>3 DEF CutAt
  <2> QED
    BY <1>1, <2>2, <2>4
<1>3. ASSUME NEW m \in Nat, m \in T PROVE m + 1 \in T
  <2>0. SUFFICES ASSUME NEW qs \in Seq(Payloads), NEW i \in 0 .. Len(v), Len(qs) = m + 1
                 PROVE  Ok(qs, i)
    <3> HIDE DEF Ok
    <3> QED
      OBVIOUS
  <2>1. SUFFICES ASSUME Drop(v, i) = Stream(qs) \o t
                 PROVE  all[i] = [list |-> qs, rest |-> t]
    OBVIOUS
  <2> DEFINE p == Head(qs)
             rs == Tail(qs)
             f == EscapeVector(p)
             x == Stream(rs) \o t
             k == Len(f)
  <2>2. /\ p \in Payloads /\ rs \in Seq(Payloads) /\ Len(qs) = Len(rs) + 1
        /\ qs = <<p>> \o rs /\ Stream(qs) = f \o Stream(rs)
    <3>1. qs # <<>>
      BY <2>0
    <3> QED
      BY <3>1, StreamHead
  <2>3. f \in Seq(Bytes) /\ k \in Nat /\ k # 0 /\ p # <<>>
    <3>1. p \in Payloads
      BY <2>2
    <3> HIDE DEF p
    <3>2. p # <<>>
      BY <3>1, PayloadsAssumption
    <3>3. f \in Seq(Bytes)
      BY <3>1, FrameShape
    <3>4. k = 5 + Len(Escaped(p)) /\ Len(Escaped(p)) \in Nat
      BY <3>1, FrameShape DEF HeaderSize
    <3> HIDE DEF f, k
    <3> QED
      BY <3>2, <3>3, <3>4
  <2> HIDE DEF p, rs, f, k
  <2>4. Stream(rs) \in Seq(Bytes) /\ x \in Seq(Bytes) /\ Drop(v, i) = f \o x
    <3>1. Stream(rs) \in Seq(Bytes) /\ x \in Seq(Bytes)
      BY <2>2, FramesType, ConcatLength
    <3>2. (f \o Stream(rs)) \o t = f \o (Stream(rs) \o t)
      <4>1. f \in ListsOf(Bytes) /\ Stream(rs) \in ListsOf(Bytes) /\ t \in ListsOf(Bytes)
        BY <2>3, <3>1 DEF ListsOf
      <4>2. Cat(Cat(f, Stream(rs)), t) = Cat(f, Cat(Stream(rs), t))
        BY ONLY <4>1, Associate
      <4> QED
        BY ONLY <4>2, Zenon DEF Cat
    <3> QED
      BY <2>1, <2>2, <3>1, <3>2
  <2> HIDE DEF x
  <2>5. UnescapeVector(Drop(v, i)) = [payload |-> p, size |-> k]
    BY <2>2, <2>4, FrameRead DEF f, k
  <2>6. k \in 0 .. Len(v) - i /\ Len(v) \in Nat
    BY <1>0, <2>3, <2>5, DropProperties, UnescapeVectorBounds, LenProperties
  <2>7. Drop(v, i + k) = x
    <3>1. Drop(f \o x, k) = x
      BY <2>3, <2>4, DropConcat DEF k
    <3>2. Drop(Drop(v, i), k) = Drop(v, i + k)
      BY <1>0, <2>6, DropDrop
    <3> QED
      BY <2>4, <3>1, <3>2
  <2>8. all[i + k] = [list |-> rs, rest |-> t]
    <3>1. i + k \in 0 .. Len(v)
      BY <2>6
    <3>2. Len(rs) = m
      BY <2>0, <2>2, LenProperties
    <3> QED
      BY <1>3, <2>2, <2>7, <3>1, <3>2 DEF x
  <2>9. CutAt(v, all, i) = [[list |-> rs, rest |-> t] EXCEPT !.list = <<p>> \o @]
    <3> DEFINE one == UnescapeVector(Drop(v, i))
    <3>1. one.size = k /\ one.size # 0 /\ one.payload = p /\ one.payload # <<>>
      BY <2>3, <2>5
    <3>2. CutAt(v, all, i) = [all[i + one.size] EXCEPT !.list = <<one.payload>> \o @]
      BY <3>1 DEF CutAt
    <3> HIDE DEF one
    <3> QED
      BY <2>8, <3>1, <3>2
  <2>10. CutAt(v, all, i) = [list |-> qs, rest |-> t]
    BY <2>2, <2>9
  <2> QED
    BY <1>1, <2>10
<1>4. Nat \subseteq T
  <2> HIDE DEF T
  <2> QED
    BY <1>2, <1>3, NumberInduction
<1>5. Len(ps) \in Nat /\ 0 \in 0 .. Len(v)
  BY <1>0, LenProperties
<1>6. Ok(ps, 0)
  BY <1>4, <1>5
<1>7. Drop(v, 0) = v
  BY <1>0, SubSeqFull DEF Drop
<1> QED
  BY <1>1, <1>6, <1>7 DEF v

\* t holds no whole frame of the stream of rs, of which it is the beginning.
Held(rs, t) ==
  /\ UnescapeVector(t).size = 0
  /\ t = <<>> \/ (rs # <<>> /\ Len(t) < Len(EscapeVector(Head(rs))))

\* b is the frames of some of the payloads and the beginning t of one more, w
\* the rest of the stream.
CutBetween(ps, b, w) ==
  \E qs, rs \in Seq(Payloads), t \in Seq(Bytes) :
    /\ ps = qs \o rs
    /\ b = Stream(qs) \o t /\ t \o w = Stream(rs)
    /\ Held(rs, t)

\* What is held does not make unescape_vector throw.
LEMMA HeldBegins ==
  ASSUME NEW rs \in Seq(Payloads), NEW t \in Seq(Bytes), NEW w \in Seq(Bytes),
         t \o w = Stream(rs), Held(rs, t)
  PROVE  ~ Throws(t)
<1>1. CASE t = <<>>
  BY <1>1 DEF Throws, HeaderSize
<1>2. CASE t # <<>>
  <2> DEFINE c == Stream(rs)
  <2>1. rs # <<>>
    BY <1>2 DEF Held
  <2>2. c[1] = EscapeChar
    BY <2>1, StreamBegins
  <2> HIDE DEF c
  <2>3. t[1] = c[1]
    <3>1. 1 \in 1 .. Len(t)
      BY <1>2, EmptySeq
    <3> QED
      BY <3>1, ConcatAt DEF c
  <2> QED
    BY <2>2, <2>3 DEF Throws
<1> QED
  BY <1>1, <1>2

\* However a stream of frames is cut, the first part is whole frames and the
\* beginning of one more, which waits for the second part.
LEMMA CutAnywhere ==
  ASSUME NEW ps \in Seq(Payloads), NEW b \in Seq(Bytes), NEW w \in Seq(Bytes)
  PROVE  Cat(b, w) = Stream(ps) => CutBetween(ps, b, w)
<1> DEFINE Good(us, c, qs, rs, t) ==
             /\ us = qs \o rs
             /\ c = Stream(qs) \o t /\ t \o w = Stream(rs)
             /\ Held(rs, t)
           Some(us, c) == c \o w = Stream(us) =>
             \E qs, rs \in Seq(Payloads), t \in Seq(Bytes) : Good(us, c, qs, rs, t)
           T == {m \in Nat : \A us \in Seq(Payloads), c \in Seq(Bytes) :
                               Len(us) = m => Some(us, c)}
<1>1. 0 \in T
  <2>1. SUFFICES ASSUME NEW us \in Seq(Payloads), NEW c \in Seq(Bytes), Len(us) = 0,
                        c \o w = Stream(us)
                 PROVE  \E qs, rs \in Seq(Payloads), t \in Seq(Bytes) : Good(us, c, qs, rs, t)
    OBVIOUS
  <2>2. us = <<>>
    BY <2>1
  <2>3. c \o w = <<>>
    BY <2>1, <2>2, StreamEmpty
  <2>4. c = <<>>
    BY <2>3, ConcatEqualIffEmpty
  <2>5. <<>> \in Seq(Payloads) /\ <<>> \in Seq(Bytes) /\ us = <<>> \o <<>> /\ <<>> = <<>> \o <<>>
    BY <2>2, ConcatEmptySeq
  <2>6. Good(us, c, <<>>, <<>>, <<>>)
    BY <2>1, <2>2, <2>4, <2>5, StreamEmpty, EmptyWaits DEF Held
  <2> QED
    BY <2>5, <2>6
<1>2. ASSUME NEW m \in Nat, m \in T PROVE m + 1 \in T
  <2>0. SUFFICES ASSUME NEW us \in Seq(Payloads), NEW c \in Seq(Bytes), Len(us) = m + 1
                 PROVE  Some(us, c)
    <3> HIDE DEF Some
    <3> QED
      OBVIOUS
  <2>1. SUFFICES ASSUME c \o w = Stream(us)
                 PROVE  \E qs, rs \in Seq(Payloads), t \in Seq(Bytes) : Good(us, c, qs, rs, t)
    OBVIOUS
  <2> DEFINE p == Head(us)
             vs == Tail(us)
             f == EscapeVector(p)
             k == Len(f)
             st == Stream(us)
  <2>2. /\ p \in Payloads /\ vs \in Seq(Payloads) /\ Len(us) = Len(vs) + 1
        /\ us = <<p>> \o vs /\ st = f \o Stream(vs) /\ <<p>> \in Seq(Payloads)
    <3>1. us # <<>>
      BY <2>0
    <3> QED
      BY <3>1, StreamHead
  <2>3. f \in Seq(Bytes) /\ Stream(vs) \in Seq(Bytes) /\ st \in Seq(Bytes)
    BY <2>2, FrameShape, FramesType
  <2> HIDE DEF p, vs, f, st
  <2>4. /\ Len(c) \in Nat /\ Len(w) \in Nat /\ k \in Nat
        /\ Len(st) = Len(c) + Len(w) /\ Len(st) = k + Len(Stream(vs))
    BY <2>1, <2>2, <2>3, ConcatLength DEF st
  <2>5. CASE Len(c) < k
    <3> DEFINE y == SubSeq(f, Len(c) + 1, k)
    <3>1. SubSeq(st, 1, Len(c)) = c
      BY <2>1, ConcatFirst DEF st
    <3>2. SubSeq(st, 1, Len(c)) = SubSeq(f, 1, Len(c))
      <4>1. 1 \in Nat \ {0} /\ Len(c) <= Len(f)
        BY <2>4, <2>5
      <4> QED
        BY <2>2, <2>3, <2>4, <4>1, ConcatWithin
    <3>3. y \in Seq(Bytes) /\ Len(y) = k - Len(c)
      <4>1. Len(c) \in 0 .. Len(f)
        BY <2>4, <2>5
      <4> QED
        BY <2>3, <4>1, DropProperties DEF Drop
    <3>4. SubSeq(f, 1, Len(c)) \o y = f
      <4>1. /\ 1 \in 1 .. Len(f) + 1 /\ Len(c) \in 1 - 1 .. Len(f) /\ Len(f) \in Len(c) .. Len(f)
        BY <2>4, <2>5
      <4>2. SubSeq(f, 1, Len(c)) \o SubSeq(f, Len(c) + 1, Len(f)) = SubSeq(f, 1, Len(f))
        BY <2>3, <4>1, ConcatAdjacentSubSeq
      <4> QED
        BY <2>3, <4>2, SubSeqFull
    <3> HIDE DEF y
    <3>5. c \o y = EscapeVector(p) /\ y # <<>>
      <4>1. c \o y = EscapeVector(p)
        BY <3>1, <3>2, <3>4 DEF f
      <4>2. Len(y) # 0
        BY <2>4, <2>5, <3>3
      <4> QED
        BY <4>1, <4>2
    <3>6. UnescapeVector(c).size = 0
      BY <2>2, <3>3, <3>5, FrameWaits
    <3>7. <<>> \in Seq(Payloads) /\ us = <<>> \o us /\ c = <<>> \o c
      BY ConcatEmptySeq, EmptySeq
    <3>8. Good(us, c, <<>>, us, c)
      <4>1. us # <<>> /\ Len(c) < Len(EscapeVector(Head(us)))
        BY <2>0, <2>5 DEF f, p
      <4>2. Held(us, c)
        BY <3>6, <4>1 DEF Held
      <4> QED
        BY <2>1, <3>7, <4>2, StreamEmpty
    <3> QED
      BY <3>7, <3>8
  <2>6. CASE k <= Len(c)
    <3> DEFINE d == Drop(c, k)
    <3>1. d \in Seq(Bytes) /\ SubSeq(c, 1, k) \in Seq(Bytes)
      <4>1. k \in 0 .. Len(c)
        BY <2>4, <2>6
      <4>2. \A i \in 1 .. k : c[i] \in Bytes
        BY <2>4, <2>6, ElementOfSeq
      <4> QED
        BY <2>4, <4>1, <4>2, DropProperties, SubSeqProperties
    <3>2. SubSeq(c, 1, k) \o d = c
      <4>1. 1 \in 1 .. Len(c) + 1 /\ k \in 1 - 1 .. Len(c) /\ Len(c) \in k .. Len(c)
        BY <2>4, <2>6
      <4>2. SubSeq(c, 1, k) \o SubSeq(c, k + 1, Len(c)) = SubSeq(c, 1, Len(c))
        BY <4>1, ConcatAdjacentSubSeq
      <4> QED
        BY <4>2, SubSeqFull DEF Drop
    <3>3. SubSeq(st, 1, k) = f
      BY <2>2, <2>3, ConcatFirst
    <3>4. SubSeq(st, 1, k) = SubSeq(c, 1, k)
      <4>1. 1 \in Nat \ {0}
        OBVIOUS
      <4> QED
        BY <2>1, <2>4, <2>6, <4>1, ConcatWithin DEF st
    <3> HIDE DEF d, k
    <3>5. c = f \o d
      BY <3>2, <3>3, <3>4
    <3>6. d \o w = Stream(vs)
      <4>1. (f \o d) \o w = f \o (d \o w)
        <5>1. f \in ListsOf(Bytes) /\ d \in ListsOf(Bytes) /\ w \in ListsOf(Bytes)
          BY <2>3, <3>1 DEF ListsOf
        <5>2. Cat(Cat(f, d), w) = Cat(f, Cat(d, w))
          BY ONLY <5>1, Associate
        <5> QED
          BY ONLY <5>2, Zenon DEF Cat
      <4>2. f \o (d \o w) = f \o Stream(vs)
        BY <2>1, <2>2, <3>5, <4>1 DEF st
      <4>3. d \o w \in Seq(Bytes)
        BY <3>1, ConcatLength
      <4>4. Drop(f \o (d \o w), Len(f)) = d \o w
        BY <2>3, <4>3, DropConcat
      <4>5. Drop(f \o Stream(vs), Len(f)) = Stream(vs)
        BY <2>3, DropConcat
      <4> QED
        BY <4>2, <4>4, <4>5
    <3>7. Len(vs) = m
      BY <2>0, <2>2, LenProperties
    <3>8. PICK qs \in Seq(Payloads), rs \in Seq(Payloads), t \in Seq(Bytes) :
            Good(vs, d, qs, rs, t)
      <4>1. Some(vs, d)
        <5> HIDE DEF Some
        <5> QED
          BY <1>2, <2>2, <3>1, <3>7
      <4> QED
        BY <3>6, <4>1
    <3> DEFINE o == <<p>>
               qq == o \o qs
    <3>9. qq \in Seq(Payloads) /\ us = qq \o rs
      <4> HIDE DEF o
      <4>1. o \in Seq(Payloads) /\ us = o \o vs
        BY <2>2 DEF o
      <4>2. (o \o qs) \o rs = o \o (qs \o rs)
        <5>1. o \in ListsOf(Payloads) /\ qs \in ListsOf(Payloads) /\ rs \in ListsOf(Payloads)
          BY <4>1 DEF ListsOf
        <5>2. Cat(Cat(o, qs), rs) = Cat(o, Cat(qs, rs))
          BY ONLY <5>1, Associate
        <5> QED
          BY ONLY <5>2, Zenon DEF Cat
      <4>4. o \o qs \in Seq(Payloads)
        BY <4>1, ConcatLength
      <4>3. vs = qs \o rs
        BY <3>8
      <4> QED
        BY <4>1, <4>2, <4>3, <4>4
    <3>10. qq # <<>> /\ Head(qq) = p /\ Tail(qq) = qs
      BY <2>2
    <3> HIDE DEF qq
    <3>11. Stream(qq) = f \o Stream(qs) /\ Stream(qs) \in Seq(Bytes)
      BY <3>9, <3>10, StreamHead, FramesType DEF f
    <3>12. c = Stream(qq) \o t
      <4>1. d = Stream(qs) \o t
        BY <3>8
      <4>2. (f \o Stream(qs)) \o t = f \o (Stream(qs) \o t)
        <5>1. f \in ListsOf(Bytes) /\ Stream(qs) \in ListsOf(Bytes) /\ t \in ListsOf(Bytes)
          BY <2>3, <3>11 DEF ListsOf
        <5>2. Cat(Cat(f, Stream(qs)), t) = Cat(f, Cat(Stream(qs), t))
          BY ONLY <5>1, Associate
        <5> QED
          BY ONLY <5>2, Zenon DEF Cat
      <4> QED
        BY <3>5, <3>11, <4>1, <4>2
    <3>13. Good(us, c, qq, rs, t)
      BY <3>8, <3>9, <3>12
    <3> QED
      BY <3>9, <3>13
  <2>7. Len(c) < k \/ k <= Len(c)
    BY <2>4
  <2> HIDE DEF Good
  <2> QED
    BY <2>5, <2>6, <2>7
<1>3. Nat \subseteq T
  <2> HIDE DEF T
  <2> QED
    BY <1>1, <1>2, NumberInduction
<1>4. Len(ps) \in Nat
  BY LenProperties
<1>5. Some(ps, b)
  <2> HIDE DEF Some
  <2> QED
    BY <1>3, <1>4
<1> QED
  BY ONLY <1>5, Zenon DEF CutBetween, Cat

(***************************************************************************)
(* The link.                                                               *)
(***************************************************************************)

\* The datagrams on the way: what Channel calls its queue.
Rest == Drop(sent, Len(arrived))

Typed ==
  /\ sent \in Seq(Payloads) /\ arrived \in Seq(Payloads) /\ inboundData \in Seq(Payloads)
  /\ sendBuffer \in Seq(Seq(Bytes)) /\ wire \in Seq(Bytes)
  /\ recvBuffer \in Seq(Bytes) /\ rawInbound \in Seq(Seq(Bytes))

\* The bytes on the way, in the order of the stream.
Coming == (FlattenSeq(rawInbound) \o recvBuffer) \o wire \o FlattenSeq(sendBuffer)

\* A receiver in step: what has arrived is a prefix of what was sent, the bytes
\* on the way are the frames of the rest, and no whole frame is held back.
Sound ==
  /\ Typed
  /\ sent = arrived \o Rest /\ Coming = Stream(Rest)
  /\ rawInbound = <<>> \/ \E t \in Seq(Bytes) : rawInbound = <<t>> /\ Held(Rest, t)

\* A receiver out of step, and its excuse.
Excused == sent \in Seq(Payloads) /\ \E i \in 1 .. Len(sent) : sent[i] \in Fragile

\* The inductive invariant.
LinkInv == lost \in BOOLEAN /\ (lost => Excused) /\ (~ lost => Sound)

\* Ways to move a bracket.
LEMMA BracketsRight ==
  \A S : \A a, b, c, d \in ListsOf(S) : Cat(Cat(Cat(a, b), c), d) = Cat(Cat(a, b), Cat(c, d))
<1> SUFFICES ASSUME NEW S, NEW a \in ListsOf(S), NEW b \in ListsOf(S), NEW c \in ListsOf(S),
                    NEW d \in ListsOf(S)
             PROVE  Cat(Cat(Cat(a, b), c), d) = Cat(Cat(a, b), Cat(c, d))
  OBVIOUS
<1>1. Cat(a, b) \in ListsOf(S)
  BY ConcatLength DEF ListsOf, Cat
<1> QED
  BY <1>1, Associate

LEMMA ConcatAppend ==
  ASSUME NEW S, NEW a \in Seq(S), NEW b \in Seq(S), NEW e \in S
  PROVE  Append(a \o b, e) = a \o Append(b, e)
OBVIOUS

\* The rest is determined by what was sent and what has arrived.
LEMMA RestIs ==
  ASSUME NEW S, NEW a \in Seq(S), NEW r \in Seq(S)
  PROVE  Drop(a \o r, Len(a)) = r
BY ConcatLength, ConcatSecond DEF Drop

LEMMA PiecesFlat ==
  ASSUME rawInbound \in Seq(Seq(Bytes)), recvBuffer \in Seq(Bytes),
         recvBuffer = <<>> \/ ~ Repeated
  PROVE  /\ FlattenSeq(Pieces) = FlattenSeq(rawInbound) \o recvBuffer
         /\ FlattenSeq(Pieces) \in Seq(Bytes) /\ FlattenSeq(rawInbound) \in Seq(Bytes)
<1>1. FlattenSeq(rawInbound) \in Seq(Bytes)
  BY FlattenType
<1>2. FlattenSeq(Pieces) = FlattenSeq(rawInbound) \o recvBuffer
  <2>1. CASE recvBuffer = <<>>
    BY <1>1, <2>1, ConcatEmptySeq DEF Pieces
  <2>2. CASE recvBuffer # <<>>
    BY <2>2, FlattenAppend DEF Pieces
  <2> QED
    BY <2>1, <2>2
<1> QED
  BY <1>1, <1>2, ConcatLength

LEMMA RestType ==
  ASSUME Sound
  PROVE  /\ Rest \in Seq(Payloads) /\ Len(arrived) \in 0 .. Len(sent)
         /\ Len(sent) \in Nat /\ Len(Rest) = Len(sent) - Len(arrived)
         /\ \A i \in 1 .. Len(Rest) : Rest[i] = sent[Len(arrived) + i]
<1> DEFINE m == Len(arrived)
           n == Len(sent)
<1>1. m \in Nat /\ n \in Nat /\ sent \in Seq(Payloads)
  BY LenProperties DEF Sound, Typed
<1>2. \A i \in m + 1 .. n : sent[i] \in Payloads
  BY <1>1, ElementOfSeq
<1>3. /\ Rest \in Seq(Payloads)
      /\ Len(Rest) = IF m + 1 <= n THEN n - (m + 1) + 1 ELSE 0
      /\ \A i \in 1 .. n - (m + 1) + 1 : Rest[i] = sent[(m + 1) + i - 1]
  BY <1>1, <1>2, SubSeqProperties DEF Rest, Drop
<1>4. Len(sent) = m + Len(Rest)
  BY <1>3, ConcatLength DEF Sound, Typed
<1>5. m <= n /\ Len(Rest) = n - m
  BY <1>1, <1>3, <1>4
<1>6. ASSUME NEW i \in 1 .. Len(Rest) PROVE Rest[i] = sent[m + i]
  <2>1. i \in 1 .. n - (m + 1) + 1 /\ (m + 1) + i - 1 = m + i
    BY <1>1, <1>5
  <2> QED
    BY <1>3, <2>1
<1> QED
  BY <1>1, <1>3, <1>5, <1>6

LEMMA LinkInit == Init => LinkInv
<1> SUFFICES ASSUME Init PROVE LinkInv
  OBVIOUS
<1>1. Typed
  BY DEF Init, Typed
<1>2. /\ arrived = <<>> /\ sent = <<>> /\ wire = <<>> /\ sendBuffer = <<>> /\ lost = FALSE
      /\ rawInbound = <<>> /\ recvBuffer = <<>>
  BY DEF Init
<1>3. Rest = <<>>
  BY <1>2 DEF Rest, Drop
<1>4. Coming = <<>>
  BY <1>2, FlattenEmpty DEF Coming
<1>5. Sound
  BY <1>1, <1>2, <1>3, <1>4, StreamEmpty DEF Sound
<1> QED
  BY <1>2, <1>5 DEF LinkInv

\* What the channel sees of a step.
ChannelStep == \/ \E p \in Payloads : Rest' = Append(Rest, p) /\ arrived' = arrived
               \/ \E n \in 1 .. Len(Rest) : /\ arrived' = arrived \o SubSeq(Rest, 1, n)
                                            /\ Rest' = SubSeq(Rest, n + 1, Len(Rest))
               \/ Rest' = Rest /\ arrived' = arrived

LEMMA SendStep ==
  ASSUME Sound, Send
  PROVE  Sound' /\ ChannelStep
<1>1. PICK p \in Payloads : /\ sendBuffer' = Append(sendBuffer, EscapeVector(p))
                            /\ sent' = Append(sent, p)
  BY DEF Send
<1>2. /\ wire' = wire /\ recvBuffer' = recvBuffer /\ rawInbound' = rawInbound
      /\ inboundData' = inboundData /\ arrived' = arrived
  BY DEF Send, dev
<1> DEFINE f == EscapeVector(p)
<1>3. f \in Seq(Bytes)
  BY FrameShape
<1> HIDE DEF f
<1>4. Typed'
  BY <1>1, <1>2, <1>3 DEF Sound, Typed, f
<1>5. Rest \in Seq(Payloads)
  BY RestType
<1>6. sent' = arrived \o Append(Rest, p) /\ Append(Rest, p) \in Seq(Payloads)
  <2>1. sent = arrived \o Rest /\ arrived \in Seq(Payloads) /\ sent' = Append(sent, p)
    BY <1>1 DEF Sound, Typed
  <2> HIDE DEF Rest
  <2>2. Append(arrived \o Rest, p) = arrived \o Append(Rest, p)
    BY <1>5, <2>1, ConcatAppend
  <2> QED
    BY <1>5, <2>1, <2>2
<1>7. Rest' = Append(Rest, p)
  <2>1. arrived \in Seq(Payloads)
    BY DEF Sound, Typed
  <2>2. Drop(arrived \o Append(Rest, p), Len(arrived)) = Append(Rest, p)
    BY <1>6, <2>1, RestIs
  <2> QED
    BY <1>2, <1>6, <2>2 DEF Rest
<1>8. Coming' = Stream(Rest')
  <2> DEFINE b == FlattenSeq(rawInbound) \o recvBuffer
             s == FlattenSeq(sendBuffer)
  <2>1. /\ b \in Seq(Bytes) /\ s \in Seq(Bytes) /\ wire \in Seq(Bytes)
        /\ (b \o wire) \o s = Stream(Rest)
    BY FlattenType, ConcatLength DEF Sound, Typed, Coming
  <2>2. FlattenSeq(sendBuffer') = s \o f
    BY <1>1, <1>3, FlattenAppend DEF Sound, Typed, f
  <2>3. Coming' = (b \o wire) \o (s \o f)
    BY <1>2, <2>2 DEF Coming
  <2>4. Stream(Rest') = Stream(Rest) \o f
    BY <1>5, <1>7, StreamAppend DEF f
  <2> HIDE DEF b, s
  <2>5. ((b \o wire) \o s) \o f = (b \o wire) \o (s \o f)
    <3>1. /\ b \in ListsOf(Bytes) /\ wire \in ListsOf(Bytes) /\ s \in ListsOf(Bytes)
          /\ f \in ListsOf(Bytes)
      BY <1>3, <2>1 DEF ListsOf
    <3>2. Cat(Cat(Cat(b, wire), s), f) = Cat(Cat(b, wire), Cat(s, f))
      BY ONLY <3>1, BracketsRight
    <3> QED
      BY ONLY <3>2, Zenon DEF Cat
  <2> QED
    BY <2>1, <2>3, <2>4, <2>5
<1>9. ASSUME NEW t \in Seq(Bytes), Held(Rest, t) PROVE Held(Rest', t)
  <2>1. Rest # <<>> => Rest' # <<>> /\ Head(Rest') = Head(Rest)
    BY <1>5, <1>7
  <2> QED
    BY <1>9, <2>1 DEF Held
<1>10. rawInbound' = <<>> \/ \E t \in Seq(Bytes) : rawInbound' = <<t>> /\ Held(Rest', t)
  BY <1>2, <1>9 DEF Sound
<1>11. sent' = arrived' \o Rest'
  BY <1>2, <1>6, <1>7
<1> QED
  BY <1>2, <1>4, <1>7, <1>8, <1>10, <1>11 DEF Sound, ChannelStep

\* A step that moves bytes along the stream.
LEMMA MoveStep ==
  ASSUME Sound, Typed', UNCHANGED <<sent, arrived, rawInbound>>, Coming' = Coming
  PROVE  Sound' /\ ChannelStep
<1>1. Rest' = Rest
  BY DEF Rest
<1> QED
  BY <1>1 DEF Sound, ChannelStep

LEMMA SendThreadStep ==
  ASSUME Sound, SendThread
  PROVE  Sound' /\ ChannelStep
<1> DEFINE h == Head(sendBuffer)
           r == Tail(sendBuffer)
           b == FlattenSeq(rawInbound) \o recvBuffer
           s == FlattenSeq(r)
<1>1. /\ wire' = wire \o h /\ sendBuffer' = r /\ sendBuffer # <<>>
      /\ recvBuffer' = recvBuffer /\ rawInbound' = rawInbound
      /\ UNCHANGED <<inboundData, sent, arrived>>
  BY DEF SendThread, dev
<1>2. h \in Seq(Bytes) /\ r \in Seq(Seq(Bytes)) /\ wire \in Seq(Bytes)
  BY <1>1, HeadTailProperties DEF Sound, Typed
<1>3. b \in Seq(Bytes) /\ s \in Seq(Bytes)
  <2> HIDE DEF r
  <2> QED
    BY <1>2, FlattenType, ConcatLength DEF Sound, Typed
<1>4. Coming = (b \o wire) \o (h \o s)
  BY <1>1, FlattenHead DEF Sound, Typed, Coming
<1>5. Coming' = (b \o (wire \o h)) \o s
  BY <1>1 DEF Coming
<1> HIDE DEF h, r, b, s
<1>6. (b \o wire) \o (h \o s) = (b \o (wire \o h)) \o s
  <2>1. (b \o wire) \o h = b \o (wire \o h)
    <3>1. b \in ListsOf(Bytes) /\ wire \in ListsOf(Bytes) /\ h \in ListsOf(Bytes)
      BY <1>2, <1>3 DEF ListsOf
    <3>2. Cat(Cat(b, wire), h) = Cat(b, Cat(wire, h))
      BY ONLY <3>1, Associate
    <3> QED
      BY ONLY <3>2, Zenon DEF Cat
  <2>2. ((b \o wire) \o h) \o s = (b \o wire) \o (h \o s)
    <3> DEFINE x == b \o wire
    <3>1. x \in ListsOf(Bytes) /\ h \in ListsOf(Bytes) /\ s \in ListsOf(Bytes)
      BY <1>2, <1>3, ConcatLength DEF ListsOf
    <3> HIDE DEF x
    <3>2. Cat(Cat(x, h), s) = Cat(x, Cat(h, s))
      BY ONLY <3>1, Associate
    <3>3. (x \o h) \o s = x \o (h \o s)
      BY ONLY <3>2, Zenon DEF Cat
    <3> QED
      BY <3>3 DEF x
  <2> QED
    BY <2>1, <2>2
<1>7. Typed'
  BY <1>1, <1>2, ConcatLength DEF Sound, Typed
<1>8. Coming' = Coming
  BY <1>4, <1>5, <1>6
<1> QED
  BY <1>1, <1>7, <1>8, MoveStep

LEMMA RecvThreadStep ==
  ASSUME Sound, RecvThread
  PROVE  Sound' /\ ChannelStep
<1>1. PICK n \in 1 .. Len(wire) : /\ recvBuffer' = recvBuffer \o SubSeq(wire, 1, n)
                                  /\ wire' = Drop(wire, n)
  BY DEF RecvThread
<1> DEFINE a == SubSeq(wire, 1, n)
           w == Drop(wire, n)
           b == FlattenSeq(rawInbound)
           s == FlattenSeq(sendBuffer)
<1>2. /\ sendBuffer' = sendBuffer /\ rawInbound' = rawInbound
      /\ UNCHANGED <<inboundData, sent, arrived>>
  BY DEF RecvThread, dev
<1>3. a \in Seq(Bytes) /\ w \in Seq(Bytes) /\ wire = a \o w /\ recvBuffer \in Seq(Bytes)
  <2>1. wire \in Seq(Bytes) /\ recvBuffer \in Seq(Bytes) /\ Len(wire) \in Nat /\ n \in 0 .. Len(wire)
    BY LenProperties DEF Sound, Typed
  <2>2. \A i \in 1 .. n : wire[i] \in Bytes
    BY <2>1, ElementOfSeq
  <2>3. a \in Seq(Bytes) /\ w \in Seq(Bytes)
    BY <2>1, <2>2, SubSeqProperties, DropProperties
  <2>4. 1 \in 1 .. Len(wire) + 1 /\ n \in 1 - 1 .. Len(wire) /\ Len(wire) \in n .. Len(wire)
    BY <2>1
  <2>5. SubSeq(wire, 1, n) \o SubSeq(wire, n + 1, Len(wire)) = SubSeq(wire, 1, Len(wire))
    BY <2>1, <2>4, ConcatAdjacentSubSeq
  <2> QED
    BY <2>1, <2>3, <2>5, SubSeqFull DEF Drop
<1>4. b \in Seq(Bytes) /\ s \in Seq(Bytes)
  BY FlattenType DEF Sound, Typed
<1>5. Typed'
  BY <1>1, <1>2, <1>3, ConcatLength DEF Sound, Typed
<1> DEFINE r == recvBuffer
<1>6. Coming = ((b \o r) \o (a \o w)) \o s
  BY <1>3 DEF Coming
<1>7. Coming' = ((b \o (r \o a)) \o w) \o s
  BY <1>1, <1>2 DEF Coming
<1>8. (b \o r) \o (a \o w) = (b \o (r \o a)) \o w
  <2> HIDE DEF a, w, b, s
  <2>1. b \in Seq(Bytes) /\ r \in Seq(Bytes) /\ a \in Seq(Bytes) /\ w \in Seq(Bytes)
    BY <1>3, <1>4
  <2> HIDE DEF r
  <2>2. (b \o r) \o a = b \o (r \o a)
    <3>1. b \in ListsOf(Bytes) /\ r \in ListsOf(Bytes) /\ a \in ListsOf(Bytes)
      BY <2>1 DEF ListsOf
    <3>2. Cat(Cat(b, r), a) = Cat(b, Cat(r, a))
      BY ONLY <3>1, Associate
    <3> QED
      BY ONLY <3>2, Zenon DEF Cat
  <2>3. ((b \o r) \o a) \o w = (b \o r) \o (a \o w)
    <3>1. b \o r \in ListsOf(Bytes) /\ a \in ListsOf(Bytes) /\ w \in ListsOf(Bytes)
      BY <2>1, ConcatLength DEF ListsOf
    <3>2. Cat(Cat(b \o r, a), w) = Cat(b \o r, Cat(a, w))
      BY ONLY <3>1, Associate
    <3> QED
      BY ONLY <3>2, Zenon DEF Cat
  <2> QED
    BY <2>2, <2>3
<1>9. Coming' = Coming
  BY <1>6, <1>7, <1>8
<1> QED
  BY <1>2, <1>5, <1>9, MoveStep

\* RECV_ALL when no piece is dropped.
LEMMA RecvAllStep ==
  ASSUME Sound, RecvAll, recvBuffer = <<>> \/ ~ Repeated
  PROVE  Sound' /\ ChannelStep
<1> DEFINE b == FlattenSeq(Pieces)
           s == FlattenSeq(sendBuffer)
           w == wire \o s
<1>1. b \in Seq(Bytes) /\ s \in Seq(Bytes) /\ wire \in Seq(Bytes) /\ w \in Seq(Bytes)
  BY FlattenType, PiecesFlat, ConcatLength DEF Sound, Typed
<1>2. b \o w = Stream(Rest) /\ Rest \in Seq(Payloads)
  <2>1. (b \o wire) \o s = b \o (wire \o s)
    <3> HIDE DEF b, s
    <3>1. b \in ListsOf(Bytes) /\ wire \in ListsOf(Bytes) /\ s \in ListsOf(Bytes)
      BY <1>1 DEF ListsOf
    <3>2. Cat(Cat(b, wire), s) = Cat(b, Cat(wire, s))
      BY ONLY <3>1, Associate
    <3> QED
      BY ONLY <3>2, Zenon DEF Cat
  <2> QED
    BY <2>1, RestType, PiecesFlat DEF Sound, Typed, Coming
<1>3. PICK qs \in Seq(Payloads), rs \in Seq(Payloads), t \in Seq(Bytes) :
        /\ Rest = qs \o rs
        /\ b = Stream(qs) \o t /\ t \o w = Stream(rs)
        /\ Held(rs, t)
  <2> DEFINE r == Rest
  <2>1. b \in Seq(Bytes) /\ w \in Seq(Bytes) /\ r \in Seq(Payloads) /\ b \o w = Stream(r)
    BY <1>1, <1>2
  <2> HIDE DEF b, w, r, Rest
  <2>2. Cat(b, w) = Stream(r)
    BY ONLY <2>1, Zenon DEF Cat
  <2>3. CutBetween(r, b, w)
    BY ONLY <2>1, <2>2, CutAnywhere
  <2> QED
    BY ONLY <2>3, Zenon DEF CutBetween, r
<1>4. UnescapeAllVectors(b) = [list |-> qs, rest |-> t]
  BY <1>3, WholeFramesCut DEF Held
<1>5. /\ recvBuffer' = <<>> /\ sendBuffer' = sendBuffer /\ wire' = wire /\ sent' = sent
      /\ rawInbound' = <<t>> /\ inboundData' = inboundData \o qs /\ arrived' = arrived \o qs
  <2> DEFINE cut == UnescapeAllVectors(b)
  <2>0. ~ Throws(t)
    BY <1>1, <1>3, HeldBegins
  <2>3. cut.list = qs /\ cut.rest = t
    BY <1>4
  <2> HIDE DEF cut
  <2>1. /\ rawInbound' = <<cut.rest>> /\ inboundData' = inboundData \o cut.list
        /\ arrived' = arrived \o cut.list
    BY <2>0, <2>3 DEF RecvAll, cut
  <2>4. recvBuffer' = <<>> /\ sendBuffer' = sendBuffer /\ wire' = wire /\ sent' = sent
    BY DEF RecvAll
  <2> QED
    BY <2>1, <2>3, <2>4
<1> HIDE DEF b, s, w
<1>6. Typed'
  <2>1. <<t>> \in Seq(Seq(Bytes)) /\ <<>> \in Seq(Bytes)
    OBVIOUS
  <2> QED
    BY <1>5, <2>1, ConcatLength DEF Sound, Typed
<1>7. Coming' = Stream(rs)
  <2>2. FlattenSeq(rawInbound') \o recvBuffer' = t
    BY <1>5, FlattenOne, ConcatEmptySeq
  <2>3. Coming' = (t \o wire) \o s
    BY <1>5, <2>2 DEF Coming, s
  <2>4. (t \o wire) \o s = t \o (wire \o s)
    <3>1. t \in ListsOf(Bytes) /\ wire \in ListsOf(Bytes) /\ s \in ListsOf(Bytes)
      BY <1>1 DEF ListsOf
    <3>2. Cat(Cat(t, wire), s) = Cat(t, Cat(wire, s))
      BY ONLY <3>1, Associate
    <3> QED
      BY ONLY <3>2, Zenon DEF Cat
  <2> QED
    BY <1>3, <2>3, <2>4 DEF w
<1>8. sent' = arrived' \o rs /\ Rest' = rs
  <2>1. sent = arrived \o (qs \o rs) /\ arrived \in Seq(Payloads)
    BY <1>3 DEF Sound, Typed
  <2>2. (arrived \o qs) \o rs = arrived \o (qs \o rs)
    <3>1. arrived \in ListsOf(Payloads) /\ qs \in ListsOf(Payloads) /\ rs \in ListsOf(Payloads)
      BY <2>1 DEF ListsOf
    <3>2. Cat(Cat(arrived, qs), rs) = Cat(arrived, Cat(qs, rs))
      BY ONLY <3>1, Associate
    <3> QED
      BY ONLY <3>2, Zenon DEF Cat
  <2>3. arrived \o qs \in Seq(Payloads)
    BY <2>1, ConcatLength
  <2>4. Drop((arrived \o qs) \o rs, Len(arrived \o qs)) = rs
    BY <2>3, RestIs
  <2> QED
    BY <1>5, <2>1, <2>2, <2>4 DEF Rest
<1>9. Sound'
  BY <1>3, <1>5, <1>6, <1>7, <1>8 DEF Sound
<1>10. ChannelStep
  <2>1. CASE qs = <<>>
    <3>1. Rest = rs /\ arrived' = arrived
      BY <1>3, <1>5, <2>1, ConcatEmptySeq DEF Sound, Typed
    <3> QED
      BY <1>8, <3>1 DEF ChannelStep
  <2>2. CASE qs # <<>>
    <3> DEFINE n == Len(qs)
               r == Rest
    <3>1. /\ Len(r) = n + Len(rs) /\ n \in Nat /\ Len(rs) \in Nat /\ n # 0
          /\ SubSeq(r, 1, n) = qs /\ SubSeq(r, n + 1, n + Len(rs)) = rs
      <4>1. r = qs \o rs
        BY <1>3
      <4> HIDE DEF r
      <4> QED
        BY <2>2, <4>1, EmptySeq, ConcatLength, ConcatFirst, ConcatSecond
    <3>2. n \in 1 .. Len(r)
      BY <3>1
    <3>3. arrived' = arrived \o SubSeq(r, 1, n) /\ Rest' = SubSeq(r, n + 1, Len(r))
      BY <1>5, <1>8, <3>1
    <3> QED
      BY <3>2, <3>3 DEF ChannelStep
  <2> QED
    BY <2>1, <2>2
<1> QED
  BY <1>9, <1>10

\* RECV_ALL when the piece that has arrived is dropped: it equals what is held,
\* so the datagram that is being received is Fragile.  Nothing else happens.
LEMMA LossStep ==
  ASSUME Sound, RecvAll, recvBuffer # <<>>, Repeated
  PROVE  /\ Rest # <<>> /\ Head(Rest) \in Fragile /\ UNCHANGED <<sent, arrived>>
         /\ Excused
<1>1. PICK t \in Seq(Bytes) : rawInbound = <<t>> /\ Held(Rest, t)
  <2>1. rawInbound # <<>>
    BY DEF Repeated, ToSet
  <2> QED
    BY <2>1 DEF Sound
<1>2. recvBuffer = t /\ t # <<>>
  BY <1>1 DEF Repeated, ToSet
<1> DEFINE p == Head(Rest)
           f == EscapeVector(p)
           c == Stream(Rest)
           g == Beginning(p)
           k == Len(t)
           w == wire \o FlattenSeq(sendBuffer)
<1>3. Rest \in Seq(Payloads) /\ Rest # <<>> /\ k < Len(f)
  BY <1>1, <1>2, RestType DEF Held
<1>4. w \in Seq(Bytes) /\ c = (t \o t) \o w
  <2> DEFINE s == FlattenSeq(sendBuffer)
             tt == t \o t
  <2>1. s \in Seq(Bytes) /\ wire \in Seq(Bytes)
    BY FlattenType DEF Sound, Typed
  <2>2. c = (tt \o wire) \o s
    BY <1>1, <1>2, FlattenOne DEF Sound, Coming
  <2>3. tt \in Seq(Bytes)
    BY ConcatLength
  <2> HIDE DEF s, tt, c
  <2>4. (tt \o wire) \o s = tt \o (wire \o s)
    <3>1. tt \in ListsOf(Bytes) /\ wire \in ListsOf(Bytes) /\ s \in ListsOf(Bytes)
      BY <2>1, <2>3 DEF ListsOf
    <3>2. Cat(Cat(tt, wire), s) = Cat(tt, Cat(wire, s))
      BY ONLY <3>1, Associate
    <3> QED
      BY ONLY <3>2, Zenon DEF Cat
  <2> QED
    BY <2>1, <2>2, <2>4, ConcatLength DEF s, tt
<1>5. /\ p \in Payloads /\ Len(f) \in Nat /\ Len(g) = Len(f) + 1
      /\ \A j \in 1 .. Len(c) : j <= Len(f) + 1 => c[j] = g[j]
  BY <1>3, StreamBegins
<1> HIDE DEF p, f, c, g, w
<1>6. /\ k \in Nat /\ k # 0
      /\ \A i \in 1 .. k : i \in 1 .. Len(c) /\ k + i \in 1 .. Len(c) /\ c[k + i] = c[i]
  <2> DEFINE tt == t \o t
  <2>1. k \in Nat /\ k # 0
    BY <1>2, LenProperties
  <2>2. /\ tt \in Seq(Bytes) /\ Len(tt) = k + k
        /\ \A i \in 1 .. k : tt[i] = t[i] /\ tt[k + i] = t[i]
    BY ConcatAt
  <2> HIDE DEF tt
  <2>3. /\ Len(c) = (k + k) + Len(w) /\ Len(w) \in Nat
        /\ \A i \in 1 .. k + k : c[i] = tt[i]
    BY <1>4, <2>2, ConcatAt DEF tt
  <2> HIDE DEF k
  <2>4. ASSUME NEW i \in 1 .. k
        PROVE  /\ i \in 1 .. Len(c) /\ k + i \in 1 .. Len(c)
               /\ i \in 1 .. k + k /\ k + i \in 1 .. k + k
    BY <2>1, <2>3
  <2> QED
    BY <2>1, <2>2, <2>3, <2>4
<1> HIDE DEF k
<1>7. ASSUME NEW i \in 1 .. k, k + i <= Len(g) PROVE g[k + i] = g[i]
  <2>1. i <= Len(f) + 1 /\ k + i <= Len(f) + 1
    BY <1>3, <1>5, <1>6, <1>7
  <2> QED
    BY <1>5, <1>6, <2>1
<1>8. k \in 1 .. (Len(g) - 2)
  BY <1>3, <1>5, <1>6
<1>9. p \in Fragile
  BY <1>5, <1>7, <1>8 DEF Fragile, g
<1>10. UNCHANGED <<sent, arrived>>
  <2> DEFINE cut == UnescapeAllVectors(t)
  <2>1. FlattenSeq(Pieces) = t
    BY <1>1, FlattenOne DEF Pieces
  <2>2. cut = [list |-> <<>>, rest |-> t]
    <3>1. <<>> \in Seq(Payloads) /\ Stream(<<>>) \o t = t
      BY StreamEmpty, ConcatEmptySeq
    <3>2. UnescapeAllVectors(Stream(<<>>) \o t) = [list |-> <<>>, rest |-> t]
      BY <1>1, <3>1, WholeFramesCut DEF Held
    <3> QED
      BY <3>1, <3>2
  <2>3. cut.list = <<>>
    BY <2>2
  <2> HIDE DEF cut
  <2>4. arrived' = arrived \o cut.list \/ arrived' = arrived
    BY <2>1 DEF RecvAll, cut
  <2> QED
    BY <2>3, <2>4, ConcatEmptySeq DEF RecvAll, Sound, Typed
<1>11. Excused
  <2>1. /\ Len(arrived) \in Nat /\ Len(Rest) = Len(sent) - Len(arrived) /\ Len(sent) \in Nat
        /\ \A i \in 1 .. Len(Rest) : Rest[i] = sent[Len(arrived) + i]
    BY RestType
  <2>2. 1 \in 1 .. Len(Rest) /\ Rest[1] = p
    BY <1>3, EmptySeq, HeadTailProperties DEF p
  <2>3. Len(arrived) + 1 \in 1 .. Len(sent) /\ sent[Len(arrived) + 1] \in Fragile
    <3> HIDE DEF Rest
    <3> QED
      BY <1>9, <2>1, <2>2
  <2> QED
    BY <2>3 DEF Excused, Sound, Typed
<1> QED
  BY <1>3, <1>9, <1>10, <1>11 DEF p

\* A receiver out of step stays out of step.
LEMMA LostStep ==
  ASSUME LinkInv, lost, [Next]_vars
  PROVE  LinkInv' /\ lost'
<1>1. lost' \in BOOLEAN /\ lost'
  BY DEF LinkInv, Next, Send, SendThread, RecvThread, RecvAll, Take, vars
<1>2. Excused'
  <2>1. CASE sent' = sent
    BY <2>1 DEF LinkInv, Excused
  <2>2. CASE Send
    <3>1. PICK p \in Payloads : sent' = Append(sent, p)
      BY <2>2 DEF Send
    <3>2. sent \in Seq(Payloads)
      BY DEF LinkInv, Excused
    <3>3. PICK i \in 1 .. Len(sent) : sent[i] \in Fragile
      BY DEF LinkInv, Excused
    <3>4. sent' \in Seq(Payloads) /\ i \in 1 .. Len(sent') /\ sent'[i] = sent[i]
      BY <3>1, <3>2, AppendProperties
    <3> QED
      BY <3>3, <3>4 DEF Excused
  <2> QED
    BY <2>1, <2>2 DEF Next, SendThread, RecvThread, RecvAll, Take, vars
<1> QED
  BY <1>1, <1>2 DEF LinkInv

\* What the channel of datagrams sees of a step.
LinkChannelStep ==
  \/ ~ lost /\ ChannelStep /\ lost' = lost
  \/ ~ lost /\ Rest # <<>> /\ Head(Rest) \in Fragile /\ lost' = TRUE
     /\ Rest' = Rest /\ arrived' = arrived
  \/ lost /\ lost'

LEMMA SoundStep ==
  ASSUME Sound, lost = FALSE, [Next]_vars
  PROVE  IF lost' = lost THEN Sound' /\ ChannelStep
         ELSE lost' = TRUE /\ Excused' /\ LinkChannelStep
<1>1. CASE Send
  BY <1>1, SendStep DEF Send
<1>2. CASE SendThread
  BY <1>2, SendThreadStep DEF SendThread
<1>3. CASE RecvThread
  BY <1>3, RecvThreadStep DEF RecvThread
<1>4. CASE RecvAll /\ (recvBuffer = <<>> \/ ~ Repeated)
  <2>1. lost' = lost
    BY <1>4 DEF RecvAll
  <2> QED
    BY <1>4, <2>1, RecvAllStep
<1>6. CASE RecvAll /\ recvBuffer # <<>> /\ Repeated
  <2>1. lost' = TRUE
    BY <1>6 DEF RecvAll
  <2>2. /\ Rest # <<>> /\ Head(Rest) \in Fragile /\ UNCHANGED <<sent, arrived>>
        /\ Excused
    BY <1>6, LossStep
  <2>3. Rest' = Rest /\ Excused'
    BY <2>2 DEF Rest, Excused
  <2> QED
    BY <2>1, <2>2, <2>3 DEF LinkChannelStep
<1>5. CASE Take \/ UNCHANGED vars
  <2>1. /\ UNCHANGED <<sendBuffer, wire, recvBuffer, rawInbound, sent, arrived>>
        /\ inboundData' \in {<<>>, inboundData} /\ lost' = lost
    BY <1>5 DEF Take, vars, link, dev
  <2>2. Coming' = Coming
    BY <2>1 DEF Coming
  <2>3. Typed'
    <3>1. <<>> \in Seq(Payloads)
      OBVIOUS
    <3>2. inboundData' \in Seq(Payloads)
      BY <2>1, <3>1 DEF Sound, Typed
    <3> QED
      BY <2>1, <3>2 DEF Sound, Typed
  <2> QED
    BY <2>1, <2>2, <2>3, MoveStep
<1> QED
  BY <1>1, <1>2, <1>3, <1>4, <1>5, <1>6 DEF Next

LEMMA LinkStep ==
  ASSUME LinkInv, [Next]_vars
  PROVE  LinkInv' /\ LinkChannelStep
<1>1. CASE lost
  BY <1>1, LostStep DEF LinkChannelStep
<1>2. CASE ~ lost
  <2>1. Sound /\ lost = FALSE
    BY <1>2 DEF LinkInv
  <2>2. CASE lost' = lost
    BY <1>2, <2>1, <2>2, SoundStep DEF LinkInv, LinkChannelStep
  <2>3. CASE lost' # lost
    BY <1>2, <2>1, <2>3, SoundStep DEF LinkInv
  <2> QED
    BY <2>2, <2>3
<1> QED
  BY <1>1, <1>2

LEMMA LinkInvariant == Spec => []LinkInv
<1>1. Init => LinkInv
  BY LinkInit
<1>2. LinkInv /\ [Next]_vars => LinkInv'
  BY LinkStep
<1> QED
  BY <1>1, <1>2, PTL DEF Spec

LEMMA InvInStep == LinkInv => InStep
<1> SUFFICES ASSUME LinkInv PROVE InStep
  OBVIOUS
<1>1. CASE lost
  <2>1. DOMAIN sent = 1 .. Len(sent)
    BY <1>1, LenProperties DEF LinkInv, Excused
  <2> QED
    BY <1>1, <2>1 DEF LinkInv, Excused, InStep
<1>2. CASE ~ lost
  <2> DEFINE n == Len(sent) - Len(arrived)
             f == [i \in 1 .. n |-> EscapeVector(sent[Len(arrived) + i])]
  <2>1. Sound
    BY <1>2 DEF LinkInv
  <2>2. DOMAIN Rest = 1 .. n /\ \A i \in 1 .. n : Rest[i] = sent[Len(arrived) + i]
    BY <2>1, RestType, LenProperties
  <2>3. Frames(Rest) = f
    BY <2>2 DEF Frames
  <2>4. Coming = FlattenSeq(f)
    BY <2>1, <2>3 DEF Sound, Stream
  <2> QED
    BY <1>2, <2>4 DEF InStep, Coming
<1> QED
  BY <1>1, <1>2

\* The receiver keeps its place in the stream, however TCP cuts it and whatever
\* bytes the payloads contain, and only a Fragile datagram can cost it: for
\* every set of payloads and any number of datagrams.
THEOREM LinkInStep == Spec => []InStep
BY LinkInvariant, InvInStep, PTL

\* The link implements a channel of datagrams: they arrive unchanged, once, and
\* in the order in which they were sent, until a Fragile one breaks it.
THEOREM LinkImplementsChannel == Spec => ImplementsChannel
<1>1. Init => Channel!Init
  BY DEF Init, Channel!Init, Drop
<1>2. LinkInv /\ [Next]_vars => [Channel!Next]_Channel!vars
  <2> SUFFICES ASSUME LinkInv, [Next]_vars PROVE [Channel!Next]_Channel!vars
    OBVIOUS
  <2>1. LinkChannelStep
    BY LinkStep
  <2> QED
    BY <2>1 DEF LinkChannelStep, ChannelStep, Rest, Channel!Next, Channel!Send,
       Channel!Arrive, Channel!Break, Channel!AnyBroken, Channel!vars
<1> QED
  BY <1>1, <1>2, LinkInvariant, PTL DEF Spec, ImplementsChannel, Channel!Spec

=============================================================================

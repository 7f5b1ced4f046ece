---------------------------- MODULE StationProofs ---------------------------
(***************************************************************************)
(* The TV of a node, for any clip, meters, lists and times: the invariant  *)
(* of the station (StationInv), the walk to a moment, which always ends    *)
(* (WalkEnds), what is heard once play has been run (SoundInv), and what a *)
(* recorder leaves behind (RecordInv). NodeProofs carries them to the      *)
(* node.                                                                   *)
(***************************************************************************)
EXTENDS Station, SequenceLemmas

(***************************************************************************)
(* The sink reads lines: what the lines in its buffer are, and one more or *)
(* less.                                                                   *)
(***************************************************************************)

\* A sample, and the state of reading a line.
SampleSet == [value : Nat, time : Nat]
ReadSet   == [items : Seq(Seq(Int)), rest : Seq(Int)]

\* Reading an item adds one to the items read.
LEMMA PullItemType ==
  ASSUME NEW acc \in ReadSet, NEW d \in Int
  PROVE  /\ PullItem(acc, d) \in ReadSet
         /\ Len(PullItem(acc, d).items) = Len(acc.items) + 1
<1> DEFINE i == Position(acc.rest, d)
           s == acc.rest
<1>1. s \in Seq(Int) /\ acc.items \in Seq(Seq(Int)) /\ Len(s) \in Nat
  BY DEF ReadSet
<1>2. PullItem(acc, d) = IF i = 0 THEN [acc EXCEPT !.items = Append(@, <<>>)]
                         ELSE [items |-> Append(acc.items, SubSeq(s, 1, i - 1)),
                               rest  |-> SubSeq(s, i + 1, Len(s))]
  BY DEF PullItem, Position
<1>3. i = 0 \/ i \in 1 .. Len(s)
  BY <1>1, PositionFound
<1> HIDE DEF i, s
<1>4. CASE i = 0
  <2>1. <<>> \in Seq(Int)
    OBVIOUS
  <2>2. Append(acc.items, <<>>) \in Seq(Seq(Int)) /\ Len(Append(acc.items, <<>>)) = Len(acc.items) + 1
    BY <1>1, <2>1, AppendProperties
  <2> QED
    BY <1>2, <1>4, <2>2 DEF ReadSet
<1>5. CASE i # 0
  <2>0. i \in 1 .. Len(s)
    BY <1>3, <1>5
  <2>1. SubSeq(s, 1, i - 1) \in Seq(Int) /\ SubSeq(s, i + 1, Len(s)) \in Seq(Int)
    BY <1>1, <2>0
  <2>2. /\ Append(acc.items, SubSeq(s, 1, i - 1)) \in Seq(Seq(Int))
        /\ Len(Append(acc.items, SubSeq(s, 1, i - 1))) = Len(acc.items) + 1
    BY <1>1, <2>1, AppendProperties
  <2> QED
    BY <1>2, <1>5, <2>1, <2>2 DEF ReadSet
<1> QED
  BY <1>4, <1>5

\* The four items of a line are read one after the other.
ReadFirst(b) == PullItem(PullItem([items |-> <<>>, rest |-> b], Space), Space)
ReadFour(b) == PullItem(PullItem(ReadFirst(b), Space), LineFeed)

\* ReadItems reads four items, one behind the other.
LEMMA FourItems ==
  ASSUME NEW b \in Seq(Int)
  PROVE  ReadItems(b) = ReadFour(b)
<1> DEFINE seq == <<Space, Space, Space, LineFeed>>
           S == DOMAIN seq
           a == [items |-> <<>>, rest |-> b]
           c == [s \in SUBSET S |-> Max(s)]
           D == [i \in S |-> [x \in ReadSet |-> PullItem(x, seq[i])]]
           Eq(g) == g = [s \in SUBSET S |->
                           IF s = {} THEN a ELSE PullItem(g[s \ {Max(s)}], seq[Max(s)])]
           it == CHOOSE g : Eq(g)
<1>7. ReadItems(b) = it[S]
  BY DEF ReadItems, FoldLeft, MapThenFoldSet
<1>1. S = 1 .. 4 /\ IsFiniteSet(S)
  <2>1. S = 1 .. 4
    OBVIOUS
  <2>0. 1 \in Int /\ 4 \in Int
    OBVIOUS
  <2>2. IsFiniteSet(1 .. 4)
    BY <2>0, FS_Interval
  <2> HIDE DEF S
  <2> QED
    BY <2>1, <2>2
<1>11. seq[1] = Space /\ seq[2] = Space /\ seq[3] = Space /\ seq[4] = LineFeed
  OBVIOUS
<1> HIDE DEF seq
<1>2. \A s \in SUBSET S : s # {} => c[s] \in s
  <2>1. 4 \in Nat
    OBVIOUS
  <2> QED
    BY <1>1, <2>1, MaxOfNumbers
<1>3. a \in ReadSet /\ D \in [S -> [ReadSet -> ReadSet]]
  <2>1. a \in ReadSet
    BY DEF ReadSet
  <2>2. \A i \in S : seq[i] \in Int
    BY <1>1, <1>11 DEF Space, LineFeed
  <2>3. \A i \in S, x \in ReadSet : PullItem(x, seq[i]) \in ReadSet
    BY <2>2, PullItemType
  <2> QED
    BY <2>1, <2>3
<1>4. PICK g \in [SUBSET S -> ReadSet] : TakesOut(g, S, c, a, D)
  <2>1. IsFiniteSet(S) /\ a \in ReadSet /\ D \in [S -> [ReadSet -> ReadSet]]
    BY <1>1, <1>3
  <2> HIDE DEF c, D, a, S, ReadSet
  <2> QED
    BY ONLY <1>2, <2>1, SubsetRecursion
<1>5. Eq(g)
  <2>1. ASSUME NEW s \in SUBSET S
        PROVE  g[s] = IF s = {} THEN a ELSE PullItem(g[s \ {Max(s)}], seq[Max(s)])
    <3>1. s # {} => Max(s) \in S /\ g[s \ {Max(s)}] \in ReadSet
      BY <1>2
    <3> HIDE DEF a
    <3> QED
      BY <1>1, <1>4, <3>1 DEF TakesOut
  <2> QED
    BY <2>1
<1>6. Eq(it)
  <2> HIDE DEF Eq
  <2> QED
    BY <1>5
<1> HIDE DEF it
<1>8. ASSUME NEW k \in 0 .. 3
      PROVE  it[1 .. k + 1] = PullItem(it[1 .. k], seq[k + 1])
  <2> DEFINE s == 1 .. k + 1
  <2>0. k \in Nat
    OBVIOUS
  <2>1. Max(s) = k + 1 /\ s \ {k + 1} = 1 .. k
    BY <2>0, MaxOfInterval
  <2>2. s \in SUBSET S /\ s # {}
    <3>1. \A x \in 1 .. k + 1 : x \in 1 .. 4
      OBVIOUS
    <3>2. k + 1 \in 1 .. k + 1
      OBVIOUS
    <3> QED
      BY <1>1, <3>1, <3>2
  <2> HIDE DEF s
  <2>3. it[s] = PullItem(it[s \ {Max(s)}], seq[Max(s)])
    BY <1>6, <2>2
  <2> QED
    BY <2>1, <2>3 DEF s
<1>9. it[1 .. 0] = a
  BY <1>1, <1>6
<1>10. /\ it[1 .. 1] = PullItem(a, Space) /\ it[1 .. 2] = PullItem(it[1 .. 1], Space)
       /\ it[1 .. 3] = PullItem(it[1 .. 2], Space)
       /\ it[1 .. 4] = PullItem(it[1 .. 3], LineFeed)
  <2>1. /\ it[1 .. 0 + 1] = PullItem(it[1 .. 0], seq[0 + 1])
        /\ it[1 .. 1 + 1] = PullItem(it[1 .. 1], seq[1 + 1])
        /\ it[1 .. 2 + 1] = PullItem(it[1 .. 2], seq[2 + 1])
        /\ it[1 .. 3 + 1] = PullItem(it[1 .. 3], seq[3 + 1])
    BY <1>8
  <2>2. 0 + 1 = 1 /\ 1 + 1 = 2 /\ 2 + 1 = 3 /\ 3 + 1 = 4
    OBVIOUS
  <2> QED
    BY <1>9, <1>11, <2>1, <2>2
<1> QED
  BY <1>1, <1>7, <1>10 DEF ReadFour, ReadFirst

\* What is read is a sequence of four items.
LEMMA ReadType ==
  ASSUME NEW b \in Seq(Int)
  PROVE  /\ ReadItems(b).rest \in Seq(Int)
         /\ DOMAIN ReadItems(b).items = 1 .. 4
         /\ \A i \in 1 .. 4 : ReadItems(b).items[i] \in Seq(Int)
<1> DEFINE a == [items |-> <<>>, rest |-> b]
<1>1. a \in ReadSet /\ Len(a.items) = 0
  BY DEF ReadSet
<1>0. Space \in Int /\ LineFeed \in Int /\ 0 + 1 = 1 /\ 1 + 1 = 2 /\ 2 + 1 = 3 /\ 3 + 1 = 4
  BY DEF Space, LineFeed
<1> HIDE DEF a
<1>2. ReadFirst(b) \in ReadSet /\ Len(ReadFirst(b).items) = 2
  <2>1. PullItem(a, Space) \in ReadSet /\ Len(PullItem(a, Space).items) = 1
    BY <1>1, <1>0, PullItemType
  <2>2. /\ PullItem(PullItem(a, Space), Space) \in ReadSet
        /\ Len(PullItem(PullItem(a, Space), Space).items) = 2
    BY <2>1, <1>0, PullItemType
  <2> QED
    BY <2>2 DEF ReadFirst, a
<1>3. ReadFour(b) \in ReadSet /\ Len(ReadFour(b).items) = 4
  <2> DEFINE f == ReadFirst(b)
  <2> HIDE DEF f
  <2>0. f \in ReadSet /\ Len(f.items) = 2
    BY <1>2 DEF f
  <2>1. PullItem(f, Space) \in ReadSet /\ Len(PullItem(f, Space).items) = 3
    BY <2>0, <1>0, PullItemType
  <2>2. /\ PullItem(PullItem(f, Space), LineFeed) \in ReadSet
        /\ Len(PullItem(PullItem(f, Space), LineFeed).items) = 4
    BY <2>1, <1>0, PullItemType
  <2> QED
    BY <2>2 DEF ReadFour, f
<1>4. ReadFour(b).items \in Seq(Seq(Int)) /\ ReadFour(b).rest \in Seq(Int)
  BY <1>3 DEF ReadSet
<1>5. DOMAIN ReadFour(b).items = 1 .. 4
  BY <1>3, <1>4, LenProperties
<1> QED
  BY <1>4, <1>5, FourItems, ElementOfSeq, LenProperties

\* A number is a natural one.
LEMMA NumberType ==
  ASSUME NEW s \in Seq(Int), IsNumber(s)
  PROVE  Number(s) \in Nat
<1> DEFINE I == {i \in 1 .. Len(s) : s[i] \notin {Space, LineFeed}}
<1>1. Len(s) \in Nat /\ I \in SUBSET (1 .. Len(s))
  BY LenProperties
<1>2. Begin(s) = IF I # {} THEN Min(I) ELSE 0
  BY DEF Begin, SelectInSeq
<1>3. I # {} /\ Begin(s) = Min(I)
  BY <1>2 DEF IsNumber
<1>4. Begin(s) \in 1 .. Len(s)
  <2> HIDE DEF I
  <2> QED
    BY <1>1, <1>3, MinOfNumbers
<1> QED
  BY <1>4, ElementOfSeq DEF IsNumber, Number

\* What is read of a buffer: at most one sample.
LEMMA LineReadType ==
  ASSUME NEW b \in Seq(Int)
  PROVE  /\ LineRead(b).rest \in Seq(Int) /\ LineRead(b).found \in Seq(SampleSet)
         /\ Len(LineRead(b).found) \in 0 .. 1
<1> DEFINE r == ReadItems(b)
           v == Number(r.items[2])
           t == Number(r.items[4])
<1>1. /\ r.rest \in Seq(Int)
      /\ r.items[1] \in Seq(Int) /\ r.items[2] \in Seq(Int) /\ r.items[4] \in Seq(Int)
  BY ReadType
<1>2. /\ <<>> \in Seq(SampleSet) /\ Len(<<>>) = 0
  OBVIOUS
<1>3. CASE <<>> \in ToSet(r.items)
  BY <1>1, <1>2, <1>3 DEF LineRead
<1>4. CASE <<>> \notin ToSet(r.items) /\ \E i \in {1, 2, 4} : ~IsNumber(r.items[i])
  BY <1>2, <1>4 DEF LineRead
<1>5. CASE <<>> \notin ToSet(r.items) /\ \A i \in {1, 2, 4} : IsNumber(r.items[i])
  <2>1. v \in Nat /\ t \in Nat
    BY <1>1, <1>5, NumberType
  <2>2. LineRead(b) = [found |-> <<[value |-> v, time |-> t]>>, rest |-> r.rest]
    BY <1>5 DEF LineRead
  <2> HIDE DEF v, t, r
  <2>3. [value |-> v, time |-> t] \in SampleSet
    BY <2>1 DEF SampleSet
  <2> HIDE DEF SampleSet
  <2>4. <<[value |-> v, time |-> t]>> \in Seq(SampleSet) /\ Len(<<[value |-> v, time |-> t]>>) = 1
    BY <2>3
  <2> QED
    BY <1>1, <2>2, <2>4 DEF r
<1> QED
  BY <1>3, <1>4, <1>5

\* Whole lines, and the samples they are.
Row(b, k) ==
  /\ b[8 * k + 1] = 1 /\ b[8 * k + 2] = Space /\ b[8 * k + 3] \in Nat
  /\ b[8 * k + 4] = Space /\ b[8 * k + 5] = Unit /\ b[8 * k + 6] = Space
  /\ b[8 * k + 7] \in Nat /\ b[8 * k + 8] = LineFeed
Rows(b, n) == Len(b) = 8 * n /\ \A k \in 0 .. n - 1 : Row(b, k)
Whole(b)   == b \in Seq(Int) /\ \E n \in Nat : Rows(b, n)

\* A line is one wherever it is in a buffer.
LEMMA RowMoved ==
  ASSUME NEW b, NEW c, NEW k \in Int, NEW l \in Int, Row(b, k),
         \A j \in 1 .. 8 : c[8 * l + j] = b[8 * k + j]
  PROVE  Row(c, l)
<1>1. /\ c[8 * l + 1] = b[8 * k + 1] /\ c[8 * l + 2] = b[8 * k + 2]
      /\ c[8 * l + 3] = b[8 * k + 3] /\ c[8 * l + 4] = b[8 * k + 4]
      /\ c[8 * l + 5] = b[8 * k + 5] /\ c[8 * l + 6] = b[8 * k + 6]
      /\ c[8 * l + 7] = b[8 * k + 7] /\ c[8 * l + 8] = b[8 * k + 8]
  OBVIOUS
<1> QED
  BY <1>1 DEF Row

\* The samples of whole lines, one by one.
LEMMA LinesOfRows ==
  ASSUME NEW b \in Seq(Int), NEW n \in Nat, Rows(b, n)
  PROVE  /\ LinesOf(b) \in Seq(SampleSet) /\ Len(LinesOf(b)) = n
         /\ \A k \in 1 .. n : LinesOf(b)[k] = [value |-> b[8 * k - 5], time |-> b[8 * k - 1]]
<1>1. Len(b) \div LineLength = n
  BY DEF Rows, LineLength
<1>2. \A k \in 1 .. n :
        /\ (k - 1) * LineLength + 3 = 8 * k - 5 /\ (k - 1) * LineLength + 7 = 8 * k - 1
        /\ 8 * (k - 1) + 3 = 8 * k - 5 /\ 8 * (k - 1) + 7 = 8 * k - 1
        /\ k - 1 \in 0 .. n - 1
  BY DEF LineLength
<1>3. LinesOf(b) = [k \in 1 .. n |-> [value |-> b[8 * k - 5], time |-> b[8 * k - 1]]]
  BY <1>1, <1>2 DEF LinesOf
<1>4. ASSUME NEW k \in 1 .. n
      PROVE  [value |-> b[8 * k - 5], time |-> b[8 * k - 1]] \in SampleSet
  <2>1. Row(b, k - 1)
    BY <1>2 DEF Rows
  <2>2. b[8 * k - 5] \in Nat /\ b[8 * k - 1] \in Nat
    BY <1>2, <2>1 DEF Row
  <2> QED
    BY <2>2 DEF SampleSet
<1> DEFINE l == [k \in 1 .. n |-> [value |-> b[8 * k - 5], time |-> b[8 * k - 1]]]
<1>5. l \in [1 .. n -> SampleSet]
  BY <1>4
<1>6. \A k \in 1 .. n : l[k] = [value |-> b[8 * k - 5], time |-> b[8 * k - 1]]
  OBVIOUS
<1>7. LinesOf(b) = l
  BY <1>3
<1> HIDE DEF l
<1>8. l \in Seq(SampleSet) /\ Len(l) = n
  BY <1>5
<1> QED
  BY <1>6, <1>7, <1>8

\* Whole lines behind whole lines.
LEMMA RowsConcat ==
  ASSUME NEW a \in Seq(Int), NEW b \in Seq(Int), NEW m \in Nat, NEW n \in Nat,
         Rows(a, m), Rows(b, n)
  PROVE  Rows(a \o b, m + n) /\ LinesOf(a \o b) = LinesOf(a) \o LinesOf(b)
<1> DEFINE c == a \o b
<1>1. /\ c \in Seq(Int) /\ Len(c) = 8 * m + 8 * n /\ Len(a) = 8 * m /\ Len(b) = 8 * n
      /\ \A i \in 1 .. 8 * m : c[i] = a[i]
      /\ \A i \in 1 .. 8 * n : c[8 * m + i] = b[i]
  <2>1. Len(a) = 8 * m /\ Len(b) = 8 * n
    BY DEF Rows
  <2>2. /\ c \in Seq(Int) /\ Len(c) = Len(a) + Len(b)
        /\ \A i \in 1 .. Len(a) : c[i] = a[i]
        /\ \A i \in 1 .. Len(b) : c[Len(a) + i] = b[i]
    BY ConcatAt
  <2> HIDE DEF c
  <2> QED
    BY <2>1, <2>2
<1> HIDE DEF c
<1>2. ASSUME NEW k \in 0 .. (m + n) - 1
      PROVE  Row(c, k)
  <2>1. CASE k < m
    <3>0. k \in 0 .. m - 1
      BY <2>1
    <3>1. Row(a, k)
      BY <3>0 DEF Rows
    <3>2. \A j \in 1 .. 8 : c[8 * k + j] = a[8 * k + j]
      BY <1>1, <3>0
    <3> QED
      BY <3>1, <3>2, RowMoved
  <2>2. CASE m <= k
    <3>0. k - m \in 0 .. n - 1
      BY <2>2
    <3>1. Row(b, k - m)
      BY <3>0 DEF Rows
    <3>2. \A j \in 1 .. 8 : c[8 * k + j] = b[8 * (k - m) + j]
      <4> SUFFICES ASSUME NEW j \in 1 .. 8
                   PROVE  c[8 * k + j] = b[8 * (k - m) + j]
        OBVIOUS
      <4>1. 8 * (k - m) + j \in 1 .. 8 * n /\ 8 * m + (8 * (k - m) + j) = 8 * k + j
        BY <3>0
      <4> QED
        BY <1>1, <4>1
    <3> QED
      BY <3>0, <3>1, <3>2, RowMoved
  <2> QED
    BY <2>1, <2>2
<1>3. Rows(c, m + n)
  BY <1>1, <1>2 DEF Rows
<1>4. /\ LinesOf(a) \in Seq(SampleSet) /\ Len(LinesOf(a)) = m
      /\ \A k \in 1 .. m : LinesOf(a)[k] = [value |-> a[8 * k - 5], time |-> a[8 * k - 1]]
  BY LinesOfRows
<1>5. /\ LinesOf(b) \in Seq(SampleSet) /\ Len(LinesOf(b)) = n
      /\ \A k \in 1 .. n : LinesOf(b)[k] = [value |-> b[8 * k - 5], time |-> b[8 * k - 1]]
  BY LinesOfRows
<1>6. /\ LinesOf(c) \in Seq(SampleSet) /\ Len(LinesOf(c)) = m + n
      /\ \A k \in 1 .. m + n : LinesOf(c)[k] = [value |-> c[8 * k - 5], time |-> c[8 * k - 1]]
  <2>1. m + n \in Nat
    OBVIOUS
  <2> QED
    BY <1>1, <1>3, <2>1, LinesOfRows
<1> DEFINE x == LinesOf(a)
           y == LinesOf(b)
           z == LinesOf(c)
           w == x \o y
<1>7. /\ w \in Seq(SampleSet) /\ Len(w) = m + n
      /\ \A i \in 1 .. m + n : w[i] = IF i <= m THEN x[i] ELSE y[i - m]
  <2>1. x \in Seq(SampleSet) /\ y \in Seq(SampleSet) /\ Len(x) = m /\ Len(y) = n
    BY <1>4, <1>5
  <2> HIDE DEF x, y
  <2> QED
    BY <2>1, ConcatProperties
<1>8. ASSUME NEW i \in 1 .. m + n
      PROVE  z[i] = w[i]
  <2>1. CASE i <= m
    <3>1. i \in 1 .. m /\ 8 * i - 5 \in 1 .. 8 * m /\ 8 * i - 1 \in 1 .. 8 * m
      BY <2>1
    <3>2. c[8 * i - 5] = a[8 * i - 5] /\ c[8 * i - 1] = a[8 * i - 1]
      BY <1>1, <3>1
    <3>3. w[i] = x[i]
      BY <1>7, <2>1
    <3>4. x[i] = [value |-> a[8 * i - 5], time |-> a[8 * i - 1]]
      BY <1>4, <3>1
    <3>5. z[i] = [value |-> c[8 * i - 5], time |-> c[8 * i - 1]]
      BY <1>6
    <3> HIDE DEF w, x, z
    <3> QED
      BY <3>2, <3>3, <3>4, <3>5
  <2>2. CASE ~ (i <= m)
    <3>1. /\ i - m \in 1 .. n
          /\ 8 * (i - m) - 5 \in 1 .. 8 * n /\ 8 * (i - m) - 1 \in 1 .. 8 * n
          /\ 8 * m + (8 * (i - m) - 5) = 8 * i - 5 /\ 8 * m + (8 * (i - m) - 1) = 8 * i - 1
      BY <2>2
    <3>2. c[8 * i - 5] = b[8 * (i - m) - 5] /\ c[8 * i - 1] = b[8 * (i - m) - 1]
      BY <1>1, <3>1
    <3>3. w[i] = y[i - m]
      BY <1>7, <2>2
    <3>4. y[i - m] = [value |-> b[8 * (i - m) - 5], time |-> b[8 * (i - m) - 1]]
      BY <1>5, <3>1
    <3>5. z[i] = [value |-> c[8 * i - 5], time |-> c[8 * i - 1]]
      BY <1>6
    <3> HIDE DEF w, y, z
    <3> QED
      BY <3>2, <3>3, <3>4, <3>5
  <2> QED
    BY <2>1, <2>2
<1> HIDE DEF w
<1>9. z = w
  <2>1. z \in Seq(SampleSet) /\ Len(z) = m + n
    BY <1>6
  <2> HIDE DEF z
  <2> QED
    BY <1>7, <1>8, <2>1, SeqEqual
<1> QED
  BY <1>3, <1>9 DEF w, c

\* Whole lines cut between two lines.
LEMMA RowsCut ==
  ASSUME NEW b \in Seq(Int), NEW n \in Nat, Rows(b, n), NEW m \in 0 .. n
  PROVE  /\ SubSeq(b, 1, 8 * m) \in Seq(Int) /\ Rows(SubSeq(b, 1, 8 * m), m)
         /\ SubSeq(b, 8 * m + 1, Len(b)) \in Seq(Int)
         /\ Rows(SubSeq(b, 8 * m + 1, Len(b)), n - m)
<1> DEFINE c == SubSeq(b, 1, 8 * m)
           d == SubSeq(b, 8 * m + 1, Len(b))
<1>0. Len(b) = 8 * n
  BY DEF Rows
<1>1. c \in Seq(Int) /\ Len(c) = 8 * m /\ \A i \in 1 .. 8 * m : c[i] = b[i]
  BY <1>0
<1>2. /\ d \in Seq(Int) /\ Len(d) = 8 * (n - m)
      /\ \A i \in 1 .. 8 * (n - m) : d[i] = b[8 * m + i]
  BY <1>0
<1> HIDE DEF c, d
<1>3. ASSUME NEW k \in 0 .. m - 1
      PROVE  Row(c, k)
  <2>1. Row(b, k)
    BY DEF Rows
  <2>2. \A j \in 1 .. 8 : c[8 * k + j] = b[8 * k + j]
    BY <1>1
  <2> QED
    BY <2>1, <2>2, RowMoved
<1>4. ASSUME NEW k \in 0 .. (n - m) - 1
      PROVE  Row(d, k)
  <2>0. k + m \in 0 .. n - 1
    OBVIOUS
  <2>1. Row(b, k + m)
    BY <2>0 DEF Rows
  <2>2. ASSUME NEW j \in 1 .. 8
        PROVE  d[8 * k + j] = b[8 * (k + m) + j]
    <3>1. 8 * k + j \in 1 .. 8 * (n - m) /\ 8 * m + (8 * k + j) = 8 * (k + m) + j
      OBVIOUS
    <3> QED
      BY <1>2, <3>1
  <2> QED
    BY <2>0, <2>1, <2>2, RowMoved
<1>5. Rows(c, m) /\ Rows(d, n - m)
  BY <1>1, <1>2, <1>3, <1>4 DEF Rows
<1> QED
  BY <1>1, <1>2, <1>5 DEF c, d

\* One item more.
LEMMA AppendItem ==
  ASSUME NEW items \in Seq(Seq(Int)), NEW x \in Seq(Int)
  PROVE  /\ Append(items, x) \in Seq(Seq(Int)) /\ Len(Append(items, x)) = Len(items) + 1
         /\ Append(items, x)[Len(items) + 1] = x
         /\ \A i \in DOMAIN items : Append(items, x)[i] = items[i]
<1> DEFINE T == Seq(Int)
<1>1. items \in Seq(T) /\ x \in T
  OBVIOUS
<1> HIDE DEF T
<1>2. /\ Append(items, x) \in Seq(T) /\ Len(Append(items, x)) = Len(items) + 1
      /\ Append(items, x)[Len(items) + 1] = x
      /\ \A i \in DOMAIN items : Append(items, x)[i] = items[i]
  BY <1>1, AppendKeeps
<1> QED
  BY <1>2 DEF T

\* The item in front of a delimiter at the second place.
LEMMA PullTwo ==
  ASSUME NEW items \in Seq(Seq(Int)), NEW s \in Seq(Int), NEW d \in Int,
         Len(s) >= 2, s[1] # d, s[2] = d
  PROVE  /\ PullItem([items |-> items, rest |-> s], d)
              = [items |-> Append(items, <<s[1]>>), rest |-> SubSeq(s, 3, Len(s))]
         /\ SubSeq(s, 3, Len(s)) \in Seq(Int)
         /\ Len(SubSeq(s, 3, Len(s))) = Len(s) - 2
         /\ \A i \in 1 .. Len(s) - 2 : SubSeq(s, 3, Len(s))[i] = s[i + 2]
<1> DEFINE i == Position(s, d)
           acc == [items |-> items, rest |-> s]
<1>0. Len(s) \in Nat /\ s[1] \in Int
  BY LenProperties, ElementOfSeq
<1>1. i = 2
  <2>1. \/ /\ i = 0
           /\ \A j \in 1 .. Len(s) : s[j] # d
        \/ /\ i \in 1 .. Len(s) /\ s[i] = d
           /\ \A j \in 1 .. i - 1 : s[j] # d
    BY PositionFound
  <2> HIDE DEF i
  <2>2. 2 \in 1 .. Len(s) /\ 1 \in 1 .. Len(s)
    BY <1>0
  <2>3. i \in 1 .. Len(s) /\ s[i] = d /\ \A j \in 1 .. i - 1 : s[j] # d
    BY <2>1, <2>2
  <2>4. i # 1
    BY <2>3
  <2>5. ~ (i > 2)
    BY <1>0, <2>3
  <2> QED
    BY <1>0, <2>3, <2>4, <2>5
<1>2. PullItem(acc, d) = IF i = 0 THEN [acc EXCEPT !.items = Append(@, <<>>)]
                         ELSE [items |-> Append(items, SubSeq(s, 1, i - 1)),
                               rest  |-> SubSeq(s, i + 1, Len(s))]
  BY DEF PullItem, Position
<1> HIDE DEF i
<1>6. 1 \in Nat \ {0} /\ 3 \in Nat \ {0} /\ 1 \in 0 .. Len(s) /\ Len(s) \in 0 .. Len(s)
  BY <1>0
<1>3. SubSeq(s, 1, 1) = <<s[1]>>
  <2> DEFINE c == SubSeq(s, 1, 1)
             e == <<s[1]>>
  <2>1. /\ c \in Seq(Int) /\ Len(c) = IF 1 <= 1 THEN 1 - 1 + 1 ELSE 0
        /\ \A j \in 1 .. Len(c) : c[j] = s[1 + j - 1]
    BY <1>6, PieceKeeps
  <2>2. e \in Seq(Int) /\ Len(e) = 1 /\ e[1] = s[1]
    BY <1>0
  <2> HIDE DEF c, e
  <2>3. Len(c) = 1 /\ \A j \in 1 .. 1 : c[j] = e[j]
    BY <2>1, <2>2
  <2>4. c = e
    BY <2>1, <2>2, <2>3, SeqEqual
  <2> QED
    BY <2>4 DEF c, e
<1>4. /\ SubSeq(s, 3, Len(s)) \in Seq(Int)
      /\ Len(SubSeq(s, 3, Len(s))) = Len(s) - 2
      /\ \A j \in 1 .. Len(s) - 2 : SubSeq(s, 3, Len(s))[j] = s[j + 2]
  <2> DEFINE c == SubSeq(s, 3, Len(s))
  <2>1. /\ c \in Seq(Int) /\ Len(c) = IF 3 <= Len(s) THEN Len(s) - 3 + 1 ELSE 0
        /\ \A j \in 1 .. Len(c) : c[j] = s[3 + j - 1]
    BY <1>6, PieceKeeps
  <2> HIDE DEF c
  <2>2. c \in Seq(Int) /\ Len(c) = Len(s) - 2 /\ \A j \in 1 .. Len(s) - 2 : c[j] = s[j + 2]
    <3> DEFINE n == Len(s)
    <3>0. n \in Nat /\ n >= 2 /\ Len(c) = IF 3 <= n THEN n - 3 + 1 ELSE 0
      BY <1>0, <2>1
    <3> HIDE DEF n
    <3>01. Len(c) = n - 2 /\ n - 2 \in Nat
      BY ONLY <3>0
    <3>1. Len(c) = Len(s) - 2 /\ Len(s) - 2 \in Nat
      BY <3>01 DEF n
    <3>2. \A j \in 1 .. Len(s) - 2 : 3 + j - 1 = j + 2
      BY <3>1
    <3> QED
      BY <2>1, <3>1, <3>2
  <2> QED
    BY <2>2 DEF c
<1>5. i - 1 = 1 /\ i + 1 = 3 /\ i # 0
  BY <1>1
<1> QED
  BY <1>2, <1>3, <1>4, <1>5

\* A number is read from an item that is one.
LEMMA NumberRead ==
  ASSUME NEW x \in Nat
  PROVE  IsNumber(<<x>>) /\ Number(<<x>>) = x
<1> DEFINE s == <<x>>
           I == {i \in 1 .. Len(s) : s[i] \notin {Space, LineFeed}}
<1>1. s \in Seq(Int) /\ Len(s) = 1 /\ s[1] = x
  OBVIOUS
<1>2. x \notin {Space, LineFeed}
  BY DEF Space, LineFeed
<1>3. Begin(s) = IF I # {} THEN Min(I) ELSE 0
  BY DEF Begin, SelectInSeq
<1> HIDE DEF s
<1>4. I = {1}
  BY <1>1, <1>2
<1>5. Min({1}) = 1
  <2>1. 1 \in Nat /\ {1} \in SUBSET (1 .. 1) /\ {1} # {}
    OBVIOUS
  <2>2. Min({1}) \in {1}
    BY <2>1, MinOfNumbers
  <2> QED
    BY <2>2
<1>6. Begin(s) = 1
  BY <1>3, <1>4, <1>5
<1> QED
  BY <1>1, <1>6 DEF IsNumber, Number, s

\* Nothing is read of nothing.
LEMMA PullNothing ==
  ASSUME NEW items \in Seq(Seq(Int)), NEW d \in Int
  PROVE  PullItem([items |-> items, rest |-> <<>>], d)
           = [items |-> Append(items, <<>>), rest |-> <<>>]
<1> DEFINE s == <<>>
           acc == [items |-> items, rest |-> s]
           i == Position(s, d)
<1>1. s \in Seq(Int) /\ Len(s) = 0
  OBVIOUS
<1>2. i = 0
  <2> HIDE DEF s
  <2>1. i = 0 \/ i \in 1 .. Len(s)
    BY <1>1, PositionFound
  <2> HIDE DEF i
  <2> QED
    BY <1>1, <2>1
<1>3. PullItem(acc, d) = IF i = 0 THEN [acc EXCEPT !.items = Append(@, <<>>)]
                         ELSE [items |-> Append(items, SubSeq(s, 1, i - 1)),
                               rest  |-> SubSeq(s, i + 1, Len(s))]
  BY DEF PullItem, Position
<1> HIDE DEF i, s
<1>4. PullItem(acc, d) = [items |-> Append(items, <<>>), rest |-> s]
  BY <1>2, <1>3
<1> QED
  BY <1>4 DEF s

\* Nothing is read from an empty buffer.
LEMMA NothingRead == LineRead(<<>>).found = <<>> /\ LineRead(<<>>).rest = <<>>
<1> DEFINE e == <<>>
           a == [items |-> e, rest |-> e]
           i1 == Append(e, <<>>)
           i2 == Append(i1, <<>>)
           i3 == Append(i2, <<>>)
           i4 == Append(i3, <<>>)
<1>0. Space \in Int /\ LineFeed \in Int /\ <<>> \in Seq(Int)
  BY DEF Space, LineFeed
<1>1. /\ e \in Seq(Seq(Int)) /\ i1 \in Seq(Seq(Int)) /\ i2 \in Seq(Seq(Int))
      /\ i3 \in Seq(Seq(Int)) /\ i4 \in Seq(Seq(Int)) /\ <<>> \in ToSet(i4)
  <2>1. e \in Seq(Seq(Int)) /\ <<>> \in Seq(Int)
    OBVIOUS
  <2>2. i1 \in Seq(Seq(Int))
    BY <2>1, AppendProperties
  <2> HIDE DEF i1
  <2>3. i2 \in Seq(Seq(Int))
    BY <2>1, <2>2, AppendProperties
  <2> HIDE DEF i2
  <2>4. i3 \in Seq(Seq(Int)) /\ Len(i3) \in Nat
    BY <2>1, <2>3, AppendProperties, LenProperties
  <2> HIDE DEF i3
  <2>5. i4 \in Seq(Seq(Int)) /\ i4[Len(i3) + 1] = <<>> /\ Len(i4) = Len(i3) + 1
    BY <2>1, <2>4, AppendProperties
  <2>6. DOMAIN i4 = 1 .. Len(i4) /\ Len(i3) + 1 \in 1 .. Len(i4)
    BY <2>4, <2>5, LenProperties
  <2> HIDE DEF i4
  <2>7. <<>> \in ToSet(i4)
    BY <2>5, <2>6 DEF ToSet
  <2> QED
    BY <2>1, <2>2, <2>3, <2>4, <2>5, <2>7
<1> HIDE DEF i1, i2, i3, i4
<1>2. PullItem([items |-> e, rest |-> e], Space) = [items |-> i1, rest |-> e]
  BY <1>0, <1>1, PullNothing DEF i1
<1>3. PullItem([items |-> i1, rest |-> e], Space) = [items |-> i2, rest |-> e]
  BY <1>0, <1>1, PullNothing DEF i2
<1>4. PullItem([items |-> i2, rest |-> e], Space) = [items |-> i3, rest |-> e]
  BY <1>0, <1>1, PullNothing DEF i3
<1>5. PullItem([items |-> i3, rest |-> e], LineFeed) = [items |-> i4, rest |-> e]
  BY <1>0, <1>1, PullNothing DEF i4
<1>6. ReadItems(<<>>) = [items |-> i4, rest |-> <<>>]
  BY <1>0, <1>2, <1>3, <1>4, <1>5, FourItems DEF ReadFour, ReadFirst
<1> QED
  BY <1>1, <1>6 DEF LineRead

\* The first of whole lines is read, and the others stay.
LEMMA RowRead ==
  ASSUME NEW b \in Seq(Int), NEW n \in Nat, Rows(b, n), n # 0
  PROVE  /\ LineRead(b).found = <<[value |-> b[3], time |-> b[7]]>>
         /\ LineRead(b).rest = SubSeq(b, 9, Len(b))
<1> DEFINE b1 == SubSeq(b, 3, Len(b))
           b2 == SubSeq(b1, 3, Len(b1))
           b3 == SubSeq(b2, 3, Len(b2))
           b4 == SubSeq(b3, 3, Len(b3))
           e == <<>>
           i1 == Append(e, <<b[1]>>)
           i2 == Append(i1, <<b1[1]>>)
           i3 == Append(i2, <<b2[1]>>)
           i4 == Append(i3, <<b3[1]>>)
           m == Len(b)
<1>0. Space \in Int /\ LineFeed \in Int /\ Unit \in Int /\ Space # Unit /\ Space # 1
  BY DEF Space, LineFeed, Unit
<1>1. /\ b[1] = 1 /\ b[2] = Space /\ b[3] \in Nat /\ b[4] = Space /\ b[5] = Unit
      /\ b[6] = Space /\ b[7] \in Nat /\ b[8] = LineFeed
  <2>1. 0 \in 0 .. n - 1
    OBVIOUS
  <2>2. Row(b, 0)
    BY <2>1 DEF Rows
  <2> QED
    BY <2>2 DEF Row
<1>2. m \in Nat /\ m >= 8
  BY DEF Rows
<1>3. /\ PullItem([items |-> e, rest |-> b], Space) = [items |-> i1, rest |-> b1]
      /\ b1 \in Seq(Int) /\ Len(b1) = m - 2
      /\ \A i \in 1 .. m - 2 : b1[i] = b[i + 2]
  <2>1. e \in Seq(Seq(Int)) /\ Len(b) >= 2
    BY <1>2
  <2> HIDE DEF e
  <2> QED
    BY <1>0, <1>1, <2>1, PullTwo
<1>31. i1 \in Seq(Seq(Int)) /\ Len(i1) = 1 /\ i1[1] = <<b[1]>>
  <2>1. <<b[1]>> \in Seq(Int)
    BY <1>1
  <2> DEFINE x == <<b[1]>>
  <2> HIDE DEF x
  <2>2. x \in Seq(Int)
    BY <2>1 DEF x
  <2>3. Append(<<>>, x) \in Seq(Seq(Int)) /\ Len(Append(<<>>, x)) = 1 /\ Append(<<>>, x)[1] = x
    BY <2>2
  <2> QED
    BY <2>3 DEF x
<1> HIDE DEF b1, i1
<1>4. b1[1] = b[3] /\ b1[2] = Space
  <2>1. 1 \in 1 .. m - 2 /\ 2 \in 1 .. m - 2 /\ 1 + 2 = 3 /\ 2 + 2 = 4
    BY <1>2
  <2>2. b1[1] = b[3] /\ b1[2] = b[4]
    <3> HIDE DEF m
    <3> QED
      BY <1>3, <2>1
  <2> QED
    BY <1>1, <2>2
<1>5. /\ PullItem([items |-> i1, rest |-> b1], Space) = [items |-> i2, rest |-> b2]
      /\ b2 \in Seq(Int) /\ Len(b2) = m - 4
      /\ \A i \in 1 .. m - 4 : b2[i] = b1[i + 2]
  <2>0. b1[1] # Space
    <3>1. \A k \in Nat : k # Space
      BY DEF Space
    <3> QED
      BY <1>1, <1>4, <3>1
  <2>1. Len(b1) >= 2 /\ b1[1] # Space /\ Len(b1) - 2 = m - 4
    <3> HIDE DEF m
    <3> QED
      BY <1>2, <1>3, <2>0
  <2> QED
    BY <1>0, <1>3, <1>31, <1>4, <2>1, PullTwo
<1>51. /\ i2 \in Seq(Seq(Int)) /\ Len(i2) = 2 /\ i2[1] = <<b[1]>> /\ i2[2] = <<b1[1]>>
  <2> DEFINE x == <<b1[1]>>
  <2>1. x \in Seq(Int)
    BY <1>1, <1>4
  <2> HIDE DEF x
  <2>2. /\ Append(i1, x) \in Seq(Seq(Int)) /\ Len(Append(i1, x)) = Len(i1) + 1
        /\ Append(i1, x)[Len(i1) + 1] = x
        /\ \A i \in DOMAIN i1 : Append(i1, x)[i] = i1[i]
    BY <1>31, <2>1, AppendItem
  <2> QED
    BY <1>31, <2>2 DEF x
<1> HIDE DEF b2, i2
<1>6. b2[1] = b[5] /\ b2[2] = Space
  <2>1. b2[1] = b1[1 + 2] /\ b2[2] = b1[2 + 2]
    BY <1>2, <1>5
  <2>2. b1[3] = b[5] /\ b1[4] = b[6]
    <3>1. 3 \in 1 .. m - 2 /\ 4 \in 1 .. m - 2 /\ 3 + 2 = 5 /\ 4 + 2 = 6
      BY <1>2
    <3> HIDE DEF m
    <3> QED
      BY <1>3, <3>1
  <2> QED
    BY <1>1, <2>1, <2>2
<1>7. /\ PullItem([items |-> i2, rest |-> b2], Space) = [items |-> i3, rest |-> b3]
      /\ b3 \in Seq(Int) /\ Len(b3) = m - 6
      /\ \A i \in 1 .. m - 6 : b3[i] = b2[i + 2]
  <2>1. Len(b2) >= 2 /\ b2[1] # Space /\ Len(b2) - 2 = m - 6
    BY <1>0, <1>1, <1>2, <1>5, <1>6
  <2> QED
    BY <1>0, <1>5, <1>51, <1>6, <2>1, PullTwo
<1>71. /\ i3 \in Seq(Seq(Int)) /\ Len(i3) = 3 /\ i3[1] = <<b[1]>> /\ i3[2] = <<b1[1]>>
       /\ i3[3] = <<b2[1]>>
  <2> DEFINE x == <<b2[1]>>
  <2>1. x \in Seq(Int)
    BY <1>0, <1>1, <1>6
  <2> HIDE DEF x
  <2>2. /\ Append(i2, x) \in Seq(Seq(Int)) /\ Len(Append(i2, x)) = Len(i2) + 1
        /\ Append(i2, x)[Len(i2) + 1] = x
        /\ \A i \in DOMAIN i2 : Append(i2, x)[i] = i2[i]
    BY <1>51, <2>1, AppendItem
  <2> QED
    BY <1>51, <2>2 DEF x
<1> HIDE DEF b3, i3
<1>8. b3[1] = b[7] /\ b3[2] = LineFeed
  <2>1. b3[1] = b2[1 + 2] /\ b3[2] = b2[2 + 2]
    BY <1>2, <1>7
  <2>2. b2[3] = b1[3 + 2] /\ b2[4] = b1[4 + 2]
    BY <1>2, <1>5
  <2>3. b1[5] = b[7] /\ b1[6] = b[8]
    <3>1. 5 \in 1 .. m - 2 /\ 6 \in 1 .. m - 2 /\ 5 + 2 = 7 /\ 6 + 2 = 8
      BY <1>2
    <3> HIDE DEF m
    <3> QED
      BY <1>3, <3>1
  <2> QED
    BY <1>1, <2>1, <2>2, <2>3
<1>9. /\ PullItem([items |-> i3, rest |-> b3], LineFeed) = [items |-> i4, rest |-> b4]
      /\ b4 \in Seq(Int) /\ Len(b4) = m - 8
      /\ \A i \in 1 .. m - 8 : b4[i] = b3[i + 2]
  <2>1. Len(b3) >= 2 /\ b3[1] # LineFeed /\ Len(b3) - 2 = m - 8
    BY <1>1, <1>2, <1>7, <1>8 DEF LineFeed
  <2> QED
    BY <1>0, <1>7, <1>71, <1>8, <2>1, PullTwo
<1>91. /\ i4 \in Seq(Seq(Int)) /\ Len(i4) = 4 /\ i4[1] = <<b[1]>> /\ i4[2] = <<b1[1]>>
       /\ i4[3] = <<b2[1]>> /\ i4[4] = <<b3[1]>>
  <2> DEFINE x == <<b3[1]>>
  <2>1. x \in Seq(Int)
    BY <1>0, <1>1, <1>8
  <2> HIDE DEF x
  <2>2. /\ Append(i3, x) \in Seq(Seq(Int)) /\ Len(Append(i3, x)) = Len(i3) + 1
        /\ Append(i3, x)[Len(i3) + 1] = x
        /\ \A i \in DOMAIN i3 : Append(i3, x)[i] = i3[i]
    BY <1>71, <2>1, AppendItem
  <2>3. Len(i3) = 3 /\ i4 = Append(i3, x)
    BY <1>71 DEF x
  <2> HIDE DEF i4
  <2>4. i4 \in Seq(Seq(Int)) /\ Len(i4) = 4 /\ i4[4] = x
    BY <2>2, <2>3
  <2>5. i4[1] = i3[1] /\ i4[2] = i3[2] /\ i4[3] = i3[3]
    <3>1. 1 \in DOMAIN i3 /\ 2 \in DOMAIN i3 /\ 3 \in DOMAIN i3
      BY <1>71, <2>3
    <3> QED
      BY ONLY <2>2, <2>3, <3>1
  <2> QED
    BY <1>71, <2>4, <2>5 DEF x
<1> HIDE DEF b4, i4
<1>10. b4 = SubSeq(b, 9, m)
  <2> DEFINE c == SubSeq(b, 9, m)
  <2>0. 9 \in Nat \ {0} /\ m \in 0 .. Len(b)
    BY <1>2
  <2>3. /\ c \in Seq(Int) /\ Len(c) = IF 9 <= m THEN m - 9 + 1 ELSE 0
        /\ \A i \in 1 .. Len(c) : c[i] = b[9 + i - 1]
    <3> HIDE DEF m
    <3> QED
      BY <2>0, PieceKeeps
  <2>1. c \in Seq(Int) /\ Len(c) = m - 8 /\ \A i \in 1 .. m - 8 : c[i] = b[i + 8]
    <3> HIDE DEF c, m
    <3> QED
      BY <1>2, <2>3
  <2> HIDE DEF c
  <2>2. ASSUME NEW i \in 1 .. m - 8
        PROVE  b4[i] = c[i]
    <3>1. b4[i] = b3[i + 2]
      BY <1>9
    <3>2. b3[i + 2] = b2[(i + 2) + 2]
      BY <1>7
    <3>3. b2[i + 4] = b1[(i + 4) + 2]
      BY <1>5
    <3>4. b1[i + 6] = b[(i + 6) + 2]
      BY <1>3
    <3>5. (i + 2) + 2 = i + 4 /\ (i + 4) + 2 = i + 6 /\ (i + 6) + 2 = i + 8
      OBVIOUS
    <3> QED
      BY <2>1, <3>1, <3>2, <3>3, <3>4, <3>5
  <2>4. b4 = c
    BY <1>9, <2>1, <2>2, SeqEqual
  <2> QED
    BY <2>4 DEF c
<1>11. ReadItems(b) = [items |-> i4, rest |-> b4]
  BY <1>3, <1>5, <1>7, <1>9, FourItems DEF ReadFour, ReadFirst
<1>12. <<>> \notin ToSet(i4)
  <2>1. DOMAIN i4 = 1 .. 4
    BY <1>91, LenProperties
  <2>2. \A x : <<x>> # <<>>
    OBVIOUS
  <2>3. i4[1] # <<>> /\ i4[2] # <<>> /\ i4[3] # <<>> /\ i4[4] # <<>>
    BY <1>91, <2>2, Zenon
  <2> QED
    BY <2>1, <2>3 DEF ToSet
<1>13. /\ IsNumber(i4[1]) /\ IsNumber(i4[2]) /\ IsNumber(i4[4])
       /\ Number(i4[2]) = b[3] /\ Number(i4[4]) = b[7]
  <2>1. b[1] \in Nat /\ b1[1] \in Nat /\ b3[1] \in Nat
    BY <1>1, <1>4, <1>8
  <2> QED
    BY <1>4, <1>8, <1>91, <2>1, NumberRead
<1> QED
  BY <1>10, <1>11, <1>12, <1>13 DEF LineRead

\* No line is a number of whole lines.
LEMMA WholeNothing == Whole(<<>>) /\ LinesOf(<<>>) = <<>>
<1> DEFINE e == <<>>
<1>1. e \in Seq(Int) /\ Len(e) = 0
  OBVIOUS
<1> HIDE DEF e
<1>2. Rows(e, 0)
  BY <1>1 DEF Rows
<1>3. Whole(e)
  <2>1. 0 \in Nat
    OBVIOUS
  <2> QED
    BY <1>1, <1>2, <2>1 DEF Whole
<1>4. Len(LinesOf(e)) = 0 /\ LinesOf(e) \in Seq(SampleSet)
  <2>1. 0 \in Nat
    OBVIOUS
  <2> QED
    BY <1>1, <1>2, <2>1, LinesOfRows
<1>5. LinesOf(e) = <<>>
  BY <1>4
<1> QED
  BY <1>3, <1>5 DEF e

\* Whole lines behind whole lines.
LEMMA WholeConcat ==
  ASSUME NEW a, NEW b, Whole(a), Whole(b)
  PROVE  Whole(a \o b) /\ LinesOf(a \o b) = LinesOf(a) \o LinesOf(b)
<1>1. a \in Seq(Int) /\ b \in Seq(Int)
  BY DEF Whole
<1>2. PICK m \in Nat : Rows(a, m)
  BY DEF Whole
<1>3. PICK n \in Nat : Rows(b, n)
  BY DEF Whole
<1>4. Rows(a \o b, m + n) /\ LinesOf(a \o b) = LinesOf(a) \o LinesOf(b)
  BY <1>1, <1>2, <1>3, RowsConcat
<1>5. a \o b \in Seq(Int) /\ m + n \in Nat
  BY <1>1, ConcatLength
<1> QED
  BY <1>4, <1>5 DEF Whole

\* Whole lines are characters, their samples samples.
LEMMA WholeLines ==
  ASSUME NEW b, Whole(b)
  PROVE  b \in Seq(Int) /\ LinesOf(b) \in Seq(SampleSet)
BY LinesOfRows DEF Whole

\* Cutting between lines leaves whole lines.
LEMMA WholeCut ==
  ASSUME NEW b, Whole(b), NEW t \in 0 .. Len(b), t % LineLength = 0
  PROVE  Whole(SubSeq(b, 1, t)) /\ Whole(SubSeq(b, t + 1, Len(b)))
<1>1. PICK n \in Nat : Rows(b, n)
  BY DEF Whole
<1>2. b \in Seq(Int) /\ Len(b) = 8 * n
  BY <1>1 DEF Whole, Rows
<1>3. PICK m \in Nat : t = 8 * m
  <2>1. t \in Nat /\ t % 8 = 0
    BY <1>2 DEF LineLength
  <2>2. t \div 8 \in Nat /\ t = 8 * (t \div 8)
    BY <2>1
  <2> QED
    BY <2>2
<1>4. m \in 0 .. n
  BY <1>2, <1>3
<1>5. /\ SubSeq(b, 1, 8 * m) \in Seq(Int) /\ Rows(SubSeq(b, 1, 8 * m), m)
      /\ SubSeq(b, 8 * m + 1, Len(b)) \in Seq(Int)
      /\ Rows(SubSeq(b, 8 * m + 1, Len(b)), n - m)
  BY <1>1, <1>2, <1>4, RowsCut
<1>6. n - m \in Nat
  BY <1>4
<1> QED
  BY <1>3, <1>5, <1>6 DEF Whole

\* What is read of whole lines is the first of them.
LEMMA LineReadWhole ==
  ASSUME NEW b, Whole(b)
  PROVE  /\ Whole(LineRead(b).rest)
         /\ LineRead(b).found \o LinesOf(LineRead(b).rest) = LinesOf(b)
<1>1. PICK n \in Nat : Rows(b, n)
  BY DEF Whole
<1>2. b \in Seq(Int) /\ Len(b) = 8 * n
  BY <1>1 DEF Whole, Rows
<1>3. CASE n = 0
  <2>1. b = <<>>
    BY <1>2, <1>3
  <2>2. <<>> \o LinesOf(<<>>) = <<>>
    BY WholeNothing
  <2> QED
    BY <2>1, <2>2, NothingRead, WholeNothing
<1>4. CASE n # 0
  <2> DEFINE x == SubSeq(b, 1, 8)
             y == SubSeq(b, 9, Len(b))
  <2>1. /\ LineRead(b).found = <<[value |-> b[3], time |-> b[7]]>>
        /\ LineRead(b).rest = y
    BY <1>1, <1>2, <1>4, RowRead
  <2>2. 1 \in 0 .. n /\ 8 * 1 = 8 /\ 8 + 1 = 9
    BY <1>4
  <2>3. x \in Seq(Int) /\ Rows(x, 1) /\ y \in Seq(Int) /\ Rows(y, n - 1)
    <3>1. /\ SubSeq(b, 1, 8 * 1) \in Seq(Int) /\ Rows(SubSeq(b, 1, 8 * 1), 1)
          /\ SubSeq(b, 8 * 1 + 1, Len(b)) \in Seq(Int)
          /\ Rows(SubSeq(b, 8 * 1 + 1, Len(b)), n - 1)
      BY <1>1, <1>2, <2>2, RowsCut
    <3> QED
      BY <2>2, <3>1
  <2>4. b = x \o y
    <3>1. 8 \in 0 .. Len(b)
      BY <1>2, <1>4
    <3>2. b = SubSeq(b, 1, 8) \o SubSeq(b, 8 + 1, Len(b))
      BY <1>2, <3>1, SplitSeq
    <3> QED
      BY <2>2, <3>2
  <2> HIDE DEF x, y
  <2>5. x[3] = b[3] /\ x[7] = b[7]
    <3>1. Len(x) = 8
      <4>1. Len(x) = 8 * 1
        BY <2>3 DEF Rows
      <4> QED
        BY <4>1
    <3>2. 3 \in 1 .. Len(x) /\ 7 \in 1 .. Len(x)
      BY <3>1
    <3>3. \A i \in 1 .. Len(x) : (x \o y)[i] = x[i]
      BY <2>3, ConcatAt
    <3> QED
      BY <2>4, <3>2, <3>3
  <2>6. /\ LinesOf(x) \in Seq(SampleSet) /\ Len(LinesOf(x)) = 1
        /\ LinesOf(x)[1] = [value |-> b[3], time |-> b[7]]
    <3>1. 1 \in Nat /\ 1 \in 1 .. 1 /\ 8 * 1 - 5 = 3 /\ 8 * 1 - 1 = 7
      OBVIOUS
    <3>2. /\ LinesOf(x) \in Seq(SampleSet) /\ Len(LinesOf(x)) = 1
          /\ \A k \in 1 .. 1 : LinesOf(x)[k] = [value |-> x[8 * k - 5], time |-> x[8 * k - 1]]
      BY <2>3, <3>1, LinesOfRows
    <3>3. LinesOf(x)[1] = [value |-> x[8 * 1 - 5], time |-> x[8 * 1 - 1]]
      BY <3>1, <3>2
    <3> QED
      BY <2>5, <3>1, <3>2, <3>3
  <2>7. LinesOf(x) = <<[value |-> b[3], time |-> b[7]]>>
    <3> DEFINE l == LinesOf(x)
               r == [value |-> b[3], time |-> b[7]]
    <3>1. l \in Seq(SampleSet) /\ Len(l) = 1 /\ l[1] = r
      BY <2>6
    <3> HIDE DEF l, r, SampleSet
    <3>2. l = <<r>>
      BY <3>1
    <3> QED
      BY <3>2 DEF l, r
  <2>8. n - 1 \in Nat /\ 1 \in Nat
    BY <1>4
  <2>9. LinesOf(x \o y) = LinesOf(x) \o LinesOf(y)
    BY <2>3, <2>8, RowsConcat
  <2>10. Whole(y)
    BY <2>3, <2>8 DEF Whole
  <2> QED
    BY <2>1, <2>4, <2>7, <2>9, <2>10
<1> QED
  BY <1>3, <1>4

\* What a step takes of each meter.
Taken == [Meters -> Nat]
Takes(taken) == taken \in Taken /\ \A m \in Meters : taken[m] <= Len(flight[m])

\* What the recorder keeps, by kind.
RecorderTyped ==
  /\ flight \in [Meters -> Seq(Int)] /\ buffer \in Seq(Int)
  /\ samples \in Seq(SampleSet) /\ entered \in Seq(SampleSet) /\ torn \in BOOLEAN

\* Only whole lines come and go, as long as none is torn.
WholeInv == ~torn => Whole(buffer) /\ \A m \in Meters : Whole(flight[m])

\* SetToSeq numbers the meters.
LEMMA MetersNumbered ==
  /\ Cardinality(Meters) \in Nat
  /\ \A k \in 1 .. Cardinality(Meters) : SetToSeq(Meters)[k] \in Meters
<1>1. IsFiniteSet(Meters)
  BY RecorderAssumption
<1>2. Cardinality(Meters) \in Nat /\ ExistsBijection(1 .. Cardinality(Meters), Meters)
  BY <1>1, FS_CardinalityType
<1> DEFINE n == Cardinality(Meters)
<1>3. PICK f \in [1 .. n -> Meters] : IsInjective(f)
  BY <1>2 DEF ExistsBijection, Bijection, Injection
<1>4. SetToSeq(Meters) \in [1 .. n -> Meters]
  BY <1>3 DEF SetToSeq
<1> HIDE DEF n
<1>5. \A k \in 1 .. n : SetToSeq(Meters)[k] \in Meters
  BY <1>4
<1> QED
  BY <1>2, <1>5 DEF n

Pieces(taken) == [k \in 1 .. Cardinality(Meters) |->
                    SubSeq(flight[SetToSeq(Meters)[k]], 1, taken[SetToSeq(Meters)[k]])]

\* The pieces that a pull receives, one of each meter.
LEMMA PiecesType ==
  ASSUME RecorderTyped, NEW taken, Takes(taken)
  PROVE  /\ Pieces(taken) \in Seq(Seq(Int)) /\ Len(Pieces(taken)) = Cardinality(Meters)
         /\ Received(taken) = FlattenSeq(Pieces(taken))
<1> DEFINE n == Cardinality(Meters)
<1>1. n \in Nat /\ \A k \in 1 .. n : SetToSeq(Meters)[k] \in Meters
  BY MetersNumbered
<1>2. ASSUME NEW m \in Meters
      PROVE  SubSeq(flight[m], 1, taken[m]) \in Seq(Int)
  <2>1. flight[m] \in Seq(Int) /\ taken[m] \in 0 .. Len(flight[m]) /\ 1 \in Nat \ {0}
    BY DEF RecorderTyped, Takes, Taken
  <2> QED
    BY <2>1, PieceKeeps
<1>3. \A k \in 1 .. n : Pieces(taken)[k] \in Seq(Int)
  BY <1>1, <1>2 DEF Pieces
<1>4. Pieces(taken) = [k \in 1 .. n |-> Pieces(taken)[k]]
  BY DEF Pieces
<1>5. Pieces(taken) \in Seq(Seq(Int)) /\ Len(Pieces(taken)) = n
  BY <1>1, <1>3, <1>4, SequenceByElements
<1>6. Received(taken) = FlattenSeq(Pieces(taken))
  BY DEF Received, Pieces
<1> QED
  BY <1>5, <1>6

\* What a pull receives is characters.
LEMMA ReceivedType ==
  ASSUME RecorderTyped, NEW taken, Takes(taken)
  PROVE  Received(taken) \in Seq(Int)
BY PiecesType, FlattenType

\* Pieces of whole lines make whole lines.
LEMMA FlattenWhole ==
  ASSUME NEW ss \in Seq(Seq(Int)), \A i \in 1 .. Len(ss) : Whole(ss[i])
  PROVE  Whole(FlattenSeq(ss))
<1>1. PICK f \in [0 .. Len(ss) -> Seq(Int)] :
           /\ f[0] = <<>>
           /\ \A i \in 1 .. Len(ss) : f[i] = f[i - 1] \o ss[i]
           /\ FlattenSeq(ss) = f[Len(ss)]
  BY FlattenPartial
<1> DEFINE n == Len(ss)
           T == {i \in 0 .. n : Whole(f[i])}
<1>2. n \in Nat
  BY LenProperties
<1>3. 0 \in T
  BY <1>1, <1>2, WholeNothing
<1>4. ASSUME NEW i \in 0 .. n - 1, i \in T
      PROVE  i + 1 \in T
  <2>1. i + 1 \in 1 .. n /\ (i + 1) - 1 = i
    BY <1>2
  <2>2. f[i + 1] = f[i] \o ss[i + 1]
    BY <1>1, <2>1
  <2>3. Whole(f[i]) /\ Whole(ss[i + 1])
    BY <1>4, <2>1
  <2>4. Whole(f[i + 1])
    BY <2>2, <2>3, WholeConcat
  <2> QED
    BY <1>2, <2>1, <2>4
<1> HIDE DEF T
<1>5. 0 .. n \subseteq T
  BY <1>2, <1>3, <1>4, BoundedInduction
<1>6. n \in T
  BY <1>2, <1>5
<1> QED
  BY <1>1, <1>6 DEF T

\* A pull that tears no line receives whole lines.
LEMMA ReceivedWhole ==
  ASSUME RecorderTyped, NEW taken, Takes(taken),
         \A m \in Meters : Whole(flight[m]) /\ taken[m] % LineLength = 0
  PROVE  Whole(Received(taken))
<1> DEFINE n == Cardinality(Meters)
<1>1. n \in Nat /\ \A k \in 1 .. n : SetToSeq(Meters)[k] \in Meters
  BY MetersNumbered
<1>2. ASSUME NEW m \in Meters
      PROVE  Whole(SubSeq(flight[m], 1, taken[m]))
  <2>1. taken[m] \in 0 .. Len(flight[m])
    BY DEF RecorderTyped, Takes, Taken
  <2> QED
    BY <2>1, WholeCut
<1>3. \A k \in 1 .. n : Whole(Pieces(taken)[k])
  BY <1>1, <1>2 DEF Pieces
<1>4. Pieces(taken) \in Seq(Seq(Int)) /\ Len(Pieces(taken)) = n /\ Received(taken) = FlattenSeq(Pieces(taken))
  BY PiecesType
<1> HIDE DEF n
<1> QED
  BY <1>3, <1>4, FlattenWhole

(***************************************************************************)
(* A pull.                                                                 *)
(***************************************************************************)

\* The frame that a pull makes, without the sample that stays.
FrontOf(frames) == IF frames = <<>> THEN <<>> ELSE Front(frames[1])

\* A difference of times is a number.
LEMMA LaterType ==
  ASSUME NEW a \in Int, NEW b \in Int
  PROVE  Later(a, b) \in Nat
BY RecorderAssumption DEF Later

\* A frame without its last sample, and what stays, is all there was.
LEMMA CutFrameKeeps ==
  ASSUME NEW data \in Seq(SampleSet), data # <<>>
  PROVE  /\ CutFrame(data).rest \in Seq(SampleSet)
         /\ \/ CutFrame(data).frames = <<>>
            \/ CutFrame(data).frames = <<data>>
         /\ FrontOf(CutFrame(data).frames) \in Seq(SampleSet)
         /\ FrontOf(CutFrame(data).frames) \o CutFrame(data).rest = data
<1> DEFINE n == Len(data)
           x == data[n]
<1>1. n \in Nat \ {0} /\ x \in SampleSet
  BY LenProperties, ElementOfSeq
<1>2. <<x>> \in Seq(SampleSet) /\ Len(<<x>>) = 1 /\ <<x>>[1] = x
  <2> HIDE DEF x, SampleSet
  <2> QED
    BY <1>1
<1>3. Front(data) \in Seq(SampleSet) /\ Front(data) \o <<x>> = data
  <2>0. n - 1 \in 0 .. Len(data)
    BY <1>1
  <2>1. data = SubSeq(data, 1, n - 1) \o SubSeq(data, (n - 1) + 1, Len(data))
    BY <2>0, SplitSeq
  <2>2. SubSeq(data, 1, n - 1) \in Seq(SampleSet)
    <3>1. 1 \in Nat \ {0}
      OBVIOUS
    <3> HIDE DEF n
    <3> QED
      BY <2>0, <3>1, PieceKeeps
  <2>3. SubSeq(data, n, n) = <<x>>
    <3> DEFINE c == SubSeq(data, n, n)
               e == <<x>>
    <3>1. n \in 0 .. Len(data)
      BY <1>1
    <3>2. /\ c \in Seq(SampleSet) /\ Len(c) = IF n <= n THEN n - n + 1 ELSE 0
          /\ \A i \in 1 .. Len(c) : c[i] = data[n + i - 1]
      <4> HIDE DEF n
      <4> QED
        BY <1>1, <3>1, PieceKeeps
    <3> HIDE DEF c, n, SampleSet
    <3>3. Len(c) = 1
      BY <1>1, <3>2
    <3>4. n + 1 - 1 = n /\ 1 \in 1 .. Len(c)
      BY <1>1, <3>3
    <3>41. c[1] = data[n + 1 - 1]
      BY <3>2, <3>4
    <3>5. c[1] = x
      BY <3>4, <3>41 DEF x
    <3>6. e \in Seq(SampleSet) /\ Len(e) = 1 /\ e[1] = x
      BY <1>2
    <3> HIDE DEF e
    <3>7. \A i \in 1 .. 1 : c[i] = e[i]
      BY <3>5, <3>6
    <3>8. c = e
      BY <3>2, <3>3, <3>6, <3>7, SeqEqual
    <3> QED
      BY <3>8 DEF c, e
  <2>4. (n - 1) + 1 = n
    BY <1>1
  <2> QED
    BY <2>1, <2>2, <2>3, <2>4 DEF Front
<1>4. \/ CutFrame(data) = [frames |-> <<data>>, rest |-> <<x>>]
      \/ CutFrame(data) = [frames |-> <<>>, rest |-> data]
  BY DEF CutFrame
<1> HIDE DEF x, n
<1>5. CASE CutFrame(data) = [frames |-> <<data>>, rest |-> <<x>>]
  <2>1. <<data>> # <<>> /\ <<data>>[1] = data
    OBVIOUS
  <2> QED
    BY <1>2, <1>3, <1>5, <2>1 DEF FrontOf
<1>6. CASE CutFrame(data) = [frames |-> <<>>, rest |-> data]
  <2>1. <<>> \o data = data /\ <<>> \in Seq(SampleSet)
    BY ConcatEmptySeq
  <2> QED
    BY <1>6, <2>1 DEF FrontOf
<1> QED
  BY <1>4, <1>5, <1>6

\* A pull keeps the kinds of what it reads.
LEMMA PullTyped ==
  ASSUME RecorderTyped, NEW taken, Takes(taken)
  PROVE  /\ LineRead(buffer \o Received(taken)).rest \in Seq(Int)
         /\ LineRead(buffer \o Received(taken)).found \in Seq(SampleSet)
         /\ DataWith(taken) \in Seq(SampleSet)
<1>1. buffer \in Seq(Int) /\ Received(taken) \in Seq(Int) /\ samples \in Seq(SampleSet)
  BY ReceivedType DEF RecorderTyped
<1>2. buffer \o Received(taken) \in Seq(Int)
  BY <1>1, ConcatLength
<1>3. /\ LineRead(buffer \o Received(taken)).rest \in Seq(Int)
      /\ LineRead(buffer \o Received(taken)).found \in Seq(SampleSet)
  BY <1>2, LineReadType
<1>4. samples \o LineRead(buffer \o Received(taken)).found \in Seq(SampleSet)
  BY <1>1, <1>3, ConcatLength
<1> QED
  BY <1>3, <1>4 DEF DataWith

\* What a pull returns: no frame or one, of samples.
LEMMA PullFrames ==
  ASSUME RecorderTyped, NEW taken, Takes(taken), Pull(taken)
  PROVE  /\ samples' \in Seq(SampleSet)
         /\ \/ Pulled(taken) = <<>>
            \/ /\ DataWith(taken) # <<>> /\ DataWith(taken) \in Seq(SampleSet)
               /\ Pulled(taken) = <<DataWith(taken)>>
         /\ FrontOf(Pulled(taken)) \in Seq(SampleSet)
         /\ FrontOf(Pulled(taken)) \o samples' = DataWith(taken)
<1> DEFINE data == DataWith(taken)
<1>1. data \in Seq(SampleSet)
  BY PullTyped
<1>2. /\ samples' = IF data = <<>> THEN <<>> ELSE CutFrame(data).rest
      /\ Pulled(taken) = IF data = <<>> THEN <<>> ELSE CutFrame(data).frames
  BY DEF Pull, Pulled
<1> HIDE DEF data
<1>3. CASE data = <<>>
  <2>1. <<>> \in Seq(SampleSet) /\ FrontOf(<<>>) = <<>>
    BY DEF FrontOf
  <2>2. <<>> \o <<>> = <<>>
    BY <2>1, ConcatEmptySeq
  <2> QED
    BY <1>2, <1>3, <2>1, <2>2 DEF data
<1>4. CASE data # <<>>
  <2>1. /\ CutFrame(data).rest \in Seq(SampleSet)
        /\ CutFrame(data).frames = <<>> \/ CutFrame(data).frames = <<data>>
        /\ FrontOf(CutFrame(data).frames) \in Seq(SampleSet)
        /\ FrontOf(CutFrame(data).frames) \o CutFrame(data).rest = data
    BY <1>1, <1>4, CutFrameKeeps
  <2>2. samples' = CutFrame(data).rest /\ Pulled(taken) = CutFrame(data).frames
    BY <1>2, <1>4
  <2> QED
    BY <1>1, <1>4, <2>1, <2>2 DEF data
<1> QED
  BY <1>3, <1>4

\* The types of a concatenation of three.
LEMMA ConcatThree ==
  ASSUME NEW S, NEW a \in Seq(S), NEW b \in Seq(S), NEW c \in Seq(S)
  PROVE  /\ a \o b \o c = a \o (b \o c) /\ a \o b \in Seq(S) /\ b \o c \in Seq(S)
         /\ a \o b \o c \in Seq(S)
<1>1. a \o b \in Seq(S) /\ b \o c \in Seq(S)
  BY ConcatLength
<1>2. (a \o b) \o c \in Seq(S)
  BY <1>1, ConcatLength
<1> QED
  BY <1>1, <1>2, ConcatAssociative

\* Concatenation under a name of its own.
Behind(a, b) == a \o b

\* Concatenation is associative; Behind hides the operator from the provers.
LEMMA BehindThree ==
  ASSUME NEW S, NEW a \in Seq(S), NEW b \in Seq(S), NEW c \in Seq(S)
  PROVE  Behind(Behind(a, b), c) = Behind(a, Behind(b, c))
BY ConcatAssociative DEF Behind

\* Two sums with the same beginning go on alike.
LEMMA SumOf ==
  ASSUME NEW S, NEW f \in Seq(S), NEW s \in Seq(S), NEW l \in Seq(S), NEW u \in Seq(S),
         NEW d \in Seq(S), Behind(f, s) = Behind(u, d)
  PROVE  Behind(f, Behind(s, l)) = Behind(u, Behind(d, l))
<1>1. Behind(Behind(f, s), l) = Behind(f, Behind(s, l))
  BY BehindThree
<1>2. Behind(Behind(u, d), l) = Behind(u, Behind(d, l))
  BY BehindThree
<1> QED
  BY <1>1, <1>2

\* A pull of whole lines keeps every sample.
LEMMA PullKeeps ==
  ASSUME RecorderTyped, WholeInv, NEW taken, Takes(taken), Pull(taken), torn' = FALSE
  PROVE  /\ WholeInv' /\ torn = FALSE
         /\ LinesOf(Received(taken)) \in Seq(SampleSet)
         /\ entered' = entered \o LinesOf(Received(taken))
         /\ LinesOf(buffer') \in Seq(SampleSet) /\ LinesOf(buffer) \in Seq(SampleSet)
         /\ FrontOf(Pulled(taken)) \o (samples' \o LinesOf(buffer'))
              = samples \o (LinesOf(buffer) \o LinesOf(Received(taken)))
<1> DEFINE r == Received(taken)
           b == buffer \o r
<1>1. torn' = (torn \/ \E m \in Meters : taken[m] % LineLength # 0)
  BY DEF Pull
<1>2. torn = FALSE /\ \A m \in Meters : taken[m] % LineLength = 0
  BY <1>1 DEF RecorderTyped
<1>3. Whole(buffer) /\ \A m \in Meters : Whole(flight[m])
  BY <1>2 DEF WholeInv
<1>4. Whole(r)
  BY <1>2, <1>3, ReceivedWhole
<1>5. Whole(b) /\ LinesOf(b) = LinesOf(buffer) \o LinesOf(r)
  BY <1>3, <1>4, WholeConcat
<1>6. buffer' = LineRead(b).rest
  BY DEF Pull
<1>7. DataWith(taken) = samples \o LineRead(b).found
  BY DEF DataWith
<1>8. entered' = entered \o LinesOf(r)
  BY DEF Pull
<1>9. Whole(buffer') /\ LineRead(b).found \o LinesOf(buffer') = LinesOf(buffer) \o LinesOf(r)
  BY <1>5, <1>6, LineReadWhole
<1>10. ASSUME NEW m \in Meters
       PROVE  Whole(flight'[m])
  <2>1. flight'[m] = SubSeq(flight[m], taken[m] + 1, Len(flight[m]))
    BY DEF Pull
  <2>2. taken[m] \in 0 .. Len(flight[m]) /\ Whole(flight[m])
    BY <1>3 DEF RecorderTyped, Takes, Taken
  <2> QED
    BY <1>2, <2>1, <2>2, WholeCut
<1>11. /\ LinesOf(r) \in Seq(SampleSet) /\ LinesOf(buffer) \in Seq(SampleSet)
       /\ LinesOf(buffer') \in Seq(SampleSet)
  BY <1>3, <1>4, <1>9, WholeLines
<1>12. FrontOf(Pulled(taken)) \o (samples' \o LinesOf(buffer'))
         = samples \o (LinesOf(buffer) \o LinesOf(r))
  <2> DEFINE f == FrontOf(Pulled(taken))
             s == samples'
             l == LinesOf(buffer')
             d == LineRead(b).found
             u == samples
  <2>1. /\ s \in Seq(SampleSet) /\ f \in Seq(SampleSet) /\ f \o s = u \o d
    BY <1>7, PullFrames
  <2>2. l \in Seq(SampleSet) /\ u \in Seq(SampleSet) /\ d \in Seq(SampleSet)
    BY <1>11, PullTyped DEF RecorderTyped
  <2> DEFINE w == LinesOf(buffer) \o LinesOf(r)
  <2>3. d \o l = w /\ w \in Seq(SampleSet)
    BY <1>9, <1>11, ConcatLength
  <2> HIDE DEF f, s, l, d, u, w
  <2>4. Behind(f, s) = Behind(u, d)
    BY <2>1 DEF Behind
  <2>5. Behind(f, Behind(s, l)) = Behind(u, Behind(d, l))
    BY <2>1, <2>2, <2>4, SumOf
  <2>6. f \o (s \o l) = u \o (d \o l)
    BY <2>5 DEF Behind
  <2>7. f \o (s \o l) = u \o w
    BY <2>3, <2>6
  <2> QED
    BY <2>7 DEF f, s, l, u, w
<1> QED
  BY <1>2, <1>8, <1>9, <1>10, <1>11, <1>12 DEF WholeInv

\* A pull keeps the recorder in order.
LEMMA PullRecorderTyped ==
  ASSUME RecorderTyped, WholeInv, NEW taken, Takes(taken), Pull(taken)
  PROVE  RecorderTyped' /\ WholeInv'
<1>1. torn' \in BOOLEAN
  BY DEF Pull, RecorderTyped
<1>2. buffer' \in Seq(Int) /\ samples' \in Seq(SampleSet)
  BY PullTyped, PullFrames DEF Pull
<1>3. flight' \in [Meters -> Seq(Int)]
  <2>1. ASSUME NEW m \in Meters
        PROVE  SubSeq(flight[m], taken[m] + 1, Len(flight[m])) \in Seq(Int)
    <3>1. /\ flight[m] \in Seq(Int) /\ taken[m] + 1 \in Nat \ {0}
          /\ Len(flight[m]) \in 0 .. Len(flight[m])
      BY DEF RecorderTyped, Takes, Taken
    <3> QED
      BY <3>1, PieceKeeps
  <2>2. flight' = [m \in Meters |-> SubSeq(flight[m], taken[m] + 1, Len(flight[m]))]
    BY DEF Pull
  <2> QED
    BY <2>1, <2>2
<1>4. CASE torn' = FALSE
  <2>1. /\ WholeInv' /\ LinesOf(Received(taken)) \in Seq(SampleSet)
        /\ entered' = entered \o LinesOf(Received(taken))
    BY <1>4, PullKeeps
  <2>2. entered' \in Seq(SampleSet)
    BY <2>1, ConcatLength DEF RecorderTyped
  <2> QED
    BY <1>1, <1>2, <1>3, <2>1, <2>2 DEF RecorderTyped
<1>5. CASE torn' = TRUE
  <2>1. entered' = <<>>
    BY <1>5 DEF Pull
  <2> QED
    BY <1>1, <1>2, <1>3, <1>5, <2>1 DEF RecorderTyped, WholeInv
<1> QED
  BY <1>1, <1>4, <1>5

\* So does a line that a meter sends.
LEMMA MeasureKeeps ==
  ASSUME RecorderTyped, WholeInv, NEW m \in Meters, NEW s \in SampleSet, Measure(m, s)
  PROVE  RecorderTyped' /\ WholeInv'
<1> DEFINE l == LineOf(s)
<1>1. /\ l = <<1, Space, s.value, Space, Unit, Space, s.time, LineFeed>>
      /\ s.value \in Nat /\ s.time \in Nat
      /\ Space \in Int /\ Unit \in Int /\ LineFeed \in Int
  BY DEF LineOf, SampleSet, Space, Unit, LineFeed
<1>2. l \in Seq(Int) /\ Len(l) = 8
  BY <1>1
<1>3. Row(l, 0)
  BY <1>1 DEF Row
<1>4. Rows(l, 1)
  <2>1. \A k \in 0 .. 1 - 1 : k = 0
    OBVIOUS
  <2> HIDE DEF l
  <2>2. \A k \in 0 .. 1 - 1 : Row(l, k)
    BY <1>3, <2>1
  <2> QED
    BY <1>2, <2>2 DEF Rows
<1>5. Whole(l)
  <2>1. 1 \in Nat
    OBVIOUS
  <2> HIDE DEF l
  <2> QED
    BY <1>2, <1>4, <2>1 DEF Whole
<1> HIDE DEF l
<1>6. flight' = [flight EXCEPT ![m] = flight[m] \o l]
  BY DEF Measure, l
<1>7. flight[m] \in Seq(Int) /\ flight \in [Meters -> Seq(Int)]
  BY DEF RecorderTyped
<1>8. flight[m] \o l \in Seq(Int)
  BY <1>2, <1>7, ConcatLength
<1>9. UNCHANGED <<buffer, samples, entered, torn>>
  BY DEF Measure
<1>10. RecorderTyped'
  BY <1>6, <1>7, <1>8, <1>9 DEF RecorderTyped
<1>11. Whole(flight[m]) => Whole(flight[m] \o l)
  BY <1>5, WholeConcat
<1> QED
  BY <1>6, <1>7, <1>9, <1>10, <1>11 DEF WholeInv

(***************************************************************************)
(* The frames of the clip.                                                 *)
(***************************************************************************)

\* The kinds of what a station keeps.
LinkSet   == [first : Seq(Nat), second : Seq(Nat)]
Links(n)  == [1 .. n -> LinkSet]
SpanSet   == [start : Int, end : Int]

WindowSet == [flow : {"in", "out"}, sink : {"numbers", "audio"}, frame : Nat,
              offset : Int]
EntrySet  == [start : Int, end : Int, raw : Seq(1 .. (Clip * Span))]

(***************************************************************************)
(* A list without a frame.                                                 *)
(***************************************************************************)

\* Without keeps the kind of a list.
LEMMA WithoutType ==
  ASSUME NEW S, NEW list \in Seq(S), NEW f
  PROVE  Without(list, f) \in Seq(S)
<1> DEFINE n == Len(list)
           ss == [i \in 1 .. n |-> IF list[i] = f THEN <<>> ELSE <<list[i]>>]
<1>1. n \in Nat /\ DOMAIN list = 1 .. n /\ \A i \in 1 .. n : list[i] \in S
  OBVIOUS
<1>2. ss \in Seq(Seq(S))
  BY <1>1
<1>3. Without(list, f) = FlattenSeq(ss)
  BY <1>1 DEF Without
<1> HIDE DEF ss
<1> QED
  BY <1>2, <1>3, FlattenType

\* Without leaves alone a list the frame is not in.
LEMMA WithoutNone ==
  ASSUME NEW S, NEW list \in Seq(S), NEW f, f \notin S
  PROVE  Without(list, f) = list
<1> DEFINE n == Len(list)
           ss == [i \in 1 .. n |-> IF list[i] = f THEN <<>> ELSE <<list[i]>>]
           g == [i \in 0 .. n |-> SubSeq(list, 1, i)]
<1>1. n \in Nat /\ DOMAIN list = 1 .. n /\ \A i \in 1 .. n : list[i] \in S
  OBVIOUS
<1>2. ss \in Seq(Seq(S)) /\ Len(ss) = n
  BY <1>1
<1>3. \A i \in 1 .. n : ss[i] = <<list[i]>>
  BY <1>1
<1>4. Without(list, f) = FlattenSeq(ss)
  BY <1>1 DEF Without
<1>5. g \in [0 .. n -> Seq(S)]
  <2>1. ASSUME NEW i \in 0 .. n PROVE SubSeq(list, 1, i) \in Seq(S)
    BY <1>1
  <2> QED
    BY <2>1
<1>6. g[0] = <<>>
  BY <1>1
<1>7. ASSUME NEW i \in 1 .. n
      PROVE  g[i] = g[i - 1] \o ss[i]
  <2>1. SubSeq(list, 1, i) = SubSeq(list, 1, i - 1) \o <<list[i]>>
    BY <1>1
  <2>2. g[i] = SubSeq(list, 1, i) /\ g[i - 1] = SubSeq(list, 1, i - 1)
    BY <1>1
  <2>3. ss[i] = <<list[i]>>
    BY <1>3
  <2> HIDE DEF g, ss
  <2> QED
    BY <2>1, <2>2, <2>3
<1>8. g[n] = list
  BY <1>1
<1> HIDE DEF ss, g
<1>9. FlattenSeq(ss) = g[Len(ss)]
  BY <1>2, <1>5, <1>6, <1>7, FlattenDetermined
<1> QED
  BY <1>2, <1>4, <1>8, <1>9

\* The lists of a frame, set.
LEMMA SetListsType ==
  ASSUME NEW n \in Nat, NEW l \in Links(n), NEW f \in 1 .. n,
         NEW first \in Seq(Nat), NEW second \in Seq(Nat)
  PROVE  /\ SetLists(l, f, first, second) \in Links(n)
         /\ SetLists(l, f, first, second)[f] = [first  |-> Without(first, f),
                                                second |-> Without(second, f)]
         /\ \A g \in 1 .. n : g # f => SetLists(l, f, first, second)[g] = l[g]
<1>1. Without(first, f) \in Seq(Nat) /\ Without(second, f) \in Seq(Nat)
  BY WithoutType
<1>2. [first |-> Without(first, f), second |-> Without(second, f)] \in LinkSet
  BY <1>1 DEF LinkSet
<1> QED
  BY <1>2 DEF SetLists, Links

\* The same, for sequences under a name that hides them.
ListsSet(n, l, f, first, second) ==
  /\ SetLists(l, f, first, second) \in Links(n)
  /\ SetLists(l, f, first, second)[f] = [first  |-> Without(first, f),
                                         second |-> Without(second, f)]
  /\ \A g \in 1 .. n : g # f => SetLists(l, f, first, second)[g] = l[g]

LEMMA SetListsSet ==
  \A n \in Nat : \A l \in Links(n), f \in 1 .. n, first, second \in ListsOf(Nat) :
    ListsSet(n, l, f, first, second)
BY SetListsType DEF ListsSet, ListsOf

(***************************************************************************)
(* The frames of the clip are linked when it is loaded.                    *)
(***************************************************************************)

\* The lists that link_vector gives the i-th frame of the clip.
ClipVector == [k \in 1 .. Clip |-> k + 1]
FirstLinked(i) == IF i > Depth THEN i - Depth ELSE 1
LastLinked(i)   == IF i + Depth < Clip THEN i + Depth ELSE Clip
Piece(a, b) == SubSeq(ClipVector, a, b)
LinkedAt(i) == [first |-> Piece(FirstLinked(i), i - 1), second |-> Piece(i + 1, LastLinked(i))]
Blank == [first |-> <<>>, second |-> <<>>]

\* The frames up to the i-th are linked, the others have no lists yet.
LinkedTo(l, i) ==
  /\ l[ItemFrame] = Blank
  /\ \A k \in 1 .. Clip : l[k + 1] = IF k <= i THEN LinkedAt(k) ELSE Blank

\* The vector of the frames of a clip.
LEMMA ClipVectorType ==
  /\ ClipVector \in Seq(Nat) /\ Len(ClipVector) = Clip /\ DOMAIN ClipVector = 1 .. Clip
  /\ \A k \in 1 .. Clip : ClipVector[k] = k + 1
BY StationAssumption DEF ClipVector, StationAssumption

\* A piece of the clip.
LEMMA ClipPiece ==
  ASSUME NEW a \in 1 .. Clip + 1, NEW b \in 0 .. Clip
  PROVE  /\ Piece(a, b) \in Seq(Nat) /\ DOMAIN Piece(a, b) = 1 .. Len(Piece(a, b))
         /\ Len(Piece(a, b)) = IF a <= b THEN b - a + 1 ELSE 0
         /\ (Piece(a, b) = <<>>) = (a > b)
         /\ \A k \in 1 .. Len(Piece(a, b)) : Piece(a, b)[k] = a + k
<1> DEFINE v == ClipVector
           s == SubSeq(v, a, b)
<1>1. /\ v \in Seq(Nat) /\ Len(v) = Clip /\ Clip \in Nat
      /\ \A k \in 1 .. Clip : v[k] = k + 1
  BY ClipVectorType, StationAssumption DEF StationAssumption
<1> HIDE DEF v
<1>2. s \in Seq(Nat) /\ Len(s) = IF a <= b THEN b - a + 1 ELSE 0
  BY <1>1
<1>3. \A k \in 1 .. Len(s) : s[k] = v[a + k - 1]
  BY <1>1
<1>4. \A k \in 1 .. Len(s) : s[k] = a + k
  BY <1>1, <1>2, <1>3
<1>5. (s = <<>>) = (a > b)
  <2>1. (s = <<>>) <=> (Len(s) = 0)
    <3> HIDE DEF s
    <3> QED
      BY <1>2
  <2>2. a \in Nat /\ b \in Nat
    BY <1>1
  <2> HIDE DEF s
  <2> QED
    BY <1>2, <2>1, <2>2
<1> HIDE DEF s
<1>6. DOMAIN s = 1 .. Len(s)
  BY <1>2
<1> QED
  BY <1>2, <1>4, <1>5, <1>6 DEF s, v, Piece

\* A frame is not in its own lists.
LEMMA ClipPieceWithout ==
  ASSUME NEW a \in 1 .. Clip + 1, NEW b \in 0 .. Clip, NEW i \in 1 .. Clip,
         i < a \/ b < i
  PROVE  Without(Piece(a, b), i + 1) = Piece(a, b)
<1> DEFINE s == Piece(a, b)
           S == Nat \ {i + 1}
<1>0. Clip \in Nat
  BY StationAssumption DEF StationAssumption
<1>1. /\ s \in Seq(Nat) /\ Len(s) = IF a <= b THEN b - a + 1 ELSE 0
      /\ \A k \in 1 .. Len(s) : s[k] = a + k
  BY ClipPiece
<1> HIDE DEF s
<1>2. \A k \in 1 .. Len(s) : s[k] \in S
  BY <1>0, <1>1
<1>3. s \in Seq(S)
  BY <1>1, <1>2
<1> HIDE DEF S
<1>4. i + 1 \notin S
  BY DEF S
<1>5. Without(s, i + 1) = s
  BY <1>3, <1>4, WithoutNone
<1> QED
  BY <1>5 DEF s

\* One frame of the clip, linked.
LEMMA LinkOneLinks ==
  ASSUME NEW l \in [1 .. Clip + 1 -> LinkSet], NEW i \in 1 .. Clip, LinkedTo(l, i - 1)
  PROVE  \E m \in [1 .. Clip + 1 -> LinkSet] :
           /\ LinkOne([threw |-> FALSE, lists |-> l], ClipVector, i)
                = [threw |-> FALSE, lists |-> m]
           /\ LinkedTo(m, i)
<1> DEFINE v == ClipVector
           back == Piece(FirstLinked(i), i - 1)
           forth == Piece(i + 1, LastLinked(i))
           acc == [threw |-> FALSE, lists |-> l]
           m == SetLists(l, i + 1, back, forth)
<1>1. /\ v \in Seq(Nat) /\ Len(v) = Clip /\ Clip \in Nat \ {0} /\ Depth \in Nat \ {0}
      /\ \A k \in 1 .. Clip : v[k] = k + 1
  BY ClipVectorType, StationAssumption, FramesAssumption
     DEF StationAssumption, FramesAssumption
<1>2. /\ FirstLinked(i) \in 1 .. Clip + 1 /\ i - 1 \in 0 .. Clip /\ i + 1 \in 1 .. Clip + 1
      /\ LastLinked(i) \in 0 .. Clip
  BY <1>1 DEF FirstLinked, LastLinked
<1>3. /\ back \in Seq(Nat) /\ Len(back) = (IF FirstLinked(i) <= i - 1 THEN i - FirstLinked(i) ELSE 0)
      /\ (back = <<>>) = (FirstLinked(i) > i - 1)
      /\ \A k \in 1 .. Len(back) : back[k] = FirstLinked(i) + k
  <2> DEFINE a == FirstLinked(i)
             b == i - 1
  <2>1. a \in 1 .. Clip + 1 /\ b \in 0 .. Clip /\ a \in Nat /\ i \in Nat
    BY <1>1, <1>2
  <2>2. back = Piece(a, b)
    OBVIOUS
  <2> HIDE DEF a, b, back
  <2>3. /\ Piece(a, b) \in Seq(Nat)
        /\ Len(Piece(a, b)) = (IF a <= b THEN b - a + 1 ELSE 0)
        /\ (Piece(a, b) = <<>>) = (a > b)
        /\ \A k \in 1 .. Len(Piece(a, b)) : Piece(a, b)[k] = a + k
    BY <2>1, ClipPiece
  <2>4. b - a + 1 = i - a
    BY <2>1 DEF b
  <2> QED
    BY <2>2, <2>3, <2>4 DEF a, b
<1>4. /\ forth \in Seq(Nat)
      /\ Len(forth) = (IF i + 1 <= LastLinked(i) THEN LastLinked(i) - i ELSE 0)
      /\ (forth = <<>>) = (i + 1 > LastLinked(i))
      /\ \A k \in 1 .. Len(forth) : forth[k] = i + 1 + k
  <2> DEFINE a == i + 1
             b == LastLinked(i)
  <2>1. a \in 1 .. Clip + 1 /\ b \in 0 .. Clip /\ b \in Nat /\ i \in Nat
    BY <1>1, <1>2
  <2>2. forth = Piece(a, b)
    OBVIOUS
  <2> HIDE DEF a, b, forth
  <2>3. /\ Piece(a, b) \in Seq(Nat)
        /\ Len(Piece(a, b)) = (IF a <= b THEN b - a + 1 ELSE 0)
        /\ (Piece(a, b) = <<>>) = (a > b)
        /\ \A k \in 1 .. Len(Piece(a, b)) : Piece(a, b)[k] = a + k
    BY <2>1, ClipPiece
  <2>4. b - a + 1 = b - i
    BY <2>1 DEF a
  <2> QED
    BY <2>2, <2>3, <2>4 DEF a, b
<1>5. back = Without(back, i + 1) /\ forth = Without(forth, i + 1)
  BY <1>1, <1>2, ClipPieceWithout
<1> HIDE DEF v, back, forth
<1>6. l[i + 1] = Blank
  BY <1>1, ~ (i <= i - 1) DEF LinkedTo
<1>7. v[i] = i + 1 /\ (i > 1 => v[i - 1] = i) /\ (i < Len(v) => v[i + 1] = i + 2)
  BY <1>1
<1>8. /\ (back = <<>>) = (i = 1)
      /\ i > 1 => Last(back) = v[i - 1]
  <2>1. FirstLinked(i) \in Nat \ {0} /\ i \in Nat \ {0} /\ (i > 1 => FirstLinked(i) < i) /\ (i = 1 => FirstLinked(i) = 1)
    BY <1>1 DEF FirstLinked
  <2>2. (back = <<>>) = (i = 1)
    BY <1>3, <2>1
  <2>3. i > 1 => Len(back) = i - FirstLinked(i) /\ Len(back) \in 1 .. Len(back)
    BY <1>3, <2>1
  <2>4. i > 1 => back[Len(back)] = i
    BY <1>3, <2>1, <2>3
  <2> QED
    BY <1>7, <2>2, <2>4 DEF Last
<1>81. /\ (forth = <<>>) = (i = Len(v))
       /\ i < Len(v) => forth[1] = v[i + 1]
  <2>1. /\ LastLinked(i) \in Nat /\ i \in Nat \ {0} /\ i <= Clip
        /\ (i < Clip => LastLinked(i) > i) /\ (i = Clip => LastLinked(i) = i)
    BY <1>1 DEF LastLinked
  <2>2. (forth = <<>>) = (i = Clip)
    BY <1>1, <1>4, <2>1
  <2>3. i < Clip => 1 \in 1 .. Len(forth)
    BY <1>4, <2>1
  <2> QED
    BY <1>1, <1>4, <1>7, <2>1, <2>2, <2>3
<1>9. LinkOne(acc, v, i) = [threw |-> FALSE, lists |-> m]
  <2>1. l[i + 1].first = <<>> /\ l[i + 1].second = <<>>
    BY <1>6 DEF Blank
  <2>2. /\ SubSeq(v, i + 1, IF i + Depth < Len(v) THEN i + Depth ELSE Len(v)) = forth
        /\ SubSeq(v, IF i > Depth THEN i - Depth ELSE 1, i - 1) = back
    BY <1>1 DEF FirstLinked, LastLinked, back, forth, v, Piece
  <2> HIDE DEF m
  <2>3. LinkOne(acc, v, i) = [acc EXCEPT !.lists = SetLists(l, i + 1, back, forth)]
    BY <1>7, <1>8, <1>81, <2>1, <2>2 DEF LinkOne
  <2> QED
    BY <2>3 DEF m
<1>10. /\ m \in [1 .. Clip + 1 -> LinkSet]
       /\ m[i + 1] = [first |-> back, second |-> forth]
       /\ \A g \in 1 .. Clip + 1 : g # i + 1 => m[g] = l[g]
  <2> DEFINE n == Clip + 1
             f == i + 1
  <2>1. n \in Nat /\ f \in 1 .. n
    BY <1>1
  <2>2. l \in [1 .. n -> LinkSet] /\ back \in Seq(Nat) /\ forth \in Seq(Nat)
    BY <1>3, <1>4
  <2>3. m = SetLists(l, f, back, forth) /\ Without(back, f) = back /\ Without(forth, f) = forth
    BY <1>5
  <2> HIDE DEF m, n, f
  <2>4. /\ m \in [1 .. n -> LinkSet]
        /\ m[f] = [first |-> back, second |-> forth]
        /\ \A g \in 1 .. n : g # f => m[g] = l[g]
    <3>1. l \in Links(n)
      BY <2>2 DEF Links
    <3>2. back \in Seq(Nat) /\ forth \in Seq(Nat)
      BY <2>2
    <3>3. n \in Nat
      BY <2>1
    <3>4. f \in 1 .. n
      BY <2>1
    <3>5. /\ SetLists(l, f, back, forth) \in Links(n)
          /\ SetLists(l, f, back, forth)[f]
               = [first |-> Without(back, f), second |-> Without(forth, f)]
          /\ \A g \in 1 .. n : g # f => SetLists(l, f, back, forth)[g] = l[g]
      <4>1. back \in ListsOf(Nat) /\ forth \in ListsOf(Nat)
        BY <3>2 DEF ListsOf
      <4>2. ListsSet(n, l, f, back, forth)
        BY ONLY <3>1, <3>3, <3>4, <4>1, SetListsSet
      <4> QED
        BY ONLY <4>2, Zenon DEF ListsSet
    <3> QED
      BY <2>3, <3>5 DEF Links
  <2> QED
    BY <2>4 DEF n, f
<1> HIDE DEF m
<1>11. LinkedTo(m, i)
  BY <1>1, <1>10 DEF LinkedTo, LinkedAt, ItemFrame, back, forth, v
<1> QED
  BY <1>9, <1>10, <1>11 DEF v

\* Whatever the lists are, linking one frame leaves lists.
LinkStates == [threw : BOOLEAN, lists : [1 .. Clip + 1 -> LinkSet]]

\* LinkOne keeps its kind, whatever the lists are.
LEMMA LinkOneType ==
  ASSUME NEW acc \in LinkStates, NEW i \in 1 .. Clip
  PROVE  LinkOne(acc, ClipVector, i) \in LinkStates
<1> DEFINE v == ClipVector
           l == acc.lists
           old == l[i + 1]
           forward  == IF old.second # <<>> THEN old.second
                       ELSE SubSeq(v, i + 1, IF i + Depth < Len(v) THEN i + Depth ELSE Len(v))
           backward == IF old.first # <<>> THEN old.first
                       ELSE SubSeq(v, IF i > Depth THEN i - Depth ELSE 1, i - 1)
           n == Clip + 1
           f == i + 1
<1>1. /\ v \in Seq(Nat) /\ Len(v) = Clip /\ Clip \in Nat \ {0} /\ Depth \in Nat \ {0}
      /\ v[i] = i + 1
  BY ClipVectorType, StationAssumption, FramesAssumption
     DEF StationAssumption, FramesAssumption
<1>2. l \in [1 .. n -> LinkSet] /\ n \in Nat /\ f \in 1 .. n
  BY <1>1 DEF LinkStates
<1>3. old.first \in Seq(Nat) /\ old.second \in Seq(Nat)
  BY <1>2 DEF LinkSet
<1>4. forward \in Seq(Nat)
  <2> HIDE DEF v, old
  <2>1. SubSeq(v, i + 1, IF i + Depth < Len(v) THEN i + Depth ELSE Len(v)) \in Seq(Nat)
    BY <1>1
  <2> QED
    BY <1>3, <2>1
<1>5. backward \in Seq(Nat)
  <2> HIDE DEF v, old
  <2>1. SubSeq(v, IF i > Depth THEN i - Depth ELSE 1, i - 1) \in Seq(Nat)
    BY <1>1
  <2> QED
    BY <1>3, <2>1
<1>6. \/ LinkOne(acc, v, i) = acc
      \/ LinkOne(acc, v, i) = [acc EXCEPT !.threw = TRUE]
      \/ LinkOne(acc, v, i) = [acc EXCEPT !.lists = SetLists(l, f, backward, forward)]
  BY <1>1 DEF LinkOne
<1> HIDE DEF forward, backward, n, f, v
<1>7. SetLists(l, f, backward, forward) \in [1 .. n -> LinkSet]
  BY <1>2, <1>4, <1>5, SetListsType DEF Links
<1> QED
  BY <1>6, <1>7 DEF LinkStates, n, v

\* The loop of link_vector over the clip.
LinkFold(l) == FoldLeft(LAMBDA acc, i : LinkOne(acc, ClipVector, i),
                        [threw |-> FALSE, lists |-> l], [i \in DOMAIN ClipVector |-> i])

\* link_vector links every frame of the clip and throws nothing.
LEMMA LinkFoldLinks ==
  ASSUME NEW l \in [1 .. Clip + 1 -> LinkSet], LinkedTo(l, 0)
  PROVE  \E m \in [1 .. Clip + 1 -> LinkSet] :
           LinkFold(l) = [threw |-> FALSE, lists |-> m] /\ LinkedTo(m, Clip)
<1> DEFINE n == Clip
           seq == [i \in DOMAIN ClipVector |-> i]
           S == DOMAIN seq
           a == [threw |-> FALSE, lists |-> l]
           c == [s \in SUBSET S |-> Max(s)]
           D == [i \in S |-> [x \in LinkStates |-> LinkOne(x, ClipVector, i)]]
           Eq(g) == g = [s \in SUBSET S |->
                           IF s = {} THEN a
                           ELSE LinkOne(g[s \ {Max(s)}], ClipVector, seq[Max(s)])]
           it == CHOOSE g : Eq(g)
           P(k) == \E m \in [1 .. Clip + 1 -> LinkSet] :
                     it[1 .. k] = [threw |-> FALSE, lists |-> m] /\ LinkedTo(m, k)
<1>7. LinkFold(l) = it[S]
  BY DEF LinkFold, FoldLeft, MapThenFoldSet
<1>1. n \in Nat /\ S = 1 .. n /\ IsFiniteSet(S) /\ \A i \in S : seq[i] = i
  BY ClipVectorType, StationAssumption, FS_Interval DEF StationAssumption
<1> HIDE DEF seq
<1>2. \A s \in SUBSET S : s # {} => c[s] \in s
  BY <1>1, MaxOfNumbers
<1>3. a \in LinkStates /\ D \in [S -> [LinkStates -> LinkStates]]
  BY <1>1, LinkOneType DEF LinkStates
<1>4. PICK g \in [SUBSET S -> LinkStates] : TakesOut(g, S, c, a, D)
  <2>1. IsFiniteSet(S) /\ a \in LinkStates /\ D \in [S -> [LinkStates -> LinkStates]]
    BY <1>1, <1>3
  <2> HIDE DEF c, D, a, S, LinkStates
  <2> QED
    BY ONLY <1>2, <2>1, SubsetRecursion
<1>5. Eq(g)
  <2>1. ASSUME NEW s \in SUBSET S
        PROVE  g[s] = IF s = {} THEN a
                      ELSE LinkOne(g[s \ {Max(s)}], ClipVector, seq[Max(s)])
    <3>1. s # {} => Max(s) \in S /\ g[s \ {Max(s)}] \in LinkStates
      BY <1>2
    <3>2. g[s] = IF s = {} THEN a ELSE D[c[s]][g[s \ {c[s]}]]
      <4> HIDE DEF a, c, D
      <4> QED
        BY <1>4 DEF TakesOut
    <3>3. c[s] = Max(s)
      OBVIOUS
    <3>4. CASE s = {}
      <4> HIDE DEF a
      <4> QED
        BY <3>2, <3>4
    <3>5. CASE s # {}
      <4> DEFINE x == g[s \ {Max(s)}]
                 i == Max(s)
      <4>1. x \in LinkStates /\ i \in S
        BY <3>1, <3>5
      <4>2. g[s] = D[i][x]
        <5> HIDE DEF c, D, a
        <5> QED
          BY <3>2, <3>3, <3>5
      <4>3. seq[i] = i
        BY <1>1, <4>1
      <4> HIDE DEF x, i, a, c
      <4>4. D[i][x] = LinkOne(x, ClipVector, i)
        BY <4>1
      <4> QED
        BY <3>5, <4>2, <4>3, <4>4 DEF x, i
    <3> QED
      BY <3>4, <3>5
  <2> QED
    BY <2>1
<1>6. Eq(it)
  <2> HIDE DEF Eq
  <2> QED
    BY <1>5
<1> HIDE DEF it
<1>8. P(0)
  <2>1. it[1 .. 0] = a
    BY <1>1, <1>6
  <2> QED
    BY <2>1
<1>9. ASSUME NEW k \in 0 .. n - 1, P(k)
      PROVE  P(k + 1)
  <2>0. k \in Nat
    BY <1>1
  <2>1. Max(1 .. k + 1) = k + 1 /\ (1 .. k + 1) \ {k + 1} = 1 .. k
    BY <2>0, MaxOfInterval
  <2>2. k + 1 \in S /\ (1 .. k + 1) \in SUBSET S /\ 1 .. k + 1 # {}
    <3>1. k + 1 <= n
      BY <1>1
    <3>2. k + 1 \in 1 .. k + 1
      BY <2>0
    <3>3. \A x \in 1 .. k + 1 : x \in 1 .. n
      BY <1>1, <2>0, <3>1
    <3> HIDE DEF n, S
    <3> QED
      BY <1>1, <3>2, <3>3
  <2>3. it[1 .. k + 1] = LinkOne(it[1 .. k], ClipVector, k + 1)
    <3> DEFINE s == 1 .. k + 1
    <3>1. it[s] = LinkOne(it[s \ {Max(s)}], ClipVector, seq[Max(s)])
      <4> HIDE DEF s
      <4> QED
        BY <1>6, <2>2 DEF s
    <3> QED
      BY <1>1, <2>1, <2>2, <3>1
  <2>4. PICK m \in [1 .. Clip + 1 -> LinkSet] :
          it[1 .. k] = [threw |-> FALSE, lists |-> m] /\ LinkedTo(m, k)
    BY <1>9
  <2>5. k + 1 \in 1 .. Clip /\ (k + 1) - 1 = k
    BY <1>1, <2>2
  <2>6. LinkedTo(m, (k + 1) - 1)
    BY <2>4, <2>5
  <2>7. PICK o \in [1 .. Clip + 1 -> LinkSet] :
          /\ LinkOne([threw |-> FALSE, lists |-> m], ClipVector, k + 1)
               = [threw |-> FALSE, lists |-> o]
          /\ LinkedTo(o, k + 1)
    BY <2>5, <2>6, LinkOneLinks
  <2> QED
    BY <2>3, <2>4, <2>7
<1> HIDE DEF P
<1>10. P(n)
  <2> DEFINE T == {k \in 0 .. n : P(k)}
  <2>1. 0 \in T
    BY <1>1, <1>8
  <2>2. \A k \in 0 .. n - 1 : k \in T => k + 1 \in T
    BY <1>1, <1>9
  <2> HIDE DEF T
  <2>3. 0 .. n \subseteq T
    BY <1>1, <2>1, <2>2, BoundedInduction
  <2>4. n \in T
    BY <1>1, <2>3
  <2> QED
    BY <2>4 DEF T
<1>11. it[S] = it[1 .. n]
  BY <1>1
<1> QED
  BY <1>7, <1>10, <1>11 DEF P

\* What the lists of a frame say of the frames next to it: those of the clip
\* are linked with each other, the others lead to later frames.
ClipLink(x, f) ==
  /\ IF f = Clip + 1 THEN x.second = <<>> ELSE x.second # <<>> /\ x.second[1] = f + 1
  /\ IF f = ClipStart THEN x.first = <<>>
                      ELSE x.first # <<>> /\ x.first[1] \in ClipStart .. f - 1

\* A frame in a list of another one comes behind it.
OtherLink(x, f, n) ==
  /\ x.first = <<>>
  /\ x.second # <<>> => x.second[1] \in f + 1 .. n /\ x.second[1] > Clip + 1

\* The lists before and after the clip is linked.
Blanks == [f \in 1 .. Clip + 1 |-> Blank]
FirstLists == LinkVector(Blanks, ClipVector).lists

\* The lists that LinkOne makes are those of a frame of the clip.
LEMMA LinkedAtLinks ==
  ASSUME NEW i \in 1 .. Clip
  PROVE  ClipLink(LinkedAt(i), i + 1)
<1>1. Clip \in Nat \ {0} /\ Depth \in Nat \ {0} /\ i \in Nat \ {0} /\ i <= Clip
  BY StationAssumption, FramesAssumption DEF StationAssumption, FramesAssumption
<1>2. /\ LinkedAt(i).first = Piece(FirstLinked(i), i - 1)
      /\ LinkedAt(i).second = Piece(i + 1, LastLinked(i))
  BY DEF LinkedAt
<1>3. IF i + 1 = Clip + 1 THEN LinkedAt(i).second = <<>>
      ELSE LinkedAt(i).second # <<>> /\ LinkedAt(i).second[1] = (i + 1) + 1
  <2> DEFINE a == i + 1
             b == LastLinked(i)
             s == Piece(a, b)
  <2>1. a \in 1 .. Clip + 1 /\ b \in 0 .. Clip /\ (i < Clip => a <= b) /\ (i = Clip => a > b)
    BY <1>1 DEF LastLinked
  <2>2. a \in Nat /\ b \in Nat /\ a + 1 = (i + 1) + 1
    BY <1>1, <2>1
  <2> HIDE DEF a, b
  <2>3. /\ s \in Seq(Nat) /\ Len(s) = (IF a <= b THEN b - a + 1 ELSE 0)
        /\ (s = <<>>) = (a > b) /\ \A k \in 1 .. Len(s) : s[k] = a + k
    BY <2>1, ClipPiece
  <2> HIDE DEF s
  <2>4. CASE i = Clip
    BY <1>2, <2>1, <2>3, <2>4 DEF s, a, b
  <2>5. CASE i < Clip
    <3>1. s # <<>> /\ 1 \in 1 .. Len(s)
      BY <2>1, <2>2, <2>3, <2>5
    <3>2. s[1] = a + 1
      BY <2>3, <3>1
    <3>3. i + 1 # Clip + 1
      BY <1>1, <2>5
    <3> QED
      BY <1>2, <2>2, <3>1, <3>2, <3>3 DEF s, a, b
  <2> QED
    BY <1>1, <2>4, <2>5
<1>4. IF i + 1 = ClipStart THEN LinkedAt(i).first = <<>>
      ELSE LinkedAt(i).first # <<>> /\ LinkedAt(i).first[1] \in ClipStart .. (i + 1) - 1
  <2> DEFINE a == FirstLinked(i)
             b == i - 1
             s == Piece(a, b)
  <2>1. /\ a \in 1 .. Clip + 1 /\ b \in 0 .. Clip /\ (i > 1 => a <= b) /\ (i = 1 => a > b)
        /\ a >= 1
    BY <1>1 DEF FirstLinked
  <2>2. a \in Nat /\ b \in Nat /\ b + 1 = i
    BY <1>1, <2>1
  <2> HIDE DEF a, b
  <2>3. /\ s \in Seq(Nat) /\ Len(s) = (IF a <= b THEN b - a + 1 ELSE 0)
        /\ (s = <<>>) = (a > b) /\ \A k \in 1 .. Len(s) : s[k] = a + k
    BY <2>1, ClipPiece
  <2> HIDE DEF s
  <2>4. CASE i = 1
    BY <1>2, <2>1, <2>3, <2>4 DEF s, a, b, ClipStart
  <2>5. CASE i > 1
    <3>1. s # <<>> /\ 1 \in 1 .. Len(s)
      BY <2>1, <2>2, <2>3, <2>5
    <3>2. s[1] = a + 1
      BY <2>3, <3>1
    <3>3. i + 1 # ClipStart /\ a + 1 \in ClipStart .. (i + 1) - 1
      BY <1>1, <2>1, <2>2, <2>5 DEF ClipStart
    <3> QED
      BY <1>2, <3>1, <3>2, <3>3 DEF s, a, b
  <2> QED
    BY <1>1, <2>4, <2>5
<1> QED
  BY <1>3, <1>4 DEF ClipLink

\* Lists without the frame itself are set as they are.
LEMMA SetListsPlain ==
  ASSUME NEW n \in Nat, NEW l, l \in Links(n), NEW f \in 1 .. n,
         NEW first \in Seq(Nat), NEW second \in Seq(Nat),
         Without(first, f) = first, Without(second, f) = second
  PROVE  /\ SetLists(l, f, first, second) \in Links(n)
         /\ SetLists(l, f, first, second)[f] = [first |-> first, second |-> second]
         /\ \A g \in 1 .. n : g # f => SetLists(l, f, first, second)[g] = l[g]
BY SetListsType

\* The lists the clip is loaded with.
LEMMA FirstListsLinked ==
  /\ FirstLists \in Links(Clip + 1)
  /\ FirstLists[ItemFrame] = Blank
  /\ \A f \in ClipFrames : ClipLink(FirstLists[f], f)
<1>1. /\ Clip \in Nat \ {0} /\ Clip + 1 \in Nat /\ Len(ClipVector) = Clip
      /\ \A k \in 1 .. Clip : ClipVector[k] = k + 1
  BY ClipVectorType, StationAssumption DEF StationAssumption
<1>2. Blanks \in Links(Clip + 1) /\ LinkedTo(Blanks, 0) /\ Blanks[ItemFrame] = Blank
  <2>1. Blank \in LinkSet
    BY DEF Blank, LinkSet
  <2>2. \A k \in 1 .. Clip : k + 1 \in 1 .. Clip + 1 /\ ~ (k <= 0)
    BY <1>1
  <2>3. ItemFrame \in 1 .. Clip + 1
    BY <1>1 DEF ItemFrame
  <2> HIDE DEF Blank
  <2> QED
    BY <2>1, <2>2, <2>3 DEF Blanks, Links, LinkedTo
<1>3. CASE Clip = 1
  <2>1. FirstLists = Blanks
    BY <1>1, <1>3 DEF FirstLists, LinkVector
  <2>2. \A f \in ClipFrames : f = 2 /\ Blanks[f] = Blank
    BY <1>3 DEF ClipFrames, ClipStart, Blanks
  <2>3. ClipLink(Blank, 2)
    BY <1>3 DEF ClipLink, Blank, ClipStart
  <2> QED
    BY <1>2, <2>1, <2>2, <2>3
<1>4. CASE Clip = 2
  <2>1. FirstLists = SetLists(SetLists(Blanks, 2, <<>>, <<3>>), 3, <<2>>, <<>>)
    <3>1. ClipVector[1] = 2 /\ ClipVector[2] = 3
      BY <1>1, <1>4
    <3> QED
      BY <1>1, <1>4, <3>1 DEF FirstLists, LinkVector
  <2> DEFINE l == SetLists(Blanks, 2, <<>>, <<3>>)
  <2>2. /\ Without(<<>>, 2) = <<>> /\ Without(<<>>, 3) = <<>>
        /\ Without(<<3>>, 2) = <<3>> /\ Without(<<2>>, 3) = <<2>>
    <3> DEFINE A == Nat \ {2}
               B == Nat \ {3}
    <3>1. /\ <<>> \in Seq(A) /\ <<>> \in Seq(B) /\ <<3>> \in Seq(A) /\ <<2>> \in Seq(B)
          /\ 2 \notin A /\ 3 \notin B
      OBVIOUS
    <3> HIDE DEF A, B
    <3> QED
      BY <3>1, WithoutNone
  <2>3. <<>> \in Seq(Nat) /\ <<3>> \in Seq(Nat) /\ <<2>> \in Seq(Nat)
    OBVIOUS
  <2>4. 3 \in Nat /\ 2 \in 1 .. 3 /\ 3 \in 1 .. 3 /\ Blanks \in Links(3)
    BY <1>2, <1>4
  <2>5. /\ l \in Links(3) /\ l[2] = [first |-> <<>>, second |-> <<3>>]
        /\ \A g \in 1 .. 3 : g # 2 => l[g] = Blanks[g]
    <3> DEFINE n == 3
               p == Blanks
               f == 2
               a == <<>>
               b == <<3>>
    <3>1. /\ n \in Nat /\ p \in Links(n) /\ f \in 1 .. n
          /\ a \in Seq(Nat) /\ b \in Seq(Nat) /\ Without(a, f) = a /\ Without(b, f) = b
      BY <2>2, <2>3, <2>4
    <3> HIDE DEF n, p, f, a, b, l
    <3>2. /\ SetLists(p, f, a, b) \in Links(n)
          /\ SetLists(p, f, a, b)[f] = [first |-> a, second |-> b]
          /\ \A g \in 1 .. n : g # f => SetLists(p, f, a, b)[g] = p[g]
      <4>1. n \in Nat /\ p \in Links(n) /\ f \in 1 .. n /\ a \in Seq(Nat) /\ b \in Seq(Nat)
        BY <3>1
      <4>2. /\ SetLists(p, f, a, b) \in Links(n)
            /\ SetLists(p, f, a, b)[f] = [first |-> Without(a, f), second |-> Without(b, f)]
            /\ \A g \in 1 .. n : g # f => SetLists(p, f, a, b)[g] = p[g]
        BY <4>1, SetListsType
      <4> QED
        BY <3>1, <4>2
    <3> QED
      BY <3>2 DEF n, p, f, a, b, l
  <2> HIDE DEF l
  <2>6. /\ SetLists(l, 3, <<2>>, <<>>) \in Links(3)
        /\ SetLists(l, 3, <<2>>, <<>>)[3] = [first |-> <<2>>, second |-> <<>>]
        /\ \A g \in 1 .. 3 : g # 3 => SetLists(l, 3, <<2>>, <<>>)[g] = l[g]
    <3> DEFINE n == 3
               a == <<2>>
               b == <<>>
    <3>1. /\ n \in Nat /\ l \in Links(n) /\ n \in 1 .. n
          /\ a \in Seq(Nat) /\ b \in Seq(Nat) /\ Without(a, n) = a /\ Without(b, n) = b
      BY <2>2, <2>3, <2>4, <2>5
    <3> HIDE DEF n, a, b
    <3>2. /\ SetLists(l, n, a, b) \in Links(n)
          /\ SetLists(l, n, a, b)[n] = [first |-> a, second |-> b]
          /\ \A g \in 1 .. n : g # n => SetLists(l, n, a, b)[g] = l[g]
      BY <3>1, SetListsPlain
    <3> QED
      BY <3>2 DEF n, a, b
  <2>7. FirstLists = SetLists(l, 3, <<2>>, <<>>)
    BY <2>1 DEF l
  <2>8. FirstLists[1] = Blank /\ FirstLists[2] = [first |-> <<>>, second |-> <<3>>]
    <3>1. 1 \in 1 .. 3 /\ 2 \in 1 .. 3
      OBVIOUS
    <3> QED
      BY <1>2, <2>5, <2>6, <2>7, <3>1 DEF ItemFrame
  <2>9. \A f \in ClipFrames : f = 2 \/ f = 3
    BY <1>4 DEF ClipFrames, ClipStart
  <2>10. ClipLink([first |-> <<>>, second |-> <<3>>], 2)
    BY <1>4 DEF ClipLink, ClipStart
  <2>11. ClipLink([first |-> <<2>>, second |-> <<>>], 3)
    BY <1>4 DEF ClipLink, ClipStart
  <2> QED
    BY <1>4, <2>6, <2>7, <2>8, <2>9, <2>10, <2>11 DEF ItemFrame
<1>5. CASE Clip > 2
  <2>1. FirstLists = LinkFold(Blanks).lists
    <3>1. ~ (Len(ClipVector) < 2) /\ ~ (Len(ClipVector) = 2)
      BY <1>1, <1>5
    <3>2. LinkVector(Blanks, ClipVector) = LinkFold(Blanks)
      BY <3>1, Zenon DEF LinkVector, LinkFold
    <3> QED
      BY <3>2 DEF FirstLists
  <2>2. PICK m \in [1 .. Clip + 1 -> LinkSet] :
          LinkFold(Blanks) = [threw |-> FALSE, lists |-> m] /\ LinkedTo(m, Clip)
    BY <1>2, LinkFoldLinks DEF Links
  <2>3. FirstLists = m /\ m[ItemFrame] = Blank
    BY <2>1, <2>2 DEF LinkedTo
  <2>4. ASSUME NEW f \in ClipFrames
        PROVE  ClipLink(m[f], f)
    <3>1. f - 1 \in 1 .. Clip /\ f = (f - 1) + 1 /\ f - 1 <= Clip
      BY <1>1 DEF ClipFrames, ClipStart
    <3>2. m[f] = LinkedAt(f - 1)
      BY <2>2, <3>1 DEF LinkedTo
    <3> QED
      BY <3>1, <3>2, LinkedAtLinks
  <2> QED
    BY <2>2, <2>3, <2>4 DEF Links
<1> QED
  BY <1>1, <1>3, <1>4, <1>5

\* Sound or samples.
RawSet == Seq(Int) \cup Seq(SampleSet)

\* What holds of the frame f of the clip and of another one.
ClipFrame(f) ==
  /\ spans[f] = [start |-> (f - 2) * Span, end |-> (f - 1) * Span]
  /\ content[f] = [k \in 1 .. Span |-> (f - 2) * Span + k]
  /\ ClipLink(lists[f], f)

OtherFrame(f) ==
  /\ content[f] \in Seq(SampleSet)
  /\ OtherLink(lists[f], f, Len(lists))

\* Every frame has its time, content and lists; those of the clip stay as they
\* were made.
FramesInv ==
  /\ lists \in Seq(LinkSet) /\ spans \in Seq(SpanSet) /\ content \in Seq(RawSet)
  /\ Len(spans) = Len(lists) /\ Len(content) = Len(lists) /\ Len(lists) >= Clip + 1
  /\ \A f \in ClipFrames : ClipFrame(f)
  /\ \A f \in 1 .. Len(lists) : f \notin ClipFrames => OtherFrame(f)

(***************************************************************************)
(* The walk to a moment ends.                                              *)
(***************************************************************************)

\* Frame g lasts at a time.
Lasts(g, time) == spans[g].start <= time /\ time <= spans[g].end

\* One round of the walk, as ScrollToTime makes it.
Round(g, time) == IF g \notin AllFrames \/ ScrollStep(g, time, AllFrames) = g
                  THEN g ELSE ScrollStep(g, time, AllFrames)

\* The rounds a walk at g has still to make, at most: back in the clip, and
\* then on.
Ahead(g, time) ==
  IF time > spans[g].end THEN Len(lists) - g + 1
  ELSE IF g \in ClipFrames THEN Len(lists) + g ELSE 1

\* Where a walk from f can be after k rounds.
OnTheWay(f, time, g, k) ==
  \/ g = BlankFrame
  \/ /\ g \in 1 .. Len(lists) /\ (g \in ClipFrames <=> f \in ClipFrames)
     /\ f \in ClipFrames /\ time >= spans[f].start => g >= f /\ time >= spans[g].start
     /\ Lasts(g, time) \/ Ahead(g, time) <= 2 * Len(lists) - k

\* Numbers of frames, and kinds.
LEMMA FrameCounts ==
  ASSUME FramesInv
  PROVE  /\ AllFrames = 1 .. Len(lists) /\ Len(lists) \in Nat /\ Clip \in Nat \ {0}
         /\ Span \in Nat \ {0}
         /\ \A f \in 1 .. Len(lists) : /\ spans[f] \in SpanSet
                                       /\ lists[f].first \in Seq(Nat)
                                       /\ lists[f].second \in Seq(Nat)
         /\ \A f \in ClipFrames : f \in 1 .. Len(lists)
         /\ \A f : f \in ClipFrames <=> f \in 2 .. Clip + 1
<1>1. Len(lists) \in Nat /\ Clip \in Nat \ {0} /\ Span \in Nat \ {0}
  BY StationAssumption, FramesAssumption DEF StationAssumption, FramesAssumption, FramesInv
<1>2. AllFrames = 1 .. Len(lists)
  BY DEF AllFrames, FramesInv
<1>3. ASSUME NEW f \in 1 .. Len(lists)
      PROVE  spans[f] \in SpanSet /\ lists[f].first \in Seq(Nat) /\ lists[f].second \in Seq(Nat)
  <2>1. spans[f] \in SpanSet /\ lists[f] \in LinkSet
    BY DEF FramesInv
  <2> QED
    BY <2>1 DEF LinkSet
<1>4. \A f : f \in ClipFrames <=> f \in 2 .. Clip + 1
  BY DEF ClipFrames, ClipStart
<1>5. \A f \in ClipFrames : f \in 1 .. Len(lists)
  BY <1>1, <1>4 DEF FramesInv
<1> QED
  BY <1>1, <1>2, <1>3, <1>4, <1>5

\* The next frame of a walk in the clip and elsewhere.
LEMMA StepInClip ==
  ASSUME FramesInv, NEW g \in ClipFrames, NEW time \in Int
  PROVE  /\ spans[g].start = (g - 2) * Span /\ spans[g].end = (g - 1) * Span
         /\ \/ Lasts(g, time) /\ ScrollStep(g, time, AllFrames) = g
            \/ /\ time > spans[g].end /\ g < Clip + 1
               /\ ScrollStep(g, time, AllFrames) = g + 1
            \/ /\ time > spans[g].end /\ g = Clip + 1
               /\ ScrollStep(g, time, AllFrames) = BlankFrame
            \/ /\ time < spans[g].start
               /\ ScrollStep(g, time, AllFrames) \in 2 .. g - 1
            \/ /\ time < spans[g].start /\ g = ClipStart
               /\ ScrollStep(g, time, AllFrames) = BlankFrame
<1>1. /\ g \in AllFrames /\ Span \in Nat /\ g \in Nat /\ Clip \in Nat /\ g <= Clip + 1
      /\ spans[g].start \in Int /\ spans[g].end \in Int
  BY FrameCounts DEF SpanSet
<1>2. /\ spans[g] = [start |-> (g - 2) * Span, end |-> (g - 1) * Span]
      /\ ClipLink(lists[g], g)
  BY DEF FramesInv, ClipFrame
<1>3. spans[g].start <= spans[g].end
  <2>1. (g - 1) * Span = (g - 2) * Span + Span
    BY <1>1
  <2>2. (g - 2) * Span \in Int
    BY <1>1
  <2> QED
    BY <1>1, <1>2, <2>1, <2>2
<1>4. CASE Lasts(g, time)
  BY <1>1, <1>2, <1>4 DEF ScrollStep, Lasts
<1>5. CASE time > spans[g].end
  <2>1. ScrollStep(g, time, AllFrames) = IF lists[g].second = <<>> THEN BlankFrame
                                         ELSE lists[g].second[1]
    BY <1>1, <1>5 DEF ScrollStep
  <2> QED
    BY <1>1, <1>2, <1>5, <2>1 DEF ClipLink
<1>6. CASE time < spans[g].start
  <2>1. ScrollStep(g, time, AllFrames) = IF lists[g].first = <<>> THEN BlankFrame
                                         ELSE lists[g].first[1]
    BY <1>1, <1>3, <1>6 DEF ScrollStep
  <2> QED
    BY <1>1, <1>2, <1>6, <2>1 DEF ClipLink, ClipStart
<1> QED
  BY <1>1, <1>2, <1>4, <1>5, <1>6 DEF Lasts

\* The next frame of a walk that is not in the clip comes behind.
LEMMA StepElsewhere ==
  ASSUME FramesInv, NEW g \in 1 .. Len(lists), g \notin ClipFrames, NEW time \in Int
  PROVE  \/ Lasts(g, time) /\ ScrollStep(g, time, AllFrames) = g
         \/ ScrollStep(g, time, AllFrames) = BlankFrame
         \/ /\ time > spans[g].end
            /\ ScrollStep(g, time, AllFrames) \in g + 1 .. Len(lists)
            /\ ScrollStep(g, time, AllFrames) > Clip + 1
<1>1. g \in AllFrames /\ spans[g].start \in Int /\ spans[g].end \in Int
  BY FrameCounts DEF SpanSet
<1>2. OtherLink(lists[g], g, Len(lists))
  BY DEF FramesInv, OtherFrame
<1>3. CASE Lasts(g, time)
  BY <1>1, <1>3 DEF ScrollStep, Lasts
<1>4. CASE ~ Lasts(g, time) /\ time > spans[g].end
  <2>1. ScrollStep(g, time, AllFrames) = IF lists[g].second = <<>> THEN BlankFrame
                                         ELSE lists[g].second[1]
    BY <1>1, <1>4 DEF ScrollStep, Lasts
  <2> QED
    BY <1>1, <1>2, <1>4, <2>1 DEF OtherLink
<1>5. CASE ~ Lasts(g, time) /\ ~ (time > spans[g].end)
  <2>1. ScrollStep(g, time, AllFrames) = IF lists[g].first = <<>> THEN BlankFrame
                                         ELSE lists[g].first[1]
    BY <1>1, <1>5 DEF ScrollStep, Lasts
  <2> QED
    BY <1>1, <1>2, <1>5, <2>1 DEF OtherLink
<1> QED
  BY <1>3, <1>4, <1>5

\* A round in the clip leaves a round less to go.
LEMMA RoundInClip ==
  ASSUME FramesInv, NEW f \in 1 .. Len(lists), NEW time \in Int, NEW k \in Nat,
         NEW g \in ClipFrames, OnTheWay(f, time, g, k), ~ Lasts(g, time)
  PROVE  OnTheWay(f, time, ScrollStep(g, time, AllFrames), k + 1)
<1> DEFINE n == Len(lists)
           h == ScrollStep(g, time, AllFrames)
<1>1. /\ n \in Nat /\ Clip \in Nat \ {0} /\ Span \in Nat \ {0} /\ Clip + 1 <= n
      /\ g \in 2 .. Clip + 1 /\ g # BlankFrame /\ f \in Nat
  BY FrameCounts DEF FramesInv, BlankFrame
<1>2. /\ f \in ClipFrames
      /\ time >= spans[f].start => g >= f /\ time >= spans[g].start
      /\ Ahead(g, time) <= 2 * n - k
  BY <1>1 DEF OnTheWay
<1>3. \A x \in ClipFrames : /\ spans[x].start = (x - 2) * Span
                            /\ spans[x].end = (x - 1) * Span
  BY StepInClip
<1>4. \A x : x \in ClipFrames <=> x \in 2 .. Clip + 1
  BY FrameCounts
<1>5. /\ spans[g].start \in Int /\ spans[g].end \in Int
      /\ spans[g].end = spans[g].start + Span
  <2>1. (g - 1) * Span = (g - 2) * Span + Span /\ (g - 2) * Span \in Int
    BY <1>1
  <2> QED
    BY <1>1, <1>3, <2>1
<1>6. ASSUME time > spans[g].end, g < Clip + 1, h = g + 1
      PROVE  OnTheWay(f, time, h, k + 1)
  <2>1. h \in 1 .. n /\ h \in ClipFrames
    BY <1>1, <1>4, <1>6
  <2>2. spans[h].start = spans[g].end /\ spans[h].end = spans[g].end + Span
    <3>1. spans[h].start = ((g + 1) - 2) * Span /\ spans[h].end = ((g + 1) - 1) * Span
      BY <1>3, <1>6, <2>1
    <3>2. (g + 1) - 2 = g - 1 /\ (g + 1) - 1 = (g - 1) + 1
      BY <1>1
    <3>3. ((g - 1) + 1) * Span = (g - 1) * Span + Span
      BY <1>1
    <3> QED
      BY <1>3, <3>1, <3>2, <3>3
  <2>3. Ahead(g, time) = n - g + 1
    BY <1>6 DEF Ahead
  <2>4. ~ Lasts(h, time) => Ahead(h, time) = n - h + 1
    <3> HIDE DEF h
    <3>1. ~ Lasts(h, time) => time > spans[h].end
      BY <1>1, <1>5, <1>6, <2>2 DEF Lasts
    <3> QED
      BY <3>1 DEF Ahead
  <2>5. h >= g /\ time >= spans[h].start
    BY <1>1, <1>5, <1>6, <2>2
  <2>6. Lasts(h, time) \/ Ahead(h, time) <= 2 * n - (k + 1)
    <3> HIDE DEF h, n
    <3>1. n - h + 1 <= 2 * n - (k + 1)
      BY <1>1, <1>2, <1>6, <2>3
    <3> QED
      BY ONLY <2>4, <3>1
  <2> HIDE DEF h, n
  <2>7. time >= spans[f].start => h >= f /\ time >= spans[h].start
    <3>1. time >= spans[f].start => g >= f
      BY <1>2
    <3> QED
      BY <1>1, <1>6, <2>5, <3>1
  <2> QED
    BY ONLY <1>2, <2>1, <2>6, <2>7 DEF OnTheWay, n
<1>7. ASSUME time < spans[g].start, h \in 2 .. g - 1
      PROVE  OnTheWay(f, time, h, k + 1)
  <2>1. h \in 1 .. n /\ h \in ClipFrames /\ h < g /\ h \in Nat
    BY <1>1, <1>4, <1>7
  <2>2. ~ (time >= spans[f].start)
    BY <1>2, <1>5, <1>7
  <2>3. Ahead(g, time) = n + g
    <3>1. ~ (time > spans[g].end)
      <4> DEFINE u == spans[g].start
                 v == spans[g].end
      <4>1. u \in Int /\ v \in Int /\ v = u + Span /\ Span \in Nat /\ time < u
        BY <1>1, <1>5, <1>7
      <4> HIDE DEF u, v
      <4>2. ~ (time > v)
        BY ONLY <4>1
      <4> QED
        BY <4>2 DEF v
    <3> QED
      BY <3>1 DEF Ahead
  <2>4. Ahead(h, time) = n - h + 1 \/ Ahead(h, time) = n + h
    BY <2>1 DEF Ahead
  <2> HIDE DEF h, n
  <2>6. Ahead(h, time) <= 2 * n - (k + 1)
    BY <1>1, <1>2, <1>7, <2>1, <2>3, <2>4
  <2> QED
    BY <1>2, <2>1, <2>2, <2>6 DEF OnTheWay, n
<1>8. h = BlankFrame => OnTheWay(f, time, h, k + 1)
  BY DEF OnTheWay
<1>9. \/ time > spans[g].end /\ g < Clip + 1 /\ h = g + 1
      \/ time < spans[g].start /\ h \in 2 .. g - 1
      \/ h = BlankFrame
  BY StepInClip
<1> HIDE DEF h
<1>10. OnTheWay(f, time, h, k + 1)
  BY <1>6, <1>7, <1>8, <1>9
<1> QED
  BY <1>10 DEF h

\* So does one elsewhere.
LEMMA RoundElsewhere ==
  ASSUME FramesInv, NEW f \in 1 .. Len(lists), NEW time \in Int, NEW k \in Nat,
         NEW g \in 1 .. Len(lists), g \notin ClipFrames, OnTheWay(f, time, g, k),
         ~ Lasts(g, time)
  PROVE  OnTheWay(f, time, ScrollStep(g, time, AllFrames), k + 1)
<1> DEFINE n == Len(lists)
           h == ScrollStep(g, time, AllFrames)
<1>1. /\ n \in Nat /\ Clip \in Nat \ {0} /\ g # BlankFrame /\ g \in Nat
  BY FrameCounts DEF BlankFrame
<1>2. /\ f \notin ClipFrames /\ Ahead(g, time) <= 2 * n - k
  BY <1>1 DEF OnTheWay
<1>3. h = BlankFrame => OnTheWay(f, time, h, k + 1)
  BY DEF OnTheWay
<1>4. ASSUME time > spans[g].end, h \in g + 1 .. n, h > Clip + 1
      PROVE  OnTheWay(f, time, h, k + 1)
  <2>1. h \in 1 .. n /\ h \in Nat /\ h > g
    BY <1>1, <1>4
  <2>2. h \notin ClipFrames
    BY <1>1, <1>4, <2>1 DEF ClipFrames
  <2>3. Ahead(g, time) = n - g + 1
    BY <1>4 DEF Ahead
  <2>4. Ahead(h, time) = n - h + 1 \/ Ahead(h, time) = 1
    BY <2>2 DEF Ahead
  <2> HIDE DEF h, n
  <2>5. n >= h
    BY <2>1 DEF n
  <2>6. Ahead(h, time) <= 2 * n - (k + 1)
    BY <1>1, <1>2, <2>1, <2>3, <2>4, <2>5
  <2> QED
    BY <1>2, <2>1, <2>2, <2>6 DEF OnTheWay, n
<1>5. \/ time > spans[g].end /\ h \in g + 1 .. n /\ h > Clip + 1
      \/ h = BlankFrame
  BY StepElsewhere
<1> HIDE DEF h, n
<1>6. OnTheWay(f, time, h, k + 1)
  BY <1>3, <1>4, <1>5
<1> QED
  BY <1>6 DEF h

\* A round leaves the walk on its way.
LEMMA RoundKeeps ==
  ASSUME FramesInv, NEW f \in 1 .. Len(lists), NEW time \in Int, NEW k \in Nat,
         NEW g, OnTheWay(f, time, g, k)
  PROVE  OnTheWay(f, time, Round(g, time), k + 1)
<1>1. AllFrames = 1 .. Len(lists) /\ BlankFrame \notin 1 .. Len(lists)
  BY FrameCounts DEF BlankFrame
<1>2. CASE g = BlankFrame
  BY <1>1, <1>2 DEF Round, OnTheWay
<1>3. CASE g # BlankFrame /\ Lasts(g, time)
  <2>1. g \in 1 .. Len(lists)
    BY <1>3 DEF OnTheWay
  <2>2. ScrollStep(g, time, AllFrames) = g
    BY <1>1, <1>3, <2>1 DEF ScrollStep, Lasts
  <2>3. Round(g, time) = g
    BY <2>2 DEF Round
  <2> QED
    BY <1>3, <2>3 DEF OnTheWay
<1>4. CASE g # BlankFrame /\ ~ Lasts(g, time)
  <2>1. g \in 1 .. Len(lists)
    BY <1>4 DEF OnTheWay
  <2>2. OnTheWay(f, time, ScrollStep(g, time, AllFrames), k + 1)
    BY <1>4, <2>1, RoundInClip, RoundElsewhere
  <2>3. ScrollStep(g, time, AllFrames) # g
    <3>1. CASE g \in ClipFrames
      <4>1. g \in Nat /\ g # BlankFrame
        BY <1>4, <2>1
      <4> QED
        BY <1>4, <3>1, <4>1, StepInClip
    <3>2. CASE g \notin ClipFrames
      <4>1. g \in Nat /\ g # BlankFrame
        BY <1>4, <2>1
      <4> QED
        BY <1>4, <2>1, <3>2, <4>1, StepElsewhere
    <3> QED
      BY <3>1, <3>2
  <2>4. Round(g, time) = ScrollStep(g, time, AllFrames)
    BY <1>1, <2>1, <2>3 DEF Round
  <2> QED
    BY <2>2, <2>4
<1> QED
  BY <1>2, <1>3, <1>4

\* A round ends at a frame or none.
LEMMA RoundType ==
  ASSUME FramesInv, NEW time \in Int, NEW g \in 0 .. Len(lists)
  PROVE  Round(g, time) \in 0 .. Len(lists)
<1>1. /\ AllFrames = 1 .. Len(lists) /\ Len(lists) \in Nat /\ BlankFrame = 0
      /\ Clip + 1 <= Len(lists) /\ Clip \in Nat
  BY FrameCounts DEF BlankFrame, FramesInv
<1>2. CASE g = 0
  BY <1>1, <1>2 DEF Round
<1>3. CASE g # 0 /\ g \in ClipFrames
  <2>1. ScrollStep(g, time, AllFrames) \in 0 .. Len(lists)
    <3>1. g \in 2 .. Clip + 1
      BY <1>3, FrameCounts
    <3> QED
      BY <1>1, <1>3, <3>1, StepInClip
  <2> QED
    BY <2>1 DEF Round
<1>4. CASE g # 0 /\ g \notin ClipFrames
  <2>1. ScrollStep(g, time, AllFrames) \in 0 .. Len(lists)
    <3>1. g \in 1 .. Len(lists)
      BY <1>1, <1>4
    <3> QED
      BY <1>1, <1>4, <3>1, StepElsewhere
  <2> QED
    BY <2>1 DEF Round
<1> QED
  BY <1>2, <1>3, <1>4

\* Where the rounds of a walk end.
WalkFold(f, time) ==
  FoldLeft(LAMBDA g, k : IF g \notin AllFrames \/ ScrollStep(g, time, AllFrames) = g
                         THEN g ELSE ScrollStep(g, time, AllFrames),
           f, [k \in 1..(2 * Len(lists)) |-> k])

\* After twice as many rounds as there are frames a walk has ended.
LEMMA WalkFoldEnds ==
  ASSUME FramesInv, NEW f \in 1 .. Len(lists), NEW time \in Int
  PROVE  OnTheWay(f, time, WalkFold(f, time), 2 * Len(lists))
<1> DEFINE n == 2 * Len(lists)
           A == 0 .. Len(lists)
           seq == [k \in 1..(2 * Len(lists)) |-> k]
           S == DOMAIN seq
           c == [s \in SUBSET S |-> Max(s)]
           D == [i \in S |-> [x \in A |-> Round(x, time)]]
           Eq(g) == g = [s \in SUBSET S |->
                           IF s = {} THEN f
                           ELSE IF g[s \ {Max(s)}] \notin AllFrames
                                   \/ ScrollStep(g[s \ {Max(s)}], time, AllFrames)
                                        = g[s \ {Max(s)}]
                                THEN g[s \ {Max(s)}]
                                ELSE ScrollStep(g[s \ {Max(s)}], time, AllFrames)]
           it == CHOOSE g : Eq(g)
           P(k) == OnTheWay(f, time, it[1 .. k], k)
<1>7. WalkFold(f, time) = it[S]
  BY DEF WalkFold, FoldLeft, MapThenFoldSet
<1>1. n \in Nat /\ S = 1 .. n /\ IsFiniteSet(S) /\ \A i \in S : seq[i] = i
  <2>1. n \in Nat
    BY FrameCounts
  <2>2. IsFiniteSet(1 .. n)
    <3> HIDE DEF n
    <3> QED
      BY <2>1, FS_Interval
  <2>3. S = 1 .. n /\ \A i \in S : seq[i] = i
    OBVIOUS
  <2> QED
    BY <2>1, <2>2, <2>3
<1> HIDE DEF seq, n
<1>2. \A s \in SUBSET S : s # {} => c[s] \in s
  BY <1>1, MaxOfNumbers
<1>3. f \in A /\ D \in [S -> [A -> A]]
  <2>1. f \in A
    BY FrameCounts
  <2>2. \A x \in A : Round(x, time) \in A
    BY RoundType
  <2> QED
    BY <2>1, <2>2
<1>4. PICK g \in [SUBSET S -> A] : TakesOut(g, S, c, f, D)
  <2>1. IsFiniteSet(S) /\ f \in A /\ D \in [S -> [A -> A]]
    BY <1>1, <1>3
  <2> HIDE DEF c, D, S, A
  <2> QED
    BY ONLY <1>2, <2>1, SubsetRecursion
<1>5. Eq(g)
  <2>1. ASSUME NEW s \in SUBSET S
        PROVE  g[s] = IF s = {} THEN f ELSE Round(g[s \ {Max(s)}], time)
    <3>1. s # {} => Max(s) \in S /\ g[s \ {Max(s)}] \in A
      BY <1>2
    <3> QED
      BY <1>1, <1>4, <3>1 DEF TakesOut
  <2> QED
    BY <2>1 DEF Round
<1>6. Eq(it)
  <2> HIDE DEF Eq
  <2> QED
    BY <1>5
<1>61. ASSUME NEW s \in SUBSET S, s # {}
       PROVE  it[s] = Round(it[s \ {Max(s)}], time)
  BY <1>6, <1>61 DEF Round
<1>62. it[{}] = f
  BY <1>6
<1> HIDE DEF it
<1>8. P(0)
  <2>1. 1 .. 0 = {}
    OBVIOUS
  <2>2. Ahead(f, time) <= 2 * Len(lists) - 0
    BY FrameCounts DEF Ahead
  <2>3. time >= spans[f].start => f >= f
    BY FrameCounts
  <2> QED
    BY <1>62, <2>1, <2>2, <2>3 DEF OnTheWay
<1>9. ASSUME NEW k \in 0 .. n - 1, P(k)
      PROVE  P(k + 1)
  <2>0. k \in Nat
    BY <1>1
  <2>1. Max(1 .. k + 1) = k + 1 /\ (1 .. k + 1) \ {k + 1} = 1 .. k
    BY <2>0, MaxOfInterval
  <2>2. (1 .. k + 1) \in SUBSET S /\ 1 .. k + 1 # {}
    <3>1. k + 1 <= n
      BY <1>1
    <3>2. k + 1 \in 1 .. k + 1
      BY <2>0
    <3>3. \A x \in 1 .. k + 1 : x \in 1 .. n
      BY <1>1, <2>0, <3>1
    <3> HIDE DEF S
    <3> QED
      BY <1>1, <3>2, <3>3
  <2>3. it[1 .. k + 1] = Round(it[1 .. k], time)
    <3> DEFINE s == 1 .. k + 1
    <3>1. it[s] = Round(it[s \ {Max(s)}], time)
      <4> HIDE DEF s
      <4> QED
        BY <1>61, <2>2 DEF s
    <3> QED
      BY <2>1, <3>1
  <2>4. OnTheWay(f, time, it[1 .. k], k)
    BY <1>9
  <2>5. OnTheWay(f, time, Round(it[1 .. k], time), k + 1)
    BY <2>0, <2>4, RoundKeeps
  <2> QED
    BY <2>3, <2>5
<1> HIDE DEF P
<1>10. P(n)
  <2> DEFINE T == {k \in 0 .. n : P(k)}
  <2>1. 0 \in T
    BY <1>1, <1>8
  <2>2. \A k \in 0 .. n - 1 : k \in T => k + 1 \in T
    BY <1>1, <1>9
  <2> HIDE DEF T
  <2>3. 0 .. n \subseteq T
    BY <1>1, <2>1, <2>2, BoundedInduction
  <2>4. n \in T
    BY <1>1, <2>3
  <2> QED
    BY <2>4 DEF T
<1>11. it[S] = it[1 .. n]
  BY <1>1
<1> QED
  BY <1>7, <1>10, <1>11 DEF P, n

\* A walk finds a frame that lasts at the moment, on the side of the clip it
\* began on, or none; in the clip it does not go back from a frame that has
\* begun.
LEMMA WalkEnds ==
  ASSUME FramesInv, NEW f \in 1 .. Len(lists), NEW time \in Int
  PROVE  \E g \in 0 .. Len(lists) :
           /\ ScrollToTime(f, time, AllFrames) = g
           /\ g # BlankFrame =>
                /\ g \in 1 .. Len(lists) /\ (g \in ClipFrames <=> f \in ClipFrames)
                /\ Lasts(g, time)
                /\ f \in ClipFrames /\ time >= spans[f].start => g >= f
<1> DEFINE g == WalkFold(f, time)
<1>1. OnTheWay(f, time, g, 2 * Len(lists))
  BY WalkFoldEnds
<1>2. ScrollToTime(f, time, AllFrames) =
        IF g \notin AllFrames THEN BlankFrame
        ELSE IF g \notin AllFrames \/ ScrollStep(g, time, AllFrames) = g THEN g
        ELSE Forever
  BY DEF ScrollToTime, WalkFold
<1> HIDE DEF g
<1>3. /\ AllFrames = 1 .. Len(lists) /\ Len(lists) \in Nat /\ BlankFrame = 0
      /\ \A x \in 1 .. Len(lists) : spans[x].start \in Int /\ spans[x].end \in Int
  BY FrameCounts DEF BlankFrame, SpanSet
<1>4. CASE g = BlankFrame
  <2>1. ScrollToTime(f, time, AllFrames) = 0 /\ 0 \in 0 .. Len(lists)
    BY <1>2, <1>3, <1>4
  <2> QED
    BY <1>3, <2>1
<1>5. CASE g # BlankFrame
  <2>1. g \in 1 .. Len(lists) /\ g \in 0 .. Len(lists)
    BY <1>1, <1>3, <1>5 DEF OnTheWay
  <2>2. Ahead(g, time) > 0
    BY <1>3, <2>1 DEF Ahead
  <2>3. Ahead(g, time) \in Int
    BY <1>3, <2>1 DEF Ahead
  <2>4. Lasts(g, time)
    BY <1>1, <1>3, <1>5, <2>2, <2>3 DEF OnTheWay
  <2>5. ScrollStep(g, time, AllFrames) = g
    BY <1>3, <2>1, <2>4 DEF ScrollStep, Lasts
  <2>6. ScrollToTime(f, time, AllFrames) = g
    BY <1>2, <1>3, <2>1, <2>5
  <2> QED
    BY <1>1, <1>5, <2>1, <2>4, <2>6 DEF OnTheWay
<1> QED
  BY <1>4, <1>5

(***************************************************************************)
(* A frame that joins the list of the one before it.                       *)
(***************************************************************************)

\* The lists behind the frame w, with one more frame.
Joined(w) == SetLists(Append(lists, Blank), w, Append(lists, Blank)[w].first,
                      <<Len(lists) + 1>>)

\* What joining changes in the lists.
LEMMA JoinedLists ==
  ASSUME FramesInv, NEW w \in 1 .. Len(lists), w \notin ClipFrames
  PROVE  /\ Joined(w) \in Seq(LinkSet) /\ Len(Joined(w)) = Len(lists) + 1
         /\ Joined(w)[w] = [first |-> <<>>, second |-> <<Len(lists) + 1>>]
         /\ Joined(w)[Len(lists) + 1] = Blank
         /\ \A g \in 1 .. Len(lists) : g # w => Joined(w)[g] = lists[g]
<1> DEFINE n == Len(lists)
           m == n + 1
           room == Append(lists, Blank)
           first == <<>>
           second == <<m>>
<1>1. n \in Nat /\ m \in Nat /\ w \in 1 .. m /\ w # m /\ m \in 1 .. m /\ w \in Nat
  BY FrameCounts
<1>2. /\ Blank \in LinkSet /\ lists \in Seq(LinkSet)
  BY DEF Blank, LinkSet, FramesInv
<1>3. /\ room \in Seq(LinkSet) /\ Len(room) = m
      /\ room[m] = Blank /\ \A g \in 1 .. n : room[g] = lists[g]
  <2>1. DOMAIN lists = 1 .. n
    BY <1>2
  <2> QED
    BY <1>2, <2>1, AppendKeeps
<1>4. room[w].first = <<>>
  <2>1. OtherFrame(w)
    BY DEF FramesInv
  <2> QED
    BY <1>3, <2>1 DEF OtherFrame, OtherLink
<1>5. Joined(w) = SetLists(room, w, first, second)
  BY <1>4 DEF Joined
<1>6. room \in Links(m)
  <2> HIDE DEF room, m
  <2>1. room \in [1 .. Len(room) -> LinkSet]
    BY <1>3
  <2> QED
    BY <1>3, <2>1 DEF Links
<1>7. /\ first \in Seq(Nat) /\ second \in Seq(Nat)
      /\ Without(first, w) = first /\ Without(second, w) = second
  <2> DEFINE A == Nat \ {w}
  <2>1. first \in Seq(A) /\ second \in Seq(A) /\ w \notin A
    BY <1>1
  <2>2. first \in Seq(Nat) /\ second \in Seq(Nat)
    BY <1>1
  <2> HIDE DEF A, first, second
  <2> QED
    BY <2>1, <2>2, WithoutNone
<1> HIDE DEF m, room, first, second
<1>8. /\ SetLists(room, w, first, second) \in Links(m)
      /\ SetLists(room, w, first, second)[w] = [first |-> first, second |-> second]
      /\ \A g \in 1 .. m : g # w => SetLists(room, w, first, second)[g] = room[g]
  BY <1>1, <1>6, <1>7, SetListsPlain
<1>9. Joined(w) \in Seq(LinkSet) /\ Len(Joined(w)) = m
  <2>1. Joined(w) \in [1 .. m -> LinkSet]
    BY <1>5, <1>8 DEF Links
  <2> HIDE DEF Joined
  <2>2. Joined(w) = [i \in 1 .. m |-> Joined(w)[i]] /\ \A i \in 1 .. m : Joined(w)[i] \in LinkSet
    BY <2>1
  <2> QED
    BY <1>1, <2>2, SequenceByElements
<1>10. Joined(w)[w] = [first |-> <<>>, second |-> <<m>>]
  BY <1>5, <1>8 DEF first, second
<1>11. Joined(w)[m] = Blank /\ \A g \in 1 .. n : g # w => Joined(w)[g] = lists[g]
  <2>1. \A g \in 1 .. n : g \in 1 .. m
    BY <1>1 DEF m
  <2> QED
    BY <1>1, <1>3, <1>5, <1>8, <2>1
<1> QED
  BY <1>9, <1>10, <1>11 DEF m

\* The frames after a frame has joined.
LEMMA JoinKeepsFrames ==
  ASSUME FramesInv, NEW new \in Seq(SampleSet), new # <<>>, Join(new),
         ThisWindow.frame \in 1 .. Len(lists), ThisWindow.frame \notin ClipFrames
  PROVE  /\ FramesInv' /\ Len(lists)' = Len(lists) + 1
         /\ \A g \in 1 .. Len(lists) : content'[g] = content[g] /\ spans'[g] = spans[g]
         /\ content'[Len(lists) + 1] = new
         /\ lists' = Joined(ThisWindow.frame)
<1> DEFINE n == Len(lists)
           m == n + 1
           w == ThisWindow.frame
           span == [start |-> new[1].time,
                    end   |-> new[1].time + Later(new[1].time, Last(new).time)]
<1>1. /\ n \in Nat /\ m \in Nat /\ w \in 1 .. n /\ m \notin 1 .. n /\ m > Clip + 1
      /\ Clip \in Nat /\ w \notin ClipFrames /\ 1 .. m = 1 .. n \cup {m}
  <2>1. n \in Nat /\ Clip \in Nat /\ n >= Clip + 1
    BY FrameCounts DEF FramesInv
  <2>2. w \in 1 .. n /\ w \notin ClipFrames
    OBVIOUS
  <2>3. m \in Nat /\ m \notin 1 .. n /\ m > Clip + 1 /\ 1 .. m = 1 .. n \cup {m}
    <3> HIDE DEF n
    <3> QED
      BY <2>1
  <2> QED
    BY <2>1, <2>2, <2>3
<1>2. lists' = Joined(w)
  BY DEF Join, Joined, Blank
<1>3. spans' = Append(spans, span) /\ content' = Append(content, new)
  BY DEF Join
<1>4. span \in SpanSet
  <2>1. 1 \in 1 .. Len(new) /\ Len(new) \in 1 .. Len(new)
    <3>1. Len(new) \in Nat /\ Len(new) # 0
      OBVIOUS
    <3> QED
      BY <3>1
  <2>2. new[1].time \in Nat /\ new[Len(new)].time \in Nat
    <3>1. new[1] \in SampleSet /\ new[Len(new)] \in SampleSet
      BY <2>1
    <3> QED
      BY <3>1 DEF SampleSet
  <2>3. Wrap \in Nat \ {0}
    BY RecorderAssumption
  <2> QED
    BY <2>2, <2>3 DEF Later, Last, SpanSet
<1> HIDE DEF span
<1>5. /\ Joined(w) \in Seq(LinkSet) /\ Len(Joined(w)) = m
      /\ Joined(w)[w] = [first |-> <<>>, second |-> <<m>>]
      /\ Joined(w)[m] = Blank /\ \A g \in 1 .. n : g # w => Joined(w)[g] = lists[g]
  BY JoinedLists
<1>6. /\ spans' \in Seq(SpanSet) /\ Len(spans') = m /\ \A g \in 1 .. n : spans'[g] = spans[g]
  <2>1. spans \in Seq(SpanSet) /\ Len(spans) = n /\ DOMAIN spans = 1 .. n
    BY DEF FramesInv
  <2>8. /\ Append(spans, span) \in Seq(SpanSet) /\ Len(Append(spans, span)) = Len(spans) + 1
        /\ Append(spans, span)[Len(spans) + 1] = span
        /\ \A g \in DOMAIN spans : Append(spans, span)[g] = spans[g]
    BY <1>4, <2>1, AppendKeeps
  <2> HIDE DEF n
  <2> QED
    BY <1>3, <2>1, <2>8
<1>7. /\ content' \in Seq(RawSet) /\ Len(content') = m
      /\ content'[m] = new /\ \A g \in 1 .. n : content'[g] = content[g]
  <2>1. content \in Seq(RawSet) /\ Len(content) = n /\ DOMAIN content = 1 .. n
    BY DEF FramesInv
  <2>2. new \in RawSet
    BY DEF RawSet
  <2>8. /\ Append(content, new) \in Seq(RawSet) /\ Len(Append(content, new)) = Len(content) + 1
        /\ Append(content, new)[Len(content) + 1] = new
        /\ \A g \in DOMAIN content : Append(content, new)[g] = content[g]
    BY <2>1, <2>2, AppendKeeps
  <2> HIDE DEF n
  <2> QED
    BY <1>3, <2>1, <2>8
<1>8. ASSUME NEW f \in ClipFrames
      PROVE  ClipFrame(f)'
  <2>1. f \in 1 .. n /\ f # w
    BY <1>1, FrameCounts
  <2>2. ClipFrame(f)
    BY DEF FramesInv
  <2>3. lists'[f] = lists[f]
    BY <1>2, <1>5, <2>1
  <2> QED
    BY <1>6, <1>7, <2>1, <2>2, <2>3 DEF ClipFrame
<1>9. ASSUME NEW f \in 1 .. m, f \notin ClipFrames
      PROVE  OtherFrame(f)'
  <2> SUFFICES content'[f] \in Seq(SampleSet) /\ OtherLink(lists'[f], f, m)
    BY <1>2, <1>5 DEF OtherFrame
  <2>1. CASE f = m
    <3>1. OtherLink(Blank, f, m)
      BY DEF OtherLink, Blank
    <3> QED
      BY <1>2, <1>5, <1>7, <2>1, <3>1
  <2>2. CASE f # m /\ f = w
    <3>1. OtherFrame(f)
      BY <1>1, <2>2, <1>9 DEF FramesInv
    <3>2. m \in f + 1 .. m
      BY <1>1, <2>2
    <3>3. OtherLink([first |-> <<>>, second |-> <<m>>], f, m)
      BY <1>1, <3>2 DEF OtherLink
    <3> QED
      BY <1>1, <1>2, <1>5, <1>7, <2>2, <3>1, <3>3 DEF OtherFrame
  <2>3. CASE f # m /\ f # w
    <3>1. f \in 1 .. n
      BY <1>1, <2>3
    <3>2. OtherFrame(f)
      BY <1>9, <3>1 DEF FramesInv
    <3>3. lists'[f] = lists[f] /\ content'[f] = content[f]
      BY <1>2, <1>5, <1>7, <2>3, <3>1
    <3>4. \A x \in f + 1 .. n : x \in f + 1 .. m
      BY <1>1, <3>1
    <3>5. OtherLink(lists[f], f, n) => OtherLink(lists[f], f, m)
      BY <3>4 DEF OtherLink
    <3> QED
      BY <3>2, <3>3, <3>5 DEF OtherFrame
  <2> QED
    BY <2>1, <2>2, <2>3
<1>10. Len(lists') = m /\ lists' \in Seq(LinkSet)
  BY <1>2, <1>5
<1>11. FramesInv'
  <2>1. m >= Clip + 1
    BY <1>1
  <2>2. \A f \in ClipFrames' : ClipFrame(f)'
    BY <1>8 DEF ClipFrames, ClipStart
  <2>3. \A f \in 1 .. Len(lists') : f \notin ClipFrames' => OtherFrame(f)'
    BY <1>9, <1>10 DEF ClipFrames, ClipStart
  <2> HIDE DEF m
  <2> QED
    BY <1>6, <1>7, <1>10, <2>1, <2>2, <2>3 DEF FramesInv
<1> QED
  BY <1>2, <1>6, <1>7, <1>10, <1>11

(***************************************************************************)
(* What the TV keeps.                                                      *)
(***************************************************************************)

\* The samples of the clip.
Sounds == 1 .. (Clip * Span)

\* A window that plays has a frame of the clip, any other one has none.
WindowPlaced(w) ==
  /\ w.frame \in 1 .. Len(lists)
  /\ IF w.sink = "audio" THEN w.flow = "out" /\ w.frame \in ClipFrames
     ELSE w.frame \notin ClipFrames

\* The windows and the loop over them.
WindowsInv ==
  /\ windows \in Seq(WindowSet) /\ \A i \in 1 .. Len(windows) : WindowPlaced(windows[i])
  /\ windowAt \in 1 .. Len(windows) + 1
  /\ pc # "tv" => windowAt = 1

\* What the audio sink keeps, by kind.
SoundTyped ==
  /\ now \in Nat /\ called \in Nat /\ pushedTo \subseteq ClipFrames
  /\ playback \in Seq(EntrySet) /\ heard \in Seq(Sounds) /\ starved \in BOOLEAN

\* The invariant of the station.
StationInv == FramesInv /\ WindowsInv /\ SoundTyped /\ RecorderTyped /\ WholeInv

\* Multiplication keeps the order.
LEMMA TimesKeeps ==
  ASSUME NEW a \in Int, NEW b \in Int, NEW s \in Nat, a <= b
  PROVE  a * s <= b * s
<1>1. (b - a) * s >= 0
  OBVIOUS
<1>2. (b - a) * s = b * s - a * s
  OBVIOUS
<1> QED
  BY <1>1, <1>2

\* The samples of a frame of the clip.
LEMMA ClipContent ==
  ASSUME NEW f \in ClipFrames
  PROVE  /\ [k \in 1 .. Span |-> (f - 2) * Span + k] \in Seq(Sounds)
         /\ (f - 2) * Span \in Nat /\ (f - 1) * Span = (f - 2) * Span + Span
         /\ (f - 1) * Span <= Clip * Span
<1>1. Span \in Nat \ {0} /\ Clip \in Nat \ {0} /\ f \in 2 .. Clip + 1
  BY StationAssumption, FramesAssumption
     DEF StationAssumption, FramesAssumption, ClipFrames, ClipStart
<1> DEFINE a == (f - 2) * Span
           b == Clip * Span
<1>2. a \in Nat /\ b \in Nat
  <2>1. f - 2 \in Nat
    BY <1>1
  <2> QED
    BY <1>1, <2>1
<1>3. (f - 1) * Span = a + Span
  <2>1. f - 1 = (f - 2) + 1
    BY <1>1
  <2>2. ((f - 2) + 1) * Span = (f - 2) * Span + Span
    BY <1>1
  <2> QED
    BY <2>1, <2>2
<1>4. (f - 1) * Span <= b
  <2>1. f - 1 \in Int /\ f - 1 <= Clip
    BY <1>1
  <2> QED
    BY <1>1, <2>1, TimesKeeps
<1>5. [k \in 1 .. Span |-> a + k] \in Seq(1 .. b)
  <2> HIDE DEF a, b
  <2>1. a + Span <= b
    BY <1>3, <1>4
  <2>2. \A k \in 1 .. Span : a + k \in 1 .. b
    BY <1>1, <1>2, <2>1
  <2> QED
    BY <1>1, <2>2
<1> QED
  BY <1>2, <1>3, <1>4, <1>5 DEF Sounds

(***************************************************************************)
(* The station as it begins.                                               *)
(***************************************************************************)

\* A station begins in order.
LEMMA StationBegins ==
  ASSUME StationInit
  PROVE  StationInv
<1>1. /\ Clip \in Nat \ {0} /\ Clip + 1 \in Nat /\ Span \in Nat \ {0}
      /\ \A f : f \in ClipFrames <=> f \in 2 .. Clip + 1
      /\ ItemFrame \in 1 .. Clip + 1 /\ ItemFrame = 1
  BY StationAssumption, FramesAssumption
     DEF StationAssumption, FramesAssumption, ClipFrames, ClipStart, ItemFrame
<1> DEFINE n == Clip + 1
<1>2. lists = FirstLists
  BY DEF StationInit, FirstLists, Blanks, Blank, ClipVector
<1>3. lists \in Seq(LinkSet) /\ Len(lists) = n
  <2>1. FirstLists \in [1 .. n -> LinkSet]
    BY FirstListsLinked DEF Links
  <2>2. lists = [i \in 1 .. n |-> lists[i]] /\ \A i \in 1 .. n : lists[i] \in LinkSet
    <3> HIDE DEF n
    <3> QED
      BY <1>2, <2>1
  <2> HIDE DEF n
  <2> QED
    BY <1>1, <2>2, SequenceByElements DEF n
<1>4. /\ spans = [f \in 1 .. n |-> IF f = ItemFrame THEN [start |-> 0, end |-> 1]
                                   ELSE [start |-> (f - 2) * Span, end |-> (f - 1) * Span]]
      /\ content = [f \in 1 .. n |-> IF f = ItemFrame THEN <<>>
                                     ELSE [k \in 1 .. Span |-> (f - 2) * Span + k]]
  BY DEF StationInit
<1>5. \A f \in 1 .. n : f # ItemFrame <=> f \in ClipFrames
  BY <1>1
<1>6. spans \in Seq(SpanSet) /\ Len(spans) = n
  <2>1. ASSUME NEW f \in 1 .. n
        PROVE  spans[f] \in SpanSet
    <3>1. (f - 2) * Span \in Int /\ (f - 1) * Span \in Int
      BY <1>1
    <3> QED
      BY <1>4, <3>1 DEF SpanSet
  <2>2. spans = [i \in 1 .. n |-> spans[i]]
    BY <1>4
  <2> HIDE DEF n
  <2> QED
    BY <1>1, <2>1, <2>2, SequenceByElements DEF n
<1>7. content \in Seq(RawSet) /\ Len(content) = n
  <2>1. ASSUME NEW f \in 1 .. n
        PROVE  content[f] \in RawSet
    <3>1. CASE f = ItemFrame
      <4>1. content[f] = <<>> /\ <<>> \in Seq(Int)
        BY <1>4, <3>1
      <4> QED
        BY <4>1 DEF RawSet
    <3>2. CASE f # ItemFrame
      <4>1. content[f] = [k \in 1 .. Span |-> (f - 2) * Span + k]
        BY <1>4, <3>2
      <4>2. content[f] \in Seq(Sounds)
        BY <1>5, <3>2, <4>1, ClipContent
      <4>3. \A k \in Sounds : k \in Int
        BY DEF Sounds
      <4>4. content[f] \in Seq(Int)
        <5> HIDE DEF Sounds
        <5> QED
          BY <4>2, <4>3
      <4> QED
        BY <4>4 DEF RawSet
    <3> QED
      BY <3>1, <3>2
  <2>2. content = [i \in 1 .. n |-> content[i]]
    BY <1>4
  <2> HIDE DEF n
  <2> QED
    BY <1>1, <2>1, <2>2, SequenceByElements DEF n
<1>8. \A f \in ClipFrames : ClipFrame(f)
  <2> SUFFICES ASSUME NEW f \in ClipFrames PROVE ClipFrame(f)
    OBVIOUS
  <2>1. f \in 1 .. n /\ f # ItemFrame
    BY <1>1
  <2>2. ClipLink(lists[f], f)
    BY <1>2, FirstListsLinked
  <2> QED
    BY <1>4, <2>1, <2>2 DEF ClipFrame
<1>9. ASSUME NEW f \in 1 .. n, f \notin ClipFrames
      PROVE  OtherFrame(f)
  <2>1. f = ItemFrame /\ lists[f] = Blank /\ content[f] = <<>>
    BY <1>2, <1>4, <1>5, <1>9, FirstListsLinked
  <2>2. <<>> \in Seq(SampleSet)
    OBVIOUS
  <2> QED
    BY <2>1, <2>2 DEF OtherFrame, OtherLink, Blank
<1>10. FramesInv
  BY <1>3, <1>6, <1>7, <1>8, <1>9, <1>1 DEF FramesInv
<1>11. WindowsInv
  <2>1. windows = <<>> /\ windowAt = 1 /\ <<>> \in Seq(WindowSet)
    BY DEF StationInit
  <2> QED
    BY <2>1 DEF WindowsInv
<1>12. SoundTyped
  <2>1. /\ now = 1 /\ called = 0 /\ pushedTo = {} /\ playback = <<>> /\ heard = <<>>
        /\ starved = FALSE /\ <<>> \in Seq(EntrySet) /\ <<>> \in Seq(Sounds)
    BY DEF StationInit
  <2> QED
    BY <2>1 DEF SoundTyped
<1>13. RecorderTyped /\ WholeInv
  <2>1. /\ flight = [m \in Meters |-> <<>>] /\ buffer = <<>> /\ samples = <<>>
        /\ entered = <<>> /\ torn = FALSE
    BY DEF StationInit, RecorderInit
  <2>2. <<>> \in Seq(Int) /\ <<>> \in Seq(SampleSet)
    OBVIOUS
  <2> QED
    BY <2>1, <2>2, WholeNothing DEF RecorderTyped, WholeInv
<1> QED
  BY <1>10, <1>11, <1>12, <1>13 DEF StationInv

\* Steps that leave parts of the station alone keep what holds of them.
LEMMA FramesSame ==
  ASSUME FramesInv, UNCHANGED <<lists, spans, content>>
  PROVE  FramesInv'
BY DEF FramesInv, ClipFrame, OtherFrame, ClipFrames, ClipStart

\* Likewise the recorder.
LEMMA RecorderSame ==
  ASSUME RecorderTyped, WholeInv, UNCHANGED recorderVars
  PROVE  RecorderTyped' /\ WholeInv'
BY DEF RecorderTyped, WholeInv, recorderVars

\* Likewise the audio sink.
LEMMA SoundSame ==
  ASSUME SoundTyped, UNCHANGED <<now, called, pushedTo, playback, heard, starved>>
  PROVE  SoundTyped'
BY DEF SoundTyped, Sounds, ClipFrames, ClipStart

\* Likewise the windows.
LEMMA WindowsSame ==
  ASSUME WindowsInv, UNCHANGED <<windows, windowAt, lists>>, pc' # "tv" => pc # "tv" \/ windowAt = 1
  PROVE  WindowsInv'
BY DEF WindowsInv, WindowPlaced, ClipFrames, ClipStart

\* A step of another part of the node.
LEMMA StationSame ==
  ASSUME StationInv, UNCHANGED stationVars, pc' # "tv" => pc # "tv" \/ windowAt = 1
  PROVE  StationInv'
BY FramesSame, RecorderSame, SoundSame, WindowsSame
   DEF StationInv, stationVars, tvVars

(***************************************************************************)
(* What the console does.                                                  *)
(***************************************************************************)

\* A window for the numbers behind the others.
LEMMA BindKeeps ==
  ASSUME StationInv, NEW w \in WindowSet, w.sink = "numbers", w.frame = ItemFrame,
         windows' = Append(windows, w), TvUnchanged, pc' = pc
  PROVE  StationInv'
<1>1. FramesInv' /\ SoundTyped' /\ RecorderTyped' /\ WholeInv'
  BY FramesSame, SoundSame, RecorderSame DEF StationInv, TvUnchanged
<1>2. /\ windows' \in Seq(WindowSet) /\ Len(windows') = Len(windows) + 1
      /\ windows'[Len(windows) + 1] = w
      /\ \A i \in 1 .. Len(windows) : windows'[i] = windows[i]
  <2>1. windows \in Seq(WindowSet) /\ DOMAIN windows = 1 .. Len(windows)
    BY DEF StationInv, WindowsInv
  <2>2. /\ Append(windows, w) \in Seq(WindowSet)
        /\ Len(Append(windows, w)) = Len(windows) + 1
        /\ Append(windows, w)[Len(windows) + 1] = w
        /\ \A i \in DOMAIN windows : Append(windows, w)[i] = windows[i]
    BY <2>1, AppendKeeps
  <2> QED
    BY <2>1, <2>2
<1>3. Len(windows) \in Nat /\ lists' = lists /\ windowAt' = windowAt
  BY DEF StationInv, WindowsInv, TvUnchanged
<1>4. WindowPlaced(w)
  <2>1. ItemFrame \in 1 .. Len(lists) /\ ItemFrame \notin ClipFrames
    BY FrameCounts DEF StationInv, FramesInv, ItemFrame
  <2> QED
    BY <2>1 DEF WindowPlaced
<1>5. ASSUME NEW i \in 1 .. Len(windows')
      PROVE  WindowPlaced(windows'[i])
  <2>1. CASE i = Len(windows) + 1
    BY <1>2, <1>4, <2>1
  <2>2. CASE i # Len(windows) + 1
    <3>1. i \in 1 .. Len(windows)
      BY <1>2, <1>3, <2>2
    <3> QED
      BY <1>2, <3>1 DEF StationInv, WindowsInv
  <2> QED
    BY <2>1, <2>2
<1>6. WindowsInv'
  <2>1. \A x : WindowPlaced(x)' <=> WindowPlaced(x)
    BY <1>3 DEF WindowPlaced, ClipFrames, ClipStart
  <2>2. windowAt' \in 1 .. Len(windows') + 1
    BY <1>2, <1>3 DEF StationInv, WindowsInv
  <2>3. pc' # "tv" => windowAt' = 1
    BY <1>3 DEF StationInv, WindowsInv
  <2> QED
    BY <1>2, <1>3, <1>5, <2>2, <2>3 DEF WindowsInv, WindowPlaced, ClipFrames, ClipStart
<1> QED
  BY <1>1, <1>6 DEF StationInv

\* The one window left, for the clip.
LEMMA PlayKeeps ==
  ASSUME StationInv, PlayItem, pc' = pc, windowAt = 1
  PROVE  StationInv'
<1> DEFINE w == Window("out", "audio", ClipStart, spans[ClipStart].start - now - Delay)
<1>1. FramesInv' /\ SoundTyped' /\ RecorderTyped' /\ WholeInv'
  BY FramesSame, SoundSame, RecorderSame DEF StationInv, TvUnchanged, PlayItem
<1>2. windows' = <<w>> /\ lists' = lists /\ windowAt' = 1
  BY DEF PlayItem, TvUnchanged
<1>3. ClipStart \in ClipFrames /\ ClipStart \in 1 .. Len(lists) /\ spans[ClipStart] \in SpanSet
  <2>1. FramesInv
    BY DEF StationInv
  <2>2. ClipStart \in 2 .. Clip + 1
    BY <2>1, FrameCounts DEF ClipStart
  <2> QED
    BY <2>1, <2>2, FrameCounts
<1>4. w \in WindowSet
  <2>1. now \in Nat /\ Delay \in Nat /\ spans[ClipStart].start \in Int
    BY <1>3, StationAssumption DEF StationInv, SoundTyped, StationAssumption, SpanSet
  <2>2. spans[ClipStart].start - now - Delay \in Int /\ ClipStart \in Nat
    BY <2>1 DEF ClipStart
  <2> QED
    BY <2>2 DEF WindowSet, Window
<1>5. w.frame = ClipStart /\ w.sink = "audio" /\ w.flow = "out"
  BY DEF Window
<1> HIDE DEF w
<1>6. WindowPlaced(w)
  BY <1>3, <1>5 DEF WindowPlaced
<1>7. windows' \in Seq(WindowSet) /\ Len(windows') = 1 /\ \A i \in 1 .. 1 : windows'[i] = w
  BY <1>2, <1>4
<1>8. windowAt' \in 1 .. Len(windows') + 1
  BY <1>2, <1>7
<1>9. WindowsInv'
  BY <1>2, <1>6, <1>7, <1>8 DEF WindowsInv, WindowPlaced, ClipFrames, ClipStart
<1> QED
  BY <1>1, <1>9 DEF StationInv

\* Every command keeps the station in order.
LEMMA CommandKeeps ==
  ASSUME StationInv, NEW words, TvCommand(words), pc' = pc, windowAt = 1
  PROVE  StationInv'
<1>1. Rewind \in Nat
  BY StationAssumption DEF StationAssumption
<1>2. ASSUME BindRecord PROVE StationInv'
  <2> DEFINE w == Window("in", "numbers", ItemFrame, 0)
  <2>1. w \in WindowSet /\ w.sink = "numbers" /\ w.frame = ItemFrame
    BY DEF WindowSet, Window, ItemFrame
  <2>2. windows' = Append(windows, w) /\ TvUnchanged
    BY <1>2 DEF BindRecord
  <2> HIDE DEF w
  <2> QED
    BY <2>1, <2>2, BindKeeps
<1>3. ASSUME BindView PROVE StationInv'
  <2> DEFINE w == Window("out", "numbers", ItemFrame, -Rewind)
  <2>1. w \in WindowSet /\ w.sink = "numbers" /\ w.frame = ItemFrame
    BY <1>1 DEF WindowSet, Window, ItemFrame
  <2>2. windows' = Append(windows, w) /\ TvUnchanged
    BY <1>3 DEF BindView
  <2> HIDE DEF w
  <2> QED
    BY <2>1, <2>2, BindKeeps
<1>4. ASSUME PlayItem PROVE StationInv'
  BY <1>4, PlayKeeps
<1>5. ASSUME UNCHANGED stationVars PROVE StationInv'
  BY <1>5, StationSame
<1>6. BindRecord \/ BindView \/ PlayItem \/ UNCHANGED stationVars
  BY DEF TvCommand
<1> QED
  BY <1>2, <1>3, <1>4, <1>5, <1>6

(***************************************************************************)
(* The loop over windows.                                                  *)
(***************************************************************************)

\* The window the loop is at.
LEMMA ThisWindowPlaced ==
  ASSUME StationInv, Showing
  PROVE  /\ windowAt \in 1 .. Len(windows) /\ Len(windows) \in Nat
         /\ ThisWindow \in WindowSet /\ WindowPlaced(ThisWindow)
         /\ ThisWindow.frame \in 1 .. Len(lists) /\ ThisWindow.offset \in Int
         /\ ThisWindow.sink = "audio" => ThisWindow.frame \in ClipFrames
         /\ ThisWindow.flow = "in" => ThisWindow.sink # "audio"
         /\ ThisWindow.sink # "audio" => ThisWindow.frame \notin ClipFrames
<1>1. windowAt \in 1 .. Len(windows) /\ Len(windows) \in Nat
  BY DEF StationInv, WindowsInv, Showing
<1>2. ThisWindow \in WindowSet /\ WindowPlaced(ThisWindow)
  BY <1>1 DEF StationInv, WindowsInv, ThisWindow
<1>3. ThisWindow.offset \in Int
  BY <1>2 DEF WindowSet
<1>4. "in" # "out"
  OBVIOUS
<1> QED
  BY <1>1, <1>2, <1>3, <1>4 DEF WindowPlaced

\* The frame of the moment, if there is one.
LEMMA LatestFound ==
  ASSUME StationInv, Showing
  PROVE  /\ Latest \in 0 .. Len(lists)
         /\ Latest # BlankFrame =>
              /\ Latest \in 1 .. Len(lists)
              /\ Latest \in ClipFrames <=> ThisWindow.frame \in ClipFrames
              /\ Lasts(Latest, now + ThisWindow.offset)
              /\ ThisWindow.frame \in ClipFrames
                   /\ now + ThisWindow.offset >= spans[ThisWindow.frame].start
                   => Latest >= ThisWindow.frame
<1> DEFINE f == ThisWindow.frame
           time == now + ThisWindow.offset
<1>1. FramesInv /\ f \in 1 .. Len(lists) /\ time \in Int
  BY ThisWindowPlaced DEF StationInv, SoundTyped
<1>2. Latest = ScrollToTime(f, time, AllFrames)
  BY DEF Latest
<1> HIDE DEF f, time
<1>3. PICK g \in 0 .. Len(lists) :
           /\ ScrollToTime(f, time, AllFrames) = g
           /\ g # BlankFrame =>
                /\ g \in 1 .. Len(lists) /\ (g \in ClipFrames <=> f \in ClipFrames)
                /\ Lasts(g, time)
                /\ f \in ClipFrames /\ time >= spans[f].start => g >= f
  BY <1>1, WalkEnds
<1> QED
  BY <1>2, <1>3 DEF f, time

\* A window goes on to a frame of its kind.
LEMMA MoveKeeps ==
  ASSUME StationInv, Showing, NEW g, MoveTo(g), g \in 1 .. Len(lists)',
         ThisWindow.sink = "audio" => g \in ClipFrames,
         ThisWindow.sink # "audio" => g \notin ClipFrames,
         Len(lists)' \in Nat, Len(lists) <= Len(lists)',
         windowAt' = windowAt + 1 \/ windowAt' = 1,
         pc' # "tv" => windowAt' = 1
  PROVE  /\ WindowsInv' /\ Len(windows)' = Len(windows)
         /\ windows'[windowAt] = [ThisWindow EXCEPT !.frame = g]
         /\ \A i \in 1 .. Len(windows) : i # windowAt => windows'[i] = windows[i]
<1> DEFINE n == Len(windows)
           w == [ThisWindow EXCEPT !.frame = g]
<1>1. /\ windowAt \in 1 .. n /\ n \in Nat /\ ThisWindow \in WindowSet /\ WindowPlaced(ThisWindow)
      /\ windows \in Seq(WindowSet)
  BY ThisWindowPlaced DEF StationInv, WindowsInv
<1>2. windows' = [windows EXCEPT ![windowAt] = w]
  BY DEF MoveTo, ThisWindow
<1>3. /\ w \in WindowSet /\ w.sink = ThisWindow.sink /\ w.flow = ThisWindow.flow /\ w.frame = g
  <2>1. g \in Nat
    OBVIOUS
  <2> QED
    BY <1>1, <2>1 DEF WindowSet
<1> HIDE DEF w
<1>4. /\ windows' \in Seq(WindowSet) /\ Len(windows') = n /\ windows'[windowAt] = w
      /\ \A i \in 1 .. n : i # windowAt => windows'[i] = windows[i]
  BY <1>1, <1>2, <1>3
<1>5. ASSUME NEW i \in 1 .. n
      PROVE  WindowPlaced(windows[i])
  BY DEF StationInv, WindowsInv
<1>6. \A x \in 1 .. Len(lists) : x \in 1 .. Len(lists)'
  <2>1. Len(lists) \in Nat
    BY FrameCounts DEF StationInv
  <2> QED
    BY <2>1
<1>7. ASSUME NEW i \in 1 .. n
      PROVE  /\ windows'[i].frame \in 1 .. Len(lists)'
             /\ IF windows'[i].sink = "audio"
                THEN windows'[i].flow = "out" /\ windows'[i].frame \in ClipFrames
                ELSE windows'[i].frame \notin ClipFrames
  <2>1. CASE i = windowAt
    BY <1>1, <1>3, <1>4, <2>1 DEF WindowPlaced
  <2>2. CASE i # windowAt
    BY <1>4, <1>5, <1>6, <2>2 DEF WindowPlaced
  <2> QED
    BY <2>1, <2>2
<1>8. windowAt' \in 1 .. n + 1
  BY <1>1
<1>9. \A i \in 1 .. Len(windows') : WindowPlaced(windows[i])'
  BY <1>4, <1>7 DEF WindowPlaced, ClipFrames, ClipStart
<1>10. windowAt' \in 1 .. Len(windows') + 1
  BY <1>4, <1>8
<1>11. WindowsInv'
  BY <1>4, <1>9, <1>10 DEF WindowsInv
<1> QED
  BY <1>4, <1>11 DEF w

\* A pull keeps the recorder in order, and its frame has samples.
LEMMA PulledKeeps ==
  ASSUME StationInv, NEW taken, Takes(taken), Pull(taken)
  PROVE  /\ RecorderTyped' /\ WholeInv'
         /\ Pulled(taken) # <<>> =>
              /\ Pulled(taken)[1] \in Seq(SampleSet) /\ Pulled(taken)[1] # <<>>
              /\ Pulled(taken) = <<Pulled(taken)[1]>>
<1>1. RecorderTyped' /\ WholeInv'
  BY PullRecorderTyped DEF StationInv
<1>2. \/ Pulled(taken) = <<>>
      \/ /\ DataWith(taken) # <<>> /\ DataWith(taken) \in Seq(SampleSet)
         /\ Pulled(taken) = <<DataWith(taken)>>
  BY PullFrames DEF StationInv
<1> QED
  BY <1>1, <1>2

\* A turn of a window that records.
LEMMA InwardKeeps ==
  ASSUME StationInv, NEW taken, Takes(taken), Inward(taken)
  PROVE  StationInv'
<1>1. RecorderTyped' /\ WholeInv' /\ SoundTyped'
  BY PulledKeeps, SoundSame DEF StationInv, Inward
<1>2. /\ Showing /\ ThisWindow.flow = "in" /\ windowAt' = windowAt + 1 /\ pc' = pc /\ pc = "tv"
  BY DEF Inward, NextWindow, Showing, At
<1>3. /\ windowAt \in 1 .. Len(windows) /\ Len(windows) \in Nat
      /\ ThisWindow.frame \in 1 .. Len(lists) /\ ThisWindow.sink # "audio"
      /\ ThisWindow.frame \notin ClipFrames
  BY <1>2, ThisWindowPlaced
<1>4. FramesInv /\ Len(lists) \in Nat /\ Clip \in Nat
  BY FrameCounts DEF StationInv
<1>5. CASE Pulled(taken) = <<>>
  <2>1. UNCHANGED <<lists, spans, content, windows>>
    BY <1>5 DEF Inward
  <2>2. FramesInv'
    BY <1>4, <2>1, FramesSame
  <2>3. windowAt' \in 1 .. Len(windows) + 1
    BY <1>2, <1>3
  <2>4. WindowsInv'
    BY <1>2, <2>1, <2>3 DEF StationInv, WindowsInv, WindowPlaced, ClipFrames, ClipStart
  <2> QED
    BY <1>1, <2>2, <2>4 DEF StationInv
<1>6. CASE Pulled(taken) # <<>>
  <2> DEFINE new == Pulled(taken)[1]
  <2>1. new \in Seq(SampleSet) /\ new # <<>>
    BY <1>6, PulledKeeps DEF Inward
  <2>2. Join(new)
    BY <1>6 DEF Inward
  <2> HIDE DEF new
  <2>3. FramesInv' /\ Len(lists)' = Len(lists) + 1
    BY <1>3, <1>4, <2>1, <2>2, JoinKeepsFrames
  <2>4. MoveTo(Len(lists) + 1)
    BY <2>2 DEF Join
  <2>5. Len(lists) + 1 \in 1 .. Len(lists)' /\ Len(lists) + 1 \notin ClipFrames
    BY <1>4, <2>3, FrameCounts DEF FramesInv
  <2>6. Len(lists)' \in Nat /\ Len(lists) <= Len(lists)'
    BY <1>4, <2>3
  <2>7. WindowsInv'
    BY <1>2, <1>3, <2>4, <2>5, <2>6, MoveKeeps
  <2> QED
    BY <1>1, <2>3, <2>7 DEF StationInv
<1> QED
  BY <1>5, <1>6

\* A turn of a window that shows nothing.
LEMMA NothingKeeps ==
  ASSUME StationInv, OutwardNothing
  PROVE  StationInv'
<1>1. FramesInv' /\ SoundTyped' /\ RecorderTyped' /\ WholeInv'
  BY FramesSame, SoundSame, RecorderSame DEF StationInv, OutwardNothing
<1>2. /\ Showing /\ windowAt' = windowAt + 1 /\ pc' = pc /\ pc = "tv"
      /\ UNCHANGED <<windows, lists>>
  BY DEF OutwardNothing, NextWindow, Showing, At
<1>3. windowAt' \in 1 .. Len(windows) + 1
  BY <1>2, ThisWindowPlaced
<1>4. WindowsInv'
  BY <1>2, <1>3 DEF StationInv, WindowsInv, WindowPlaced, ClipFrames, ClipStart
<1> QED
  BY <1>1, <1>4 DEF StationInv

\* The end of the loop.
LEMMA TvEndKeeps ==
  ASSUME StationInv, TvEnd
  PROVE  StationInv'
<1>1. FramesInv' /\ SoundTyped' /\ RecorderTyped' /\ WholeInv'
  BY FramesSame, SoundSame, RecorderSame DEF StationInv, TvEnd
<1>2. windowAt' = 1 /\ UNCHANGED <<windows, lists>>
  BY DEF TvEnd
<1>3. windowAt' \in 1 .. Len(windows) + 1
  <2>1. Len(windows) \in Nat
    BY DEF StationInv, WindowsInv
  <2> QED
    BY <1>2, <2>1
<1>4. WindowsInv'
  BY <1>2, <1>3 DEF StationInv, WindowsInv, WindowPlaced, ClipFrames, ClipStart
<1> QED
  BY <1>1, <1>4 DEF StationInv

\* Time passes.
LEMMA TickKeeps ==
  ASSUME StationInv, Tick
  PROVE  StationInv'
<1>1. FramesInv' /\ RecorderTyped' /\ WholeInv' /\ WindowsInv'
  BY FramesSame, RecorderSame, WindowsSame DEF StationInv, Tick
<1>2. SoundTyped'
  BY DEF StationInv, SoundTyped, Tick, Sounds, ClipFrames, ClipStart
<1> QED
  BY <1>1, <1>2 DEF StationInv

\* A meter sends a sample.
LEMMA MeasureStationKeeps ==
  ASSUME StationInv, NEW m \in Meters, NEW s \in SampleSet, Measure(m, s),
         UNCHANGED <<pc, tvVars>>
  PROVE  StationInv'
<1>1. RecorderTyped' /\ WholeInv'
  BY MeasureKeeps DEF StationInv
<1>2. FramesInv' /\ SoundTyped' /\ WindowsInv'
  BY FramesSame, SoundSame, WindowsSame DEF StationInv, tvVars
<1> QED
  BY <1>1, <1>2 DEF StationInv

\* How many entries start no later than e.
LEMMA EarlierCounts ==
  ASSUME NEW entries \in Seq(EntrySet), NEW e
  PROVE  /\ Cardinality(Earlier(entries, e)) \in 0 .. Len(entries)
         /\ (\A i \in 1 .. Len(entries) : entries[i].start <= e.start)
              => Cardinality(Earlier(entries, e)) = Len(entries)
<1> DEFINE n == Len(entries)
           s == Earlier(entries, e)
<1>1. n \in Nat /\ DOMAIN entries = 1 .. n
  BY LenProperties
<1>2. s \subseteq 1 .. n
  BY <1>1 DEF Earlier
<1>3. IsFiniteSet(1 .. n) /\ Cardinality(1 .. n) = n
  <2>1. 1 \in Int /\ n \in Int /\ (~ (1 > n) \/ n = 0)
    BY <1>1
  <2> HIDE DEF n
  <2>2. IsFiniteSet(1 .. n) /\ Cardinality(1 .. n) = IF 1 > n THEN 0 ELSE n - 1 + 1
    BY <1>1, FS_Interval
  <2> QED
    BY <1>1, <2>1, <2>2
<1> HIDE DEF n, s
<1>4. IsFiniteSet(s) /\ Cardinality(s) <= Cardinality(1 .. n) /\ Cardinality(s) \in Nat
  <2>1. IsFiniteSet(s) /\ Cardinality(s) <= Cardinality(1 .. n)
    BY <1>2, <1>3, FS_Subset
  <2> QED
    BY <2>1, FS_CardinalityType
<1>5. (\A i \in 1 .. n : entries[i].start <= e.start) => s = 1 .. n
  BY <1>1 DEF s, Earlier
<1>6. Cardinality(s) \in 0 .. n
  BY <1>1, <1>3, <1>4
<1> QED
  BY <1>3, <1>5, <1>6 DEF n, s

\* What a frame of the clip is played as.
LEMMA EntryType ==
  ASSUME StationInv, Showing, NEW f \in ClipFrames
  PROVE  /\ Entry(f) \in EntrySet
         /\ Entry(f).start = (f - 2) * Span - ThisWindow.offset
         /\ Entry(f).end = (f - 1) * Span - ThisWindow.offset
         /\ Entry(f).raw = [k \in 1 .. Span |-> (f - 2) * Span + k]
         /\ Entry(f).raw \in Seq(Sounds)
<1>1. /\ spans[f] = [start |-> (f - 2) * Span, end |-> (f - 1) * Span]
      /\ content[f] = [k \in 1 .. Span |-> (f - 2) * Span + k]
  BY DEF StationInv, FramesInv, ClipFrame
<1>2. /\ content[f] \in Seq(Sounds) /\ (f - 2) * Span \in Int /\ (f - 1) * Span \in Int
  <2>1. (f - 2) * Span \in Nat /\ (f - 1) * Span = (f - 2) * Span + Span /\ Span \in Nat
    BY ClipContent, FramesAssumption DEF FramesAssumption
  <2> QED
    BY <1>1, <2>1, ClipContent
<1>3. ThisWindow.offset \in Int
  BY ThisWindowPlaced
<1>4. /\ Entry(f).start = (f - 2) * Span - ThisWindow.offset
      /\ Entry(f).end = (f - 1) * Span - ThisWindow.offset
      /\ Entry(f).raw = content[f]
  BY <1>1 DEF Entry
<1>5. Entry(f) \in EntrySet
  <2>1. spans[f].start - ThisWindow.offset \in Int /\ spans[f].end - ThisWindow.offset \in Int
    BY <1>1, <1>2, <1>3
  <2> QED
    BY <1>2, <2>1 DEF Entry, EntrySet, Sounds
<1> QED
  BY <1>1, <1>2, <1>4, <1>5

\* A push keeps the entries of their kind.
LEMMA PushKeeps ==
  ASSUME StationInv, Showing, NEW f \in ClipFrames, PushAudio(f)
  PROVE  pushedTo' \subseteq ClipFrames /\ playback' \in Seq(EntrySet)
<1>1. playback \in Seq(EntrySet) /\ pushedTo \subseteq ClipFrames
  BY DEF StationInv, SoundTyped
<1>2. CASE f \in pushedTo
  BY <1>1, <1>2 DEF PushAudio
<1>3. CASE f \notin pushedTo
  <2> DEFINE p == Cardinality(Earlier(playback, Entry(f))) + 1
  <2>1. p \in 1 .. Len(playback) + 1
    <3>1. Cardinality(Earlier(playback, Entry(f))) \in 0 .. Len(playback) /\ Len(playback) \in Nat
      BY <1>1, EarlierCounts, LenProperties
    <3> QED
      BY <3>1
  <2>2. playback' = InsertAt(playback, p, Entry(f)) /\ pushedTo' = pushedTo \cup {f}
    BY <1>3 DEF PushAudio, Resort
  <2>3. Entry(f) \in EntrySet
    BY EntryType
  <2> HIDE DEF p
  <2> QED
    BY <1>1, <2>1, <2>2, <2>3, InsertKeeps
<1> QED
  BY <1>2, <1>3

\* A turn of a window that shows or plays a frame.
LEMMA OutwardKeeps ==
  ASSUME StationInv, Outward
  PROVE  StationInv'
<1>1. FramesInv' /\ RecorderTyped' /\ WholeInv'
  BY FramesSame, RecorderSame DEF StationInv, Outward
<1>2. /\ Showing /\ MoveTo(Latest) /\ windowAt' = windowAt + 1 /\ lists' = lists
      /\ Latest # BlankFrame /\ pc' = pc /\ pc = "tv"
  BY DEF Outward, NextWindow, Showing, At
<1>3. /\ Latest \in 1 .. Len(lists)
      /\ Latest \in ClipFrames <=> ThisWindow.frame \in ClipFrames
  BY <1>2, LatestFound
<1>4. /\ ThisWindow.sink = "audio" => Latest \in ClipFrames
      /\ ThisWindow.sink # "audio" => Latest \notin ClipFrames
  BY <1>2, <1>3, ThisWindowPlaced
<1>5. WindowsInv'
  <2>1. Len(lists) \in Nat
    BY FrameCounts DEF StationInv
  <2>2. Len(lists)' = Len(lists)
    BY <1>2
  <2> DEFINE g == Latest
  <2> HIDE DEF g
  <2>3. /\ MoveTo(g) /\ g \in 1 .. Len(lists)' /\ (ThisWindow.sink = "audio" => g \in ClipFrames)
        /\ (ThisWindow.sink # "audio" => g \notin ClipFrames)
    BY <1>2, <1>3, <1>4, <2>2 DEF g
  <2>4. Len(lists)' \in Nat /\ Len(lists) <= Len(lists)'
    BY <2>1, <2>2
  <2> QED
    BY <1>2, <2>3, <2>4, MoveKeeps
<1>6. SoundTyped'
  <2>1. UNCHANGED <<now, called, heard, starved>>
    BY DEF Outward
  <2>2. pushedTo' \subseteq ClipFrames /\ playback' \in Seq(EntrySet)
    <3>1. CASE ThisWindow.sink = "audio"
      <4>1. PushAudio(Latest) /\ Latest \in ClipFrames
        BY <1>4, <3>1 DEF Outward
      <4> QED
        BY <1>2, <4>1, PushKeeps
    <3>2. CASE ThisWindow.sink # "audio"
      BY <3>2 DEF Outward, StationInv, SoundTyped
    <3> QED
      BY <3>1, <3>2
  <2> QED
    BY <2>1, <2>2 DEF StationInv, SoundTyped, Sounds, ClipFrames, ClipStart
<1> QED
  BY <1>1, <1>5, <1>6 DEF StationInv

\* A turn that ends with a frame that cannot be decoded.
LEMMA ThrowsKeeps ==
  ASSUME StationInv, OutwardThrows
  PROVE  StationInv'
<1>1. FramesInv' /\ SoundTyped' /\ RecorderTyped' /\ WholeInv'
  BY FramesSame, SoundSame, RecorderSame DEF StationInv, OutwardThrows
<1>2. /\ Showing /\ MoveTo(Latest) /\ windowAt' = 1 /\ lists' = lists
      /\ Latest # BlankFrame /\ ThisWindow.sink = "audio"
  BY DEF OutwardThrows
<1>3. Latest \in 1 .. Len(lists) /\ Latest \in ClipFrames
  BY <1>2, LatestFound, ThisWindowPlaced
<1>5. WindowsInv'
  <2>1. Len(lists) \in Nat
    BY FrameCounts DEF StationInv
  <2>2. Len(lists)' = Len(lists)
    BY <1>2
  <2> DEFINE g == Latest
  <2> HIDE DEF g
  <2>3. MoveTo(g) /\ g \in 1 .. Len(lists)' /\ g \in ClipFrames
    BY <1>2, <1>3, <2>2 DEF g
  <2>4. Len(lists)' \in Nat /\ Len(lists) <= Len(lists)'
    BY <2>1, <2>2
  <2> QED
    BY <1>2, <2>3, <2>4, MoveKeeps
<1> QED
  BY <1>1, <1>5 DEF StationInv

(***************************************************************************)
(* The callback of the audio device.                                       *)
(***************************************************************************)

\* The loop of the callback, in n rounds.
PlayFold(from, n) == FoldLeft(LAMBDA acc, k : PlayEntry(acc), from, [k \in 1..n |-> k])

\* Rounds of the callback end where each single one does.
LEMMA PlayFoldIn ==
  ASSUME NEW A, NEW B \in SUBSET A, NEW from \in A, NEW n \in Nat \ {0},
         \A x \in A : PlayEntry(x) \in B
  PROVE  PlayFold(from, n) \in B
<1> DEFINE seq == [k \in 1..n |-> k]
           S == DOMAIN seq
           c == [s \in SUBSET S |-> Max(s)]
           D == [i \in S |-> [x \in A |-> PlayEntry(x)]]
           Eq(g) == g = [s \in SUBSET S |-> IF s = {} THEN from
                                            ELSE PlayEntry(g[s \ {Max(s)}])]
           it == CHOOSE g : Eq(g)
<1>7. PlayFold(from, n) = it[S]
  BY DEF PlayFold, FoldLeft, MapThenFoldSet
<1>1. n \in Nat /\ S = 1 .. n /\ IsFiniteSet(S) /\ \A i \in S : seq[i] = i
  BY FS_Interval
<1> HIDE DEF seq
<1>2. \A s \in SUBSET S : s # {} => c[s] \in s
  BY <1>1, MaxOfNumbers
<1>3. D \in [S -> [A -> A]]
  OBVIOUS
<1>4. PICK g \in [SUBSET S -> A] : TakesOut(g, S, c, from, D)
  <2>1. IsFiniteSet(S) /\ from \in A /\ D \in [S -> [A -> A]]
    BY <1>1, <1>3
  <2> HIDE DEF c, D, S
  <2> QED
    BY ONLY <1>2, <2>1, SubsetRecursion
<1>5. Eq(g)
  <2>1. ASSUME NEW s \in SUBSET S
        PROVE  g[s] = IF s = {} THEN from ELSE PlayEntry(g[s \ {Max(s)}])
    <3>1. s # {} => Max(s) \in S /\ g[s \ {Max(s)}] \in A
      BY <1>2
    <3> QED
      BY <1>1, <1>4, <3>1 DEF TakesOut
  <2> QED
    BY <2>1
<1>6. Eq(it)
  <2> HIDE DEF Eq
  <2> QED
    BY <1>5
<1>8. ASSUME NEW s \in SUBSET S, s # {}
      PROVE  it[s] = PlayEntry(it[s \ {Max(s)}])
  BY <1>6, <1>8
<1>9. it[{}] = from
  BY <1>6
<1> HIDE DEF it, Eq
<1> DEFINE P(k) == it[1 .. k] \in A
<1>10. P(0)
  <2>1. 1 .. 0 = {}
    OBVIOUS
  <2> QED
    BY <1>9, <2>1
<1>11. ASSUME NEW k \in 0 .. n - 1, P(k)
       PROVE  it[1 .. k + 1] \in B
  <2>0. k \in Nat
    BY <1>1
  <2>1. Max(1 .. k + 1) = k + 1 /\ (1 .. k + 1) \ {k + 1} = 1 .. k
    BY <2>0, MaxOfInterval
  <2>2. (1 .. k + 1) \in SUBSET S /\ 1 .. k + 1 # {}
    <3>1. k + 1 <= n
      BY <1>1
    <3>2. k + 1 \in 1 .. k + 1
      BY <2>0
    <3>3. \A x \in 1 .. k + 1 : x \in 1 .. n
      BY <1>1, <2>0, <3>1
    <3> HIDE DEF S
    <3> QED
      BY <1>1, <3>2, <3>3
  <2>3. it[1 .. k + 1] = PlayEntry(it[1 .. k])
    <3> DEFINE s == 1 .. k + 1
    <3>1. it[s] = PlayEntry(it[s \ {Max(s)}])
      <4> HIDE DEF s
      <4> QED
        BY <1>8, <2>2 DEF s
    <3> QED
      BY <2>1, <3>1
  <2> QED
    BY <1>11, <2>3
<1>12. \A k \in 0 .. n - 1 : P(k) => P(k + 1)
  BY <1>11
<1> HIDE DEF P
<1>13. P(n - 1)
  <2> DEFINE T == {k \in 0 .. n : P(k)}
  <2>1. 0 \in T
    BY <1>1, <1>10
  <2>2. \A k \in 0 .. n - 1 : k \in T => k + 1 \in T
    BY <1>1, <1>12
  <2> HIDE DEF T
  <2>3. 0 .. n \subseteq T
    BY <1>1, <2>1, <2>2, BoundedInduction
  <2>4. n - 1 \in T
    BY <1>1, <2>3
  <2> QED
    BY <2>4 DEF T
<1>14. it[1 .. n] \in B
  <2>1. n - 1 \in 0 .. n - 1 /\ (n - 1) + 1 = n
    BY <1>1
  <2>2. it[1 .. (n - 1) + 1] \in B
    BY <1>11, <1>13, <2>1
  <2> QED
    BY <2>1, <2>2
<1> QED
  BY <1>1, <1>7, <1>14

\* The states of the callback, and those it can be in.
PlayStates == [at : Nat, entries : Seq(EntrySet), out : Seq(Sounds), stop : BOOLEAN]

Playable   == {acc \in PlayStates : /\ Len(acc.out) <= Chunk
                                    /\ acc.at \in 1 .. Len(acc.entries)}

\* A round of the callback gives the device no more than it takes.
LEMMA PlayedOn ==
  ASSUME NEW acc \in Playable
  PROVE  PlayEntry(acc) \in Playable
<1> DEFINE es == acc.entries
           i == acc.at
           e == es[i]
           raw == e.raw
           out == acc.out
           need == Chunk - Len(out)
           n == Len(es)
<1>1. /\ acc \in PlayStates /\ es \in Seq(EntrySet) /\ i \in 1 .. n /\ n \in Nat /\ i \in Nat
      /\ out \in Seq(Sounds) /\ Len(out) \in Nat /\ Len(out) <= Chunk /\ acc.stop \in BOOLEAN
  BY DEF Playable, PlayStates
<1>2. e \in EntrySet /\ Chunk \in Nat
  BY <1>1, StationAssumption DEF StationAssumption
<1>3. raw \in Seq(Sounds) /\ Len(raw) \in Nat
  BY <1>2 DEF EntrySet, Sounds
<1>4. need \in Nat /\ Len(out) + need = Chunk
  BY <1>1, <1>2
<1> HIDE DEF need, n
<1>5. CASE acc.stop \/ need = 0
  BY <1>5 DEF PlayEntry, need
<1>6. CASE ~ (acc.stop \/ need = 0) /\ Len(raw) > need
  <2> DEFINE more == out \o SubSeq(raw, 1, need)
             left == SubSeq(raw, need + 1, Len(raw))
             e2 == [e EXCEPT !.raw = left]
             es2 == [es EXCEPT ![i] = e2]
  <2>1. SubSeq(raw, 1, need) \in Seq(Sounds) /\ Len(SubSeq(raw, 1, need)) = need
    <3>1. need \in 0 .. Len(raw) /\ 1 \in Nat \ {0}
      BY <1>3, <1>4, <1>6
    <3>2. /\ SubSeq(raw, 1, need) \in Seq(Sounds)
          /\ Len(SubSeq(raw, 1, need)) = IF 1 <= need THEN need - 1 + 1 ELSE 0
      BY <1>3, <3>1, PieceKeeps
    <3> QED
      BY <1>4, <3>2
  <2>2. left \in Seq(Sounds)
    <3>1. Len(raw) \in 0 .. Len(raw) /\ need + 1 \in Nat \ {0}
      BY <1>3, <1>4
    <3> QED
      BY <1>3, <3>1, PieceKeeps
  <2>3. more \in Seq(Sounds) /\ Len(more) = Chunk
    <3>1. more \in Seq(Sounds) /\ Len(more) = Len(out) + Len(SubSeq(raw, 1, need))
      BY <1>1, <2>1, ConcatLength
    <3> HIDE DEF more
    <3> QED
      BY <1>4, <2>1, <3>1
  <2>4. PlayEntry(acc) = [acc EXCEPT !.out = more, !.entries = es2]
    BY <1>6 DEF PlayEntry, need
  <2> HIDE DEF more, left
  <2>5. e2 \in EntrySet
    BY <1>2, <2>2 DEF EntrySet, Sounds
  <2> HIDE DEF e2
  <2>6. es2 \in Seq(EntrySet) /\ Len(es2) = n
    BY <1>1, <2>5 DEF n
  <2> HIDE DEF es2
  <2>7. [acc EXCEPT !.out = more, !.entries = es2] \in PlayStates
    BY <1>1, <2>3, <2>6 DEF PlayStates
  <2>8. Len(more) <= Chunk
    BY <1>2, <2>3
  <2> QED
    BY <1>1, <2>4, <2>6, <2>7, <2>8 DEF Playable, PlayStates
<1>7. CASE ~ (acc.stop \/ need = 0) /\ ~ (Len(raw) > need)
  <2> DEFINE more == out \o raw
             es2 == RemoveAt(es, i)
  <2>1. more \in Seq(Sounds) /\ Len(more) <= Chunk
    <3>1. more \in Seq(Sounds) /\ Len(more) = Len(out) + Len(raw)
      BY <1>1, <1>3, ConcatLength
    <3>2. Len(raw) <= need
      BY <1>3, <1>4, <1>7
    <3>3. /\ Len(out) \in Nat /\ Len(raw) \in Nat /\ need \in Nat /\ Len(out) + need = Chunk
          /\ Chunk \in Nat
      BY <1>1, <1>2, <1>3, <1>4
    <3> HIDE DEF more, raw, out
    <3> QED
      BY <3>1, <3>2, <3>3
  <2>2. PlayEntry(acc) = IF i = n THEN [acc EXCEPT !.out = more, !.stop = TRUE]
                         ELSE [acc EXCEPT !.out = more, !.entries = es2]
    BY <1>7 DEF PlayEntry, need, n
  <2>3. es2 \in Seq(EntrySet) /\ Len(es2) = n - 1
    BY <1>1, RemoveKeeps DEF n
  <2> HIDE DEF more, es2
  <2>4. CASE i = n
    BY <1>1, <2>1, <2>2, <2>4 DEF Playable, PlayStates, n
  <2>5. CASE i # n
    <3>1. i \in 1 .. Len(es2)
      BY <1>1, <2>3, <2>5
    <3> QED
      BY <1>1, <2>1, <2>2, <2>3, <2>5, <3>1 DEF Playable, PlayStates
  <2> QED
    BY <2>4, <2>5
<1> QED
  BY <1>5, <1>6, <1>7

\* The entry that is due is there.
LEMMA DueFound ==
  ASSUME SoundTyped, Due(playback) # 0
  PROVE  /\ Due(playback) \in 1 .. Len(playback)
         /\ playback[Due(playback)].start < now /\ now < playback[Due(playback)].end
<1> DEFINE n == Len(playback)
           I == {i \in 1 .. n : playback[i].start < now /\ now < playback[i].end}
<1>1. n \in Nat
  BY DEF SoundTyped
<1>2. Due(playback) = IF I # {} THEN Min(I) ELSE 0
  BY DEF Due, SelectInSeq
<1> HIDE DEF n
<1>3. I \in SUBSET (1 .. n)
  OBVIOUS
<1>4. I # {} => Min(I) \in I
  <2> HIDE DEF I
  <2> QED
    BY <1>1, <1>3, MinOfNumbers
<1>5. Due(playback) \in I
  BY <1>2, <1>4
<1> QED
  BY <1>5 DEF n

\* The state the loop begins with, and what the callback makes of where it ends.
PlayBegin == [at |-> Due(playback), entries |-> playback, out |-> <<>>, stop |-> FALSE]
PlayEnd   == PlayFold(PlayBegin, Len(playback) + 1)

\* The callback keeps the station in order.
LEMMA CallbackKeeps ==
  ASSUME StationInv, Callback
  PROVE  StationInv'
<1>1. FramesInv' /\ RecorderTyped' /\ WholeInv' /\ WindowsInv'
  BY FramesSame, RecorderSame, WindowsSame DEF StationInv, Callback
<1>2. /\ playback' = PlayEnd.entries /\ starved' = (starved \/ PlayEnd.stop)
      /\ heard' = (IF starved' THEN <<>> ELSE heard \o PlayEnd.out)
      /\ called' = now + Chunk /\ UNCHANGED <<now, pushedTo>> /\ Due(playback) # 0
  BY DEF Callback, PlayEnd, PlayBegin, PlayFold
<1>3. SoundTyped
  BY DEF StationInv
<1>4. PlayBegin \in Playable
  <2>1. Due(playback) \in 1 .. Len(playback) /\ playback \in Seq(EntrySet)
    BY <1>2, <1>3, DueFound DEF SoundTyped
  <2>2. <<>> \in Seq(Sounds) /\ Len(<<>>) <= Chunk
    BY StationAssumption DEF StationAssumption
  <2>3. Due(playback) \in Nat
    BY <2>1
  <2> QED
    BY <2>1, <2>2, <2>3 DEF PlayBegin, Playable, PlayStates
<1>5. PlayEnd \in Playable
  <2> DEFINE n == Len(playback) + 1
  <2>1. n \in Nat \ {0}
    BY <1>3, LenProperties DEF SoundTyped
  <2> HIDE DEF n
  <2>2. \A x \in Playable : PlayEntry(x) \in Playable
    BY PlayedOn
  <2> HIDE DEF Playable, PlayBegin
  <2>3. PlayFold(PlayBegin, n) \in Playable
    BY <1>4, <2>1, <2>2, PlayFoldIn
  <2> QED
    BY <2>3 DEF PlayEnd, n
<1>6. PlayEnd.entries \in Seq(EntrySet) /\ PlayEnd.out \in Seq(Sounds) /\ PlayEnd.stop \in BOOLEAN
  BY <1>5 DEF Playable, PlayStates
<1>7. SoundTyped'
  <2>1. heard \o PlayEnd.out \in Seq(Sounds)
    BY <1>3, <1>6, ConcatLength DEF SoundTyped
  <2>2. <<>> \in Seq(Sounds) /\ now + Chunk \in Nat
    BY <1>3, StationAssumption DEF SoundTyped, StationAssumption
  <2> QED
    BY <1>2, <1>3, <1>6, <2>1, <2>2 DEF SoundTyped, Sounds, ClipFrames, ClipStart
<1> QED
  BY <1>1, <1>7 DEF StationInv

(***************************************************************************)
(* What is heard, once play has been run.                                  *)
(***************************************************************************)

\* When a frame of the clip starts in it.
StartOf(f) == (f - 2) * Span

\* No number comes twice, and none before a lower one.
Rising(s)  == \A i, j \in 1 .. Len(s) : i < j => s[i] < s[j]

\* e is what is left of the frame f, for a window with the offset o.
LeftOf(e, f, o) ==
  /\ e.start = StartOf(f) - o /\ e.end = StartOf(f) + Span - o
  /\ \A k \in 1 .. Len(e.raw) : StartOf(f) < e.raw[k] /\ e.raw[k] <= StartOf(f) + Span
  /\ Rising(e.raw)

\* There is a window that plays, the first one.
Sounding == Len(windows) >= 1 /\ windows[1].sink = "audio"
ShownFrame  == windows[1].frame
ShownOffset == windows[1].offset

\* What heard ends with is in front of what is left of the entry e.
HeardBefore(e, o) ==
  \A i \in 1 .. Len(heard) : /\ heard[i] <= e.end + o
                             /\ \A k \in 1 .. Len(e.raw) : heard[i] < e.raw[k]

\* The window is at a frame that has begun, or its first one; the frames that
\* were pushed are not behind it, and what is left of them is in order.
SoundInStep ==
  /\ ShownFrame = ClipStart \/ StartOf(ShownFrame) <= now + ShownOffset
  /\ \A f \in pushedTo : f <= ShownFrame /\ StartOf(f) <= now + ShownOffset
  /\ pushedTo # {} => playback # <<>>
  /\ \A i \in 1 .. Len(playback) : \E f \in pushedTo : LeftOf(playback[i], f, ShownOffset)
  /\ \A i \in 1 .. Len(playback) - 1 : playback[i].start < playback[Len(playback)].start
  /\ playback # <<>> => HeardBefore(playback[Len(playback)], ShownOffset)

\* What is heard is in order, and so is what is still to be heard.
SoundInv ==
  /\ \A i \in 1 .. Len(windows) : windows[i].sink = "audio" => i = 1
  /\ IF Sounding THEN SoundInStep ELSE pushedTo = {}
  /\ pushedTo = {} => playback = <<>> /\ heard = <<>>
  /\ Rising(heard)
  /\ starved => heard = <<>>

\* Where a frame of the clip starts.
LEMMA Starts ==
  ASSUME NEW f \in ClipFrames
  PROVE  /\ StartOf(f) \in Nat /\ Span \in Nat /\ Span > 0
         /\ (f - 1) * Span = StartOf(f) + Span
         /\ \A g \in ClipFrames : f < g => StartOf(f) + Span <= StartOf(g)
         /\ \A g \in ClipFrames : f <= g => StartOf(f) <= StartOf(g)
<1>1. /\ f \in Int /\ Span \in Nat /\ Span > 0 /\ \A g \in ClipFrames : g \in Int
  BY FramesAssumption, StationAssumption
     DEF FramesAssumption, StationAssumption, ClipFrames, ClipStart
<1>2. StartOf(f) \in Nat /\ (f - 1) * Span = StartOf(f) + Span
  BY ClipContent DEF StartOf
<1>3. ASSUME NEW g \in ClipFrames, f < g
      PROVE  StartOf(f) + Span <= StartOf(g)
  <2>1. f - 1 \in Int /\ g - 2 \in Int /\ f - 1 <= g - 2
    BY <1>1, <1>3
  <2>2. (f - 1) * Span <= (g - 2) * Span
    BY <1>1, <2>1, TimesKeeps
  <2> QED
    BY <1>2, <2>2 DEF StartOf
<1>4. ASSUME NEW g \in ClipFrames, f <= g
      PROVE  StartOf(f) <= StartOf(g)
  <2>1. f - 2 \in Int /\ g - 2 \in Int /\ f - 2 <= g - 2
    BY <1>1, <1>4
  <2>2. (f - 2) * Span <= (g - 2) * Span
    BY <1>1, <2>1, TimesKeeps
  <2> QED
    BY <2>2 DEF StartOf
<1> QED
  BY <1>1, <1>2, <1>3, <1>4

\* Time goes on, and the window that plays goes on to a frame that has begun.
LEMMA SoundKept ==
  ASSUME StationInv, StationInv', SoundInv,
         UNCHANGED <<pushedTo, playback, heard, starved>>, now' >= now,
         \A i \in 1 .. Len(windows') : windows'[i].sink = "audio" => i = 1,
         Sounding' <=> Sounding,
         Sounding => /\ ShownOffset' = ShownOffset /\ ShownFrame' >= ShownFrame
                     /\ ShownFrame' = ClipStart \/ StartOf(ShownFrame') <= now' + ShownOffset'
  PROVE  SoundInv'
<1>1. CASE ~ Sounding
  BY <1>1 DEF SoundInv, Rising
<1>2. CASE Sounding
  <2> DEFINE a == ShownFrame
             b == ShownFrame'
             o == ShownOffset
  <2>1. SoundInStep /\ ShownOffset' = o /\ Sounding'
    BY <1>2 DEF SoundInv
  <2>2. /\ windows[1] \in WindowSet /\ windows'[1] \in WindowSet
        /\ now \in Nat /\ now' \in Nat
    <3>1. /\ windows \in Seq(WindowSet) /\ windows' \in Seq(WindowSet)
          /\ now \in Nat /\ now' \in Nat
      BY DEF StationInv, WindowsInv, SoundTyped
    <3>2. Len(windows) >= 1 /\ Len(windows') >= 1
      BY <1>2, <2>1 DEF Sounding
    <3> QED
      BY <3>1, <3>2
  <2>3. o \in Int /\ a \in Nat /\ b \in Nat
    BY <2>1, <2>2 DEF WindowSet, ShownFrame, ShownOffset
  <2>4. b = ClipStart \/ StartOf(b) <= now' + o
    BY <1>2, <2>1
  <2>5. \A f \in pushedTo : f <= b /\ StartOf(f) <= now' + o
    <3> SUFFICES ASSUME NEW f \in pushedTo PROVE f <= b /\ StartOf(f) <= now' + o
      OBVIOUS
    <3>1. f \in ClipFrames /\ f \in Int
      BY DEF StationInv, SoundTyped, ClipFrames
    <3>2. StartOf(f) \in Nat
      BY <3>1, Starts
    <3>3. f <= a /\ StartOf(f) <= now + o /\ a <= b
      BY <1>2, <2>1 DEF SoundInStep
    <3> HIDE DEF a, b, o
    <3> QED
      BY <2>2, <2>3, <3>1, <3>2, <3>3
  <2>6. SoundInStep'
    BY <2>1, <2>4, <2>5 DEF SoundInStep, StartOf, LeftOf, Rising, HeardBefore
  <2> QED
    BY <2>1, <2>6 DEF SoundInv, Rising
<1> QED
  BY <1>1, <1>2

\* The window the loop is at gets another frame.
LEMMA WindowMoved ==
  ASSUME StationInv, Showing, NEW g \in Nat, MoveTo(g)
  PROVE  /\ windows' \in Seq(WindowSet) /\ Len(windows') = Len(windows)
         /\ windows'[windowAt] = [ThisWindow EXCEPT !.frame = g]
         /\ \A i \in 1 .. Len(windows) : i # windowAt => windows'[i] = windows[i]
<1> DEFINE n == Len(windows)
           w == [ThisWindow EXCEPT !.frame = g]
<1>1. /\ windowAt \in 1 .. n /\ n \in Nat /\ ThisWindow \in WindowSet
      /\ windows \in Seq(WindowSet)
  BY ThisWindowPlaced DEF StationInv, WindowsInv
<1>2. windows' = [windows EXCEPT ![windowAt] = w]
  BY DEF MoveTo, ThisWindow
<1>3. w \in WindowSet
  BY <1>1 DEF WindowSet
<1> HIDE DEF w
<1>4. /\ windows' \in Seq(WindowSet) /\ Len(windows') = n /\ windows'[windowAt] = w
      /\ \A i \in 1 .. n : i # windowAt => windows'[i] = windows[i]
  BY <1>1, <1>2, <1>3
<1> QED
  BY <1>4 DEF w

\* A window that plays is the first one.
LEMMA SoundingWindow ==
  ASSUME StationInv, SoundInv, Showing, ThisWindow.sink = "audio"
  PROVE  /\ windowAt = 1 /\ Sounding /\ SoundInStep
         /\ ThisWindow = windows[1] /\ ThisWindow.frame = ShownFrame
         /\ ThisWindow.offset = ShownOffset
         /\ ShownFrame \in ClipFrames /\ ShownOffset \in Int /\ now \in Nat
<1>1. windowAt \in 1 .. Len(windows) /\ Len(windows) \in Nat
  BY ThisWindowPlaced
<1>2. windowAt = 1
  BY <1>1 DEF SoundInv, ThisWindow
<1>3. ThisWindow = windows[1] /\ Sounding
  BY <1>1, <1>2 DEF ThisWindow, Sounding
<1> QED
  BY <1>2, <1>3, ThisWindowPlaced
     DEF SoundInv, StationInv, SoundTyped, ShownFrame, ShownOffset

\* The frame of the moment is not in front of the one the window is at.
LEMMA LatestAhead ==
  ASSUME StationInv, SoundInv, Showing, ThisWindow.sink = "audio", Latest # BlankFrame
  PROVE  /\ Latest \in ClipFrames /\ Latest >= ShownFrame
         /\ StartOf(Latest) <= now + ShownOffset
<1>1. /\ SoundInStep /\ ThisWindow.frame = ShownFrame /\ ThisWindow.offset = ShownOffset
      /\ ShownFrame \in ClipFrames /\ ShownOffset \in Int /\ now \in Nat
  BY SoundingWindow
<1>2. /\ Latest \in ClipFrames /\ Lasts(Latest, now + ShownOffset)
      /\ now + ShownOffset >= spans[ShownFrame].start => Latest >= ShownFrame
  BY <1>1, LatestFound
<1>3. \A f \in ClipFrames : spans[f].start = StartOf(f) /\ f \in Int /\ f >= ClipStart
  <2> SUFFICES ASSUME NEW f \in ClipFrames
               PROVE  spans[f].start = StartOf(f) /\ f \in Int /\ f >= ClipStart
    OBVIOUS
  <2>1. f \in Int /\ f >= ClipStart
    BY StationAssumption DEF ClipFrames, ClipStart, StationAssumption
  <2>2. spans[f] = [start |-> StartOf(f), end |-> (f - 1) * Span]
    BY DEF StationInv, FramesInv, ClipFrame, StartOf
  <2> QED
    BY <2>1, <2>2
<1>4. StartOf(Latest) <= now + ShownOffset
  BY <1>2, <1>3 DEF Lasts
<1>5. Latest >= ShownFrame
  <2>1. CASE ShownFrame = ClipStart
    BY <1>2, <1>3, <2>1
  <2>2. CASE StartOf(ShownFrame) <= now + ShownOffset
    <3>1. StartOf(ShownFrame) \in Nat
      BY <1>1, Starts
    <3>2. now + ShownOffset >= spans[ShownFrame].start
      BY <1>1, <1>3, <2>2, <3>1
    <3> QED
      BY <1>2, <3>2
  <2> QED
    BY <1>1, <2>1, <2>2 DEF SoundInStep
<1> QED
  BY <1>2, <1>4, <1>5

\* The frame that a window goes on to is one it may go on to.
LEMMA SoundMoved ==
  ASSUME StationInv, SoundInv, Showing, Latest # BlankFrame, MoveTo(Latest), now' = now,
         windows' \in Seq(WindowSet), Len(windows') = Len(windows),
         windows'[windowAt] = [ThisWindow EXCEPT !.frame = Latest],
         \A i \in 1 .. Len(windows) : i # windowAt => windows'[i] = windows[i]
  PROVE  /\ \A i \in 1 .. Len(windows') : windows'[i].sink = "audio" => i = 1
         /\ Sounding' <=> Sounding
         /\ Sounding => /\ ShownOffset' = ShownOffset /\ ShownFrame' >= ShownFrame
                        /\ \/ ShownFrame' = ClipStart
                           \/ StartOf(ShownFrame') <= now' + ShownOffset'
         /\ ThisWindow.sink = "audio" => ShownFrame' = Latest
<1>1. /\ windowAt \in 1 .. Len(windows) /\ Len(windows) \in Nat /\ ThisWindow \in WindowSet
      /\ ThisWindow = windows[windowAt]
  BY ThisWindowPlaced DEF ThisWindow
<1>2. /\ windows'[windowAt].sink = ThisWindow.sink
      /\ windows'[windowAt].offset = ThisWindow.offset /\ windows'[windowAt].frame = Latest
  BY <1>1 DEF WindowSet
<1>3. \A i \in 1 .. Len(windows) : /\ windows'[i].sink = windows[i].sink
                                   /\ windows'[i].offset = windows[i].offset
                                   /\ i # windowAt => windows'[i].frame = windows[i].frame
  BY <1>1, <1>2
<1>4. Sounding' <=> Sounding
  BY <1>1, <1>3 DEF Sounding
<1>5. ThisWindow.sink = "audio" => ShownFrame' = Latest
  BY <1>2, SoundingWindow DEF ShownFrame
<1>6. ASSUME Sounding
      PROVE  /\ ShownOffset' = ShownOffset /\ ShownFrame' >= ShownFrame
             /\ ShownFrame' = ClipStart \/ StartOf(ShownFrame') <= now' + ShownOffset'
  <2>1. ShownOffset' = ShownOffset
    BY <1>1, <1>3, <1>6 DEF ShownOffset, Sounding
  <2>2. CASE ThisWindow.sink = "audio"
    BY <1>5, <2>1, <2>2, LatestAhead
  <2>3. CASE ThisWindow.sink # "audio"
    <3>1. windowAt # 1 /\ 1 \in 1 .. Len(windows)
      BY <1>1, <1>6, <2>3 DEF Sounding
    <3>2. ShownFrame' = ShownFrame
      BY <1>3, <3>1 DEF ShownFrame
    <3>3. ShownFrame \in Int
      <4>1. windows[1] \in WindowSet
        BY <3>1 DEF StationInv, WindowsInv
      <4> QED
        BY <4>1 DEF WindowSet, ShownFrame
    <3> QED
      BY <1>6, <2>1, <3>2, <3>3 DEF SoundInv, SoundInStep
  <2> QED
    BY <2>2, <2>3
<1> QED
  BY <1>1, <1>3, <1>4, <1>5, <1>6 DEF SoundInv

\* A frame that is pushed goes behind all that were.
LEMMA SoundPushed ==
  ASSUME StationInv, SoundInv, Showing, ThisWindow.sink = "audio", Latest # BlankFrame,
         Latest \notin pushedTo, PushAudio(Latest), UNCHANGED <<now, heard, starved>>,
         \A i \in 1 .. Len(windows') : windows'[i].sink = "audio" => i = 1,
         Sounding', ShownOffset' = ShownOffset, ShownFrame' = Latest
  PROVE  SoundInv'
<1> DEFINE f == Latest
           o == ShownOffset
           n == Len(playback)
           e == Entry(f)
<1>1. /\ SoundInStep /\ ThisWindow.offset = o /\ Sounding
      /\ ShownFrame \in ClipFrames /\ o \in Int /\ now \in Nat
  BY SoundingWindow
<1>2. f \in ClipFrames /\ f >= ShownFrame /\ StartOf(f) <= now + o
  BY LatestAhead
<1>3. /\ e \in EntrySet /\ e.start = StartOf(f) - o /\ e.end = StartOf(f) + Span - o
      /\ e.raw = [k \in 1 .. Span |-> StartOf(f) + k]
  <2>1. /\ e \in EntrySet /\ e.start = StartOf(f) - o /\ e.end = (f - 1) * Span - o
        /\ e.raw = [k \in 1 .. Span |-> StartOf(f) + k]
    BY <1>1, <1>2, EntryType DEF StartOf
  <2>2. (f - 1) * Span = StartOf(f) + Span
    BY <1>2, Starts
  <2> DEFINE last == (f - 1) * Span
  <2>3. e.end = last - o /\ last = StartOf(f) + Span
    BY <2>1, <2>2
  <2>4. e.end = StartOf(f) + Span - o
    <3>1. StartOf(f) \in Nat /\ Span \in Nat /\ o \in Int
      BY <1>1, <1>2, Starts
    <3> HIDE DEF f, o, e, last
    <3> QED
      BY <2>3, <3>1
  <2> HIDE DEF f, o, e
  <2> QED
    BY <2>1, <2>4
<1>4. \A g \in ClipFrames : g \in Int
  BY DEF ClipFrames
<1>5. ASSUME NEW g \in pushedTo
      PROVE  g \in ClipFrames /\ g < f /\ StartOf(g) + Span <= StartOf(f) /\ StartOf(g) \in Nat
  <2>1. g \in ClipFrames /\ g # f
    BY DEF StationInv, SoundTyped
  <2>2. g < f
    BY <1>1, <1>2, <1>4, <2>1 DEF SoundInStep
  <2> QED
    BY <1>2, <2>1, <2>2, Starts
<1>6. playback \in Seq(EntrySet) /\ n \in Nat
  BY DEF StationInv, SoundTyped
<1>7. StartOf(f) \in Nat /\ Span \in Nat /\ Span > 0
  BY <1>2, Starts
<1> HIDE DEF f, o, e
<1>8. ASSUME NEW i \in 1 .. n
      PROVE  /\ playback[i].start < e.start
             /\ playback[i].end <= e.start
             /\ playback[i].end \in Int
  <2>1. PICK g \in pushedTo : LeftOf(playback[i], g, o)
    BY <1>1 DEF SoundInStep, o
  <2>2. StartOf(g) + Span <= StartOf(f) /\ StartOf(g) \in Nat
    BY <1>5
  <2>3. playback[i].start = StartOf(g) - o /\ playback[i].end = StartOf(g) + Span - o
    BY <2>1 DEF LeftOf
  <2> QED
    BY <1>1, <1>3, <1>7, <2>2, <2>3 DEF o
<1>9. Cardinality(Earlier(playback, e)) = n
  <2>1. \A i \in 1 .. n : playback[i].start \in Int /\ e.start \in Int
    <3>1. \A i \in 1 .. n : playback[i] \in EntrySet
      BY <1>6
    <3> QED
      BY <1>3, <3>1 DEF EntrySet
  <2>2. \A i \in 1 .. n : playback[i].start <= e.start
    BY <1>8, <2>1
  <2> HIDE DEF n
  <2> QED
    BY <1>6, <2>2, EarlierCounts DEF n
<1>10. /\ playback' \in Seq(EntrySet) /\ Len(playback') = n + 1 /\ playback'[n + 1] = e
       /\ \A i \in 1 .. n : playback'[i] = playback[i]
       /\ pushedTo' = pushedTo \cup {f}
  <2>1. playback' = InsertAt(playback, n + 1, e) /\ pushedTo' = pushedTo \cup {f}
    BY <1>9 DEF PushAudio, Resort, f, e
  <2>2. n + 1 \in 1 .. Len(playback) + 1 /\ (n + 1) - 1 = n
    BY <1>6
  <2> DEFINE p == n + 1
  <2>3. /\ InsertAt(playback, p, e) \in Seq(EntrySet)
        /\ Len(InsertAt(playback, p, e)) = Len(playback) + 1
        /\ InsertAt(playback, p, e)[p] = e
        /\ \A i \in 1 .. p - 1 : InsertAt(playback, p, e)[i] = playback[i]
    <3> HIDE DEF n, p
    <3> QED
      BY <1>3, <1>6, <2>2, InsertKeeps DEF p
  <2> QED
    BY <2>1, <2>2, <2>3
<1>11. LeftOf(e, f, o)
  <2>1. Len(e.raw) = Span /\ \A k \in 1 .. Span : e.raw[k] = StartOf(f) + k
    BY <1>3, <1>7
  <2>2. \A k \in 1 .. Len(e.raw) : StartOf(f) < e.raw[k] /\ e.raw[k] <= StartOf(f) + Span
    BY <1>7, <2>1
  <2>3. Rising(e.raw)
    BY <1>7, <2>1 DEF Rising
  <2> QED
    BY <1>3, <2>2, <2>3 DEF LeftOf
<1>12. HeardBefore(e, o)
  <2>1. CASE n = 0
    <3>1. heard = <<>>
      <4>1. playback = <<>>
        BY <1>6, <2>1
      <4> QED
        BY <1>1, <4>1 DEF SoundInStep, SoundInv
    <3> QED
      BY <3>1 DEF HeardBefore
  <2>2. CASE n # 0
    <3>1. n \in 1 .. n /\ playback # <<>>
      BY <1>6, <2>2
    <3>2. HeardBefore(playback[n], o)
      BY <1>1, <3>1 DEF SoundInStep, o
    <3>3. playback[n].end <= e.start /\ playback[n].end \in Int
      BY <1>8, <3>1
    <3> SUFFICES ASSUME NEW i \in 1 .. Len(heard)
                 PROVE  /\ heard[i] <= e.end + o
                        /\ \A k \in 1 .. Len(e.raw) : heard[i] < e.raw[k]
      BY DEF HeardBefore
    <3>4. heard[i] \in Int /\ heard[i] <= playback[n].end + o
      <4>1. heard \in Seq(Sounds)
        BY DEF StationInv, SoundTyped
      <4>2. heard[i] \in Sounds
        BY <4>1
      <4> QED
        BY <3>2, <4>2 DEF HeardBefore, Sounds
    <3>5. heard[i] <= StartOf(f)
      <4> DEFINE u == playback[n].end
                 v == e.start
                 w == heard[i]
      <4>1. v = StartOf(f) - o /\ StartOf(f) \in Int /\ o \in Int
        BY <1>1, <1>3, <1>7 DEF o
      <4>2. u <= v /\ u \in Int /\ w \in Int /\ w <= u + o
        BY <3>3, <3>4
      <4> HIDE DEF n, o, e, u, v, w
      <4>3. w <= StartOf(f)
        BY ONLY <4>1, <4>2
      <4> QED
        BY <4>3 DEF w
    <3>6. \A k \in 1 .. Len(e.raw) : e.raw[k] \in Int
      BY <1>3, <1>7
    <3>7. e.end + o = StartOf(f) + Span /\ \A k \in 1 .. Len(e.raw) : StartOf(f) < e.raw[k]
      <4>1. e.end = StartOf(f) + Span - o
        BY <1>11 DEF LeftOf
      <4>2. StartOf(f) \in Int /\ Span \in Int /\ o \in Int
        BY <1>1, <1>3, <1>7 DEF o
      <4>3. \A k \in 1 .. Len(e.raw) : StartOf(f) < e.raw[k]
        BY <1>11 DEF LeftOf
      <4> HIDE DEF o, e
      <4> QED
        BY ONLY <4>1, <4>2, <4>3
    <3>8. StartOf(f) \in Int /\ Span \in Nat
      BY <1>1, <1>3, <1>7
    <3> DEFINE x == heard[i]
               y == StartOf(f)
    <3>9. x \in Int /\ x <= y /\ y \in Int
      BY <3>4, <3>5, <3>8
    <3> HIDE DEF o, e, x, y
    <3>10. x <= e.end + o
      <4>1. e.end + o = y + Span
        BY <3>7 DEF y
      <4> QED
        BY ONLY <3>8, <3>9, <4>1
    <3>11. ASSUME NEW k \in 1 .. Len(e.raw) PROVE x < e.raw[k]
      <4>1. y < e.raw[k] /\ e.raw[k] \in Int
        BY <3>6, <3>7 DEF y
      <4> QED
        BY ONLY <3>9, <4>1
    <3> QED
      BY ONLY <3>10, <3>11 DEF x
  <2> QED
    BY <2>1, <2>2
<1>13. SoundInStep'
  <2>1. ShownFrame' = f /\ ShownOffset' = o /\ StartOf(f) <= now' + o
    BY <1>2 DEF f, o
  <2>2. ASSUME NEW g \in pushedTo'
        PROVE  g <= f /\ StartOf(g) <= now' + o
    <3>1. CASE g = f
      BY <1>2, <1>4, <2>1, <3>1 DEF f
    <3>2. CASE g # f
      <4>1. g \in pushedTo
        BY <1>10, <3>2
      <4>2. g < f /\ g \in Int /\ f \in Int
        BY <1>2, <1>4, <1>5, <4>1 DEF f
      <4>3. StartOf(g) <= now + o
        BY <1>1, <4>1 DEF SoundInStep, o
      <4> QED
        BY <4>2, <4>3
    <3> QED
      BY <3>1, <3>2
  <2>3. ASSUME NEW i \in 1 .. n + 1
        PROVE  \E g \in pushedTo' : LeftOf(playback'[i], g, o)
    <3>1. CASE i = n + 1
      BY <1>10, <1>11, <3>1
    <3>2. CASE i # n + 1
      <4>1. i \in 1 .. n
        BY <1>6, <3>2
      <4>2. PICK g \in pushedTo : LeftOf(playback[i], g, o)
        BY <1>1, <4>1 DEF SoundInStep, o
      <4> QED
        BY <1>10, <4>1, <4>2
    <3> QED
      BY <3>1, <3>2
  <2>4. \A i \in 1 .. (n + 1) - 1 : playback'[i].start < playback'[n + 1].start
    BY <1>6, <1>8, <1>10
  <2>5. playback' # <<>>
    BY <1>6, <1>10
  <2>6. HeardBefore(playback'[n + 1], o)
    BY <1>10, <1>12
  <2> HIDE DEF n
  <2> QED
    BY <1>10, <2>1, <2>2, <2>3, <2>4, <2>5, <2>6
       DEF SoundInStep, LeftOf, StartOf, Rising, HeardBefore
<1>14. pushedTo' # {}
  BY <1>10
<1> QED
  BY <1>13, <1>14 DEF SoundInv, Rising

\* The rounds of the callback are one, if the entry it plays is the last one.
LEMMA LastPlayed ==
  ASSUME NEW acc \in Playable, acc.stop = FALSE, Len(acc.out) = 0,
         acc.at = Len(acc.entries), NEW n \in Nat \ {0}
  PROVE  /\ PlayFold(acc, n) = PlayEntry(acc)
         /\ LET raw == acc.entries[acc.at].raw
            IN  IF Len(raw) > Chunk
                THEN PlayEntry(acc) =
                       [acc EXCEPT !.out = @ \o SubSeq(raw, 1, Chunk),
                                   !.entries[acc.at].raw = SubSeq(raw, Chunk + 1, Len(raw))]
                ELSE PlayEntry(acc) = [acc EXCEPT !.out = @ \o raw, !.stop = TRUE]
<1> DEFINE raw == acc.entries[acc.at].raw
           done == PlayEntry(acc)
<1>1. Chunk \in Nat \ {0} /\ Chunk - Len(acc.out) = Chunk
  BY StationAssumption DEF StationAssumption
<1>2. IF Len(raw) > Chunk
      THEN done = [acc EXCEPT !.out = @ \o SubSeq(raw, 1, Chunk),
                              !.entries[acc.at].raw = SubSeq(raw, Chunk + 1, Len(raw))]
      ELSE done = [acc EXCEPT !.out = @ \o raw, !.stop = TRUE]
  BY <1>1 DEF PlayEntry
<1>3. PlayEntry(done) = done
  <2>1. acc.out \in Seq(Sounds) /\ acc.out = <<>>
    BY DEF Playable, PlayStates
  <2>2. CASE Len(raw) > Chunk
    <3>1. done.out = acc.out \o SubSeq(raw, 1, Chunk)
      BY <1>2, <2>2 DEF Playable, PlayStates
    <3>2. Len(done.out) = Chunk
      <4>1. raw \in Seq(Sounds)
        <5>1. acc.entries \in Seq(EntrySet) /\ acc.at \in 1 .. Len(acc.entries)
          BY DEF Playable, PlayStates
        <5>2. acc.entries[acc.at] \in EntrySet
          BY <5>1
        <5> QED
          BY <5>2 DEF EntrySet, Sounds
      <4>2. /\ SubSeq(raw, 1, Chunk) \in Seq(Sounds)
            /\ Len(SubSeq(raw, 1, Chunk)) = IF 1 <= Chunk THEN Chunk - 1 + 1 ELSE 0
        <5>1. Chunk \in 0 .. Len(raw) /\ 1 \in Nat \ {0}
          BY <1>1, <2>2, <4>1
        <5> HIDE DEF raw
        <5> QED
          BY <4>1, <5>1, PieceKeeps
      <4>3. Len(SubSeq(raw, 1, Chunk)) = Chunk
        BY <1>1, <4>2
      <4>4. Len(done.out) = Len(acc.out) + Len(SubSeq(raw, 1, Chunk))
        <5> DEFINE u == SubSeq(raw, 1, Chunk)
        <5>1. Len(acc.out \o u) = Len(acc.out) + Len(u)
          <6> HIDE DEF u
          <6> QED
            BY <2>1, <4>2, ConcatLength DEF u
        <5> QED
          BY <3>1, <5>1
      <4> QED
        BY <1>1, <4>3, <4>4
    <3>3. Chunk - Len(done.out) = 0
      BY <1>1, <3>2
    <3> HIDE DEF done
    <3> QED
      BY <3>3 DEF PlayEntry
  <2>3. CASE ~ (Len(raw) > Chunk)
    <3>1. done.stop = TRUE
      BY <1>2, <2>3 DEF Playable, PlayStates
    <3> HIDE DEF done
    <3> QED
      BY <3>1 DEF PlayEntry
  <2> QED
    BY <2>2, <2>3
<1>4. PlayFold(acc, n) = done
  <2> DEFINE A == {acc, done}
             B == {done}
  <2>1. B \in SUBSET A /\ acc \in A /\ \A x \in A : PlayEntry(x) \in B
    BY <1>3
  <2>2. PlayFold(acc, n) \in B
    <3> HIDE DEF A, B
    <3> QED
      BY <2>1, PlayFoldIn
  <2> QED
    BY <2>2
<1> QED
  BY <1>2, <1>4

\* Only the entry of the last frame that was pushed can be due.
LEMMA LastIsDue ==
  ASSUME StationInv, SoundInv, Due(playback) # 0
  PROVE  /\ Due(playback) = Len(playback) /\ Len(playback) \in Nat \ {0}
         /\ Sounding /\ SoundInStep
<1> DEFINE n == Len(playback)
           d == Due(playback)
           o == ShownOffset
<1>1. d \in 1 .. n /\ playback[d].start < now /\ now < playback[d].end /\ n \in Nat
  BY DueFound DEF StationInv, SoundTyped
<1>2. Sounding /\ SoundInStep
  <2>1. playback # <<>>
    BY <1>1
  <2> QED
    BY <2>1 DEF SoundInv
<1>3. o \in Int /\ now \in Nat
  <2>1. windows[1] \in WindowSet
    BY <1>2 DEF StationInv, WindowsInv, Sounding
  <2> QED
    BY <2>1 DEF WindowSet, ShownOffset, StationInv, SoundTyped
<1>4. ASSUME d # n PROVE FALSE
  <2>1. d \in 1 .. n - 1 /\ n \in 1 .. n
    BY <1>1, <1>4
  <2>2. PICK f \in pushedTo : LeftOf(playback[d], f, o)
    BY <1>1, <1>2 DEF SoundInStep
  <2>3. PICK g \in pushedTo : LeftOf(playback[n], g, o)
    BY <1>2, <2>1 DEF SoundInStep
  <2>4. playback[d].start < playback[n].start
    BY <1>2, <2>1 DEF SoundInStep
  <2>5. StartOf(g) <= now + o
    BY <1>2, <2>3 DEF SoundInStep
  <2>6. f \in ClipFrames /\ g \in ClipFrames /\ f \in Int /\ g \in Int
    BY DEF StationInv, SoundTyped, ClipFrames
  <2>7. /\ playback[d].start = StartOf(f) - o /\ playback[d].end = StartOf(f) + Span - o
        /\ playback[n].start = StartOf(g) - o
    BY <2>2, <2>3 DEF LeftOf
  <2>8. StartOf(f) \in Nat /\ StartOf(g) \in Nat /\ Span \in Nat
    BY <2>6, Starts
  <2> HIDE DEF o, d
  <2>9. StartOf(f) < StartOf(g)
    BY <1>3, <2>4, <2>7, <2>8
  <2>10. f < g
    <3>1. g <= f => StartOf(g) <= StartOf(f)
      BY <2>6, Starts
    <3> QED
      BY <2>6, <2>8, <2>9, <3>1
  <2>11. StartOf(f) + Span <= StartOf(g)
    BY <2>6, <2>10, Starts
  <2> QED
    BY <1>1, <1>3, <2>5, <2>7, <2>8, <2>11
<1> QED
  BY <1>1, <1>2, <1>4

\* A rising sequence behind a lower one rises with it.
LEMMA RisingTogether ==
  ASSUME NEW s \in Seq(Int), NEW t \in Seq(Int), Rising(s), Rising(t),
         \A i \in 1 .. Len(s), k \in 1 .. Len(t) : s[i] < t[k]
  PROVE  /\ Rising(s \o t)
         /\ \A i \in 1 .. Len(s \o t) : \/ \E j \in 1 .. Len(s) : (s \o t)[i] = s[j]
                                        \/ \E j \in 1 .. Len(t) : (s \o t)[i] = t[j]
<1> DEFINE u == s \o t
           m == Len(s)
           n == Len(t)
<1>1. /\ u \in Seq(Int) /\ Len(u) = m + n /\ m \in Nat /\ n \in Nat
      /\ \A i \in 1 .. m + n : u[i] = IF i <= m THEN s[i] ELSE t[i - m]
  BY ConcatProperties, LenProperties
<1>2. (\A i \in 1 .. m : s[i] \in Int) /\ (\A i \in 1 .. n : t[i] \in Int)
  OBVIOUS
<1> HIDE DEF u, m, n
<1>3. ASSUME NEW i \in 1 .. m + n
      PROVE  \/ i \in 1 .. m /\ u[i] = s[i]
             \/ i - m \in 1 .. n /\ u[i] = t[i - m] /\ ~ (i <= m)
  BY <1>1
<1>4. ASSUME NEW i \in 1 .. m + n, NEW j \in 1 .. m + n, i < j
      PROVE  u[i] < u[j]
  <2>1. CASE i <= m /\ j <= m
    <3>1. i \in 1 .. m /\ j \in 1 .. m /\ u[i] = s[i] /\ u[j] = s[j]
      BY <1>1, <2>1
    <3> QED
      BY <1>4, <3>1 DEF Rising, m
  <2>2. CASE i <= m /\ ~ (j <= m)
    <3>1. i \in 1 .. m /\ u[i] = s[i] /\ j - m \in 1 .. n /\ u[j] = t[j - m]
      BY <1>1, <2>2
    <3> QED
      BY <3>1 DEF m, n
  <2>3. CASE ~ (i <= m) /\ ~ (j <= m)
    <3>1. i - m < j - m
      BY <1>1, <1>4
    <3>2. i - m \in 1 .. n /\ j - m \in 1 .. n /\ u[i] = t[i - m] /\ u[j] = t[j - m]
      BY <1>1, <2>3
    <3> QED
      BY <3>1, <3>2 DEF Rising, n
  <2> QED
    BY <1>1, <1>4, <2>1, <2>2, <2>3
<1> QED
  BY <1>1, <1>3, <1>4 DEF Rising, u, m, n

\* What comes out of the last entry goes behind what was heard.
LEMMA SoundPlayed ==
  ASSUME StationInv, SoundInv, Callback
  PROVE  SoundInv' /\ Sounding' = Sounding
<1> DEFINE n == Len(playback)
           e == playback[n]
           o == ShownOffset
<1>1. /\ playback' = PlayEnd.entries /\ starved' = (starved \/ PlayEnd.stop)
      /\ heard' = (IF starved' THEN <<>> ELSE heard \o PlayEnd.out)
      /\ UNCHANGED <<now, pushedTo, windows>> /\ Due(playback) # 0
  BY DEF Callback, PlayEnd, PlayBegin, PlayFold
<1>2. Due(playback) = n /\ n \in Nat \ {0} /\ Sounding /\ SoundInStep
  BY <1>1, LastIsDue
<1>3. /\ playback \in Seq(EntrySet) /\ heard \in Seq(Sounds) /\ starved \in BOOLEAN
      /\ e \in EntrySet /\ e.raw \in Seq(Sounds)
  <2>1. playback \in Seq(EntrySet) /\ heard \in Seq(Sounds) /\ starved \in BOOLEAN
    BY DEF StationInv, SoundTyped
  <2>2. e \in EntrySet
    BY <1>2, <2>1
  <2> QED
    BY <2>1, <2>2 DEF EntrySet, Sounds
<1>4. Sounding' = Sounding /\ ShownOffset' = o /\ ShownFrame' = ShownFrame
  BY <1>1 DEF Sounding, ShownOffset, ShownFrame
<1>5. PlayBegin \in Playable /\ PlayBegin.stop = FALSE /\ Len(PlayBegin.out) = 0
      /\ PlayBegin.at = Len(PlayBegin.entries) /\ PlayBegin.out = <<>>
      /\ PlayBegin.entries = playback /\ PlayBegin.at = n
  <2>1. <<>> \in Seq(Sounds) /\ Len(<<>>) <= Chunk /\ n \in 1 .. n
    BY <1>2, StationAssumption DEF StationAssumption
  <2> QED
    BY <1>2, <1>3, <2>1 DEF PlayBegin, Playable, PlayStates
<1>6. IF Len(e.raw) > Chunk
      THEN PlayEnd = [PlayBegin EXCEPT !.out = @ \o SubSeq(e.raw, 1, Chunk),
                        !.entries[n].raw = SubSeq(e.raw, Chunk + 1, Len(e.raw))]
      ELSE PlayEnd = [PlayBegin EXCEPT !.out = @ \o e.raw, !.stop = TRUE]
  <2> DEFINE acc == PlayBegin
             m == n + 1
  <2>1. m \in Nat \ {0}
    BY <1>2
  <2>2. acc.entries[acc.at].raw = e.raw /\ acc.at = n
    BY <1>5
  <2> HIDE DEF acc, m
  <2>3. /\ PlayFold(acc, m) = PlayEntry(acc)
        /\ LET raw == acc.entries[acc.at].raw
           IN  IF Len(raw) > Chunk
               THEN PlayEntry(acc) =
                      [acc EXCEPT !.out = @ \o SubSeq(raw, 1, Chunk),
                                  !.entries[acc.at].raw = SubSeq(raw, Chunk + 1, Len(raw))]
               ELSE PlayEntry(acc) = [acc EXCEPT !.out = @ \o raw, !.stop = TRUE]
    BY <1>5, <2>1, LastPlayed DEF acc
  <2>4. PlayEnd = PlayFold(acc, m)
    BY DEF PlayEnd, acc, m
  <2> QED
    BY <2>2, <2>3, <2>4 DEF acc
<1>7. CASE Len(e.raw) > Chunk
  <2> DEFINE u == SubSeq(e.raw, 1, Chunk)
             v == SubSeq(e.raw, Chunk + 1, Len(e.raw))
             e2 == [e EXCEPT !.raw = v]
  <2>1. /\ PlayEnd.out = <<>> \o u /\ PlayEnd.entries = [playback EXCEPT ![n] = e2]
        /\ PlayEnd.stop = FALSE
    <3>1. PlayEnd = [PlayBegin EXCEPT !.out = @ \o u, !.entries[n].raw = v]
      BY <1>6, <1>7
    <3> HIDE DEF u, v
    <3> QED
      BY <3>1 DEF PlayBegin, e2
  <2>2. /\ u \in Seq(Sounds) /\ Len(u) = Chunk /\ \A k \in 1 .. Chunk : u[k] = e.raw[k]
        /\ v \in Seq(Sounds) /\ Len(v) = Len(e.raw) - Chunk
        /\ \A k \in 1 .. Len(v) : v[k] = e.raw[Chunk + k]
        /\ Chunk \in Nat \ {0} /\ Len(e.raw) \in Nat
    <3> DEFINE r == e.raw
               m == Len(r)
    <3>1. Chunk \in Nat \ {0} /\ m \in Nat /\ r \in Seq(Sounds)
      BY <1>3, StationAssumption DEF StationAssumption
    <3>2. Chunk \in 0 .. m /\ m \in 0 .. m /\ 1 \in Nat \ {0} /\ Chunk + 1 \in Nat \ {0}
      BY <1>7, <3>1
    <3> HIDE DEF r
    <3>3. /\ SubSeq(r, 1, Chunk) \in Seq(Sounds)
          /\ Len(SubSeq(r, 1, Chunk)) = IF 1 <= Chunk THEN Chunk - 1 + 1 ELSE 0
          /\ \A i \in 1 .. Len(SubSeq(r, 1, Chunk)) : SubSeq(r, 1, Chunk)[i] = r[1 + i - 1]
      BY <3>1, <3>2, PieceKeeps
    <3>4. /\ SubSeq(r, Chunk + 1, m) \in Seq(Sounds)
          /\ Len(SubSeq(r, Chunk + 1, m)) = IF Chunk + 1 <= m THEN m - (Chunk + 1) + 1 ELSE 0
          /\ \A i \in 1 .. Len(SubSeq(r, Chunk + 1, m)) :
               SubSeq(r, Chunk + 1, m)[i] = r[Chunk + 1 + i - 1]
      BY <3>1, <3>2, PieceKeeps
    <3> DEFINE x == SubSeq(r, 1, Chunk)
               y == SubSeq(r, Chunk + 1, m)
    <3>5. Len(x) = Chunk /\ Len(y) = m - Chunk
      BY <1>7, <3>1, <3>3, <3>4 DEF r
    <3>6. \A k \in 1 .. Chunk : 1 + k - 1 = k
      BY <3>1
    <3>7. \A k \in 1 .. Len(y) : Chunk + 1 + k - 1 = Chunk + k
      BY <3>1, <3>5
    <3>8. (\A k \in 1 .. Chunk : x[k] = r[k]) /\ (\A k \in 1 .. Len(y) : y[k] = r[Chunk + k])
      <4> HIDE DEF x, y, m
      <4> QED
        BY <3>3, <3>4, <3>5, <3>6, <3>7 DEF x, y
    <3> QED
      BY <3>1, <3>3, <3>4, <3>5, <3>8 DEF r
  <2> HIDE DEF u, v
  <2>3. e2.start = e.start /\ e2.end = e.end /\ e2.raw = v
    BY <1>3 DEF EntrySet
  <2> HIDE DEF e2
  <2>4. /\ Len(playback') = n /\ playback'[n] = e2 /\ n \in 1 .. n
        /\ \A i \in 1 .. n : i # n => playback'[i] = playback[i]
        /\ playback' # <<>>
    BY <1>1, <1>2, <1>3, <2>1
  <2>5. <<>> \o u = u
    BY <2>2
  <2>6. starved' = starved /\ heard' = IF starved THEN <<>> ELSE heard \o u
    BY <1>1, <1>3, <2>1, <2>5
  <2>7. PICK f \in pushedTo : LeftOf(e, f, o)
    BY <1>2 DEF SoundInStep
  <2>8. \A k \in 1 .. Len(e.raw) : e.raw[k] \in Int
    <3> DEFINE r == e.raw
    <3>1. r \in Seq(Sounds) /\ \A x \in Sounds : x \in Int
      BY <1>3 DEF Sounds
    <3> HIDE DEF r, Sounds
    <3>2. \A k \in 1 .. Len(r) : r[k] \in Int
      BY <3>1
    <3> QED
      BY <3>2 DEF r
  <2>9. LeftOf(e2, f, o)
    <3>1. \A k \in 1 .. Len(v) : Chunk + k \in 1 .. Len(e.raw)
      BY <2>2
    <3>2. /\ \A k \in 1 .. Len(v) : StartOf(f) < v[k] /\ v[k] <= StartOf(f) + Span
          /\ \A k, l \in 1 .. Len(v) : k < l => v[k] < v[l]
      <4>1. \A k, l \in 1 .. Len(v) : k < l => Chunk + k < Chunk + l
        BY <2>2
      <4> HIDE DEF e
      <4> QED
        BY <2>2, <2>7, <3>1, <4>1 DEF LeftOf, Rising
    <3> QED
      BY <2>3, <2>7, <3>2 DEF LeftOf, Rising
  <2>10. ASSUME starved = FALSE
         PROVE  /\ Rising(heard')
                /\ \A i \in 1 .. Len(heard') : /\ heard'[i] <= e.end + o
                                               /\ \A k \in 1 .. Len(v) : heard'[i] < v[k]
    <3>1. heard' = heard \o u /\ heard \in Seq(Int) /\ u \in Seq(Int)
      <4>1. heard \in Seq(Sounds) /\ u \in Seq(Sounds) /\ \A x \in Sounds : x \in Int
        BY <1>3, <2>2 DEF Sounds
      <4> HIDE DEF Sounds
      <4>2. heard \in Seq(Int) /\ u \in Seq(Int)
        BY <4>1
      <4> QED
        BY <2>6, <2>10, <4>2
    <3>2. HeardBefore(e, o) /\ Rising(heard)
      BY <1>2, <2>4 DEF SoundInStep, SoundInv
    <3>3. \A k \in 1 .. Len(u) : k \in 1 .. Len(e.raw) /\ u[k] = e.raw[k]
      BY <1>7, <2>2
    <3>4. Rising(u)
      BY <2>7, <3>3 DEF Rising, LeftOf
    <3>5. \A i \in 1 .. Len(heard), k \in 1 .. Len(u) : heard[i] < u[k]
      BY <3>2, <3>3 DEF HeardBefore
    <3>6. /\ Rising(heard \o u)
          /\ \A i \in 1 .. Len(heard \o u) :
               \/ \E j \in 1 .. Len(heard) : (heard \o u)[i] = heard[j]
               \/ \E j \in 1 .. Len(u) : (heard \o u)[i] = u[j]
      BY <3>1, <3>2, <3>4, <3>5, RisingTogether
    <3>7. \A k \in 1 .. Len(v) : Chunk + k \in 1 .. Len(e.raw) /\ v[k] = e.raw[Chunk + k]
      BY <2>2
    <3>8. ASSUME NEW j \in 1 .. Len(heard)
          PROVE  heard[j] <= e.end + o /\ \A k \in 1 .. Len(v) : heard[j] < v[k]
      BY <3>2, <3>7 DEF HeardBefore
    <3>9. e.end + o = StartOf(f) + Span
      <4>1. e.end = StartOf(f) + Span - o /\ o \in Int /\ StartOf(f) \in Nat /\ Span \in Nat
        <5>1. f \in ClipFrames /\ windows[1] \in WindowSet
          BY <1>2 DEF StationInv, SoundTyped, WindowsInv, Sounding
        <5> QED
          BY <2>7, <5>1, Starts DEF LeftOf, WindowSet, ShownOffset
      <4> HIDE DEF e, o
      <4> QED
        BY <4>1
    <3>10. ASSUME NEW j \in 1 .. Len(u)
           PROVE  u[j] <= e.end + o /\ \A k \in 1 .. Len(v) : u[j] < v[k]
      <4>1. j \in 1 .. Len(e.raw) /\ u[j] = e.raw[j] /\ j <= Chunk /\ j \in Nat
        BY <2>2, <3>3
      <4>2. u[j] <= e.end + o
        BY <2>7, <3>9, <4>1 DEF LeftOf
      <4>3. ASSUME NEW k \in 1 .. Len(v)
            PROVE  u[j] < v[k]
        <5>1. j < Chunk + k
          BY <2>2, <4>1
        <5>2. Rising(e.raw)
          BY <2>7 DEF LeftOf
        <5> HIDE DEF e
        <5> QED
          BY <3>7, <4>1, <5>1, <5>2 DEF Rising
      <4> QED
        BY <4>2, <4>3
    <3>11. ASSUME NEW i \in 1 .. Len(heard \o u)
           PROVE  /\ (heard \o u)[i] <= e.end + o
                  /\ \A k \in 1 .. Len(v) : (heard \o u)[i] < v[k]
      <4> DEFINE x == heard \o u
      <4>1. \/ \E j \in 1 .. Len(heard) : x[i] = heard[j]
            \/ \E j \in 1 .. Len(u) : x[i] = u[j]
        BY <3>6
      <4> HIDE DEF x, e, o
      <4>2. x[i] <= e.end + o /\ \A k \in 1 .. Len(v) : x[i] < v[k]
        BY <3>8, <3>10, <4>1
      <4> QED
        BY <4>2 DEF x
    <3> QED
      BY <3>1, <3>6, <3>11
  <2>11. starved = TRUE => heard' = <<>> /\ Rising(heard')
    BY <2>6 DEF Rising
  <2>13. SoundInStep'
    <3>1. Len(playback') = n
      BY <2>4
    <3>2. ASSUME NEW i \in 1 .. n
          PROVE  \E g \in pushedTo : LeftOf(playback'[i], g, o)
      <4>1. CASE i = n
        BY <2>4, <2>9, <4>1
      <4>2. CASE i # n
        BY <1>2, <2>4, <4>2 DEF SoundInStep
      <4> QED
        BY <4>1, <4>2
    <3>3. ASSUME NEW i \in 1 .. n - 1
          PROVE  playback'[i].start < playback'[n].start
      <4>1. i \in 1 .. n /\ i # n
        BY <1>2
      <4> QED
        BY <1>2, <2>3, <2>4, <4>1 DEF SoundInStep
    <3>4. HeardBefore(playback[Len(playback)], o)'
      <4>1. \A i \in 1 .. Len(heard') : /\ heard'[i] <= playback'[n].end + o
                         /\ \A k \in 1 .. Len(playback'[n].raw) : heard'[i] < playback'[n].raw[k]
        <5>1. CASE starved = TRUE
          <6>1. Len(heard') = 0
            BY <2>11, <5>1
          <6> QED
            BY <6>1
        <5>2. CASE starved = FALSE
          <6> HIDE DEF e, o, n
          <6> QED
            BY <2>3, <2>4, <2>10, <5>2
        <5> QED
          BY <1>3, <5>1, <5>2
      <4> QED
        BY <1>4, <2>4, <4>1 DEF HeardBefore
    <3> HIDE DEF o, e
    <3> QED
      BY <1>1, <1>2, <1>4, <2>4, <3>1, <3>2, <3>3, <3>4
         DEF SoundInStep, LeftOf, StartOf, Rising, HeardBefore, o
  <2>14. pushedTo # {}
    BY <2>7
  <2>15. Rising(heard)'
    BY <1>3, <2>10, <2>11 DEF Rising
  <2> QED
    BY <1>1, <1>2, <1>4, <2>6, <2>13, <2>14, <2>15 DEF SoundInv
<1>8. CASE ~ (Len(e.raw) > Chunk)
  <2>1. PlayEnd.entries = playback /\ PlayEnd.stop = TRUE
    BY <1>6, <1>8 DEF PlayBegin
  <2>2. playback' = playback /\ heard' = <<>> /\ starved'
    BY <1>1, <2>1
  <2>3. HeardBefore(playback[Len(playback)], o)'
    BY <2>2 DEF HeardBefore
  <2>4. SoundInStep'
    BY <1>1, <1>2, <1>4, <2>2, <2>3 DEF SoundInStep, LeftOf, StartOf, Rising, HeardBefore
  <2> QED
    BY <1>1, <1>2, <1>4, <2>2, <2>4 DEF SoundInv, Rising, SoundInStep
<1> QED
  BY <1>7, <1>8

\* Every step of the TV but the command that plays keeps what is heard in order.
LEMMA SoundOutward ==
  ASSUME StationInv, StationInv', SoundInv, Outward
  PROVE  SoundInv' /\ Sounding' = Sounding
<1>1. /\ Showing /\ MoveTo(Latest) /\ Latest # BlankFrame /\ UNCHANGED <<now, heard, starved>>
      /\ Len(lists) \in Nat /\ lists' = lists /\ windowAt' = windowAt + 1 /\ pc' = pc /\ pc = "tv"
  BY FrameCounts DEF Outward, NextWindow, Showing, At, StationInv
<1>2. /\ windows' \in Seq(WindowSet) /\ Len(windows') = Len(windows)
      /\ windows'[windowAt] = [ThisWindow EXCEPT !.frame = Latest]
      /\ \A i \in 1 .. Len(windows) : i # windowAt => windows'[i] = windows[i]
  <2>1. Latest \in Nat
    BY <1>1, LatestFound DEF StationInv, FramesInv
  <2> DEFINE g == Latest
  <2> HIDE DEF g
  <2> QED
    BY <1>1, <2>1, WindowMoved DEF g
<1>3. /\ \A i \in 1 .. Len(windows') : windows'[i].sink = "audio" => i = 1
      /\ Sounding' <=> Sounding
      /\ Sounding => /\ ShownOffset' = ShownOffset /\ ShownFrame' >= ShownFrame
                     /\ ShownFrame' = ClipStart \/ StartOf(ShownFrame') <= now' + ShownOffset'
      /\ ThisWindow.sink = "audio" => ShownFrame' = Latest
  BY <1>1, <1>2, SoundMoved
<1>4. Sounding' = Sounding
  BY <1>3 DEF Sounding
<1>5. CASE UNCHANGED <<pushedTo, playback>>
  <2>1. now' >= now
    BY <1>1 DEF StationInv, SoundTyped
  <2>2. UNCHANGED <<pushedTo, playback, heard, starved>>
    BY <1>1, <1>5
  <2> QED
    BY <1>3, <1>4, <2>1, <2>2, SoundKept
<1>6. CASE ~ UNCHANGED <<pushedTo, playback>>
  <2>1. ThisWindow.sink = "audio" /\ PushAudio(Latest) /\ Latest \notin pushedTo
    BY <1>6 DEF Outward, PushAudio
  <2>2. Sounding
    BY <1>1, <2>1, SoundingWindow
  <2> QED
    BY <1>1, <1>3, <1>4, <2>1, <2>2, SoundPushed
<1> QED
  BY <1>5, <1>6

\* Nor does one that cannot be decoded.
LEMMA SoundThrows ==
  ASSUME StationInv, StationInv', SoundInv, OutwardThrows
  PROVE  SoundInv' /\ Sounding' = Sounding
<1>1. /\ Showing /\ MoveTo(Latest) /\ Latest # BlankFrame
      /\ UNCHANGED <<now, heard, starved, pushedTo, playback>>
  BY DEF OutwardThrows
<1>2. /\ windows' \in Seq(WindowSet) /\ Len(windows') = Len(windows)
      /\ windows'[windowAt] = [ThisWindow EXCEPT !.frame = Latest]
      /\ \A i \in 1 .. Len(windows) : i # windowAt => windows'[i] = windows[i]
  <2>1. Latest \in Nat
    BY <1>1, LatestFound DEF StationInv, FramesInv
  <2> DEFINE g == Latest
  <2> HIDE DEF g
  <2> QED
    BY <1>1, <2>1, WindowMoved DEF g
<1>3. /\ \A i \in 1 .. Len(windows') : windows'[i].sink = "audio" => i = 1
      /\ Sounding' <=> Sounding
      /\ Sounding => /\ ShownOffset' = ShownOffset /\ ShownFrame' >= ShownFrame
                     /\ ShownFrame' = ClipStart \/ StartOf(ShownFrame') <= now' + ShownOffset'
  BY <1>1, <1>2, SoundMoved
<1>4. now' >= now /\ Sounding' = Sounding
  BY <1>1, <1>3 DEF StationInv, SoundTyped, Sounding
<1> QED
  BY <1>1, <1>3, <1>4, SoundKept

\* The window that plays stays as it is.
LEMMA SoundSteady ==
  ASSUME StationInv, StationInv', SoundInv,
         UNCHANGED <<pushedTo, playback, heard, starved>>, now' >= now,
         Sounding' = Sounding, Sounding => windows'[1] = windows[1],
         \A i \in 1 .. Len(windows') : windows'[i].sink = "audio" => i = 1
  PROVE  SoundInv'
<1>1. ASSUME Sounding
      PROVE  /\ ShownOffset' = ShownOffset /\ ShownFrame' >= ShownFrame
             /\ ShownFrame' = ClipStart \/ StartOf(ShownFrame') <= now' + ShownOffset'
  <2>1. ShownOffset' = ShownOffset /\ ShownFrame' = ShownFrame /\ SoundInStep
    BY <1>1 DEF ShownOffset, ShownFrame, SoundInv
  <2>2. windows[1] \in WindowSet /\ now \in Nat /\ now' \in Nat /\ windows[1].frame \in ClipFrames
    BY <1>1 DEF StationInv, WindowsInv, SoundTyped, Sounding, WindowPlaced
  <2>3. ShownFrame \in Nat /\ ShownOffset \in Int
    BY <2>2 DEF WindowSet, ShownFrame, ShownOffset
  <2>4. StartOf(ShownFrame) \in Nat
    BY <2>2, Starts DEF ShownFrame
  <2>5. ShownFrame = ClipStart \/ StartOf(ShownFrame) <= now + ShownOffset
    BY <2>1 DEF SoundInStep
  <2> QED
    BY <2>1, <2>2, <2>3, <2>4, <2>5
<1>2. Sounding' <=> Sounding
  BY DEF Sounding
<1> QED
  BY <1>1, <1>2, SoundKept

\* Other windows than the first one that plays.
LEMMA OthersSteady ==
  ASSUME StationInv, SoundInv, windows' \in Seq(WindowSet), Len(windows') >= Len(windows),
         \A i \in 1 .. Len(windows) : windows'[i].sink = windows[i].sink,
         \A i \in 1 .. Len(windows) : windows[i].sink = "audio" => windows'[i] = windows[i],
         \A i \in 1 .. Len(windows') : ~ (i <= Len(windows)) => windows'[i].sink # "audio"
  PROVE  /\ \A i \in 1 .. Len(windows') : windows'[i].sink = "audio" => i = 1
         /\ Sounding' = Sounding /\ (Sounding => windows'[1] = windows[1])
<1>1. Len(windows) \in Nat /\ Len(windows') \in Nat
  BY DEF StationInv, WindowsInv
<1>2. Sounding' <=> Sounding
  <2>1. CASE Len(windows) >= 1
    BY <1>1, <2>1 DEF Sounding
  <2>2. CASE ~ (Len(windows) >= 1)
    <3>1. Len(windows') >= 1 => 1 \in 1 .. Len(windows') /\ ~ (1 <= Len(windows))
      BY <1>1, <2>2
    <3> QED
      BY <2>2, <3>1 DEF Sounding
  <2> QED
    BY <2>1, <2>2
<1>3. Sounding' = Sounding
  BY <1>2 DEF Sounding
<1> QED
  BY <1>1, <1>3 DEF SoundInv, Sounding

(***************************************************************************)
(* What one recorder leaves behind: the frames behind the clip's, each     *)
(* linked to the next one.                                                 *)
(***************************************************************************)

\* How many frames were recorded, which ones, and the one at each place.
Recorded      == Len(lists) - Clip - 1
RecordedAt(k) == IF k = 0 THEN ItemFrame ELSE Clip + 1 + k
RecordedUpto(k) == [j \in 1 .. k |-> Clip + 1 + j]

\* Where the frames lead to.
ChainLinked ==
  \A k \in 0 .. Recorded :
    lists[RecordedAt(k)].second = IF k = Recorded THEN <<>> ELSE <<Clip + 2 + k>>

\* The states of a walk by distance.
WalkSet == [at : Nat, seen : Seq(Nat)]

\* Where the walk along the chain is after k rounds.
WalkedTo(k) == IF k <= Recorded THEN [at |-> RecordedAt(k), seen |-> RecordedUpto(k)]
               ELSE [at |-> BlankFrame, seen |-> RecordedUpto(Recorded)]

\* A round of the walk.
StepOn(acc) == WalkOn(acc, AllFrames, Len(lists) > 0)

\* Numbers of recorded frames.
LEMMA RecordedCounts ==
  ASSUME FramesInv
  PROVE  /\ Recorded \in Nat /\ Clip \in Nat \ {0} /\ Len(lists) = Clip + 1 + Recorded
         /\ \A k \in 0 .. Recorded : RecordedAt(k) \in 1 .. Len(lists)
         /\ (Len(lists) > 0) = TRUE /\ AllFrames = 1 .. Len(lists) /\ Len(lists) \in Nat
<1>1. /\ Len(lists) \in Nat /\ Clip \in Nat \ {0} /\ Len(lists) >= Clip + 1
      /\ AllFrames = 1 .. Len(lists)
  BY FrameCounts DEF FramesInv
<1>2. Recorded \in Nat /\ Len(lists) = Clip + 1 + Recorded
  BY <1>1 DEF Recorded
<1> QED
  BY <1>1, <1>2 DEF RecordedAt, ItemFrame

\* One recorded frame more.
LEMMA UptoType ==
  ASSUME NEW k \in Nat, Clip \in Nat
  PROVE  /\ RecordedUpto(k) \in Seq(Nat)
         /\ RecordedUpto(k + 1) = Append(RecordedUpto(k), Clip + 2 + k)
<1> DEFINE s == RecordedUpto(k)
           t == RecordedUpto(k + 1)
           e == Clip + 2 + k
<1>1. s \in Seq(Nat) /\ Len(s) = k /\ \A j \in 1 .. k : s[j] = Clip + 1 + j
  BY DEF RecordedUpto
<1>2. t \in Seq(Nat) /\ Len(t) = k + 1 /\ \A j \in 1 .. k + 1 : t[j] = Clip + 1 + j
  BY DEF RecordedUpto
<1>3. e \in Nat /\ Clip + 1 + (k + 1) = e /\ k + 1 \in 1 .. k + 1
  OBVIOUS
<1>4. \A j \in 1 .. k : t[j] = s[j]
  BY <1>1, <1>2
<1>5. t[k + 1] = e
  BY <1>2, <1>3
<1> HIDE DEF s, t, e
<1>6. t = Append(s, e)
  BY <1>1, <1>2, <1>3, <1>4, <1>5, AppendByElements
<1> QED
  BY <1>1, <1>6 DEF s, t, e

\* A round keeps the kind of the walk.
LEMMA StepOnType ==
  ASSUME FramesInv, NEW acc \in WalkSet
  PROVE  StepOn(acc) \in WalkSet
<1>1. (Len(lists) > 0) = TRUE /\ AllFrames = 1 .. Len(lists) /\ BlankFrame = 0
  BY RecordedCounts DEF BlankFrame
<1>2. acc.at \in Nat /\ acc.seen \in Seq(Nat)
  BY DEF WalkSet
<1> DEFINE n == Neighbour(acc.at, Len(lists) > 0)
<1>3. CASE acc.at \notin AllFrames \/ n = BlankFrame
  <2>1. StepOn(acc) = [acc EXCEPT !.at = BlankFrame]
    BY <1>3 DEF StepOn, WalkOn
  <2> QED
    BY <1>1, <2>1 DEF WalkSet
<1>4. CASE ~ (acc.at \notin AllFrames \/ n = BlankFrame)
  <2>1. StepOn(acc) = [at |-> n, seen |-> Append(acc.seen, n)]
    BY <1>4 DEF StepOn, WalkOn
  <2>2. n \in Nat
    <3> DEFINE l == lists[acc.at].second
    <3>1. l \in Seq(Nat)
      BY <1>1, <1>4, FrameCounts
    <3>2. n = IF l = <<>> THEN BlankFrame ELSE l[1]
      BY <1>1 DEF Neighbour
    <3> HIDE DEF l, n
    <3> QED
      BY <1>1, <3>1, <3>2
  <2> HIDE DEF n
  <2> QED
    BY <1>2, <2>1, <2>2 DEF WalkSet
<1> QED
  BY <1>3, <1>4

\* A round takes the walk along the chain to the next frame.
LEMMA WalkedOn ==
  ASSUME FramesInv, ChainLinked, NEW k \in Nat
  PROVE  StepOn(WalkedTo(k)) = WalkedTo(k + 1)
<1>1. /\ Recorded \in Nat /\ Clip \in Nat \ {0} /\ BlankFrame = 0
      /\ \A j \in 0 .. Recorded : RecordedAt(j) \in AllFrames
      /\ (Len(lists) > 0) = TRUE /\ 0 \notin AllFrames
  BY RecordedCounts DEF BlankFrame
<1>2. ASSUME NEW j \in 0 .. Recorded
      PROVE  Neighbour(RecordedAt(j), Len(lists) > 0)
               = IF j = Recorded THEN BlankFrame ELSE Clip + 2 + j
  <2>1. lists[RecordedAt(j)].second = IF j = Recorded THEN <<>> ELSE <<Clip + 2 + j>>
    BY DEF ChainLinked
  <2>2. <<Clip + 2 + j>> # <<>> /\ <<Clip + 2 + j>>[1] = Clip + 2 + j
    OBVIOUS
  <2> QED
    BY <1>1, <2>1, <2>2 DEF Neighbour
<1>3. CASE k < Recorded
  <2>1. k \in 0 .. Recorded /\ k + 1 <= Recorded /\ k # Recorded /\ k <= Recorded
    BY <1>1, <1>3
  <2>2. WalkedTo(k) = [at |-> RecordedAt(k), seen |-> RecordedUpto(k)]
    BY <2>1 DEF WalkedTo
  <2>3. Neighbour(RecordedAt(k), Len(lists) > 0) = Clip + 2 + k /\ Clip + 2 + k # BlankFrame
    BY <1>1, <1>2, <2>1
  <2>4. StepOn(WalkedTo(k)) = [at |-> Clip + 2 + k, seen |-> Append(RecordedUpto(k), Clip + 2 + k)]
    <3> DEFINE a == WalkedTo(k)
    <3>1. a.at = RecordedAt(k) /\ a.seen = RecordedUpto(k)
      BY <2>2
    <3> HIDE DEF a
    <3>2. a.at \in AllFrames /\ Neighbour(a.at, Len(lists) > 0) # BlankFrame
      BY <1>1, <2>1, <2>3, <3>1
    <3>3. StepOn(a) = [at |-> Neighbour(a.at, Len(lists) > 0),
                       seen |-> Append(a.seen, Neighbour(a.at, Len(lists) > 0))]
      BY <3>2 DEF StepOn, WalkOn
    <3>4. StepOn(a) = [at |-> Clip + 2 + k, seen |-> Append(RecordedUpto(k), Clip + 2 + k)]
      BY <2>3, <3>1, <3>3
    <3> QED
      BY <3>4 DEF a
  <2>5. RecordedAt(k + 1) = Clip + 2 + k
    BY <1>1 DEF RecordedAt
  <2>6. WalkedTo(k + 1) = [at |-> RecordedAt(k + 1), seen |-> RecordedUpto(k + 1)]
    BY <2>1 DEF WalkedTo
  <2> QED
    BY <1>1, <2>4, <2>5, <2>6, UptoType
<1>4. CASE k = Recorded
  <2>1. k \in 0 .. Recorded /\ ~ (k + 1 <= Recorded) /\ k <= Recorded
    BY <1>1, <1>4
  <2>2. WalkedTo(k) = [at |-> RecordedAt(k), seen |-> RecordedUpto(k)]
    BY <2>1 DEF WalkedTo
  <2>3. Neighbour(RecordedAt(k), Len(lists) > 0) = BlankFrame
    BY <1>2, <1>4, <2>1
  <2>4. StepOn(WalkedTo(k)) = [at |-> BlankFrame, seen |-> RecordedUpto(k)]
    BY <2>2, <2>3 DEF StepOn, WalkOn
  <2>5. WalkedTo(k + 1) = [at |-> BlankFrame, seen |-> RecordedUpto(Recorded)]
    BY <2>1 DEF WalkedTo
  <2> QED
    BY <1>4, <2>4, <2>5
<1>5. CASE k > Recorded
  <2>1. ~ (k + 1 <= Recorded) /\ ~ (k <= Recorded)
    BY <1>1, <1>5
  <2>2. /\ WalkedTo(k) = [at |-> BlankFrame, seen |-> RecordedUpto(Recorded)]
        /\ WalkedTo(k + 1) = [at |-> BlankFrame, seen |-> RecordedUpto(Recorded)]
    BY <2>1 DEF WalkedTo
  <2>3. BlankFrame \notin AllFrames
    BY <1>1
  <2>4. StepOn(WalkedTo(k)) = [at |-> BlankFrame, seen |-> RecordedUpto(Recorded)]
    BY <2>2, <2>3 DEF StepOn, WalkOn
  <2> QED
    BY <2>2, <2>4
<1> QED
  BY <1>1, <1>3, <1>4, <1>5

\* So by_distance finds all recorded frames, in order.
LEMMA ChainWalked ==
  ASSUME FramesInv, ChainLinked
  PROVE  Chain = RecordedUpto(Recorded)
<1> DEFINE n == Len(lists) + 1
           A == WalkSet
           seq == Rounds(Len(lists))
           S == DOMAIN seq
           a == [at |-> ItemFrame, seen |-> <<>>]
           c == [s \in SUBSET S |-> Max(s)]
           D == [i \in S |-> [x \in A |-> StepOn(x)]]
           Eq(g) == g = [s \in SUBSET S |->
                           IF s = {} THEN [at |-> ItemFrame, seen |-> <<>>]
                           ELSE WalkOn(g[s \ {Max(s)}], AllFrames, Len(lists) > 0)]
           it == CHOOSE g : Eq(g)
           P(k) == it[1 .. k] = WalkedTo(k)
<1>7. Chain = it[S].seen
  BY DEF Chain, ByDistance, FoldLeft, MapThenFoldSet
<1>0. /\ Recorded \in Nat /\ Clip \in Nat \ {0} /\ Len(lists) = Clip + 1 + Recorded
      /\ Len(lists) \in Nat
  BY RecordedCounts
<1>1. n \in Nat /\ S = 1 .. n /\ IsFiniteSet(S) /\ \A i \in S : seq[i] = i
  <2>1. n \in Nat
    BY <1>0
  <2>2. IsFiniteSet(1 .. n)
    <3> HIDE DEF n
    <3> QED
      BY <2>1, FS_Interval
  <2>3. seq = [k \in 1 .. n |-> k]
    BY <1>0, RecordedCounts DEF Rounds
  <2>4. S = 1 .. n /\ \A i \in S : seq[i] = i
    BY <2>3
  <2> QED
    BY <2>1, <2>2, <2>4
<1> HIDE DEF seq, n
<1>2. \A s \in SUBSET S : s # {} => c[s] \in s
  BY <1>1, MaxOfNumbers
<1>3. a \in A /\ D \in [S -> [A -> A]]
  <2>1. a \in A
    BY DEF WalkSet, ItemFrame
  <2>2. \A x \in A : StepOn(x) \in A
    BY StepOnType
  <2> QED
    BY <2>1, <2>2
<1>4. PICK g \in [SUBSET S -> A] : TakesOut(g, S, c, a, D)
  <2>1. IsFiniteSet(S) /\ a \in A /\ D \in [S -> [A -> A]]
    BY <1>1, <1>3
  <2> HIDE DEF c, D, S, A, a
  <2> QED
    BY ONLY <1>2, <2>1, SubsetRecursion
<1>5. Eq(g)
  <2>1. ASSUME NEW s \in SUBSET S
        PROVE  g[s] = IF s = {} THEN a ELSE StepOn(g[s \ {Max(s)}])
    <3>1. s # {} => Max(s) \in S /\ g[s \ {Max(s)}] \in A
      BY <1>2
    <3> QED
      BY <1>1, <1>4, <3>1 DEF TakesOut
  <2> QED
    BY <2>1 DEF StepOn
<1>6. Eq(it)
  <2> HIDE DEF Eq
  <2> QED
    BY <1>5
<1>61. ASSUME NEW s \in SUBSET S, s # {}
       PROVE  it[s] = StepOn(it[s \ {Max(s)}])
  BY <1>6, <1>61 DEF StepOn
<1>62. it[{}] = a
  BY <1>6
<1> HIDE DEF it
<1>8. P(0)
  <2>1. 1 .. 0 = {} /\ 0 <= Recorded
    BY <1>0
  <2>2. RecordedUpto(0) = <<>> /\ RecordedAt(0) = ItemFrame
    BY DEF RecordedUpto, RecordedAt
  <2> QED
    BY <1>62, <2>1, <2>2 DEF WalkedTo
<1>9. ASSUME NEW k \in 0 .. n - 1, P(k)
      PROVE  P(k + 1)
  <2>0. k \in Nat
    BY <1>1
  <2>1. Max(1 .. k + 1) = k + 1 /\ (1 .. k + 1) \ {k + 1} = 1 .. k
    BY <2>0, MaxOfInterval
  <2>2. (1 .. k + 1) \in SUBSET S /\ 1 .. k + 1 # {}
    <3>1. k + 1 <= n
      BY <1>1
    <3>2. k + 1 \in 1 .. k + 1
      BY <2>0
    <3>3. \A x \in 1 .. k + 1 : x \in 1 .. n
      BY <1>1, <2>0, <3>1
    <3> HIDE DEF S
    <3> QED
      BY <1>1, <3>2, <3>3
  <2>3. it[1 .. k + 1] = StepOn(it[1 .. k])
    <3> DEFINE s == 1 .. k + 1
    <3>1. it[s] = StepOn(it[s \ {Max(s)}])
      <4> HIDE DEF s
      <4> QED
        BY <1>61, <2>2 DEF s
    <3> QED
      BY <2>1, <3>1
  <2>4. StepOn(WalkedTo(k)) = WalkedTo(k + 1)
    BY <2>0, WalkedOn
  <2> QED
    BY <1>9, <2>3, <2>4
<1> HIDE DEF P
<1>10. P(n)
  <2> DEFINE T == {k \in 0 .. n : P(k)}
  <2>1. 0 \in T
    BY <1>1, <1>8
  <2>2. \A k \in 0 .. n - 1 : k \in T => k + 1 \in T
    BY <1>1, <1>9
  <2> HIDE DEF T
  <2>3. 0 .. n \subseteq T
    BY <1>1, <2>1, <2>2, BoundedInduction
  <2>4. n \in T
    BY <1>1, <2>3
  <2> QED
    BY <2>4 DEF T
<1>11. it[S] = it[1 .. n]
  BY <1>1
<1>12. WalkedTo(n).seen = RecordedUpto(Recorded)
  <2>1. ~ (n <= Recorded)
    BY <1>0 DEF n
  <2> QED
    BY <2>1 DEF WalkedTo
<1> QED
  BY <1>7, <1>10, <1>11, <1>12 DEF P

\* The samples of the recorded frames, each without its last one, which the
\* next frame begins with.
RecordedFronts == [k \in 1 .. Recorded |-> Front(content[Clip + 1 + k])]
Fronts == FlattenSeq(RecordedFronts)

\* The frame at the end of the chain, the item's at first.
LastRecorded == RecordedAt(Recorded)

\* A window records.
Recording == \E i \in 1 .. Len(windows) : windows[i].flow = "in"

\* One window records, at the end of the chain, and nothing is lost: frames,
\* sink and buffer have what was sent.
RecordInv ==
  /\ ChainLinked
  /\ \A i, j \in 1 .. Len(windows) : windows[i].flow = "in" /\ windows[j].flow = "in" => i = j
  /\ \A i \in 1 .. Len(windows) : windows[i].flow = "in" => windows[i].frame = LastRecorded
  /\ torn = FALSE => Behind(Fronts, Behind(samples, LinesOf(buffer))) = entered

\* A frame without its last sample is still samples.
LEMMA FrontType ==
  ASSUME NEW s \in Seq(SampleSet)
  PROVE  Front(s) \in Seq(SampleSet)
<1> DEFINE n == Len(s)
           b == n - 1
<1>1. n \in Nat /\ Front(s) = SubSeq(s, 1, b)
  BY LenProperties DEF Front
<1>2. CASE n = 0
  <2>1. b \in Int /\ b < 1
    BY <1>1, <1>2
  <2> HIDE DEF b
  <2>2. SubSeq(s, 1, b) = <<>>
    BY <2>1
  <2>3. Front(s) = <<>>
    BY <1>1, <2>2
  <2>4. <<>> \in Seq(SampleSet)
    OBVIOUS
  <2> QED
    BY ONLY <2>3, <2>4
<1>3. CASE n # 0
  <2>1. b \in 0 .. Len(s) /\ 1 \in Nat \ {0}
    BY <1>1, <1>3
  <2> HIDE DEF b
  <2>2. SubSeq(s, 1, b) \in Seq(SampleSet)
    BY <2>1, PieceKeeps
  <2> QED
    BY <1>1, <2>2
<1> QED
  BY <1>2, <1>3

\* The kinds of what was recorded.
LEMMA FrontsType ==
  ASSUME FramesInv
  PROVE  /\ RecordedFronts \in Seq(Seq(SampleSet)) /\ Len(RecordedFronts) = Recorded
         /\ \A k \in 1 .. Recorded : RecordedFronts[k] = Front(content[Clip + 1 + k])
         /\ Fronts \in Seq(SampleSet)
<1>1. Recorded \in Nat /\ Clip \in Nat \ {0} /\ Len(lists) = Clip + 1 + Recorded
  BY RecordedCounts
<1>2. ASSUME NEW k \in 1 .. Recorded
      PROVE  Front(content[Clip + 1 + k]) \in Seq(SampleSet)
  <2> DEFINE f == Clip + 1 + k
  <2>1. f \in 1 .. Len(lists) /\ f \notin 2 .. Clip + 1
    BY <1>1
  <2> HIDE DEF f
  <2>2. OtherFrame(f)
    BY <2>1, FrameCounts DEF FramesInv
  <2>3. Front(content[f]) \in Seq(SampleSet)
    BY <2>2, FrontType DEF OtherFrame
  <2> QED
    BY <2>3 DEF f
<1>3. /\ RecordedFronts \in Seq(Seq(SampleSet)) /\ Len(RecordedFronts) = Recorded
      /\ \A k \in 1 .. Recorded : RecordedFronts[k] = Front(content[Clip + 1 + k])
  BY <1>1, <1>2 DEF RecordedFronts
<1> QED
  BY <1>3, FlattenType DEF Fronts

\* A frame more.
LEMMA FrontsJoin ==
  ASSUME FramesInv, FramesInv', NEW new \in Seq(SampleSet),
         content' = Append(content, new), Recorded' = Recorded + 1
  PROVE  Fronts' = Behind(Fronts, Front(new))
<1>1. /\ Recorded \in Nat /\ Clip \in Nat \ {0} /\ Len(lists) = Clip + 1 + Recorded
      /\ content \in Seq(RawSet) /\ Len(content) = Len(lists)
  BY RecordedCounts DEF FramesInv
<1> DEFINE s == RecordedFronts
           t == RecordedFronts'
           n == Recorded
           e == Front(new)
<1>2. s \in Seq(Seq(SampleSet)) /\ Len(s) = n /\ e \in Seq(SampleSet)
      /\ \A k \in 1 .. n : s[k] = Front(content[Clip + 1 + k])
  BY FrontsType, FrontType
<1>3. RecordedFronts' = [k \in 1 .. n + 1 |-> Front(content'[Clip + 1 + k])]
  BY DEF RecordedFronts
<1>4. /\ \A k \in 1 .. n : content'[Clip + 1 + k] = content[Clip + 1 + k]
      /\ content'[Clip + 1 + (n + 1)] = new
  <2>1. \A f \in 1 .. Len(content) : content'[f] = content[f]
    BY <1>1
  <2>2. content'[Len(content) + 1] = new
    BY <1>1
  <2>3. \A k \in 1 .. n : Clip + 1 + k \in 1 .. Len(content)
    BY <1>1
  <2>4. Clip + 1 + (n + 1) = Len(content) + 1
    BY <1>1
  <2> QED
    BY <2>1, <2>2, <2>3, <2>4
<1>5. /\ \A k \in 1 .. n : t[k] = s[k]
      /\ t[n + 1] = e /\ t = [k \in 1 .. n + 1 |-> t[k]]
  <2>1. n + 1 \in 1 .. n + 1 /\ \A k \in 1 .. n : k \in 1 .. n + 1
    BY <1>1
  <2> QED
    BY <1>2, <1>3, <1>4, <2>1
<1> HIDE DEF s, t, e, n
<1>6. \A k \in 1 .. n + 1 : t[k] \in Seq(SampleSet)
  <2>1. n \in Nat
    BY <1>1 DEF n
  <2>2. \A k \in 1 .. n : s[k] \in Seq(SampleSet)
    BY <1>2, <2>1, ElementOfSeq
  <2>3. \A k \in 1 .. n + 1 : k = n + 1 \/ k \in 1 .. n
    BY <2>1
  <2> QED
    BY <1>2, <1>5, <2>2, <2>3
<1>7. t \in Seq(Seq(SampleSet)) /\ Len(t) = n + 1
  <2>1. n + 1 \in Nat
    BY <1>1 DEF n
  <2> QED
    BY <1>5, <1>6, <2>1, SequenceByElements
<1>8. t = Append(s, e)
  BY <1>2, <1>5, <1>7, AppendByElements
<1>9. FlattenSeq(t) = FlattenSeq(s) \o e
  BY <1>2, <1>8, FlattenAppend
<1> QED
  BY <1>9 DEF s, t, e, Fronts, Behind

\* Joining the last frame of the chain makes the new one the last.
LEMMA ChainJoin ==
  ASSUME FramesInv, ChainLinked, NEW new, Join(new), ThisWindow.frame = LastRecorded
  PROVE  ChainLinked' /\ Recorded' = Recorded + 1 /\ LastRecorded' = Len(lists) + 1
<1> DEFINE n == Recorded
           w == LastRecorded
           m == Len(lists) + 1
<1>1. /\ n \in Nat /\ Clip \in Nat \ {0} /\ Len(lists) = Clip + 1 + n
      /\ \A k \in 0 .. n : RecordedAt(k) \in 1 .. Len(lists) /\ (RecordedAt(k) = w => k = n)
  BY RecordedCounts DEF RecordedAt, LastRecorded, ItemFrame
<1>2. w \in 1 .. Len(lists) /\ w \notin ClipFrames
  <2>1. w \in 1 .. Len(lists) /\ w \notin 2 .. Clip + 1
    BY <1>1 DEF RecordedAt, LastRecorded, ItemFrame
  <2> QED
    BY <2>1, FrameCounts
<1>3. lists' = Joined(w)
  BY DEF Join, Joined, Blank
<1>4. /\ Len(lists') = m /\ lists'[w] = [first |-> <<>>, second |-> <<m>>] /\ lists'[m] = Blank
      /\ \A g \in 1 .. Len(lists) : g # w => lists'[g] = lists[g]
  BY <1>2, <1>3, JoinedLists
<1>5. Recorded' = n + 1
  <2>1. Recorded' = Len(lists') - Clip - 1
    BY DEF Recorded
  <2> HIDE DEF n
  <2> QED
    BY <1>1, <1>4, <2>1
<1>6. \A k : RecordedAt(k)' = RecordedAt(k)
  BY DEF RecordedAt, LastRecorded, ItemFrame
<1>7. ASSUME NEW k \in 0 .. n + 1
      PROVE  lists'[RecordedAt(k)].second = IF k = n + 1 THEN <<>> ELSE <<Clip + 2 + k>>
  <2>1. CASE k = n + 1
    <3>1. RecordedAt(k) = m
      BY <1>1, <2>1 DEF RecordedAt, LastRecorded
    <3> QED
      BY <1>4, <2>1, <3>1 DEF Blank
  <2>2. CASE k = n
    <3>1. RecordedAt(k) = w /\ m = Clip + 2 + k /\ k # n + 1
      BY <1>1, <2>2 DEF LastRecorded
    <3> HIDE DEF w, m
    <3> QED
      BY <1>4, <3>1
  <2>3. CASE k # n /\ k # n + 1
    <3>1. k \in 0 .. n
      BY <1>1, <2>3
    <3>2. RecordedAt(k) \in 1 .. Len(lists) /\ RecordedAt(k) # w
      BY <1>1, <2>3, <3>1
    <3>3. lists'[RecordedAt(k)] = lists[RecordedAt(k)]
      BY <1>4, <3>2
    <3>4. lists[RecordedAt(k)].second = <<Clip + 2 + k>>
      BY <2>3, <3>1 DEF ChainLinked
    <3> QED
      BY <2>3, <3>3, <3>4
  <2> QED
    BY <2>1, <2>2, <2>3
<1>8. ChainLinked'
  BY <1>5, <1>6, <1>7 DEF ChainLinked
<1>9. LastRecorded' = m
  <2>1. Recorded' # 0 /\ Clip + 1 + Recorded' = m
    BY <1>1, <1>5
  <2> QED
    BY <2>1 DEF RecordedAt, LastRecorded
<1> QED
  BY <1>5, <1>8, <1>9

\* A step that neither takes lines nor moves the window that records.
LEMMA RecordSteady ==
  ASSUME RecordInv, UNCHANGED <<lists, content, samples, buffer, entered, torn>>,
         \A i \in 1 .. Len(windows') :
           windows'[i].flow = "in" => /\ i \in 1 .. Len(windows) /\ windows[i].flow = "in"
                                      /\ windows'[i].frame = windows[i].frame
  PROVE  RecordInv' /\ Recorded' = Recorded /\ (Recording' => Recording)
<1>1. Recorded' = Recorded /\ LastRecorded' = LastRecorded /\ (ChainLinked' <=> ChainLinked)
  BY DEF Recorded, LastRecorded, RecordedAt, ItemFrame, ChainLinked
<1>2. Fronts' = Fronts
  BY <1>1 DEF Fronts, RecordedFronts
<1>3. torn' = FALSE => Behind(Fronts', Behind(samples', LinesOf(buffer'))) = entered'
  BY <1>2 DEF RecordInv
<1>4. /\ \A i, j \in 1 .. Len(windows') :
           windows'[i].flow = "in" /\ windows'[j].flow = "in" => i = j
      /\ \A i \in 1 .. Len(windows') : windows'[i].flow = "in" => windows'[i].frame = LastRecorded'
  BY <1>1 DEF RecordInv
<1>5. Recording' => Recording
  BY DEF Recording
<1> QED
  BY <1>1, <1>3, <1>4, <1>5 DEF RecordInv, Behind, LinesOf

\* What a pull took is in the frame it made, the sink or its buffer.
LEMMA SamplesAdd ==
  ASSUME NEW S, NEW f \in Seq(S), NEW d \in Seq(S), NEW x \in Seq(S), NEW y \in Seq(S),
         NEW r \in Seq(S), Behind(d, x) = Behind(y, r)
  PROVE  Behind(Behind(f, d), x) = Behind(Behind(f, y), r)
<1>1. Behind(Behind(f, d), x) = Behind(f, Behind(d, x))
  BY BehindThree
<1>2. Behind(Behind(f, y), r) = Behind(f, Behind(y, r))
  BY BehindThree
<1> QED
  BY <1>1, <1>2

\* Nothing behind a sequence leaves it as it is.
LEMMA BehindNothing ==
  ASSUME NEW S, NEW f \in Seq(S)
  PROVE  Behind(f, <<>>) = f
BY ConcatEmptySeq DEF Behind

\* A turn of the window that records loses nothing.
LEMMA InwardRecords ==
  ASSUME StationInv, StationInv', RecordInv, NEW taken, Takes(taken), Inward(taken)
  PROVE  RecordInv' /\ Recording
<1>1. /\ Showing /\ ThisWindow.flow = "in" /\ Pull(taken)
  BY DEF Inward
<1>2. /\ windowAt \in 1 .. Len(windows) /\ Len(windows) \in Nat /\ ThisWindow = windows[windowAt]
      /\ ThisWindow \in WindowSet
  BY <1>1, ThisWindowPlaced DEF ThisWindow
<1>3. Recording /\ ThisWindow.frame = LastRecorded
      /\ \A i \in 1 .. Len(windows) : windows[i].flow = "in" => i = windowAt
  BY <1>1, <1>2 DEF Recording, RecordInv
<1>4. FramesInv /\ FramesInv' /\ RecorderTyped /\ RecorderTyped' /\ WholeInv /\ ChainLinked
  BY DEF StationInv, RecordInv
<1> DEFINE d == FrontOf(Pulled(taken))
<1>5. ASSUME torn' = FALSE, Fronts' = Behind(Fronts, d)
      PROVE  Behind(Fronts', Behind(samples', LinesOf(buffer'))) = entered'
  <2> DEFINE f == Fronts
             s == samples
             l == LinesOf(buffer)
             r == LinesOf(Received(taken))
             t == samples'
             m == LinesOf(buffer')
  <2>1. /\ torn = FALSE /\ r \in Seq(SampleSet) /\ entered' = entered \o r
        /\ m \in Seq(SampleSet) /\ l \in Seq(SampleSet) /\ d \o (t \o m) = s \o (l \o r)
    BY <1>1, <1>4, <1>5, PullKeeps
  <2>2. d \in Seq(SampleSet)
    BY <1>1, <1>4, PullFrames
  <2>3. f \in Seq(SampleSet) /\ s \in Seq(SampleSet) /\ t \in Seq(SampleSet)
    BY <1>4, FrontsType DEF RecorderTyped
  <2>4. Behind(f, Behind(s, l)) = entered
    BY <2>1 DEF RecordInv
  <2> HIDE DEF f, s, l, r, t, m, d
  <2>5. Behind(d, Behind(t, m)) = Behind(s, Behind(l, r))
    BY <2>1 DEF Behind
  <2>6. r \in Seq(SampleSet) /\ m \in Seq(SampleSet) /\ l \in Seq(SampleSet)
    BY <2>1
  <2>7. Behind(Behind(f, d), Behind(t, m)) = Behind(Behind(f, Behind(s, l)), r)
    <3> DEFINE x == Behind(t, m)
               y == Behind(s, l)
    <3>1. x \in Seq(SampleSet) /\ y \in Seq(SampleSet)
      BY <2>3, <2>6, ConcatLength DEF Behind
    <3>2. Behind(y, r) = Behind(s, Behind(l, r))
      BY <2>3, <2>6, BehindThree
    <3>3. Behind(d, x) = Behind(y, r)
      BY <2>5, <3>2
    <3> HIDE DEF x, y
    <3>4. Behind(Behind(f, d), x) = Behind(Behind(f, y), r)
      BY <2>2, <2>3, <2>6, <3>1, <3>3, SamplesAdd
    <3> QED
      BY <3>4 DEF x, y
  <2>8. entered' = Behind(entered, r)
    BY <2>1 DEF Behind
  <2>9. Behind(Behind(f, d), Behind(t, m)) = entered'
    BY <2>4, <2>7, <2>8
  <2> QED
    BY <1>5, <2>9 DEF f, t, m
<1>6. CASE Pulled(taken) = <<>>
  <2>1. UNCHANGED <<lists, content, windows>>
    BY <1>6 DEF Inward
  <2>2. Recorded' = Recorded /\ LastRecorded' = LastRecorded /\ (ChainLinked' <=> ChainLinked)
    BY <2>1 DEF Recorded, LastRecorded, RecordedAt, ItemFrame, ChainLinked
  <2>3. Fronts' = Fronts
    BY <2>1, <2>2 DEF Fronts, RecordedFronts
  <2>4. Fronts' = Behind(Fronts, d)
    <3>1. d = <<>>
      BY <1>6 DEF FrontOf
    <3>2. Fronts \in Seq(SampleSet)
      BY <1>4, FrontsType
    <3>3. Behind(Fronts, <<>>) = Fronts
      BY <3>2, BehindNothing
    <3> QED
      BY <2>3, <3>1, <3>3
  <2>5. torn' = FALSE => Behind(Fronts', Behind(samples', LinesOf(buffer'))) = entered'
    BY <1>5, <2>4
  <2>6. /\ \A i, j \in 1 .. Len(windows') :
             windows'[i].flow = "in" /\ windows'[j].flow = "in" => i = j
        /\ \A i \in 1 .. Len(windows') :
             windows'[i].flow = "in" => windows'[i].frame = LastRecorded'
    BY <2>1, <2>2 DEF RecordInv
  <2> QED
    BY <1>3, <1>4, <2>2, <2>5, <2>6 DEF RecordInv, Behind, LinesOf
<1>7. CASE Pulled(taken) # <<>>
  <2> DEFINE new == Pulled(taken)[1]
             g == Len(lists) + 1
  <2>1. new \in Seq(SampleSet) /\ Join(new) /\ d = Front(new)
    BY <1>1, <1>7, PulledKeeps DEF Inward, FrontOf
  <2> HIDE DEF new
  <2>2. ChainLinked' /\ Recorded' = Recorded + 1 /\ LastRecorded' = g
    BY <1>3, <1>4, <2>1, ChainJoin
  <2>3. content' = Append(content, new) /\ MoveTo(g) /\ g \in Nat
    BY <1>4, <2>1, FrameCounts DEF Join
  <2>4. Fronts' = Behind(Fronts, d)
    BY <1>4, <2>1, <2>2, <2>3, FrontsJoin
  <2>5. torn' = FALSE => Behind(Fronts', Behind(samples', LinesOf(buffer'))) = entered'
    BY <1>5, <2>4
  <2> HIDE DEF g
  <2>6. /\ Len(windows') = Len(windows)
        /\ windows'[windowAt] = [ThisWindow EXCEPT !.frame = g]
        /\ \A i \in 1 .. Len(windows) : i # windowAt => windows'[i] = windows[i]
    BY <1>1, <2>3, WindowMoved
  <2>7. windows'[windowAt].frame = g
    BY <1>2, <2>6 DEF WindowSet
  <2>8. ASSUME NEW i \in 1 .. Len(windows'), windows'[i].flow = "in"
        PROVE  i = windowAt
    BY <1>3, <2>6, <2>8
  <2>9. /\ \A i, j \in 1 .. Len(windows') :
             windows'[i].flow = "in" /\ windows'[j].flow = "in" => i = j
        /\ \A i \in 1 .. Len(windows') :
             windows'[i].flow = "in" => windows'[i].frame = LastRecorded'
    BY <2>2, <2>7, <2>8
  <2> QED
    BY <1>3, <2>2, <2>5, <2>9 DEF RecordInv, Behind, LinesOf
<1> QED
  BY <1>6, <1>7

\* The one command that records.
LEMMA RecordBegins ==
  ASSUME StationInv, RecordInv, Recorded = 0, ~ Recording, BindRecord
  PROVE  RecordInv'
<1> DEFINE w == Window("in", "numbers", ItemFrame, 0)
           n == Len(windows)
<1>1. windows' = Append(windows, w) /\ w.frame = ItemFrame /\ w.flow = "in"
  BY DEF BindRecord, Window
<1>2. UNCHANGED <<lists, content, samples, buffer, entered, torn>>
  BY DEF BindRecord, TvUnchanged, recorderVars
<1>3. /\ Len(windows') = n + 1 /\ n \in Nat /\ windows'[n + 1] = w
      /\ \A i \in 1 .. n : windows'[i] = windows[i]
  <2>1. windows \in Seq(WindowSet)
    BY DEF StationInv, WindowsInv
  <2> HIDE DEF w
  <2> QED
    BY <1>1, <2>1
<1>4. Recorded' = Recorded /\ LastRecorded' = LastRecorded /\ (ChainLinked' <=> ChainLinked)
  BY <1>2 DEF Recorded, LastRecorded, RecordedAt, ItemFrame, ChainLinked
<1>5. LastRecorded = ItemFrame
  BY DEF LastRecorded, RecordedAt
<1>6. Fronts' = Fronts
  BY <1>2, <1>4 DEF Fronts, RecordedFronts
<1>7. torn' = FALSE => Behind(Fronts', Behind(samples', LinesOf(buffer'))) = entered'
  BY <1>2, <1>6 DEF RecordInv
<1> HIDE DEF w
<1>8. ASSUME NEW i \in 1 .. Len(windows'), windows'[i].flow = "in"
      PROVE  i = n + 1
  <2>1. i = n + 1 \/ i \in 1 .. n
    BY <1>3
  <2> QED
    BY <1>3, <1>8, <2>1 DEF Recording
<1>9. /\ \A i, j \in 1 .. Len(windows') :
           windows'[i].flow = "in" /\ windows'[j].flow = "in" => i = j
      /\ \A i \in 1 .. Len(windows') : windows'[i].flow = "in" => windows'[i].frame = LastRecorded'
  <2>1. w.frame = LastRecorded'
    BY <1>1, <1>4, <1>5
  <2> QED
    BY <1>3, <1>8, <2>1
<1> QED
  BY <1>4, <1>7, <1>9 DEF RecordInv, Behind, LinesOf

\* The property of the station.
LEMMA RecordedSamples ==
  ASSUME StationInv, RecordInv
  PROVE  SamplesKept
<1>1. FramesInv /\ RecorderTyped /\ ChainLinked /\ WholeInv
  BY DEF StationInv, RecordInv
<1>2. Chain = RecordedUpto(Recorded)
  BY <1>1, ChainWalked
<1>3. [k \in DOMAIN Chain |-> Front(content[Chain[k]])] = RecordedFronts
  BY <1>2 DEF RecordedUpto, RecordedFronts
<1>4. FlattenSeq([k \in DOMAIN Chain |-> Front(content[Chain[k]])]) = Fronts
  BY <1>3 DEF Fronts
<1>5. ASSUME ~ torn
      PROVE  Fronts \o samples \o LinesOf(buffer) = entered
  <2> DEFINE f == Fronts
             s == samples
             l == LinesOf(buffer)
  <2>1. torn = FALSE /\ Whole(buffer)
    BY <1>1, <1>5 DEF RecorderTyped, WholeInv
  <2>2. f \in Seq(SampleSet) /\ s \in Seq(SampleSet) /\ l \in Seq(SampleSet)
    BY <1>1, <2>1, FrontsType, WholeLines DEF RecorderTyped
  <2>3. Behind(f, Behind(s, l)) = entered
    BY <2>1 DEF RecordInv
  <2> HIDE DEF f, s, l
  <2>4. Behind(Behind(f, s), l) = entered
    BY <2>2, <2>3, BehindThree
  <2>5. (f \o s) \o l = entered
    BY <2>4 DEF Behind
  <2> QED
    BY <2>5 DEF f, s, l
<1> QED
  BY <1>4, <1>5 DEF SamplesKept

=============================================================================

---------------------------- MODULE IdTierProofs ----------------------------
(***************************************************************************)
(* Theorems about IdTier, for every number of ids, disk states and edits.  *)
(***************************************************************************)
EXTENDS IdTier, TLAPS, SequenceTheorems, FiniteSetTheorems, WellFoundedInduction

(***************************************************************************)
(* Lemmas on the operators of the model.                                   *)
(***************************************************************************)

\* A set of naturals that is not empty has a least element.
LEMMA MinIn ==
  ASSUME NEW S, S \subseteq Nat, S # {}
  PROVE  Min(S) \in S /\ \A n \in S : Min(S) <= n
<1>1. PICK m \in S : \A n \in S : ~ (<<n, m>> \in OpToRel(<, Nat))
  BY WFMin, NatLessThanWellFounded
<1>2. \A n \in S : ~ (n < m)
  BY <1>1, Zenon DEF OpToRel
<1>3. \A n \in S : m <= n
  BY <1>2
<1> QED
  BY <1>3 DEF Min

\* Appending and removing keep a queue a sequence.
LEMMA AppendType ==
  ASSUME NEW S, NEW s \in Seq(S), NEW e \in S
  PROVE  /\ Append(s, e) \in Seq(S)
         /\ DOMAIN Append(s, e) = 1 .. Len(s) + 1
         /\ Append(s, e)[Len(s) + 1] = e
         /\ \A j \in DOMAIN s : Append(s, e)[j] = s[j]
OBVIOUS

LEMMA RemoveAtType ==
  ASSUME NEW S, NEW s \in Seq(S), NEW k \in DOMAIN s
  PROVE  /\ RemoveAt(s, k) \in Seq(S)
         /\ \A j \in DOMAIN RemoveAt(s, k) : \E i \in DOMAIN s : RemoveAt(s, k)[j] = s[i]
         /\ \A i \in DOMAIN s : i # k =>
              \E j \in DOMAIN RemoveAt(s, k) : RemoveAt(s, k)[j] = s[i]
<1> DEFINE a == SubSeq(s, 1, k - 1)
           b == SubSeq(s, k + 1, Len(s))
<1>1. k \in 1 .. Len(s) /\ Len(s) \in Nat
  BY LenProperties
<1>2. /\ a \in Seq(S) /\ Len(a) = k - 1
      /\ \A i \in 1 .. k - 1 : a[i] = s[i]
  <2>1. \A i \in 1 .. k - 1 : s[i] \in S
    BY <1>1, ElementOfSeq
  <2> QED
    BY <1>1, <2>1, SubSeqProperties
<1>3. /\ b \in Seq(S) /\ Len(b) = Len(s) - k
      /\ \A i \in 1 .. Len(s) - k : b[i] = s[k + i]
  <2>1. \A i \in k + 1 .. Len(s) : s[i] \in S
    BY <1>1, ElementOfSeq
  <2> QED
    BY <1>1, <2>1, SubSeqProperties
<1> HIDE DEF a, b
<1> DEFINE r == a \o b
           n == Len(s)
<1>4. RemoveAt(s, k) = r
  BY DEF RemoveAt, a, b
<1>5. /\ r \in Seq(S) /\ Len(r) = Len(a) + Len(b)
      /\ \A i \in 1 .. Len(a) + Len(b) :
           r[i] = IF i <= Len(a) THEN a[i] ELSE b[i - Len(a)]
  BY <1>2, <1>3, ConcatProperties
<1>6. n \in Nat /\ k \in 1 .. n /\ DOMAIN s = 1 .. n
  BY <1>1, LenProperties
<1>7. DOMAIN r = 1 .. n - 1
  <2>1. Len(a) + Len(b) = n - 1
    BY <1>2, <1>3, <1>6
  <2> QED
    BY <1>5, <2>1, LenProperties
<1>8. \A i \in 1 .. n - 1 : i < k => r[i] = s[i]
  <2> SUFFICES ASSUME NEW i \in 1 .. n - 1, i < k
               PROVE  r[i] = s[i]
    OBVIOUS
  <2>1. i \in 1 .. Len(a) + Len(b) /\ i <= Len(a) /\ i \in 1 .. k - 1
    BY <1>2, <1>3, <1>6
  <2> QED
    BY <2>1, <1>5, <1>2
<1>9. \A i \in 1 .. n - 1 : i >= k => r[i] = s[i + 1]
  <2> SUFFICES ASSUME NEW i \in 1 .. n - 1, i >= k
               PROVE  r[i] = s[i + 1]
    OBVIOUS
  <2>1. /\ i \in 1 .. Len(a) + Len(b) /\ ~(i <= Len(a))
        /\ i - Len(a) \in 1 .. n - k /\ k + (i - Len(a)) = i + 1
    BY <1>2, <1>3, <1>6
  <2> QED
    BY <2>1, <1>5, <1>3
<1> HIDE DEF r, n
<1>10. ASSUME NEW i \in 1 .. n, i # k
       PROVE  \E j \in 1 .. n - 1 : r[j] = s[i]
  <2>1. CASE i < k
    BY <1>6, <1>8, <2>1
  <2>2. CASE i > k
    <3>1. i - 1 \in 1 .. n - 1 /\ i - 1 >= k /\ (i - 1) + 1 = i
      BY <1>6, <2>2
    <3> QED
      BY <3>1, <1>9
  <2> QED
    BY <1>6, <1>10, <2>1, <2>2
<1>11. ASSUME NEW j \in 1 .. n - 1
       PROVE  \E i \in 1 .. n : r[j] = s[i]
  <2>1. CASE j < k
    BY <1>6, <1>8, <2>1
  <2>2. CASE j >= k
    <3>1. j + 1 \in 1 .. n
      BY <1>6
    <3> QED
      BY <3>1, <2>2, <1>9
  <2> QED
    BY <1>6, <2>1, <2>2
<1> QED
  BY <1>4, <1>5, <1>6, <1>7, <1>10, <1>11

\* A lookup by id in a sequence of records finds the first with that id.
LEMMA FirstIn ==
  ASSUME NEW S, NEW s \in Seq(S), NEW x, Match(s, x) # {}
  PROVE  /\ Min(Match(s, x)) \in DOMAIN s
         /\ First(s, x) \in S /\ First(s, x).id = x
         /\ First(s, x) = s[Min(Match(s, x))]
<1>1. DOMAIN s = 1 .. Len(s) /\ Len(s) \in Nat
  BY LenProperties
<1>2. Match(s, x) \subseteq Nat
  BY <1>1 DEF Match
<1>3. Min(Match(s, x)) \in Match(s, x)
  BY <1>2, MinIn
<1> QED
  BY <1>1, <1>3, ElementOfSeq DEF Match, First

(***************************************************************************)
(* The inductive invariant.  The bounds on numbers of TypeOK are not       *)
(* inductive: that no modification_incrementor passes MaxEdits rests on    *)
(* none being greater than the number of edits so far.  The control part   *)
(* says what a return point relies on: a shift in progress has a move, and *)
(* a fetch that has been answered left its entry in the inbound queue.     *)
(***************************************************************************)

Past      == [id : Ids, mod : 0..edits, val : -3..edits]
PastEntry == [id : Ids, mod : 0..edits]

DataInv ==
  /\ id_vector \in Seq(Past)
  /\ storage \in [Tiers -> Seq(PastEntry)]
  /\ files \in [Ids -> [Mods -> -3..edits]]
  /\ \A x \in Ids : \A m \in Mods : files[x][m] # NoFile => m <= edits

QueueInv ==
  /\ inbound \in [Tiers -> Seq(Past)]
  /\ outbound \in [Tiers -> Seq(Past)]
  /\ \A t \in Tiers : \A j \in DOMAIN outbound[t] :
       outbound[t][j].val \notin {NoFile, Empty, Torn}

EnvInv ==
  /\ born \subseteq Ids /\ edits \in 0..MaxEdits /\ faults \in 0..MaxFaults
  /\ hist \in [stale : SUBSET Ids, goal : SUBSET Entry,
               loop : {"none", "running", "failed", "complete"}]

Returns == {"app", "take", "shifted", "next", "refresh"}

\* Where control is: the label, or the one the running loop returns to.
Point == IF pc = "flush" THEN call.ret ELSE pc

CtlInv ==
  /\ pc \in Labels
  /\ row \in DOMAIN Order /\ col \in Nat \ {0}
  /\ DOMAIN moves \subseteq Nat /\ moves \in [DOMAIN moves -> Move]
  /\ call \in [tier : Tiers, k : Nat \ {0}, ret : Returns]
  /\ looking \in BOOLEAN
  /\ Point \in {"shift", "take", "missed", "shifted", "threw", "next"}
       => DOMAIN moves # {}

Answered == Point = "take" => Match(inbound[m0.from], m0.id) # {}

IInv == /\ DataInv /\ QueueInv /\ EnvInv /\ CtlInv
        /\ Answered /\ DiskIndexSound /\ MemIndexLags

(***************************************************************************)
(* The operators of the model, on data that satisfies the invariant.       *)
(***************************************************************************)

LEMMA DatumFields ==
  ASSUME NEW d \in Past, EnvInv
  PROVE  /\ d.id \in Ids /\ d.mod \in 0..edits /\ d.val \in -3..edits
         /\ d.mod \in Mods
         /\ [id |-> d.id, mod |-> d.mod] \in PastEntry
BY BoundsAssumption DEF Past, PastEntry, EnvInv, Mods

\* The index of a sequence of objects lists them one for one.
LEMMA IndexType ==
  ASSUME NEW s \in Seq(Past), EnvInv
  PROVE  /\ Index(s) \in Seq(PastEntry)
         /\ DOMAIN Index(s) = DOMAIN s
         /\ \A j \in DOMAIN s : /\ Index(s)[j].id = s[j].id
                                /\ Index(s)[j].mod = s[j].mod
                                /\ s[j].mod \in Nat
<1>1. DOMAIN s = 1 .. Len(s) /\ Len(s) \in Nat
  BY LenProperties
<1>2. \A j \in DOMAIN s : s[j] \in Past
  BY <1>1, ElementOfSeq
<1>3. \A j \in DOMAIN s : [id |-> s[j].id, mod |-> s[j].mod] \in PastEntry
  BY <1>2, DatumFields
<1> QED
  BY <1>1, <1>2, <1>3 DEF Index, Past, EnvInv

LEMMA BlankType ==
  ASSUME NEW x \in Ids, EnvInv
  PROVE  Blank(x) \in Past /\ Blank(x).id = x
BY BoundsAssumption DEF Blank, Past, NoFile, EnvInv

\* A tier answers with a datum of the id that was asked for.
LEMMA GetIdType ==
  ASSUME DataInv, EnvInv, NEW t \in Tiers, NEW x \in Ids
  PROVE  GetId(t, x) \in Past /\ GetId(t, x).id = x
<1>1. CASE t = Mem /\ View(x) # -1
  <2>1. Match(id_vector, x) # {}
    BY <1>1 DEF View, Version
  <2>2. First(id_vector, x) \in Past /\ First(id_vector, x).id = x
    BY <2>1, FirstIn DEF DataInv
  <2> QED
    BY <1>1, <2>2 DEF GetId
<1>2. CASE t # Mem /\ Listed(t, x)
  <2> DEFINE m == Version(storage[t], x)
  <2>1. storage[t] \in Seq(PastEntry)
    BY DEF DataInv
  <2>2. First(storage[t], x) \in PastEntry
    BY <1>2, <2>1, FirstIn DEF Listed
  <2>3. m \in 0..edits /\ m \in Mods
    BY <1>2, <2>2, BoundsAssumption DEF Version, Listed, PastEntry, EnvInv, Mods
  <2>4. files[x][m] \in -3..edits
    BY <2>3 DEF DataInv
  <2>5. GetId(t, x) = [id |-> x, mod |-> m, val |-> files[x][m]]
    BY <1>2 DEF GetId
  <2> QED
    BY <2>3, <2>4, <2>5 DEF Past
<1>3. CASE ~(t = Mem /\ View(x) # -1) /\ ~(t # Mem /\ Listed(t, x))
  BY <1>3, BlankType DEF GetId
<1> QED
  BY <1>1, <1>2, <1>3

\* Filling a queue changes neither its length nor the ids in it.
LEMMA FillType ==
  ASSUME DataInv, EnvInv, NEW t \in Tiers, NEW q \in Seq(Past)
  PROVE  /\ Fill(t, q) \in Seq(Past)
         /\ DOMAIN Fill(t, q) = DOMAIN q
         /\ \A j \in DOMAIN q : Fill(t, q)[j].id = q[j].id
         /\ \A x : Match(Fill(t, q), x) = Match(q, x)
<1>1. DOMAIN q = 1 .. Len(q) /\ Len(q) \in Nat
  BY LenProperties
<1>2. \A j \in DOMAIN q : q[j] \in Past
  BY <1>1, ElementOfSeq
<1>3. \A j \in DOMAIN q : GetId(t, q[j].id) \in Past /\ GetId(t, q[j].id).id = q[j].id
  BY <1>2, DatumFields, GetIdType
<1>4. DOMAIN Fill(t, q) = DOMAIN q
  BY DEF Fill
<1>5. \A j \in DOMAIN q : /\ Fill(t, q)[j] \in Past
                          /\ Fill(t, q)[j].id = q[j].id
  BY <1>2, <1>3 DEF Fill
<1>6. Fill(t, q) \in Seq(Past)
  BY <1>1, <1>5 DEF Fill
<1> QED
  BY <1>4, <1>5, <1>6 DEF Match

\* A listing of the folder names files that exist, each in a version that has
\* been reached.
LEMMA ListingsType ==
  ASSUME NEW f \in [Ids -> [Mods -> Int]], NEW l \in Listings(f), EnvInv,
         \A x \in Ids : \A m \in Mods : f[x][m] # NoFile => m <= edits
  PROVE  /\ l \in Seq(PastEntry)
         /\ \A j \in DOMAIN l : f[l[j].id][l[j].mod] # NoFile
<1> DEFINE S == {e \in Entry : f[e.id][e.mod] # NoFile}
           g == [p \in Ids \X Mods |-> [id |-> p[1], mod |-> p[2]]]
<1>1. IsFiniteSet(Ids \X Mods)
  <2>1. IsFiniteSet(Mods)
    BY BoundsAssumption, FS_Interval DEF Mods
  <2> QED
    BY <2>1, IdsAssumption, FS_Product
<1>2. g \in Surjection(Ids \X Mods, Entry)
  <2>1. g \in [Ids \X Mods -> Entry]
    BY DEF Entry
  <2>2. \A e \in Entry : \E p \in Ids \X Mods : g[p] = e
    <3> SUFFICES ASSUME NEW e \in Entry PROVE \E p \in Ids \X Mods : g[p] = e
      OBVIOUS
    <3>1. <<e.id, e.mod>> \in Ids \X Mods /\ g[<<e.id, e.mod>>] = e
      BY DEF Entry
    <3> QED
      BY <3>1
  <2> QED
    BY <2>1, <2>2 DEF Surjection
<1>3. IsFiniteSet(S)
  BY <1>1, <1>2, FS_Surjection, FS_Subset
<1>4. Cardinality(S) \in Nat
  BY <1>3, FS_CardinalityType
<1>5. S \subseteq PastEntry
  BY BoundsAssumption DEF Entry, PastEntry, Mods, EnvInv
<1> HIDE DEF S
<1>6. l \in [1 .. Cardinality(S) -> S]
  BY DEF Listings, SetToSeqs, S
<1>7. l \in Seq(PastEntry)
  BY <1>4, <1>5, <1>6
<1>8. \A j \in DOMAIN l : l[j] \in S
  BY <1>6
<1> QED
  BY <1>7, <1>8 DEF S

\* The moves of a pair, by position in the index of memory.
LEMMA PairMovesType ==
  ASSUME DataInv, EnvInv, NEW s \in Tiers, NEW t \in Tiers
  PROVE  LET todo == PairMoves(s, t)
         IN  DOMAIN todo \subseteq Nat /\ todo \in [DOMAIN todo -> Move]
<1>1. ASSUME NEW d \in Tiers
      PROVE  LET todo == MoveLogic(d)
             IN  DOMAIN todo \subseteq Nat /\ todo \in [DOMAIN todo -> Move]
  <2> DEFINE i == storage[Mem]
             P == {k \in DOMAIN i : i[k].mod # Version(storage[d], i[k].id)}
  <2>1. i \in Seq(PastEntry)
    BY DEF DataInv, Tiers
  <2>2. DOMAIN i = 1 .. Len(i) /\ Len(i) \in Nat
    BY <2>1, LenProperties
  <2>3. \A k \in DOMAIN i : i[k] \in PastEntry
    BY <2>1, <2>2, ElementOfSeq
  <2>4. \A k \in DOMAIN i : Shift(i[k], d) \in Move
    BY <2>3 DEF Shift, Move, Tiers, PastEntry
  <2>5. MoveLogic(d) = [k \in P |-> Shift(i[k], d)]
    BY DEF MoveLogic
  <2> QED
    BY <2>2, <2>4, <2>5
<1>2. DOMAIN <<>> = {} /\ <<>> \in [{} -> Move]
  OBVIOUS
<1>3. CASE s = Mem /\ t # Mem
  BY <1>1, <1>3 DEF PairMoves
<1>4. CASE s # Mem /\ t = Mem
  BY <1>1, <1>4 DEF PairMoves
<1>5. CASE ~(s = Mem /\ t # Mem) /\ ~(s # Mem /\ t = Mem)
  BY <1>2, <1>5 DEF PairMoves
<1> QED
  BY <1>3, <1>4, <1>5

\* The move in progress, and what is left after it.
LEMMA FirstMove ==
  ASSUME CtlInv, DOMAIN moves # {}
  PROVE  /\ m0 \in Move
         /\ m0.id \in Ids /\ m0.from \in Tiers /\ m0.to \in Tiers
         /\ DOMAIN Rest \subseteq Nat /\ Rest \in [DOMAIN Rest -> Move]
<1>1. Min(DOMAIN moves) \in DOMAIN moves
  BY MinIn DEF CtlInv
<1>2. m0 \in Move
  BY <1>1 DEF CtlInv, m0
<1>3. DOMAIN Rest \subseteq Nat /\ Rest \in [DOMAIN Rest -> Move]
  BY DEF CtlInv, Rest
<1> QED
  BY <1>2, <1>3 DEF Move

\* Calling medium.loop keeps the queues typed, and the ids that are in them.
LEMMA CallLoopType ==
  ASSUME DataInv, QueueInv, EnvInv, CtlInv,
         NEW t \in Tiers, NEW q \in Seq(Past), NEW onThrow, NEW ret \in Returns,
         CallLoop(t, q, onThrow, ret)
  PROVE  /\ inbound' \in [Tiers -> Seq(Past)]
         /\ \A x : Match(inbound'[t], x) = Match(q, x)
         /\ call' \in [tier : Tiers, k : Nat \ {0}, ret : Returns]
         /\ \/ pc' = onThrow /\ call' = call
            \/ pc' = "flush" /\ call'.ret = ret
<1>1. /\ Fill(t, q) \in Seq(Past)
      /\ \A x : Match(Fill(t, q), x) = Match(q, x)
  BY FillType
<1>2. inbound' = [inbound EXCEPT ![t] = Fill(t, q)]
  BY DEF CallLoop
<1>3. inbound' \in [Tiers -> Seq(Past)] /\ inbound'[t] = Fill(t, q)
  BY <1>1, <1>2 DEF QueueInv
<1>4. /\ call' \in [tier : Tiers, k : Nat \ {0}, ret : Returns]
      /\ \/ pc' = onThrow /\ call' = call
         \/ pc' = "flush" /\ call'.ret = ret
  BY DEF CallLoop, CtlInv
<1> QED
  BY <1>1, <1>3, <1>4

(***************************************************************************)
(* What a step that leaves some of the variables alone preserves.          *)
(***************************************************************************)

LEMMA DataFrame ==
  ASSUME DataInv, DiskIndexSound, MemIndexLags, UNCHANGED <<data, edits>>
  PROVE  (DataInv /\ DiskIndexSound /\ MemIndexLags)'
BY DEF data, DataInv, DiskIndexSound, MemIndexLags, Past, PastEntry

LEMMA QueueFrame ==
  ASSUME QueueInv, UNCHANGED <<queue, edits>>
  PROVE  QueueInv'
BY DEF queue, QueueInv, Past

LEMMA CtlFrame ==
  ASSUME CtlInv, Answered, UNCHANGED <<ctl, inbound>>
  PROVE  CtlInv' /\ Answered'
BY DEF ctl, CtlInv, Answered, Point, m0, Match

LEMMA EnvFrame ==
  ASSUME EnvInv, UNCHANGED <<env, hist>>
  PROVE  EnvInv'
BY DEF env, EnvInv

\* With an edit every set of past data grows.
LEMMA PastGrows ==
  ASSUME EnvInv, edits' = edits + 1
  PROVE  Past \subseteq Past' /\ PastEntry \subseteq PastEntry'
         /\ (-3..edits) \subseteq (-3..edits')
BY BoundsAssumption DEF EnvInv, Past, PastEntry

(***************************************************************************)
(* Every action preserves the invariant.                                   *)
(***************************************************************************)

LEMMA InitInv == Init => IInv
<1> SUFFICES ASSUME Init PROVE IInv
  OBVIOUS
<1>1. EnvInv
  BY BoundsAssumption DEF Init, EnvInv
<1>2. DataInv
  BY BoundsAssumption DEF Init, DataInv, NoFile
<1>3. QueueInv
  BY DEF Init, QueueInv
<1>4. CtlInv
  <2>1. 1 \in DOMAIN Order
    BY TiersAssumption, EmptySeq, LenProperties
  <2>2. DOMAIN moves = {} /\ moves \in [DOMAIN moves -> Move]
    BY DEF Init
  <2>3. call \in [tier : Tiers, k : Nat \ {0}, ret : Returns]
    BY DEF Init, NoCall, Tiers, Returns
  <2>4. pc = "app" /\ row = 1 /\ col = 1 /\ looking = FALSE
    BY DEF Init
  <2>5. pc \in Labels /\ row \in DOMAIN Order /\ col \in Nat \ {0}
    BY <2>1, <2>4 DEF Labels
  <2>6. looking \in BOOLEAN
    BY <2>4, Zenon
  <2>7. Point \notin {"shift", "take", "missed", "shifted", "threw", "next"}
    BY <2>4 DEF Point
  <2>8. DOMAIN moves \subseteq Nat
    BY <2>2
  <2> QED
    BY <2>2, <2>3, <2>5, <2>6, <2>7, <2>8 DEF CtlInv
<1>5. Answered
  BY DEF Init, Answered, Point
<1>6. DiskIndexSound /\ MemIndexLags
  <2>1. \A t \in Tiers : storage[t] = <<>>
    BY DEF Init
  <2> QED
    BY <2>1 DEF Init, DiskIndexSound, MemIndexLags, Tiers
<1> QED
  BY <1>1, <1>2, <1>3, <1>4, <1>5, <1>6 DEF IInv

\* What holds of memory and its index when an object o is put at the end of
\* id_vector and the index is regenerated.
LEMMA AppendObject ==
  ASSUME DataInv, EnvInv, DiskIndexSound, NEW o \in Past,
         id_vector' = Append(id_vector, o),
         storage' = [storage EXCEPT ![Mem] = Index(id_vector')],
         UNCHANGED <<files, edits>>
  PROVE  (DataInv /\ DiskIndexSound /\ MemIndexLags)'
<1>1. id_vector' \in Seq(Past)
  BY AppendType DEF DataInv
<1>2. /\ Index(id_vector') \in Seq(PastEntry)
      /\ DOMAIN Index(id_vector') = DOMAIN id_vector'
      /\ \A j \in DOMAIN id_vector' :
           /\ Index(id_vector')[j].id = id_vector'[j].id
           /\ Index(id_vector')[j].mod = id_vector'[j].mod
           /\ id_vector'[j].mod \in Nat
  BY <1>1, IndexType
<1>3. /\ storage' \in [Tiers -> Seq(PastEntry)]
      /\ storage'[Mem] = Index(id_vector')
      /\ \A d \in Disks : storage'[d] = storage[d]
  BY <1>2, TiersAssumption DEF DataInv, Tiers
<1>4. DataInv'
  BY <1>1, <1>3 DEF DataInv, Past, PastEntry
<1>5. DiskIndexSound'
  BY <1>3 DEF DiskIndexSound
<1>6. MemIndexLags'
  BY <1>2, <1>3 DEF MemIndexLags
<1> QED
  BY <1>4, <1>5, <1>6

LEMMA CreateInv ==
  ASSUME IInv, NEW x \in Ids, Create(x)
  PROVE  IInv'
<1> USE DEF IInv
<1>1. [id |-> x, mod |-> 0, val |-> 0] \in Past
  BY BoundsAssumption DEF Past, EnvInv
<1>2. (DataInv /\ DiskIndexSound /\ MemIndexLags)'
  BY <1>1, AppendObject DEF Create
<1>3. QueueInv'
  BY QueueFrame DEF Create
<1>4. EnvInv'
  BY DEF Create, AppStep, EnvInv
<1>5. CtlInv' /\ Answered'
  BY CtlFrame DEF Create, queue
<1> QED
  BY <1>2, <1>3, <1>4, <1>5

LEMMA EditInv ==
  ASSUME IInv, NEW x \in Ids, Edit(x)
  PROVE  IInv'
<1> USE DEF IInv
<1> DEFINE i == Min(Match(id_vector, x))
           o == [id |-> x, mod |-> View(x) + 1, val |-> edits + 1]
<1>1. /\ edits \in Nat /\ edits' = edits + 1 /\ edits' \in 0..MaxEdits
      /\ EnvInv'
  <2>1. edits \in Nat /\ edits' = edits + 1 /\ edits' \in 0..MaxEdits
    BY BoundsAssumption DEF Edit, EnvInv
  <2>2. hist' \in [stale : SUBSET Ids, goal : SUBSET Entry,
                   loop : {"none", "running", "failed", "complete"}]
    BY DEF Edit, AppStep, EnvInv
  <2> QED
    BY <2>1, <2>2 DEF Edit, EnvInv
<1>2. /\ Past \subseteq Past' /\ PastEntry \subseteq PastEntry'
      /\ (-3..edits) \subseteq (-3..edits')
  BY <1>1, PastGrows
<1>3. /\ i \in DOMAIN id_vector
      /\ View(x) = id_vector[i].mod /\ id_vector[i].id = x
      /\ id_vector[i] \in Past
  BY FirstIn DEF Edit, View, Version, DataInv
<1>4. View(x) \in 0..edits /\ o \in Past'
  BY <1>1, <1>3 DEF Past
<1>5. id_vector' = [id_vector EXCEPT ![i] = o]
  BY DEF Edit
<1>6. DOMAIN id_vector = 1 .. Len(id_vector) /\ id_vector \in Seq(Past')
  BY <1>2, SeqMonotonic, LenProperties DEF DataInv
<1> HIDE DEF i, o
<1>7. /\ id_vector' \in Seq(Past')
      /\ DOMAIN id_vector' = DOMAIN id_vector
      /\ \A j \in DOMAIN id_vector :
           id_vector'[j] = IF j = i THEN o ELSE id_vector[j]
  BY <1>3, <1>4, <1>5, <1>6, ExceptSeq
<1>8. DataInv'
  <2>1. storage' \in [Tiers -> Seq(PastEntry')]
    <3>1. \A t \in Tiers : storage[t] \in Seq(PastEntry')
      BY <1>2, SeqMonotonic DEF DataInv
    <3> QED
      BY <3>1 DEF DataInv, Edit
  <2>2. files' \in [Ids -> [Mods -> -3..edits']]
    BY <1>2 DEF DataInv, Edit
  <2>3. \A y \in Ids : \A m \in Mods : files'[y][m] # NoFile => m <= edits'
    BY <1>1, BoundsAssumption DEF DataInv, Edit, Mods
  <2> QED
    BY <1>7, <2>1, <2>2, <2>3 DEF DataInv
<1>9. DiskIndexSound'
  BY DEF Edit, DiskIndexSound
<1>10. MemIndexLags'
  <2>1. storage'[Mem] = storage[Mem]
    BY DEF Edit
  <2>2. o.id = x /\ o.mod = id_vector[i].mod + 1 /\ id_vector[i].mod \in Nat
    BY <1>3, <1>1 DEF o, Past
  <2>3. storage[Mem][i].mod \in Nat
    <3>1. storage[Mem] \in Seq(PastEntry)
      BY DEF DataInv, Tiers
    <3>2. storage[Mem][i] \in PastEntry
      BY <3>1, <1>3, LenProperties, ElementOfSeq DEF MemIndexLags
    <3> QED
      BY <3>2, <1>1 DEF PastEntry
  <2> QED
    BY <1>3, <1>7, <2>1, <2>2, <2>3 DEF MemIndexLags
<1>11. QueueInv'
  <2>1. \A t \in Tiers : inbound[t] \in Seq(Past') /\ outbound[t] \in Seq(Past')
    BY <1>2, SeqMonotonic DEF QueueInv
  <2> QED
    BY <2>1 DEF QueueInv, Edit, queue
<1>12. CtlInv' /\ Answered'
  BY CtlFrame DEF Edit, queue
<1> QED
  BY <1>1, <1>8, <1>9, <1>10, <1>11, <1>12

LEMMA ChurnInv ==
  ASSUME IInv, Churn
  PROVE  IInv'
<1> USE DEF IInv
<1>1. /\ Index(id_vector) \in Seq(PastEntry)
      /\ DOMAIN Index(id_vector) = DOMAIN id_vector
      /\ \A j \in DOMAIN id_vector :
           /\ Index(id_vector)[j].id = id_vector[j].id
           /\ Index(id_vector)[j].mod = id_vector[j].mod
           /\ id_vector[j].mod \in Nat
  BY IndexType DEF DataInv
<1>2. /\ storage' \in [Tiers -> Seq(PastEntry)]
      /\ storage'[Mem] = Index(id_vector)
      /\ \A d \in Disks : storage'[d] = storage[d]
  BY <1>1, TiersAssumption DEF Churn, DataInv, Tiers
<1>3. DataInv'
  BY <1>2 DEF Churn, DataInv, Past, PastEntry, env
<1>4. DiskIndexSound' /\ MemIndexLags'
  BY <1>1, <1>2 DEF Churn, DiskIndexSound, MemIndexLags
<1>5. QueueInv'
  BY QueueFrame DEF Churn, env
<1>6. EnvInv'
  BY DEF Churn, AppStep, EnvInv, env
<1>7. CtlInv' /\ Answered'
  BY CtlFrame DEF Churn, queue
<1> QED
  BY <1>3, <1>4, <1>5, <1>6, <1>7

LEMMA LookupInv ==
  ASSUME IInv, NEW x \in Ids, Lookup(x)
  PROVE  IInv'
<1> USE DEF IInv
<1>1. (DataInv /\ DiskIndexSound /\ MemIndexLags)' /\ QueueInv'
  BY DataFrame, QueueFrame DEF Lookup, env
<1>2. EnvInv'
  BY DEF Lookup, AppStep, EnvInv, env
<1>3. CtlInv' /\ Answered'
  <2>1. DOMAIN Asked = 1 .. Len(Asked) /\ \A j \in DOMAIN Asked : Asked[j] \in Disks
    BY TiersAssumption, LenProperties, ElementOfSeq
  <2>2. 1 \in DOMAIN Asked
    BY TiersAssumption, EmptySeq, LenProperties
  <2>3. /\ DOMAIN moves' \subseteq Nat /\ moves' \in [DOMAIN moves' -> Move]
        /\ DOMAIN moves' # {}
    BY <2>1, <2>2 DEF Lookup, Move, Tiers
  <2> QED
    BY <2>3 DEF Lookup, CtlInv, Answered, Point, Labels, AppStep
<1> QED
  BY <1>1, <1>2, <1>3

\* The outbound entry that medium.loop is at.
LEMMA CurrentType ==
  ASSUME IInv, AtEntry
  PROVE  /\ call.tier \in Tiers /\ call.k \in DOMAIN outbound[call.tier]
         /\ Current \in Past /\ Current.val \notin {NoFile, Empty, Torn}
<1>1. call.tier \in Tiers /\ outbound[call.tier] \in Seq(Past)
  BY DEF IInv, CtlInv, QueueInv
<1>2. call.k \in DOMAIN outbound[call.tier]
  BY <1>1, LenProperties DEF IInv, CtlInv, AtEntry
<1>3. Current \in Past
  BY <1>1, <1>2, LenProperties, ElementOfSeq DEF Current
<1> QED
  BY <1>1, <1>2, <1>3 DEF Current, IInv, QueueInv

\* Whether the entry is removed or kept, the loop goes on.
LEMMA EntryDone ==
  ASSUME IInv, AtEntry, Stored \/ Kept,
         UNCHANGED <<inbound, edits, pc, row, col, moves, looking>>
  PROVE  QueueInv' /\ CtlInv' /\ Answered'
<1> USE DEF IInv
<1>1. /\ call.tier \in Tiers /\ call.k \in DOMAIN outbound[call.tier]
      /\ outbound[call.tier] \in Seq(Past)
  BY CurrentType DEF QueueInv
<1>2. /\ call' \in [tier : Tiers, k : Nat \ {0}, ret : Returns]
      /\ call'.ret = call.ret
  BY DEF Stored, Kept, CtlInv
<1>3. CtlInv' /\ Answered'
  BY <1>2 DEF CtlInv, Answered, Point, m0, Match
<1>4. QueueInv'
  <2>1. CASE Kept
    BY <2>1 DEF Kept, QueueInv, Past
  <2>2. CASE Stored
    <3> DEFINE q == outbound[call.tier]
               r == RemoveAt(q, call.k)
    <3>1. /\ r \in Seq(Past)
          /\ \A j \in DOMAIN r : \E i \in DOMAIN q : r[j] = q[i]
      BY <1>1, RemoveAtType
    <3>2. \A j \in DOMAIN r : r[j].val \notin {NoFile, Empty, Torn}
      BY <1>1, <3>1 DEF QueueInv
    <3>3. outbound' = [outbound EXCEPT ![call.tier] = r]
      BY <2>2 DEF Stored
    <3> HIDE DEF r
    <3> QED
      BY <1>1, <3>1, <3>2, <3>3 DEF QueueInv, Past
  <2> QED
    BY <2>1, <2>2
<1> QED
  BY <1>3, <1>4

LEMMA FlushMemInv ==
  ASSUME IInv, FlushMem
  PROVE  IInv'
<1> USE DEF IInv
<1>1. QueueInv' /\ CtlInv' /\ Answered'
  BY EntryDone DEF FlushMem, env
<1>2. Current \in Past
  BY CurrentType DEF FlushMem
<1>3. (DataInv /\ DiskIndexSound /\ MemIndexLags)'
  <2>1. CASE Current.id \in Loadable
    BY <1>2, <2>1, AppendObject DEF FlushMem, env
  <2>2. CASE Current.id \notin Loadable
    BY <2>2, DataFrame DEF FlushMem, env, data
  <2> QED
    BY <2>1, <2>2
<1>4. EnvInv'
  <2>1. Current.id \in Ids
    BY <1>2 DEF Past
  <2>2. hist' \in [stale : SUBSET Ids, goal : SUBSET Entry,
                   loop : {"none", "running", "failed", "complete"}]
    BY <2>1 DEF FlushMem, EnvInv
  <2> QED
    BY <2>2 DEF FlushMem, EnvInv, env
<1> QED
  BY <1>1, <1>3, <1>4

LEMMA FlushFailsInv ==
  ASSUME IInv, FlushFails
  PROVE  IInv'
<1> USE DEF IInv
<1>1. QueueInv' /\ CtlInv' /\ Answered'
  BY EntryDone DEF FlushFails
<1>2. (DataInv /\ DiskIndexSound /\ MemIndexLags)'
  BY DataFrame DEF FlushFails
<1>3. EnvInv'
  <2>1. hist' \in [stale : SUBSET Ids, goal : SUBSET Entry,
                   loop : {"none", "running", "failed", "complete"}]
    BY DEF FlushFails, EnvInv
  <2>2. faults' \in 0..MaxFaults
    BY BoundsAssumption DEF FlushFails, EnvInv
  <2> QED
    BY <2>1, <2>2 DEF FlushFails, EnvInv
<1> QED
  BY <1>1, <1>2, <1>3

\* A file is written under the id and version of a datum, and listed.
LEMMA FlushDiskInv ==
  ASSUME IInv, NEW content \in -3..MaxEdits, FlushDisk(content)
  PROVE  IInv'
<1> USE DEF IInv
<1>1. QueueInv' /\ CtlInv' /\ Answered'
  BY EntryDone DEF FlushDisk
<1> DEFINE x == Current.id
           m == Current.mod
           e == [id |-> x, mod |-> m]
           d == call.tier
<1>2. /\ d \in Disks /\ x \in Ids /\ m \in Mods /\ m <= edits
      /\ e \in PastEntry /\ edits \in Nat
      /\ Current.val \in -3..edits /\ Current.val # NoFile
  <2>1. d \in Disks /\ Current \in Past /\ Current.val # NoFile
    BY CurrentType DEF FlushDisk, Tiers
  <2> QED
    BY <2>1, DatumFields DEF EnvInv
<1>3. content \in -3..edits /\ content # NoFile
  BY <1>2 DEF FlushDisk, NoFile, Empty, Torn
<1>4. /\ files' = [files EXCEPT ![x][m] = content]
      /\ storage' = [storage EXCEPT ![d] = Append(storage[d], e)]
      /\ UNCHANGED <<id_vector, edits>>
  BY DEF FlushDisk
<1>5. EnvInv'
  <2>1. hist' \in [stale : SUBSET Ids, goal : SUBSET Entry,
                   loop : {"none", "running", "failed", "complete"}]
    BY DEF FlushDisk, EnvInv
  <2>2. faults' \in 0..MaxFaults
    BY BoundsAssumption DEF FlushDisk, EnvInv
  <2> QED
    BY <2>1, <2>2 DEF FlushDisk, EnvInv
<1> HIDE DEF x, m, e, d
<1>6. /\ files' \in [Ids -> [Mods -> -3..edits]]
      /\ \A y \in Ids : \A n \in Mods :
           files'[y][n] = IF y = x /\ n = m THEN content ELSE files[y][n]
  BY <1>2, <1>3, <1>4 DEF DataInv
<1>7. /\ storage[d] \in Seq(PastEntry)
      /\ Append(storage[d], e) \in Seq(PastEntry)
      /\ DOMAIN Append(storage[d], e) = 1 .. Len(storage[d]) + 1
      /\ DOMAIN storage[d] = 1 .. Len(storage[d])
      /\ \A j \in DOMAIN storage[d] : Append(storage[d], e)[j] = storage[d][j]
      /\ Append(storage[d], e)[Len(storage[d]) + 1] = e
  BY <1>2, AppendType, LenProperties DEF DataInv, Tiers
<1>8. storage' \in [Tiers -> Seq(PastEntry)]
  BY <1>4, <1>7 DEF DataInv
<1>9. DataInv'
  BY <1>2, <1>4, <1>6, <1>8 DEF DataInv, Past, PastEntry
<1>10. DiskIndexSound'
  <2> SUFFICES ASSUME NEW c \in Disks, NEW j \in DOMAIN storage'[c]
               PROVE  files'[storage'[c][j].id][storage'[c][j].mod] # NoFile
    BY DEF DiskIndexSound
  <2>1. storage'[c] \in Seq(PastEntry) /\ storage'[c][j] \in PastEntry
    BY <1>8, LenProperties, ElementOfSeq DEF Tiers
  <2>2. storage'[c][j].id \in Ids /\ storage'[c][j].mod \in Mods
    BY <2>1, BoundsAssumption DEF PastEntry, Mods, EnvInv
  <2>3. \/ storage'[c][j] = e
        \/ j \in DOMAIN storage[c] /\ storage'[c][j] = storage[c][j]
    <3>1. CASE c # d
      BY <1>4, <3>1 DEF DataInv, Tiers
    <3>2. CASE c = d
      <4>1. storage'[c] = Append(storage[d], e)
        BY <1>2, <1>4, <3>2 DEF DataInv, Tiers
      <4>2. j \in DOMAIN storage[d] \/ j = Len(storage[d]) + 1
        BY <1>7, <4>1, LenProperties
      <4> QED
        BY <1>7, <3>2, <4>1, <4>2
    <3> QED
      BY <3>1, <3>2
  <2>4. CASE storage'[c][j] = e
    BY <1>2, <1>3, <1>6, <2>4 DEF e
  <2>5. CASE j \in DOMAIN storage[c] /\ storage'[c][j] = storage[c][j]
    BY <1>3, <1>6, <2>2, <2>5 DEF DiskIndexSound
  <2> QED
    BY <2>3, <2>4, <2>5
<1>11. MemIndexLags'
  <2>1. storage'[Mem] = storage[Mem]
    BY <1>2, <1>4, TiersAssumption DEF DataInv, Tiers
  <2> QED
    BY <1>4, <2>1 DEF MemIndexLags
<1> QED
  BY <1>1, <1>5, <1>9, <1>10, <1>11

LEMMA FlushEndInv ==
  ASSUME IInv, FlushEnd
  PROVE  IInv'
<1> USE DEF IInv
<1>1. (DataInv /\ DiskIndexSound /\ MemIndexLags)' /\ QueueInv' /\ EnvInv'
  BY DataFrame, QueueFrame, EnvFrame DEF FlushEnd, env
<1>2. Point' = Point /\ pc' \in Labels
  BY DEF FlushEnd, NoCall, Point, CtlInv, Returns, Labels
<1>3. CtlInv'
  <2>1. call' \in [tier : Tiers, k : Nat \ {0}, ret : Returns]
    BY DEF FlushEnd, NoCall, Returns, Tiers
  <2> QED
    BY <1>2, <2>1 DEF FlushEnd, CtlInv
<1>4. Answered'
  BY <1>2 DEF FlushEnd, Answered, m0, Match, queue
<1> QED
  BY <1>1, <1>3, <1>4

LEMMA ShiftFetchInv ==
  ASSUME IInv, ShiftFetch
  PROVE  IInv'
<1> USE DEF IInv
<1>1. (DataInv /\ DiskIndexSound /\ MemIndexLags)' /\ EnvInv'
  BY DataFrame, EnvFrame DEF ShiftFetch, env
<1>2. /\ DOMAIN moves # {} /\ m0.from \in Tiers /\ m0.id \in Ids
  <2>1. DOMAIN moves # {}
    BY DEF ShiftFetch, CtlInv, Point
  <2> QED
    BY <2>1, FirstMove
<1> DEFINE q == Append(inbound[m0.from], Blank(m0.id))
<1>3. CASE Eligible(m0) /\ Match(inbound[m0.from], m0.id) = {}
  <2>1. q \in Seq(Past) /\ Match(q, m0.id) # {}
    <3>1. inbound[m0.from] \in Seq(Past) /\ Blank(m0.id) \in Past /\ Blank(m0.id).id = m0.id
      BY <1>2, BlankType DEF QueueInv
    <3>2. /\ q \in Seq(Past) /\ q[Len(inbound[m0.from]) + 1] = Blank(m0.id)
          /\ DOMAIN q = 1 .. Len(inbound[m0.from]) + 1
      BY <3>1, AppendType
    <3>3. Len(inbound[m0.from]) + 1 \in DOMAIN q
      BY <3>1, <3>2, LenProperties
    <3> QED
      BY <3>1, <3>2, <3>3 DEF Match
  <2>2. CallLoop(m0.from, q, "missed", "take")
    BY <1>3 DEF ShiftFetch
  <2> HIDE DEF q
  <2>3. /\ inbound' \in [Tiers -> Seq(Past)]
        /\ Match(inbound'[m0.from], m0.id) = Match(q, m0.id)
        /\ call' \in [tier : Tiers, k : Nat \ {0}, ret : Returns]
        /\ \/ pc' = "missed" /\ call' = call
           \/ pc' = "flush" /\ call'.ret = "take"
    BY <1>2, <2>1, <2>2, CallLoopType DEF Returns
  <2>4. QueueInv'
    BY <2>3 DEF QueueInv, ShiftFetch, Past, env
  <2>5. CtlInv'
    BY <1>2, <2>3 DEF CtlInv, ShiftFetch, Point, Labels
  <2>6. Answered'
    BY <2>1, <2>3 DEF Answered, ShiftFetch, m0
  <2> QED
    BY <1>1, <2>4, <2>5, <2>6
<1>4. CASE ~(Eligible(m0) /\ Match(inbound[m0.from], m0.id) = {})
  <2>1. QueueInv'
    BY <1>4, QueueFrame DEF ShiftFetch, queue, env
  <2>2. CtlInv'
    BY <1>2, <1>4 DEF ShiftFetch, CtlInv, Point, Labels
  <2>3. Answered'
    BY <1>4 DEF ShiftFetch, Answered, Point, m0
  <2> QED
    BY <1>1, <2>1, <2>2, <2>3
<1> QED
  BY <1>3, <1>4

LEMMA ShiftTakeInv ==
  ASSUME IInv, ShiftTake
  PROVE  IInv'
<1> USE DEF IInv
<1>1. (DataInv /\ DiskIndexSound /\ MemIndexLags)' /\ EnvInv'
  BY DataFrame, EnvFrame DEF ShiftTake, env
<1>2. /\ DOMAIN moves # {} /\ m0.from \in Tiers /\ m0.to \in Tiers /\ m0.id \in Ids
  <2>1. DOMAIN moves # {}
    BY DEF ShiftTake, CtlInv, Point
  <2> QED
    BY <2>1, FirstMove
<1> DEFINE q == inbound[m0.from]
           j == Min(Match(q, m0.id))
           r == RemoveAt(q, j)
<1>3. q \in Seq(Past) /\ j \in DOMAIN q /\ q[j] \in Past
  <2>1. q \in Seq(Past) /\ Match(q, m0.id) # {}
    BY <1>2 DEF ShiftTake, Answered, Point, QueueInv
  <2>2. j \in DOMAIN q /\ First(q, m0.id) \in Past /\ First(q, m0.id) = q[j]
    BY <2>1, FirstIn
  <2> QED
    BY <2>1, <2>2
<1>4. r \in Seq(Past)
  BY <1>3, RemoveAtType
<1>5. edits' = edits /\ UNCHANGED <<row, col, moves, looking>>
  BY DEF ShiftTake, env
<1> HIDE DEF r, j
<1>6. CASE ~Filled(q[j])
  <2>1. pc' = "missed" /\ UNCHANGED <<queue, call>>
    BY <1>6 DEF ShiftTake, j
  <2>2. QueueInv'
    BY <1>5, <2>1, QueueFrame
  <2>3. CtlInv' /\ Answered'
    BY <1>2, <1>5, <2>1 DEF CtlInv, Answered, Point, Labels
  <2> QED
    BY <1>1, <2>2, <2>3
<1>7. CASE Filled(q[j]) /\ q[j].val = Torn
  <2>1. /\ inbound' = [inbound EXCEPT ![m0.from] = r]
        /\ pc' = "threw" /\ UNCHANGED <<outbound, call>>
    BY <1>7 DEF ShiftTake, j, r
  <2>2. QueueInv'
    BY <1>2, <1>4, <1>5, <2>1 DEF QueueInv, Past
  <2>3. CtlInv' /\ Answered'
    BY <1>2, <1>5, <2>1 DEF CtlInv, Answered, Point, Labels
  <2> QED
    BY <1>1, <2>2, <2>3
<1>8. CASE Filled(q[j]) /\ q[j].val # Torn
  <2>1. /\ outbound' = [outbound EXCEPT ![m0.to] = Append(outbound[m0.to], q[j])]
        /\ inbound' = [inbound EXCEPT ![m0.from] = r,
                                      ![m0.to] = Fill(m0.to, inbound[m0.to])]
        /\ \/ pc' = "shifted" /\ call' = call
           \/ pc' = "flush" /\ call' = [tier |-> m0.to, k |-> 1, ret |-> "shifted"]
    BY <1>8 DEF ShiftTake, j, r
  <2>2. inbound[m0.to] \in Seq(Past)
    BY <1>2 DEF QueueInv
  <2>3. inbound' \in [Tiers -> Seq(Past)]
    <3>1. Fill(m0.to, inbound[m0.to]) \in Seq(Past)
      BY <1>2, <2>2, FillType
    <3> QED
      BY <1>2, <1>4, <2>1, <3>1 DEF QueueInv
  <2>4. q[j].val \notin {NoFile, Empty, Torn}
    BY <1>8 DEF Filled
  <2>5. QueueInv'
    <3> DEFINE o == Append(outbound[m0.to], q[j])
    <3>1. outbound[m0.to] \in Seq(Past) /\ DOMAIN outbound[m0.to] = 1 .. Len(outbound[m0.to])
      BY <1>2, LenProperties DEF QueueInv
    <3>2. /\ o \in Seq(Past) /\ DOMAIN o = 1 .. Len(outbound[m0.to]) + 1
          /\ o[Len(outbound[m0.to]) + 1] = q[j]
          /\ \A i \in DOMAIN outbound[m0.to] : o[i] = outbound[m0.to][i]
          /\ Len(outbound[m0.to]) \in Nat
      BY <1>3, <3>1, AppendType, LenProperties
    <3> HIDE DEF o
    <3>3. ASSUME NEW i \in DOMAIN o
          PROVE  o[i].val \notin {NoFile, Empty, Torn}
      <4>1. CASE i = Len(outbound[m0.to]) + 1
        BY <2>4, <3>2, <4>1
      <4>2. CASE i # Len(outbound[m0.to]) + 1
        <5>1. i \in DOMAIN outbound[m0.to] /\ o[i] = outbound[m0.to][i]
          BY <3>1, <3>2, <4>2
        <5> QED
          BY <1>2, <5>1 DEF QueueInv
      <4> QED
        BY <4>1, <4>2
    <3>4. outbound' = [outbound EXCEPT ![m0.to] = o]
      BY <2>1 DEF o
    <3> QED
      BY <1>2, <1>5, <2>3, <3>2, <3>3, <3>4 DEF QueueInv, Past
  <2>6. call' \in [tier : Tiers, k : Nat \ {0}, ret : Returns]
    BY <1>2, <2>1 DEF CtlInv, Returns
  <2>7. pc' \in {"shifted", "flush"} /\ Point' = "shifted"
    BY <2>1 DEF Point
  <2>8. CtlInv' /\ Answered'
    BY <1>2, <1>5, <2>6, <2>7 DEF CtlInv, Answered, Labels
  <2> QED
    BY <1>1, <2>5, <2>8
<1> QED
  BY <1>6, <1>7, <1>8

LEMMA ShiftEndInv ==
  ASSUME IInv, ShiftEnd
  PROVE  IInv'
<1> USE DEF IInv
<1>1. (DataInv /\ DiskIndexSound /\ MemIndexLags)' /\ EnvInv'
  BY DataFrame, EnvFrame DEF ShiftEnd, env
<1>2. /\ DOMAIN moves # {} /\ m0.from \in Tiers /\ m0 \in Move
  <2>1. DOMAIN moves # {}
    BY DEF ShiftEnd, CtlInv, Point
  <2> QED
    BY <2>1, FirstMove
<1>3. /\ DOMAIN moves' \subseteq Nat /\ moves' \in [DOMAIN moves' -> Move]
      /\ DOMAIN moves' # {}
  <2>1. DOMAIN <<m0>> = {1} /\ <<m0>> \in [{1} -> Move]
    BY <1>2
  <2> QED
    BY <1>2, <2>1 DEF ShiftEnd, CtlInv
<1>4. /\ inbound' \in [Tiers -> Seq(Past)]
      /\ call' \in [tier : Tiers, k : Nat \ {0}, ret : Returns]
      /\ \/ pc' = "next"
         \/ pc' = "flush" /\ call'.ret = "next"
  <2>1. CASE looking /\ pc # "threw"
    <3>1. CallLoop(m0.from, inbound[m0.from], "next", "next")
      BY <2>1 DEF ShiftEnd
    <3>2. inbound[m0.from] \in Seq(Past) /\ "next" \in Returns
      BY <1>2 DEF QueueInv, Returns
    <3> QED
      BY <1>2, <3>1, <3>2, CallLoopType
  <2>2. CASE ~(looking /\ pc # "threw")
    BY <2>2 DEF ShiftEnd, QueueInv, CtlInv
  <2> QED
    BY <2>1, <2>2
<1>5. QueueInv'
  BY <1>4 DEF ShiftEnd, QueueInv, Past, env
<1>6. Point' = "next" /\ pc' \in Labels
  BY <1>4 DEF Point, Labels
<1>7. CtlInv' /\ Answered'
  BY <1>3, <1>4, <1>6 DEF ShiftEnd, CtlInv, Answered
<1> QED
  BY <1>1, <1>5, <1>7

LEMMA NextMoveInv ==
  ASSUME IInv, NextMove
  PROVE  IInv'
<1> USE DEF IInv
<1>1. (DataInv /\ DiskIndexSound /\ MemIndexLags)' /\ QueueInv' /\ EnvInv'
  BY DataFrame, QueueFrame, EnvFrame DEF NextMove, env
<1>2. DOMAIN moves' \subseteq Nat /\ moves' \in [DOMAIN moves' -> Move]
  <2>1. DOMAIN moves # {}
    BY DEF NextMove, CtlInv, Point
  <2> QED
    BY <2>1, FirstMove DEF NextMove
<1>3. pc' \in {"app", "pair"} \/ (pc' = "shift" /\ DOMAIN moves' # {})
  BY DEF NextMove
<1>4. looking' \in BOOLEAN
  BY Zenon DEF NextMove, CtlInv
<1>5. col' \in Nat \ {0} /\ row' = row /\ call' = call
  BY DEF NextMove, CtlInv
<1>6. CtlInv'
  BY <1>2, <1>3, <1>4, <1>5 DEF CtlInv, Labels, Point
<1>7. Answered'
  BY <1>3 DEF Answered, Point
<1> QED
  BY <1>1, <1>6, <1>7

LEMMA BeginTierLoopInv ==
  ASSUME IInv, BeginTierLoop
  PROVE  IInv'
<1> USE DEF IInv
<1>1. (DataInv /\ DiskIndexSound /\ MemIndexLags)' /\ QueueInv'
  BY DataFrame, QueueFrame DEF BeginTierLoop, env
<1>2. EnvInv'
  <2>1. {e \in ToSet(storage[Mem]) : e.id \in Own} \subseteq Entry
    <3>1. storage[Mem] \in Seq(PastEntry)
      BY DEF DataInv, Tiers
    <3>2. \A e \in ToSet(storage[Mem]) : e \in PastEntry
      BY <3>1, LenProperties, ElementOfSeq DEF ToSet
    <3> QED
      BY <3>2, BoundsAssumption DEF PastEntry, Entry, Mods, EnvInv
  <2>2. hist' \in [stale : SUBSET Ids, goal : SUBSET Entry,
                   loop : {"none", "running", "failed", "complete"}]
    BY <2>1 DEF BeginTierLoop, EnvInv
  <2> QED
    BY <2>2 DEF BeginTierLoop, EnvInv, env
<1>3. CtlInv' /\ Answered'
  <2>1. 1 \in DOMAIN Order
    BY TiersAssumption, EmptySeq, LenProperties
  <2>2. pc' = "pair" /\ row' = 1 /\ col' = 1 /\ UNCHANGED <<moves, call, looking>>
    BY DEF BeginTierLoop
  <2> QED
    BY <2>1, <2>2 DEF CtlInv, Answered, Point, Labels
<1> QED
  BY <1>1, <1>2, <1>3

LEMMA VisitPairInv ==
  ASSUME IInv, VisitPair
  PROVE  IInv'
<1> USE DEF IInv
<1>1. (DataInv /\ DiskIndexSound /\ MemIndexLags)' /\ QueueInv' /\ EnvInv'
  BY DataFrame, QueueFrame, EnvFrame DEF VisitPair, env
<1> DEFINE todo == PairMoves(Order[row], Order[col])
<1>2. DOMAIN todo \subseteq Nat /\ todo \in [DOMAIN todo -> Move]
  <2>1. Order[row] \in Tiers /\ Order[col] \in Tiers
    <3>1. row \in DOMAIN Order /\ col \in DOMAIN Order
      BY TiersAssumption, LenProperties DEF VisitPair, CtlInv
    <3> QED
      BY <3>1, TiersAssumption, LenProperties, ElementOfSeq
  <2> QED
    BY <2>1, PairMovesType
<1>3. /\ \/ DOMAIN todo = {} /\ col' = col + 1 /\ UNCHANGED <<pc, moves>>
         \/ DOMAIN todo # {} /\ pc' = "shift" /\ moves' = todo /\ UNCHANGED col
      /\ pc = "pair" /\ UNCHANGED <<row, call, looking>>
  BY DEF VisitPair
<1> HIDE DEF todo
<1>4. CtlInv' /\ Answered'
  BY <1>2, <1>3 DEF CtlInv, Answered, Point, Labels
<1> QED
  BY <1>1, <1>4

LEMMA TurnInv ==
  ASSUME IInv, Turn
  PROVE  IInv'
<1> USE DEF IInv
<1>1. (DataInv /\ DiskIndexSound /\ MemIndexLags)' /\ EnvInv'
  BY DataFrame, EnvFrame DEF Turn, env
<1>2. Order[row] \in Tiers
  BY TiersAssumption, LenProperties, ElementOfSeq DEF CtlInv
<1>3. /\ inbound' \in [Tiers -> Seq(Past)]
      /\ call' \in [tier : Tiers, k : Nat \ {0}, ret : Returns]
      /\ \/ pc' = "refresh"
         \/ pc' = "flush" /\ call'.ret = "refresh"
  <2>1. CallLoop(Order[row], inbound[Order[row]], "refresh", "refresh")
    BY DEF Turn
  <2>2. inbound[Order[row]] \in Seq(Past) /\ "refresh" \in Returns
    BY <1>2 DEF QueueInv, Returns
  <2> QED
    BY <1>2, <2>1, <2>2, CallLoopType
<1>4. QueueInv'
  BY <1>3 DEF Turn, QueueInv, Past, env
<1>5. Point' = "refresh" /\ pc' \in Labels
  BY <1>3 DEF Point, Labels
<1>6. CtlInv' /\ Answered'
  BY <1>3, <1>5 DEF Turn, CtlInv, Answered
<1> QED
  BY <1>1, <1>4, <1>6

LEMMA RefreshInv ==
  ASSUME IInv, Refresh
  PROVE  IInv'
<1> USE DEF IInv
<1>1. QueueInv'
  BY QueueFrame DEF Refresh, env
<1>2. Order[row] \in Tiers /\ Len(Order) \in Nat /\ DOMAIN Order = 1 .. Len(Order)
  BY TiersAssumption, LenProperties, ElementOfSeq DEF CtlInv
<1>3. EnvInv'
  <2>1. hist' \in [stale : SUBSET Ids, goal : SUBSET Entry,
                   loop : {"none", "running", "failed", "complete"}]
    BY DEF Refresh, EnvInv
  <2> QED
    BY <2>1 DEF Refresh, EnvInv, env
<1>4. CtlInv' /\ Answered'
  <2>1. pc' \in {"pair", "app"} /\ col' = 1 /\ UNCHANGED <<moves, call, looking>>
    BY DEF Refresh
  <2>2. row' \in DOMAIN Order
    BY <1>2, TiersAssumption, EmptySeq DEF Refresh, CtlInv
  <2> QED
    BY <2>1, <2>2 DEF CtlInv, Answered, Point, Labels
<1>5. (DataInv /\ DiskIndexSound /\ MemIndexLags)'
  <2>1. CASE UNCHANGED storage
    BY <2>1, DataFrame DEF Refresh, data, env
  <2>2. CASE /\ Order[row] # Mem
             /\ \E l \in Listings(files) : storage' = [storage EXCEPT ![Order[row]] = l]
    <3>1. PICK l \in Listings(files) : storage' = [storage EXCEPT ![Order[row]] = l]
      BY <2>2
    <3>2. /\ l \in Seq(PastEntry)
          /\ \A j \in DOMAIN l : files[l[j].id][l[j].mod] # NoFile
      <4>1. files \in [Ids -> [Mods -> Int]]
        BY BoundsAssumption DEF DataInv, EnvInv
      <4> QED
        BY <4>1, ListingsType DEF DataInv
    <3>3. /\ storage' \in [Tiers -> Seq(PastEntry)]
          /\ storage'[Mem] = storage[Mem]
          /\ \A d \in Disks : storage'[d] \in {l, storage[d]}
      BY <1>2, <2>2, <3>1, <3>2, TiersAssumption DEF DataInv, Tiers
    <3>4. DataInv'
      BY <3>3 DEF Refresh, DataInv, Past, PastEntry, env
    <3>5. DiskIndexSound' /\ MemIndexLags'
      BY <3>2, <3>3 DEF Refresh, DiskIndexSound, MemIndexLags
    <3> QED
      BY <3>4, <3>5
  <2> QED
    BY <2>1, <2>2 DEF Refresh
<1> QED
  BY <1>1, <1>3, <1>4, <1>5

\* The restart reads every disk index from the folder the crash has left.
LEMMA CrashInv ==
  ASSUME IInv, Crash
  PROVE  IInv'
<1> USE DEF IInv
<1>1. edits' = edits /\ edits \in 0..MaxEdits /\ edits \in Nat
  BY BoundsAssumption DEF Crash, EnvInv
<1>2. EnvInv'
  <2>1. hist' \in [stale : SUBSET Ids, goal : SUBSET Entry,
                   loop : {"none", "running", "failed", "complete"}]
    BY DEF Crash, EnvInv
  <2>2. faults' \in 0..MaxFaults
    BY BoundsAssumption DEF Crash, EnvInv
  <2> QED
    BY <1>1, <2>1, <2>2 DEF Crash, EnvInv
<1>3. QueueInv'
  <2>1. <<>> \in Seq(Past') /\ DOMAIN <<>> = {}
    BY EmptySeq
  <2>2. /\ inbound' = [t \in Tiers |-> <<>>]
        /\ outbound' = [t \in Tiers |-> <<>>]
    BY DEF Crash
  <2>3. /\ inbound' \in [Tiers -> Seq(Past')]
        /\ outbound' \in [Tiers -> Seq(Past')]
        /\ \A t \in Tiers : \A j \in DOMAIN outbound'[t] : FALSE
    BY <2>1, <2>2
  <2> QED
    BY <2>3 DEF QueueInv
<1>4. CtlInv' /\ Answered'
  <2>1. 1 \in DOMAIN Order
    BY TiersAssumption, EmptySeq, LenProperties
  <2>2. DOMAIN moves' = {} /\ moves' \in [DOMAIN moves' -> Move]
    BY DEF Crash
  <2>3. call' \in [tier : Tiers, k : Nat \ {0}, ret : Returns]
    BY DEF Crash, NoCall, Tiers, Returns
  <2>4. pc' = "app" /\ row' = 1 /\ col' = 1 /\ looking' = FALSE
    BY DEF Crash
  <2>5. pc' \in Labels /\ row' \in DOMAIN Order /\ col' \in Nat \ {0}
    BY <2>1, <2>4 DEF Labels
  <2>6. Point' \notin {"shift", "take", "missed", "shifted", "threw", "next"}
    BY <2>4 DEF Point
  <2>7. looking' \in BOOLEAN
    BY <2>4, Zenon
  <2>8. DOMAIN moves' \subseteq Nat
    BY <2>2
  <2> QED
    BY <2>2, <2>3, <2>5, <2>6, <2>7, <2>8 DEF CtlInv, Answered
<1>5. /\ files' \in [Ids -> [Mods -> -3..edits]]
      /\ \A x \in Ids : \A m \in Mods : files'[x][m] # NoFile => m <= edits
  <2>1. CASE UNCHANGED files
    BY <2>1 DEF DataInv
  <2>2. CASE /\ AtEntry /\ call.tier # Mem
             /\ \E content \in {Empty, Torn, Current.val} :
                  files' = [files EXCEPT ![Current.id][Current.mod] = content]
    <3>1. PICK content \in {Empty, Torn, Current.val} :
            files' = [files EXCEPT ![Current.id][Current.mod] = content]
      BY <2>2
    <3>2. Current.id \in Ids /\ Current.mod \in Mods
          /\ Current.mod <= edits /\ Current.val \in -3..edits
      <4>1. Current \in Past
        BY <2>2, CurrentType
      <4>2. /\ Current.id \in Ids /\ Current.mod \in 0..edits
            /\ Current.val \in -3..edits /\ Current.mod \in Mods
        BY <4>1, DatumFields
      <4> QED
        BY <1>1, <4>2
    <3>3. content \in -3..edits
      BY <1>1, <3>2 DEF Empty, Torn
    <3> QED
      BY <3>1, <3>2, <3>3 DEF DataInv
  <2> QED
    BY <2>1, <2>2 DEF Crash
<1>6. PICK l \in [Disks -> Listings(files')] :
        storage' = [t \in Tiers |-> IF t = Mem THEN <<>> ELSE l[t]]
  BY DEF Crash
<1>7. \A d \in Disks :
        /\ l[d] \in Seq(PastEntry)
        /\ \A j \in DOMAIN l[d] : files'[l[d][j].id][l[d][j].mod] # NoFile
  <2>1. files' \in [Ids -> [Mods -> Int]]
    BY <1>1, <1>5
  <2>2. \A d \in Disks : l[d] \in Listings(files')
    BY <1>6
  <2> QED
    BY <1>5, <2>1, <2>2, ListingsType
<1>8. storage'[Mem] = <<>> /\ \A d \in Disks : storage'[d] = l[d]
  BY <1>6, TiersAssumption DEF Tiers
<1>9. DataInv'
  <2>1. <<>> \in Seq(PastEntry) /\ <<>> \in Seq(Past)
    BY EmptySeq
  <2>2. storage' \in [Tiers -> Seq(PastEntry)]
    BY <1>6, <1>7, <2>1 DEF Tiers
  <2>3. id_vector' = <<>>
    BY DEF Crash
  <2>4. Past' = Past /\ PastEntry' = PastEntry
    BY <1>1 DEF Past, PastEntry
  <2> QED
    BY <1>1, <1>5, <2>1, <2>2, <2>3, <2>4 DEF DataInv
<1>10. DiskIndexSound' /\ MemIndexLags'
  <2>1. id_vector' = <<>> /\ DOMAIN <<>> = {}
    BY DEF Crash
  <2>2. DiskIndexSound'
    BY <1>7, <1>8 DEF DiskIndexSound
  <2>3. MemIndexLags'
    BY <1>8, <2>1 DEF MemIndexLags
  <2> QED
    BY <2>2, <2>3
<1> QED
  BY <1>2, <1>3, <1>4, <1>9, <1>10

\* The inductive step, by the action that takes it.
LEMMA NextInv == IInv /\ [Next]_vars => IInv'
<1> SUFFICES ASSUME IInv, [Next]_vars PROVE IInv'
  OBVIOUS
<1>1. CASE App
  BY <1>1, CreateInv, EditInv, LookupInv, ChurnInv DEF App
<1>2. CASE BeginTierLoop
  BY <1>2, BeginTierLoopInv
<1>3. CASE Busy
  BY <1>3, FlushMemInv, FlushFailsInv, FlushEndInv, FlushDiskInv, ShiftFetchInv,
     ShiftTakeInv, ShiftEndInv, NextMoveInv, VisitPairInv, TurnInv, RefreshInv
     DEF Busy, Flush
<1>4. CASE Crash
  BY <1>4, CrashInv
<1>5. CASE UNCHANGED vars
  <2>1. UNCHANGED <<data, queue, ctl, env, hist>>
    BY <1>5 DEF vars
  <2>2. (DataInv /\ DiskIndexSound /\ MemIndexLags)' /\ QueueInv' /\ EnvInv'
    BY <2>1, DataFrame, QueueFrame, EnvFrame DEF IInv, env
  <2>3. CtlInv' /\ Answered'
    BY <2>1, CtlFrame DEF IInv, queue
  <2> QED
    BY <2>2, <2>3 DEF IInv
<1> QED
  BY <1>1, <1>2, <1>3, <1>4, <1>5 DEF Next

THEOREM Invariance == Spec => []IInv
  BY InitInv, NextInv, PTL DEF Spec

(***************************************************************************)
(* The results.                                                            *)
(***************************************************************************)

\* The variables hold data of their kind; in particular the versions stay
\* within the bound on edits.
THEOREM TypeCorrect == Spec => []TypeOK
<1>1. IInv => TypeOK
  <2> SUFFICES ASSUME IInv PROVE TypeOK
    OBVIOUS
  <2> USE DEF IInv
  <2>1. Past \subseteq Datum /\ PastEntry \subseteq Entry
        /\ (-3..edits) \subseteq (-3..MaxEdits)
    BY BoundsAssumption DEF EnvInv, Past, PastEntry, Datum, Entry, Mods
  <2>2. id_vector \in Seq(Datum)
    BY <2>1, SeqMonotonic DEF DataInv
  <2>3. storage \in [Tiers -> Seq(Entry)]
    <3>1. \A t \in Tiers : storage[t] \in Seq(Entry)
      BY <2>1, SeqMonotonic DEF DataInv
    <3> QED
      BY <3>1 DEF DataInv
  <2>4. files \in [Ids -> [Mods -> -3..MaxEdits]]
    BY <2>1 DEF DataInv
  <2>5. inbound \in [Tiers -> Seq(Datum)] /\ outbound \in [Tiers -> Seq(Datum)]
    <3>1. \A t \in Tiers : inbound[t] \in Seq(Datum) /\ outbound[t] \in Seq(Datum)
      BY <2>1, SeqMonotonic DEF QueueInv
    <3> QED
      BY <3>1 DEF QueueInv
  <2>6. call \in [tier : Tiers, k : Nat \ {0}, ret : Labels]
    BY DEF CtlInv, Returns, Labels
  <2> QED
    BY <2>2, <2>3, <2>4, <2>5, <2>6 DEF TypeOK, CtlInv, EnvInv
<1> QED
  BY <1>1, Invariance, PTL

\* No disk index names a file that is not in the folder, for any number of
\* disk states that share it and through every crash.
THEOREM DiskIndexIsSound == Spec => []DiskIndexSound
<1>1. IInv => DiskIndexSound
  BY DEF IInv
<1> QED
  BY <1>1, Invariance, PTL

\* The memory index lists the objects one for one and is never ahead of them.
THEOREM MemIndexOnlyLags == Spec => []MemIndexLags
<1>1. IInv => MemIndexLags
  BY DEF IInv
<1> QED
  BY <1>1, Invariance, PTL

\* What is known to be the least element is what Min returns.
LEMMA MinUnique ==
  ASSUME NEW S, S \subseteq Nat, NEW m \in S, \A n \in S : m <= n
  PROVE  Min(S) = m
<1>1. Min(S) \in S /\ Min(S) <= m
  BY MinIn
<1>2. m <= Min(S) /\ m \in Nat /\ Min(S) \in Nat
  BY <1>1
<1> QED
  BY <1>1, <1>2

\* What a lookup finds stays what it finds when an object is put at the end.
LEMMA FirstAppend ==
  ASSUME EnvInv, NEW s \in Seq(Past), NEW o \in Past, NEW x, Match(s, x) # {}
  PROVE  Match(Append(s, o), x) # {} /\ First(Append(s, o), x) = First(s, x)
<1> DEFINE a == Append(s, o)
           i == Min(Match(s, x))
<1>1. /\ DOMAIN a = 1 .. Len(s) + 1
      /\ DOMAIN s = 1 .. Len(s) /\ Len(s) \in Nat
      /\ \A j \in DOMAIN s : a[j] = s[j]
  BY AppendType, LenProperties
<1> SUFFICES Match(a, x) # {} /\ First(a, x) = First(s, x)
  OBVIOUS
<1> HIDE DEF a
<1>2. Match(s, x) \subseteq Nat /\ Match(a, x) \subseteq Nat
  BY <1>1 DEF Match
<1>3. i \in Match(s, x) /\ \A j \in Match(s, x) : i <= j
  BY <1>2, MinIn
<1> HIDE DEF i
<1>4. i \in Match(a, x)
  BY <1>1, <1>3 DEF Match
<1>5. \A j \in Match(a, x) : i <= j
  <2> SUFFICES ASSUME NEW j \in Match(a, x) PROVE i <= j
    OBVIOUS
  <2>1. CASE j \in DOMAIN s
    BY <1>1, <1>3, <2>1 DEF Match
  <2>2. CASE j \notin DOMAIN s
    BY <1>1, <1>3, <2>2 DEF Match
  <2> QED
    BY <2>1, <2>2
<1>6. Min(Match(a, x)) = i
  BY <1>2, <1>4, <1>5, MinUnique
<1> QED
  BY <1>1, <1>3, <1>4, <1>6 DEF First, i, Match

\* An object put at the end of the sequence never hides one before it.
LEMMA VersionAppend ==
  ASSUME EnvInv, NEW s \in Seq(Past), NEW o \in Past, NEW x
  PROVE  /\ Version(Append(s, o), x) =
              IF Match(s, x) = {} /\ o.id = x THEN o.mod ELSE Version(s, x)
         /\ Version(Append(s, o), x) >= Version(s, x)
<1> DEFINE a == Append(s, o)
<1>1. /\ a \in Seq(Past) /\ DOMAIN a = 1 .. Len(s) + 1
      /\ DOMAIN s = 1 .. Len(s) /\ Len(s) \in Nat
      /\ \A j \in DOMAIN s : a[j] = s[j]
  BY AppendType, LenProperties
<1>2. \A q \in Seq(Past) : Match(q, x) # {} => First(q, x).mod \in Nat
  <2> SUFFICES ASSUME NEW q \in Seq(Past), Match(q, x) # {}
               PROVE  First(q, x).mod \in Nat
    OBVIOUS
  <2>1. First(q, x) \in Past
    BY FirstIn
  <2> QED
    BY <2>1 DEF Past, EnvInv
<1>0. a[Len(s) + 1] = o
  BY AppendType
<1> SUFFICES /\ Version(a, x) =
                  IF Match(s, x) = {} /\ o.id = x THEN o.mod ELSE Version(s, x)
             /\ Version(a, x) >= Version(s, x)
  OBVIOUS
<1> HIDE DEF a
<1>3. CASE Match(s, x) = {}
  <2>1. Version(s, x) = -1
    BY <1>3 DEF Version
  <2>2. Match(a, x) = IF o.id = x THEN {Len(s) + 1} ELSE {}
    BY <1>0, <1>1, <1>3 DEF Match
  <2>3. CASE o.id = x
    <3>1. Min(Match(a, x)) = Len(s) + 1
      BY <1>1, <2>2, <2>3, MinUnique
    <3>2. First(a, x) = o
      BY <1>0, <3>1 DEF First
    <3>3. Version(a, x) = o.mod /\ o.mod \in Nat
      BY <2>2, <2>3, <3>2 DEF Version, Past, EnvInv
    <3> QED
      BY <1>3, <2>1, <2>3, <3>3
  <2>4. CASE o.id # x
    <3>1. Version(a, x) = -1
      BY <2>2, <2>4 DEF Version
    <3> QED
      BY <2>1, <2>4, <3>1
  <2> QED
    BY <2>3, <2>4
<1>4. CASE Match(s, x) # {}
  <2>1. Match(a, x) # {} /\ First(a, x) = First(s, x)
    BY <1>4, FirstAppend DEF a
  <2>2. Version(a, x) = Version(s, x) /\ Version(s, x) \in Nat
    BY <1>2, <1>4, <2>1 DEF Version
  <2> QED
    BY <1>4, <2>2
<1> QED
  BY <1>3, <1>4

\* An edit changes the version of the object it is made to, and of no other.
LEMMA VersionEdit ==
  ASSUME EnvInv, NEW s \in Seq(Past), NEW y, NEW x, Match(s, y) # {},
         NEW val
  PROVE  LET o == [id |-> y, mod |-> Version(s, y) + 1, val |-> val]
             t == [s EXCEPT ![Min(Match(s, y))] = o]
         IN  /\ Version(t, x) = IF x = y THEN Version(s, y) + 1 ELSE Version(s, x)
             /\ Version(t, x) >= Version(s, x)
<1> DEFINE i == Min(Match(s, y))
           o == [id |-> y, mod |-> Version(s, y) + 1, val |-> val]
           t == [s EXCEPT ![i] = o]
<1> SUFFICES /\ Version(t, x) = IF x = y THEN Version(s, y) + 1 ELSE Version(s, x)
             /\ Version(t, x) >= Version(s, x)
  OBVIOUS
<1>2. i \in DOMAIN s /\ s[i] \in Past /\ s[i].id = y /\ Version(s, y) = s[i].mod
  BY FirstIn DEF Version
<1> HIDE DEF i
<1>3. /\ DOMAIN t = DOMAIN s
      /\ \A j \in DOMAIN s : t[j] = IF j = i THEN o ELSE s[j]
  OBVIOUS
<1>4. o.id = y /\ o.mod = s[i].mod + 1 /\ s[i].mod \in Nat
  BY <1>2 DEF Past, EnvInv
<1> HIDE DEF o, t
<1>5. Match(t, x) = Match(s, x)
  BY <1>2, <1>3, <1>4 DEF Match
<1>6. CASE Match(s, x) = {}
  <2>1. Version(t, x) = -1 /\ Version(s, x) = -1
    BY <1>5, <1>6 DEF Version
  <2>2. x # y
    BY <1>6
  <2> QED
    BY <2>1, <2>2
<1>7. CASE Match(s, x) # {}
  <2> DEFINE j == Min(Match(s, x))
  <2>1. j \in DOMAIN s /\ s[j] \in Past /\ s[j].id = x
    BY <1>7, FirstIn
  <2>0. x = y <=> j = i
    BY <1>2, <2>1 DEF i
  <2> HIDE DEF j
  <2>2. s[j].mod \in Nat
    BY <2>1 DEF Past, EnvInv
  <2>3. t[j].mod >= s[j].mod
    <3>1. CASE j = i
      BY <1>2, <1>3, <1>4, <3>1
    <3>2. CASE j # i
      BY <1>3, <2>1, <2>2, <3>2
    <3> QED
      BY <3>1, <3>2
  <2>4. Version(t, x) = t[j].mod /\ Version(s, x) = s[j].mod
    BY <1>5, <1>7 DEF Version, First, j
  <2>5. t[j].mod = IF x = y THEN Version(s, y) + 1 ELSE s[j].mod
    BY <1>2, <1>3, <1>4, <2>0, <2>1
  <2> QED
    BY <2>3, <2>4, <2>5
<1> QED
  BY <1>6, <1>7

\* Only a restart takes a version back.
LEMMA ViewStep ==
  ASSUME IInv, Next, NEW x \in Ids
  PROVE  View(x)' >= View(x) \/ Crash
<1>1. id_vector \in Seq(Past) /\ EnvInv
  BY DEF IInv, DataInv
<1>2. CASE UNCHANGED id_vector
  <2>1. View(x) \in Int
    <3>1. CASE Match(id_vector, x) = {}
      BY <3>1 DEF View, Version
    <3>2. CASE Match(id_vector, x) # {}
      <4>1. First(id_vector, x) \in Past
        BY <1>1, <3>2, FirstIn
      <4> QED
        BY <1>1, <3>2, <4>1 DEF View, Version, Past, EnvInv
    <3> QED
      BY <3>1, <3>2
  <2>2. View(x)' = View(x)
    BY <1>2 DEF View
  <2> QED
    BY <2>1, <2>2
<1>3. ASSUME NEW o \in Past, id_vector' = Append(id_vector, o)
      PROVE  View(x)' >= View(x)
  BY <1>1, <1>3, VersionAppend DEF View
<1>4. ASSUME NEW y \in Ids, Create(y)
      PROVE  View(x)' >= View(x)
  <2>1. [id |-> y, mod |-> 0, val |-> 0] \in Past
    BY <1>1, BoundsAssumption DEF Past, EnvInv
  <2> QED
    BY <1>3, <1>4, <2>1 DEF Create
<1>5. ASSUME NEW y \in Ids, Edit(y)
      PROVE  View(x)' >= View(x)
  <2>1. Match(id_vector, y) # {}
    BY <1>5 DEF Edit, View, Version
  <2> QED
    BY <1>1, <1>5, <2>1, VersionEdit DEF Edit, View
<1>6. CASE FlushMem
  <2>1. Current \in Past
    BY <1>6, CurrentType DEF FlushMem
  <2>2. UNCHANGED id_vector \/ id_vector' = Append(id_vector, Current)
    BY <1>6 DEF FlushMem
  <2> QED
    BY <1>2, <1>3, <2>1, <2>2
<1>7. CASE /\ ~FlushMem /\ ~Crash
           /\ ~ \E y \in Ids : Create(y) \/ Edit(y)
  <2>1. UNCHANGED id_vector
    BY <1>7 DEF Next, App, Busy, Flush, Lookup, Churn, BeginTierLoop,
       FlushFails, FlushEnd, FlushDisk, ShiftFetch, ShiftTake, ShiftEnd,
       NextMove, VisitPair, Turn, Refresh, data
  <2> QED
    BY <1>2, <2>1
<1> QED
  BY <1>4, <1>5, <1>6, <1>7

\* The version a lookup finds never goes back while the process runs.
THEOREM ViewOnlyGrows == Spec => ViewGrows
<1>1. IInv /\ [Next]_vars =>
        [\A x \in Ids : View(x)' >= View(x) \/ id_vector' = <<>>]_vars
  <2>1. Crash => id_vector' = <<>>
    BY DEF Crash
  <2> QED
    BY <2>1, ViewStep
<1> QED
  BY <1>1, Invariance, PTL DEF Spec, ViewGrows

\* A step leaves an entry of the queue of a disk there, or in the folder.
LEMMA QueuedStep ==
  ASSUME IInv, Next, NEW d \in Disks, NEW j \in DOMAIN outbound[d]
  PROVE  LET p == outbound[d][j]
         IN  \/ \E k \in DOMAIN outbound'[d] : outbound'[d][k] = p
             \/ files'[p.id][p.mod] \in {p.val, Empty, Torn}
             \/ id_vector' = <<>>
<1> DEFINE p == outbound[d][j]
           Safe == \/ \E k \in DOMAIN outbound'[d] : outbound'[d][k] = p
                   \/ files'[p.id][p.mod] \in {p.val, Empty, Torn}
                   \/ id_vector' = <<>>
<1> SUFFICES Safe
  OBVIOUS
<1>0. QueueInv /\ DataInv /\ EnvInv /\ CtlInv /\ Answered
  BY DEF IInv
<1>1. CASE outbound'[d] = outbound[d]
  BY <1>1
<1>2. CASE ShiftTake
  <2>1. /\ DOMAIN moves # {} /\ m0.from \in Tiers /\ m0.to \in Tiers
    <3>1. DOMAIN moves # {}
      BY <1>0, <1>2 DEF ShiftTake, CtlInv, Point
    <3> QED
      BY <1>0, <3>1, FirstMove
  <2> DEFINE e == inbound[m0.from][Min(Match(inbound[m0.from], m0.id))]
  <2>2. e \in Past
    <3>1. /\ inbound[m0.from] \in Seq(Past)
          /\ Match(inbound[m0.from], m0.id) # {}
      BY <1>0, <1>2, <2>1 DEF ShiftTake, Answered, Point, QueueInv
    <3> QED
      BY <3>1, FirstIn DEF First
  <2>3. \/ UNCHANGED outbound
        \/ outbound' = [outbound EXCEPT ![m0.to] = Append(outbound[m0.to], e)]
    BY <1>2 DEF ShiftTake, queue
  <2> HIDE DEF e
  <2>4. outbound'[d] = outbound[d] \/ outbound'[d] = Append(outbound[d], e)
    BY <1>0, <2>1, <2>3 DEF QueueInv, Tiers
  <2>5. CASE outbound'[d] = Append(outbound[d], e)
    <3>1. outbound[d] \in Seq(Past) /\ DOMAIN outbound[d] = 1 .. Len(outbound[d])
      BY <1>0, LenProperties DEF QueueInv, Tiers
    <3>2. j \in DOMAIN outbound'[d] /\ outbound'[d][j] = outbound[d][j]
      BY <2>2, <2>5, <3>1, AppendType, LenProperties
    <3> QED
      BY <3>2
  <2> QED
    BY <1>1, <2>4, <2>5
<1>3. ASSUME NEW content \in -3..MaxEdits, FlushDisk(content)
      PROVE  Safe
  <2>1. /\ call.tier \in Tiers /\ call.k \in DOMAIN outbound[call.tier]
        /\ Current \in Past /\ Current.id \in Ids /\ Current.mod \in Mods
    <3>1. /\ call.tier \in Tiers /\ call.k \in DOMAIN outbound[call.tier]
          /\ Current \in Past
      BY <1>3, CurrentType DEF FlushDisk
    <3> QED
      BY <1>0, <3>1, DatumFields
  <2>2. CASE d # call.tier
    <3>1. outbound'[d] = outbound[d]
      BY <1>0, <1>3, <2>2 DEF FlushDisk, Stored, QueueInv, Tiers
    <3> QED
      BY <1>1, <3>1
  <2>3. CASE d = call.tier /\ j = call.k
    <3>1. p = Current
      BY <2>3 DEF Current
    <3>2. files'[Current.id][Current.mod] = content
      BY <1>0, <1>3, <2>1 DEF FlushDisk, DataInv
    <3> QED
      <4>1. content \in {Current.val, Empty, Torn}
        BY <1>3 DEF FlushDisk
      <4>2. files'[p.id][p.mod] \in {p.val, Empty, Torn}
        BY <3>1, <3>2, <4>1
      <4> QED
        BY <4>2
  <2>4. CASE d = call.tier /\ j # call.k
    <3>1. outbound[d] \in Seq(Past)
      BY <1>0 DEF QueueInv, Tiers
    <3>2. outbound'[d] = RemoveAt(outbound[d], call.k)
      BY <1>0, <1>3, <2>1, <2>4 DEF FlushDisk, Stored, QueueInv, Tiers
    <3>3. \E k \in DOMAIN outbound'[d] : outbound'[d][k] = outbound[d][j]
      BY <2>1, <2>4, <3>1, <3>2, RemoveAtType
    <3> QED
      BY <3>3
  <2> QED
    BY <2>2, <2>3, <2>4
<1>4. CASE FlushMem
  <2>1. d # call.tier
    BY <1>4, TiersAssumption DEF FlushMem
  <2>2. outbound'[d] = outbound[d]
    BY <1>0, <1>4, <2>1 DEF FlushMem, Stored, Kept, QueueInv, CtlInv, Tiers
  <2> QED
    BY <1>1, <2>2
<1>5. CASE Crash
  BY <1>5 DEF Crash
<1>6. CASE /\ ~ShiftTake /\ ~FlushMem /\ ~Crash
           /\ ~ \E content \in -3..MaxEdits : FlushDisk(content)
  <2>1. UNCHANGED outbound
    BY <1>6 DEF Next, App, Busy, Flush, Create, Edit, Lookup, Churn,
       BeginTierLoop, FlushFails, Kept, FlushEnd, ShiftFetch, ShiftEnd,
       NextMove, VisitPair, Turn, Refresh, queue
  <2> QED
    BY <1>1, <2>1
<1> QED
  BY <1>2, <1>3, <1>4, <1>5, <1>6

\* Data accepted for a disk stays in its queue until the file holds it; only a
\* write the system cuts short or a restart loses it.
THEOREM QueuedIsStored == Spec => QueuedUntilStored
<1>1. IInv /\ [Next]_vars =>
        [\A d \in Disks : \A j \in DOMAIN outbound[d] :
           LET p == outbound[d][j]
           IN  \/ \E k \in DOMAIN outbound'[d] : outbound'[d][k] = p
               \/ files'[p.id][p.mod] \in {p.val, Empty, Torn}
               \/ id_vector' = <<>>]_vars
  BY QueuedStep
<1> QED
  BY <1>1, Invariance, PTL DEF Spec, QueuedUntilStored

-----------------------------------------------------------------------------
(***************************************************************************)
(* The tiers implement a store of versions, for every number of ids, disk  *)
(* states, edits and faults.  What has to be added to IInv is where the    *)
(* copies on their way have come from.                                     *)
(***************************************************************************)

\* What a copy is compared with: the objects in memory, the folder, and the
\* ids there are.
World == [objects |-> id_vector, folder |-> files, ids |-> born]

\* A copy of an object in memory, which may have gone on since.
Seen(w, e) == Version(w.objects, e.id) >= e.mod

\* A copy of a file, which stays as it was until its object is in memory.
Fresh(w, e) == Version(w.objects, e.id) = -1 => w.folder[e.id][e.mod] = e.val

\* What the inbound queue of t may hold: requests, and what t has.
Answer(w, t, e) == /\ e.id \in w.ids
                   /\ Filled(e) => IF t = Mem THEN Seen(w, e) ELSE Fresh(w, e)

\* What the outbound queue of t may hold: what the other side has.
Ready(w, t, e) == e.id \in w.ids /\ IF t = Mem THEN Fresh(w, e) ELSE Seen(w, e)

CopiesKnown ==
  \A t \in Tiers :
    /\ \A j \in DOMAIN inbound[t]  : Answer(World, t, inbound[t][j])
    /\ \A j \in DOMAIN outbound[t] : Ready(World, t, outbound[t][j])

\* Nothing has an id that was never created.
BornFirst ==
  /\ \A j \in DOMAIN id_vector : id_vector[j].id \in born
  /\ \A x \in Ids \ born : \A m \in Mods : files[x][m] = NoFile

\* Data moves between memory and a disk, never between two disks.
MovesKnown ==
  \A j \in DOMAIN moves : /\ moves[j].id \in born
                          /\ (moves[j].from = Mem) # (moves[j].to = Mem)

RInv == CopiesKnown /\ BornFirst /\ MovesKnown

\* What a step without a restart does to the data: no version goes back, and a
\* file changes only if its object is in memory.
Forward ==
  /\ born \subseteq born'
  /\ \A x \in Ids :
       /\ Version(id_vector', x) >= Version(id_vector, x)
       /\ Version(id_vector', x) = -1 => files'[x] = files[x]

-----------------------------------------------------------------------------
(* The operators.                                                          *)

LEMMA VersionType ==
  ASSUME EnvInv, NEW s \in Seq(Past), NEW x
  PROVE  /\ Version(s, x) \in Int /\ Version(s, x) >= -1
         /\ Version(s, x) = -1 <=> Match(s, x) = {}
         /\ Match(s, x) # {} =>
              /\ First(s, x) \in Past /\ First(s, x).id = x
              /\ First(s, x).mod = Version(s, x)
<1>1. CASE Match(s, x) = {}
  BY <1>1 DEF Version
<1>2. CASE Match(s, x) # {}
  <2>1. First(s, x) \in Past /\ First(s, x).id = x
    BY <1>2, FirstIn
  <2>2. First(s, x).mod \in Nat
    BY <2>1 DEF Past, EnvInv
  <2>3. Version(s, x) = First(s, x).mod
    BY <1>2 DEF Version
  <2> QED
    BY <1>2, <2>1, <2>2, <2>3
<1> QED
  BY <1>1, <1>2

\* Copies stay what they are while the process runs.
LEMMA CopiesLast ==
  ASSUME IInv, IInv', Forward
  PROVE  \A t \in Tiers : \A e \in Past :
           /\ Answer(World, t, e) => Answer(World', t, e)
           /\ Ready(World, t, e) => Ready(World', t, e)
<1> SUFFICES ASSUME NEW t \in Tiers, NEW e \in Past
             PROVE  /\ Answer(World, t, e) => Answer(World', t, e)
                    /\ Ready(World, t, e) => Ready(World', t, e)
  OBVIOUS
<1> DEFINE before == Version(id_vector, e.id)
           after == Version(id_vector', e.id)
<1>1. e.id \in Ids /\ e.mod \in Nat
  BY BoundsAssumption DEF IInv, Past, EnvInv
<1>2. before \in Int /\ before >= -1
  BY VersionType DEF IInv, DataInv
<1>3. after \in Int
  <2>1. EnvInv' /\ id_vector' \in Seq(Past')
    BY DEF IInv, DataInv
  <2>2. CASE Match(id_vector', e.id) = {}
    BY <2>2 DEF Version
  <2>3. CASE Match(id_vector', e.id) # {}
    <3>1. First(id_vector', e.id) \in Past'
      BY <2>1, <2>3, FirstIn
    <3> QED
      BY <2>1, <2>3, <3>1 DEF Version, Past, EnvInv
  <2> QED
    BY <2>2, <2>3
<1>4. after >= before /\ (after = -1 => files'[e.id] = files[e.id])
  BY <1>1 DEF Forward
<1>5. Seen(World, e) => Seen(World', e)
  <2> HIDE DEF before, after
  <2>1. before >= e.mod => after >= e.mod
    BY <1>1, <1>2, <1>3, <1>4
  <2> QED
    BY <2>1 DEF Seen, World, before, after
<1>6. Fresh(World, e) => Fresh(World', e)
  <2> HIDE DEF before, after
  <2>1. after = -1 => before = -1
    BY <1>2, <1>3, <1>4
  <2> QED
    BY <1>4, <2>1 DEF Fresh, World, before, after
<1>7. e.id \in born => e.id \in born'
  BY DEF Forward
<1> QED
  BY <1>5, <1>6, <1>7 DEF Answer, Ready, World

\* A tier answers a request with what it has.
LEMMA GetIdKnown ==
  ASSUME IInv, NEW t \in Tiers, NEW x \in Ids, x \in born
  PROVE  Answer(World, t, GetId(t, x))
<1>1. GetId(t, x).id = x
  BY GetIdType DEF IInv
<1>2. CASE t = Mem /\ View(x) # -1
  <2>1. GetId(t, x) = First(id_vector, x)
    BY <1>2 DEF GetId
  <2>2. /\ First(id_vector, x).mod = Version(id_vector, x)
        /\ Version(id_vector, x) \in Int
    BY <1>2, VersionType DEF IInv, DataInv, View
  <2>3. Seen(World, GetId(t, x))
    BY <1>1, <2>1, <2>2 DEF Seen, World
  <2> QED
    BY <1>1, <1>2, <2>3 DEF Answer, World
<1>3. CASE t # Mem /\ Listed(t, x)
  <2>1. GetId(t, x) = [id |-> x, mod |-> Version(storage[t], x),
                       val |-> files[x][Version(storage[t], x)]]
    BY <1>3 DEF GetId
  <2>2. Fresh(World, GetId(t, x))
    BY <2>1 DEF Fresh, World
  <2> QED
    BY <1>1, <1>3, <2>2 DEF Answer, World
<1>4. CASE ~(t = Mem /\ View(x) # -1) /\ ~(t # Mem /\ Listed(t, x))
  <2>1. GetId(t, x) = Blank(x)
    BY <1>4 DEF GetId
  <2>2. ~Filled(GetId(t, x))
    BY <2>1 DEF Blank, Filled
  <2> QED
    BY <1>1, <2>2 DEF Answer, World
<1> QED
  BY <1>2, <1>3, <1>4

LEMMA FillKnown ==
  ASSUME IInv, NEW t \in Tiers, NEW q \in Seq(Past),
         \A j \in DOMAIN q : Answer(World, t, q[j])
  PROVE  /\ Fill(t, q) \in Seq(Past)
         /\ \A j \in DOMAIN Fill(t, q) : Answer(World, t, Fill(t, q)[j])
<1>1. Fill(t, q) \in Seq(Past) /\ DOMAIN Fill(t, q) = DOMAIN q
  BY FillType DEF IInv
<1>2. ASSUME NEW j \in DOMAIN q
      PROVE  Answer(World, t, Fill(t, q)[j])
  <2>1. q[j] \in Past
    BY LenProperties, ElementOfSeq
  <2>2. q[j].id \in Ids /\ q[j].id \in born
    BY <2>1 DEF Past, Answer, World
  <2>3. Fill(t, q)[j] = q[j] \/ Fill(t, q)[j] = GetId(t, q[j].id)
    BY DEF Fill
  <2>4. Answer(World, t, GetId(t, q[j].id))
    BY <2>2, GetIdKnown
  <2> QED
    BY <2>3, <2>4
<1> QED
  BY <1>1, <1>2

-----------------------------------------------------------------------------
(* CopiesKnown after the steps that move copies.                           *)

\* Queues whose entries were known before the step.
LEMMA KnownBefore ==
  ASSUME IInv, IInv', Forward,
         inbound' \in [Tiers -> Seq(Past)], outbound' \in [Tiers -> Seq(Past)],
         \A t \in Tiers :
           /\ \A j \in DOMAIN inbound'[t]  : Answer(World, t, inbound'[t][j])
           /\ \A j \in DOMAIN outbound'[t] : Ready(World, t, outbound'[t][j])
  PROVE  CopiesKnown'
<1> SUFFICES ASSUME NEW t \in Tiers
             PROVE  /\ \A j \in DOMAIN inbound'[t]  : Answer(World', t, inbound'[t][j])
                    /\ \A j \in DOMAIN outbound'[t] : Ready(World', t, outbound'[t][j])
  BY DEF CopiesKnown
<1>1. \A j \in DOMAIN inbound'[t] : inbound'[t][j] \in Past
  BY LenProperties, ElementOfSeq
<1>2. \A j \in DOMAIN outbound'[t] : outbound'[t][j] \in Past
  BY LenProperties, ElementOfSeq
<1> QED
  BY <1>1, <1>2, CopiesLast

\* The loop of t fills its queue; everything else stays.
LEMMA FilledKnown ==
  ASSUME IInv, IInv', CopiesKnown, Forward, UNCHANGED outbound,
         NEW t \in Tiers, NEW q \in Seq(Past),
         \A j \in DOMAIN q : Answer(World, t, q[j]),
         \/ UNCHANGED inbound
         \/ inbound' = [inbound EXCEPT ![t] = Fill(t, q)]
  PROVE  CopiesKnown'
<1>1. inbound \in [Tiers -> Seq(Past)] /\ outbound \in [Tiers -> Seq(Past)]
  BY DEF IInv, QueueInv
<1>2. /\ Fill(t, q) \in Seq(Past)
      /\ \A j \in DOMAIN Fill(t, q) : Answer(World, t, Fill(t, q)[j])
  BY FillKnown
<1>3. inbound' \in [Tiers -> Seq(Past)] /\ outbound' \in [Tiers -> Seq(Past)]
  BY <1>1, <1>2
<1>4. \A s \in Tiers : \A j \in DOMAIN inbound'[s] : Answer(World, s, inbound'[s][j])
  BY <1>1, <1>2 DEF CopiesKnown
<1>5. \A s \in Tiers : \A j \in DOMAIN outbound'[s] : Ready(World, s, outbound'[s][j])
  BY DEF CopiesKnown
<1> QED
  BY <1>3, <1>4, <1>5, KnownBefore

\* An entry of an outbound queue is done with, or left for the next loop.
LEMMA EntryKnown ==
  ASSUME IInv, IInv', CopiesKnown, Forward, AtEntry, Stored \/ Kept,
         UNCHANGED inbound
  PROVE  CopiesKnown'
<1> DEFINE c == call.tier
           q == outbound[c]
<1>1. inbound \in [Tiers -> Seq(Past)] /\ outbound \in [Tiers -> Seq(Past)]
  BY DEF IInv, QueueInv
<1>2. c \in Tiers /\ call.k \in DOMAIN q /\ q \in Seq(Past)
  BY <1>1, CurrentType
<1>3. \E r \in Seq(Past) :
        /\ outbound' = [outbound EXCEPT ![c] = r]
        /\ \A j \in DOMAIN r : \E i \in DOMAIN q : r[j] = q[i]
  <2>1. CASE Stored
    <3>1. outbound' = [outbound EXCEPT ![c] = RemoveAt(q, call.k)]
      BY <2>1 DEF Stored
    <3>2. /\ RemoveAt(q, call.k) \in Seq(Past)
          /\ \A j \in DOMAIN RemoveAt(q, call.k) :
               \E i \in DOMAIN q : RemoveAt(q, call.k)[j] = q[i]
      BY <1>2, RemoveAtType
    <3> QED
      BY <3>1, <3>2, Zenon
  <2>2. CASE Kept
    <3>1. outbound' = [outbound EXCEPT ![c] = q]
      BY <1>1, <2>2 DEF Kept
    <3>2. \A j \in DOMAIN q : \E i \in DOMAIN q : q[j] = q[i]
      OBVIOUS
    <3> QED
      BY <1>2, <3>1, <3>2, Zenon
  <2> QED
    BY <2>1, <2>2
<1>4. PICK r \in Seq(Past) :
        /\ outbound' = [outbound EXCEPT ![c] = r]
        /\ \A j \in DOMAIN r : \E i \in DOMAIN q : r[j] = q[i]
  BY <1>3
<1>5. \A j \in DOMAIN r : Ready(World, c, r[j])
  BY <1>2, <1>4 DEF CopiesKnown
<1> HIDE DEF c
<1>6. \A s \in Tiers : \A j \in DOMAIN outbound'[s] : Ready(World, s, outbound'[s][j])
  BY <1>1, <1>4, <1>5 DEF CopiesKnown
<1>7. \A s \in Tiers : \A j \in DOMAIN inbound'[s] : Answer(World, s, inbound'[s][j])
  BY DEF CopiesKnown
<1>8. inbound' \in [Tiers -> Seq(Past)] /\ outbound' \in [Tiers -> Seq(Past)]
  BY <1>1, <1>4
<1> QED
  BY <1>6, <1>7, <1>8, KnownBefore

\* What was an answer of one side is ready for the other.
LEMMA ShiftTakeKnown ==
  ASSUME IInv, IInv', RInv, Forward, ShiftTake
  PROVE  CopiesKnown'
<1> DEFINE from == m0.from
           to == m0.to
           q == inbound[from]
           k == Min(Match(q, m0.id))
           e == q[k]
           r == RemoveAt(q, k)
           f == Fill(to, inbound[to])
<1>1. inbound \in [Tiers -> Seq(Past)] /\ outbound \in [Tiers -> Seq(Past)]
  BY DEF IInv, QueueInv
<1>2. /\ DOMAIN moves # {} /\ from \in Tiers /\ to \in Tiers
      /\ (from = Mem) # (to = Mem)
  <2>1. DOMAIN moves # {}
    BY DEF ShiftTake, IInv, CtlInv, Point
  <2>2. Min(DOMAIN moves) \in DOMAIN moves
    BY <2>1, MinIn DEF IInv, CtlInv
  <2>3. (from = Mem) # (to = Mem)
    BY <2>2 DEF RInv, MovesKnown, m0
  <2> QED
    BY <2>1, <2>3, FirstMove DEF IInv
<1>3. q \in Seq(Past) /\ k \in DOMAIN q /\ e \in Past
  <2>1. q \in Seq(Past) /\ Match(q, m0.id) # {}
    BY <1>1, <1>2 DEF ShiftTake, IInv, Answered, Point
  <2>2. k \in DOMAIN q /\ First(q, m0.id) \in Past /\ First(q, m0.id) = e
    BY <2>1, FirstIn
  <2> QED
    BY <2>1, <2>2
<1>4. r \in Seq(Past) /\ \A j \in DOMAIN r : \E i \in DOMAIN q : r[j] = q[i]
  BY <1>3, RemoveAtType
<1>5. \A s \in Tiers : \A j \in DOMAIN inbound[s] : Answer(World, s, inbound[s][j])
  BY DEF RInv, CopiesKnown
<1>6. \A s \in Tiers : \A j \in DOMAIN outbound[s] : Ready(World, s, outbound[s][j])
  BY DEF RInv, CopiesKnown
<1>7. \A j \in DOMAIN r : Answer(World, from, r[j])
  BY <1>2, <1>4, <1>5
<1>8. f \in Seq(Past) /\ \A j \in DOMAIN f : Answer(World, to, f[j])
  BY <1>1, <1>2, <1>5, FillKnown
<1>9. Filled(e) => Ready(World, to, e)
  <2>1. Answer(World, from, e)
    BY <1>2, <1>3, <1>5
  <2> QED
    BY <1>2, <2>1 DEF Answer, Ready
<1>10. \/ UNCHANGED queue
       \/ inbound' = [inbound EXCEPT ![from] = r] /\ UNCHANGED outbound
       \/ /\ Filled(e)
          /\ inbound' = [inbound EXCEPT ![from] = r, ![to] = f]
          /\ outbound' = [outbound EXCEPT ![to] = Append(outbound[to], e)]
  BY DEF ShiftTake
<1> HIDE DEF r, f, e, k, q
<1>11. CASE UNCHANGED queue
  BY <1>1, <1>5, <1>6, <1>11, KnownBefore DEF queue
<1>12. CASE inbound' = [inbound EXCEPT ![from] = r] /\ UNCHANGED outbound
  <2>1. \A s \in Tiers : \A j \in DOMAIN inbound'[s] : Answer(World, s, inbound'[s][j])
    BY <1>1, <1>2, <1>5, <1>7, <1>12
  <2>2. inbound' \in [Tiers -> Seq(Past)]
    BY <1>1, <1>4, <1>12
  <2> QED
    BY <1>1, <1>6, <1>12, <2>1, <2>2, KnownBefore
<1>13. CASE /\ Filled(e)
            /\ inbound' = [inbound EXCEPT ![from] = r, ![to] = f]
            /\ outbound' = [outbound EXCEPT ![to] = Append(outbound[to], e)]
  <2> DEFINE o == Append(outbound[to], e)
  <2>1. outbound[to] \in Seq(Past)
    BY <1>1, <1>2
  <2>2. /\ o \in Seq(Past) /\ DOMAIN o = 1 .. Len(outbound[to]) + 1
        /\ o[Len(outbound[to]) + 1] = e
        /\ \A i \in DOMAIN outbound[to] : o[i] = outbound[to][i]
        /\ DOMAIN outbound[to] = 1 .. Len(outbound[to]) /\ Len(outbound[to]) \in Nat
    BY <1>3, <2>1, AppendType, LenProperties
  <2> HIDE DEF o
  <2>3. \A j \in DOMAIN o : j \in DOMAIN outbound[to] \/ j = Len(outbound[to]) + 1
    BY <2>2
  <2>4. \A j \in DOMAIN o : Ready(World, to, o[j])
    BY <1>2, <1>6, <1>9, <1>13, <2>2, <2>3
  <2>5. outbound' = [outbound EXCEPT ![to] = o]
    BY <1>13 DEF o
  <2>6. inbound' \in [Tiers -> Seq(Past)] /\ outbound' \in [Tiers -> Seq(Past)]
    <3> DEFINE Queues == Seq(Past)
    <3>1. /\ inbound \in [Tiers -> Queues] /\ outbound \in [Tiers -> Queues]
          /\ r \in Queues /\ f \in Queues /\ o \in Queues
      BY <1>1, <1>4, <1>8, <2>2
    <3> HIDE DEF Queues
    <3>2. inbound' = [inbound EXCEPT ![from] = r, ![to] = f]
      BY <1>13
    <3>3. inbound' \in [Tiers -> Queues]
      BY ONLY <3>1, <3>2
    <3>4. outbound' \in [Tiers -> Queues]
      BY ONLY <3>1, <2>5
    <3> QED
      BY ONLY <3>3, <3>4 DEF Queues
  <2>7. \A s \in Tiers : \A j \in DOMAIN inbound'[s] : Answer(World, s, inbound'[s][j])
    <3>1. \A s \in Tiers : inbound'[s] = IF s = to THEN f
                                         ELSE IF s = from THEN r ELSE inbound[s]
      BY <1>1, <1>2, <1>13
    <3> QED
      BY <1>5, <1>7, <1>8, <3>1
  <2>8. \A s \in Tiers : \A j \in DOMAIN outbound'[s] : Ready(World, s, outbound'[s][j])
    <3>1. \A s \in Tiers : outbound'[s] = IF s = to THEN o ELSE outbound[s]
      BY <1>1, <2>5
    <3> QED
      BY <1>6, <2>4, <3>1
  <2> QED
    BY <2>6, <2>7, <2>8, KnownBefore
<1> QED
  BY <1>10, <1>11, <1>12, <1>13

\* A step of the process takes no version back, and writes only files of
\* objects that are in memory.
LEMMA StepForward ==
  ASSUME IInv, RInv, Next
  PROVE  Forward \/ Crash
<1> SUFFICES ASSUME ~Crash PROVE Forward
  OBVIOUS
<1>1. born \subseteq born'
  BY DEF Next, App, Busy, Flush, Create, Edit, Lookup, Churn, BeginTierLoop,
     FlushMem, FlushDisk, FlushFails, FlushEnd, ShiftFetch, ShiftTake, ShiftEnd,
     NextMove, VisitPair, Turn, Refresh, env
<1>2. \A x \in Ids : Version(id_vector', x) >= Version(id_vector, x)
  BY ViewStep DEF View
<1>3. ASSUME NEW x \in Ids, Version(id_vector', x) = -1
      PROVE  files'[x] = files[x]
  <2>1. CASE UNCHANGED files
    BY <2>1
  <2>2. ASSUME NEW content \in -3..MaxEdits, FlushDisk(content)
        PROVE  files'[x] = files[x]
    <3>1. Current \in Past /\ call.tier \in Tiers /\ call.k \in DOMAIN outbound[call.tier]
      BY <2>2, CurrentType DEF FlushDisk
    <3>2. Ready(World, call.tier, Current) /\ call.tier # Mem
      BY <2>2, <3>1 DEF RInv, CopiesKnown, Current, FlushDisk
    <3>3. Version(id_vector, Current.id) >= Current.mod /\ Current.mod \in Nat
      BY <3>1, <3>2 DEF Ready, Seen, World, IInv, Past, EnvInv
    <3>4. UNCHANGED id_vector
      BY <2>2 DEF FlushDisk
    <3>5. x # Current.id
      <4>1. -1 >= Current.mod => FALSE
        BY <3>3
      <4> QED
        BY <1>3, <3>3, <3>4, <4>1
    <3> QED
      BY <2>2, <3>1, <3>5 DEF FlushDisk, IInv, DataInv, Past
  <2>3. CASE ~ \E content \in -3..MaxEdits : FlushDisk(content)
    <3>1. UNCHANGED files
      BY <2>3 DEF Next, App, Busy, Flush, Create, Edit, Lookup, Churn,
         BeginTierLoop, FlushMem, FlushFails, FlushEnd, ShiftFetch, ShiftTake,
         ShiftEnd, NextMove, VisitPair, Turn, Refresh, data
    <3> QED
      BY <3>1
  <2> QED
    BY <2>2, <2>3
<1> QED
  BY <1>1, <1>2, <1>3 DEF Forward

-----------------------------------------------------------------------------
(* RInv holds at the start and after every step.                           *)

LEMMA InitKnown == Init => RInv
<1> SUFFICES ASSUME Init PROVE RInv
  OBVIOUS
<1>1. CopiesKnown
  BY DEF Init, CopiesKnown
<1>2. BornFirst
  BY DEF Init, BornFirst
<1>3. MovesKnown
  BY DEF Init, MovesKnown
<1> QED
  BY <1>1, <1>2, <1>3 DEF RInv

\* Every copy that is about to become an object or a file has an id of ours.
LEMMA CurrentKnown ==
  ASSUME IInv, RInv, AtEntry
  PROVE  /\ Current \in Past /\ Current.id \in born
         /\ Ready(World, call.tier, Current)
<1>1. call.tier \in Tiers /\ call.k \in DOMAIN outbound[call.tier] /\ Current \in Past
  BY CurrentType
<1>2. Ready(World, call.tier, Current)
  BY <1>1 DEF RInv, CopiesKnown, Current
<1> QED
  BY <1>1, <1>2 DEF Ready, World

LEMMA BornFirstNext ==
  ASSUME IInv, RInv, Next
  PROVE  BornFirst'
<1>1. id_vector \in Seq(Past) /\ BornFirst
  BY DEF IInv, DataInv, RInv
<1>2. ASSUME NEW o \in Past, id_vector' = Append(id_vector, o), o.id \in born',
             born \subseteq born', UNCHANGED files
      PROVE  BornFirst'
  <2>1. /\ DOMAIN id_vector' = 1 .. Len(id_vector) + 1
        /\ id_vector'[Len(id_vector) + 1] = o
        /\ \A j \in DOMAIN id_vector : id_vector'[j] = id_vector[j]
        /\ DOMAIN id_vector = 1 .. Len(id_vector) /\ Len(id_vector) \in Nat
    BY <1>1, <1>2, AppendType, LenProperties
  <2>2. \A j \in DOMAIN id_vector' : j \in DOMAIN id_vector \/ j = Len(id_vector) + 1
    BY <2>1
  <2>3. \A j \in DOMAIN id_vector' : id_vector'[j].id \in born'
    BY <1>1, <1>2, <2>1, <2>2 DEF BornFirst
  <2> QED
    BY <1>1, <1>2, <2>3 DEF BornFirst
<1>3. CASE UNCHANGED <<id_vector, files, born>>
  BY <1>1, <1>3 DEF BornFirst
<1>4. ASSUME NEW x \in Ids, Create(x)
      PROVE  BornFirst'
  <2>1. [id |-> x, mod |-> 0, val |-> 0] \in Past
    BY BoundsAssumption DEF IInv, EnvInv, Past
  <2> QED
    BY <1>2, <1>4, <2>1 DEF Create
<1>5. ASSUME NEW x \in Ids, Edit(x)
      PROVE  BornFirst'
  <2> DEFINE i == Min(Match(id_vector, x))
             o == [id |-> x, mod |-> View(x) + 1, val |-> edits + 1]
  <2>1. Match(id_vector, x) # {}
    BY <1>5 DEF Edit, View, Version
  <2>2. i \in DOMAIN id_vector /\ id_vector[i].id = x
    BY <1>1, <2>1, FirstIn
  <2>3. id_vector' = [id_vector EXCEPT ![i] = o] /\ UNCHANGED <<files, born>>
    BY <1>5 DEF Edit
  <2> HIDE DEF i
  <2>4. \A j \in DOMAIN id_vector' : id_vector'[j].id = id_vector[j].id
    BY <2>2, <2>3
  <2>5. DOMAIN id_vector' = DOMAIN id_vector
    BY <2>3
  <2> QED
    BY <1>1, <2>3, <2>4, <2>5 DEF BornFirst
<1>6. CASE FlushMem
  <2>1. Current \in Past /\ Current.id \in born
    BY <1>6, CurrentKnown DEF FlushMem
  <2>2. \/ id_vector' = Append(id_vector, Current)
        \/ UNCHANGED id_vector
    BY <1>6 DEF FlushMem
  <2>3. UNCHANGED <<files, born>>
    BY <1>6 DEF FlushMem, env
  <2> QED
    BY <1>2, <1>3, <2>1, <2>2, <2>3
<1>7. ASSUME NEW content, UNCHANGED born, AtEntry,
             id_vector' \in {id_vector, <<>>},
             files' = [files EXCEPT ![Current.id][Current.mod] = content]
      PROVE  BornFirst'
  <2>1. Current.id \in born /\ Current.id \in Ids
    BY <1>7, CurrentKnown DEF Past
  <2>2. \A x \in Ids \ born : files'[x] = files[x]
    BY <1>7, <2>1 DEF IInv, DataInv
  <2>3. \A j \in DOMAIN id_vector' : id_vector'[j].id \in born
    BY <1>1, <1>7 DEF BornFirst
  <2> QED
    BY <1>1, <1>7, <2>2, <2>3 DEF BornFirst
<1>8. ASSUME NEW content \in -3..MaxEdits, FlushDisk(content)
      PROVE  BornFirst'
  BY <1>7, <1>8 DEF FlushDisk
<1>9. CASE Crash
  <2>1. id_vector' = <<>> /\ UNCHANGED born
    BY <1>9 DEF Crash
  <2>2. CASE UNCHANGED files
    BY <1>1, <2>1, <2>2 DEF BornFirst
  <2>3. CASE ~UNCHANGED files
    <3>1. AtEntry /\ \E content \in {Empty, Torn, Current.val} :
                       files' = [files EXCEPT ![Current.id][Current.mod] = content]
      BY <1>9, <2>3 DEF Crash
    <3> QED
      BY <1>7, <2>1, <3>1
  <2> QED
    BY <2>2, <2>3
<1>10. CASE /\ ~FlushMem /\ ~Crash
            /\ ~ \E content \in -3..MaxEdits : FlushDisk(content)
            /\ ~ \E x \in Ids : Create(x) \/ Edit(x)
  <2>1. UNCHANGED <<id_vector, files, born>>
    BY <1>10 DEF Next, App, Busy, Flush, Lookup, Churn, BeginTierLoop,
       FlushFails, FlushEnd, ShiftFetch, ShiftTake, ShiftEnd, NextMove,
       VisitPair, Turn, Refresh, data, env
  <2> QED
    BY <1>3, <2>1
<1> QED
  BY <1>4, <1>5, <1>6, <1>8, <1>9, <1>10

\* The moves of a pair are of objects that are in memory.
LEMMA PairMovesKnown ==
  ASSUME IInv, RInv, NEW s \in Tiers, NEW t \in Tiers
  PROVE  \A j \in DOMAIN PairMoves(s, t) :
           /\ PairMoves(s, t)[j].id \in born
           /\ (PairMoves(s, t)[j].from = Mem) # (PairMoves(s, t)[j].to = Mem)
<1>1. ASSUME NEW d \in Tiers, d # Mem, NEW j \in DOMAIN MoveLogic(d)
      PROVE  /\ MoveLogic(d)[j].id \in born
             /\ (MoveLogic(d)[j].from = Mem) # (MoveLogic(d)[j].to = Mem)
  <2>1. j \in DOMAIN storage[Mem] /\ MoveLogic(d)[j] = Shift(storage[Mem][j], d)
    BY <1>1 DEF MoveLogic
  <2>2. storage[Mem][j].id \in born
    BY <2>1 DEF IInv, MemIndexLags, RInv, BornFirst
  <2> QED
    BY <1>1, <2>1, <2>2 DEF Shift
<1>2. DOMAIN <<>> = {}
  OBVIOUS
<1>3. CASE s = Mem /\ t # Mem
  <2>1. PairMoves(s, t) = MoveLogic(t)
    BY <1>3 DEF PairMoves
  <2> QED
    BY <1>1, <1>3, <2>1
<1>4. CASE s # Mem /\ t = Mem
  <2>1. PairMoves(s, t) = MoveLogic(s)
    BY <1>4 DEF PairMoves
  <2> QED
    BY <1>1, <1>4, <2>1
<1>5. CASE ~(s = Mem /\ t # Mem) /\ ~(s # Mem /\ t = Mem)
  <2>1. PairMoves(s, t) = <<>>
    BY <1>5 DEF PairMoves
  <2> QED
    BY <1>2, <2>1
<1> QED
  BY <1>3, <1>4, <1>5

LEMMA MovesKnownNext ==
  ASSUME IInv, RInv, Next
  PROVE  MovesKnown'
<1>1. MovesKnown
  BY DEF RInv
<1>2. \A x \in born : x \in born'
  BY DEF Next, App, Busy, Flush, Create, Edit, Lookup, Churn, BeginTierLoop,
     FlushMem, FlushDisk, FlushFails, FlushEnd, ShiftFetch, ShiftTake, ShiftEnd,
     NextMove, VisitPair, Turn, Refresh, Crash, env
<1>3. ASSUME \A j \in DOMAIN moves' : /\ moves'[j].id \in born
                                      /\ (moves'[j].from = Mem) # (moves'[j].to = Mem)
      PROVE  MovesKnown'
  BY <1>2, <1>3 DEF MovesKnown
<1>4. CASE UNCHANGED moves
  BY <1>1, <1>3, <1>4 DEF MovesKnown
<1>5. ASSUME NEW x \in Ids, Lookup(x)
      PROVE  MovesKnown'
  <2>1. /\ x \in born
        /\ moves' = [j \in DOMAIN Asked |-> [id |-> x, from |-> Asked[j], to |-> Mem]]
    BY <1>5 DEF Lookup
  <2>2. \A j \in DOMAIN Asked : Asked[j] # Mem
    BY TiersAssumption, LenProperties, ElementOfSeq
  <2> QED
    BY <1>3, <2>1, <2>2
<1>6. CASE VisitPair
  <2>1. UNCHANGED moves \/ moves' = PairMoves(Order[row], Order[col])
    BY <1>6 DEF VisitPair
  <2>2. Order[row] \in Tiers /\ Order[col] \in Tiers
    <3>1. row \in 1 .. Len(Order) /\ col \in 1 .. Len(Order)
      BY <1>6, TiersAssumption, LenProperties DEF VisitPair, IInv, CtlInv
    <3> QED
      BY <3>1, TiersAssumption, ElementOfSeq
  <2>3. CASE moves' = PairMoves(Order[row], Order[col])
    BY <1>3, <2>2, <2>3, PairMovesKnown
  <2> QED
    BY <1>4, <2>1, <2>3
<1>7. CASE ShiftEnd
  <2>1. DOMAIN moves # {}
    BY <1>7 DEF ShiftEnd, IInv, CtlInv, Point
  <2>2. Min(DOMAIN moves) \in DOMAIN moves
    BY <2>1, MinIn DEF IInv, CtlInv
  <2>3. m0.id \in born /\ (m0.from = Mem) # (m0.to = Mem)
    BY <1>1, <2>2 DEF MovesKnown, m0
  <2>4. UNCHANGED moves \/ moves' = <<m0>>
    BY <1>7 DEF ShiftEnd
  <2>5. CASE moves' = <<m0>>
    BY <1>3, <2>3, <2>5
  <2> QED
    BY <1>4, <2>4, <2>5
<1>8. CASE NextMove
  <2>1. \A j \in DOMAIN Rest : j \in DOMAIN moves /\ Rest[j] = moves[j]
    BY DEF Rest
  <2>2. moves' = Rest
    BY <1>8 DEF NextMove
  <2> QED
    BY <1>1, <1>3, <2>1, <2>2 DEF MovesKnown
<1>9. CASE Crash
  <2>1. moves' = <<>>
    BY <1>9 DEF Crash
  <2> QED
    BY <1>3, <2>1
<1>10. CASE /\ ~VisitPair /\ ~ShiftEnd /\ ~NextMove /\ ~Crash
            /\ ~ \E x \in Ids : Lookup(x)
  <2>1. UNCHANGED moves
    BY <1>10 DEF Next, App, Busy, Flush, Create, Edit, Churn, BeginTierLoop,
       FlushMem, FlushDisk, FlushFails, FlushEnd, ShiftFetch, ShiftTake,
       Turn, Refresh, ctl
  <2> QED
    BY <1>4, <2>1
<1> QED
  BY <1>5, <1>6, <1>7, <1>8, <1>9, <1>10

LEMMA CopiesKnownNext ==
  ASSUME IInv, IInv', RInv, Next
  PROVE  CopiesKnown'
<1>1. CASE Crash
  <2>1. /\ inbound' = [t \in Tiers |-> <<>>]
        /\ outbound' = [t \in Tiers |-> <<>>]
    BY <1>1 DEF Crash
  <2> QED
    BY <2>1 DEF CopiesKnown
<1>2. CASE Forward
  <2>1. CopiesKnown
    BY DEF RInv
  <2>2. inbound \in [Tiers -> Seq(Past)] /\ outbound \in [Tiers -> Seq(Past)]
    BY DEF IInv, QueueInv
  <2>3. \A t \in Tiers : \A j \in DOMAIN inbound[t] : Answer(World, t, inbound[t][j])
    BY <2>1 DEF CopiesKnown
  <2>4. CASE UNCHANGED queue
    <3>1. UNCHANGED <<inbound, outbound>>
      BY <2>4 DEF queue
    <3> QED
      BY <1>2, <2>1, <2>2, <3>1, KnownBefore DEF CopiesKnown
  <2>5. CASE FlushMem \/ FlushFails \/ \E content \in -3..MaxEdits : FlushDisk(content)
    <3>1. AtEntry /\ (Stored \/ Kept) /\ UNCHANGED inbound
      BY <2>5 DEF FlushMem, FlushFails, FlushDisk
    <3> QED
      BY <1>2, <2>1, <3>1, EntryKnown
  <2>6. CASE ShiftTake
    BY <1>2, <2>6, ShiftTakeKnown
  <2>7. CASE ShiftFetch \/ ShiftEnd
    <3>1. DOMAIN moves # {}
      BY <2>7 DEF ShiftFetch, ShiftEnd, IInv, CtlInv, Point
    <3>2. m0.id \in Ids /\ m0.from \in Tiers /\ m0.id \in born
      <4>1. Min(DOMAIN moves) \in DOMAIN moves
        BY <3>1, MinIn DEF IInv, CtlInv
      <4>2. m0.id \in born
        BY <4>1 DEF RInv, MovesKnown, m0
      <4> QED
        BY <3>1, <4>2, FirstMove DEF IInv
    <3> DEFINE q == inbound[m0.from]
               b == Append(q, Blank(m0.id))
    <3>3. q \in Seq(Past) /\ \A j \in DOMAIN q : Answer(World, m0.from, q[j])
      BY <2>2, <2>3, <3>2
    <3>4. CASE ShiftFetch
      <4>1. \/ UNCHANGED inbound
            \/ inbound' = [inbound EXCEPT ![m0.from] = Fill(m0.from, b)]
        BY <3>4 DEF ShiftFetch, CallLoop
      <4>2. UNCHANGED outbound
        BY <3>4 DEF ShiftFetch
      <4>3. Blank(m0.id) \in Past /\ Answer(World, m0.from, Blank(m0.id))
        BY <3>2, BlankType DEF IInv, Answer, World, Blank, Filled
      <4>4. /\ b \in Seq(Past) /\ DOMAIN b = 1 .. Len(q) + 1
            /\ b[Len(q) + 1] = Blank(m0.id)
            /\ \A j \in DOMAIN q : b[j] = q[j]
            /\ DOMAIN q = 1 .. Len(q) /\ Len(q) \in Nat
        BY <3>3, <4>3, AppendType, LenProperties
      <4> HIDE DEF b, q
      <4>5. \A j \in DOMAIN b : j \in DOMAIN q \/ j = Len(q) + 1
        BY <4>4
      <4>6. \A j \in DOMAIN b : Answer(World, m0.from, b[j])
        BY <3>3, <4>3, <4>4, <4>5
      <4> QED
        BY <1>2, <2>1, <3>2, <4>1, <4>2, <4>4, <4>6, FilledKnown
    <3>5. CASE ShiftEnd
      <4>1. \/ UNCHANGED inbound
            \/ inbound' = [inbound EXCEPT ![m0.from] = Fill(m0.from, q)]
        BY <3>5 DEF ShiftEnd, CallLoop
      <4>2. UNCHANGED outbound
        BY <3>5 DEF ShiftEnd
      <4> HIDE DEF q
      <4> QED
        BY <1>2, <2>1, <3>2, <3>3, <4>1, <4>2, FilledKnown
    <3> QED
      BY <2>7, <3>4, <3>5
  <2>8. CASE Turn
    <3> DEFINE t == Order[row]
               q == inbound[t]
    <3>1. t \in Tiers
      <4>1. row \in 1 .. Len(Order)
        BY TiersAssumption, LenProperties DEF IInv, CtlInv
      <4> QED
        BY <4>1, TiersAssumption, ElementOfSeq
    <3>2. q \in Seq(Past) /\ \A j \in DOMAIN q : Answer(World, t, q[j])
      BY <2>2, <2>3, <3>1
    <3>3. UNCHANGED outbound /\ inbound' = [inbound EXCEPT ![t] = Fill(t, q)]
      BY <2>8 DEF Turn, CallLoop
    <3> HIDE DEF t, q
    <3> QED
      BY <1>2, <2>1, <3>1, <3>2, <3>3, FilledKnown
  <2>9. CASE /\ ~FlushMem /\ ~FlushFails /\ ~ShiftTake /\ ~ShiftFetch /\ ~ShiftEnd
             /\ ~Turn /\ ~Crash
             /\ ~ \E content \in -3..MaxEdits : FlushDisk(content)
    <3>1. UNCHANGED queue
      BY <2>9 DEF Next, App, Busy, Flush, Create, Edit, Lookup, Churn,
         BeginTierLoop, FlushEnd, NextMove, VisitPair, Refresh
    <3> QED
      BY <2>4, <3>1
  <2> QED
    BY <1>1, <2>5, <2>6, <2>7, <2>8, <2>9
<1> QED
  BY <1>1, <1>2, StepForward

LEMMA RInvNext == IInv /\ IInv' /\ RInv /\ [Next]_vars => RInv'
<1> SUFFICES ASSUME IInv, IInv', RInv, [Next]_vars PROVE RInv'
  OBVIOUS
<1>1. CASE Next
  BY <1>1, CopiesKnownNext, BornFirstNext, MovesKnownNext DEF RInv
<1>2. CASE UNCHANGED vars
  <2>1. UNCHANGED <<inbound, outbound, id_vector, files, born, moves>>
    BY <1>2 DEF vars, data, queue, ctl, env
  <2> QED
    BY <2>1 DEF RInv, CopiesKnown, BornFirst, MovesKnown, World
<1> QED
  BY <1>1, <1>2

-----------------------------------------------------------------------------
(* The refinement.                                                         *)

\* What VersionStore calls view and durable.
Views  == [x \in Ids |-> View(x)]
Intact == [x \in Ids |-> {m \in Mods : files[x][m] >= 0}]

LEMMA StoreInit == Init => Store!Init
<1> SUFFICES ASSUME Init PROVE Store!Init
  OBVIOUS
<1>1. ASSUME NEW x \in Ids PROVE View(x) = -1
  BY DEF Init, View, Version, Match
<1>2. ASSUME NEW x \in Ids PROVE {m \in Mods : files[x][m] >= 0} = {}
  BY DEF Init, NoFile
<1> QED
  BY <1>1, <1>2 DEF Store!Init

\* A step that changes neither what a lookup finds nor the folder.
LEMMA StoreStutter ==
  ASSUME UNCHANGED <<id_vector, files>>
  PROVE  UNCHANGED Store!svars
BY DEF Store!svars, View

\* One more object: seen if there was none of its id.
LEMMA AppendedView ==
  ASSUME IInv, NEW o \in Past, id_vector' = Append(id_vector, o)
  PROVE  Views' = IF View(o.id) = -1 THEN [Views EXCEPT ![o.id] = o.mod] ELSE Views
<1>1. o.id \in Ids
  BY DEF Past
<1>2. ASSUME NEW x \in Ids
      PROVE  Version(id_vector', x) =
               IF Version(id_vector, x) = -1 /\ o.id = x
               THEN o.mod ELSE Version(id_vector, x)
  <2>1. EnvInv /\ id_vector \in Seq(Past)
    BY DEF IInv, DataInv
  <2>2. Version(id_vector, x) = -1 <=> Match(id_vector, x) = {}
    BY <2>1, VersionType
  <2> QED
    BY <2>1, <2>2, VersionAppend
<1> QED
  BY <1>1, <1>2 DEF Views, View

LEMMA StoreCreate ==
  ASSUME IInv, RInv, NEW x \in Ids, Create(x)
  PROVE  Store!New(x)
<1> DEFINE o == [id |-> x, mod |-> 0, val |-> 0]
<1>1. o \in Past /\ id_vector' = Append(id_vector, o) /\ UNCHANGED files /\ x \notin born
  BY BoundsAssumption DEF Create, IInv, EnvInv, Past
<1>2. View(x) = -1
  <2>1. Match(id_vector, x) = {}
    BY <1>1 DEF RInv, BornFirst, Match
  <2> QED
    BY <2>1 DEF View, Version
<1>3. Intact[x] = {}
  BY <1>1 DEF RInv, BornFirst, Intact, NoFile
<1>4. Views' = [Views EXCEPT ![x] = 0]
  <2>1. o.id = x /\ o.mod = 0
    OBVIOUS
  <2> HIDE DEF o
  <2> QED
    BY <1>1, <1>2, <2>1, AppendedView
<1> QED
  BY <1>1, <1>2, <1>3, <1>4 DEF Store!New, Views, Intact

LEMMA StoreEdit ==
  ASSUME IInv, NEW x \in Ids, Edit(x)
  PROVE  Store!Change(x)
<1>1. EnvInv /\ id_vector \in Seq(Past)
  BY DEF IInv, DataInv
<1>2. View(x) >= 0 /\ Match(id_vector, x) # {}
  BY <1>1, VersionType DEF Edit, View
<1>3. ASSUME NEW y \in Ids
      PROVE  Version(id_vector', y) =
               IF y = x THEN Version(id_vector, x) + 1 ELSE Version(id_vector, y)
  <2> DEFINE o == [id |-> x, mod |-> Version(id_vector, x) + 1, val |-> edits + 1]
             s == [id_vector EXCEPT ![Min(Match(id_vector, x))] = o]
  <2>1. /\ Version(s, y) =
             IF y = x THEN Version(id_vector, x) + 1 ELSE Version(id_vector, y)
        /\ Version(s, y) >= Version(id_vector, y)
    BY <1>1, <1>2, VersionEdit, Zenon
  <2>2. id_vector' = s
    BY DEF Edit, View
  <2> HIDE DEF s
  <2> QED
    BY <2>1, <2>2
<1>4. UNCHANGED files
  BY DEF Edit
<1> QED
  BY <1>2, <1>3, <1>4 DEF Store!Change, View

LEMMA StoreFlushMem ==
  ASSUME IInv, RInv, FlushMem
  PROVE  (\E x \in Ids : Store!Load(x)) \/ UNCHANGED Store!svars
<1>1. /\ Current \in Past /\ Current.val \notin {NoFile, Empty, Torn}
      /\ Ready(World, Mem, Current)
  BY CurrentType, CurrentKnown DEF FlushMem
<1>2. Current.id \in Ids /\ Current.mod \in Mods /\ Current.val >= 0
  BY <1>1, BoundsAssumption DEF IInv, EnvInv, Past, Mods, NoFile, Empty, Torn
<1>3. UNCHANGED files /\ (UNCHANGED id_vector \/ id_vector' = Append(id_vector, Current))
  BY DEF FlushMem
<1>4. CASE UNCHANGED id_vector
  BY <1>3, <1>4, StoreStutter
<1>5. CASE id_vector' = Append(id_vector, Current) /\ View(Current.id) # -1
  <2>1. Views' = Views
    BY <1>1, <1>5, AppendedView
  <2>2. Intact' = Intact
    BY <1>3 DEF Intact
  <2> QED
    BY <2>1, <2>2 DEF Store!svars, Views, Intact
<1>6. CASE id_vector' = Append(id_vector, Current) /\ View(Current.id) = -1
  <2>1. Views' = [Views EXCEPT ![Current.id] = Current.mod]
    BY <1>1, <1>6, AppendedView
  <2>2. files[Current.id][Current.mod] = Current.val
    BY <1>1, <1>6 DEF Ready, Fresh, World, View
  <2>3. Current.mod \in Intact[Current.id]
    BY <1>2, <2>2 DEF Intact
  <2>4. Store!Load(Current.id)
    BY <1>2, <1>3, <1>6, <2>1, <2>3 DEF Store!Load, Views, Intact
  <2> QED
    BY <1>2, <2>4
<1> QED
  BY <1>3, <1>4, <1>5, <1>6

\* Writing the entry the loop is at: its version is there afterwards, or not.
LEMMA WrittenFile ==
  ASSUME IInv, RInv, AtEntry, call.tier # Mem,
         NEW content \in {Empty, Torn, Current.val},
         files' = [files EXCEPT ![Current.id][Current.mod] = content]
  PROVE  /\ Current.id \in Ids /\ Current.mod \in 0..Views[Current.id]
         /\ Intact' =
              IF content = Current.val
              THEN [Intact EXCEPT ![Current.id] = @ \union {Current.mod}]
              ELSE [Intact EXCEPT ![Current.id] = @ \ {Current.mod}]
<1> DEFINE x == Current.id
           m == Current.mod
<1>1. /\ Current \in Past /\ Current.val \notin {NoFile, Empty, Torn}
      /\ Ready(World, call.tier, Current)
  BY CurrentType, CurrentKnown
<1>2. x \in Ids /\ m \in Mods /\ m \in Nat /\ Current.val >= 0
  BY <1>1, BoundsAssumption DEF IInv, EnvInv, Past, Mods, NoFile, Empty, Torn
<1>3. m \in 0..Views[x]
  <2>1. Version(id_vector, x) >= m
    BY <1>1 DEF Ready, Seen, World
  <2>2. Version(id_vector, x) \in Int
    BY VersionType DEF IInv, DataInv
  <2> QED
    BY <1>2, <2>1, <2>2 DEF Views, View
<1>4. content >= 0 <=> content = Current.val
  BY <1>2 DEF Empty, Torn
<1> HIDE DEF x, m
<1>5. \A y \in Ids : \A n \in Mods :
        files'[y][n] = IF y = x /\ n = m THEN content ELSE files[y][n]
  BY <1>2 DEF IInv, DataInv, x, m
<1>6. ASSUME NEW y \in Ids
      PROVE  {n \in Mods : files'[y][n] >= 0} =
               IF y = x
               THEN IF content = Current.val
                    THEN {n \in Mods : files[x][n] >= 0} \union {m}
                    ELSE {n \in Mods : files[x][n] >= 0} \ {m}
               ELSE {n \in Mods : files[y][n] >= 0}
  BY <1>2, <1>4, <1>5
<1>7. Intact' = IF content = Current.val
                THEN [Intact EXCEPT ![x] = @ \union {m}]
                ELSE [Intact EXCEPT ![x] = @ \ {m}]
  <2>1. CASE content = Current.val
    BY <1>2, <1>6, <2>1 DEF Intact
  <2>2. CASE content # Current.val
    BY <1>2, <1>6, <2>2 DEF Intact
  <2> QED
    BY <2>1, <2>2
<1> QED
  BY <1>2, <1>3, <1>7 DEF x, m

LEMMA StoreFlushDisk ==
  ASSUME IInv, RInv, NEW content \in -3..MaxEdits, FlushDisk(content)
  PROVE  Store!Next
<1>1. /\ AtEntry /\ call.tier # Mem
      /\ content \in {Empty, Torn, Current.val}
      /\ content # Current.val => "short" \in Faults
      /\ files' = [files EXCEPT ![Current.id][Current.mod] = content]
      /\ UNCHANGED id_vector
  BY DEF FlushDisk
<1>2. /\ Current.id \in Ids /\ Current.mod \in 0..Views[Current.id]
      /\ Intact' =
           IF content = Current.val
           THEN [Intact EXCEPT ![Current.id] = @ \union {Current.mod}]
           ELSE [Intact EXCEPT ![Current.id] = @ \ {Current.mod}]
  BY <1>1, WrittenFile
<1>3. Views' = Views
  BY <1>1 DEF Views, View
<1>4. PICK x \in Ids : x = Current.id
  BY <1>2
<1>5. CASE content = Current.val
  <2>1. Store!Persist(x)
    BY <1>2, <1>3, <1>4, <1>5 DEF Store!Persist, Views, Intact
  <2> QED
    BY <2>1 DEF Store!Next
<1>6. CASE content # Current.val
  <2>1. Store!Spoil(x)
    BY <1>1, <1>2, <1>3, <1>4, <1>6 DEF Store!Spoil, Views, Intact
  <2> QED
    BY <2>1 DEF Store!Next
<1> QED
  BY <1>5, <1>6

LEMMA StoreCrash ==
  ASSUME IInv, RInv, Crash
  PROVE  Store!Restart
<1>1. "crash" \in Faults /\ id_vector' = <<>>
  BY DEF Crash
<1>2. Views' = [x \in Ids |-> -1]
  BY <1>1 DEF Views, View, Version, Match
<1>3. CASE UNCHANGED files
  <2>1. Intact' = Intact
    BY <1>3 DEF Intact
  <2> QED
    BY <1>1, <1>2, <2>1 DEF Store!Restart, Views, Intact
<1>4. CASE ~UNCHANGED files
  <2>1. PICK content \in {Empty, Torn, Current.val} :
          files' = [files EXCEPT ![Current.id][Current.mod] = content]
    BY <1>4 DEF Crash
  <2>2. AtEntry /\ call.tier # Mem
    BY <1>4 DEF Crash
  <2>3. /\ Current.id \in Ids /\ Current.mod \in 0..Views[Current.id]
        /\ Intact' \in {[Intact EXCEPT ![Current.id] = @ \ {Current.mod}],
                        [Intact EXCEPT ![Current.id] = @ \union {Current.mod}]}
    BY <2>1, <2>2, WrittenFile
  <2> QED
    BY <1>1, <1>2, <2>3 DEF Store!Restart, Views, Intact
<1> QED
  BY <1>3, <1>4

LEMMA StoreNext ==
  ASSUME IInv, RInv, [Next]_vars
  PROVE  [Store!Next]_Store!svars
<1>1. ASSUME NEW x \in Ids, Create(x)
      PROVE  Store!Next
  BY <1>1, StoreCreate DEF Store!Next
<1>2. ASSUME NEW x \in Ids, Edit(x)
      PROVE  Store!Next
  BY <1>2, StoreEdit DEF Store!Next
<1>3. CASE FlushMem
  BY <1>3, StoreFlushMem DEF Store!Next
<1>4. ASSUME NEW content \in -3..MaxEdits, FlushDisk(content)
      PROVE  Store!Next
  BY <1>4, StoreFlushDisk
<1>5. CASE Crash
  BY <1>5, StoreCrash DEF Store!Next
<1>6. CASE Next /\ /\ ~FlushMem /\ ~Crash
                   /\ ~ \E content \in -3..MaxEdits : FlushDisk(content)
                   /\ ~ \E x \in Ids : Create(x) \/ Edit(x)
  <2>1. UNCHANGED <<id_vector, files>>
    BY <1>6 DEF Next, App, Busy, Flush, Lookup, Churn, BeginTierLoop,
       FlushFails, FlushEnd, ShiftFetch, ShiftTake, ShiftEnd, NextMove,
       VisitPair, Turn, Refresh, data
  <2> QED
    BY <2>1, StoreStutter
<1>7. CASE UNCHANGED vars
  <2>1. UNCHANGED <<id_vector, files>>
    BY <1>7 DEF vars, data
  <2> QED
    BY <2>1, StoreStutter
<1> QED
  BY <1>1, <1>2, <1>3, <1>4, <1>5, <1>6, <1>7

\* The tiers are a store of versions: with their indexes, queues, moves and
\* loops they never show the users or leave on disk anything but what creating,
\* editing, persisting, loading, spoiling and restarting make of a datum.
THEOREM TiersImplementStore == Spec => ImplementsStore
<1>1. IInv /\ IInv' /\ RInv /\ [Next]_vars => RInv'
  BY RInvNext
<1>2. IInv /\ RInv /\ [Next]_vars => [Store!Next]_Store!svars
  BY StoreNext
<1> QED
  BY <1>1, <1>2, InitKnown, StoreInit, Invariance, PTL
     DEF Spec, ImplementsStore, Store!Spec

-----------------------------------------------------------------------------
(***************************************************************************)
(* A modification_incrementor identifies the content it was given with:    *)
(* VersionIdentifiesContent of IdTier, for every number of ids, disk       *)
(* states, edits and faults; and the pass of id_tier_loop loses no object  *)
(* (LoopPersists).                                                         *)
(***************************************************************************)

\* What can be read as an object.
Good(x) == {c \in Copies(x) : c.val >= 0}

\* What an edit starts from is the newest there is.
EditsNewest ==
  \A x \in Ids \ hist.stale :
    View(x) # -1 => \A c \in Good(x) : c.mod <= View(x)

ContentInv == EditsNewest /\ VersionIdentifiesContent
\* e is nothing new: it cannot be read, or it is a copy there is.
Known(e) == e.val >= 0 => e \in Copies(e.id)

-----------------------------------------------------------------------------
(* Where copies come from.                                                 *)

\* The copies of x in given objects v, queues i and o, and folder f.
CopiesAmong(v, i, o, f, x) ==
  LET here(s) == {s[j] : j \in Match(s, x)}
  IN  here(v)
      \union (UNION {here(i[t]) \union here(o[t]) : t \in Tiers})
      \union {[id |-> x, mod |-> m, val |-> f[x][m]] : m \in Mods}

\* A copy is an object, an entry of a queue, or a file.
LEMMA CopyPlaces ==
  ASSUME NEW v, NEW i, NEW o, NEW f, NEW x, NEW c
  PROVE  c \in CopiesAmong(v, i, o, f, x) <=>
           \/ \E j \in DOMAIN v : c = v[j] /\ v[j].id = x
           \/ \E t \in Tiers : \/ \E j \in DOMAIN i[t] : c = i[t][j] /\ i[t][j].id = x
                               \/ \E j \in DOMAIN o[t] : c = o[t][j] /\ o[t][j].id = x
           \/ \E m \in Mods : c = [id |-> x, mod |-> m, val |-> f[x][m]]
<1> DEFINE here(s) == {s[j] : j \in Match(s, x)}
           queued == UNION {here(i[t]) \union here(o[t]) : t \in Tiers}
           stored == {[id |-> x, mod |-> m, val |-> f[x][m]] : m \in Mods}
<1>1. CopiesAmong(v, i, o, f, x) = here(v) \union queued \union stored
  BY DEF CopiesAmong
<1>2. \A s : c \in here(s) <=> \E j \in DOMAIN s : c = s[j] /\ s[j].id = x
  BY DEF Match
<1>3. c \in stored <=> \E m \in Mods : c = [id |-> x, mod |-> m, val |-> f[x][m]]
  OBVIOUS
<1> HIDE DEF here, stored
<1>4. c \in queued <=> \E t \in Tiers : c \in here(i[t]) \/ c \in here(o[t])
  OBVIOUS
<1> HIDE DEF queued
<1> QED
  BY <1>1, <1>2, <1>3, <1>4

LEMMA ObjectsKnown == \A j \in DOMAIN id_vector : id_vector[j] \in Copies(id_vector[j].id)
<1>1. \A x : Copies(x) = CopiesAmong(id_vector, inbound, outbound, files, x)
  BY DEF Copies, CopiesAmong
<1> QED
  BY <1>1, CopyPlaces

LEMMA QueuesKnown ==
  ASSUME NEW t \in Tiers
  PROVE  /\ \A j \in DOMAIN inbound[t]  : inbound[t][j] \in Copies(inbound[t][j].id)
         /\ \A j \in DOMAIN outbound[t] : outbound[t][j] \in Copies(outbound[t][j].id)
<1>1. \A x : Copies(x) = CopiesAmong(id_vector, inbound, outbound, files, x)
  BY DEF Copies, CopiesAmong
<1> QED
  BY <1>1, CopyPlaces

LEMMA FilesKnown ==
  ASSUME NEW x \in Ids, NEW m \in Mods
  PROVE  [id |-> x, mod |-> m, val |-> files[x][m]] \in Copies(x)
<1>1. Copies(x) = CopiesAmong(id_vector, inbound, outbound, files, x)
  BY DEF Copies, CopiesAmong
<1> QED
  BY <1>1, CopyPlaces

\* What a tier answers is in memory or on the disk.
LEMMA GetIdSource ==
  ASSUME IInv, NEW t \in Tiers, NEW x \in Ids
  PROVE  Known(GetId(t, x))
<1>1. EnvInv /\ DataInv
  BY DEF IInv
<1>2. CASE t = Mem /\ View(x) # -1
  <2>1. GetId(t, x) = First(id_vector, x)
    BY <1>2 DEF GetId
  <2>2. Match(id_vector, x) # {} /\ id_vector \in Seq(Past)
    BY <1>1, <1>2, VersionType DEF View, DataInv
  <2>3. \E j \in DOMAIN id_vector : First(id_vector, x) = id_vector[j]
    BY <2>2, FirstIn
  <2> QED
    BY <2>1, <2>3, ObjectsKnown DEF Known
<1>3. CASE t # Mem /\ Listed(t, x)
  <2> DEFINE m == Version(storage[t], x)
  <2>1. GetId(t, x) = [id |-> x, mod |-> m, val |-> files[x][m]]
    BY <1>3 DEF GetId
  <2>2. m \in Mods
    <3>1. storage[t] \in Seq(PastEntry) /\ Match(storage[t], x) # {}
      BY <1>1, <1>3 DEF DataInv, Listed
    <3>2. First(storage[t], x) \in PastEntry
      BY <3>1, FirstIn
    <3>3. First(storage[t], x).mod \in Mods
      BY <1>1, <3>2, BoundsAssumption DEF PastEntry, EnvInv, Mods
    <3> QED
      BY <3>1, <3>3 DEF Version
  <2> HIDE DEF m
  <2> QED
    BY <2>1, <2>2, FilesKnown DEF Known
<1>4. CASE ~(t = Mem /\ View(x) # -1) /\ ~(t # Mem /\ Listed(t, x))
  <2>1. GetId(t, x) = Blank(x)
    BY <1>4 DEF GetId
  <2> QED
    BY <2>1 DEF Known, Blank, NoFile
<1> QED
  BY <1>2, <1>3, <1>4

LEMMA FillSource ==
  ASSUME IInv, NEW t \in Tiers, NEW q \in Seq(Past), \A j \in DOMAIN q : Known(q[j])
  PROVE  \A j \in DOMAIN Fill(t, q) : Known(Fill(t, q)[j])
<1>1. DOMAIN Fill(t, q) = DOMAIN q
  BY FillType DEF IInv
<1>2. ASSUME NEW j \in DOMAIN q
      PROVE  Known(Fill(t, q)[j])
  <2>1. q[j] \in Past
    BY LenProperties, ElementOfSeq
  <2>2. q[j].id \in Ids
    BY <2>1 DEF Past
  <2>3. Fill(t, q)[j] = q[j] \/ Fill(t, q)[j] = GetId(t, q[j].id)
    BY DEF Fill
  <2> QED
    BY <2>2, <2>3, GetIdSource
<1> QED
  BY <1>1, <1>2

\* One entry more, or less.
LEMMA AppendSource ==
  ASSUME NEW q \in Seq(Past), NEW e \in Past, Known(e), \A j \in DOMAIN q : Known(q[j])
  PROVE  /\ Append(q, e) \in Seq(Past)
         /\ \A j \in DOMAIN Append(q, e) : Known(Append(q, e)[j])
<1> DEFINE a == Append(q, e)
<1>1. /\ a \in Seq(Past) /\ DOMAIN a = 1 .. Len(q) + 1 /\ a[Len(q) + 1] = e
      /\ \A j \in DOMAIN q : a[j] = q[j]
      /\ DOMAIN q = 1 .. Len(q) /\ Len(q) \in Nat
  BY AppendType, LenProperties
<1> HIDE DEF a
<1>2. \A j \in DOMAIN a : j \in DOMAIN q \/ j = Len(q) + 1
  BY <1>1
<1>3. \A j \in DOMAIN a : Known(a[j])
  BY <1>1, <1>2
<1> QED
  BY <1>1, <1>3 DEF a

LEMMA RemoveSource ==
  ASSUME NEW q \in Seq(Past), NEW k \in DOMAIN q, \A j \in DOMAIN q : Known(q[j])
  PROVE  \A j \in DOMAIN RemoveAt(q, k) : Known(RemoveAt(q, k)[j])
<1>1. \A j \in DOMAIN RemoveAt(q, k) : \E i \in DOMAIN q : RemoveAt(q, k)[j] = q[i]
  BY RemoveAtType
<1> QED
  BY <1>1

\* Every entry of a queue comes from a queue, from memory or from a file.
LEMMA QueueSources ==
  ASSUME IInv, RInv, Next
  PROVE  \A t \in Tiers : /\ \A j \in DOMAIN inbound'[t]  : Known(inbound'[t][j])
                          /\ \A j \in DOMAIN outbound'[t] : Known(outbound'[t][j])
<1>1. inbound \in [Tiers -> Seq(Past)] /\ outbound \in [Tiers -> Seq(Past)]
  BY DEF IInv, QueueInv
<1>2. \A t \in Tiers : /\ \A j \in DOMAIN inbound[t]  : Known(inbound[t][j])
                       /\ \A j \in DOMAIN outbound[t] : Known(outbound[t][j])
  BY QueuesKnown DEF Known
<1>3. ASSUME NEW t \in Tiers, NEW q \in Seq(Past), \A j \in DOMAIN q : Known(q[j]),
             \/ UNCHANGED inbound
             \/ inbound' = [inbound EXCEPT ![t] = Fill(t, q)]
      PROVE  \A u \in Tiers : \A j \in DOMAIN inbound'[u] : Known(inbound'[u][j])
  <2>1. \A j \in DOMAIN Fill(t, q) : Known(Fill(t, q)[j])
    BY <1>3, FillSource
  <2> QED
    BY <1>1, <1>2, <1>3, <2>1
<1>4. CASE UNCHANGED queue
  BY <1>2, <1>4 DEF queue
<1>5. CASE Crash
  <2>1. /\ inbound' = [t \in Tiers |-> <<>>]
        /\ outbound' = [t \in Tiers |-> <<>>]
    BY <1>5 DEF Crash
  <2> QED
    BY <2>1
<1>6. CASE FlushMem \/ FlushFails \/ \E content \in -3..MaxEdits : FlushDisk(content)
  <2>1. AtEntry /\ (Stored \/ Kept) /\ UNCHANGED inbound
    BY <1>6 DEF FlushMem, FlushFails, FlushDisk
  <2>2. call.tier \in Tiers /\ call.k \in DOMAIN outbound[call.tier]
    BY <2>1, CurrentType
  <2> DEFINE r == RemoveAt(outbound[call.tier], call.k)
  <2>3. \A j \in DOMAIN r : Known(r[j])
    BY <1>1, <1>2, <2>2, RemoveSource
  <2>4. UNCHANGED outbound \/ outbound' = [outbound EXCEPT ![call.tier] = r]
    BY <2>1 DEF Stored, Kept
  <2> HIDE DEF r
  <2> QED
    BY <1>1, <1>2, <2>1, <2>2, <2>3, <2>4
<1>7. CASE ShiftFetch \/ ShiftEnd
  <2>1. DOMAIN moves # {}
    BY <1>7 DEF ShiftFetch, ShiftEnd, IInv, CtlInv, Point
  <2>2. m0.id \in Ids /\ m0.from \in Tiers
    BY <2>1, FirstMove DEF IInv
  <2> DEFINE q == inbound[m0.from]
             b == Append(q, Blank(m0.id))
  <2>3. q \in Seq(Past) /\ \A j \in DOMAIN q : Known(q[j])
    BY <1>1, <1>2, <2>2
  <2>4. b \in Seq(Past) /\ \A j \in DOMAIN b : Known(b[j])
    <3>1. Blank(m0.id) \in Past /\ Known(Blank(m0.id))
      BY <2>2, BlankType DEF IInv, Known, Blank, NoFile
    <3> HIDE DEF q
    <3> QED
      BY <2>3, <3>1, AppendSource
  <2>5. /\ UNCHANGED outbound
        /\ \/ UNCHANGED inbound
           \/ inbound' = [inbound EXCEPT ![m0.from] = Fill(m0.from, b)]
           \/ inbound' = [inbound EXCEPT ![m0.from] = Fill(m0.from, q)]
    BY <1>7 DEF ShiftFetch, ShiftEnd, CallLoop
  <2> HIDE DEF q, b
  <2> QED
    BY <1>2, <1>3, <2>2, <2>3, <2>4, <2>5
<1>8. CASE Turn
  <2>1. Order[row] \in Tiers
    <3>1. row \in 1 .. Len(Order)
      BY TiersAssumption, LenProperties DEF IInv, CtlInv
    <3> QED
      BY <3>1, TiersAssumption, ElementOfSeq
  <2>2. /\ inbound[Order[row]] \in Seq(Past)
        /\ \A j \in DOMAIN inbound[Order[row]] : Known(inbound[Order[row]][j])
    BY <1>1, <1>2, <2>1
  <2>3. /\ UNCHANGED outbound
        /\ inbound' = [inbound EXCEPT ![Order[row]] = Fill(Order[row], inbound[Order[row]])]
    BY <1>8 DEF Turn, CallLoop
  <2> QED
    BY <1>2, <1>3, <2>1, <2>2, <2>3
<1>9. CASE ShiftTake
  <2> DEFINE from == m0.from
             to == m0.to
             q == inbound[from]
             k == Min(Match(q, m0.id))
             e == q[k]
             r == RemoveAt(q, k)
             f == Fill(to, inbound[to])
             o == Append(outbound[to], e)
  <2>1. DOMAIN moves # {} /\ from \in Tiers /\ to \in Tiers
    BY <1>9, FirstMove DEF ShiftTake, IInv, CtlInv, Point
  <2>2. q \in Seq(Past) /\ k \in DOMAIN q /\ e \in Past
    <3>1. q \in Seq(Past) /\ Match(q, m0.id) # {}
      BY <1>1, <1>9, <2>1 DEF ShiftTake, IInv, Answered, Point
    <3>2. k \in DOMAIN q /\ First(q, m0.id) \in Past /\ First(q, m0.id) = e
      BY <3>1, FirstIn
    <3> QED
      BY <3>1, <3>2
  <2>3. \A j \in DOMAIN q : Known(q[j])
    BY <1>2, <2>1
  <2>4. \A j \in DOMAIN r : Known(r[j])
    BY <2>2, <2>3, RemoveSource
  <2>5. \A j \in DOMAIN f : Known(f[j])
    BY <1>1, <1>2, <2>1, FillSource
  <2>6. \A j \in DOMAIN o : Known(o[j])
    <3>1. /\ Known(e) /\ outbound[to] \in Seq(Past)
          /\ \A j \in DOMAIN outbound[to] : Known(outbound[to][j])
      BY <1>1, <1>2, <2>1, <2>2, <2>3
    <3> QED
      BY <2>2, <3>1, AppendSource
  <2>7. \/ UNCHANGED queue
        \/ inbound' = [inbound EXCEPT ![from] = r] /\ UNCHANGED outbound
        \/ /\ inbound' = [inbound EXCEPT ![from] = r, ![to] = f]
           /\ outbound' = [outbound EXCEPT ![to] = o]
    BY <1>9 DEF ShiftTake
  <2> HIDE DEF q, k, e, r, f, o
  <2>8. CASE inbound' = [inbound EXCEPT ![from] = r] /\ UNCHANGED outbound
    BY <1>1, <1>2, <2>1, <2>4, <2>8
  <2>9. CASE /\ inbound' = [inbound EXCEPT ![from] = r, ![to] = f]
             /\ outbound' = [outbound EXCEPT ![to] = o]
    <3>1. \A u \in Tiers : inbound'[u] = IF u = to THEN f ELSE IF u = from THEN r ELSE inbound[u]
      BY <1>1, <2>1, <2>9
    <3>2. \A u \in Tiers : outbound'[u] = IF u = to THEN o ELSE outbound[u]
      BY <1>1, <2>1, <2>9
    <3> QED
      BY <1>2, <2>4, <2>5, <2>6, <3>1, <3>2
  <2> QED
    BY <1>4, <2>7, <2>8, <2>9
<1>10. CASE /\ ~FlushMem /\ ~FlushFails /\ ~ShiftTake /\ ~ShiftFetch /\ ~ShiftEnd
            /\ ~Turn /\ ~Crash
            /\ ~ \E content \in -3..MaxEdits : FlushDisk(content)
  <2>1. UNCHANGED queue
    BY <1>10 DEF Next, App, Busy, Flush, Create, Edit, Lookup, Churn,
       BeginTierLoop, FlushEnd, NextMove, VisitPair, Refresh
  <2> QED
    BY <1>4, <2>1
<1> QED
  BY <1>5, <1>6, <1>7, <1>8, <1>9, <1>10

\* Every object comes from memory or a queue, unless it is new or edited.
LEMMA ObjectSources ==
  ASSUME IInv, RInv, Next, NEW j \in DOMAIN id_vector'
  PROVE  \/ Known(id_vector'[j])
         \/ \E y \in Ids : Create(y) /\ id_vector'[j] = [id |-> y, mod |-> 0, val |-> 0]
         \/ \E y \in Ids : /\ Edit(y)
                           /\ id_vector'[j] = [id |-> y, mod |-> View(y) + 1, val |-> edits + 1]
<1>1. id_vector \in Seq(Past)
  BY DEF IInv, DataInv
<1>2. \A i \in DOMAIN id_vector : Known(id_vector[i])
  BY ObjectsKnown DEF Known
<1>3. ASSUME NEW o, id_vector' = Append(id_vector, o)
      PROVE  Known(id_vector'[j]) \/ id_vector'[j] = o
  <2>1. /\ DOMAIN id_vector' = 1 .. Len(id_vector) + 1
        /\ DOMAIN id_vector = 1 .. Len(id_vector)
        /\ Len(id_vector) \in Nat
        /\ id_vector'[Len(id_vector) + 1] = o
        /\ \A i \in DOMAIN id_vector : id_vector'[i] = id_vector[i]
    BY <1>1, <1>3, AppendProperties, LenProperties
  <2>2. j \in DOMAIN id_vector \/ j = Len(id_vector) + 1
    BY <2>1
  <2> QED
    BY <1>2, <2>1, <2>2
<1>4. ASSUME NEW y \in Ids, Create(y)
      PROVE  Known(id_vector'[j]) \/ id_vector'[j] = [id |-> y, mod |-> 0, val |-> 0]
  BY <1>3, <1>4 DEF Create
<1>5. ASSUME NEW y \in Ids, Edit(y)
      PROVE  \/ Known(id_vector'[j])
             \/ id_vector'[j] = [id |-> y, mod |-> View(y) + 1, val |-> edits + 1]
  BY <1>2, <1>5 DEF Edit
<1>6. CASE FlushMem
  <2>1. Known(Current)
    <3>1. call.tier \in Tiers /\ call.k \in DOMAIN outbound[call.tier]
      BY <1>6, CurrentType DEF FlushMem
    <3> QED
      BY <3>1, QueuesKnown DEF Known, Current
  <2>2. UNCHANGED id_vector \/ id_vector' = Append(id_vector, Current)
    BY <1>6 DEF FlushMem
  <2> QED
    BY <1>2, <1>3, <2>1, <2>2
<1>7. CASE Crash
  BY <1>7 DEF Crash
<1>8. CASE /\ ~FlushMem /\ ~Crash
           /\ ~ \E y \in Ids : Create(y) \/ Edit(y)
  <2>1. UNCHANGED id_vector
    BY <1>8 DEF Next, App, Busy, Flush, Lookup, Churn, BeginTierLoop,
       FlushFails, FlushEnd, FlushDisk, ShiftFetch, ShiftTake, ShiftEnd,
       NextMove, VisitPair, Turn, Refresh, data
  <2> QED
    BY <1>2, <2>1
<1> QED
  BY <1>4, <1>5, <1>6, <1>7, <1>8

\* Every file that can be read was there, or was written from a queue.
LEMMA FileSources ==
  ASSUME IInv, RInv, Next, NEW x \in Ids, NEW m \in Mods, files'[x][m] >= 0
  PROVE  [id |-> x, mod |-> m, val |-> files'[x][m]] \in Copies(x)
<1>1. CASE UNCHANGED files
  BY <1>1, FilesKnown
<1>2. ASSUME NEW content \in {Empty, Torn, Current.val}, AtEntry,
             files' = [files EXCEPT ![Current.id][Current.mod] = content]
      PROVE  [id |-> x, mod |-> m, val |-> files'[x][m]] \in Copies(x)
  <2>1. /\ call.tier \in Tiers /\ call.k \in DOMAIN outbound[call.tier]
        /\ Current \in Past
    BY <1>2, CurrentType
  <2>2. Current \in Copies(Current.id)
    BY <2>1, QueuesKnown DEF Current
  <2>3. files'[x][m] = IF x = Current.id /\ m = Current.mod THEN content ELSE files[x][m]
    BY <1>2, <2>1 DEF IInv, DataInv, Past
  <2>4. CASE x = Current.id /\ m = Current.mod
    <3>1. content = Current.val
      BY <1>2, <2>3, <2>4 DEF Empty, Torn
    <3>2. Current = [id |-> Current.id, mod |-> Current.mod, val |-> Current.val]
      BY <2>1 DEF Past
    <3> QED
      BY <2>2, <2>3, <2>4, <3>1, <3>2
  <2>5. CASE ~(x = Current.id /\ m = Current.mod)
    BY <2>3, <2>5, FilesKnown
  <2> QED
    BY <2>4, <2>5
<1>3. ASSUME NEW content \in -3..MaxEdits, FlushDisk(content)
      PROVE  [id |-> x, mod |-> m, val |-> files'[x][m]] \in Copies(x)
  <2>1. /\ AtEntry /\ content \in {Empty, Torn, Current.val}
        /\ files' = [files EXCEPT ![Current.id][Current.mod] = content]
    BY <1>3 DEF FlushDisk
  <2> QED
    BY <1>2, <2>1
<1>4. CASE Crash
  <2>1. \/ UNCHANGED files
        \/ /\ AtEntry
           /\ \E content \in {Empty, Torn, Current.val} :
                files' = [files EXCEPT ![Current.id][Current.mod] = content]
    BY <1>4 DEF Crash
  <2> QED
    BY <1>1, <1>2, <2>1
<1>5. CASE ~Crash /\ ~ \E content \in -3..MaxEdits : FlushDisk(content)
  <2>1. UNCHANGED files
    BY <1>5 DEF Next, App, Busy, Flush, Create, Edit, Lookup, Churn,
       BeginTierLoop, FlushMem, FlushFails, FlushEnd, ShiftFetch, ShiftTake,
       ShiftEnd, NextMove, VisitPair, Turn, Refresh, data
  <2> QED
    BY <1>1, <2>1
<1> QED
  BY <1>3, <1>4, <1>5

\* A readable copy of x is an old one, the new object or the edited one.
LEMMA CopySources ==
  ASSUME IInv, RInv, Next, NEW x \in Ids, NEW c \in Copies(x)', c.val >= 0
  PROVE  \/ c \in Copies(x)
         \/ Create(x) /\ c = [id |-> x, mod |-> 0, val |-> 0]
         \/ Edit(x) /\ c = [id |-> x, mod |-> View(x) + 1, val |-> edits + 1]
<1>1. c \in CopiesAmong(id_vector', inbound', outbound', files', x)
  BY DEF Copies, CopiesAmong
<1>2. ASSUME NEW j \in DOMAIN id_vector', c = id_vector'[j], c.id = x
      PROVE  \/ c \in Copies(x)
             \/ Create(x) /\ c = [id |-> x, mod |-> 0, val |-> 0]
             \/ Edit(x) /\ c = [id |-> x, mod |-> View(x) + 1, val |-> edits + 1]
  <2>1. CASE Known(c)
    BY <1>2, <2>1 DEF Known
  <2>2. ASSUME NEW y \in Ids, Create(y), c = [id |-> y, mod |-> 0, val |-> 0]
        PROVE  Create(x) /\ c = [id |-> x, mod |-> 0, val |-> 0]
    <3>1. y = x
      BY <1>2, <2>2
    <3> QED
      BY <2>2, <3>1
  <2>3. ASSUME NEW y \in Ids, Edit(y),
               c = [id |-> y, mod |-> View(y) + 1, val |-> edits + 1]
        PROVE  Edit(x) /\ c = [id |-> x, mod |-> View(x) + 1, val |-> edits + 1]
    <3>1. y = x
      BY <1>2, <2>3
    <3> QED
      BY <2>3, <3>1
  <2> QED
    BY <1>2, <2>1, <2>2, <2>3, ObjectSources
<1>3. ASSUME NEW t \in Tiers, c.id = x,
             \/ \E j \in DOMAIN inbound'[t]  : c = inbound'[t][j]
             \/ \E j \in DOMAIN outbound'[t] : c = outbound'[t][j]
      PROVE  c \in Copies(x)
  <2>1. Known(c)
    BY <1>3, QueueSources
  <2> QED
    BY <1>3, <2>1 DEF Known
<1>4. ASSUME NEW m \in Mods, c = [id |-> x, mod |-> m, val |-> files'[x][m]]
      PROVE  c \in Copies(x)
  BY <1>4, FileSources
<1> QED
  BY <1>1, <1>2, <1>3, <1>4, CopyPlaces

-----------------------------------------------------------------------------
(* ContentInv holds at the start and after every step.                     *)

\* A copy of what is not in memory can be read in the folder too.
LEMMA StoredWhenUnseen ==
  ASSUME IInv, RInv, NEW x \in Ids, View(x) = -1, NEW c \in Good(x)
  PROVE  c.mod \in Mods /\ files[x][c.mod] >= 0
<1>1. c \in CopiesAmong(id_vector, inbound, outbound, files, x) /\ c.val >= 0
  BY DEF Good, Copies, CopiesAmong
<1>2. EnvInv /\ id_vector \in Seq(Past)
  BY DEF IInv, DataInv
<1>3. Match(id_vector, x) = {}
  BY <1>2, VersionType DEF View
<1>4. ASSUME c \in Past, c.id = x, Seen(World, c) \/ Fresh(World, c)
      PROVE  c.mod \in Mods /\ files[x][c.mod] >= 0
  <2>1. c.mod \in Mods /\ c.mod \in Nat
    BY <1>2, <1>4, BoundsAssumption DEF Past, EnvInv, Mods
  <2>2. Version(id_vector, x) = -1
    BY DEF View
  <2>3. ~Seen(World, c)
    BY <1>4, <2>1, <2>2 DEF Seen, World
  <2>4. files[x][c.mod] = c.val
    BY <1>4, <2>2, <2>3 DEF Fresh, World
  <2> QED
    BY <1>1, <2>1, <2>4
<1>5. Filled(c)
  BY <1>1 DEF Filled, NoFile, Empty
<1>6. ASSUME NEW t \in Tiers, NEW j \in DOMAIN inbound[t], c = inbound[t][j], c.id = x
      PROVE  c.mod \in Mods /\ files[x][c.mod] >= 0
  <2>1. Answer(World, t, c)
    BY <1>6 DEF RInv, CopiesKnown
  <2>2. c \in Past
    BY <1>6, LenProperties, ElementOfSeq DEF IInv, QueueInv
  <2> QED
    BY <1>4, <1>5, <1>6, <2>1, <2>2 DEF Answer
<1>7. ASSUME NEW t \in Tiers, NEW j \in DOMAIN outbound[t], c = outbound[t][j], c.id = x
      PROVE  c.mod \in Mods /\ files[x][c.mod] >= 0
  <2>1. Ready(World, t, c)
    BY <1>7 DEF RInv, CopiesKnown
  <2>2. c \in Past
    BY <1>7, LenProperties, ElementOfSeq DEF IInv, QueueInv
  <2> QED
    BY <1>4, <1>7, <2>1, <2>2 DEF Ready
<1>8. ASSUME NEW m \in Mods, c = [id |-> x, mod |-> m, val |-> files[x][m]]
      PROVE  c.mod \in Mods /\ files[x][c.mod] >= 0
  BY <1>1, <1>8
<1>9. ASSUME NEW j \in DOMAIN id_vector, c = id_vector[j], id_vector[j].id = x
      PROVE  FALSE
  BY <1>3, <1>9 DEF Match
<1> QED
  BY <1>1, <1>6, <1>7, <1>8, <1>9, CopyPlaces

\* There is no copy of what was never created.
LEMMA NothingUnborn ==
  ASSUME IInv, RInv, NEW x \in Ids, x \notin born
  PROVE  View(x) = -1 /\ Good(x) = {}
<1>1. View(x) = -1
  BY DEF RInv, BornFirst, View, Version, Match
<1>2. ASSUME NEW c \in Good(x) PROVE FALSE
  <2>1. c.mod \in Mods /\ files[x][c.mod] >= 0
    BY <1>1, StoredWhenUnseen
  <2> QED
    BY <2>1 DEF RInv, BornFirst, NoFile
<1> QED
  BY <1>1, <1>2

\* The version of a copy is a number.
LEMMA GoodType ==
  ASSUME IInv, NEW x \in Ids, NEW c \in Good(x)
  PROVE  c.mod \in Mods /\ c.mod \in Nat
<1>1. c \in CopiesAmong(id_vector, inbound, outbound, files, x)
  BY DEF Good, Copies, CopiesAmong
<1>2. Mods \subseteq Nat /\ \A e \in Past : e.mod \in Mods
  BY BoundsAssumption DEF IInv, EnvInv, Past, Mods
<1>3. \A q \in Seq(Past) : \A j \in DOMAIN q : q[j] \in Past
  BY LenProperties, ElementOfSeq
<1>4. /\ id_vector \in Seq(Past)
      /\ inbound \in [Tiers -> Seq(Past)] /\ outbound \in [Tiers -> Seq(Past)]
  BY DEF IInv, DataInv, QueueInv
<1>5. c \in Past \/ \E m \in Mods : c = [id |-> x, mod |-> m, val |-> files[x][m]]
  BY <1>1, <1>3, <1>4, CopyPlaces
<1>6. c.mod \in Mods
  <2>1. CASE c \in Past
    BY <1>2, <2>1
  <2>2. CASE \E m \in Mods : c = [id |-> x, mod |-> m, val |-> files[x][m]]
    BY <2>2
  <2> QED
    BY <1>5, <2>1, <2>2
<1> QED
  BY <1>2, <1>6

\* What comes into memory is as new as anything, or marked as stale.
LEMMA SeenNewest ==
  ASSUME IInv, RInv, Next, NEW x \in Ids \ hist'.stale,
         View(x) = -1, View(x)' # -1, NEW c \in Good(x)
  PROVE  c.mod <= View(x)'
<1>1. EnvInv /\ id_vector \in Seq(Past) /\ Match(id_vector, x) = {}
  <2>1. EnvInv /\ id_vector \in Seq(Past)
    BY DEF IInv, DataInv
  <2> QED
    BY <2>1, VersionType DEF View
<1>2. ASSUME NEW o \in Past, id_vector' = Append(id_vector, o)
      PROVE  o.id = x /\ View(x)' = o.mod
  BY <1>1, <1>2, VersionAppend DEF View
<1>3. c.mod \in Mods /\ files[x][c.mod] >= 0 /\ c.mod \in Nat
  BY StoredWhenUnseen, GoodType
<1>4. ASSUME NEW y \in Ids, Create(y)
      PROVE  FALSE
  <2>1. [id |-> y, mod |-> 0, val |-> 0] \in Past
    BY <1>1, BoundsAssumption DEF Past, EnvInv
  <2>2. y = x
    BY <1>2, <1>4, <2>1 DEF Create
  <2> QED
    BY <1>4, <2>2, NothingUnborn DEF Create
<1>5. CASE FlushMem
  <2>1. Current \in Past
    BY <1>5, CurrentType DEF FlushMem
  <2>2. id_vector' = Append(id_vector, Current)
    BY <1>5 DEF FlushMem, View
  <2>3. Current.id = x /\ View(x)' = Current.mod /\ Current.mod \in Nat
    BY <1>1, <1>2, <2>1, <2>2 DEF Past, EnvInv
  <2>4. ~ \E m \in Mods : m > Current.mod /\ files[x][m] >= 0
    <3>1. hist' = [hist EXCEPT !.stale =
                     IF View(Current.id) = -1
                        /\ \E m \in Mods : m > Current.mod /\ files[Current.id][m] >= 0
                     THEN @ \union {Current.id} ELSE @]
      <4>1. id_vector' # id_vector
        <5>1. id_vector' = id_vector => View(x)' = View(x)
          BY DEF View
        <5> QED
          BY <5>1
      <4> QED
        BY <1>5, <4>1 DEF FlushMem
    <3> QED
      BY <1>1, <2>3, <3>1 DEF EnvInv
  <2> QED
    BY <1>3, <2>3, <2>4
<1>6. ASSUME NEW y \in Ids, Edit(y)
      PROVE  FALSE
  <2>1. EnvInv /\ id_vector \in Seq(Past) /\ Match(id_vector, y) # {}
    BY <1>1, <1>6 DEF Edit, View, Version
  <2> DEFINE o == [id |-> y, mod |-> Version(id_vector, y) + 1, val |-> edits + 1]
             s == [id_vector EXCEPT ![Min(Match(id_vector, y))] = o]
  <2>2. /\ Version(s, x) = IF x = y THEN Version(id_vector, y) + 1
                           ELSE Version(id_vector, x)
        /\ Version(s, x) >= Version(id_vector, x)
    BY <2>1, VersionEdit, Zenon
  <2>3. x # y
    BY <1>1, <2>1
  <2>4. id_vector' = s
    BY <1>6 DEF Edit, View
  <2> HIDE DEF s
  <2> QED
    BY <2>2, <2>3, <2>4 DEF View
<1>7. CASE Crash
  BY <1>7 DEF Crash, View, Version, Match
<1>8. CASE /\ ~FlushMem /\ ~Crash
           /\ ~ \E y \in Ids : Create(y) \/ Edit(y)
  <2>1. UNCHANGED id_vector
    BY <1>8 DEF Next, App, Busy, Flush, Lookup, Churn, BeginTierLoop,
       FlushFails, FlushEnd, FlushDisk, ShiftFetch, ShiftTake, ShiftEnd,
       NextMove, VisitPair, Turn, Refresh, data
  <2> QED
    BY <2>1 DEF View
<1> QED
  BY <1>4, <1>5, <1>6, <1>7, <1>8

LEMMA StaleGrows ==
  ASSUME IInv, Next
  PROVE  hist.stale \subseteq hist'.stale
BY DEF IInv, EnvInv, Next, App, AppStep, Busy, Flush, Create, Edit, Lookup, Churn,
   BeginTierLoop, FlushMem, FlushDisk, FlushFails, FlushEnd, ShiftFetch, ShiftTake,
   ShiftEnd, NextMove, VisitPair, Turn, Refresh, Crash

\* The version of an edited object.
LEMMA EditedView ==
  ASSUME IInv, NEW x \in Ids, Edit(x)
  PROVE  View(x)' = View(x) + 1 /\ View(x) \in Nat
<1>1. EnvInv /\ id_vector \in Seq(Past)
  BY DEF IInv, DataInv
<1>2. View(x) \in Nat /\ Match(id_vector, x) # {}
  BY <1>1, VersionType DEF Edit, View
<1> DEFINE o == [id |-> x, mod |-> Version(id_vector, x) + 1, val |-> edits + 1]
           s == [id_vector EXCEPT ![Min(Match(id_vector, x))] = o]
<1>3. Version(s, x) = Version(id_vector, x) + 1
  <2>1. /\ Version(s, x) = IF x = x THEN Version(id_vector, x) + 1
                           ELSE Version(id_vector, x)
        /\ Version(s, x) >= Version(id_vector, x)
    BY <1>1, <1>2, VersionEdit, Zenon
  <2> QED
    BY <2>1
<1>4. id_vector' = s
  BY DEF Edit, View
<1> HIDE DEF s
<1> QED
  BY <1>2, <1>3, <1>4 DEF View

\* The version a lookup finds, before and after a step.
LEMMA ViewType ==
  ASSUME IInv, IInv', NEW x \in Ids
  PROVE  View(x) \in Int /\ View(x) >= -1 /\ View(x)' \in Int /\ View(x)' >= -1
<1>1. EnvInv /\ id_vector \in Seq(Past)
  BY DEF IInv, DataInv
<1>2. View(x) \in Int /\ View(x) >= -1
  BY <1>1, VersionType DEF View
<1>3. EnvInv' /\ id_vector' \in Seq(Past')
  BY DEF IInv, DataInv
<1>4. CASE Match(id_vector', x) = {}
  <2>1. View(x)' = -1
    BY <1>4 DEF View, Version
  <2> QED
    BY <1>2, <2>1
<1>5. CASE Match(id_vector', x) # {}
  <2>1. First(id_vector', x) \in Past'
    BY <1>3, <1>5, FirstIn
  <2>2. View(x)' = First(id_vector', x).mod
    BY <1>5 DEF View, Version
  <2>3. View(x)' \in Nat
    BY <1>3, <2>1, <2>2 DEF Past, EnvInv
  <2> QED
    BY <1>2, <2>3
<1> QED
  BY <1>4, <1>5

LEMMA EditsNewestNext ==
  ASSUME IInv, IInv', RInv, ContentInv, Next
  PROVE  EditsNewest'
<1> SUFFICES ASSUME NEW x \in Ids \ hist'.stale, View(x)' # -1, NEW c \in Good(x)'
             PROVE  c.mod <= View(x)'
  BY DEF EditsNewest
<1>1. x \in Ids \ hist.stale
  BY StaleGrows
<1>2. View(x) \in Int /\ View(x)' \in Int /\ View(x)' >= -1
  BY ViewType
<1>3. c \in Copies(x)' /\ c.val >= 0
  BY DEF Good
<1>4. CASE c \in Copies(x)
  <2>1. c \in Good(x)
    BY <1>3, <1>4 DEF Good
  <2>2. CASE View(x) = -1
    BY <2>1, <2>2, SeenNewest
  <2>3. CASE View(x) # -1
    <3>1. c.mod <= View(x) /\ c.mod \in Nat
      BY <1>1, <2>1, <2>3, GoodType DEF ContentInv, EditsNewest
    <3>2. ~Crash
      BY DEF Crash, View, Version, Match
    <3>3. View(x)' >= View(x)
      BY <3>2, ViewStep
    <3> QED
      BY <1>2, <3>1, <3>3
  <2> QED
    BY <2>2, <2>3
<1>5. CASE Create(x) /\ c = [id |-> x, mod |-> 0, val |-> 0]
  BY <1>2, <1>5
<1>6. CASE Edit(x) /\ c = [id |-> x, mod |-> View(x) + 1, val |-> edits + 1]
  BY <1>2, <1>6, EditedView
<1> QED
  BY <1>3, <1>4, <1>5, <1>6, CopySources

LEMMA IdentifiesNext ==
  ASSUME IInv, RInv, ContentInv, Next
  PROVE  VersionIdentifiesContent'
<1> SUFFICES ASSUME NEW x \in Ids \ hist'.stale,
                    NEW a \in Copies(x)', NEW b \in Copies(x)',
                    a.mod = b.mod, a.val >= 0, b.val >= 0
             PROVE  a.val = b.val
  BY DEF VersionIdentifiesContent
<1>1. x \in Ids \ hist.stale
  BY StaleGrows
<1>2. CASE a \in Copies(x) /\ b \in Copies(x)
  BY <1>1, <1>2 DEF ContentInv, VersionIdentifiesContent
<1>3. CASE Create(x)
  <2>1. Good(x) = {} /\ ~Edit(x)
    BY <1>3, NothingUnborn DEF Create, Edit
  <2>2. a \notin Copies(x) /\ b \notin Copies(x)
    BY <2>1 DEF Good
  <2>3. a = [id |-> x, mod |-> 0, val |-> 0]
    BY <2>1, <2>2, CopySources
  <2>4. b = [id |-> x, mod |-> 0, val |-> 0]
    BY <2>1, <2>2, CopySources
  <2> QED
    BY <2>3, <2>4
<1>4. CASE Edit(x) /\ ~Create(x)
  <2> DEFINE o == [id |-> x, mod |-> View(x) + 1, val |-> edits + 1]
  <2>1. \A c \in Good(x) : c.mod <= View(x) /\ c.mod \in Nat
    BY <1>1, <1>4, GoodType DEF ContentInv, EditsNewest, Edit
  <2>2. View(x) \in Nat
    BY <1>4, EditedView
  <2>3. a \in Good(x) \/ a = o
    BY <1>4, CopySources DEF Good
  <2>4. b \in Good(x) \/ b = o
    BY <1>4, CopySources DEF Good
  <2>5. o.mod > View(x) /\ o.mod \in Int
    BY <2>2
  <2> HIDE DEF o
  <2>6. a = o <=> b = o
    BY <2>1, <2>2, <2>3, <2>4, <2>5
  <2>7. CASE a = o
    BY <2>6, <2>7
  <2>8. CASE a # o
    <3>1. a \in Copies(x) /\ b \in Copies(x)
      BY <2>3, <2>4, <2>6, <2>8 DEF Good
    <3> QED
      BY <1>2, <3>1
  <2> QED
    BY <2>7, <2>8
<1>5. CASE ~Create(x) /\ ~Edit(x)
  <2>1. a \in Copies(x)
    BY <1>5, CopySources
  <2>2. b \in Copies(x)
    BY <1>5, CopySources
  <2> QED
    BY <1>2, <2>1, <2>2
<1> QED
  BY <1>3, <1>4, <1>5

LEMMA ContentNext == IInv /\ IInv' /\ RInv /\ ContentInv /\ [Next]_vars => ContentInv'
<1> SUFFICES ASSUME IInv, IInv', RInv, ContentInv, [Next]_vars
             PROVE  ContentInv'
  OBVIOUS
<1>1. CASE Next
  BY <1>1, EditsNewestNext, IdentifiesNext DEF ContentInv
<1>2. CASE UNCHANGED vars
  <2>1. UNCHANGED <<id_vector, files, inbound, outbound, hist>>
    BY <1>2 DEF vars, data, queue
  <2>2. \A x : Copies(x)' = Copies(x) /\ View(x)' = View(x)
    BY <2>1 DEF Copies, View
  <2>3. \A x : Good(x)' = Good(x)
    BY <2>2 DEF Good
  <2>4. EditsNewest'
    BY <2>1, <2>2, <2>3 DEF ContentInv, EditsNewest
  <2>5. VersionIdentifiesContent'
    BY <2>1, <2>2 DEF ContentInv, VersionIdentifiesContent
  <2> QED
    BY <2>4, <2>5 DEF ContentInv
<1> QED
  BY <1>1, <1>2

LEMMA ContentInit == Init => ContentInv
<1> SUFFICES ASSUME Init PROVE ContentInv
  OBVIOUS
<1>1. IInv /\ RInv
  BY InitInv, InitKnown
<1>2. \A x \in Ids : View(x) = -1 /\ Good(x) = {}
  BY <1>1, NothingUnborn DEF Init
<1>3. VersionIdentifiesContent
  BY <1>2 DEF VersionIdentifiesContent, Good
<1> QED
  BY <1>2, <1>3 DEF ContentInv, EditsNewest

\* Two readable copies of an id with the same modification_incrementor are
\* equal, unless a version that was not the newest on disk was loaded: the
\* promise tier_standard_move_logic and the file names <id>_<mod_inc> rely on.
THEOREM VersionNamesContent == Spec => []VersionIdentifiesContent
<1>1. Init => RInv /\ ContentInv
  BY InitKnown, ContentInit
<1>2. IInv /\ IInv' /\ RInv /\ ContentInv /\ [Next]_vars => (RInv /\ ContentInv)'
  BY RInvNext, ContentNext
<1>3. ContentInv => VersionIdentifiesContent
  BY DEF ContentInv
<1> QED
  BY <1>1, <1>2, <1>3, Invariance, PTL DEF Spec

-----------------------------------------------------------------------------
(***************************************************************************)
(* What an id_tier_loop that runs to its end has put on disk: LoopPersists *)
(* of IdTier, for every number of ids, disk states, edits and faults.      *)
(* The invariant follows an entry of the memory index through the loop.    *)
(***************************************************************************)

\* The folder has this version of e or a newer one, intact or not.
Written(e) == \E m \in Mods : m >= e.mod /\ files[e.id][m] # NoFile

\* A copy newer than what a lookup finds has come from the folder.
Backed ==
  \A x \in Ids : \A c \in Good(x) : c.mod <= View(x) \/ files[x][c.mod] # NoFile

ObjectsGood == \A j \in DOMAIN id_vector : id_vector[j].val >= 0

\* A request of the memory tier is answered at once, and the answer taken
\* before there is another request.
MemAnswers ==
  IF Point = "take" /\ m0.from = Mem
  THEN View(m0.id) # -1 /\ inbound[Mem] = <<First(id_vector, m0.id)>>
  ELSE inbound[Mem] = <<>>

\* A lookup is over before id_tier_loop begins, and while no write has failed,
\* the loop of a disk is at its first entry.
LoopState ==
  /\ Point = "app" => pc = "app"
  /\ looking => Point \notin {"app", "pair", "refresh"}
  /\ looking \/ pc = "app" => hist.loop # "running"
  /\ hist.loop = "complete" => pc = "app"
  /\ hist.loop = "running" /\ pc = "flush" /\ call.tier # Mem => call.k = 1

\* What the loop started from is still listed, in this version or a newer one.
GoalListed ==
  \A e \in hist.goal :
    /\ e.id \in Own
    /\ \E j \in DOMAIN storage[Mem] :
         storage[Mem][j].id = e.id /\ storage[Mem][j].mod >= e.mod

Queued(d, e) ==
  \E k \in DOMAIN outbound[d] : outbound[d][k].id = e.id /\ outbound[d][k].mod >= e.mod

\* Disk d cannot run its outbound queue, or does.
Engaged(d) == Wedged(d) \/ (pc = "flush" /\ call.tier = d)

\* The shift of e to d is in progress, or is one of those left.
Pending(d, e) ==
  \E j \in DOMAIN moves :
    /\ moves[j] = [id |-> e.id, from |-> Mem, to |-> d]
    /\ \/ Point \in {"shift", "take"}
       \/ Point \in {"missed", "shifted", "threw", "next"} /\ j # Min(DOMAIN moves)

\* The loop still comes to the pair of memory and d.
Ahead(d) ==
  \E r, c \in DOMAIN Order :
    /\ {Order[r], Order[c]} = {Mem, d}
    /\ \/ r > row
       \/ r = row /\ c > col /\ Point # "refresh"
       \/ r = row /\ c = col /\ pc = "pair"

\* What the loop still has to do for e and disk d.
Tracked(d, e) ==
  Written(e) \/ (Queued(d, e) /\ Engaged(d)) \/ Pending(d, e) \/ Ahead(d)

OnTrack == hist.loop = "running" => \A e \in hist.goal : \A d \in Disks : Tracked(d, e)

PersistInv == Backed /\ ObjectsGood /\ MemAnswers /\ LoopState /\ GoalListed
              /\ OnTrack /\ LoopPersists

-----------------------------------------------------------------------------
(* Versions in memory and in the folder.                                   *)

\* A file that is there stays, in whatever state.
LEMMA FilesStay ==
  ASSUME IInv, Next, NEW x \in Ids, NEW m \in Mods, files[x][m] # NoFile
  PROVE  files'[x][m] # NoFile
<1>1. CASE UNCHANGED files
  BY <1>1
<1>2. ASSUME NEW content \in {Empty, Torn, Current.val}, AtEntry,
             files' = [files EXCEPT ![Current.id][Current.mod] = content]
      PROVE  files'[x][m] # NoFile
  <2>1. Current \in Past /\ Current.val # NoFile
    BY <1>2, CurrentType
  <2>2. content # NoFile
    BY <2>1 DEF NoFile, Empty, Torn
  <2> QED
    BY <1>2, <2>1, <2>2 DEF IInv, DataInv, Past
<1>3. ASSUME NEW content \in -3..MaxEdits, FlushDisk(content)
      PROVE  files'[x][m] # NoFile
  <2>1. /\ AtEntry /\ content \in {Empty, Torn, Current.val}
        /\ files' = [files EXCEPT ![Current.id][Current.mod] = content]
    BY <1>3 DEF FlushDisk
  <2> QED
    BY <1>2, <2>1
<1>4. CASE Crash
  <2>1. \/ UNCHANGED files
        \/ /\ AtEntry
           /\ \E content \in {Empty, Torn, Current.val} :
                files' = [files EXCEPT ![Current.id][Current.mod] = content]
    BY <1>4 DEF Crash
  <2> QED
    BY <1>1, <1>2, <2>1
<1>5. CASE ~Crash /\ ~ \E content \in -3..MaxEdits : FlushDisk(content)
  <2>1. UNCHANGED files
    BY <1>5 DEF Next, App, Busy, Flush, Create, Edit, Lookup, Churn,
       BeginTierLoop, FlushMem, FlushFails, FlushEnd, ShiftFetch, ShiftTake,
       ShiftEnd, NextMove, VisitPair, Turn, Refresh, data
  <2> QED
    BY <1>1, <2>1
<1> QED
  BY <1>3, <1>4, <1>5

LEMMA WrittenStays ==
  ASSUME IInv, Next, NEW e \in Entry, Written(e)
  PROVE  Written(e)'
BY FilesStay DEF Written, Entry

LEMMA BackedNext ==
  ASSUME IInv, IInv', RInv, Backed, Next
  PROVE  Backed'
<1> SUFFICES ASSUME NEW x \in Ids, NEW c \in Good(x)'
             PROVE  c.mod <= View(x)' \/ files'[x][c.mod] # NoFile
  BY DEF Backed
<1>1. c \in Copies(x)' /\ c.val >= 0
  BY DEF Good
<1>2. View(x) \in Int /\ View(x)' \in Int
  BY ViewType
<1>3. CASE Crash
  <2>1. c \in CopiesAmong(id_vector', inbound', outbound', files', x)
    BY <1>1 DEF Copies, CopiesAmong
  <2>2. /\ DOMAIN id_vector' = {}
        /\ \A t \in Tiers : DOMAIN inbound'[t] = {} /\ DOMAIN outbound'[t] = {}
    BY <1>3 DEF Crash
  <2>3. \E m \in Mods : c = [id |-> x, mod |-> m, val |-> files'[x][m]]
    BY <2>1, <2>2, CopyPlaces
  <2> QED
    BY <1>1, <2>3 DEF NoFile
<1>4. CASE ~Crash /\ c \in Copies(x)
  <2>1. c \in Good(x)
    BY <1>1, <1>4 DEF Good
  <2>2. c.mod \in Mods /\ c.mod \in Nat
    BY <2>1, GoodType
  <2>3. CASE files[x][c.mod] # NoFile
    BY <2>2, <2>3, FilesStay
  <2>4. CASE c.mod <= View(x)
    <3>1. View(x)' >= View(x)
      BY <1>4, ViewStep
    <3> QED
      BY <1>2, <2>2, <2>4, <3>1
  <2> QED
    BY <2>1, <2>3, <2>4 DEF Backed
<1>5. CASE Create(x) /\ c = [id |-> x, mod |-> 0, val |-> 0]
  <2>1. View(x) = -1
    BY <1>5, NothingUnborn DEF Create
  <2>2. EnvInv /\ id_vector \in Seq(Past) /\ c \in Past /\ c.id = x /\ c.mod = 0
    BY <1>5, BoundsAssumption DEF IInv, DataInv, EnvInv, Past
  <2>3. Match(id_vector, x) = {}
    BY <2>1, <2>2, VersionType DEF View
  <2>4. Version(Append(id_vector, c), x) = 0
    BY <2>2, <2>3, VersionAppend
  <2>5. View(x)' = 0
    BY <1>5, <2>4 DEF Create, View
  <2> QED
    BY <2>2, <2>5
<1>6. CASE Edit(x) /\ c = [id |-> x, mod |-> View(x) + 1, val |-> edits + 1]
  BY <1>2, <1>6, EditedView
<1> QED
  BY <1>1, <1>3, <1>4, <1>5, <1>6, CopySources

LEMMA ObjectsGoodNext ==
  ASSUME IInv, ObjectsGood, Next
  PROVE  ObjectsGood'
<1>1. id_vector \in Seq(Past) /\ edits \in Nat
  BY BoundsAssumption DEF IInv, DataInv, EnvInv
<1>2. ASSUME NEW o, o.val >= 0, id_vector' = Append(id_vector, o)
      PROVE  ObjectsGood'
  <2>1. /\ DOMAIN id_vector' = 1 .. Len(id_vector) + 1
        /\ DOMAIN id_vector = 1 .. Len(id_vector)
        /\ Len(id_vector) \in Nat
        /\ id_vector'[Len(id_vector) + 1] = o
        /\ \A i \in DOMAIN id_vector : id_vector'[i] = id_vector[i]
    BY <1>1, <1>2, AppendProperties, LenProperties
  <2>2. \A j \in DOMAIN id_vector' : j \in DOMAIN id_vector \/ j = Len(id_vector) + 1
    BY <2>1
  <2> QED
    BY <1>2, <2>1, <2>2 DEF ObjectsGood
<1>3. ASSUME NEW x \in Ids, Create(x)
      PROVE  ObjectsGood'
  BY <1>2, <1>3 DEF Create
<1>4. ASSUME NEW x \in Ids, Edit(x)
      PROVE  ObjectsGood'
  <2> DEFINE i == Min(Match(id_vector, x))
             o == [id |-> x, mod |-> View(x) + 1, val |-> edits + 1]
  <2>1. id_vector' = [id_vector EXCEPT ![i] = o]
    BY <1>4 DEF Edit
  <2>2. o.val >= 0
    BY <1>1
  <2> HIDE DEF i, o
  <2>3. \A j \in DOMAIN id_vector' : id_vector'[j] = id_vector[j] \/ id_vector'[j] = o
    BY <2>1
  <2>4. DOMAIN id_vector' = DOMAIN id_vector
    BY <2>1
  <2> QED
    BY <2>2, <2>3, <2>4 DEF ObjectsGood
<1>5. CASE FlushMem
  <2>1. Current \in Past /\ Current.val \notin {NoFile, Empty, Torn}
    BY <1>5, CurrentType DEF FlushMem
  <2>2. Current.val >= 0
    BY <1>1, <2>1 DEF Past, NoFile, Empty, Torn
  <2>3. UNCHANGED id_vector \/ id_vector' = Append(id_vector, Current)
    BY <1>5 DEF FlushMem
  <2> QED
    BY <1>2, <2>2, <2>3 DEF ObjectsGood
<1>6. CASE Crash
  BY <1>6 DEF Crash, ObjectsGood
<1>7. CASE /\ ~FlushMem /\ ~Crash
           /\ ~ \E y \in Ids : Create(y) \/ Edit(y)
  <2>1. UNCHANGED id_vector
    BY <1>7 DEF Next, App, Busy, Flush, Lookup, Churn, BeginTierLoop,
       FlushFails, FlushEnd, FlushDisk, ShiftFetch, ShiftTake, ShiftEnd,
       NextMove, VisitPair, Turn, Refresh, data
  <2> QED
    BY <2>1 DEF ObjectsGood
<1> QED
  BY <1>3, <1>4, <1>5, <1>6, <1>7

-----------------------------------------------------------------------------
(* The request of the memory tier.                                         *)

LEMMA FillEmpty ==
  ASSUME IInv, NEW t \in Tiers
  PROVE  Fill(t, <<>>) = <<>>
<1>1. <<>> \in Seq(Past) /\ DOMAIN <<>> = {}
  OBVIOUS
<1>2. Fill(t, <<>>) \in Seq(Past) /\ DOMAIN Fill(t, <<>>) = {}
  BY <1>1, FillType DEF IInv
<1> QED
  BY <1>2

\* Memory has what its index lists, in what a lookup finds.
LEMMA ListedSeen ==
  ASSUME IInv, NEW x \in Ids, Listed(Mem, x)
  PROVE  Match(id_vector, x) # {} /\ View(x) # -1
<1>1. Match(id_vector, x) # {}
  BY DEF Listed, Match, IInv, MemIndexLags
<1> QED
  BY <1>1, VersionType DEF View, IInv, DataInv

LEMMA MemRequest ==
  ASSUME IInv, ObjectsGood, inbound[Mem] = <<>>, NEW x \in Own, Listed(Mem, x)
  PROVE  LET q == Append(inbound[Mem], Blank(x))
         IN  Unfillable(Mem, q) = {} /\ Fill(Mem, q) = <<First(id_vector, x)>>
<1> DEFINE q == <<Blank(x)>>
           a == First(id_vector, x)
<1>1. x \in Ids /\ Match(id_vector, x) # {} /\ View(x) # -1
  BY ListedSeen, IdsAssumption
<1>2. GetId(Mem, x) = a
  BY <1>1 DEF GetId
<1>3. a.val >= 0
  <2>1. Min(Match(id_vector, x)) \in DOMAIN id_vector
    BY <1>1, FirstIn DEF IInv, DataInv
  <2> QED
    BY <2>1 DEF ObjectsGood, First
<1> HIDE DEF a
<1>4. Filled(a) /\ ~Filled(Blank(x)) /\ Blank(x).id = x
  BY <1>3 DEF Filled, Blank, NoFile, Empty
<1>5. DOMAIN q = {1} /\ q[1] = Blank(x)
  OBVIOUS
<1> HIDE DEF q
<1>6. Unfillable(Mem, q) = {}
  BY <1>2, <1>4, <1>5 DEF Unfillable
<1>7. Fill(Mem, q) = [j \in {1} |-> a]
  BY <1>2, <1>4, <1>5, <1>6 DEF Fill
<1>8. [j \in {1} |-> a] = <<a>>
  OBVIOUS
<1>9. Append(inbound[Mem], Blank(x)) = q
  BY DEF q
<1> QED
  BY <1>6, <1>7, <1>8, <1>9 DEF a

\* A shift from memory gets its answer.
LEMMA MemFetch ==
  ASSUME IInv, ObjectsGood, MemAnswers, ShiftFetch,
         m0.from = Mem, m0.id \in Own, Listed(Mem, m0.id)
  PROVE  /\ pc' = "flush" /\ Point' = "take"
         /\ inbound'[Mem] = <<First(id_vector, m0.id)>>
<1>1. Point = "shift" /\ inbound[Mem] = <<>>
  BY DEF ShiftFetch, Point, MemAnswers
<1> DEFINE q == Append(inbound[Mem], Blank(m0.id))
<1>2. Unfillable(Mem, q) = {} /\ Fill(Mem, q) = <<First(id_vector, m0.id)>>
  BY <1>1, MemRequest
<1>3. Eligible(m0) /\ Match(inbound[Mem], m0.id) = {}
  BY <1>1 DEF Eligible, Match
<1>4. CallLoop(Mem, q, "missed", "take")
  BY <1>3 DEF ShiftFetch
<1> HIDE DEF q
<1>5. /\ inbound' = [inbound EXCEPT ![Mem] = Fill(Mem, q)]
      /\ pc' = "flush" /\ call'.ret = "take"
  BY <1>2, <1>4 DEF CallLoop
<1>6. inbound'[Mem] = Fill(Mem, q)
  BY <1>5 DEF IInv, QueueInv, Tiers
<1> QED
  BY <1>2, <1>5, <1>6 DEF Point

\* An entry of an outbound queue does not move the thread elsewhere.
LEMMA FlushPoint ==
  ASSUME IInv, Flush
  PROVE  /\ UNCHANGED <<inbound, row, col, moves, looking>>
         /\ pc = "flush" /\ Point' = Point
         /\ FlushEnd \/ (pc' = "flush" /\ call'.tier = call.tier)
<1>1. CASE FlushEnd
  <2>1. pc = "flush" /\ pc' = call.ret /\ call.ret # "flush"
    BY <1>1 DEF FlushEnd, IInv, CtlInv, Returns
  <2>2. UNCHANGED <<inbound, row, col, moves, looking>>
    BY <1>1 DEF FlushEnd, queue
  <2> QED
    BY <1>1, <2>1, <2>2 DEF Point
<1>2. CASE ~FlushEnd
  <2>1. /\ AtEntry /\ (Stored \/ Kept)
        /\ UNCHANGED <<inbound, pc, row, col, moves, looking>>
    BY <1>2 DEF Flush, FlushMem, FlushFails, FlushDisk
  <2>2. call'.tier = call.tier /\ call'.ret = call.ret
    BY <2>1 DEF Stored, Kept, IInv, CtlInv
  <2> QED
    BY <2>1, <2>2 DEF AtEntry, Point
<1> QED
  BY <1>1, <1>2

LEMMA MemAnswersNext ==
  ASSUME IInv, RInv, ObjectsGood, MemAnswers, Next
  PROVE  MemAnswers'
<1>1. /\ id_vector \in Seq(Past) /\ EnvInv /\ Mem \in Tiers
      /\ inbound \in [Tiers -> Seq(Past)]
  BY DEF IInv, DataInv, QueueInv, Tiers
<1>2. ASSUME Point' # "take", inbound'[Mem] = <<>>
      PROVE  MemAnswers'
  BY <1>2 DEF MemAnswers
\* The loop of a tier that is not answering a request of memory.
<1>3. ASSUME inbound[Mem] = <<>>, NEW t \in Tiers, NEW q \in Seq(Past),
             t = Mem => q = <<>>,
             \/ UNCHANGED inbound
             \/ inbound' = [inbound EXCEPT ![t] = Fill(t, q)]
      PROVE  inbound'[Mem] = <<>>
  <2>1. Fill(Mem, <<>>) = <<>>
    BY <1>1, FillEmpty
  <2> QED
    BY <1>1, <1>3, <2>1
<1>4. CASE App \/ BeginTierLoop
  <2>1. pc = "app" /\ UNCHANGED inbound /\ pc' \in {"app", "shift", "pair"}
    BY <1>4 DEF App, AppStep, Create, Edit, Lookup, Churn, BeginTierLoop, queue, ctl
  <2> QED
    BY <1>2, <2>1 DEF MemAnswers, Point
<1>5. CASE Flush
  <2>1. UNCHANGED <<inbound, moves>> /\ Point' = Point
    BY <1>5, FlushPoint
  <2>2. m0' = m0
    BY <2>1 DEF m0
  <2>3. CASE Point = "take" /\ m0.from = Mem
    <3>1. View(m0.id) # -1 /\ inbound[Mem] = <<First(id_vector, m0.id)>>
      BY <2>3 DEF MemAnswers
    <3>2. Match(id_vector, m0.id) # {}
      BY <1>1, <3>1, VersionType DEF View
    <3>3. Match(id_vector', m0.id) # {} /\ First(id_vector', m0.id) = First(id_vector, m0.id)
      <4>1. CASE UNCHANGED id_vector
        BY <3>2, <4>1
      <4>2. CASE id_vector' = Append(id_vector, Current) /\ AtEntry
        <5>1. Current \in Past
          BY <4>2, CurrentType
        <5> QED
          BY <1>1, <3>2, <4>2, <5>1, FirstAppend
      <4> QED
        BY <1>5, <4>1, <4>2 DEF Flush, FlushMem, FlushFails, FlushDisk, FlushEnd, data
    <3>4. View(m0.id)' = View(m0.id)
      BY <2>2, <3>2, <3>3 DEF View, Version
    <3> QED
      BY <2>1, <2>2, <2>3, <3>1, <3>3, <3>4 DEF MemAnswers
  <2>4. CASE ~(Point = "take" /\ m0.from = Mem)
    BY <2>1, <2>2, <2>4 DEF MemAnswers
  <2> QED
    BY <2>3, <2>4
<1>6. CASE ShiftFetch
  <2>1. Point = "shift" /\ inbound[Mem] = <<>> /\ m0' = m0 /\ UNCHANGED id_vector
    BY <1>6 DEF ShiftFetch, Point, MemAnswers, m0, data
  <2>2. m0.id \in Ids /\ m0.from \in Tiers
    BY <2>1, FirstMove DEF IInv, CtlInv
  <2>3. CASE m0.from = Mem /\ Eligible(m0)
    <3>1. m0.id \in Own /\ Listed(Mem, m0.id)
      BY <2>3 DEF Eligible
    <3>2. Point' = "take" /\ inbound'[Mem] = <<First(id_vector, m0.id)>>
      BY <1>6, <2>3, <3>1, MemFetch
    <3>3. View(m0.id) # -1
      BY <2>2, <3>1, ListedSeen
    <3> QED
      BY <2>1, <2>3, <3>2, <3>3 DEF MemAnswers, View
  <2>4. CASE m0.from # Mem /\ Eligible(m0)
    <3>1. Append(inbound[m0.from], Blank(m0.id)) \in Seq(Past)
      BY <1>1, <2>2, BlankType, AppendType
    <3>2. inbound'[Mem] = <<>>
      <4>1. \/ UNCHANGED inbound
            \/ inbound' = [inbound EXCEPT ![m0.from] =
                             Fill(m0.from, Append(inbound[m0.from], Blank(m0.id)))]
        BY <1>6 DEF ShiftFetch, CallLoop
      <4> QED
        BY <1>3, <2>1, <2>2, <2>4, <3>1, <4>1
    <3> QED
      BY <2>1, <2>4, <3>2 DEF MemAnswers
  <2>5. CASE ~Eligible(m0)
    <3>1. pc' = "missed" /\ UNCHANGED inbound
      BY <1>6, <2>5 DEF ShiftFetch
    <3> QED
      BY <1>2, <2>1, <3>1 DEF Point
  <2> QED
    BY <2>3, <2>4, <2>5
<1>7. CASE ShiftTake
  <2>1. Point = "take" /\ DOMAIN moves # {} /\ pc = "take"
    BY <1>7 DEF ShiftTake, Point, IInv, CtlInv
  <2>2. m0.from \in Tiers /\ m0.to \in Tiers /\ (m0.from = Mem) # (m0.to = Mem)
    <3>1. Min(DOMAIN moves) \in DOMAIN moves
      BY <2>1, MinIn DEF IInv, CtlInv
    <3> QED
      BY <2>1, <3>1, FirstMove DEF IInv, RInv, MovesKnown, m0
  <2>3. Point' # "take"
    BY <1>7 DEF ShiftTake, Point
  <2>4. CASE m0.from # Mem
    <3>1. inbound[Mem] = <<>> /\ m0.to = Mem /\ Fill(Mem, <<>>) = <<>>
      BY <1>1, <2>2, <2>4, FillEmpty DEF MemAnswers
    <3>2. inbound'[Mem] = <<>>
      BY <1>1, <1>7, <2>2, <2>4, <3>1 DEF ShiftTake, queue
    <3> QED
      BY <1>2, <2>3, <3>2
  <2>5. CASE m0.from = Mem
    <3> DEFINE a == First(id_vector, m0.id)
    <3>1. inbound[Mem] = <<a>> /\ Match(id_vector, m0.id) # {}
      BY <1>1, <2>1, <2>5, VersionType DEF MemAnswers, View
    <3>2. a.id = m0.id /\ a.val >= 0 /\ a \in Past
      BY <1>1, <3>1, FirstIn DEF ObjectsGood, First
    <3> HIDE DEF a
    <3>3. Match(inbound[Mem], m0.id) = {1} /\ Min({1}) = 1
      BY <3>1, <3>2, MinUnique DEF Match
    <3>4. Filled(a) /\ a.val # Torn
      BY <3>2 DEF Filled, NoFile, Empty, Torn
    <3> DEFINE q == inbound[m0.from]
               j == Min(Match(q, m0.id))
    <3>5. q = <<a>> /\ j = 1 /\ q[j] = a
      BY <2>5, <3>1, <3>3
    <3>6. inbound'[Mem] = RemoveAt(<<a>>, 1)
      <4>1. Filled(q[j]) /\ q[j].val # Torn
        BY <3>4, <3>5
      <4>2. inbound' = [inbound EXCEPT ![m0.from] = RemoveAt(q, j),
                                       ![m0.to] = Fill(m0.to, inbound[m0.to])]
        BY <1>7, <4>1 DEF ShiftTake
      <4> HIDE DEF q, j
      <4>3. inbound'[Mem] = RemoveAt(q, j)
        BY <1>1, <2>2, <2>5, <4>2
      <4> QED
        BY <3>5, <4>3
    <3>7. RemoveAt(<<a>>, 1) = <<>>
      BY DEF RemoveAt
    <3> QED
      BY <1>2, <2>3, <3>6, <3>7
  <2> QED
    BY <2>4, <2>5
<1>8. CASE ShiftEnd
  <2>1. Point # "take" /\ inbound[Mem] = <<>> /\ DOMAIN moves # {}
    BY <1>8 DEF ShiftEnd, Point, MemAnswers, IInv, CtlInv
  <2>2. m0.from \in Tiers
    BY <2>1, FirstMove DEF IInv
  <2>3. /\ Point' = "next"
        /\ \/ UNCHANGED inbound
           \/ inbound' = [inbound EXCEPT ![m0.from] = Fill(m0.from, inbound[m0.from])]
    BY <1>8 DEF ShiftEnd, CallLoop, Point
  <2> QED
    BY <1>1, <1>2, <1>3, <2>1, <2>2, <2>3
<1>9. CASE NextMove \/ VisitPair \/ Refresh
  <2>1. /\ pc \in {"next", "pair", "refresh"} /\ UNCHANGED inbound
        /\ pc' \in {"shift", "app", "pair"}
    BY <1>9 DEF NextMove, VisitPair, Refresh, queue
  <2> QED
    BY <1>2, <2>1 DEF MemAnswers, Point
<1>10. CASE Turn
  <2>1. Order[row] \in Tiers /\ inbound[Mem] = <<>>
    <3>1. row \in 1 .. Len(Order)
      BY TiersAssumption, LenProperties DEF IInv, CtlInv
    <3> QED
      BY <1>10, <3>1, TiersAssumption, ElementOfSeq DEF Turn, MemAnswers, Point
  <2>2. /\ Point' = "refresh"
        /\ inbound' = [inbound EXCEPT ![Order[row]] = Fill(Order[row], inbound[Order[row]])]
    BY <1>10 DEF Turn, CallLoop, Point
  <2> QED
    BY <1>1, <1>2, <1>3, <2>1, <2>2
<1>11. CASE Crash
  BY <1>1, <1>2, <1>11 DEF Crash, Point
<1> QED
  BY <1>4, <1>5, <1>6, <1>7, <1>8, <1>9, <1>10, <1>11 DEF Next, Busy

-----------------------------------------------------------------------------
(* The loop and what it started from.                                      *)

\* Outside of the loop and in its steps, what becomes of its history.
LEMMA LoopSteps ==
  ASSUME IInv, Next
  PROVE  /\ App => hist'.loop = "none" /\ hist'.goal = {}
         /\ Crash => hist'.loop = "none" /\ hist'.goal = {}
         /\ BeginTierLoop =>
              /\ hist'.loop = "running"
              /\ hist'.goal = {e \in ToSet(storage[Mem]) : e.id \in Own}
         /\ Busy => hist'.goal = hist.goal
         /\ Busy /\ ~Refresh => hist'.loop \in {hist.loop, "failed"}
         /\ Refresh => hist'.loop = IF row < Len(Order) \/ hist.loop # "running"
                                    THEN hist.loop ELSE "complete"
<1>1. hist \in [stale : SUBSET Ids, goal : SUBSET Entry,
                loop : {"none", "running", "failed", "complete"}]
  BY DEF IInv, EnvInv
<1>2. App => hist'.loop = "none" /\ hist'.goal = {}
  BY <1>1 DEF App, AppStep, Create, Edit, Lookup, Churn
<1>3. Crash => hist'.loop = "none" /\ hist'.goal = {}
  BY <1>1 DEF Crash
<1>4. BeginTierLoop => /\ hist'.loop = "running"
                       /\ hist'.goal = {e \in ToSet(storage[Mem]) : e.id \in Own}
  BY <1>1 DEF BeginTierLoop
<1>5. Busy /\ ~Refresh => /\ hist'.loop \in {hist.loop, "failed"}
                          /\ hist'.goal = hist.goal
  BY <1>1 DEF Busy, Flush, FlushMem, FlushDisk, FlushFails, FlushEnd, ShiftFetch,
     ShiftTake, ShiftEnd, NextMove, VisitPair, Turn
<1>6. Refresh => /\ hist'.goal = hist.goal
                 /\ hist'.loop = IF row < Len(Order) \/ hist.loop # "running"
                                 THEN hist.loop ELSE "complete"
  BY <1>1 DEF Refresh
<1> QED
  BY <1>2, <1>3, <1>4, <1>5, <1>6

\* Where the thread goes in a step of the tiers.
LEMMA BusyPoint ==
  ASSUME IInv, LoopState, Busy
  PROVE  /\ Point' = "app" => pc' = "app"
         /\ looking' => Point' \notin {"app", "pair", "refresh"}
         /\ ~looking => ~looking'
         /\ pc' = "app" => looking \/ Refresh
<1>1. CASE Flush
  <2>1. UNCHANGED looking /\ pc = "flush" /\ Point' = Point
    BY <1>1, FlushPoint
  <2>2. Point # "app" /\ Point' # "app"
    BY <2>1 DEF LoopState
  <2>3. pc' # "app"
    BY <2>2 DEF Point
  <2> QED
    BY <2>1, <2>2, <2>3 DEF LoopState
<1>2. CASE ShiftFetch \/ ShiftTake \/ ShiftEnd
  <2>1. UNCHANGED looking
    BY <1>2 DEF ShiftFetch, ShiftTake, ShiftEnd
  <2>2. Point' \in {"take", "missed", "shifted", "threw", "next"} /\ pc' # "app"
    BY <1>2 DEF ShiftFetch, ShiftTake, ShiftEnd, CallLoop, Point
  <2> QED
    BY <2>1, <2>2
<1>3. CASE NextMove
  BY <1>3 DEF NextMove, Point
<1>4. CASE VisitPair \/ Turn \/ Refresh
  <2>1. Point \in {"pair", "refresh"} /\ UNCHANGED looking
    BY <1>4 DEF VisitPair, Turn, Refresh, Point
  <2>2. ~looking'
    BY <2>1 DEF LoopState, IInv, CtlInv
  <2>3. /\ Point' = "app" => pc' = "app"
        /\ pc' = "app" => Refresh
    BY <1>4 DEF VisitPair, Turn, Refresh, CallLoop, Point
  <2> QED
    BY <2>2, <2>3
<1> QED
  BY <1>1, <1>2, <1>3, <1>4 DEF Busy

LEMMA LoopStateNext ==
  ASSUME IInv, LoopState, Next
  PROVE  LoopState'
<1>1. CASE App \/ Crash
  <2>1. hist'.loop = "none"
    BY <1>1, LoopSteps
  <2>2. /\ Point' = "app" => pc' = "app"
        /\ looking' => Point' \notin {"app", "pair", "refresh"}
    <3>1. CASE Crash
      BY <3>1 DEF Crash, Point
    <3>2. ASSUME NEW x \in Ids, Lookup(x)
          PROVE  Point' = "shift"
      BY <3>2 DEF Lookup, Point
    <3>3. CASE Churn \/ \E x \in Ids : Create(x) \/ Edit(x)
      <4>1. UNCHANGED ctl /\ pc = "app"
        BY <3>3 DEF Churn, Create, Edit, AppStep
      <4> QED
        BY <4>1 DEF ctl, Point, LoopState
    <3> QED
      BY <1>1, <3>1, <3>2, <3>3 DEF App
  <2> QED
    BY <2>1, <2>2 DEF LoopState
<1>2. CASE BeginTierLoop
  <2>1. hist'.loop = "running" /\ pc = "app" /\ pc' = "pair" /\ UNCHANGED looking
    BY <1>2, LoopSteps DEF BeginTierLoop
  <2>2. ~looking' /\ Point' = "pair"
    BY <2>1 DEF LoopState, Point
  <2> QED
    BY <2>1, <2>2 DEF LoopState
<1>3. CASE Refresh
  <2>1. pc = "refresh" /\ pc' \in {"pair", "app"} /\ UNCHANGED looking
    BY <1>3 DEF Refresh
  <2>2. hist.loop # "complete"
    BY <2>1 DEF LoopState
  <2>3. pc' = "app" <=> ~(row < Len(Order))
    BY <1>3 DEF Refresh
  <2>4. ~looking'
    BY <2>1 DEF LoopState, Point
  <2> QED
    BY <1>3, <2>1, <2>2, <2>3, <2>4, LoopSteps, BusyPoint DEF LoopState, Busy
<1>4. CASE Busy /\ ~Refresh
  <2>1. hist'.loop \in {hist.loop, "failed"} /\ pc # "app"
    BY <1>4, LoopSteps DEF Busy, Flush, FlushMem, FlushDisk, FlushFails, FlushEnd,
       AtEntry, ShiftFetch, ShiftTake, ShiftEnd, NextMove, VisitPair, Turn
  <2>2. hist.loop # "complete" /\ hist'.loop # "complete"
    BY <2>1 DEF LoopState
  <2>3. ASSUME hist'.loop = "running"
        PROVE  hist.loop = "running" /\ ~looking /\ ~looking' /\ pc' # "app"
    <3>1. hist.loop = "running" /\ ~looking
      BY <2>1, <2>3 DEF LoopState
    <3> QED
      BY <1>4, <3>1, BusyPoint
  <2>4. ASSUME hist'.loop = "running", pc' = "flush", call'.tier # Mem
        PROVE  call'.k = 1
    <3>0. hist.loop = "running"
      BY <2>1, <2>4
    <3>1. CASE FlushMem
      BY <2>4, <3>1 DEF FlushMem, Stored, Kept, IInv, CtlInv
    <3>2. ASSUME NEW content \in -3..MaxEdits, FlushDisk(content)
          PROVE  call'.k = 1
      BY <2>4, <3>0, <3>2 DEF FlushDisk, Stored, AtEntry, LoopState
    <3>3. ~FlushFails
      BY <2>4 DEF FlushFails, IInv, EnvInv
    <3>4. CASE FlushEnd
      BY <2>4, <3>4 DEF FlushEnd, NoCall
    <3>5. CASE ~Flush
      BY <1>4, <2>4, <3>5 DEF Busy, CallLoop, ShiftFetch, ShiftTake, ShiftEnd,
         NextMove, VisitPair, Turn
    <3> QED
      BY <1>4, <3>1, <3>2, <3>3, <3>4, <3>5 DEF Flush
  <2> QED
    BY <1>4, <2>2, <2>3, <2>4, BusyPoint DEF LoopState
<1> QED
  BY <1>1, <1>2, <1>3, <1>4 DEF Next

LEMMA GoalListedNext ==
  ASSUME IInv, GoalListed, Next
  PROVE  GoalListed'
<1>1. /\ storage \in [Tiers -> Seq(PastEntry)] /\ Mem \in Tiers
      /\ id_vector \in Seq(Past) /\ EnvInv
      /\ hist.goal \subseteq Entry
  BY DEF IInv, DataInv, EnvInv, Tiers
<1>2. CASE App \/ Crash
  BY <1>2, LoopSteps DEF GoalListed
<1>3. CASE BeginTierLoop
  <2>1. UNCHANGED storage /\ hist'.goal = {e \in ToSet(storage[Mem]) : e.id \in Own}
    BY <1>3, LoopSteps DEF BeginTierLoop, data
  <2>2. \A e \in ToSet(storage[Mem]) : \E j \in DOMAIN storage[Mem] : storage[Mem][j] = e
    BY DEF ToSet
  <2>3. \A j \in DOMAIN storage[Mem] : storage[Mem][j].mod >= storage[Mem][j].mod
    <3>1. \A j \in DOMAIN storage[Mem] : storage[Mem][j] \in PastEntry
      BY <1>1, LenProperties, ElementOfSeq
    <3> QED
      BY <1>1, <3>1 DEF PastEntry, EnvInv
  <2> QED
    BY <2>1, <2>2, <2>3 DEF GoalListed
<1>4. ASSUME hist'.goal = hist.goal, storage'[Mem] = storage[Mem]
      PROVE  GoalListed'
  BY <1>4 DEF GoalListed
<1>5. CASE FlushMem
  <2>1. Current \in Past
    BY <1>5, CurrentType DEF FlushMem
  <2>2. hist'.goal = hist.goal
    BY <1>5, LoopSteps DEF Busy, Flush
  <2>3. CASE UNCHANGED storage
    BY <1>4, <2>2, <2>3
  <2>4. CASE ~UNCHANGED storage
    <3>1. /\ id_vector' = Append(id_vector, Current)
          /\ storage' = [storage EXCEPT ![Mem] = Index(id_vector')]
      BY <1>5, <2>4 DEF FlushMem
    <3>2. storage'[Mem] = Index(id_vector')
      BY <1>1, <3>1
    <3>3. /\ id_vector' \in Seq(Past)
          /\ DOMAIN id_vector' = 1 .. Len(id_vector) + 1
          /\ DOMAIN id_vector = 1 .. Len(id_vector) /\ Len(id_vector) \in Nat
          /\ \A j \in DOMAIN id_vector : id_vector'[j] = id_vector[j]
      BY <1>1, <2>1, <3>1, AppendType, LenProperties
    <3>4. /\ DOMAIN storage'[Mem] = DOMAIN id_vector'
          /\ \A j \in DOMAIN id_vector' : /\ storage'[Mem][j].id = id_vector'[j].id
                                          /\ storage'[Mem][j].mod = id_vector'[j].mod
      BY <1>1, <3>2, <3>3, IndexType
    <3>5. ASSUME NEW j \in DOMAIN storage[Mem]
          PROVE  /\ j \in DOMAIN storage'[Mem]
                 /\ storage'[Mem][j].id = storage[Mem][j].id
                 /\ storage'[Mem][j].mod >= storage[Mem][j].mod
      BY <3>3, <3>4 DEF IInv, MemIndexLags
    <3>6. \A j \in DOMAIN storage[Mem] : storage[Mem][j].mod \in Int
      <4>1. \A j \in DOMAIN storage[Mem] : storage[Mem][j] \in PastEntry
        BY <1>1, LenProperties, ElementOfSeq
      <4> QED
        BY <1>1, <4>1 DEF PastEntry, EnvInv
    <3>7. \A j \in DOMAIN storage[Mem] : storage'[Mem][j].mod \in Int
      BY <1>1, <3>3, <3>4, <3>5, IndexType DEF IInv, MemIndexLags
    <3>8. \A e \in hist.goal : e.mod \in Int
      BY <1>1 DEF Entry, Mods
    <3> QED
      BY <2>2, <3>5, <3>6, <3>7, <3>8 DEF GoalListed
  <2> QED
    BY <2>3, <2>4
<1>6. CASE Busy /\ ~FlushMem
  <2>1. hist'.goal = hist.goal
    BY <1>6, LoopSteps
  <2>2. storage'[Mem] = storage[Mem]
    BY <1>1, <1>6 DEF Busy, Flush, FlushDisk, FlushFails, FlushEnd, ShiftFetch,
       ShiftTake, ShiftEnd, NextMove, VisitPair, Turn, Refresh, data
  <2> QED
    BY <1>4, <2>1, <2>2
<1> QED
  BY <1>2, <1>3, <1>5, <1>6 DEF Next

\* What the folder does not have yet is the newest, and is found to be missing.
LEMMA GoalKnown ==
  ASSUME IInv, Backed, ObjectsGood, GoalListed, NEW e \in hist.goal
  PROVE  /\ e \in Entry /\ e.id \in Own /\ e.id \in Ids /\ e.mod \in Mods /\ e.mod \in Nat
         /\ Listed(Mem, e.id)
         /\ ~Written(e) => View(e.id) >= e.mod
<1>1. e \in Entry /\ e.id \in Ids /\ e.mod \in Mods /\ e.mod \in Nat
  BY BoundsAssumption DEF IInv, EnvInv, Entry, Mods
<1>2. PICK j \in DOMAIN storage[Mem] :
        storage[Mem][j].id = e.id /\ storage[Mem][j].mod >= e.mod
  BY DEF GoalListed
<1>3. e.id \in Own /\ Listed(Mem, e.id)
  BY <1>2 DEF GoalListed, Listed, Match
<1>4. /\ j \in DOMAIN id_vector /\ id_vector[j].id = e.id
      /\ storage[Mem][j].mod <= id_vector[j].mod
  BY <1>2 DEF IInv, MemIndexLags
<1>5. id_vector[j].mod \in Mods /\ id_vector[j].mod \in Nat /\ storage[Mem][j].mod \in Int
  <2>1. id_vector[j] \in Past /\ storage[Mem][j] \in PastEntry
    BY <1>2, <1>4, LenProperties, ElementOfSeq DEF IInv, DataInv, Tiers
  <2> QED
    BY <2>1, BoundsAssumption DEF IInv, EnvInv, Past, PastEntry, Mods
<1>6. id_vector[j].mod >= e.mod
  BY <1>1, <1>2, <1>4, <1>5
<1>7. id_vector[j] \in Good(e.id)
  BY <1>4, ObjectsKnown DEF Good, ObjectsGood
<1>8. View(e.id) \in Int
  BY VersionType DEF View, IInv, DataInv
<1>9. ~Written(e) => View(e.id) >= e.mod
  BY <1>1, <1>5, <1>6, <1>7, <1>8 DEF Backed, Written
<1> QED
  BY <1>1, <1>3, <1>9

LEMMA MoveFound ==
  ASSUME IInv, Backed, ObjectsGood, GoalListed, NEW e \in hist.goal, ~Written(e),
         NEW d \in Disks
  PROVE  \E j \in DOMAIN MoveLogic(d) :
           MoveLogic(d)[j] = [id |-> e.id, from |-> Mem, to |-> d]
<1> DEFINE v == Version(storage[d], e.id)
<1>1. e.id \in Ids /\ e.mod \in Nat
  BY GoalKnown
<1>2. v \in Int /\ v < e.mod
  <2>1. CASE Match(storage[d], e.id) = {}
    BY <1>1, <2>1 DEF Version
  <2>2. CASE Match(storage[d], e.id) # {}
    <3> DEFINE i == Min(Match(storage[d], e.id))
    <3>1. /\ storage[d] \in Seq(PastEntry)
          /\ i \in DOMAIN storage[d] /\ storage[d][i] \in PastEntry
          /\ storage[d][i].id = e.id /\ v = storage[d][i].mod
      BY <2>2, FirstIn DEF IInv, DataInv, Tiers, Version, First
    <3> HIDE DEF i, v
    <3>2. v \in Mods /\ v \in Nat
      BY <3>1, BoundsAssumption DEF PastEntry, IInv, EnvInv, Mods
    <3>3. files[e.id][v] # NoFile
      BY <3>1 DEF IInv, DiskIndexSound
    <3> QED
      BY <1>1, <3>2, <3>3 DEF Written
  <2> QED
    BY <2>1, <2>2
<1>3. PICK j \in DOMAIN storage[Mem] :
        storage[Mem][j].id = e.id /\ storage[Mem][j].mod >= e.mod
  BY DEF GoalListed
<1>4. storage[Mem][j].mod \in Int
  <2>1. storage[Mem][j] \in PastEntry
    BY <1>3, LenProperties, ElementOfSeq DEF IInv, DataInv, Tiers
  <2> QED
    BY <2>1 DEF PastEntry, IInv, EnvInv
<1>5. storage[Mem][j].mod > Version(storage[d], storage[Mem][j].id)
  BY <1>1, <1>2, <1>3, <1>4
<1>6. j \in DOMAIN MoveLogic(d) /\ MoveLogic(d)[j] = Shift(storage[Mem][j], d)
  <2>1. storage[Mem][j].mod # Version(storage[d], storage[Mem][j].id)
    BY <1>2, <1>3, <1>4, <1>5
  <2> QED
    BY <2>1 DEF MoveLogic
<1> QED
  BY <1>3, <1>5, <1>6 DEF Shift

-----------------------------------------------------------------------------
(* An entry on its way to a disk.                                          *)

\* A loop that cannot be run leaves the entry that stops it as it is.
LEMMA FilledWedge ==
  ASSUME IInv, NEW d \in Disks, NEW q \in Seq(Past), Unfillable(d, q) # {}
  PROVE  \E j \in DOMAIN Fill(d, q) : ~Filled(Fill(d, q)[j])
<1>1. PICK j \in DOMAIN q : j \in Unfillable(d, q) /\ ~Filled(q[j])
  BY DEF Unfillable
<1>2. j \in Nat /\ j <= j
  BY LenProperties
<1>3. Fill(d, q)[j] = q[j]
  BY <1>1, <1>2 DEF Fill
<1>4. DOMAIN Fill(d, q) = DOMAIN q
  BY DEF Fill
<1> QED
  BY <1>1, <1>3, <1>4

LEMMA CalledEngages ==
  ASSUME IInv, NEW t \in Tiers, NEW q \in Seq(Past), NEW onThrow, NEW ret,
         CallLoop(t, q, onThrow, ret), NEW d \in Disks, Wedged(d)
  PROVE  Engaged(d)'
<1>1. inbound \in [Tiers -> Seq(Past)] /\ d \in Tiers
  BY DEF IInv, QueueInv, Tiers
<1>2. inbound' = [inbound EXCEPT ![t] = Fill(t, q)]
  BY DEF CallLoop
<1>3. CASE t # d
  BY <1>1, <1>2, <1>3 DEF Wedged, Engaged
<1>4. CASE t = d /\ Unfillable(t, q) # {}
  <2>1. inbound'[d] = Fill(d, q)
    BY <1>1, <1>2, <1>4
  <2>2. \E j \in DOMAIN Fill(d, q) : ~Filled(Fill(d, q)[j])
    BY <1>4, FilledWedge
  <2> QED
    BY <2>1, <2>2 DEF Wedged, Engaged
<1>5. CASE t = d /\ Unfillable(t, q) = {}
  BY <1>5 DEF CallLoop, Engaged
<1> QED
  BY <1>3, <1>4, <1>5

\* The outcomes of taking an answer of m0.from.
LEMMA TakeOutcome ==
  ASSUME IInv, RInv, ShiftTake
  PROVE  LET q == inbound[m0.from]
             k == Min(Match(q, m0.id))
         IN  /\ m0.from \in Tiers /\ m0.to \in Tiers /\ m0.from # m0.to
             /\ q \in Seq(Past) /\ k \in DOMAIN q
             /\ \/ ~Filled(q[k]) /\ UNCHANGED inbound
                \/ /\ Filled(q[k]) /\ q[k].val = Torn
                   /\ inbound' = [inbound EXCEPT ![m0.from] = RemoveAt(q, k)]
                \/ /\ Filled(q[k]) /\ q[k].val # Torn
                   /\ inbound' = [inbound EXCEPT ![m0.from] = RemoveAt(q, k),
                                                 ![m0.to] = Fill(m0.to, inbound[m0.to])]
                   /\ outbound' = [outbound EXCEPT ![m0.to] = Append(@, q[k])]
                   /\ Unfillable(m0.to, inbound[m0.to]) = {}
                        => pc' = "flush" /\ call'.tier = m0.to
<1>1. DOMAIN moves # {} /\ Point = "take"
  BY DEF ShiftTake, IInv, CtlInv, Point
<1>2. m0.from \in Tiers /\ m0.to \in Tiers /\ m0.from # m0.to
  <2>1. Min(DOMAIN moves) \in DOMAIN moves
    BY <1>1, MinIn DEF IInv, CtlInv
  <2> QED
    BY <1>1, <2>1, FirstMove DEF IInv, RInv, MovesKnown, m0
<1> DEFINE q == inbound[m0.from]
           k == Min(Match(q, m0.id))
<1>3. q \in Seq(Past) /\ k \in DOMAIN q
  <2>1. q \in Seq(Past) /\ Match(q, m0.id) # {}
    BY <1>1, <1>2 DEF IInv, QueueInv, Answered
  <2> QED
    BY <2>1, FirstIn
<1>4. \/ ~Filled(q[k]) /\ UNCHANGED inbound
      \/ /\ Filled(q[k]) /\ q[k].val = Torn
         /\ inbound' = [inbound EXCEPT ![m0.from] = RemoveAt(q, k)]
      \/ /\ Filled(q[k]) /\ q[k].val # Torn
         /\ inbound' = [inbound EXCEPT ![m0.from] = RemoveAt(q, k),
                                       ![m0.to] = Fill(m0.to, inbound[m0.to])]
         /\ outbound' = [outbound EXCEPT ![m0.to] = Append(@, q[k])]
         /\ Unfillable(m0.to, inbound[m0.to]) = {}
              => pc' = "flush" /\ call'.tier = m0.to
  BY DEF ShiftTake, queue
<1> HIDE DEF q, k
<1> QED
  BY <1>2, <1>3, <1>4 DEF q, k

LEMMA TakeEngages ==
  ASSUME IInv, RInv, ShiftTake, NEW d \in Disks, Wedged(d)
  PROVE  Engaged(d)'
<1> DEFINE q == inbound[m0.from]
           k == Min(Match(q, m0.id))
           r == RemoveAt(q, k)
<1>1. inbound \in [Tiers -> Seq(Past)] /\ d \in Tiers
  BY DEF IInv, QueueInv, Tiers
<1>2. /\ m0.from \in Tiers /\ m0.to \in Tiers /\ m0.from # m0.to
      /\ q \in Seq(Past) /\ k \in DOMAIN q
      /\ \/ ~Filled(q[k]) /\ UNCHANGED inbound
         \/ /\ Filled(q[k]) /\ q[k].val = Torn
            /\ inbound' = [inbound EXCEPT ![m0.from] = r]
         \/ /\ Filled(q[k]) /\ q[k].val # Torn
            /\ inbound' = [inbound EXCEPT ![m0.from] = r,
                                          ![m0.to] = Fill(m0.to, inbound[m0.to])]
            /\ outbound' = [outbound EXCEPT ![m0.to] = Append(@, q[k])]
            /\ Unfillable(m0.to, inbound[m0.to]) = {}
                 => pc' = "flush" /\ call'.tier = m0.to
  BY TakeOutcome
<1>3. PICK w \in DOMAIN inbound[d] : ~Filled(inbound[d][w])
  BY DEF Wedged
\* What is taken is not what the disk waits for.
<1>4. ASSUME Filled(q[k]), m0.from = d
      PROVE  \E j \in DOMAIN r : r[j] = inbound[d][w]
  <2>1. w # k /\ w \in DOMAIN q
    BY <1>3, <1>4
  <2>2. \E j \in DOMAIN r : r[j] = q[w]
    BY <1>2, <2>1, RemoveAtType
  <2> QED
    BY <1>4, <2>2
<1> HIDE DEF q, k, r
<1>5. CASE UNCHANGED inbound
  BY <1>3, <1>5 DEF Wedged, Engaged
<1>6. CASE Filled(q[k]) /\ d = m0.from /\ inbound'[d] = r
  BY <1>3, <1>4, <1>6 DEF Wedged, Engaged
<1>7. CASE inbound'[d] = inbound[d]
  BY <1>3, <1>7 DEF Wedged, Engaged
<1>8. CASE d = m0.to /\ inbound'[d] = Fill(d, inbound[d])
           /\ (Unfillable(d, inbound[d]) = {} => pc' = "flush" /\ call'.tier = d)
  <2>1. CASE Unfillable(d, inbound[d]) = {}
    BY <1>8, <2>1 DEF Engaged
  <2>2. CASE Unfillable(d, inbound[d]) # {}
    BY <1>1, <1>8, <2>2, FilledWedge DEF Wedged, Engaged
  <2> QED
    BY <2>1, <2>2
<1> QED
  BY <1>1, <1>2, <1>5, <1>6, <1>7, <1>8

\* A disk stops being engaged only when its loop is through.
LEMMA EngagedNext ==
  ASSUME IInv, RInv, Busy, NEW d \in Disks, Engaged(d)
  PROVE  Engaged(d)' \/ (FlushEnd /\ call.tier = d)
<1>1. CASE Flush
  <2>1. UNCHANGED inbound /\ (FlushEnd \/ (pc' = "flush" /\ call'.tier = call.tier))
    BY <1>1, FlushPoint
  <2> QED
    BY <2>1 DEF Engaged, Wedged
<1>2. CASE ~Flush
  <2>1. pc # "flush" /\ Wedged(d)
    BY <1>2 DEF Busy, ShiftFetch, ShiftTake, ShiftEnd, NextMove, VisitPair, Turn,
       Refresh, Engaged
  <2>2. CASE UNCHANGED inbound
    BY <2>1, <2>2 DEF Engaged, Wedged
  <2>3. CASE ShiftTake
    BY <2>1, <2>3, TakeEngages
  <2>4. inbound \in [Tiers -> Seq(Past)]
    BY DEF IInv, QueueInv
  <2>5. CASE (ShiftFetch \/ ShiftEnd) /\ ~UNCHANGED inbound
    <3>1. m0.from \in Tiers /\ m0.id \in Ids
      BY <2>5, FirstMove DEF ShiftFetch, ShiftEnd, IInv, CtlInv, Point
    <3>2. /\ inbound[m0.from] \in Seq(Past)
          /\ Append(inbound[m0.from], Blank(m0.id)) \in Seq(Past)
      BY <2>4, <3>1, BlankType, AppendType DEF IInv
    <3>3. \/ CallLoop(m0.from, Append(inbound[m0.from], Blank(m0.id)), "missed", "take")
          \/ CallLoop(m0.from, inbound[m0.from], "next", "next")
      BY <2>5 DEF ShiftFetch, ShiftEnd
    <3> QED
      BY <2>1, <3>1, <3>2, <3>3, CalledEngages
  <2>6. CASE Turn
    <3>1. Order[row] \in Tiers
      <4>1. row \in 1 .. Len(Order)
        BY TiersAssumption, LenProperties DEF IInv, CtlInv
      <4> QED
        BY <4>1, TiersAssumption, ElementOfSeq
    <3>2. CallLoop(Order[row], inbound[Order[row]], "refresh", "refresh")
      BY <2>6 DEF Turn
    <3> QED
      BY <2>1, <2>4, <3>1, <3>2, CalledEngages
  <2>7. CASE NextMove \/ VisitPair \/ Refresh
    <3>1. UNCHANGED inbound
      BY <2>7 DEF NextMove, VisitPair, Refresh, queue
    <3> QED
      BY <2>2, <3>1
  <2> QED
    BY <1>2, <2>2, <2>3, <2>5, <2>6, <2>7 DEF Busy
<1> QED
  BY <1>1, <1>2

\* What is queued for a disk is written, or stays queued.
LEMMA QueuedNext ==
  ASSUME IInv, IInv', Next, NEW d \in Disks, NEW e \in Entry, Queued(d, e),
         id_vector' # <<>>
  PROVE  Queued(d, e)' \/ Written(e)'
<1>1. PICK k \in DOMAIN outbound[d] :
        outbound[d][k].id = e.id /\ outbound[d][k].mod >= e.mod
  BY DEF Queued
<1> DEFINE p == outbound[d][k]
<1>2. p.mod \in Mods /\ p.val # NoFile
  <2>1. p \in Past
    BY <1>1, LenProperties, ElementOfSeq DEF IInv, QueueInv, Tiers
  <2> QED
    BY <1>1, <2>1, BoundsAssumption DEF Past, IInv, EnvInv, Mods, QueueInv, Tiers
<1>3. \/ \E j \in DOMAIN outbound'[d] : outbound'[d][j] = p
      \/ files'[p.id][p.mod] \in {p.val, Empty, Torn}
  BY <1>1, QueuedStep
<1> HIDE DEF p
<1>4. p.id = e.id /\ p.mod >= e.mod
  BY <1>1 DEF p
<1>5. files'[p.id][p.mod] \in {p.val, Empty, Torn} => files'[e.id][p.mod] # NoFile
  BY <1>2, <1>4 DEF NoFile, Empty, Torn
<1> QED
  BY <1>2, <1>3, <1>4, <1>5 DEF Queued, Written

-----------------------------------------------------------------------------
(* What the loop still has to do for an entry, from step to step.          *)

\* Every pair of memory and a disk is ahead of a loop that begins.
LEMMA StartAhead ==
  ASSUME IInv, BeginTierLoop, NEW d \in Disks
  PROVE  Ahead(d)'
<1>1. \A t \in Tiers : \E i \in DOMAIN Order : Order[i] = t
  BY OrderAssumption DEF ToSet
<1>2. PICK r \in DOMAIN Order : Order[r] = Mem
  BY <1>1 DEF Tiers
<1>3. PICK c \in DOMAIN Order : Order[c] = d
  BY <1>1 DEF Tiers
<1>4. DOMAIN Order = 1 .. Len(Order) /\ Len(Order) \in Nat
  BY TiersAssumption, LenProperties
<1>5. row' = 1 /\ col' = 1 /\ pc' = "pair" /\ Point' # "refresh"
  BY DEF BeginTierLoop, Point
<1>6. {Order[r], Order[c]} = {Mem, d}
  BY <1>2, <1>3
<1>7. r > row' \/ (r = row' /\ (c > col' \/ c = col'))
  BY <1>2, <1>3, <1>4, <1>5
<1> QED
  BY <1>2, <1>3, <1>5, <1>6, <1>7 DEF Ahead

LEMMA AheadNext ==
  ASSUME IInv, Backed, ObjectsGood, GoalListed, Busy, ~looking, hist.loop = "running",
         hist'.loop = "running", NEW d \in Disks, NEW e \in hist.goal, ~Written(e),
         Ahead(d)
  PROVE  Ahead(d)' \/ Pending(d, e)'
<1>1. PICK r \in DOMAIN Order, c \in DOMAIN Order :
        /\ {Order[r], Order[c]} = {Mem, d}
        /\ \/ r > row
           \/ r = row /\ c > col /\ Point # "refresh"
           \/ r = row /\ c = col /\ pc = "pair"
  BY DEF Ahead
<1>2. /\ DOMAIN Order = 1 .. Len(Order) /\ Len(Order) \in Nat
      /\ row \in DOMAIN Order /\ col \in Nat \ {0}
      /\ r \in Nat /\ c \in Nat \ {0} /\ row \in Nat
  BY TiersAssumption, LenProperties DEF IInv, CtlInv
<1>3. ASSUME \/ r > row'
             \/ r = row' /\ c > col' /\ Point' # "refresh"
             \/ r = row' /\ c = col' /\ pc' = "pair"
      PROVE  Ahead(d)'
  BY <1>1, <1>3 DEF Ahead
<1>4. CASE Flush
  <2>1. UNCHANGED <<row, col>> /\ pc # "pair" /\ Point' = Point
    BY <1>4, FlushPoint
  <2> QED
    BY <1>1, <1>3, <2>1
<1>5. CASE ShiftFetch \/ ShiftTake \/ ShiftEnd
  <2>1. UNCHANGED <<row, col>> /\ pc # "pair"
    BY <1>5 DEF ShiftFetch, ShiftTake, ShiftEnd
  <2>2. Point' # "refresh"
    BY <1>5 DEF ShiftFetch, ShiftTake, ShiftEnd, CallLoop, Point
  <2> QED
    BY <1>1, <1>3, <2>1, <2>2
<1>6. CASE NextMove
  <2>1. /\ UNCHANGED row /\ pc = "next"
        /\ \/ UNCHANGED col /\ pc' = "shift"
           \/ col' = col + 1 /\ pc' = "pair"
    BY <1>6 DEF NextMove
  <2>2. Point' # "refresh"
    BY <2>1 DEF Point
  <2> QED
    BY <1>1, <1>2, <1>3, <2>1, <2>2
<1>7. CASE VisitPair
  <2> DEFINE todo == PairMoves(Order[row], Order[col])
  <2>1. /\ UNCHANGED row /\ pc = "pair"
        /\ IF DOMAIN todo = {}
           THEN col' = col + 1 /\ pc' = "pair"
           ELSE pc' = "shift" /\ moves' = todo /\ UNCHANGED col
    BY <1>7 DEF VisitPair
  <2>2. Point' = pc'
    BY <2>1 DEF Point
  <2>3. CASE r = row /\ c = col
    <3>1. todo = MoveLogic(d)
      BY <1>1, <2>3, TiersAssumption DEF PairMoves
    <3>2. PICK j \in DOMAIN MoveLogic(d) :
            MoveLogic(d)[j] = [id |-> e.id, from |-> Mem, to |-> d]
      BY MoveFound
    <3>3. moves' = MoveLogic(d) /\ Point' = "shift"
      BY <2>1, <2>2, <3>1, <3>2
    <3> QED
      BY <3>2, <3>3 DEF Pending
  <2>4. CASE ~(r = row /\ c = col)
    <3> HIDE DEF todo
    <3> QED
      BY <1>1, <1>2, <1>3, <2>1, <2>2, <2>4
  <2> QED
    BY <2>3, <2>4
<1>8. CASE Turn
  <2>1. pc = "pair" /\ UNCHANGED row /\ col > Len(Order)
    BY <1>8 DEF Turn
  <2>2. r > row
    BY <1>1, <1>2, <2>1
  <2> QED
    BY <1>3, <2>1, <2>2
<1>9. CASE Refresh
  <2>1. Point = "refresh" /\ pc = "refresh"
    BY <1>9 DEF Refresh, Point
  <2>2. r > row /\ row < Len(Order)
    BY <1>1, <1>2, <2>1
  <2>3. row' = row + 1 /\ col' = 1 /\ pc' = "pair" /\ Point' = "pair"
    BY <1>9, <2>2 DEF Refresh, Point
  <2> QED
    BY <1>2, <1>3, <2>2, <2>3
<1> QED
  BY <1>4, <1>5, <1>6, <1>7, <1>8, <1>9 DEF Busy

\* The answer of memory is queued for the disk, whose loop is run.
LEMMA TakeQueues ==
  ASSUME IInv, RInv, Backed, ObjectsGood, GoalListed, MemAnswers, ShiftTake,
         NEW d \in Disks, NEW e \in hist.goal, ~Written(e),
         m0 = [id |-> e.id, from |-> Mem, to |-> d]
  PROVE  Queued(d, e)' /\ Engaged(d)'
<1> DEFINE a == First(id_vector, e.id)
           q == inbound[m0.from]
           k == Min(Match(q, m0.id))
<1>1. m0.from = Mem /\ m0.to = d /\ m0.id = e.id /\ Point = "take"
  BY DEF ShiftTake, Point
<1>2. e.id \in Ids /\ e.mod \in Nat /\ View(e.id) >= e.mod
  BY GoalKnown
<1>3. inbound[Mem] = <<a>> /\ Match(id_vector, e.id) # {}
  BY <1>1, <1>2, VersionType DEF MemAnswers, View, IInv, DataInv
<1>4. a \in Past /\ a.id = e.id /\ a.val >= 0 /\ a.mod = View(e.id)
  BY <1>3, FirstIn DEF ObjectsGood, First, IInv, DataInv, View, Version
<1> HIDE DEF a
<1>5. Filled(a) /\ a.val # Torn
  BY <1>4 DEF Filled, NoFile, Empty, Torn
<1>6. /\ k \in DOMAIN q
      /\ \/ ~Filled(q[k])
         \/ q[k].val = Torn
         \/ /\ inbound' = [inbound EXCEPT ![m0.from] = RemoveAt(q, k),
                                          ![m0.to] = Fill(m0.to, inbound[m0.to])]
            /\ outbound' = [outbound EXCEPT ![m0.to] = Append(@, q[k])]
            /\ Unfillable(m0.to, inbound[m0.to]) = {}
                 => pc' = "flush" /\ call'.tier = m0.to
  BY TakeOutcome
<1>7. q[k] = a
  BY <1>1, <1>3, <1>6
<1> HIDE DEF q, k
<1>8. /\ d \in Tiers /\ d # Mem /\ inbound[d] \in Seq(Past)
      /\ inbound \in [Tiers -> Seq(Past)] /\ outbound \in [Tiers -> Seq(Past)]
  BY TiersAssumption DEF IInv, QueueInv, Tiers
<1>9. Queued(d, e)'
  <2>1. outbound'[d] = Append(outbound[d], a)
    BY <1>1, <1>5, <1>6, <1>7, <1>8
  <2>2. /\ Len(outbound[d]) + 1 \in DOMAIN outbound'[d]
        /\ outbound'[d][Len(outbound[d]) + 1] = a
    BY <1>4, <1>8, <2>1, AppendType, LenProperties
  <2> QED
    BY <1>2, <1>4, <2>2 DEF Queued
<1>10. Engaged(d)'
  <2>1. inbound'[d] = Fill(d, inbound[d])
    BY <1>1, <1>5, <1>6, <1>7, <1>8
  <2>2. CASE Unfillable(d, inbound[d]) = {}
    BY <1>1, <1>5, <1>6, <1>7, <2>2 DEF Engaged
  <2>3. CASE Unfillable(d, inbound[d]) # {}
    BY <1>8, <2>1, <2>3, FilledWedge DEF Wedged, Engaged
  <2> QED
    BY <2>2, <2>3
<1> QED
  BY <1>9, <1>10

LEMMA PendingNext ==
  ASSUME IInv, RInv, Backed, ObjectsGood, GoalListed, MemAnswers, Busy, ~looking,
         NEW d \in Disks, NEW e \in hist.goal, ~Written(e), Pending(d, e)
  PROVE  Pending(d, e)' \/ (Queued(d, e)' /\ Engaged(d)')
<1>1. PICK j \in DOMAIN moves :
        /\ moves[j] = [id |-> e.id, from |-> Mem, to |-> d]
        /\ \/ Point \in {"shift", "take"}
           \/ Point \in {"missed", "shifted", "threw", "next"} /\ j # Min(DOMAIN moves)
  BY DEF Pending
<1>2. CASE Flush
  <2>1. UNCHANGED moves /\ Point' = Point
    BY <1>2, FlushPoint
  <2> QED
    BY <1>1, <2>1 DEF Pending
<1>3. CASE (ShiftFetch \/ ShiftTake) /\ j # Min(DOMAIN moves)
  <2>1. UNCHANGED moves
    BY <1>3 DEF ShiftFetch, ShiftTake
  <2>2. Point' \in {"take", "missed", "shifted", "threw"}
    BY <1>3 DEF ShiftFetch, ShiftTake, CallLoop, Point
  <2> QED
    BY <1>1, <1>3, <2>1, <2>2 DEF Pending
<1>4. CASE ShiftFetch /\ j = Min(DOMAIN moves)
  <2>1. m0 = [id |-> e.id, from |-> Mem, to |-> d]
    BY <1>1, <1>4 DEF m0
  <2>2. m0.from = Mem /\ m0.id \in Own /\ Listed(Mem, m0.id)
    BY <2>1, GoalKnown
  <2>3. Point' = "take" /\ UNCHANGED moves
    BY <1>4, <2>2, MemFetch DEF ShiftFetch
  <2> QED
    BY <1>1, <2>3 DEF Pending
<1>5. CASE ShiftTake /\ j = Min(DOMAIN moves)
  <2>1. m0 = [id |-> e.id, from |-> Mem, to |-> d]
    BY <1>1, <1>5 DEF m0
  <2> QED
    BY <1>5, <2>1, TakeQueues
<1>6. CASE ShiftEnd
  <2>1. UNCHANGED moves /\ Point' = "next"
    BY <1>6 DEF ShiftEnd, CallLoop, Point
  <2>2. j # Min(DOMAIN moves)
    BY <1>1, <1>6 DEF ShiftEnd, Point
  <2> QED
    BY <1>1, <2>1, <2>2 DEF Pending
<1>7. CASE NextMove
  <2>1. j # Min(DOMAIN moves)
    BY <1>1, <1>7 DEF NextMove, Point
  <2>2. j \in DOMAIN Rest /\ Rest[j] = moves[j]
    BY <1>1, <2>1 DEF Rest
  <2>3. moves' = Rest /\ Point' = "shift"
    BY <1>7, <2>2 DEF NextMove, Point
  <2> QED
    BY <1>1, <2>2, <2>3 DEF Pending
<1>8. CASE VisitPair \/ Turn \/ Refresh
  BY <1>1, <1>8 DEF VisitPair, Turn, Refresh, Point
<1> QED
  BY <1>2, <1>3, <1>4, <1>5, <1>6, <1>7, <1>8 DEF Busy

LEMMA QueuedRuns ==
  ASSUME IInv, IInv', RInv, LoopState, Busy, hist.loop = "running", id_vector' # <<>>,
         NEW d \in Disks, NEW e \in Entry, Queued(d, e), Engaged(d)
  PROVE  Written(e)' \/ (Queued(d, e)' /\ Engaged(d)')
<1>1. CASE FlushEnd /\ call.tier = d
  <2>1. call.k = 1 /\ call.k > Len(outbound[d])
    BY <1>1, TiersAssumption DEF FlushEnd, LoopState
  <2>2. DOMAIN outbound[d] = 1 .. Len(outbound[d]) /\ Len(outbound[d]) \in Nat
    BY LenProperties DEF IInv, QueueInv, Tiers
  <2> QED
    BY <2>1, <2>2 DEF Queued
<1>2. CASE ~(FlushEnd /\ call.tier = d)
  <2>1. Engaged(d)'
    BY <1>2, EngagedNext
  <2>2. Queued(d, e)' \/ Written(e)'
    BY QueuedNext DEF Next
  <2> QED
    BY <2>1, <2>2
<1> QED
  BY <1>1, <1>2

LEMMA OnTrackNext ==
  ASSUME IInv, IInv', RInv, PersistInv, GoalListed', Next
  PROVE  OnTrack'
<1> USE DEF PersistInv
<1> SUFFICES ASSUME hist'.loop = "running", NEW e \in hist'.goal, NEW d \in Disks
             PROVE  Tracked(d, e)'
  BY DEF OnTrack
<1>1. CASE BeginTierLoop
  BY <1>1, StartAhead DEF Tracked
<1>2. CASE App \/ Crash
  BY <1>2, LoopSteps
<1>3. CASE Busy
  <2>1. hist.loop = "running" /\ hist.goal = hist'.goal /\ e \in hist.goal
    BY <1>3, LoopSteps
  <2>2. ~looking /\ e \in Entry /\ Tracked(d, e)
    BY <2>1, GoalKnown DEF LoopState, OnTrack
  <2>3. CASE Written(e)
    BY <2>2, <2>3, WrittenStays DEF Tracked
  <2>4. CASE Queued(d, e) /\ Engaged(d)
    <3>1. id_vector' # <<>>
      <4>1. PICK j \in DOMAIN storage'[Mem] : storage'[Mem][j].id = e.id
        BY DEF GoalListed
      <4>2. j \in DOMAIN id_vector'
        BY <4>1 DEF IInv, MemIndexLags
      <4> QED
        BY <4>2
    <3> QED
      BY <1>3, <2>1, <2>2, <2>4, <3>1, QueuedRuns DEF Tracked
  <2>5. CASE ~Written(e) /\ Pending(d, e)
    BY <1>3, <2>1, <2>2, <2>5, PendingNext DEF Tracked
  <2>6. CASE ~Written(e) /\ Ahead(d)
    BY <1>3, <2>1, <2>2, <2>6, AheadNext DEF Tracked
  <2> QED
    BY <2>2, <2>3, <2>4, <2>5, <2>6 DEF Tracked
<1> QED
  BY <1>1, <1>2, <1>3 DEF Next

\* At the end of the loop nothing is ahead, in progress or left.
LEMMA LoopPersistsNext ==
  ASSUME IInv, IInv', PersistInv, Next
  PROVE  LoopPersists'
<1> SUFFICES ASSUME hist'.loop = "complete", ~ \A d \in Disks : Wedged(d)',
                    NEW e \in hist'.goal
             PROVE  \E m \in Mods : \/ m >= e.mod /\ files'[e.id][m] >= 0
                                    \/ files'[e.id][m] \in {Empty, Torn}
  BY DEF LoopPersists, Wedged
<1>1. Refresh
  <2>1. CASE App \/ BeginTierLoop \/ Crash
    BY <2>1, LoopSteps
  <2>2. CASE Busy /\ ~Refresh
    <3>1. hist.loop = "complete"
      BY <2>2, LoopSteps
    <3>2. pc = "app"
      BY <3>1 DEF PersistInv, LoopState
    <3> QED
      BY <2>2, <3>2 DEF Busy, Flush, FlushMem, FlushDisk, FlushFails, FlushEnd,
         AtEntry, ShiftFetch, ShiftTake, ShiftEnd, NextMove, VisitPair, Turn
  <2> QED
    BY <2>1, <2>2 DEF Next
<1>2. /\ UNCHANGED <<files, inbound>> /\ pc = "refresh" /\ Point = "refresh"
      /\ hist'.goal = hist.goal
  BY <1>1, LoopSteps DEF Refresh, Point, queue, Busy
<1>3. hist.loop = "running" /\ ~(row < Len(Order))
  <2>1. hist.loop # "complete"
    BY <1>2 DEF PersistInv, LoopState
  <2> QED
    BY <1>1, <2>1, LoopSteps
<1>4. PICK d \in Disks : ~Wedged(d)
  BY <1>2 DEF Wedged
<1>5. Tracked(d, e)
  BY <1>2, <1>3 DEF PersistInv, OnTrack
<1>6. ~Engaged(d) /\ ~Pending(d, e)
  BY <1>2, <1>4 DEF Engaged, Pending
<1>7. ~Ahead(d)
  <2>1. DOMAIN Order = 1 .. Len(Order) /\ Len(Order) \in Nat /\ row \in DOMAIN Order
    BY TiersAssumption, LenProperties DEF IInv, CtlInv
  <2> QED
    BY <1>2, <1>3, <2>1 DEF Ahead
<1>8. PICK m \in Mods : m >= e.mod /\ files[e.id][m] # NoFile
  BY <1>5, <1>6, <1>7 DEF Tracked, Written
<1>9. files[e.id][m] \in -3..edits /\ edits \in Nat
  BY <1>2, BoundsAssumption DEF IInv, EnvInv, DataInv, Entry
<1>10. files[e.id][m] >= 0 \/ files[e.id][m] \in {Empty, Torn}
  BY <1>8, <1>9 DEF NoFile, Empty, Torn
<1> QED
  BY <1>2, <1>8, <1>10

LEMMA PersistNext == IInv /\ IInv' /\ RInv /\ PersistInv /\ [Next]_vars => PersistInv'
<1> SUFFICES ASSUME IInv, IInv', RInv, PersistInv, [Next]_vars
             PROVE  PersistInv'
  OBVIOUS
<1>1. CASE Next
  <2>1. Backed' /\ ObjectsGood' /\ MemAnswers' /\ LoopState' /\ GoalListed'
    BY <1>1, BackedNext, ObjectsGoodNext, MemAnswersNext, LoopStateNext,
       GoalListedNext DEF PersistInv
  <2>2. OnTrack' /\ LoopPersists'
    BY <1>1, <2>1, OnTrackNext, LoopPersistsNext
  <2> QED
    BY <2>1, <2>2 DEF PersistInv
<1>2. CASE UNCHANGED vars
  <2>1. UNCHANGED <<id_vector, storage, files, inbound, outbound, pc, row, col,
                    moves, call, looking, hist>>
    BY <1>2 DEF vars, data, queue, ctl
  <2>2. Backed' /\ ObjectsGood'
    BY <2>1 DEF PersistInv, Backed, ObjectsGood, Good, Copies, View
  <2>3. MemAnswers' /\ LoopState' /\ GoalListed'
    BY <2>1 DEF PersistInv, MemAnswers, LoopState, GoalListed, Point, View, m0
  <2>4. OnTrack' /\ LoopPersists'
    BY <2>1 DEF PersistInv, OnTrack, LoopPersists, Tracked, Written, Queued,
       Engaged, Wedged, Pending, Ahead, Point
  <2> QED
    BY <2>2, <2>3, <2>4 DEF PersistInv
<1> QED
  BY <1>1, <1>2

LEMMA PersistInit == Init => PersistInv
<1> SUFFICES ASSUME Init PROVE PersistInv
  OBVIOUS
<1>1. IInv /\ RInv
  BY InitInv, InitKnown
<1>2. Backed
  BY <1>1, NothingUnborn DEF Init, Backed, Good
<1>3. ObjectsGood /\ MemAnswers /\ LoopState /\ GoalListed
  BY DEF Init, ObjectsGood, MemAnswers, LoopState, GoalListed, Point, Tiers
<1>4. OnTrack /\ LoopPersists
  BY DEF Init, OnTrack, LoopPersists
<1> QED
  BY <1>2, <1>3, <1>4 DEF PersistInv

\* An id_tier_loop that ran to its end without a failed write has every object
\* of ours that the memory index listed in the folder, in that version or a
\* newer one, unless the queue of every disk is blocked or a file of the object
\* was damaged: nothing is lost between tier_standard_move_logic,
\* shift_data_to_state and the loops of the tiers.
THEOREM LoopPersistsAlways == Spec => []LoopPersists
<1>1. Init => RInv /\ PersistInv
  BY InitKnown, PersistInit
<1>2. IInv /\ IInv' /\ RInv /\ PersistInv /\ [Next]_vars => (RInv /\ PersistInv)'
  BY RInvNext, PersistNext
<1>3. PersistInv => LoopPersists
  BY DEF PersistInv
<1> QED
  BY <1>1, <1>2, <1>3, Invariance, PTL DEF Spec
=============================================================================

---------------------------- MODULE NetHttpProofs ---------------------------
(***************************************************************************)
(* OneAnswer and InOneList of NetHttp, for any number of clients, requests *)
(* and sizes of a response.                                                *)
(***************************************************************************)
EXTENDS NetHttp, SequenceTheorems, TLAPS

Entries == [conn : Conns, header : BOOLEAN]

HttpTyped ==
  /\ pc \in {"accept", "push", "serve", "stale"}
  /\ backlog \in Seq(Conns) /\ nonBound \in Seq(Entries)
  /\ bound \in Seq(Conns) /\ closed \in SUBSET Conns
  /\ scan \in [copy : Seq(Entries), at : Nat \ {0}]
  /\ serving \in [list : Seq(Conns), left : Nat]
  /\ serving.left <= Len(serving.list)
  /\ pc = "stale" => serving.left > 0
  /\ response \in [Conns -> {"none", "sent"}]
  /\ peer \in [Conns -> {"out", "open", "shut", "gone"}]
  /\ running \in [Conns -> BOOLEAN]
  /\ sender \in [Conns -> {"none", "idle", "sending", "ended", "broken"}]
  /\ buf \in [Conns -> Nat] /\ taken \in [Conns -> Nat]

\* The connections without a driver state: while push_conn_to_file works,
\* those of its copy.
Unbound == ConnsOf(IF pc = "push" THEN scan.copy ELSE nonBound)

\* In every state, and not between two turns only.
Listed == Apart(backlog, Unbound, bound, closed)

\* Who has not connected is in no list, and who waits for accept has no thread.
NotYet ==
  /\ \A c \in Conns : peer[c] = "out" =>
       /\ c \notin ToSet(backlog) \cup ToSet(Unbound) \cup ToSet(bound) \cup closed
       /\ sender[c] = "none"
  /\ \A c \in ToSet(backlog) : sender[c] = "none"

\* The bytes of the response of c are with the socket or the system.
Account(c) ==
  /\ sender[c] \in {"sending", "broken"} => buf[c] > 0
  /\ response[c] = "none" => buf[c] = 0 /\ taken[c] = 0
  /\ response[c] = "sent" /\ sender[c] # "broken" => taken[c] + buf[c] = Size
  /\ c \in closed => response[c] = "sent" /\ buf[c] = 0 /\ taken[c] = Size

HttpInv ==
  HttpTyped /\ Listed /\ NotYet /\ \A c \in Conns : Account(c)
-----------------------------------------------------------------------------
(* Lists of connections.                                                   *)

LEMMA SliceType ==
  ASSUME NEW S, NEW s \in Seq(S), NEW m \in Nat \ {0}, NEW n \in Nat, n <= Len(s)
  PROVE  /\ SubSeq(s, m, n) \in Seq(S)
         /\ Len(SubSeq(s, m, n)) = IF m <= n THEN n - m + 1 ELSE 0
         /\ \A j \in 1..Len(SubSeq(s, m, n)) : SubSeq(s, m, n)[j] = s[m + j - 1]
<1>1. Len(s) \in Nat
  BY LenProperties
<1>2. \A j \in m..n : s[j] \in S
  BY <1>1, ElementOfSeq
<1>3. /\ SubSeq(s, m, n) \in Seq(S)
      /\ Len(SubSeq(s, m, n)) = IF m <= n THEN n - m + 1 ELSE 0
      /\ \A j \in 1..(n - m + 1) : SubSeq(s, m, n)[j] = s[m + j - 1]
  BY <1>2, SubSeqProperties
<1>4. QED
  BY <1>3

LEMMA RemoveAtType ==
  ASSUME NEW S, NEW s \in Seq(S), NEW i \in 1..Len(s)
  PROVE  /\ RemoveAt(s, i) \in Seq(S)
         /\ Len(RemoveAt(s, i)) = Len(s) - 1
         /\ \A j \in 1..(Len(s) - 1) :
              RemoveAt(s, i)[j] = IF j < i THEN s[j] ELSE s[j + 1]
<1> DEFINE front == SubSeq(s, 1, i - 1)
           back  == SubSeq(s, i + 1, Len(s))
<1>1. Len(s) \in Nat
  BY LenProperties
<1>2. /\ front \in Seq(S) /\ Len(front) = i - 1
      /\ \A j \in 1..Len(front) : front[j] = s[j]
  BY <1>1, SliceType
<1>3. /\ back \in Seq(S) /\ Len(back) = Len(s) - i
      /\ \A j \in 1..Len(back) : back[j] = s[i + j]
  BY <1>1, SliceType
<1>4. RemoveAt(s, i) = front \o back
  BY DEF RemoveAt
<1> HIDE DEF front, back
<1>5. Len(front) + Len(back) = Len(s) - 1
  BY <1>1, <1>2, <1>3
<1>6. /\ front \o back \in Seq(S)
      /\ Len(front \o back) = Len(s) - 1
      /\ \A j \in 1..(Len(s) - 1) :
           (front \o back)[j] = IF j <= Len(front) THEN front[j]
                                ELSE back[j - Len(front)]
  <2>1. front \in Seq(S) /\ back \in Seq(S)
    BY <1>2, <1>3
  <2>2. /\ front \o back \in Seq(S)
        /\ Len(front \o back) = Len(front) + Len(back)
        /\ \A j \in 1..(Len(front) + Len(back)) :
             (front \o back)[j] = IF j <= Len(front) THEN front[j]
                                  ELSE back[j - Len(front)]
    BY <2>1, ConcatProperties
  <2>3. QED
    BY <2>2, <1>5
<1>7. ASSUME NEW j \in 1..(Len(s) - 1)
      PROVE  (front \o back)[j] = IF j < i THEN s[j] ELSE s[j + 1]
  <2>1. CASE j < i
    <3>1. j \in 1..Len(front)
      BY <2>1, <1>1, <1>2
    <3>2. QED
      BY <3>1, <2>1, <1>2, <1>6
  <2>2. CASE ~(j < i)
    <3>1. j - Len(front) \in 1..Len(back) /\ ~(j <= Len(front))
      BY <2>2, <1>1, <1>2, <1>3
    <3>2. back[j - Len(front)] = s[i + (j - Len(front))]
      BY <3>1, <1>3
    <3>3. i + (j - Len(front)) = j + 1
      BY <1>1, <1>2
    <3>4. QED
      BY <3>1, <3>2, <3>3, <2>2, <1>6
  <2>3. QED
    BY <2>1, <2>2
<1>8. QED
  BY <1>4, <1>6, <1>7

\* What leaves a list without repetitions is in it no more.
LEMMA RemoveAtOnce ==
  ASSUME NEW S, NEW s \in Seq(S), IsInjective(s), NEW i \in 1..Len(s)
  PROVE  /\ IsInjective(RemoveAt(s, i))
         /\ ToSet(RemoveAt(s, i)) = ToSet(s) \ {s[i]}
<1> DEFINE r == RemoveAt(s, i)
<1>1. /\ Len(s) \in Nat /\ DOMAIN s = 1..Len(s)
      /\ r \in Seq(S) /\ Len(r) = Len(s) - 1
      /\ \A j \in 1..(Len(s) - 1) : r[j] = IF j < i THEN s[j] ELSE s[j + 1]
  BY RemoveAtType, LenProperties
<1>2. DOMAIN r = 1..(Len(s) - 1)
  BY <1>1, LenProperties
<1> HIDE DEF r
<1>3. \A j, k \in DOMAIN s : s[j] = s[k] => j = k
  BY DEF IsInjective
<1>4. IsInjective(r)
  <2>1. ASSUME NEW j \in DOMAIN r, NEW k \in DOMAIN r, r[j] = r[k]
        PROVE  j = k
    <3>1. /\ j \in 1..Len(s) - 1 /\ k \in 1..Len(s) - 1
          /\ r[j] = (IF j < i THEN s[j] ELSE s[j + 1])
          /\ r[k] = (IF k < i THEN s[k] ELSE s[k + 1])
      BY <1>1, <1>2
    <3>2. /\ j \in DOMAIN s /\ k \in DOMAIN s /\ j + 1 \in DOMAIN s /\ k + 1 \in DOMAIN s
          /\ i \in Nat /\ j \in Nat /\ k \in Nat
      BY <1>1, <3>1
    <3>3. \/ j < i /\ k < i /\ j = k
          \/ j < i /\ ~ (k < i) /\ j = k + 1
          \/ ~ (j < i) /\ k < i /\ j + 1 = k
          \/ ~ (j < i) /\ ~ (k < i) /\ j + 1 = k + 1
      BY <1>3, <2>1, <3>1, <3>2
    <3> QED
      BY ONLY <3>2, <3>3
  <2> QED
    BY <2>1 DEF IsInjective
<1>5. ASSUME NEW x \in ToSet(r)
      PROVE  x \in ToSet(s) \ {s[i]}
  <2>1. PICK j \in 1..(Len(s) - 1) : x = r[j]
    BY <1>2 DEF ToSet
  <2>2. PICK k \in 1..Len(s) : x = s[k] /\ k # i
    BY <2>1, <1>1
  <2>3. QED
    BY <2>2, <1>1, <1>3 DEF ToSet
<1>6. ASSUME NEW x \in ToSet(s) \ {s[i]}
      PROVE  x \in ToSet(r)
  <2>1. PICK k \in 1..Len(s) : x = s[k] /\ k # i
    BY <1>1 DEF ToSet
  <2>2. CASE k < i
    <3>1. k \in DOMAIN r /\ r[k] = x
      BY <2>1, <2>2, <1>1, <1>2
    <3>2. QED
      BY <3>1 DEF ToSet
  <2>3. CASE k > i
    <3>1. k - 1 \in DOMAIN r /\ r[k - 1] = x
      BY <2>1, <2>3, <1>1, <1>2
    <3>2. QED
      BY <3>1 DEF ToSet
  <2>4. QED
    BY <2>1, <2>2, <2>3, <1>1
<1>7. QED
  BY <1>4, <1>5, <1>6 DEF r

\* Two lists that have nothing in common, one behind the other.
LEMMA ConcatOnce ==
  ASSUME NEW S, NEW s \in Seq(S), NEW t \in Seq(S)
  PROVE  /\ ToSet(s \o t) = ToSet(s) \cup ToSet(t)
         /\ IsInjective(s) /\ IsInjective(t) /\ ToSet(s) \cap ToSet(t) = {}
              => IsInjective(s \o t)
<1> DEFINE u == s \o t
<1>1. /\ Len(s) \in Nat /\ DOMAIN s = 1..Len(s)
      /\ Len(t) \in Nat /\ DOMAIN t = 1..Len(t)
      /\ u \in Seq(S) /\ Len(u) = Len(s) + Len(t)
      /\ \A j \in 1..(Len(s) + Len(t)) :
           u[j] = IF j <= Len(s) THEN s[j] ELSE t[j - Len(s)]
  BY ConcatProperties, LenProperties
<1>2. DOMAIN u = 1..(Len(s) + Len(t))
  BY <1>1, LenProperties
<1> HIDE DEF u
<1>3. ASSUME NEW j \in DOMAIN s PROVE j \in DOMAIN u /\ u[j] = s[j]
  BY <1>1, <1>2
<1>4. ASSUME NEW j \in DOMAIN t PROVE Len(s) + j \in DOMAIN u /\ u[Len(s) + j] = t[j]
  BY <1>1, <1>2
<1>5. ASSUME NEW j \in DOMAIN u
      PROVE  \/ j \in DOMAIN s /\ u[j] = s[j]
             \/ j - Len(s) \in DOMAIN t /\ u[j] = t[j - Len(s)]
  BY <1>1, <1>2
<1>6. ToSet(u) = ToSet(s) \cup ToSet(t)
  <2>1. ToSet(u) \subseteq ToSet(s) \cup ToSet(t)
    BY <1>5 DEF ToSet
  <2>2. ToSet(s) \subseteq ToSet(u)
    BY <1>3 DEF ToSet
  <2>3. ToSet(t) \subseteq ToSet(u)
    BY <1>4 DEF ToSet
  <2>4. QED
    BY <2>1, <2>2, <2>3
<1>7. ASSUME IsInjective(s), IsInjective(t), ToSet(s) \cap ToSet(t) = {},
             NEW j \in DOMAIN u, NEW k \in DOMAIN u, u[j] = u[k]
      PROVE  j = k
  <2>1. \A x \in DOMAIN s, y \in DOMAIN t : s[x] # t[y]
    BY <1>7 DEF ToSet
  <2>2. CASE j \in DOMAIN s /\ u[j] = s[j]
    BY <2>1, <2>2, <1>5, <1>7 DEF IsInjective
  <2>3. CASE j - Len(s) \in DOMAIN t /\ u[j] = t[j - Len(s)]
    <3>1. k - Len(s) \in DOMAIN t /\ u[k] = t[k - Len(s)]
      BY <2>1, <2>3, <1>5, <1>7
    <3>2. j - Len(s) = k - Len(s)
      BY <2>3, <3>1, <1>7 DEF IsInjective
    <3>3. QED
      BY <3>2, <1>1, <1>2
  <2>4. QED
    BY <2>2, <2>3, <1>5
<1>8. QED
  BY <1>6, <1>7 DEF u, IsInjective

\* A part of a list without repetitions, and what lies behind it.
LEMMA SliceOnce ==
  ASSUME NEW S, NEW s \in Seq(S), IsInjective(s),
         NEW m \in Nat \ {0}, NEW n \in Nat, n <= Len(s)
  PROVE  /\ IsInjective(SubSeq(s, m, n))
         /\ ToSet(SubSeq(s, m, n)) = {s[j] : j \in m..n}
<1> DEFINE u == SubSeq(s, m, n)
<1>1. /\ Len(s) \in Nat /\ DOMAIN s = 1..Len(s)
      /\ u \in Seq(S) /\ Len(u) = IF m <= n THEN n - m + 1 ELSE 0
      /\ \A j \in 1..Len(u) : u[j] = s[m + j - 1]
  BY SliceType, LenProperties
<1>2. DOMAIN u = 1..Len(u)
  BY <1>1, LenProperties
<1> HIDE DEF u
<1>3. IsInjective(u)
  <2>1. ASSUME NEW j \in DOMAIN u, NEW k \in DOMAIN u, u[j] = u[k]
        PROVE  j = k
    <3>1. m + j - 1 \in DOMAIN s /\ m + k - 1 \in DOMAIN s
      <4>1. /\ j \in 1..Len(u) /\ k \in 1..Len(u) /\ DOMAIN s = 1..Len(s) /\ Len(s) \in Nat
            /\ Len(u) = (IF m <= n THEN n - m + 1 ELSE 0)
        BY <1>1, <1>2
      <4> DEFINE p == m + j - 1
                 q == m + k - 1
                 l == Len(s)
      <4>2. l \in Nat /\ n <= l /\ m \in Nat \ {0} /\ n \in Nat
        BY <4>1
      <4>3. m <= n /\ j \in 1..n - m + 1 /\ k \in 1..n - m + 1
        BY <4>1
      <4> HIDE DEF l
      <4>4. p \in 1..l /\ q \in 1..l
        BY ONLY <4>2, <4>3
      <4> HIDE DEF p, q
      <4> QED
        BY <4>1, <4>4 DEF p, q, l
    <3>2. m + j - 1 = m + k - 1
      <4>1. s[m + j - 1] = s[m + k - 1]
        BY <1>1, <1>2, <2>1
      <4>2. \A x, y \in DOMAIN s : s[x] = s[y] => x = y
        BY DEF IsInjective
      <4> QED
        BY ONLY <3>1, <4>1, <4>2
    <3>3. QED
      BY <3>2, <1>1, <1>2
  <2>2. QED
    BY <2>1 DEF IsInjective
<1>4. ASSUME NEW j \in m..n PROVE s[j] \in ToSet(u)
  <2>1. j - m + 1 \in DOMAIN u /\ u[j - m + 1] = s[j]
    BY <1>1, <1>2
  <2>2. QED
    BY <2>1 DEF ToSet
<1>5. ASSUME NEW j \in DOMAIN u PROVE m + j - 1 \in m..n /\ u[j] = s[m + j - 1]
  BY <1>1, <1>2
<1>6. QED
  BY <1>3, <1>4, <1>5 DEF u, ToSet
-----------------------------------------------------------------------------
(* Lists of entries.                                                       *)

LEMMA ConnsOfType ==
  ASSUME NEW list \in Seq(Entries)
  PROVE  /\ ConnsOf(list) \in Seq(Conns) /\ Len(ConnsOf(list)) = Len(list)
         /\ \A i \in 1..Len(list) : ConnsOf(list)[i] = list[i].conn
<1>1. Len(list) \in Nat /\ DOMAIN list = 1..Len(list) /\ list \in [1..Len(list) -> Entries]
  BY LenProperties
<1>2. ConnsOf(list) \in [1..Len(list) -> Conns]
  BY <1>1 DEF ConnsOf, Entries
<1>3. ConnsOf(list) \in Seq(Conns)
  BY <1>1, <1>2, SeqDef
<1>4. QED
  BY <1>1, <1>2, <1>3, LenProperties DEF ConnsOf

LEMMA ConnsOfRemoveAt ==
  ASSUME NEW list \in Seq(Entries), NEW i \in 1..Len(list)
  PROVE  ConnsOf(RemoveAt(list, i)) = RemoveAt(ConnsOf(list), i)
<1> DEFINE left  == ConnsOf(RemoveAt(list, i))
           right == RemoveAt(ConnsOf(list), i)
<1>1. /\ RemoveAt(list, i) \in Seq(Entries)
      /\ Len(RemoveAt(list, i)) = Len(list) - 1
      /\ \A j \in 1..(Len(list) - 1) :
           RemoveAt(list, i)[j] = IF j < i THEN list[j] ELSE list[j + 1]
  BY RemoveAtType
<1>2. /\ ConnsOf(list) \in Seq(Conns) /\ Len(ConnsOf(list)) = Len(list)
      /\ \A j \in 1..Len(list) : ConnsOf(list)[j] = list[j].conn
  BY ConnsOfType
<1>3. /\ right \in Seq(Conns) /\ Len(right) = Len(list) - 1
      /\ \A j \in 1..(Len(list) - 1) :
           right[j] = IF j < i THEN ConnsOf(list)[j] ELSE ConnsOf(list)[j + 1]
  BY <1>2, RemoveAtType
<1>4. /\ left \in Seq(Conns) /\ Len(left) = Len(list) - 1
      /\ \A j \in 1..(Len(list) - 1) : left[j] = RemoveAt(list, i)[j].conn
  BY <1>1, ConnsOfType
<1>5. Len(list) \in Nat
  BY LenProperties
<1> HIDE DEF left, right
<1>6. ASSUME NEW j \in 1..(Len(list) - 1)
      PROVE  left[j] = right[j]
  <2>1. j \in 1..Len(list) /\ j + 1 \in 1..Len(list)
    BY <1>5
  <2>2. CASE j < i
    BY <2>1, <2>2, <1>1, <1>2, <1>3, <1>4
  <2>3. CASE ~(j < i)
    BY <2>1, <2>3, <1>1, <1>2, <1>3, <1>4
  <2>4. QED
    BY <2>2, <2>3
<1>7. left = right
  BY <1>3, <1>4, <1>6, SeqEqual
<1>8. QED
  BY <1>7 DEF left, right

\* The new entries of Welcome(n), and their connections.
LEMMA WelcomeType ==
  ASSUME NEW list \in Seq(Entries), NEW queue \in Seq(Conns),
         NEW n \in Nat, n <= Len(queue)
  PROVE  /\ list \o [i \in 1..n |-> Entry(queue[i])] \in Seq(Entries)
         /\ ConnsOf(list \o [i \in 1..n |-> Entry(queue[i])])
              = ConnsOf(list) \o SubSeq(queue, 1, n)
<1> DEFINE new   == [i \in 1..n |-> Entry(queue[i])]
           front == SubSeq(queue, 1, n)
           left  == ConnsOf(list \o new)
           right == ConnsOf(list) \o front
<1>1. \A i \in 1..n : queue[i] \in Conns
  BY ElementOfSeq, LenProperties
<1>2. new \in [1..n -> Entries]
  BY <1>1 DEF Entry, Entries
<1>3. new \in Seq(Entries) /\ Len(new) = n /\ \A i \in 1..n : new[i].conn = queue[i]
  <2>1. new \in Seq(Entries)
    BY <1>2, SeqDef
  <2>2. Len(new) = n
    BY <1>2, <2>1, LenProperties
  <2>3. QED
    BY <2>1, <2>2 DEF Entry
<1>4. front \in Seq(Conns) /\ Len(front) = n /\ \A i \in 1..n : front[i] = queue[i]
  BY SliceType
<1>5. /\ ConnsOf(list) \in Seq(Conns) /\ Len(ConnsOf(list)) = Len(list)
      /\ \A i \in 1..Len(list) : ConnsOf(list)[i] = list[i].conn
      /\ Len(list) \in Nat
  BY ConnsOfType, LenProperties
<1> HIDE DEF new, front
<1>6. /\ list \o new \in Seq(Entries) /\ Len(list \o new) = Len(list) + n
      /\ \A i \in 1..(Len(list) + n) :
           (list \o new)[i] = IF i <= Len(list) THEN list[i] ELSE new[i - Len(list)]
  BY <1>3, ConcatProperties
<1>7. /\ right \in Seq(Conns) /\ Len(right) = Len(list) + n
      /\ \A i \in 1..(Len(list) + n) :
           right[i] = IF i <= Len(list) THEN ConnsOf(list)[i] ELSE front[i - Len(list)]
  <2>1. /\ right \in Seq(Conns) /\ Len(right) = Len(ConnsOf(list)) + Len(front)
        /\ \A i \in 1..(Len(ConnsOf(list)) + Len(front)) :
             right[i] = IF i <= Len(ConnsOf(list)) THEN ConnsOf(list)[i]
                        ELSE front[i - Len(ConnsOf(list))]
    BY <1>4, <1>5, ConcatProperties
  <2>2. QED
    BY <2>1, <1>4, <1>5
<1>8. /\ left \in Seq(Conns) /\ Len(left) = Len(list) + n
      /\ \A i \in 1..(Len(list) + n) : left[i] = (list \o new)[i].conn
  BY <1>6, ConnsOfType
<1> HIDE DEF left, right
<1>9. ASSUME NEW i \in 1..(Len(list) + n)
      PROVE  left[i] = right[i]
  <2>1. CASE i <= Len(list)
    <3>1. i \in 1..Len(list)
      BY <2>1, <1>5
    <3>2. left[i] = list[i].conn
      BY <2>1, <1>6, <1>8
    <3>3. right[i] = ConnsOf(list)[i]
      BY <2>1, <1>7
    <3>4. QED
      BY <3>1, <3>2, <3>3, <1>5
  <2>2. CASE ~(i <= Len(list))
    <3> DEFINE k == i - Len(list)
    <3>1. k \in 1..n
      BY <2>2, <1>5
    <3>2. left[i] = new[k].conn
      BY <2>2, <1>6, <1>8
    <3>3. right[i] = front[k]
      BY <2>2, <1>7
    <3> HIDE DEF k
    <3>4. QED
      BY <3>1, <3>2, <3>3, <1>3, <1>4
  <2>3. QED
    BY <2>1, <2>2
<1>10. left = right
  BY <1>7, <1>8, <1>9, SeqEqual
<1>11. QED
  BY <1>6, <1>10 DEF new, front, left, right

\* Marking an entry as read leaves the connections.
LEMMA ConnsOfMark ==
  ASSUME NEW list \in Seq(Entries), NEW i \in 1..Len(list), NEW b \in BOOLEAN
  PROVE  /\ [list EXCEPT ![i].header = b] \in Seq(Entries)
         /\ ConnsOf([list EXCEPT ![i].header = b]) = ConnsOf(list)
<1> DEFINE marked == [list EXCEPT ![i].header = b]
<1>1. Len(list) \in Nat /\ DOMAIN list = 1..Len(list) /\ list \in [1..Len(list) -> Entries]
  BY LenProperties
<1>2. marked \in [1..Len(list) -> Entries]
  BY <1>1 DEF Entries
<1>3. marked \in Seq(Entries)
  BY <1>1, <1>2, SeqDef
<1>4. \A j \in 1..Len(list) : marked[j].conn = list[j].conn
  BY <1>1 DEF Entries
<1>5. DOMAIN marked = DOMAIN list
  BY <1>1
<1>6. ConnsOf(marked) = ConnsOf(list)
  BY <1>1, <1>4, <1>5 DEF ConnsOf
<1>7. QED
  BY <1>3, <1>6
-----------------------------------------------------------------------------
(* HttpTyped.                                                              *)

\* What accept and the parse make of the lists of sockets.
LEMMA WelcomeTyped ==
  ASSUME HttpTyped, NEW n \in Nat, n <= Len(backlog), Welcome(n)
  PROVE  /\ nonBound' \in Seq(Entries)
         /\ ConnsOf(nonBound') = ConnsOf(nonBound) \o SubSeq(backlog, 1, n)
         /\ running' \in [Conns -> BOOLEAN]
         /\ sender' = [c \in Conns |-> IF c \in ToSet(SubSeq(backlog, 1, n))
                                       THEN "idle" ELSE sender[c]]
         /\ sender' \in [Conns -> {"none", "idle", "sending", "ended", "broken"}]
<1>1. /\ nonBound' \in Seq(Entries)
      /\ ConnsOf(nonBound') = ConnsOf(nonBound) \o SubSeq(backlog, 1, n)
  BY WelcomeType DEF Welcome, HttpTyped
<1>2. QED
  BY <1>1 DEF Welcome, HttpTyped

\* The connection of the current entry, and its entry as PushLater leaves it.
LEMMA CurrentTyped ==
  ASSUME HttpTyped, scan.at <= Len(scan.copy)
  PROVE  /\ scan.copy \in Seq(Entries) /\ scan.at \in 1..Len(scan.copy)
         /\ Current \in Entries /\ HasHeader \in BOOLEAN
<1>1. /\ scan.copy \in Seq(Entries) /\ scan.at \in Nat \ {0}
      /\ Len(scan.copy) \in Nat
  BY LenProperties DEF HttpTyped
<1>2. scan.at \in 1..Len(scan.copy)
  BY <1>1
<1>3. Current \in Entries
  BY <1>1, <1>2, ElementOfSeq DEF Current
<1>4. QED
  BY <1>1, <1>2, <1>3 DEF HasHeader, Entries

LEMMA ServedTyped ==
  ASSUME HttpTyped, serving.left > 0
  PROVE  Served \in Conns
<1>1. /\ serving.list \in Seq(Conns) /\ serving.left \in Nat
      /\ serving.left <= Len(serving.list) /\ Len(serving.list) \in Nat
  BY LenProperties DEF HttpTyped
<1>2. 1 \in 1..Len(serving.list)
  BY <1>1
<1>3. QED
  BY <1>1, <1>2, ElementOfSeq DEF Served

LEMMA TypedInit == Init => HttpTyped
<1>1. \A S : <<>> \in Seq(S) /\ Len(<<>>) = 0
  BY EmptySeq
<1>2. QED
  BY <1>1 DEF Init, HttpTyped

LEMMA TypedStep ==
  ASSUME HttpTyped, [Next]_vars
  PROVE  HttpTyped'
<1> USE DEF HttpTyped
<1>1. CASE Listen
  <2>1. Len(<<>>) = 0 /\ scan' \in [copy : Seq(Entries), at : Nat \ {0}]
    BY <1>1 DEF Listen
  <2>2. QED
    BY <1>1, <2>1 DEF Listen, client, socket
<1>2. CASE AcceptConn
  <2>1. Len(backlog) \in Nat
    BY LenProperties
  <2>2. /\ nonBound' \in Seq(Entries) /\ running' \in [Conns -> BOOLEAN]
        /\ sender' \in [Conns -> {"none", "idle", "sending", "ended", "broken"}]
    BY <1>2, <2>1, WelcomeTyped DEF AcceptConn
  <2>3. backlog' \in Seq(Conns)
    BY <1>2, EmptySeq DEF AcceptConn
  <2>4. scan' \in [copy : Seq(Entries), at : Nat \ {0}]
    BY <1>2, <2>2 DEF AcceptConn
  <2>5. QED
    BY <1>2, <2>2, <2>3, <2>4 DEF AcceptConn, client
<1>3. CASE AcceptThrows
  <2>1. Len(backlog) \in Nat
    BY LenProperties
  <2>2. PICK n \in 0..(Len(backlog) - 1) :
          Welcome(n) /\ backlog' = SubSeq(backlog, n + 2, Len(backlog))
    BY <1>3 DEF AcceptThrows
  <2>3. n \in Nat /\ n <= Len(backlog) /\ n + 2 \in Nat \ {0}
    BY <2>1
  <2>4. /\ nonBound' \in Seq(Entries) /\ running' \in [Conns -> BOOLEAN]
        /\ sender' \in [Conns -> {"none", "idle", "sending", "ended", "broken"}]
    BY <2>2, <2>3, WelcomeTyped
  <2>5. backlog' \in Seq(Conns)
    BY <2>1, <2>2, <2>3, SliceType
  <2>6. QED
    BY <1>3, <2>4, <2>5 DEF AcceptThrows, main, client
<1>4. CASE PushLater
  <2>1. scan'.copy \in Seq(Entries) /\ scan' = [copy |-> scan'.copy, at |-> scan.at + 1]
    BY <1>4, CurrentTyped, ConnsOfMark DEF PushLater
  <2>2. scan' \in [copy : Seq(Entries), at : Nat \ {0}]
    BY <2>1
  <2>3. QED
    BY <1>4, <2>2 DEF PushLater, server, client
<1>5. CASE PushBind
  <2>1. scan'.copy \in Seq(Entries) /\ scan' = [copy |-> scan'.copy, at |-> scan.at + 1]
    BY <1>5, CurrentTyped, RemoveAtType DEF PushBind
  <2>2. scan' \in [copy : Seq(Entries), at : Nat \ {0}]
    BY <2>1
  <2>3. bound' \in Seq(Conns)
    BY <1>5, CurrentTyped, AppendProperties DEF PushBind, Entries
  <2>4. QED
    BY <1>5, <2>2, <2>3 DEF PushBind, client
<1>6. CASE PushEnd
  <2>1. scan' \in [copy : Seq(Entries), at : Nat \ {0}]
    BY <1>6, EmptySeq DEF PushEnd
  <2>2. /\ serving' \in [list : Seq(Conns), left : Nat]
        /\ serving'.left <= Len(serving'.list)
    BY <1>6, LenProperties DEF PushEnd
  <2>3. QED
    BY <1>6, <2>1, <2>2 DEF PushEnd, client, socket
<1>7. CASE ServeEnd
  BY <1>7 DEF ServeEnd, server, client, socket
<1>8. CASE ServeNull
  <2>1. serving'.list = serving.list /\ serving'.left = serving.left - 1
    BY <1>8 DEF ServeNull
  <2>2. /\ serving' \in [list : Seq(Conns), left : Nat]
        /\ serving'.left <= Len(serving'.list)
    <3>1. Len(serving.list) \in Nat
      BY LenProperties
    <3>2. serving' = [list |-> serving.list, left |-> serving.left - 1]
      BY <1>8 DEF ServeNull
    <3>3. /\ serving.left - 1 \in Nat /\ serving.left - 1 <= Len(serving.list)
          /\ serving.list \in Seq(Conns)
      BY <1>8, <3>1 DEF ServeNull
    <3>4. QED
      BY <3>2, <3>3
  <2>3. QED
    BY <1>8, <2>2 DEF ServeNull, server, client, socket
<1>9. CASE PacketizeNothing
  BY <1>9 DEF PacketizeNothing, server, client, socket
<1>10. CASE Packetize
  <2>1. Served \in Conns
    BY <1>10, ServedTyped DEF Packetize
  <2>2. buf' \in [Conns -> Nat]
    BY <1>10, <2>1, SizeAssumption DEF Packetize
  <2>3. QED
    BY <1>10, <2>1, <2>2 DEF Packetize, client
<1>11. CASE RemoveStale
  <2>1. Served \in Conns /\ Len(serving.list) \in Nat /\ pc = "stale"
    BY <1>11, ServedTyped, LenProperties DEF RemoveStale
  <2>2. bound' \in Seq(Conns)
    <3>1. CASE Finished
      <4>1. PICK i \in DOMAIN bound : bound' = RemoveAt(bound, i)
        BY <1>11, <3>1 DEF RemoveStale
      <4>2. i \in 1..Len(bound)
        BY LenProperties
      <4>3. QED
        BY <4>1, <4>2, RemoveAtType
    <3>2. CASE ~Finished
      BY <1>11, <3>2 DEF RemoveStale
    <3>3. QED
      BY <3>1, <3>2
  <2>3. /\ serving' \in [list : Seq(Conns), left : Nat]
        /\ serving'.left <= Len(serving'.list) /\ pc' = "serve"
    <3>1. serving' = [list |-> serving.list, left |-> serving.left - 1]
      BY <1>11 DEF RemoveStale
    <3>2. /\ serving.left - 1 \in Nat /\ serving.left - 1 <= Len(serving.list)
          /\ serving.list \in Seq(Conns)
      BY <2>1
    <3>3. pc' = "serve"
      BY <1>11 DEF RemoveStale
    <3>4. QED
      BY <3>1, <3>2, <3>3
  <2>4. /\ closed' \in SUBSET Conns /\ buf' \in [Conns -> Nat]
        /\ running' \in [Conns -> BOOLEAN]
        /\ sender' \in [Conns -> {"none", "idle", "sending", "ended", "broken"}]
    <3>1. CASE Finished
      <4>1. /\ closed' = closed \cup {Served}
            /\ running' = [running EXCEPT ![Served] = FALSE]
            /\ sender' = [sender EXCEPT ![Served] = "ended"]
            /\ buf' = [buf EXCEPT ![Served] = 0]
        BY <1>11, <3>1 DEF RemoveStale
      <4>2. QED
        BY <2>1, <4>1
    <3>2. CASE ~Finished
      BY <1>11, <3>2 DEF RemoveStale
    <3>3. QED
      BY <3>1, <3>2
  <2>5. QED
    BY <1>11, <2>2, <2>3, <2>4 DEF RemoveStale, client
<1>12. ASSUME NEW c \in Conns, RecvEnd(c)
       PROVE  HttpTyped'
  BY <1>12 DEF RecvEnd, server, main, client
<1>13. ASSUME NEW c \in Conns, SendEnd(c)
       PROVE  HttpTyped'
  BY <1>13 DEF SendEnd, server, main, client
<1>14. ASSUME NEW c \in Conns, SendStart(c)
       PROVE  HttpTyped'
  BY <1>14 DEF SendStart, server, main, client
<1>15. ASSUME NEW c \in Conns, SendWhole(c)
       PROVE  HttpTyped'
  BY <1>15 DEF SendWhole, server, main, client
<1>16. ASSUME NEW c \in Conns, SendShort(c)
       PROVE  HttpTyped'
  BY <1>16 DEF SendShort, server, main, client
<1>17. ASSUME NEW c \in Conns, Arrive(c)
       PROVE  HttpTyped'
  BY <1>17 DEF Arrive, server, main, client
<1>18. ASSUME NEW c \in Conns, Connect(c)
       PROVE  HttpTyped'
  <2>1. backlog' \in Seq(Conns)
    BY <1>18, AppendProperties DEF Connect
  <2>2. QED
    BY <1>18, <2>1 DEF Connect, main, socket
<1>19. ASSUME NEW c \in Conns, PeerEnds(c)
       PROVE  HttpTyped'
  BY <1>19 DEF PeerEnds, server, main, socket
<1>20. CASE UNCHANGED vars
  BY <1>20 DEF vars, server, main, client, socket
<1>21. QED
  BY <1>1, <1>2, <1>3, <1>4, <1>5, <1>6, <1>7, <1>8, <1>9, <1>10, <1>11, <1>12,
     <1>13, <1>14, <1>15, <1>16, <1>17, <1>18, <1>19, <1>20 DEF Next, Main, Threads
-----------------------------------------------------------------------------
(* Listed.                                                                 *)

LEMMA EmptyOnce == IsInjective(<<>>) /\ ToSet(<<>>) = {}
<1>1. DOMAIN <<>> = {}
  BY EmptySeq, LenProperties
<1>2. QED
  BY <1>1 DEF IsInjective, ToSet

LEMMA AppendOnce ==
  ASSUME NEW S, NEW s \in Seq(S), IsInjective(s), NEW c \in S, c \notin ToSet(s)
  PROVE  IsInjective(Append(s, c)) /\ ToSet(Append(s, c)) = ToSet(s) \cup {c}
<1>1. /\ Len(s) \in Nat /\ DOMAIN s = 1..Len(s)
      /\ Append(s, c) \in Seq(S) /\ Len(Append(s, c)) = Len(s) + 1
      /\ \A i \in 1..Len(s) : Append(s, c)[i] = s[i]
      /\ Append(s, c)[Len(s) + 1] = c
  BY AppendProperties, LenProperties
<1>2. DOMAIN Append(s, c) = 1..(Len(s) + 1)
  BY <1>1, LenProperties
<1>3. \A i \in 1..Len(s) : s[i] # c
  BY <1>1 DEF ToSet
<1>4. \A i \in 1..(Len(s) + 1) : i \in 1..Len(s) \/ i = Len(s) + 1
  BY <1>1
<1>5. \A i, j \in 1..Len(s) : s[i] = s[j] => i = j
  BY <1>1 DEF IsInjective
<1>6. \A i, j \in 1..(Len(s) + 1) : Append(s, c)[i] = Append(s, c)[j] => i = j
  BY <1>1, <1>3, <1>4, <1>5
<1>7. ToSet(Append(s, c)) \subseteq ToSet(s) \cup {c}
  BY <1>1, <1>2, <1>4 DEF ToSet
<1>8. ToSet(s) \subseteq ToSet(Append(s, c))
  BY <1>1, <1>2 DEF ToSet
<1>9. c \in ToSet(Append(s, c))
  BY <1>1, <1>2 DEF ToSet
<1>10. QED
  BY <1>2, <1>6, <1>7, <1>8, <1>9 DEF IsInjective

\* The first n of those who wait become unbound sockets.
LEMMA WelcomeOnce ==
  ASSUME HttpTyped, Listed, pc = "accept",
         NEW n \in Nat, n <= Len(backlog), Welcome(n)
  PROVE  /\ IsInjective(ConnsOf(nonBound'))
         /\ ToSet(ConnsOf(nonBound')) = ToSet(Unbound) \cup ToSet(SubSeq(backlog, 1, n))
         /\ ToSet(SubSeq(backlog, 1, n)) = {backlog[j] : j \in 1..n}
<1> DEFINE new == SubSeq(backlog, 1, n)
<1>1. /\ backlog \in Seq(Conns) /\ Len(backlog) \in Nat
      /\ DOMAIN backlog = 1..Len(backlog)
  BY LenProperties DEF HttpTyped
<1>2. Unbound = ConnsOf(nonBound) /\ ConnsOf(nonBound) \in Seq(Conns)
  BY ConnsOfType DEF Unbound, HttpTyped
<1>3. /\ IsInjective(backlog) /\ IsInjective(Unbound)
      /\ ToSet(backlog) \cap ToSet(Unbound) = {}
  BY DEF Listed, Apart
<1>4. /\ new \in Seq(Conns) /\ IsInjective(new)
      /\ ToSet(new) = {backlog[j] : j \in 1..n}
  BY <1>1, <1>3, SliceType, SliceOnce
<1>5. ToSet(new) \subseteq ToSet(backlog)
  BY <1>1, <1>4 DEF ToSet
<1>6. ConnsOf(nonBound') = ConnsOf(nonBound) \o new
  BY WelcomeTyped
<1> HIDE DEF new
<1>7. ToSet(Unbound) \cap ToSet(new) = {}
  BY <1>3, <1>5
<1>8. /\ IsInjective(ConnsOf(nonBound'))
      /\ ToSet(ConnsOf(nonBound')) = ToSet(Unbound) \cup ToSet(new)
  BY <1>2, <1>3, <1>4, <1>6, <1>7, ConcatOnce
<1>9. QED
  BY <1>4, <1>8 DEF new

\* The lists that a step leaves alone.
ListsKept == UNCHANGED <<backlog, Unbound, bound, closed>>

\* The steps that move no connection.
LEMMA KeepLists ==
  ASSUME HttpTyped,
         \/ Listen \/ PushLater \/ PushEnd \/ ServeEnd \/ ServeNull
         \/ PacketizeNothing \/ Packetize \/ UNCHANGED vars
         \/ \E c \in Conns : \/ Threads(c) \/ SendWhole(c) \/ SendShort(c)
                             \/ Arrive(c) \/ PeerEnds(c)
  PROVE  ListsKept
<1>1. CASE PushLater
  <2>1. /\ pc = "push" /\ scan.at <= Len(scan.copy)
        /\ scan'.copy = [scan.copy EXCEPT ![scan.at].header = HasHeader]
        /\ UNCHANGED <<backlog, nonBound, bound, closed, pc>>
    BY <1>1 DEF PushLater, server
  <2>2. ConnsOf(scan'.copy) = ConnsOf(scan.copy)
    BY <2>1, CurrentTyped, ConnsOfMark
  <2>3. QED
    BY <2>1, <2>2 DEF ListsKept, Unbound
<1>2. CASE Listen \/ PushEnd
  BY <1>2 DEF Listen, PushEnd, ListsKept, Unbound
<1>3. CASE ServeEnd \/ ServeNull \/ PacketizeNothing \/ Packetize
  BY <1>3 DEF ServeEnd, ServeNull, PacketizeNothing, Packetize, server, ListsKept, Unbound
<1>4. CASE UNCHANGED vars
  BY <1>4 DEF vars, server, main, ListsKept, Unbound
<1>5. ASSUME NEW c \in Conns,
             Threads(c) \/ SendWhole(c) \/ SendShort(c) \/ Arrive(c) \/ PeerEnds(c)
      PROVE  ListsKept
  BY <1>5 DEF Threads, RecvEnd, SendEnd, SendStart, SendWhole, SendShort, Arrive,
              PeerEnds, server, main, ListsKept, Unbound
<1>6. QED
  BY <1>1, <1>2, <1>3, <1>4, <1>5

\* push_conn_to_file moves the current connection behind the bound ones.
LEMMA BindMoves ==
  ASSUME HttpTyped, Listed, PushBind
  PROVE  LET c == Current.conn IN
         /\ c \in ToSet(Unbound)
         /\ IsInjective(Unbound') /\ ToSet(Unbound') = ToSet(Unbound) \ {c}
         /\ IsInjective(bound') /\ ToSet(bound') = ToSet(bound) \cup {c}
         /\ UNCHANGED <<backlog, closed, peer, sender>>
<1> DEFINE list == scan.copy
           c    == Current.conn
<1>1. /\ list \in Seq(Entries) /\ scan.at \in 1..Len(list) /\ Current \in Entries
      /\ Unbound = ConnsOf(list) /\ bound' = Append(bound, c)
      /\ Unbound' = ConnsOf(RemoveAt(list, scan.at))
      /\ UNCHANGED <<backlog, closed, peer, sender>>
  BY CurrentTyped DEF PushBind, Unbound, client
<1>2. /\ Unbound \in Seq(Conns) /\ Len(Unbound) = Len(list)
      /\ Unbound[scan.at] = c /\ c \in Conns
  BY <1>1, ConnsOfType DEF Current, Entries
<1>3. Unbound' = RemoveAt(Unbound, scan.at)
  BY <1>1, ConnsOfRemoveAt
<1>4. /\ IsInjective(Unbound) /\ IsInjective(bound) /\ bound \in Seq(Conns)
      /\ ToSet(Unbound) \cap ToSet(bound) = {}
  BY DEF Listed, Apart, HttpTyped
<1> HIDE DEF c
<1>5. IsInjective(Unbound') /\ ToSet(Unbound') = ToSet(Unbound) \ {c}
  BY <1>1, <1>2, <1>3, <1>4, RemoveAtOnce
<1>6. c \in ToSet(Unbound)
  BY <1>1, <1>2, LenProperties DEF ToSet
<1>7. IsInjective(bound') /\ ToSet(bound') = ToSet(bound) \cup {c}
  BY <1>1, <1>2, <1>4, <1>6, AppendOnce
<1>8. QED
  BY <1>1, <1>5, <1>6, <1>7 DEF c

\* remove_stale moves a bound connection to the closed ones.
LEMMA CloseMoves ==
  ASSUME HttpTyped, Listed, RemoveStale, Finished
  PROVE  /\ Served \in Conns /\ Served \in ToSet(bound)
         /\ IsInjective(bound') /\ ToSet(bound') = ToSet(bound) \ {Served}
         /\ closed' = closed \cup {Served}
         /\ sender' = [sender EXCEPT ![Served] = "ended"]
         /\ UNCHANGED <<backlog, Unbound, peer>>
<1>1. /\ closed' = closed \cup {Served} /\ pc = "stale"
      /\ sender' = [sender EXCEPT ![Served] = "ended"]
      /\ UNCHANGED <<backlog, Unbound, peer>>
  BY DEF RemoveStale, Unbound, client
<1>2. PICK i \in DOMAIN bound : bound[i] = Served /\ bound' = RemoveAt(bound, i)
  BY DEF RemoveStale
<1>3. /\ bound \in Seq(Conns) /\ IsInjective(bound) /\ i \in 1..Len(bound)
      /\ Served \in ToSet(bound)
  BY <1>2, LenProperties DEF HttpTyped, Listed, Apart, ToSet
<1>4. IsInjective(bound') /\ ToSet(bound') = ToSet(bound) \ {Served}
  BY <1>2, <1>3, RemoveAtOnce
<1>5. Served \in Conns
  BY <1>1, ServedTyped DEF HttpTyped
<1>6. QED
  BY <1>1, <1>3, <1>4, <1>5

LEMMA ListedInit == Init => Listed
<1>1. ASSUME Init
      PROVE  backlog = <<>> /\ Unbound = <<>> /\ bound = <<>> /\ closed = {}
  <2>1. ConnsOf(<<>>) = <<>>
    BY EmptySeq, ConnsOfType
  <2>2. QED
    BY <1>1, <2>1 DEF Init, Unbound
<1>2. QED
  BY <1>1, EmptyOnce DEF Listed, Apart

LEMMA ListedStep ==
  ASSUME HttpTyped, Listed, NotYet, [Next]_vars
  PROVE  Listed'
<1>1. ASSUME ListsKept
      PROVE  Listed'
  BY <1>1 DEF Listed, ListsKept
<1>2. CASE AcceptConn
  <2>1. /\ Len(backlog) \in Nat /\ pc = "accept" /\ Welcome(Len(backlog))
        /\ backlog' = <<>> /\ Unbound' = ConnsOf(nonBound')
        /\ UNCHANGED <<bound, closed>>
    BY <1>2, LenProperties DEF AcceptConn, Unbound, HttpTyped
  <2>2. /\ IsInjective(ConnsOf(nonBound'))
        /\ ToSet(ConnsOf(nonBound')) = ToSet(Unbound) \cup {backlog[j] : j \in 1..Len(backlog)}
    BY <2>1, WelcomeOnce
  <2>3. {backlog[j] : j \in 1..Len(backlog)} = ToSet(backlog)
    BY LenProperties DEF ToSet, HttpTyped
  <2>4. QED
    BY <2>1, <2>2, <2>3, EmptyOnce DEF Listed, Apart
<1>3. CASE AcceptThrows
  <2>1. /\ Len(backlog) \in Nat /\ pc = "accept" /\ backlog \in Seq(Conns)
        /\ DOMAIN backlog = 1..Len(backlog) /\ IsInjective(backlog)
        /\ Unbound' = ConnsOf(nonBound') /\ UNCHANGED <<bound, closed>>
    BY <1>3, LenProperties DEF AcceptThrows, Unbound, HttpTyped, Listed, Apart, main
  <2>2. PICK n \in 0..(Len(backlog) - 1) :
          Welcome(n) /\ backlog' = SubSeq(backlog, n + 2, Len(backlog))
    BY <1>3 DEF AcceptThrows
  <2>3. n \in Nat /\ n <= Len(backlog) /\ n + 2 \in Nat \ {0}
    BY <2>1
  <2> DEFINE front == {backlog[j] : j \in 1..n}
             back  == {backlog[j] : j \in (n + 2)..Len(backlog)}
  <2>4. /\ IsInjective(ConnsOf(nonBound'))
        /\ ToSet(ConnsOf(nonBound')) = ToSet(Unbound) \cup front
    BY <2>1, <2>2, <2>3, WelcomeOnce
  <2>5. IsInjective(backlog') /\ ToSet(backlog') = back
    <3>1. \A m \in Nat \ {0}, k \in Nat : k <= Len(backlog) =>
            /\ IsInjective(SubSeq(backlog, m, k))
            /\ ToSet(SubSeq(backlog, m, k)) = {backlog[j] : j \in m..k}
      BY <2>1, SliceOnce
    <3>2. Len(backlog) <= Len(backlog)
      BY <2>1
    <3>3. QED
      BY <2>1, <2>2, <2>3, <3>1, <3>2
  <2>6. front \subseteq ToSet(backlog) /\ back \subseteq ToSet(backlog)
    BY <2>1, <2>3 DEF ToSet
  <2>7. front \cap back = {}
    BY <2>1, <2>3 DEF IsInjective
  <2> HIDE DEF front, back
  <2>8. QED
    BY <2>1, <2>4, <2>5, <2>6, <2>7 DEF Listed, Apart
<1>4. CASE PushBind
  <2> DEFINE c == Current.conn
  <2>1. /\ c \in ToSet(Unbound)
        /\ IsInjective(Unbound') /\ ToSet(Unbound') = ToSet(Unbound) \ {c}
        /\ IsInjective(bound') /\ ToSet(bound') = ToSet(bound) \cup {c}
        /\ UNCHANGED <<backlog, closed>>
    BY <1>4, BindMoves
  <2> HIDE DEF c
  <2>2. QED
    BY <2>1 DEF Listed, Apart
<1>5. CASE RemoveStale
  <2>1. CASE Finished
    BY <1>5, <2>1, CloseMoves DEF Listed, Apart
  <2>2. CASE ~Finished
    <3>1. ListsKept
      BY <1>5, <2>2 DEF RemoveStale, ListsKept, Unbound
    <3>2. QED
      BY <3>1, <1>1
  <2>3. QED
    BY <2>1, <2>2
<1>6. ASSUME NEW c \in Conns, Connect(c)
      PROVE  Listed'
  <2>1. /\ peer[c] = "out" /\ backlog' = Append(backlog, c)
        /\ UNCHANGED <<Unbound, bound, closed>>
    BY <1>6 DEF Connect, Unbound, main
  <2>2. c \notin ToSet(backlog) \cup ToSet(Unbound) \cup ToSet(bound) \cup closed
    BY <2>1 DEF NotYet
  <2>3. IsInjective(backlog') /\ ToSet(backlog') = ToSet(backlog) \cup {c}
    BY <2>1, <2>2, AppendOnce DEF Listed, Apart, HttpTyped
  <2>4. QED
    BY <2>1, <2>2, <2>3 DEF Listed, Apart
<1>7. QED
  BY <1>1, <1>2, <1>3, <1>4, <1>5, <1>6, KeepLists DEF Next, Main
-----------------------------------------------------------------------------
(* NotYet.                                                                 *)

\* The connections that accept has taken: they waited, and wait no more.
LEMMA TakenWaited ==
  ASSUME HttpTyped, Listed, NotYet, AcceptConn \/ AcceptThrows
  PROVE  \E new \in SUBSET ToSet(backlog) :
           /\ ToSet(backlog') \subseteq ToSet(backlog) \ new
           /\ ToSet(Unbound') = ToSet(Unbound) \cup new
           /\ sender' = [c \in Conns |-> IF c \in new THEN "idle" ELSE sender[c]]
           /\ UNCHANGED <<bound, closed, peer, response, buf, taken>>
<1>1. /\ Len(backlog) \in Nat /\ pc = "accept" /\ backlog \in Seq(Conns)
      /\ DOMAIN backlog = 1..Len(backlog) /\ IsInjective(backlog)
      /\ Unbound' = ConnsOf(nonBound')
      /\ UNCHANGED <<bound, closed, peer, response, buf, taken>>
  BY LenProperties DEF AcceptConn, AcceptThrows, Unbound, HttpTyped, Listed,
     Apart, main, client
<1>2. PICK n \in Nat : /\ n <= Len(backlog) /\ Welcome(n)
                       /\ \/ backlog' = <<>>
                          \/ n + 2 \in Nat \ {0} /\ backlog' = SubSeq(backlog, n + 2, Len(backlog))
  BY <1>1 DEF AcceptConn, AcceptThrows
<1> DEFINE new == {backlog[j] : j \in 1..n}
<1>3. /\ ToSet(Unbound') = ToSet(Unbound) \cup new
      /\ ToSet(SubSeq(backlog, 1, n)) = new
  BY <1>1, <1>2, WelcomeOnce
<1>4. sender' = [c \in Conns |-> IF c \in new THEN "idle" ELSE sender[c]]
  BY <1>2, <1>3, WelcomeTyped
<1>5. new \subseteq ToSet(backlog)
  BY <1>1, <1>2 DEF ToSet
<1>6. ToSet(backlog') \subseteq ToSet(backlog) \ new
  <2>1. CASE backlog' = <<>>
    BY <2>1, EmptyOnce
  <2>2. CASE n + 2 \in Nat \ {0} /\ backlog' = SubSeq(backlog, n + 2, Len(backlog))
    <3>1. \A m \in Nat \ {0}, k \in Nat : k <= Len(backlog) =>
            ToSet(SubSeq(backlog, m, k)) = {backlog[j] : j \in m..k}
      BY <1>1, SliceOnce
    <3>2. Len(backlog) <= Len(backlog)
      BY <1>1
    <3>3. ToSet(backlog') = {backlog[j] : j \in (n + 2)..Len(backlog)}
      BY <1>1, <2>2, <3>1, <3>2
    <3>4. \A j \in (n + 2)..Len(backlog) : /\ backlog[j] \in ToSet(backlog)
                                           /\ backlog[j] \notin new
      BY <1>1, <1>2 DEF ToSet, IsInjective
    <3>5. QED
      BY <3>3, <3>4
  <2>3. QED
    BY <1>2, <2>1, <2>2
<1> HIDE DEF new
<1>7. QED
  BY <1>1, <1>3, <1>4, <1>5, <1>6

LEMMA NotYetInit == Init => NotYet
<1>1. ASSUME Init
      PROVE  backlog = <<>> /\ Unbound = <<>> /\ bound = <<>> /\ closed = {}
  <2>1. ConnsOf(<<>>) = <<>>
    BY EmptySeq, ConnsOfType
  <2>2. QED
    BY <1>1, <2>1 DEF Init, Unbound
<1>2. QED
  BY <1>1, EmptyOnce DEF NotYet, Init

LEMMA NotYetStep ==
  ASSUME HttpTyped, Listed, NotYet, [Next]_vars
  PROVE  NotYet'
<1>1. ASSUME ListsKept,
             \A c \in Conns : peer'[c] = "out" => peer[c] = "out",
             \A c \in Conns : sender[c] = "none" => sender'[c] = "none"
      PROVE  NotYet'
  <2>1. ToSet(backlog) \subseteq Conns
    BY LenProperties, ElementOfSeq DEF HttpTyped, ToSet
  <2>2. QED
    BY <1>1, <2>1 DEF NotYet, ListsKept
<1>2. CASE AcceptConn \/ AcceptThrows
  <2>1. PICK new \in SUBSET ToSet(backlog) :
          /\ ToSet(backlog') \subseteq ToSet(backlog) \ new
          /\ ToSet(Unbound') = ToSet(Unbound) \cup new
          /\ sender' = [c \in Conns |-> IF c \in new THEN "idle" ELSE sender[c]]
          /\ UNCHANGED <<bound, closed, peer, response, buf, taken>>
    BY <1>2, TakenWaited
  <2>2. ToSet(backlog) \subseteq Conns
    BY LenProperties, ElementOfSeq DEF HttpTyped, ToSet
  <2>3. QED
    BY <2>1, <2>2 DEF NotYet
<1>3. CASE PushBind
  BY <1>3, BindMoves DEF NotYet
<1>4. CASE RemoveStale /\ Finished
  <2>1. \A c \in ToSet(backlog) : c # Served /\ c \in Conns
    <3>1. ToSet(backlog) \subseteq Conns
      BY LenProperties, ElementOfSeq DEF HttpTyped, ToSet
    <3>2. Served \in ToSet(bound) /\ ToSet(backlog) \cap ToSet(bound) = {}
      BY <1>4, CloseMoves DEF Listed, Apart
    <3>3. QED
      BY <3>1, <3>2
  <2>2. peer[Served] # "out"
    BY <1>4, CloseMoves DEF NotYet
  <2>3. QED
    BY <1>4, <2>1, <2>2, CloseMoves DEF NotYet, HttpTyped
<1>5. CASE RemoveStale /\ ~Finished
  <2>1. ListsKept /\ UNCHANGED <<peer, sender>>
    BY <1>5 DEF RemoveStale, ListsKept, Unbound, client
  <2>2. QED
    BY <2>1, <1>1
<1>6. ASSUME NEW c \in Conns, Connect(c)
      PROVE  NotYet'
  <2>1. /\ peer[c] = "out" /\ backlog' = Append(backlog, c)
        /\ peer' = [peer EXCEPT ![c] = "open"]
        /\ UNCHANGED <<Unbound, bound, closed, sender>>
    BY <1>6 DEF Connect, Unbound, main, socket
  <2>2. /\ c \notin ToSet(backlog) \cup ToSet(Unbound) \cup ToSet(bound) \cup closed
        /\ sender[c] = "none"
    BY <2>1 DEF NotYet
  <2>3. ToSet(backlog') = ToSet(backlog) \cup {c}
    BY <2>1, <2>2, AppendOnce DEF Listed, Apart, HttpTyped
  <2>4. peer'[c] # "out" /\ \A d \in Conns : d # c => peer'[d] = peer[d]
    BY <2>1 DEF HttpTyped
  <2>5. QED
    BY <2>1, <2>2, <2>3, <2>4 DEF NotYet
<1>7. CASE Listen \/ PushLater \/ PushEnd
  <2>1. UNCHANGED <<peer, sender>>
    BY <1>7 DEF Listen, PushLater, PushEnd, client, socket
  <2>2. QED
    BY <1>1, <1>7, <2>1, KeepLists
<1>8. CASE ServeEnd \/ ServeNull \/ PacketizeNothing \/ Packetize \/ UNCHANGED vars
  <2>1. UNCHANGED <<peer, sender>>
    BY <1>8 DEF ServeEnd, ServeNull, PacketizeNothing, Packetize, vars, client, socket
  <2>2. QED
    BY <1>1, <1>8, <2>1, KeepLists
<1>9. ASSUME NEW c \in Conns,
             Threads(c) \/ SendWhole(c) \/ SendShort(c) \/ Arrive(c)
      PROVE  NotYet'
  <2>1. UNCHANGED peer
    BY <1>9 DEF Threads, RecvEnd, SendEnd, SendStart, SendWhole, SendShort, Arrive, client
  <2>2. \A d \in Conns : sender[d] = "none" => sender'[d] = "none"
    BY <1>9 DEF Threads, RecvEnd, SendEnd, SendStart, SendWhole, SendShort, Arrive, HttpTyped
  <2>3. QED
    BY <1>1, <1>9, <2>1, <2>2, KeepLists
<1>10. ASSUME NEW c \in Conns, PeerEnds(c)
       PROVE  NotYet'
  <2>1. UNCHANGED sender /\ \A d \in Conns : peer'[d] = "out" => peer[d] = "out"
    BY <1>10 DEF PeerEnds, socket, HttpTyped
  <2>2. QED
    BY <1>1, <1>10, <2>1, KeepLists
<1>11. QED
  BY <1>2, <1>3, <1>4, <1>5, <1>6, <1>7, <1>8, <1>9, <1>10 DEF Next, Main

-----------------------------------------------------------------------------
(* Account.                                                                *)

LEMMA AccountStep ==
  ASSUME HttpTyped, Listed, NotYet, \A d \in Conns : Account(d), [Next]_vars,
         NEW c \in Conns
  PROVE  Account(c)'
<1>1. Account(c)
  OBVIOUS
<1>2. ASSUME UNCHANGED <<response, closed, sender, buf, taken>>
      PROVE  Account(c)'
  BY <1>1, <1>2 DEF Account
<1>3. CASE AcceptConn \/ AcceptThrows
  <2>1. PICK new \in SUBSET ToSet(backlog) :
          /\ sender' = [d \in Conns |-> IF d \in new THEN "idle" ELSE sender[d]]
          /\ UNCHANGED <<closed, response, buf, taken>>
    BY <1>3, TakenWaited
  <2>2. c \in new => sender[c] = "none"
    BY <2>1 DEF NotYet
  <2>3. QED
    BY <1>1, <2>1, <2>2 DEF Account
<1>4. CASE Listen \/ PushLater \/ PushBind \/ PushEnd
  BY <1>2, <1>4 DEF Listen, PushLater, PushBind, PushEnd, server, client, socket
<1>5. CASE ServeEnd \/ ServeNull \/ PacketizeNothing \/ UNCHANGED vars
  BY <1>2, <1>5 DEF ServeEnd, ServeNull, PacketizeNothing, vars, server, client, socket
<1>6. CASE Packetize
  <2>1. /\ ~Locked(Served) /\ Served \in Conns
        /\ response' = [response EXCEPT ![Served] = "sent"]
        /\ buf' = [buf EXCEPT ![Served] = IF response[Served] = "sent" THEN @ ELSE @ + Size]
        /\ UNCHANGED <<closed, sender, taken>>
    BY <1>6, ServedTyped DEF Packetize
  <2>2. CASE c # Served
    BY <1>1, <2>1, <2>2 DEF Account, HttpTyped
  <2>3. CASE c = Served
    <3>1. CASE response[c] = "sent"
      BY <1>1, <2>1, <2>3, <3>1 DEF Account, HttpTyped
    <3>2. CASE response[c] = "none"
      <4>1. /\ response'[c] = "sent" /\ buf'[c] = Size /\ taken'[c] = 0 /\ c \notin closed
            /\ sender'[c] \notin {"sending", "broken"}
        BY <1>1, <2>1, <2>3, <3>2, SizeAssumption DEF Account, HttpTyped, Locked
      <4>2. QED
        BY <2>1, <4>1, SizeAssumption DEF Account
    <3>3. QED
      BY <3>1, <3>2 DEF HttpTyped
  <2>4. QED
    BY <2>2, <2>3
<1>7. CASE RemoveStale /\ Finished
  <2>1. /\ closed' = closed \cup {Served} /\ Served \in Conns
        /\ sender' = [sender EXCEPT ![Served] = "ended"]
        /\ buf' = [buf EXCEPT ![Served] = 0] /\ UNCHANGED <<response, taken>>
        /\ response[Served] = "sent" /\ buf[Served] = 0
    BY <1>7, CloseMoves DEF RemoveStale, Finished
  <2>2. CASE c # Served
    BY <1>1, <2>1, <2>2 DEF Account, HttpTyped
  <2>3. CASE c = Served
    <3>1. taken[c] = Size
      BY <1>1, <2>1, <2>3 DEF Account, HttpTyped
    <3>2. QED
      BY <2>1, <2>3, <3>1, SizeAssumption DEF Account, HttpTyped
  <2>4. QED
    BY <2>2, <2>3
<1>8. CASE RemoveStale /\ ~Finished
  BY <1>2, <1>8 DEF RemoveStale
<1>9. ASSUME NEW d \in Conns, RecvEnd(d) \/ Arrive(d) \/ Connect(d) \/ PeerEnds(d)
      PROVE  Account(c)'
  BY <1>2, <1>9 DEF RecvEnd, Arrive, Connect, PeerEnds, server, socket
<1>10. ASSUME NEW d \in Conns, SendEnd(d)
       PROVE  Account(c)'
  BY <1>1, <1>10 DEF SendEnd, Account, HttpTyped, server
<1>11. ASSUME NEW d \in Conns, SendStart(d)
       PROVE  Account(c)'
  BY <1>1, <1>11 DEF SendStart, Account, HttpTyped, server
<1>12. ASSUME NEW d \in Conns, SendWhole(d)
       PROVE  Account(c)'
  BY <1>1, <1>12 DEF SendWhole, Account, HttpTyped, server
<1>13. ASSUME NEW d \in Conns, SendShort(d)
       PROVE  Account(c)'
  BY <1>1, <1>13 DEF SendShort, Account, HttpTyped, server
<1>14. QED
  BY <1>3, <1>4, <1>5, <1>6, <1>7, <1>8, <1>9, <1>10, <1>11, <1>12, <1>13
     DEF Next, Main, Threads

-----------------------------------------------------------------------------
(* The theorems.                                                           *)

LEMMA InvInit == Init => HttpInv
<1>1. Init => \A c \in Conns : Account(c)
  BY DEF Init, Account
<1>2. QED
  BY <1>1, TypedInit, ListedInit, NotYetInit DEF HttpInv

LEMMA InvStep == HttpInv /\ [Next]_vars => HttpInv'
BY TypedStep, ListedStep, NotYetStep, AccountStep DEF HttpInv

LEMMA InvAlways == Spec => []HttpInv
BY InvInit, InvStep, PTL DEF Spec

\* However often net_http_loop serves a driver state, and whenever the threads
\* of the socket send, fail or end, the response of a connection is passed to
\* its socket once, and remove_stale closes it only when all of it has left.
THEOREM OneAnswerAlways == Spec => []OneAnswer
<1>1. HttpInv => OneAnswer
  BY SizeAssumption DEF HttpInv, HttpTyped, Account, OneAnswer
<1>2. QED
  BY <1>1, InvAlways, PTL

\* push_conn_to_file, which erases from a copy while it advances, accept, which
\* may end in an exception, and remove_stale never lose track of a connection
\* so far that it is in two of the lists, or in one twice.
THEOREM InOneListAlways == Spec => []InOneList
<1>1. HttpInv => InOneList
  BY DEF HttpInv, Listed, InOneList, Unbound
<1>2. QED
  BY <1>1, InvAlways, PTL

=============================================================================

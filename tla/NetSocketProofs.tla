--------------------------- MODULE NetSocketProofs --------------------------
(***************************************************************************)
(* InStream, OutStream and StaleIsFlushed of NetSocket, for streams of any *)
(* length, calls of send of any sizes and any window.                      *)
(***************************************************************************)
EXTENDS NetSocket, SequenceTheorems, TLAPS

\* Every byte is a number, every counter a natural number.
SocketTyped ==
  /\ recvBuf \in Seq(Nat) /\ sendBuf \in Seq(Nat)
  /\ chunk \in Seq(Nat) /\ copy \in Seq(Nat) /\ arg \in Seq(Nat)
  /\ netIn \in Seq(Nat) /\ taken \in Seq(Nat) /\ got \in Seq(Nat)
  /\ sent \in Nat /\ said \in Nat /\ heard \in Nat

\* The recv thread holds bytes only between the system and recv_buffer.
ChunkInHand == recvPc # "append" => chunk = <<>>

\* The mutex is taken as long as the copy is not wholly sent, and then nobody
\* has appended to the buffer since it was copied.
CopyIsBuffer ==
  /\ mutex = "free" => sent = 0 /\ sendPc # "send"
  /\ sendPc = "send" => copy = sendBuf /\ sent <= Len(copy)
  /\ sent <= Len(sendBuf)

\* What a caller passes to send goes on where the last call ended.
ArgIsNext == main = "send" => arg = From(Numbers(said + Len(arg)), said + 1)

\* Who has disconnected sends nothing more.
ClosedIsQuiet ==
  closed # "no" => /\ main # "send"
                   /\ open => main \in {"join recv", "join send", "close"}

SocketInv ==
  /\ SocketTyped /\ ChunkInHand /\ CopyIsBuffer /\ ArgIsNext /\ ClosedIsQuiet
  /\ InStream /\ OutStream /\ StaleIsFlushed

-----------------------------------------------------------------------------
(* Streams of numbered bytes.                                              *)

LEMMA NumbersType ==
  ASSUME NEW n \in Nat
  PROVE  Numbers(n) \in Seq(Nat) /\ Len(Numbers(n)) = n
<1>1. Numbers(n) \in [1..n -> Nat]
  BY DEF Numbers
<1>2. Numbers(n) \in Seq(Nat)
  BY <1>1, SeqDef
<1>3. QED
  BY <1>1, <1>2, LenProperties

LEMMA FromType ==
  ASSUME NEW s \in Seq(Nat), NEW i \in Nat \ {0}
  PROVE  /\ From(s, i) \in Seq(Nat)
         /\ Len(From(s, i)) = IF i <= Len(s) THEN Len(s) - i + 1 ELSE 0
<1>1. \A j \in i..Len(s) : s[j] \in Nat
  BY ElementOfSeq, LenProperties
<1>2. QED
  BY <1>1, LenProperties, SubSeqProperties DEF From

LEMMA FromStart ==
  ASSUME NEW s \in Seq(Nat)
  PROVE  From(s, 1) = s
BY SubSeqFull DEF From

LEMMA FromEnd ==
  ASSUME NEW s \in Seq(Nat)
  PROVE  From(s, Len(s) + 1) = <<>>
BY SubSeqEmpty, LenProperties DEF From

LEMMA Reassociate ==
  \A s, t, u \in Seq(Nat) : (s \o t) \o u = s \o (t \o u)
BY ConcatAssociative, SMTT(30)

\* A stream is its first n bytes and the rest.
LEMMA SplitStream ==
  ASSUME NEW s \in Seq(Nat), NEW n \in 0..Len(s)
  PROVE  /\ SubSeq(s, 1, n) \in Seq(Nat)
         /\ SubSeq(s, 1, n) \o From(s, n + 1) = s
<1>1. \A j \in 1..n : s[j] \in Nat
  BY ElementOfSeq, LenProperties
<1>2. SubSeq(s, 1, n) \in Seq(Nat)
  BY <1>1, LenProperties, SubSeqProperties
<1>3. SubSeq(s, 1, n) \o SubSeq(s, n + 1, Len(s)) = SubSeq(s, 1, Len(s))
  <2>1. Len(s) \in Nat
    BY LenProperties
  <2>2. 1 \in 1..Len(s) + 1 /\ n \in 1 - 1..Len(s) /\ Len(s) \in n..Len(s)
    BY <2>1
  <2>3. QED
    BY <2>2, ConcatAdjacentSubSeq, Zenon
<1>4. QED
  BY <1>2, <1>3, SubSeqFull DEF From

\* The first n of the first n + k numbers.
LEMMA NumbersGrow ==
  ASSUME NEW n \in Nat, NEW k \in Nat
  PROVE  Numbers(n) \o From(Numbers(n + k), n + 1) = Numbers(n + k)
<1> DEFINE all == Numbers(n + k)
<1>1. all \in Seq(Nat) /\ Len(all) = n + k
  BY NumbersType
<1>2. SubSeq(all, 1, n) \in Seq(Nat) /\ SubSeq(all, 1, n) \o From(all, n + 1) = all
  <2>1. n \in 0..Len(all)
    BY <1>1
  <2> HIDE DEF all
  <2>2. QED
    BY <1>1, <2>1, SplitStream
<1>3. SubSeq(all, 1, n) = Numbers(n)
  <2>1. \A i \in 1..n : all[i] \in Nat /\ all[i] = i
    BY DEF Numbers
  <2>2. /\ Len(SubSeq(all, 1, n)) = n
        /\ \A i \in 1..n : SubSeq(all, 1, n)[i] = all[i]
    <3> HIDE DEF all
    <3>1. QED
      BY <2>1, SubSeqProperties
  <2>3. \A i \in 1..n : Numbers(n)[i] = i
    BY DEF Numbers
  <2>4. Numbers(n) \in Seq(Nat) /\ Len(Numbers(n)) = n
    BY NumbersType
  <2>5. QED
    <3> HIDE DEF all
    <3>1. QED
      BY <1>2, <2>1, <2>2, <2>3, <2>4, SeqEqual
<1>4. QED
  BY <1>2, <1>3

LEMMA NumbersNext ==
  ASSUME NEW n \in Nat
  PROVE  Append(Numbers(n), n + 1) = Numbers(n + 1)
<1>1. Numbers(n) \in Seq(Nat) /\ Len(Numbers(n)) = n
  BY NumbersType
<1>2. Numbers(n + 1) \in Seq(Nat) /\ Len(Numbers(n + 1)) = n + 1
  BY NumbersType
<1> DEFINE next == Append(Numbers(n), n + 1)
<1>3. /\ next \in Seq(Nat) /\ Len(next) = n + 1
      /\ \A i \in 1..n : next[i] = Numbers(n)[i]
      /\ next[n + 1] = n + 1
  BY <1>1, AppendProperties
<1>4. \A i \in 1..(n + 1) : next[i] = Numbers(n + 1)[i]
  <2>1. \A i \in 1..n : Numbers(n)[i] = i
    BY DEF Numbers
  <2>2. \A i \in 1..(n + 1) : Numbers(n + 1)[i] = i
    BY DEF Numbers
  <2>3. QED
    <3> HIDE DEF next
    <3>1. QED
      BY <1>3, <2>1, <2>2
<1>5. QED
  BY <1>2, <1>3, <1>4, SeqEqual

\* A byte moves from the front of one stream to the end of the one before it.
LEMMA ByteMoves ==
  ASSUME NEW s \in Seq(Nat), NEW t \in Seq(Nat), NEW k \in 1..Len(s)
  PROVE  Append(t, s[k]) \o From(s, k + 1) = t \o From(s, k)
<1>1. s[k] \in Nat /\ <<s[k]>> \in Seq(Nat)
  BY ElementOfSeq
<1>2. From(s, k) = <<s[k]>> \o From(s, k + 1)
  BY SubSeqRecursiveFirst, LenProperties DEF From
<1>3. From(s, k + 1) \in Seq(Nat)
  BY FromType, LenProperties
<1>4. Append(t, s[k]) = t \o <<s[k]>>
  BY <1>1, AppendIsConcat
<1>5. (t \o <<s[k]>>) \o From(s, k + 1) = t \o (<<s[k]>> \o From(s, k + 1))
  BY <1>1, <1>3, Reassociate, Zenon
<1>6. QED
  BY <1>2, <1>4, <1>5, Zenon

-----------------------------------------------------------------------------
(* The invariant holds at the start and after every step.                  *)

USE WindowAssumption, ChunksAssumption, MaxAssumption

LEMMA SocketInitInv == Init => SocketInv
<1> SUFFICES ASSUME Init PROVE SocketInv
  OBVIOUS
<1> USE DEF Init
<1>1. <<>> \in Seq(Nat) /\ Len(<<>>) = 0
  BY EmptySeq
<1>2. Numbers(0) = <<>>
  BY NumbersType, EmptySeq
<1>3. <<>> \o <<>> = <<>>
  BY <1>1, ConcatEmptySeq
<1>4. SocketTyped /\ ChunkInHand /\ CopyIsBuffer /\ ArgIsNext /\ ClosedIsQuiet
  BY <1>1 DEF SocketTyped, ChunkInHand, CopyIsBuffer, ArgIsNext, ClosedIsQuiet
<1>5. InStream
  BY <1>2, <1>3, Zenon DEF InStream
<1>6. OutStream
  <2>1. From(<<>>, 0 + 1) = <<>>
    BY <1>1, SubSeqEmpty DEF From
  <2>2. QED
    BY <1>2, <1>3, <2>1 DEF OutStream
<1>7. StaleIsFlushed
  BY DEF StaleIsFlushed
<1>8. QED
  BY <1>4, <1>5, <1>6, <1>7 DEF SocketInv

\* The lengths of the stream to the peer: what is accepted and what is left.
LEMMA OutLengths ==
  ASSUME SocketTyped, CopyIsBuffer, OutStream
  PROVE  Len(taken) \in Nat /\ Len(sendBuf) \in Nat
         /\ Len(taken) + (Len(sendBuf) - sent) = said
<1>1. Len(Numbers(said)) = said
  BY NumbersType DEF SocketTyped
<1>2. /\ From(sendBuf, sent + 1) \in Seq(Nat)
      /\ Len(From(sendBuf, sent + 1)) = Len(sendBuf) - sent
  <2>1. sendBuf \in Seq(Nat) /\ Len(sendBuf) \in Nat /\ sent + 1 \in Nat \ {0}
    BY LenProperties DEF SocketTyped
  <2>2. sent <= Len(sendBuf)
    BY DEF CopyIsBuffer
  <2>3. sent \in Nat
    BY DEF SocketTyped
  <2>4. /\ From(sendBuf, sent + 1) \in Seq(Nat)
        /\ Len(From(sendBuf, sent + 1)) =
             IF sent + 1 <= Len(sendBuf) THEN Len(sendBuf) - (sent + 1) + 1 ELSE 0
    BY <2>1, FromType, Zenon
  <2>5. QED
    BY <2>1, <2>2, <2>3, <2>4
<1>3. Len(taken \o From(sendBuf, sent + 1)) = Len(taken) + Len(From(sendBuf, sent + 1))
  BY <1>2, ConcatProperties DEF SocketTyped
<1>4. QED
  BY <1>1, <1>2, <1>3, LenProperties DEF OutStream, SocketTyped

\* Steps that move no byte.
LEMMA StillInv ==
  ASSUME SocketInv,
         UNCHANGED <<recvBuf, sendBuf, chunk, copy, sent, netIn, taken, said,
                     heard, got, arg>>,
         ChunkInHand', CopyIsBuffer', ArgIsNext', ClosedIsQuiet',
         StaleIsFlushed'
  PROVE  SocketInv'
<1>1. SocketTyped'
  BY DEF SocketInv, SocketTyped
<1>2. InStream' /\ OutStream'
  BY Zenon DEF SocketInv, InStream, OutStream, From
<1>3. QED
  BY <1>1, <1>2 DEF SocketInv

\* What the recv thread does leaves the stream to the peer alone.
LEMMA OutUntouched ==
  ASSUME SocketInv,
         UNCHANGED <<mutex, sendPc, sendBuf, copy, sent, taken, main, arg, said,
                     open, closed>>
  PROVE  CopyIsBuffer' /\ ArgIsNext' /\ ClosedIsQuiet' /\ OutStream' /\ StaleIsFlushed'
BY Zenon DEF SocketInv, CopyIsBuffer, ArgIsNext, ClosedIsQuiet, OutStream,
             StaleIsFlushed, From

LEMMA RecvThreadInv == SocketInv /\ RecvThread => SocketInv'
<1> SUFFICES ASSUME SocketInv, RecvThread PROVE SocketInv'
  OBVIOUS
<1> USE DEF shared, recvT, sendT, mainT, network, hist
<1>1. CASE RecvCheck \/ RecvPoll \/ RecvEnd
  <2> USE <1>1 DEF RecvCheck, RecvPoll, RecvEnd
  <2>1. UNCHANGED <<mutex, sendPc, sendBuf, copy, sent, taken, main, arg, said,
                    open, closed>>
    OBVIOUS
  <2>2. UNCHANGED <<recvBuf, chunk, netIn, heard, got>>
    OBVIOUS
  <2>3. ChunkInHand'
    BY DEF SocketInv, ChunkInHand
  <2>4. QED
    <3> HIDE <1>1
    <3>1. QED
      BY <2>1, <2>2, <2>3, OutUntouched, StillInv
<1>2. CASE RecvSome
  <2> USE DEF RecvSome
  <2>1. UNCHANGED <<mutex, sendPc, sendBuf, copy, sent, taken, main, arg, said,
                    open, closed>>
    BY <1>2
  <2>2. UNCHANGED <<recvBuf, heard, got>> /\ chunk = <<>> /\ recvPc' = "append"
    BY <1>2 DEF SocketInv, ChunkInHand
  <2>3. netIn \in Seq(Nat) /\ recvBuf \in Seq(Nat) /\ got \in Seq(Nat)
    BY DEF SocketInv, SocketTyped
  <2>4. PICK n \in 1..Len(netIn) :
               chunk' = SubSeq(netIn, 1, n) /\ netIn' = From(netIn, n + 1)
    BY <1>2
  <2>5. n \in 0..Len(netIn) /\ n + 1 \in Nat \ {0}
    BY <2>3, LenProperties
  <2>6. chunk' \in Seq(Nat) /\ chunk' \o netIn' = netIn
    BY <2>3, <2>4, <2>5, SplitStream
  <2>7. netIn' \in Seq(Nat)
    BY <2>3, <2>4, <2>5, FromType
  <2>8. SocketTyped' /\ ChunkInHand'
    BY <2>1, <2>2, <2>6, <2>7 DEF SocketInv, SocketTyped, ChunkInHand
  <2>9. InStream'
    <3> DEFINE had == got \o recvBuf
    <3>1. had \in Seq(Nat)
      BY <2>3, ConcatProperties
    <3>2. had \o <<>> = had
      BY <3>1, ConcatEmptySeq
    <3>3. had \o netIn = Numbers(heard)
      BY <2>2, <3>2, Zenon DEF SocketInv, InStream
    <3>4. (had \o chunk') \o netIn' = had \o (chunk' \o netIn')
      <4> HIDE DEF had
      <4>1. QED
        BY <2>6, <2>7, <3>1, Reassociate, Zenon
    <3>5. QED
      BY <2>2, <2>6, <3>3, <3>4, Zenon DEF InStream
  <2>10. QED
    BY <2>1, <2>8, <2>9, OutUntouched DEF SocketInv
<1>3. CASE RecvAppend
  <2> USE DEF RecvAppend
  <2>1. UNCHANGED <<mutex, sendPc, sendBuf, copy, sent, taken, main, arg, said,
                    open, closed>>
    BY <1>3
  <2>2. /\ UNCHANGED <<heard, got, netIn>> /\ recvPc' = "poll"
        /\ recvBuf' = recvBuf \o chunk /\ chunk' = <<>>
    BY <1>3
  <2>3. /\ netIn \in Seq(Nat) /\ recvBuf \in Seq(Nat)
        /\ got \in Seq(Nat) /\ chunk \in Seq(Nat)
    BY DEF SocketInv, SocketTyped
  <2>4. recvBuf' \in Seq(Nat) /\ chunk' \in Seq(Nat)
    BY <2>2, <2>3, ConcatProperties, EmptySeq
  <2>5. SocketTyped' /\ ChunkInHand'
    BY <2>1, <2>2, <2>4 DEF SocketInv, SocketTyped, ChunkInHand
  <2>6. InStream'
    <3>1. got \o recvBuf' = (got \o recvBuf) \o chunk
      <4>1. (got \o recvBuf) \o chunk = got \o (recvBuf \o chunk)
        BY ONLY <2>3, Reassociate, Zenon
      <4> QED
        BY ONLY <2>2, <4>1, Zenon
    <3>2. got \o recvBuf' \in Seq(Nat)
      BY <2>3, <2>4, ConcatProperties
    <3>3. (got \o recvBuf') \o <<>> = got \o recvBuf'
      BY <3>2, ConcatEmptySeq
    <3>4. QED
      BY <2>2, <3>1, <3>3, Zenon DEF SocketInv, InStream
  <2>7. QED
    BY <2>1, <2>5, <2>6, OutUntouched DEF SocketInv
<1>4. QED
  BY <1>1, <1>2, <1>3 DEF RecvThread

\* What the send thread does leaves the stream from the peer alone.
LEMMA InUntouched ==
  ASSUME SocketInv, UNCHANGED <<recvPc, chunk, recvBuf, netIn, heard, got>>
  PROVE  ChunkInHand' /\ InStream'
BY Zenon DEF SocketInv, ChunkInHand, InStream

\* Neither thread says anything or disconnects.
LEMMA MainUntouched ==
  ASSUME SocketInv, UNCHANGED <<main, arg, said, open, closed>>
  PROVE  ArgIsNext' /\ ClosedIsQuiet'
BY Zenon DEF SocketInv, ArgIsNext, ClosedIsQuiet, From

LEMMA SendThreadInv == SocketInv /\ SendThread => SocketInv'
<1> SUFFICES ASSUME SocketInv, SendThread PROVE SocketInv'
  OBVIOUS
<1> USE DEF shared, recvT, sendT, mainT, network, hist
<1>1. ChunkInHand' /\ InStream' /\ ArgIsNext' /\ ClosedIsQuiet'
  <2>1. /\ UNCHANGED <<recvPc, chunk, recvBuf, netIn, heard, got>>
        /\ UNCHANGED <<main, arg, said, open, closed>>
    BY DEF SendThread, SendCheck, SendLock, SendByte, SendDone, SendShort
  <2>2. QED
    BY <2>1, InUntouched, MainUntouched
<1>2. CASE SendCheck \/ SendShort
  <2> USE DEF SendCheck, SendShort
  <2>1. UNCHANGED <<recvBuf, sendBuf, chunk, copy, sent, netIn, taken, said,
                    heard, got, arg, closed>>
    BY <1>2
  <2>2. CopyIsBuffer'
    BY <1>2 DEF SocketInv, CopyIsBuffer
  <2>3. StaleIsFlushed'
    BY <2>1, Zenon DEF SocketInv, StaleIsFlushed
  <2>4. QED
    BY <1>1, <2>1, <2>2, <2>3, StillInv
<1>3. CASE SendLock
  <2> USE DEF SendLock
  <2>1. UNCHANGED <<recvBuf, sendBuf, chunk, sent, netIn, taken, said,
                    heard, got, arg, closed>>
    BY <1>3
  <2>2. sendBuf \in Seq(Nat) /\ Len(sendBuf) \in Nat /\ sent = 0
    BY <1>3, LenProperties DEF SocketInv, SocketTyped, CopyIsBuffer, Free
  <2>3. copy' \in {copy, sendBuf}
    BY <1>3
  <2>4. CopyIsBuffer'
    <3>1. sent' <= Len(sendBuf')
      BY <2>1, <2>2
    <3>2. sendPc' = "send" => copy' = sendBuf' /\ mutex' = "send"
      BY <1>3, <2>1
    <3>3. mutex' = "free" => sendPc' # "send" /\ sent' = 0
      BY <2>1, <2>2, <3>2
    <3>4. QED
      BY <3>1, <3>2, <3>3 DEF CopyIsBuffer
  <2>5. SocketTyped'
    BY <2>1, <2>3 DEF SocketInv, SocketTyped
  <2>6. OutStream' /\ StaleIsFlushed'
    BY <2>1, Zenon DEF SocketInv, OutStream, StaleIsFlushed, From
  <2>7. QED
    BY <1>1, <2>4, <2>5, <2>6 DEF SocketInv
<1>4. CASE SendByte
  <2> USE DEF SendByte
  <2>1. /\ UNCHANGED <<recvBuf, sendBuf, chunk, copy, netIn, said, heard, got,
                       arg, mutex, sendPc, closed>>
        /\ sendPc = "send" /\ sent < Len(copy)
        /\ taken' = Append(taken, copy[sent + 1]) /\ sent' = sent + 1
    BY <1>4
  <2>2. copy = sendBuf /\ mutex # "free"
    BY <2>1 DEF SocketInv, CopyIsBuffer
  <2>3. sendBuf \in Seq(Nat) /\ taken \in Seq(Nat) /\ sent \in Nat
    BY DEF SocketInv, SocketTyped
  <2>4. Len(sendBuf) \in Nat /\ sent < Len(sendBuf)
    BY <2>1, <2>2, <2>3, LenProperties
  <2>5. sent + 1 \in 1..Len(sendBuf)
    BY <2>3, <2>4
  <2>6. sendBuf[sent + 1] \in Nat
    BY <2>3, <2>5, ElementOfSeq
  <2>7. SocketTyped'
    <3>1. taken' \in Seq(Nat)
      BY <2>1, <2>2, <2>3, <2>6, AppendProperties
    <3>2. sent' \in Nat
      BY <2>1, <2>3
    <3>3. QED
      BY <2>1, <3>1, <3>2 DEF SocketInv, SocketTyped
  <2>8. CopyIsBuffer'
    <3>1. sent' <= Len(sendBuf')
      BY <2>1, <2>3, <2>4
    <3>2. QED
      BY <2>1, <2>2, <3>1 DEF CopyIsBuffer
  <2>9. OutStream'
    <3>1. Append(taken, sendBuf[sent + 1]) \o From(sendBuf, (sent + 1) + 1)
            = taken \o From(sendBuf, sent + 1)
      BY <2>3, <2>5, ByteMoves
    <3>2. QED
      BY <2>1, <2>2, <3>1, Zenon DEF SocketInv, OutStream, From
  <2>10. StaleIsFlushed'
    <3>1. Len(taken) \in Nat /\ Len(taken) + (Len(sendBuf) - sent) = said
      BY OutLengths DEF SocketInv
    <3>2. Len(taken) # said
      BY <2>3, <2>4, <3>1
    <3>3. closed # "stale"
      BY <3>2 DEF SocketInv, StaleIsFlushed
    <3>4. QED
      BY <2>1, <3>3 DEF StaleIsFlushed
  <2>11. QED
    BY <1>1, <2>7, <2>8, <2>9, <2>10 DEF SocketInv
<1>5. CASE SendDone
  <2> USE DEF SendDone
  <2>1. /\ UNCHANGED <<recvBuf, chunk, netIn, taken, said, heard, got, arg, closed>>
        /\ sendPc = "send" /\ sent = Len(copy) /\ sendPc' = "check"
        /\ sendBuf' = <<>> /\ copy' = <<>> /\ sent' = 0
    BY <1>5
  <2>2. sent = Len(sendBuf)
    BY <2>1 DEF SocketInv, CopyIsBuffer
  <2>3. <<>> \in Seq(Nat) /\ Len(<<>>) = 0
    BY EmptySeq
  <2>4. SocketTyped'
    BY <2>1, <2>3 DEF SocketInv, SocketTyped
  <2>5. CopyIsBuffer'
    BY <2>1, <2>3 DEF CopyIsBuffer
  <2>6. OutStream'
    <3>1. From(sendBuf, sent + 1) = <<>>
      BY <2>2, FromEnd DEF SocketInv, SocketTyped
    <3>2. From(sendBuf', sent' + 1) = <<>>
      BY <2>1, <2>3, SubSeqEmpty DEF From
    <3>3. QED
      BY <2>1, <3>1, <3>2, Zenon DEF SocketInv, OutStream
  <2>7. StaleIsFlushed'
    BY <2>1, Zenon DEF SocketInv, StaleIsFlushed
  <2>8. QED
    BY <1>1, <2>4, <2>5, <2>6, <2>7 DEF SocketInv
<1>6. QED
  BY <1>2, <1>3, <1>4, <1>5 DEF SendThread

LEMMA SendInv == SocketInv /\ Send => SocketInv'
<1> SUFFICES ASSUME SocketInv, Send PROVE SocketInv'
  OBVIOUS
<1> USE DEF Send, recvT, sendT, network
<1>1. /\ UNCHANGED <<mutex, sendPc, recvPc, recvBuf, chunk, copy, sent, netIn,
                     taken, heard, got, closed>>
      /\ mutex = "free" /\ main = "send" /\ main' = "idle" /\ arg' = <<>>
      /\ sendBuf' = sendBuf \o arg /\ said' = said + Len(arg)
  BY DEF Free
<1>2. /\ sendBuf \in Seq(Nat) /\ taken \in Seq(Nat) /\ arg \in Seq(Nat)
      /\ said \in Nat /\ Len(arg) \in Nat
  BY LenProperties DEF SocketInv, SocketTyped
<1>3. closed = "no" /\ sent = 0 /\ sendPc # "send"
  BY <1>1 DEF SocketInv, ClosedIsQuiet, CopyIsBuffer
<1>4. sendBuf' \in Seq(Nat)
  BY <1>1, <1>2, ConcatProperties
<1>5. SocketTyped'
  <2>1. said' \in Nat
    BY <1>1, <1>2
  <2>2. QED
    BY <1>1, <1>4, <2>1, EmptySeq DEF SocketInv, SocketTyped
<1>6. CopyIsBuffer'
  BY <1>1, <1>3, <1>4, LenProperties DEF CopyIsBuffer
<1>7. OutStream'
  <2>1. From(sendBuf', sent' + 1) = sendBuf \o arg
    <3>1. From(sendBuf', 1) = sendBuf'
      BY <1>4, FromStart
    <3>2. sent' + 1 = 1
      BY <1>1, <1>3
    <3>3. QED
      BY <1>1, <3>1, <3>2, Zenon
  <2>2. From(sendBuf, sent + 1) = sendBuf
    <3>1. From(sendBuf, 1) = sendBuf
      BY <1>2, FromStart
    <3>2. sent + 1 = 1
      BY <1>3
    <3>3. QED
      BY <3>1, <3>2, Zenon
  <2>3. taken \o sendBuf = Numbers(said)
    BY <2>2 DEF SocketInv, OutStream
  <2>4. arg = From(Numbers(said + Len(arg)), said + 1)
    BY <1>1 DEF SocketInv, ArgIsNext
  <2>5. Numbers(said) \o arg = Numbers(said + Len(arg))
    BY <1>2, <2>4, NumbersGrow, Zenon
  <2>6. taken \o (sendBuf \o arg) = (taken \o sendBuf) \o arg
    BY <1>2, Reassociate, Zenon
  <2>7. QED
    BY <1>1, <2>1, <2>3, <2>5, <2>6, Zenon DEF OutStream
<1>8. ArgIsNext' /\ ClosedIsQuiet' /\ StaleIsFlushed'
  BY <1>1, <1>3 DEF ArgIsNext, ClosedIsQuiet, StaleIsFlushed
<1>9. QED
  BY <1>1, <1>5, <1>6, <1>7, <1>8, InUntouched DEF SocketInv

\* recv takes no more than there is.
LEMMA PullSizeFits ==
  ASSUME recvBuf \in Seq(Nat)
  PROVE  PullSize \in 0..Len(recvBuf)
<1> DEFINE len == Len(recvBuf)
<1>1. len \in Nat
  BY LenProperties
<1> HIDE DEF len
<1>2. Min({1, len}) \in 0..len
  <2>1. CASE len = 0
    <3>1. 0 \in {1, len} /\ \A y \in {1, len} : 0 =< y
      BY <2>1
    <3>2. \A y \in {1, len} : Min({1, len}) =< y
      BY <3>1 DEF Min
    <3>3. Min({1, len}) \in {1, len}
      BY <3>1 DEF Min
    <3>4. QED
      BY <2>1, <3>2, <3>3
  <2>2. CASE len # 0
    <3>1. 1 \in {1, len} /\ \A y \in {1, len} : 1 =< y
      BY <1>1, <2>2
    <3>2. \A y \in {1, len} : Min({1, len}) =< y
      BY <3>1 DEF Min
    <3>3. Min({1, len}) \in {1, len}
      BY <3>1 DEF Min
    <3>4. QED
      BY <1>1, <2>2, <3>2, <3>3
  <2>3. QED
    BY <2>1, <2>2
<1>3. len \in 0..len
  BY <1>1
<1>4. PullSize \in {len, Min({1, len})}
  BY DEF PullSize, len
<1>5. PullSize \in 0..len
  BY <1>2, <1>3, <1>4, Zenon
<1>6. QED
  BY <1>5, Zenon DEF len

LEMMA RecvInv == SocketInv /\ Recv => SocketInv'
<1> SUFFICES ASSUME SocketInv, Recv PROVE SocketInv'
  OBVIOUS
<1>1. /\ got \in Seq(Nat) /\ recvBuf \in Seq(Nat) /\ chunk \in Seq(Nat)
      /\ netIn \in Seq(Nat)
  BY DEF SocketInv, SocketTyped
<1>2. PICK n \in 0..Len(recvBuf) :
        got' = got \o SubSeq(recvBuf, 1, n) /\ recvBuf' = From(recvBuf, n + 1)
  BY <1>1, PullSizeFits, Zenon DEF Recv
<1>3. /\ UNCHANGED <<mutex, sendPc, recvPc, sendBuf, chunk, copy, sent, netIn,
                     taken, heard, said, arg, open, closed>>
      /\ main \in {"recv one", "recv all"} /\ main' = "idle"
  BY DEF Recv, recvT, sendT, network
<1> DEFINE first == SubSeq(recvBuf, 1, n)
<1>4. first \in Seq(Nat) /\ first \o recvBuf' = recvBuf
  BY <1>1, <1>2, SplitStream
<1>5. recvBuf' \in Seq(Nat)
  <2>1. n + 1 \in Nat \ {0}
    BY <1>1, <1>2, LenProperties
  <2>2. QED
    BY <1>1, <1>2, <2>1, FromType
<1>6. got' \in Seq(Nat)
  BY <1>1, <1>2, <1>4, ConcatProperties
<1>7. SocketTyped'
  BY <1>3, <1>5, <1>6 DEF SocketInv, SocketTyped
<1>8. InStream'
  <2>1. got' \o recvBuf' = got \o recvBuf
    <3>1. got \in Seq(Nat) /\ first \in Seq(Nat) /\ recvBuf' \in Seq(Nat)
      BY <1>1, <1>4, <1>5
    <3>2. (got \o first) \o recvBuf' = got \o (first \o recvBuf')
      <4> HIDE DEF first
      <4>1. QED
        BY <3>1, Reassociate, Zenon
    <3>3. QED
      BY <1>2, <1>4, <3>2, Zenon
  <2>2. QED
    BY <1>3, <2>1, Zenon DEF SocketInv, InStream
<1>9. ChunkInHand' /\ CopyIsBuffer'
  BY <1>3, Zenon DEF SocketInv, ChunkInHand, CopyIsBuffer
<1>10. OutStream' /\ StaleIsFlushed'
  BY <1>3, Zenon DEF SocketInv, OutStream, StaleIsFlushed, From
<1>11. ArgIsNext' /\ ClosedIsQuiet'
  BY <1>3 DEF SocketInv, ArgIsNext, ClosedIsQuiet
<1>12. QED
  BY <1>7, <1>8, <1>9, <1>10, <1>11 DEF SocketInv

LEMMA CallSendInv == SocketInv /\ CallSend => SocketInv'
<1> SUFFICES ASSUME SocketInv, CallSend PROVE SocketInv'
  OBVIOUS
<1> USE DEF CallSend, shared, recvT, sendT, network, hist
<1>1. /\ UNCHANGED <<mutex, sendPc, recvPc, recvBuf, sendBuf, chunk, copy, sent,
                     netIn, taken, said, heard, got, open, closed>>
      /\ main = "idle" /\ open /\ main' = "send"
  OBVIOUS
<1>2. PICK k \in Chunks : arg' = From(Numbers(said + k), said + 1)
  OBVIOUS
<1>3. k \in Nat /\ said \in Nat /\ said + k \in Nat
  BY DEF SocketInv, SocketTyped
<1>4. Numbers(said + k) \in Seq(Nat) /\ Len(Numbers(said + k)) = said + k
  BY <1>3, NumbersType
<1>5. /\ arg' \in Seq(Nat)
      /\ Len(arg') = IF said + 1 <= said + k THEN (said + k) - (said + 1) + 1 ELSE 0
  <2>1. said + 1 \in Nat \ {0}
    BY <1>3
  <2>2. QED
    BY <1>2, <1>4, <2>1, FromType
<1>6. Len(arg') = k
  BY <1>3, <1>5
<1>7. SocketTyped' /\ ArgIsNext'
  BY <1>1, <1>2, <1>5, <1>6 DEF SocketInv, SocketTyped, ArgIsNext
<1>8. closed = "no"
  BY <1>1 DEF SocketInv, ClosedIsQuiet
<1>9. ChunkInHand' /\ CopyIsBuffer' /\ InStream'
  BY <1>1, Zenon DEF SocketInv, ChunkInHand, CopyIsBuffer, InStream
<1>10. OutStream' /\ StaleIsFlushed' /\ ClosedIsQuiet'
  BY <1>1, <1>8, Zenon DEF SocketInv, OutStream, StaleIsFlushed, ClosedIsQuiet, From
<1>11. QED
  BY <1>7, <1>9, <1>10 DEF SocketInv

\* An empty send_buffer, read without the mutex, is a stream that is flushed.
LEMMA DisconnectInv == SocketInv /\ Disconnect => SocketInv'
<1> SUFFICES ASSUME SocketInv, Disconnect PROVE SocketInv'
  OBVIOUS
<1>1. /\ UNCHANGED <<mutex, sendPc, recvPc, recvBuf, sendBuf, chunk, copy, sent,
                     netIn, taken, said, heard, got, arg, open>>
      /\ main' = "join recv"
      /\ \/ closed' = "exit"
         \/ closed' = "stale" /\ sendBuf = <<>>
  BY DEF Disconnect, recvT, sendT, network
<1>2. ChunkInHand' /\ CopyIsBuffer' /\ ArgIsNext' /\ ClosedIsQuiet'
  BY <1>1 DEF SocketInv, ChunkInHand, CopyIsBuffer, ArgIsNext, ClosedIsQuiet
<1>3. StaleIsFlushed'
  <2>1. CASE closed' = "exit"
    BY <2>1 DEF StaleIsFlushed
  <2>2. CASE sendBuf = <<>>
    <3>1. /\ Len(taken) \in Nat /\ Len(sendBuf) \in Nat
          /\ Len(taken) + (Len(sendBuf) - sent) = said
      BY OutLengths DEF SocketInv
    <3>2. Len(sendBuf) = 0
      BY <2>2, EmptySeq
    <3>3. sent \in Nat /\ sent <= Len(sendBuf)
      BY DEF SocketInv, SocketTyped, CopyIsBuffer
    <3>4. Len(taken) = said
      <4>1. sent = 0
        BY <3>2, <3>3
      <4>2. QED
        BY <3>1, <3>2, <4>1
    <3>5. QED
      BY <1>1, <3>4 DEF StaleIsFlushed
  <2>3. QED
    BY <1>1, <2>1, <2>2
<1>4. QED
  <2>1. UNCHANGED <<recvBuf, sendBuf, chunk, copy, sent, netIn, taken, said,
                    heard, got, arg>>
    BY <1>1
  <2>2. QED
    BY <1>2, <1>3, <2>1, StillInv

LEMMA MainInv == SocketInv /\ Main => SocketInv'
<1> SUFFICES ASSUME SocketInv, Main PROVE SocketInv'
  OBVIOUS
<1>1. CASE CallRecv \/ JoinRecv \/ JoinSend \/ Close
  <2> USE DEF CallRecv, JoinRecv, JoinSend, Close, shared, recvT, sendT, network, hist
  <2>1. UNCHANGED <<mutex, sendPc, recvPc, recvBuf, sendBuf, chunk, copy, sent,
                    netIn, taken, said, heard, got, arg, closed>>
    BY <1>1
  <2>2. ChunkInHand' /\ CopyIsBuffer' /\ StaleIsFlushed'
    BY <2>1, Zenon DEF SocketInv, ChunkInHand, CopyIsBuffer, StaleIsFlushed
  <2>3. ArgIsNext'
    BY <1>1 DEF ArgIsNext
  <2>4. ClosedIsQuiet'
    <3>1. CASE CallRecv
      <4>1. /\ main = "idle" /\ main' \in {"recv one", "recv all"}
            /\ UNCHANGED <<open, closed>>
        BY <3>1
      <4>2. closed # "no" => ~open
        BY <4>1 DEF SocketInv, ClosedIsQuiet
      <4>3. main' # "send"
        BY <4>1
      <4>4. QED
        BY <4>1, <4>2, <4>3, Zenon DEF ClosedIsQuiet
    <3>2. CASE JoinRecv \/ JoinSend
      <4>1. main' \in {"join recv", "join send", "close"} /\ main' # "send"
        BY <3>2
      <4>2. QED
        BY <4>1, Zenon DEF ClosedIsQuiet
    <3>3. CASE Close
      <4>1. open' = FALSE /\ main' # "send"
        BY <3>3
      <4>2. QED
        BY <4>1, Zenon DEF ClosedIsQuiet
    <3>4. QED
      BY <1>1, <3>1, <3>2, <3>3
  <2>5. QED
    BY <2>1, <2>2, <2>3, <2>4, StillInv
<1>2. QED
  BY <1>1, CallSendInv, DisconnectInv, SendInv, RecvInv DEF Main, Returning

LEMMA PeerInv == SocketInv /\ Peer => SocketInv'
<1> SUFFICES ASSUME SocketInv, Peer PROVE SocketInv'
  OBVIOUS
<1> USE DEF shared, recvT, sendT, mainT, network, hist
<1>1. CASE PeerRead \/ PeerEnds
  <2> USE DEF PeerRead, PeerEnds
  <2>1. UNCHANGED <<mutex, sendPc, recvPc, recvBuf, sendBuf, chunk, copy, sent,
                    netIn, taken, said, heard, got, main, arg, open, closed>>
    BY <1>1
  <2>2. ChunkInHand' /\ CopyIsBuffer' /\ ArgIsNext' /\ ClosedIsQuiet' /\ StaleIsFlushed'
    BY <2>1, InUntouched, OutUntouched
  <2>3. QED
    BY <2>1, <2>2, StillInv
<1>2. CASE PeerSend
  <2> USE DEF PeerSend
  <2>1. /\ UNCHANGED <<mutex, sendPc, recvPc, recvBuf, sendBuf, chunk, copy, sent,
                       taken, said, got, main, arg, open, closed>>
        /\ heard' = heard + 1 /\ netIn' = Append(netIn, heard + 1)
    BY <1>2
  <2>2. /\ got \in Seq(Nat) /\ recvBuf \in Seq(Nat) /\ chunk \in Seq(Nat)
        /\ netIn \in Seq(Nat) /\ heard \in Nat /\ heard + 1 \in Nat
    BY DEF SocketInv, SocketTyped
  <2>3. netIn' \in Seq(Nat)
    BY <2>1, <2>2, AppendProperties
  <2>4. SocketTyped' /\ ChunkInHand'
    BY <2>1, <2>2, <2>3 DEF SocketInv, SocketTyped, ChunkInHand
  <2>5. InStream'
    <3> DEFINE before == got \o recvBuf \o chunk
    <3>1. before \in Seq(Nat)
      <4>1. got \o recvBuf \in Seq(Nat)
        BY <2>2, ConcatProperties
      <4>2. QED
        BY <2>2, <4>1, ConcatProperties
    <3>2. before \o netIn = Numbers(heard)
      BY DEF SocketInv, InStream
    <3>3. before' = before
      BY <2>1, Zenon
    <3>4. before \o Append(netIn, heard + 1) = Append(before \o netIn, heard + 1)
      <4> HIDE DEF before
      <4>1. <<heard + 1>> \in Seq(Nat)
        BY <2>2
      <4>2. Append(netIn, heard + 1) = netIn \o <<heard + 1>>
        BY <2>2, AppendIsConcat
      <4>3. before \o netIn \in Seq(Nat)
        BY <2>2, <3>1, ConcatProperties
      <4>4. Append(before \o netIn, heard + 1) = (before \o netIn) \o <<heard + 1>>
        BY <2>2, <4>3, AppendIsConcat
      <4>5. (before \o netIn) \o <<heard + 1>> = before \o (netIn \o <<heard + 1>>)
        <5> DEFINE e == <<heard + 1>>
        <5>1. before \in Seq(Nat) /\ netIn \in Seq(Nat) /\ e \in Seq(Nat)
          BY <2>2, <3>1, <4>1
        <5> HIDE DEF e
        <5>2. (before \o netIn) \o e = before \o (netIn \o e)
          BY ONLY <5>1, Reassociate, Zenon
        <5> QED
          BY ONLY <5>2, Zenon DEF e
      <4>6. QED
        BY <4>2, <4>4, <4>5, Zenon
    <3>5. Append(Numbers(heard), heard + 1) = Numbers(heard + 1)
      BY <2>2, NumbersNext
    <3>6. QED
      BY <2>1, <3>2, <3>3, <3>4, <3>5, Zenon DEF InStream
  <2>6. QED
    BY <2>1, <2>4, <2>5, OutUntouched DEF SocketInv
<1>3. QED
  BY <1>1, <1>2 DEF Peer

LEMMA SocketNextInv == SocketInv /\ [Next]_vars => SocketInv'
<1> SUFFICES ASSUME SocketInv, [Next]_vars PROVE SocketInv'
  OBVIOUS
<1>1. CASE UNCHANGED vars
  <2>1. UNCHANGED <<mutex, sendPc, recvPc, recvBuf, sendBuf, chunk, copy, sent,
                    netIn, taken, said, heard, got, main, arg, open, closed>>
    BY <1>1 DEF vars, shared, recvT, sendT, mainT, network, hist
  <2>2. ChunkInHand' /\ CopyIsBuffer' /\ ArgIsNext' /\ ClosedIsQuiet' /\ StaleIsFlushed'
    BY <2>1, InUntouched, OutUntouched
  <2>3. QED
    BY <2>1, <2>2, StillInv
<1>2. QED
  BY <1>1, RecvThreadInv, SendThreadInv, MainInv, PeerInv DEF Next

LEMMA SocketAlways == Spec => []SocketInv
<1>1. QED
  BY SocketInitInv, SocketNextInv, PTL DEF Spec

-----------------------------------------------------------------------------
(* What the invariant is for.                                              *)

\* recv_to_buffer and recv between them lose, double and move no byte, however
\* the thread and the callers take turns, for streams of any length.
THEOREM InStreamAlways == Spec => []InStream
<1>1. SocketInv => InStream
  BY DEF SocketInv
<1>2. QED
  BY <1>1, SocketAlways, PTL

\* send_from_buffer passes on exactly what send has appended, in order, though
\* it sends a copy and clears the buffer afterwards.
THEOREM OutStreamAlways == Spec => []OutStream
<1>1. SocketInv => OutStream
  BY DEF SocketInv
<1>2. QED
  BY <1>1, SocketAlways, PTL

\* remove_stale, which looks at the size of send_buffer without the mutex,
\* closes only connections the system has accepted every byte of.
THEOREM StaleIsFlushedAlways == Spec => []StaleIsFlushed
<1>1. SocketInv => StaleIsFlushed
  BY DEF SocketInv
<1>2. QED
  BY <1>1, SocketAlways, PTL

=============================================================================

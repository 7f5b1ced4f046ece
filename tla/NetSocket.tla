------------------------------ MODULE NetSocket -----------------------------
(***************************************************************************)
(* A connected net_socket_t: the recv thread, the send thread, the main    *)
(* thread that calls its methods, and the peer at the other end of the TCP *)
(* connection.  All of net_http, the console and the numerical TCP sink    *)
(* reach their peers through this class.                                   *)
(*                                                                         *)
(* A byte is the number of its place in its stream.  A critical section    *)
(* that only touches what thread_mutex guards is one step, taken when the  *)
(* mutex is free; the send thread alone keeps the mutex over several       *)
(* steps, those of SDLNet_TCP_Send.                                        *)
(***************************************************************************)
EXTENDS Integers, Sequences, SequencesExt

CONSTANTS
  Window,   \* bytes the operating systems hold between send and the peer
  Chunks,   \* the lengths of what a caller passes to send
  MaxIn,    \* bound: bytes the peer sends
  MaxOut    \* bound: bytes that are passed to send

ASSUME WindowAssumption == Window \in Nat \ {0}
ASSUME ChunksAssumption == Chunks \subseteq Nat \ {0}
ASSUME MaxAssumption    == MaxIn \in Nat /\ MaxOut \in Nat

VARIABLES
  mutex,     \* owner of thread_mutex: "free" or "send"
  running,   \* thread_running, shared by both threads
  recvBuf,   \* recv_buffer
  sendBuf,   \* send_buffer
  recvPc,    \* where the recv thread is
  chunk,     \* its local buffer, once SDLNet_TCP_Recv has filled it
  sendPc,    \* where the send thread is
  copy,      \* its local copy of send_buffer
  sent,      \* how many bytes of the copy the system has accepted
  main,      \* the method the main thread is in
  arg,       \* the bytes passed to send
  open,      \* whether socket is not null
  peer,      \* "open", "shut" (sends no more), "gone" (closed or reset)
  netIn,     \* bytes that have come from the peer and are not received
  taken,     \* all bytes the system has accepted for the peer
  seen,      \* how many of them the peer has read
  said,      \* history: number of bytes appended to send_buffer
  heard,     \* history: number of bytes the peer has sent
  got,       \* history: bytes the callers have received
  closed     \* history: who disconnected, "no" if nobody did

shared  == <<mutex, running, recvBuf, sendBuf>>
recvT   == <<recvPc, chunk>>
sendT   == <<sendPc, copy, sent>>
mainT   == <<main, arg, open>>
network == <<peer, netIn, taken, seen>>
hist    == <<said, heard, got, closed>>
vars    == <<shared, recvT, sendT, mainT, network, hist>>

Numbers(n) == [i \in 1..n |-> i]
From(s, i) == SubSeq(s, i, Len(s))
Free       == mutex = "free"

\* set_tcp_socket has run: the threads are created, nothing has been said.
Init ==
  /\ mutex = "free" /\ running = TRUE
  /\ recvBuf = <<>> /\ sendBuf = <<>>
  /\ recvPc = "check" /\ chunk = <<>>
  /\ sendPc = "check" /\ copy = <<>> /\ sent = 0
  /\ main = "idle" /\ arg = <<>> /\ open = TRUE
  /\ peer = "open" /\ netIn = <<>> /\ taken = <<>> /\ seen = 0
  /\ said = 0 /\ heard = 0 /\ got = <<>> /\ closed = "no"

-----------------------------------------------------------------------------
(* The recv thread, recv_to_buffer.                                        *)

\* while(*recv_running), read without the mutex.
RecvCheck ==
  /\ recvPc = "check"
  /\ recvPc' = IF running THEN "poll" ELSE "gone"
  /\ UNCHANGED <<shared, chunk, sendT, mainT, network, hist>>

\* Mutant: a poll without activity ends the connection.
RecvPollIdle ==
  /\ recvPc = "poll" /\ Free
  /\ recvPc' = IF netIn # <<>> \/ peer # "open" THEN "recv" ELSE "check"
  /\ running' = (running /\ recvPc' = "recv")
  /\ UNCHANGED <<mutex, recvBuf, sendBuf, chunk, sendT, mainT, network, hist>>

\* while(ptr->activity()): ready when there are bytes or the end of them.
RecvPoll ==
  /\ recvPc = "poll" /\ Free
  /\ recvPc' = IF netIn # <<>> \/ peer # "open" THEN "recv" ELSE "check"
  /\ UNCHANGED <<shared, chunk, sendT, mainT, network, hist>>

\* SDLNet_TCP_Recv returns some of the bytes that are there.
RecvSome ==
  /\ recvPc = "recv"
  /\ \E n \in 1..Len(netIn) :
       /\ chunk' = SubSeq(netIn, 1, n)
       /\ netIn' = From(netIn, n + 1)
  /\ recvPc' = "append"
  /\ UNCHANGED <<shared, sendT, mainT, peer, taken, seen, hist>>

\* It returns 0 after the last byte, or an error on a reset connection.
RecvEnd ==
  /\ recvPc = "recv"
  /\ \/ netIn = <<>> /\ peer # "open"
     \/ peer = "gone"
  /\ running' = FALSE
  /\ recvPc' = "check"
  /\ UNCHANGED <<mutex, recvBuf, sendBuf, chunk, sendT, mainT, network, hist>>

\* The inner loop goes on with activity() whatever *recv_running says.
RecvAppend ==
  /\ recvPc = "append" /\ Free
  /\ recvBuf' = recvBuf \o chunk
  /\ chunk' = <<>>
  /\ recvPc' = "poll"
  /\ UNCHANGED <<mutex, running, sendBuf, sendT, mainT, network, hist>>

RecvThread == RecvCheck \/ RecvPoll \/ RecvSome \/ RecvEnd \/ RecvAppend

-----------------------------------------------------------------------------
(* The send thread, send_from_buffer.                                      *)

SendCheck ==
  /\ sendPc = "check"
  /\ sendPc' = IF running THEN "lock" ELSE "gone"
  /\ UNCHANGED <<shared, recvT, copy, sent, mainT, network, hist>>

\* Mutant: the mutex is given back before SDLNet_TCP_Send.
SendLockShort ==
  /\ sendPc = "lock" /\ Free
  /\ IF sendBuf = <<>>
     THEN sendPc' = "check" /\ UNCHANGED copy
     ELSE sendPc' = "send" /\ copy' = sendBuf
  /\ UNCHANGED <<shared, recvT, sent, mainT, network, hist>>

\* Mutant: the buffer is swapped out instead of copied.
SendLockSwap ==
  /\ sendPc = "lock" /\ Free
  /\ IF sendBuf = <<>>
     THEN sendPc' = "check" /\ UNCHANGED <<mutex, sendBuf, copy>>
     ELSE /\ sendPc' = "send" /\ mutex' = "send"
          /\ copy' = sendBuf /\ sendBuf' = <<>>
  /\ UNCHANGED <<running, recvBuf, recvT, sent, mainT, network, hist>>

\* Lock and copy the buffer; an empty one is left alone until the next turn.
SendLock ==
  /\ sendPc = "lock" /\ Free
  /\ IF sendBuf = <<>>
     THEN sendPc' = "check" /\ UNCHANGED <<mutex, copy>>
     ELSE sendPc' = "send" /\ mutex' = "send" /\ copy' = sendBuf
  /\ UNCHANGED <<running, recvBuf, sendBuf, recvT, sent, mainT, network, hist>>

\* SDLNet_TCP_Send goes on until the system has accepted every byte.
SendByte ==
  /\ sendPc = "send" /\ sent < Len(copy)
  /\ Len(taken) - seen < Window
  /\ taken' = Append(taken, copy[sent + 1])
  /\ sent' = sent + 1
  /\ UNCHANGED <<shared, recvT, sendPc, copy, mainT, peer, netIn, seen, hist>>

\* Mutant: the mutex is kept when the buffer has been sent.
SendDoneLocked ==
  /\ sendPc = "send" /\ sent = Len(copy)
  /\ sendBuf' = <<>> /\ copy' = <<>> /\ sent' = 0
  /\ sendPc' = "check"
  /\ UNCHANGED <<mutex, running, recvBuf, recvT, mainT, network, hist>>

SendDone ==
  /\ sendPc = "send" /\ sent = Len(copy)
  /\ sendBuf' = <<>> /\ copy' = <<>> /\ sent' = 0
  /\ mutex' = "free"
  /\ sendPc' = "check"
  /\ UNCHANGED <<running, recvBuf, recvT, mainT, network, hist>>

\* A short send: the break leaves the loop, and the mutex locked.
SendShort ==
  /\ sendPc = "send" /\ sent < Len(copy) /\ peer = "gone"
  /\ running' = FALSE
  /\ sendPc' = "gone"
  /\ UNCHANGED <<mutex, recvBuf, sendBuf, recvT, copy, sent, mainT, network,
                 hist>>

SendThread == SendCheck \/ SendLock \/ SendByte \/ SendDone \/ SendShort

-----------------------------------------------------------------------------
(* The main thread.                                                        *)

\* send throws on a null socket and changes nothing then.
CallSend ==
  /\ main = "idle" /\ open
  /\ \E n \in Chunks : /\ said + n <= MaxOut
                       /\ arg' = From(Numbers(said + n), said + 1)
  /\ main' = "send"
  /\ UNCHANGED <<shared, recvT, sendT, open, network, hist>>

Send ==
  /\ main = "send" /\ Free
  /\ sendBuf' = sendBuf \o arg
  /\ said' = said + Len(arg)
  /\ main' = "idle" /\ arg' = <<>>
  /\ UNCHANGED <<mutex, running, recvBuf, recvT, sendT, open, network, heard,
                 got, closed>>

\* recv(1, NET_SOCKET_RECV_NO_HANG), or recv_all_buffer.
CallRecv ==
  /\ main = "idle"
  /\ main' \in {"recv one", "recv all"}
  /\ UNCHANGED <<shared, recvT, sendT, arg, open, network, hist>>

\* What recv takes: a byte if there is one; recv_all_buffer takes everything.
PullSize == IF main = "recv all" THEN Len(recvBuf) ELSE Min({1, Len(recvBuf)})

\* Mutant: recv leaves in the buffer what it returns.
RecvKeep ==
  /\ main \in {"recv one", "recv all"} /\ Free
  /\ got' = got \o SubSeq(recvBuf, 1, PullSize)
  /\ main' = "idle"
  /\ UNCHANGED <<shared, recvT, sendT, arg, open, network, said, heard, closed>>

Recv ==
  /\ main \in {"recv one", "recv all"} /\ Free
  /\ got' = got \o SubSeq(recvBuf, 1, PullSize)
  /\ recvBuf' = From(recvBuf, PullSize + 1)
  /\ main' = "idle"
  /\ UNCHANGED <<mutex, running, sendBuf, recvT, sendT, arg, open, network,
                 said, heard, closed>>

\* disconnect, called by the console's exit at any time, or by net_http's
\* remove_stale, which reads the size of send_buffer without the mutex.
Disconnect ==
  /\ main = "idle" /\ open
  /\ \/ closed' = "exit"
     \/ closed' = "stale" /\ sendBuf = <<>>
  /\ running' = FALSE
  /\ main' = "join recv"
  /\ UNCHANGED <<mutex, recvBuf, sendBuf, recvT, sendT, arg, open, network,
                 said, heard, got>>

JoinRecv ==
  /\ main = "join recv" /\ recvPc = "gone"
  /\ main' = "join send"
  /\ UNCHANGED <<shared, recvT, sendT, arg, open, network, hist>>

JoinSend ==
  /\ main = "join send" /\ sendPc = "gone"
  /\ main' = "close"
  /\ UNCHANGED <<shared, recvT, sendT, arg, open, network, hist>>

Close ==
  /\ main = "close" /\ Free
  /\ open' = FALSE
  /\ main' = "idle"
  /\ UNCHANGED <<shared, recvT, sendT, arg, network, hist>>

Returning == Send \/ Recv \/ JoinRecv \/ JoinSend \/ Close

Main == CallSend \/ CallRecv \/ Disconnect \/ Returning

-----------------------------------------------------------------------------
(* The peer.                                                               *)

PeerSend ==
  /\ peer = "open" /\ heard < MaxIn
  /\ heard' = heard + 1
  /\ netIn' = Append(netIn, heard + 1)
  /\ UNCHANGED <<shared, recvT, sendT, mainT, peer, taken, seen, said, got,
                 closed>>

PeerRead ==
  /\ peer # "gone" /\ seen < Len(taken)
  /\ seen' = seen + 1
  /\ UNCHANGED <<shared, recvT, sendT, mainT, peer, netIn, taken, hist>>

\* shutdown of its sending half, or close, or the connection breaks.
PeerEnds ==
  /\ \/ peer = "open" /\ peer' = "shut"
     \/ peer # "gone" /\ peer' = "gone"
  /\ UNCHANGED <<shared, recvT, sendT, mainT, netIn, taken, seen, hist>>

Peer == PeerSend \/ PeerRead \/ PeerEnds

Next == RecvThread \/ SendThread \/ Main \/ Peer

Spec == Init /\ [][Next]_vars

\* The threads are scheduled; a method that is called goes on when it can.
\* Nothing is assumed of the callers or of the peer.
Fairness ==
  /\ WF_vars(RecvThread) /\ WF_vars(SendThread) /\ WF_vars(Returning)

FairSpec == Spec /\ Fairness

-----------------------------------------------------------------------------
(* Properties.                                                             *)

\* What the callers have received, what they have not yet, what the recv
\* thread holds and what the system holds are, in this order, exactly the
\* bytes the peer has sent: none is lost, doubled or moved.
InStream == got \o recvBuf \o chunk \o netIn = Numbers(heard)

\* What the system has accepted and what the send thread has not passed to it
\* yet are exactly the bytes the callers have sent, however appends fall
\* between the copy, the send and the clear.
OutStream == taken \o From(sendBuf, sent + 1) = Numbers(said)

\* A connection that net_http takes for finished, because it sees an empty
\* send_buffer, has been given to the system completely.
StaleIsFlushed == closed = "stale" => Len(taken) = said

Orphaned == mutex = "send" /\ sendPc = "gone"
Stalled  == sendPc = "send" /\ sent < Len(copy) /\ Len(taken) - seen >= Window

\* A method of the socket does not return only if a short send has left the
\* mutex locked, or the peer reads no more while the send thread is sending:
\* then the main loop stops.  (The peer sends finitely many bytes.)
CallReturns ==
  []<>(main = "idle") \/ <>[]Orphaned \/ <>[]Stalled

\* As long as the peer has closed neither direction and nobody disconnects,
\* every byte passed to send gets to the system, unless the peer stops reading.
SentWhileOpen ==
  \A n \in 1..MaxOut :
    said >= n ~> \/ Len(taken) >= n
                 \/ peer # "open" \/ closed # "no" \/ Stalled

\* net_http.h:40-42: what is added to a response is sent down the TCP socket.
\* That is, to a peer that still reads, whether or not it has more to send.
AnswerSent ==
  \A n \in 1..MaxOut :
    said >= n ~> \/ Len(taken) >= n
                 \/ peer = "gone" \/ closed # "no" \/ Stalled

=============================================================================

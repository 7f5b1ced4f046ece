------------------------------- MODULE NetLink ------------------------------
(***************************************************************************)
(* One direction of a link between two nodes: the IP interface medium with *)
(* the TCP packet scheme.  SEND frames a datagram into the send buffer of  *)
(* a software device, the threads of the two devices move bytes through a  *)
(* TCP connection, and RECV_ALL, which net_interface_loop calls once per   *)
(* main loop, cuts the bytes that have arrived into datagrams again.       *)
(*                                                                         *)
(* The two threads are not among the sources; the actions for them do what *)
(* net_interface_ip.cpp relies on.                                         *)
(***************************************************************************)
EXTENDS Escape

CONSTANTS
  Payloads,     \* the datagrams the network tier sends
  MaxDatagrams  \* bound: datagrams sent

ASSUME PayloadsAssumption == Payloads \subseteq (Seq(0..255) \ {<<>>})
ASSUME MaxAssumption == MaxDatagrams \in Nat
\* The four bytes of a header hold the length of every datagram.
ASSUME LengthAssumption == \A p \in Payloads : Len(Escaped(p)) \div 256^3 < 256

VARIABLES
  sendBuffer,   \* send_buffer of the sender's device: packets
  wire,         \* bytes in the TCP connection
  recvBuffer,   \* recv_buffer of the receiver's device: bytes
  rawInbound,   \* raw_inbound_data: pieces of the byte stream
  inboundData,  \* inbound_data: datagrams for the network tier
  sent,         \* history: datagrams sent
  arrived,      \* history: datagrams that have been put in inbound_data
  lost          \* history: received bytes have been dropped

link == <<sendBuffer, wire, recvBuffer>>
dev  == <<rawInbound, inboundData>>
vars == <<link, dev, sent, arrived, lost>>

Init ==
  /\ sendBuffer = <<>> /\ wire = <<>> /\ recvBuffer = <<>>
  /\ rawInbound = <<>> /\ inboundData = <<>>
  /\ sent = <<>> /\ arrived = <<>> /\ lost = FALSE

\* SEND: outbound_data holds only this datagram, it is emptied by every call.
Send ==
  /\ Len(sent) < MaxDatagrams
  /\ \E p \in Payloads : /\ sendBuffer' = Append(sendBuffer, EscapeVector(p))
                         /\ sent' = Append(sent, p)
  /\ UNCHANGED <<wire, recvBuffer, dev, arrived, lost>>

SendThread ==
  /\ sendBuffer # <<>>
  /\ wire' = wire \o Head(sendBuffer)
  /\ sendBuffer' = Tail(sendBuffer)
  /\ UNCHANGED <<recvBuffer, dev, sent, arrived, lost>>

\* TCP hands over any number of the bytes that have arrived.
RecvThread ==
  /\ \E n \in 1..Len(wire) : /\ recvBuffer' = recvBuffer \o SubSeq(wire, 1, n)
                             /\ wire' = Drop(wire, n)
  /\ UNCHANGED <<sendBuffer, dev, sent, arrived, lost>>

\* add_raw_inbound_data returns early for a piece that is there already.
Repeated == recvBuffer \in ToSet(rawInbound)

\* The pieces of the stream that RECV_ALL passes to depacketize.
Pieces == IF recvBuffer = <<>> \/ Repeated THEN rawInbound
          ELSE Append(rawInbound, recvBuffer)

\* RECV_ALL with depacketize.  recv_buffer is cleared in any case; a throw comes
\* before set_raw_inbound_data.
RecvAll ==
  /\ recvBuffer' = <<>>
  /\ lost' = (lost \/ (recvBuffer # <<>> /\ Repeated))
  /\ UNCHANGED <<sendBuffer, wire, sent>>
  /\ \E packet \in {FlattenSeq(Pieces)} : \E cut \in {UnescapeAllVectors(packet)} :
       \/ /\ ~Throws(cut.rest)
          /\ rawInbound' = <<cut.rest>>
          /\ inboundData' = inboundData \o cut.list
          /\ arrived' = arrived \o cut.list
       \/ /\ Throws(cut.rest)
          /\ rawInbound' = Pieces
          /\ UNCHANGED <<inboundData, arrived>>

\* id_tier_network_network_to_tier has been through inbound_data.
Take ==
  /\ inboundData # <<>>
  /\ inboundData' = <<>>
  /\ UNCHANGED <<link, rawInbound, sent, arrived, lost>>

Next == Send \/ SendThread \/ RecvThread \/ RecvAll \/ Take

Spec == Init /\ [][Next]_vars

\* The threads run, and every turn of the main loop calls RECV_ALL.
Fairness == WF_vars(SendThread) /\ WF_vars(RecvThread) /\ WF_vars(RecvAll)

FairSpec == Spec /\ Fairness

-----------------------------------------------------------------------------
(* Properties.                                                             *)

\* What a receiver sees at the least of a datagram that others follow: its
\* frame, and the first byte of the next.
Beginning(p) == Append(EscapeVector(p), EscapeChar)

\* Datagrams with a beginning that comes again at once: a cut behind it and one
\* behind its copy make a piece that equals what the receiver holds.
Fragile ==
  {p \in Payloads :
     LET b == Beginning(p)
     IN  \E k \in 1..(Len(b) - 2) : \A i \in 1..k : k + i <= Len(b) => b[k + i] = b[i]}

\* The receiver keeps its place, however the stream was cut: what it holds and
\* what is on the way are whole frames of the datagrams that have not arrived,
\* so the bytes of a length or a body are never taken for the beginning of a
\* frame.  It loses its place only to a datagram that is Fragile.
InStep ==
  IF lost THEN \E i \in DOMAIN sent : sent[i] \in Fragile
  ELSE (FlattenSeq(rawInbound) \o recvBuffer) \o wire \o FlattenSeq(sendBuffer) =
         FlattenSeq([i \in 1..(Len(sent) - Len(arrived))
                       |-> EscapeVector(sent[Len(arrived) + i])])

(***************************************************************************)
(* The link implements a channel of datagrams.                             *)
(***************************************************************************)
Channel == INSTANCE DatagramChannel WITH
             Datagrams <- Payloads,
             queue     <- Drop(sent, Len(arrived)),
             broken    <- lost

\* Datagrams arrive unchanged, once and in order, although TCP keeps no
\* boundaries and payloads may contain the escape character, until the channel
\* breaks at a Fragile one.
ImplementsChannel == Channel!Spec

\* Every datagram arrives unless the channel breaks: no cut leaves a complete
\* frame behind as cruft.
EveryDatagramArrives ==
  \A n \in 1..MaxDatagrams : Len(sent) >= n ~> lost \/ Len(arrived) >= n

\* unescape_vector asserts that what it reads as a frame begins with the escape
\* character (escape.cpp:48).
FirstByteIsEscape == ~Throws(UnescapeAllVectors(FlattenSeq(Pieces)).rest)

=============================================================================

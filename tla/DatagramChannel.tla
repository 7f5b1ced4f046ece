--------------------------- MODULE DatagramChannel --------------------------
(***************************************************************************)
(* What a network interface promises to the network tier on top of it:     *)
(* datagrams arrive unchanged, once, in the order in which they were sent, *)
(* until the channel breaks, which only Fragile datagrams can do.          *)
(***************************************************************************)
EXTENDS Integers, Sequences, SequencesExt

CONSTANTS Datagrams, Fragile

VARIABLES
  queue,    \* datagrams sent and not arrived
  arrived,  \* datagrams that have arrived, in this order
  broken    \* the receiver has lost its place

vars == <<queue, arrived, broken>>

Init == queue = <<>> /\ arrived = <<>> /\ broken = FALSE

Send == /\ ~broken
        /\ \E d \in Datagrams : queue' = Append(queue, d)
        /\ UNCHANGED <<arrived, broken>>

\* The receiver looks at the channel now and then, and takes what is there.
Arrive == /\ ~broken
          /\ \E n \in 1..Len(queue) :
               /\ arrived' = arrived \o SubSeq(queue, 1, n)
               /\ queue' = SubSeq(queue, n + 1, Len(queue))
          /\ UNCHANGED broken

\* The datagram that is to arrive next breaks the channel.
Break == /\ ~broken
         /\ queue # <<>> /\ Head(queue) \in Fragile
         /\ broken' = TRUE
         /\ UNCHANGED <<queue, arrived>>

\* A broken channel stays broken, and promises nothing else.
AnyBroken == broken /\ broken'

Next == Send \/ Arrive \/ Break \/ AnyBroken

Spec == Init /\ [][Next]_vars

=============================================================================

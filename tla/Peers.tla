------------------------------- MODULE Peers --------------------------------
(***************************************************************************)
(* The peers of a node and the devices that connect to them: what          *)
(* net_proto_init leaves, net_interface_loop, and net_proto_loop, which    *)
(* accepts a connection and binds each peer that has no tier state yet to  *)
(* the hardware device (net/proto/, net/interface/).                       *)
(*                                                                         *)
(* A software device is numbered in the order of creation; the first one   *)
(* listens for connections.  A datagram is its kind (see TierNetwork); how *)
(* it gets through the stream is NetLink's, and a device here is one whose *)
(* channel has not broken.  Host names, UDP, NAT and the proxy setting are *)
(* left out.                                                               *)
(***************************************************************************)
EXTENDS Integers, Sequences, FiniteSets, SequencesExt, MainLoop

CONSTANTS Peers,       \* net_proto_peer_t objects of others
          Self,        \* the one this node has made for itself
          Bootstrap,   \* peers made from the settings: an address without an
                       \* intermediary.  required_intermediary is not exported,
                       \* so that a peer learned from others has none set.
          MaxSoftDev   \* how many devices the hardware device has room for

NoPeer   == "none"
NoDevice == 0

ASSUME PeersAssumption ==
  /\ IsFiniteSet(Peers) /\ Bootstrap \subseteq Peers /\ Self \notin Peers
  /\ NoPeer \notin Peers \cup {Self} /\ MaxSoftDev \in Nat \ {0}

VARIABLES
  peers,     \* the type cache of net_proto_peer_t
  located,   \* peers whose address object is here
  devices,   \* software devices
  listed,    \* the length of soft_dev_list
  states,    \* the network tier states, in the order of the type cache
  callers    \* connections that wait at the server socket

peersVars == <<peers, located, devices, listed, states, callers>>

\* mail: what the other side has sent; arrived: how much of it has been taken
\* off the socket; cleared: how much of that has left inbound_data.
\* handled (history): how often each was given to the tier, at most 2.
Device(address, medium, socket) ==
  [address |-> address, medium |-> medium, socket |-> socket,
   mail |-> <<>>, arrived |-> 0, cleared |-> 0, handled |-> <<>>]

\* A network tier state.  due: the cache has to be updated; owes: the other
\* side wants our cache; stored: the data in inbound_buffer, at most 2.
State(peer, device) ==
  [peer |-> peer, device |-> device, due |-> FALSE, owes |-> FALSE, stored |-> 0]

\* init_self_peer finds or makes our own peer, and verify_bootstrap_nodes adds
\* the configured ones, between or behind those from an earlier run.
PeersInit ==
  /\ \E known \in SUBSET Peers : peers \in SetToSeqs(known \cup {Self})
  /\ \E there \in SUBSET Peers : located = there \cup Bootstrap
  /\ devices = <<Device(Self, TRUE, TRUE)>> /\ listed = 1
  /\ states = <<>> /\ callers = 0

-----------------------------------------------------------------------------
(* net_interface_loop                                                      *)

\* interface_medium_lookup throws without a medium, recv_all without a socket.
Broken(device) == ~device.medium \/ ~device.socket
SomeBroken == \E i \in DOMAIN devices : Broken(devices[i])

\* Each device takes what its socket has received, up to one that throws.
NetInterfaceLoop ==
  /\ At("net")
  /\ devices' = [i \in DOMAIN devices |->
                   IF \E j \in 1..i : Broken(devices[j]) THEN devices[i]
                   ELSE [devices[i] EXCEPT !.arrived = Len(devices[i].mail)]]
  /\ IF SomeBroken THEN NextTurn ELSE Goto("proto")
  /\ UNCHANGED <<peers, located, listed, states, callers>>

-----------------------------------------------------------------------------
(* net_proto_loop                                                          *)

\* accept: bind lists the device on its hardware, and accept does so again.
\* The tier state has a device and no peer.
AcceptConnection ==
  /\ At("proto")
  /\ IF callers = 0 THEN UNCHANGED <<devices, listed, states, callers>>
     ELSE /\ devices' = Append(devices, Device(NoPeer, TRUE, TRUE))
          /\ listed' = listed + 2
          /\ states' = Append(states, State(NoPeer, Len(devices) + 1))
          /\ callers' = callers - 1
  /\ Goto("bind")
  /\ UNCHANGED <<peers, located>>

\* peers_from_tiers, then the others of the type cache.  An erased element is
\* skipped over by the index, except where one is taken back: what follows our
\* own peer is compared in its stead, and behind the last element the vector
\* still holds our own, which no state has.
BoundPeers == {states[i].peer : i \in DOMAIN states}
Unbound    == {i \in DOMAIN peers : peers[i] # Self /\ peers[i] \notin BoundPeers}

\* Mutant: the state gets its peer when the connection stands.
BindFailsUntied(p, made, more) ==
  /\ devices' = devices \o made /\ listed' = listed + more
  /\ states' = Append(states, State(NoPeer, NoDevice))
  /\ NextTurn
  /\ UNCHANGED <<peers, located, callers>>

\* The tier state exists and has its peer before the connection is tried; the
\* exception ends the loop over peers, and the turn.
BindFails(p, made, more) ==
  /\ devices' = devices \o made /\ listed' = listed + more
  /\ states' = Append(states, State(p, NoDevice))
  /\ NextTurn
  /\ UNCHANGED <<peers, located, callers>>

\* add_address_cost cannot read the address, or the device list is full.
Refused(p) == p \notin located \/ listed >= MaxSoftDev

BindRefused(p)     == Refused(p) /\ BindFails(p, <<>>, 0)
\* set_address_id: the software device exists, and gets no medium.
BindNoWay(p)       == /\ ~Refused(p) /\ p \notin Bootstrap
                      /\ BindFails(p, <<Device(p, FALSE, FALSE)>>, 0)
\* create_client_socket throws: the device is listed, and has no state_ptr.
BindUnconnected(p) == /\ ~Refused(p) /\ p \in Bootstrap
                      /\ BindFails(p, <<Device(p, TRUE, FALSE)>>, 1)
BindConnected(p) ==
  /\ ~Refused(p) /\ p \in Bootstrap
  /\ devices' = Append(devices, Device(p, TRUE, TRUE)) /\ listed' = listed + 1
  /\ states' = Append(states, State(p, Len(devices) + 1))
  /\ UNCHANGED <<pc, peers, located, callers>>

BindPeer ==
  /\ At("bind")
  /\ \E i \in Unbound :
       /\ \A j \in Unbound : i <= j
       /\ \/ BindRefused(peers[i]) \/ BindNoWay(peers[i])
          \/ BindUnconnected(peers[i]) \/ BindConnected(peers[i])

\* Every peer has its state.  net_http_loop follows: NetHttp.
BindEnd ==
  /\ At("bind") /\ Unbound = {}
  /\ Goto("accept")
  /\ UNCHANGED peersVars

PeersMain == NetInterfaceLoop \/ AcceptConnection \/ BindPeer \/ BindEnd

-----------------------------------------------------------------------------
(* The others.                                                             *)

Call == /\ callers' = callers + 1
        /\ UNCHANGED <<pc, peers, located, devices, listed, states>>

\* The other side of an open connection sends a datagram of a kind.
Mail(i, kind) ==
  /\ i # 1 /\ ~Broken(devices[i])
  /\ devices' = [devices EXCEPT ![i].mail = Append(@, kind),
                                ![i].handled = Append(@, 0)]
  /\ UNCHANGED <<pc, peers, located, listed, states, callers>>

\* id_tier_loop has brought a peer, with or without its address.
Learn(p) ==
  /\ At("tier") /\ p \notin ToSet(peers)
  /\ peers' = Append(peers, p)
  /\ UNCHANGED <<pc, located, devices, listed, states, callers>>

-----------------------------------------------------------------------------
\* No peer has two tier states and our own has none; a state's device is open,
\* belongs to its peer and to no other state; only a peer's state may lack a
\* device.  So no connection is made twice, whatever fails half way
\* (net_proto_loop_bind_peers, net_interface_ip_add_address).
PeersBoundOnce ==
  /\ \A i, j \in DOMAIN states : i # j =>
       /\ states[i].peer # states[j].peer \/ states[i].peer = NoPeer
       /\ states[i].device # states[j].device \/ states[i].device = NoDevice
  /\ \A i \in DOMAIN states :
       /\ states[i].peer # Self
       /\ states[i].peer = NoPeer => states[i].device # NoDevice
       /\ states[i].device # NoDevice =>
            /\ ~Broken(devices[states[i].device])
            /\ devices[states[i].device].address = states[i].peer

=============================================================================

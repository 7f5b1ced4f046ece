------------------------------ MODULE NodeProofs ----------------------------
(***************************************************************************)
(* Theorems about the peers and the network tier of Node, for every set of *)
(* peers, consoles and meters, every capacity and every budget.            *)
(***************************************************************************)
EXTENDS Node, StationProofs, FiniteSetTheorems

Addresses == Peers \cup {Self, NoPeer}
DeviceSet == [address : Addresses, medium : BOOLEAN, socket : BOOLEAN,
              mail : Seq(Kinds), arrived : Nat, cleared : Nat, handled : Seq(0 .. 2)]
StateSet  == [peer : Addresses, device : Nat, due : BOOLEAN, owes : BOOLEAN,
              stored : 0 .. 2]

\* The network part of the types.
PeersTyped ==
  /\ peers \in Seq(Peers \cup {Self})
  /\ devices \in Seq(DeviceSet)
  /\ states \in Seq(StateSet)
  /\ tierAt \in Nat \ {0}
  /\ budget \in Budgets

(***************************************************************************)
(* What a step does to the network: one of these, or nothing.              *)
(***************************************************************************)
Sends   == \E i \in DOMAIN devices, kind \in Kinds : Mail(i, kind)
Learns  == \E p \in Peers : Learn(p)
NetworkStep == \/ PeersMain /\ UNCHANGED tierAt
               \/ Call /\ UNCHANGED tierAt
               \/ Sends /\ UNCHANGED tierAt
               \/ Learns /\ UNCHANGED tierAt
               \/ TierMain

LEMMA NodeStep ==
  ASSUME budget \in Budgets, [NodeNext]_nodeVars
  PROVE  /\ NetworkStep \/ UNCHANGED networkVars
         /\ UNCHANGED budget
<1>1. CASE UNCHANGED nodeVars
  BY <1>1 DEF nodeVars
<1>2. CASE TvTurn
  BY <1>2 DEF TvTurn
<1>3. CASE NetTurn
  BY <1>3 DEF NetTurn, NetworkStep
<1>4. CASE ConsoleTurn \/ CommandTurn
  BY <1>4 DEF ConsoleTurn, CommandTurn
<1>5. CASE TierTurn
  BY <1>5 DEF TierTurn, NetworkStep
<1>6. CASE \E c \in Consoles : TypeLine(c) \/ Receive(c)
  BY <1>6 DEF TypeLine, Receive
<1>7. CASE PeerCalls
  BY <1>7 DEF PeerCalls, NetworkStep
<1>8. CASE PeerSends
  BY <1>8 DEF PeerSends, NetworkStep, Sends
<1>9. CASE PeerLearned
  <2>1. budget.peers \subseteq Peers
    BY BudgetsAssumption
  <2> QED
    BY <1>9, <2>1 DEF PeerLearned, NetworkStep, Learns
<1>10. CASE \E m \in Meters : MeterSends(m)
  BY <1>10 DEF MeterSends
<1>11. CASE TimePasses \/ DeviceCallsBack
  BY <1>11 DEF TimePasses, DeviceCallsBack
<1> QED
  BY <1>1, <1>2, <1>3, <1>4, <1>5, <1>6, <1>7, <1>8, <1>9, <1>10, <1>11
     DEF NodeNext, Main, Others

(***************************************************************************)
(* The steps have their types.                                             *)
(***************************************************************************)

LEMMA NewDevice ==
  ASSUME NEW a \in Addresses, NEW m \in BOOLEAN, NEW s \in BOOLEAN
  PROVE  Device(a, m, s) \in DeviceSet
BY EmptySeq DEF Device, DeviceSet

LEMMA NewState ==
  ASSUME NEW a \in Addresses, NEW d \in Nat
  PROVE  State(a, d) \in StateSet
BY DEF State, StateSet

\* So does changing an element.
LEMMA ChangeKeeps ==
  ASSUME NEW S, NEW s \in Seq(S), NEW k \in DOMAIN s, NEW e \in S
  PROVE  /\ [s EXCEPT ![k] = e] \in Seq(S)
         /\ DOMAIN [s EXCEPT ![k] = e] = DOMAIN s
         /\ Len([s EXCEPT ![k] = e]) = Len(s)
BY ExceptSeq, LenProperties

\* The walk over the datagrams changes what is cleared and handled.
LEMMA CleanedType ==
  ASSUME NEW d \in DeviceSet
  PROVE  /\ Cleaned(d) \in DeviceSet
         /\ Cleaned(d).address = d.address /\ Cleaned(d).medium = d.medium
         /\ Cleaned(d).socket = d.socket /\ Cleaned(d).mail = d.mail
         /\ Cleaned(d).arrived = d.arrived
         /\ Cleaned(d).cleared = IF Bad(d) = {} THEN d.arrived ELSE d.cleared
         /\ Len(Cleaned(d).handled) = Len(d.handled)
         /\ \A n \in DOMAIN d.handled :
              Cleaned(d).handled[n] =
                IF n \in Walked(d) THEN Twice(d.handled[n] + 1) ELSE d.handled[n]
<1> DEFINE h == [n \in DOMAIN d.handled |->
                   IF n \in Walked(d) THEN Twice(d.handled[n] + 1) ELSE d.handled[n]]
           c == IF Bad(d) = {} THEN d.arrived ELSE d.cleared
<1>1. /\ d.handled \in Seq(0 .. 2) /\ d.arrived \in Nat /\ d.cleared \in Nat
      /\ d = [address |-> d.address, medium |-> d.medium, socket |-> d.socket,
              mail |-> d.mail, arrived |-> d.arrived, cleared |-> d.cleared,
              handled |-> d.handled]
  BY DEF DeviceSet
<1>2. Cleaned(d) = [d EXCEPT !.cleared = c, !.handled = h]
  BY DEF Cleaned
<1>3. \A n \in DOMAIN d.handled : h[n] \in 0 .. 2
  <2> SUFFICES ASSUME NEW n \in DOMAIN d.handled
               PROVE  h[n] \in 0 .. 2
    OBVIOUS
  <2>1. d.handled[n] \in 0 .. 2
    BY <1>1
  <2> QED
    BY <2>1 DEF Twice
<1>4. h \in Seq(0 .. 2) /\ Len(h) = Len(d.handled)
  <2>1. DOMAIN d.handled = 1 .. Len(d.handled) /\ Len(d.handled) \in Nat
    BY <1>1, LenProperties
  <2>2. h \in [1 .. Len(d.handled) -> 0 .. 2]
    BY <1>3, <2>1
  <2>3. h \in Seq(0 .. 2)
    BY <2>1, <2>2, IsASeq
  <2> QED
    BY <2>1, <2>3, LenProperties
<1>5. c \in Nat
  BY <1>1
<1> HIDE DEF h, c
<1>6. Cleaned(d) = [address |-> d.address, medium |-> d.medium, socket |-> d.socket,
                    mail |-> d.mail, arrived |-> d.arrived, cleared |-> c,
                    handled |-> h]
  BY <1>1, <1>2
<1>7. Cleaned(d) \in DeviceSet
  BY <1>4, <1>5, <1>6 DEF DeviceSet
<1>8. \A n \in DOMAIN d.handled :
        h[n] = IF n \in Walked(d) THEN Twice(d.handled[n] + 1) ELSE d.handled[n]
  BY DEF h
<1> QED
  BY <1>4, <1>6, <1>7, <1>8 DEF c

\* Serving changes what a state keeps, and not whose it is.
LEMMA FedType ==
  ASSUME NEW s \in StateSet, NEW d \in DeviceSet
  PROVE  /\ Fed(s, d) \in StateSet
         /\ Fed(s, d).peer = s.peer /\ Fed(s, d).device = s.device
<1>1. Cardinality(Of(d, "data")) \in Nat
  <2>1. d.cleared \in Nat /\ d.arrived \in Nat
    BY DEF DeviceSet
  <2>2. IsFiniteSet((d.cleared + 1) .. d.arrived)
    <3> DEFINE a == d.cleared + 1
               b == d.arrived
    <3>1. a \in Int /\ b \in Int
      BY <2>1
    <3> HIDE DEF a, b
    <3>2. IsFiniteSet(a .. b)
      BY ONLY <3>1, FS_Interval
    <3> QED
      BY <3>2 DEF a, b
  <2>3. Of(d, "data") \subseteq (d.cleared + 1) .. d.arrived
    BY DEF Of, Walked, Inbound
  <2> QED
    BY <2>2, <2>3, FS_Subset, FS_CardinalityType
<1> DEFINE k == Twice(s.stored + Cardinality(Of(d, "data")))
           o == Bad(d) # {} /\ (s.owes \/ Of(d, "meta") # {})
<1>2. k \in 0 .. 2
  BY <1>1 DEF Twice, StateSet
<1>3. o \in BOOLEAN
  OBVIOUS
<1>4. Fed(s, d) = [s EXCEPT !.stored = k, !.owes = o]
  BY DEF Fed
<1> HIDE DEF k, o
<1> QED
  BY <1>2, <1>3, <1>4 DEF StateSet

(***************************************************************************)
(* Peers are bound once: every step keeps the devices and states there are *)
(* and adds at most one state.                                             *)
(***************************************************************************)
DevicesThere == \A i \in DOMAIN states : states[i].device <= Len(devices)

BoundInv == PeersTyped /\ DevicesThere /\ PeersBoundOnce

DevicesKept ==
  /\ Len(devices) <= Len(devices')
  /\ \A i \in DOMAIN devices :
       /\ devices'[i].address = devices[i].address
       /\ Broken(devices[i])' = Broken(devices[i])

StatesKept ==
  /\ DOMAIN states' = DOMAIN states
  /\ \A i \in DOMAIN states : /\ states'[i].peer = states[i].peer
                              /\ states'[i].device = states[i].device

StateAdded(p, d) ==
  /\ states' = Append(states, State(p, d))
  /\ p # Self
  /\ p = NoPeer \/ p \notin BoundPeers
  /\ d = NoDevice \/ /\ d = Len(devices) + 1 /\ d = Len(devices')
                      /\ devices'[d].medium /\ devices'[d].socket
                      /\ devices'[d].address = p
  /\ p = NoPeer => d # NoDevice

\* What the types say of the sequences, stated once for the provers.
LEMMA Sizes ==
  ASSUME PeersTyped
  PROVE  /\ Len(devices) \in Nat /\ DOMAIN devices = 1 .. Len(devices)
         /\ \A i \in DOMAIN devices : devices[i] \in DeviceSet
         /\ Len(states) \in Nat /\ DOMAIN states = 1 .. Len(states)
         /\ \A i \in DOMAIN states : /\ states[i] \in StateSet
                                     /\ states[i].peer \in Addresses
                                     /\ states[i].device \in Nat
<1>1. devices \in Seq(DeviceSet) /\ states \in Seq(StateSet)
  BY DEF PeersTyped
<1>2. \A i \in DOMAIN states : states[i] \in StateSet
  BY <1>1
<1>3. \A i \in DOMAIN states : states[i].peer \in Addresses /\ states[i].device \in Nat
  BY <1>2 DEF StateSet
<1> QED
  BY <1>1, <1>2, <1>3, LenProperties

LEMMA KeptStates ==
  ASSUME BoundInv, PeersTyped', DevicesKept, StatesKept
  PROVE  DevicesThere' /\ PeersBoundOnce'
<1>1. /\ Len(devices) \in Nat /\ DOMAIN devices = 1 .. Len(devices)
      /\ Len(devices') \in Nat
      /\ \A i \in DOMAIN states : states[i].device \in Nat
  <2>1. devices' \in Seq(DeviceSet)
    BY DEF PeersTyped
  <2> QED
    BY <2>1, Sizes, LenProperties DEF BoundInv
<1>2. DevicesThere'
  BY <1>1 DEF BoundInv, DevicesThere, DevicesKept, StatesKept
<1>3. \A i \in DOMAIN states :
        states[i].device # NoDevice => states[i].device \in DOMAIN devices
  BY <1>1 DEF BoundInv, DevicesThere, NoDevice
<1>4. PeersBoundOnce'
  BY <1>3 DEF BoundInv, PeersBoundOnce, DevicesKept, StatesKept
<1> QED
  BY <1>2, <1>4

LEMMA OneMoreState ==
  ASSUME BoundInv, PeersTyped', DevicesKept,
         NEW p \in Addresses, NEW d \in Nat, StateAdded(p, d)
  PROVE  DevicesThere' /\ PeersBoundOnce'
<1> DEFINE n == Len(states) + 1
<1>1. /\ Len(devices) \in Nat /\ DOMAIN devices = 1 .. Len(devices)
      /\ Len(devices') \in Nat
      /\ \A i \in DOMAIN states : states[i].device \in Nat
      /\ Len(states) \in Nat /\ DOMAIN states = 1 .. Len(states)
  <2>1. devices' \in Seq(DeviceSet)
    BY DEF PeersTyped
  <2> QED
    BY <2>1, Sizes, LenProperties DEF BoundInv
<1>2. /\ DOMAIN states' = 1 .. n
      /\ states'[n] = State(p, d)
      /\ \A j \in DOMAIN states : states'[j] = states[j]
  BY NewState, AppendKeeps DEF StateAdded, BoundInv, PeersTyped
<1>3. states'[n].peer = p /\ states'[n].device = d
  BY <1>2 DEF State
<1>4. \A i \in DOMAIN states' : i \in DOMAIN states \/ i = n
  BY <1>1, <1>2
<1>5. \A i \in DOMAIN states :
        states[i].device # NoDevice => states[i].device \in DOMAIN devices
  BY <1>1 DEF BoundInv, DevicesThere, NoDevice
<1>6. DevicesThere'
  BY <1>1, <1>2, <1>3, <1>4 DEF BoundInv, DevicesThere, DevicesKept, StateAdded, NoDevice
<1>7. \A i \in DOMAIN states : states[i].peer # p \/ p = NoPeer
  BY DEF StateAdded, BoundPeers
<1>8. \A i \in DOMAIN states : states[i].device # d \/ d = NoDevice
  BY <1>1 DEF StateAdded, BoundInv, DevicesThere
<1>9. \A i, j \in DOMAIN states' : i # j =>
        /\ states'[i].peer # states'[j].peer \/ states'[i].peer = NoPeer
        /\ states'[i].device # states'[j].device \/ states'[i].device = NoDevice
  BY <1>2, <1>3, <1>4, <1>7, <1>8 DEF BoundInv, PeersBoundOnce
<1>10. ASSUME NEW i \in DOMAIN states'
       PROVE  /\ states'[i].peer # Self
              /\ states'[i].peer = NoPeer => states'[i].device # NoDevice
              /\ states'[i].device # NoDevice =>
                   /\ ~Broken(devices[states[i].device])'
                   /\ devices'[states'[i].device].address = states'[i].peer
  <2>1. CASE i = n
    BY <1>3, <2>1 DEF StateAdded, Broken
  <2>2. CASE i \in DOMAIN states
    BY <1>2, <1>5, <2>2 DEF BoundInv, PeersBoundOnce, DevicesKept
  <2> QED
    BY <1>4, <2>1, <2>2
<1>11. PeersBoundOnce'
  BY <1>9, <1>10 DEF PeersBoundOnce
<1> QED
  BY <1>6, <1>11

(***************************************************************************)
(* One lemma for each step.                                                *)
(***************************************************************************)

\* What a step does if it leaves devices and states alone.
LEMMA NothingToBind ==
  ASSUME BoundInv, UNCHANGED <<devices, states>>
  PROVE  DevicesKept /\ StatesKept
BY Sizes DEF BoundInv, DevicesKept, StatesKept, Broken

\* The devices are mapped one by one.
LEMMA MappedDevices ==
  ASSUME BoundInv,
         DOMAIN devices' = DOMAIN devices,
         devices' = [i \in DOMAIN devices |-> devices'[i]],
         \A i \in DOMAIN devices :
           /\ devices'[i] \in DeviceSet
           /\ devices'[i].address = devices[i].address
           /\ devices'[i].medium = devices[i].medium
           /\ devices'[i].socket = devices[i].socket
  PROVE  devices' \in Seq(DeviceSet) /\ DevicesKept
<1>1. Len(devices) \in Nat /\ DOMAIN devices = 1 .. Len(devices)
  BY Sizes DEF BoundInv
<1>2. devices' \in [1 .. Len(devices) -> DeviceSet]
  BY <1>1
<1>3. devices' \in Seq(DeviceSet)
  BY <1>1, <1>2, IsASeq
<1>4. Len(devices') = Len(devices)
  BY <1>1, <1>3, LenProperties
<1> QED
  BY <1>1, <1>3, <1>4 DEF DevicesKept, Broken

LEMMA NetInterfaceLoopBinds ==
  ASSUME BoundInv, NetInterfaceLoop, UNCHANGED <<tierAt, budget>>
  PROVE  PeersTyped' /\ DevicesKept /\ StatesKept
<1>1. \A i \in DOMAIN devices : devices[i] \in DeviceSet
  BY Sizes DEF BoundInv
<1>2. /\ devices' = [i \in DOMAIN devices |->
                      IF \E j \in 1 .. i : Broken(devices[j]) THEN devices[i]
                      ELSE [devices[i] EXCEPT !.arrived = Len(devices[i].mail)]]
      /\ UNCHANGED <<peers, states>>
  BY DEF NetInterfaceLoop
<1>3. ASSUME NEW i \in DOMAIN devices
      PROVE  /\ devices'[i] \in DeviceSet
             /\ devices'[i].address = devices[i].address
             /\ devices'[i].medium = devices[i].medium
             /\ devices'[i].socket = devices[i].socket
  <2> DEFINE n == Len(devices[i].mail)
  <2>1. n \in Nat /\ devices[i] \in DeviceSet
    BY <1>1, LenProperties DEF DeviceSet
  <2>2. devices'[i] = devices[i] \/ devices'[i] = [devices[i] EXCEPT !.arrived = n]
    BY <1>2
  <2> HIDE DEF n
  <2> QED
    BY <2>1, <2>2 DEF DeviceSet
<1>4. devices' \in Seq(DeviceSet) /\ DevicesKept
  BY <1>2, <1>3, MappedDevices
<1>5. StatesKept
  BY <1>2 DEF StatesKept
<1> QED
  BY <1>2, <1>4, <1>5 DEF BoundInv, PeersTyped

\* A datagram changes what is in mail, and how much of it is handled.
Mailed(d, m, h) == [d EXCEPT !.mail = m, !.handled = h]

LEMMA NewMail ==
  ASSUME NEW d \in DeviceSet, NEW m \in Seq(Kinds), NEW h \in Seq(0 .. 2)
  PROVE  /\ Mailed(d, m, h) \in DeviceSet
         /\ Mailed(d, m, h).address = d.address /\ Mailed(d, m, h).medium = d.medium
         /\ Mailed(d, m, h).socket = d.socket /\ Mailed(d, m, h).mail = m
         /\ Mailed(d, m, h).arrived = d.arrived
         /\ Mailed(d, m, h).cleared = d.cleared
         /\ Mailed(d, m, h).handled = h
<1>1. d = [address |-> d.address, medium |-> d.medium, socket |-> d.socket,
           mail |-> d.mail, arrived |-> d.arrived, cleared |-> d.cleared,
           handled |-> d.handled]
  BY DEF DeviceSet
<1> DEFINE e == Mailed(d, m, h)
<1>2. e = [d EXCEPT !.mail = m, !.handled = h]
  BY DEF Mailed
<1> HIDE DEF e
<1>3. e = [address |-> d.address, medium |-> d.medium, socket |-> d.socket,
           mail |-> m, arrived |-> d.arrived, cleared |-> d.cleared, handled |-> h]
  BY <1>1, <1>2
<1>4. /\ e \in DeviceSet
      /\ e.address = d.address /\ e.medium = d.medium /\ e.socket = d.socket
      /\ e.mail = m /\ e.arrived = d.arrived /\ e.cleared = d.cleared /\ e.handled = h
  BY <1>3 DEF DeviceSet
<1> QED
  BY <1>4 DEF e

LEMMA MailBinds ==
  ASSUME BoundInv, NEW i \in DOMAIN devices, NEW kind \in Kinds, Mail(i, kind),
         UNCHANGED <<tierAt, budget>>
  PROVE  PeersTyped' /\ DevicesKept /\ StatesKept
<1> DEFINE d == devices[i]
           m == Append(d.mail, kind)
           h == Append(d.handled, 0)
<1>1. d \in DeviceSet /\ m \in Seq(Kinds) /\ h \in Seq(0 .. 2)
  BY Sizes DEF BoundInv, DeviceSet
<1>2. /\ devices' = [devices EXCEPT ![i] = [d EXCEPT !.mail = m, !.handled = h]]
      /\ UNCHANGED <<peers, states>>
  BY DEF Mail
<1>3. devices'[i] = Mailed(d, m, h)
  BY <1>2 DEF Mailed
<1>4. devices'[i] \in DeviceSet /\ devices'[i].address = d.address
      /\ devices'[i].medium = d.medium /\ devices'[i].socket = d.socket
  <2> HIDE DEF d, m, h
  <2> QED
    BY <1>1, <1>3, NewMail
<1>5. \A j \in DOMAIN devices : j # i => devices'[j] = devices[j]
  BY <1>2
<1>6. devices' \in Seq(DeviceSet) /\ DevicesKept
  BY <1>2, <1>4, <1>5, Sizes, MappedDevices DEF BoundInv
<1>7. StatesKept
  BY <1>2 DEF StatesKept
<1> QED
  BY <1>2, <1>6, <1>7 DEF BoundInv, PeersTyped

LEMMA ServeConnectedBinds ==
  ASSUME BoundInv, ServeConnected, UNCHANGED budget
  PROVE  PeersTyped' /\ DevicesKept /\ StatesKept
<1> DEFINE k == tierAt
           d == states[k].device
<1>1. /\ k \in DOMAIN states /\ d # NoDevice
      /\ states' = [states EXCEPT ![k] = Fed(states[k], devices[d])]
      /\ devices' = [devices EXCEPT ![d] = Cleaned(devices[d])]
      /\ tierAt' = k + 1 /\ UNCHANGED peers
  BY Sizes DEF ServeConnected, Serving, TierState, BoundInv, PeersTyped
<1>2. d \in DOMAIN devices
  BY <1>1, Sizes DEF BoundInv, DevicesThere, NoDevice
<1>3. devices[d] \in DeviceSet /\ states[k] \in StateSet
  BY <1>1, <1>2, Sizes DEF BoundInv
<1>4. /\ Cleaned(devices[d]) \in DeviceSet
      /\ Cleaned(devices[d]).address = devices[d].address
      /\ Cleaned(devices[d]).medium = devices[d].medium
      /\ Cleaned(devices[d]).socket = devices[d].socket
  BY <1>3, CleanedType
<1>5. devices' \in Seq(DeviceSet) /\ DevicesKept
  <2>1. \A j \in DOMAIN devices : j # d => devices'[j] = devices[j]
    BY <1>1
  <2>2. devices'[d] = Cleaned(devices[d])
    BY <1>1, <1>2
  <2>3. \A j \in DOMAIN devices : devices[j] \in DeviceSet
    BY Sizes DEF BoundInv
  <2> QED
    BY <1>1, <1>4, <2>1, <2>2, <2>3, MappedDevices
<1>6. states' \in Seq(StateSet) /\ StatesKept
  <2> DEFINE f == Fed(states[k], devices[d])
  <2>1. f \in StateSet /\ f.peer = states[k].peer /\ f.device = states[k].device
    BY <1>3, FedType
  <2>2. states' = [states EXCEPT ![k] = f]
    BY <1>1
  <2> HIDE DEF f
  <2>3. states \in Seq(StateSet)
    BY DEF BoundInv, PeersTyped
  <2> QED
    BY <1>1, <2>1, <2>2, <2>3, ChangeKeeps DEF StatesKept
<1> QED
  BY <1>1, <1>5, <1>6 DEF BoundInv, PeersTyped

LEMMA ServeThrowsBinds ==
  ASSUME BoundInv, ServeThrows, UNCHANGED budget
  PROVE  PeersTyped' /\ DevicesKept /\ StatesKept
<1> DEFINE k == tierAt
           f == [states[k] EXCEPT !.due = TRUE]
<1>1. /\ k \in DOMAIN states
      /\ states' = [states EXCEPT ![k] = f]
      /\ tierAt' = 1 /\ UNCHANGED <<peers, devices>>
  BY Sizes DEF ServeThrows, Serving, TierState, BoundInv, PeersTyped
<1>2. f \in StateSet /\ f.peer = states[k].peer /\ f.device = states[k].device
  BY <1>1, Sizes DEF BoundInv, StateSet
<1> HIDE DEF f
<1>3. states' \in Seq(StateSet) /\ StatesKept
  BY <1>1, <1>2, ChangeKeeps DEF StatesKept, BoundInv, PeersTyped
<1>4. DevicesKept
  BY <1>1, Sizes DEF BoundInv, DevicesKept, Broken
<1> QED
  BY <1>1, <1>3, <1>4 DEF BoundInv, PeersTyped

\* A device is added.
LEMMA OneMoreDevice ==
  ASSUME BoundInv, NEW e \in DeviceSet, devices' = Append(devices, e)
  PROVE  /\ devices' \in Seq(DeviceSet) /\ DevicesKept
         /\ Len(devices') = Len(devices) + 1
         /\ devices'[Len(devices) + 1] = e
<1>1. devices \in Seq(DeviceSet) /\ Len(devices) \in Nat
  BY Sizes DEF BoundInv, PeersTyped
<1>2. /\ devices' \in Seq(DeviceSet) /\ Len(devices') = Len(devices) + 1
      /\ devices'[Len(devices) + 1] = e
      /\ \A j \in DOMAIN devices : devices'[j] = devices[j]
  BY <1>1, AppendKeeps
<1> QED
  BY <1>1, <1>2 DEF DevicesKept, Broken

LEMMA AcceptConnectionBinds ==
  ASSUME BoundInv, AcceptConnection, UNCHANGED <<tierAt, budget>>
  PROVE  /\ PeersTyped' /\ DevicesKept
         /\ StatesKept \/ \E d \in Nat : StateAdded(NoPeer, d)
<1>1. CASE UNCHANGED <<devices, states>>
  BY <1>1, NothingToBind DEF BoundInv, PeersTyped, AcceptConnection
<1>2. CASE /\ devices' = Append(devices, Device(NoPeer, TRUE, TRUE))
           /\ states' = Append(states, State(NoPeer, Len(devices) + 1))
  <2> DEFINE n == Len(devices) + 1
             e == Device(NoPeer, TRUE, TRUE)
  <2>1. n \in Nat /\ n # NoDevice /\ NoPeer \in Addresses
    BY Sizes DEF BoundInv, NoDevice, Addresses
  <2>2. e \in DeviceSet /\ e.address = NoPeer /\ e.medium /\ e.socket
    BY <2>1, NewDevice DEF Device
  <2>3. devices' \in Seq(DeviceSet) /\ DevicesKept
        /\ Len(devices') = n /\ devices'[n] = e
    BY <1>2, <2>2, OneMoreDevice
  <2>4. states' \in Seq(StateSet)
    BY <1>2, <2>1, NewState, AppendKeeps DEF BoundInv, PeersTyped
  <2>5. UNCHANGED peers
    BY DEF AcceptConnection
  <2> HIDE DEF n, e
  <2>6. StateAdded(NoPeer, n)
    <3>1. states' = Append(states, State(NoPeer, n))
      BY <1>2 DEF n
    <3>2. devices'[n].address = NoPeer /\ devices'[n].medium /\ devices'[n].socket
      BY <2>2, <2>3
    <3>3. n = Len(devices) + 1
      BY DEF n
    <3> QED
      BY <2>1, <2>3, <3>1, <3>2, <3>3, PeersAssumption DEF StateAdded
  <2> QED
    BY <2>1, <2>3, <2>4, <2>5, <2>6 DEF BoundInv, PeersTyped
<1> QED
  BY <1>1, <1>2 DEF AcceptConnection

\* A peer that is bound next has no state.
LEMMA UnboundPeer ==
  ASSUME BoundInv, NEW i \in Unbound
  PROVE  /\ peers[i] \in Addresses /\ peers[i] # Self /\ peers[i] # NoPeer
         /\ peers[i] \notin BoundPeers
<1>1. peers \in Seq(Peers \cup {Self}) /\ i \in DOMAIN peers
  BY DEF BoundInv, PeersTyped, Unbound
<1>2. peers[i] \in Peers \cup {Self}
  BY <1>1
<1> QED
  BY <1>2, PeersAssumption DEF Addresses, Unbound

LEMMA BindFailsBinds ==
  ASSUME BoundInv, NEW p \in Addresses, p # Self, p # NoPeer, p \notin BoundPeers,
         NEW made, NEW more, BindFails(p, made, more),
         made = <<>> \/ \E e \in DeviceSet : made = <<e>>,
         UNCHANGED <<tierAt, budget>>
  PROVE  PeersTyped' /\ DevicesKept /\ StateAdded(p, NoDevice)
<1>1. devices' = devices \o made /\ states' = Append(states, State(p, NoDevice))
      /\ UNCHANGED peers
  BY DEF BindFails
<1>2. states' \in Seq(StateSet)
  BY <1>1, NewState, AppendKeeps DEF BoundInv, PeersTyped, NoDevice
<1>3. devices' \in Seq(DeviceSet) /\ DevicesKept
  <2>0. devices \in Seq(DeviceSet)
    BY DEF BoundInv, PeersTyped
  <2>1. CASE made = <<>>
    <3>1. devices' = devices
      BY <1>1, <2>0, <2>1
    <3> QED
      BY <2>0, <3>1, Sizes DEF BoundInv, DevicesKept, Broken
  <2>2. CASE \E e \in DeviceSet : made = <<e>>
    <3>1. PICK e \in DeviceSet : made = <<e>>
      BY <2>2
    <3>2. devices' = Append(devices, e)
      BY <1>1, <2>0, <3>1
    <3> QED
      BY <3>2, OneMoreDevice
  <2> QED
    BY <2>1, <2>2
<1>4. StateAdded(p, NoDevice)
  BY <1>1 DEF StateAdded
<1> QED
  BY <1>1, <1>2, <1>3, <1>4 DEF BoundInv, PeersTyped

LEMMA BindConnectedBinds ==
  ASSUME BoundInv, NEW p \in Addresses, p # Self, p # NoPeer, p \notin BoundPeers,
         BindConnected(p), UNCHANGED <<tierAt, budget>>
  PROVE  PeersTyped' /\ DevicesKept /\ \E d \in Nat : StateAdded(p, d)
<1> DEFINE n == Len(devices) + 1
           e == Device(p, TRUE, TRUE)
<1>1. /\ devices' = Append(devices, e) /\ states' = Append(states, State(p, n))
      /\ UNCHANGED peers
  BY DEF BindConnected
<1>2. n \in Nat
  BY Sizes DEF BoundInv
<1>3. e \in DeviceSet /\ e.address = p /\ e.medium /\ e.socket
  BY NewDevice DEF Device
<1> HIDE DEF e
<1>4. devices' \in Seq(DeviceSet) /\ DevicesKept
      /\ Len(devices') = n /\ devices'[n] = e
  BY <1>1, <1>3, OneMoreDevice
<1>5. states' \in Seq(StateSet)
  BY <1>1, <1>2, NewState, AppendKeeps DEF BoundInv, PeersTyped
<1>6. StateAdded(p, n)
  <2>1. devices'[n].address = p /\ devices'[n].medium /\ devices'[n].socket
    BY <1>3, <1>4
  <2> QED
    BY <1>1, <1>4, <2>1 DEF StateAdded
<1> QED
  BY <1>1, <1>2, <1>4, <1>5, <1>6 DEF BoundInv, PeersTyped

LEMMA BindPeerBinds ==
  ASSUME BoundInv, BindPeer, UNCHANGED <<tierAt, budget>>
  PROVE  /\ PeersTyped' /\ DevicesKept
         /\ \E p \in Addresses, d \in Nat : StateAdded(p, d)
<1>1. PICK i \in Unbound : \/ BindRefused(peers[i]) \/ BindNoWay(peers[i])
                          \/ BindUnconnected(peers[i]) \/ BindConnected(peers[i])
  BY DEF BindPeer
<1> DEFINE p == peers[i]
<1>2. p \in Addresses /\ p # Self /\ p # NoPeer /\ p \notin BoundPeers
  BY UnboundPeer
<1> HIDE DEF p
<1>3. NoDevice \in Nat
  BY DEF NoDevice
<1>4. CASE BindRefused(p)
  <2>1. BindFails(p, <<>>, 0)
    BY <1>4 DEF BindRefused
  <2> QED
    BY <1>2, <1>3, <2>1, BindFailsBinds
<1>5. CASE BindNoWay(p)
  <2>1. BindFails(p, <<Device(p, FALSE, FALSE)>>, 0)
    BY <1>5 DEF BindNoWay
  <2> QED
    BY <1>2, <1>3, <2>1, NewDevice, BindFailsBinds
<1>6. CASE BindUnconnected(p)
  <2>1. BindFails(p, <<Device(p, TRUE, FALSE)>>, 1)
    BY <1>6 DEF BindUnconnected
  <2> QED
    BY <1>2, <1>3, <2>1, NewDevice, BindFailsBinds
<1>7. CASE BindConnected(p)
  BY <1>2, <1>7, BindConnectedBinds
<1> QED
  BY <1>1, <1>4, <1>5, <1>6, <1>7 DEF p

(***************************************************************************)
(* The theorem.                                                            *)
(***************************************************************************)

LEMMA BoundInit == NodeInit => BoundInv
<1> SUFFICES ASSUME NodeInit PROVE BoundInv
  OBVIOUS
<1>1. /\ PeersInit /\ tierAt = 1 /\ budget \in Budgets
  BY DEF NodeInit, NetworkInit
<1>2. PICK known \in SUBSET Peers : peers \in SetToSeqs(known \cup {Self})
  BY <1>1 DEF PeersInit
<1>3. peers \in Seq(Peers \cup {Self})
  <2> DEFINE S == known \cup {Self}
  <2>1. IsFiniteSet(S)
    <3>1. IsFiniteSet(known)
      BY PeersAssumption, FS_Subset
    <3> QED
      BY <3>1, FS_AddElement
  <2>2. Cardinality(S) \in Nat
    BY <2>1, FS_CardinalityType
  <2>3. peers \in [1 .. Cardinality(S) -> S]
    BY <1>2 DEF SetToSeqs
  <2> DEFINE n == Cardinality(S)
  <2>4. peers \in [1 .. n -> Peers \cup {Self}]
    BY <2>3
  <2>5. n \in Nat
    BY <2>2
  <2> HIDE DEF n
  <2> QED
    BY <2>4, <2>5, IsASeq
<1>4. devices \in Seq(DeviceSet) /\ states \in Seq(StateSet)
  <2>1. Device(Self, TRUE, TRUE) \in DeviceSet
    BY NewDevice DEF Addresses
  <2>2. devices = <<Device(Self, TRUE, TRUE)>> /\ states = <<>>
    BY <1>1 DEF PeersInit
  <2>3. \A e \in DeviceSet : <<e>> \in Seq(DeviceSet)
    OBVIOUS
  <2> QED
    BY <2>1, <2>2, <2>3, EmptySeq
<1>5. DevicesThere /\ PeersBoundOnce
  BY <1>1 DEF PeersInit, DevicesThere, PeersBoundOnce
<1> QED
  BY <1>1, <1>3, <1>4, <1>5 DEF BoundInv, PeersTyped

StatesGrow == StatesKept \/ \E p \in Addresses, d \in Nat : StateAdded(p, d)

\* Devices stay, and at most one state is added.
LEMMA NetworkGrows ==
  ASSUME BoundInv, [NodeNext]_nodeVars
  PROVE  PeersTyped' /\ DevicesKept /\ StatesGrow
<1> DEFINE Shape == PeersTyped' /\ DevicesKept /\ StatesGrow
<1> USE DEF StatesGrow
<1>1. UNCHANGED budget /\ (NetworkStep \/ UNCHANGED networkVars)
  BY NodeStep DEF BoundInv, PeersTyped
<1>2. ASSUME UNCHANGED networkVars PROVE Shape
  BY <1>1, <1>2, NothingToBind DEF networkVars, peersVars, BoundInv, PeersTyped
<1>3. ASSUME PeersMain, UNCHANGED tierAt PROVE Shape
  <2>1. CASE NetInterfaceLoop
    BY <1>1, <1>3, <2>1, NetInterfaceLoopBinds
  <2>2. CASE AcceptConnection
    BY <1>1, <1>3, <2>2, AcceptConnectionBinds DEF Addresses
  <2>3. CASE BindPeer
    BY <1>1, <1>3, <2>3, BindPeerBinds
  <2>4. CASE BindEnd
    BY <1>1, <1>3, <2>4, NothingToBind DEF BindEnd, peersVars, BoundInv, PeersTyped
  <2> QED
    BY <1>3, <2>1, <2>2, <2>3, <2>4 DEF PeersMain
<1>4. ASSUME Call, UNCHANGED tierAt PROVE Shape
  BY <1>1, <1>4, NothingToBind DEF Call, BoundInv, PeersTyped
<1>5. ASSUME Sends, UNCHANGED tierAt PROVE Shape
  BY <1>1, <1>5, MailBinds DEF Sends
<1>6. ASSUME Learns, UNCHANGED tierAt PROVE Shape
  <2>1. PICK p \in Peers : Learn(p)
    BY <1>6 DEF Learns
  <2>2. peers' = Append(peers, p) /\ UNCHANGED <<devices, states>>
    BY <2>1 DEF Learn
  <2>3. peers' \in Seq(Peers \cup {Self})
    BY <2>2, AppendKeeps DEF BoundInv, PeersTyped
  <2> QED
    BY <1>1, <1>6, <2>2, <2>3, NothingToBind DEF BoundInv, PeersTyped
<1>7. ASSUME TierMain PROVE Shape
  <2>1. CASE ServeConnected
    BY <1>1, <2>1, ServeConnectedBinds
  <2>2. CASE ServeUnconnected
    BY <1>1, <2>2, NothingToBind DEF ServeUnconnected, peersVars, BoundInv, PeersTyped
  <2>3. CASE ServeThrows
    BY <1>1, <2>3, ServeThrowsBinds
  <2>4. CASE TierEnd
    BY <1>1, <2>4, NothingToBind DEF TierEnd, peersVars, BoundInv, PeersTyped
  <2> QED
    BY <1>7, <2>1, <2>2, <2>3, <2>4 DEF TierMain
<1> QED
  BY <1>1, <1>2, <1>3, <1>4, <1>5, <1>6, <1>7 DEF NetworkStep

LEMMA BoundStep == BoundInv /\ [NodeNext]_nodeVars => BoundInv'
<1> SUFFICES ASSUME BoundInv, [NodeNext]_nodeVars PROVE BoundInv'
  OBVIOUS
<1>1. DevicesThere' /\ PeersBoundOnce'
  BY NetworkGrows, KeptStates, OneMoreState DEF StatesGrow
<1> QED
  BY <1>1, NetworkGrows DEF BoundInv

\* Whatever fails half way, no peer has two tier states and no connection is
\* made twice; a state's device is open and belongs to its peer and to no other
\* state (net_proto_loop_bind_peers, net_interface_ip_add_address).
THEOREM NodePeersBoundOnce == Spec => []PeersBoundOnce
<1>1. BoundInv => PeersBoundOnce
  BY DEF BoundInv
<1> QED
  BY <1>1, BoundInit, BoundStep, PTL DEF Spec

(***************************************************************************)
(* Datagrams are handled once.  Beyond DatagramsOnce, what has been handled *)
(* and not cleared waits in front of one that cannot be handled: so the    *)
(* turn that clears it is the first one that handles it.                   *)
(***************************************************************************)
BadIn(d, b)    == d.mail[b] = "bad"
MailWell(d) ==
  /\ Len(d.handled) = Len(d.mail)
  /\ d.cleared <= d.arrived /\ d.arrived <= Len(d.mail)
  /\ \A n \in 1 .. Len(d.mail) :
       /\ n <= d.cleared => d.handled[n] = 1
       /\ d.handled[n] > 0 => /\ n <= d.arrived
                              /\ \A b \in 1 .. n : ~BadIn(d, b) /\ d.handled[b] > 0
       /\ n > d.cleared /\ d.handled[n] > 0 => \E b \in n .. d.arrived : BadIn(d, b)

MailInv == BoundInv /\ \A i \in DOMAIN devices : MailWell(devices[i])

LEMMA MailWellSuffices ==
  ASSUME MailInv
  PROVE  DatagramsOnce
<1> SUFFICES ASSUME NEW i \in DOMAIN devices, NEW n \in DOMAIN devices[i].mail
             PROVE  LET d == devices[i]
                        behind(k) == \E b \in 1 .. k : d.mail[b] = "bad"
                        before(k) == \E b \in k .. d.arrived : d.mail[b] = "bad"
                    IN  /\ n <= d.cleared => d.handled[n] = 1
                        /\ d.handled[n] > 1 => before(n)
                        /\ d.handled[n] > 0 => /\ n <= d.arrived /\ ~behind(n)
                                               /\ \A m \in 1 .. n : d.handled[m] > 0
  BY DEF DatagramsOnce
<1> DEFINE d == devices[i]
<1>1. d \in DeviceSet /\ MailWell(d)
  BY Sizes DEF MailInv, BoundInv
<1>2. /\ d.mail \in Seq(Kinds) /\ d.handled \in Seq(0 .. 2)
      /\ d.arrived \in Nat /\ d.cleared \in Nat
  BY <1>1 DEF DeviceSet
<1>3. n \in 1 .. Len(d.mail) /\ n \in Nat
  BY <1>2, LenProperties
<1>4. d.handled[n] \in 0 .. 2
  <2>1. n \in DOMAIN d.handled
    BY <1>1, <1>2, <1>3, LenProperties DEF MailWell
  <2> QED
    BY <1>2, <2>1
<1> HIDE DEF d
<1>5. d.handled[n] > 1 => n > d.cleared /\ d.handled[n] > 0
  BY <1>1, <1>2, <1>3, <1>4 DEF MailWell
<1>6. d.handled[n] > 1 => \E b \in n .. d.arrived : d.mail[b] = "bad"
  BY <1>1, <1>3, <1>5 DEF MailWell, BadIn
<1>7. n <= d.cleared => d.handled[n] = 1
  BY <1>1, <1>3 DEF MailWell
<1>8. d.handled[n] > 0 => /\ n <= d.arrived
                          /\ \A b \in 1 .. n : d.mail[b] # "bad" /\ d.handled[b] > 0
  BY <1>1, <1>3 DEF MailWell, BadIn
<1> QED
  BY <1>6, <1>7, <1>8 DEF d

\* A new device has no mail.
LEMMA NewDeviceMail ==
  ASSUME NEW a, NEW m, NEW s
  PROVE  MailWell(Device(a, m, s))
<1> DEFINE d == Device(a, m, s)
<1>1. d.mail = <<>> /\ d.handled = <<>> /\ d.arrived = 0 /\ d.cleared = 0
  BY DEF Device
<1> HIDE DEF d
<1>2. MailWell(d)
  BY <1>1 DEF MailWell
<1> QED
  BY <1>2 DEF d

\* More of the mail is taken off the socket.
LEMMA ArrivedMail ==
  ASSUME NEW d \in DeviceSet, MailWell(d), NEW e \in DeviceSet,
         e.mail = d.mail, e.handled = d.handled, e.cleared = d.cleared,
         e.arrived = Len(d.mail)
  PROVE  MailWell(e)
<1>1. d.arrived \in Nat /\ d.cleared \in Nat /\ Len(d.mail) \in Nat
  BY LenProperties DEF DeviceSet
<1> QED
  BY <1>1 DEF MailWell, BadIn

\* A datagram is sent.
LEMMA SentMail ==
  ASSUME NEW d \in DeviceSet, MailWell(d), NEW kind \in Kinds, NEW e \in DeviceSet,
         e.mail = Append(d.mail, kind), e.handled = Append(d.handled, 0),
         e.cleared = d.cleared, e.arrived = d.arrived
  PROVE  MailWell(e)
<1> DEFINE n == Len(d.mail)
<1>1. /\ d.arrived \in Nat /\ d.cleared \in Nat /\ n \in Nat
      /\ d.mail \in Seq(Kinds) /\ d.handled \in Seq(0 .. 2)
  BY LenProperties DEF DeviceSet
<1>2. /\ Len(e.mail) = n + 1 /\ Len(e.handled) = n + 1
      /\ e.handled[n + 1] = 0
      /\ \A k \in 1 .. n : e.mail[k] = d.mail[k] /\ e.handled[k] = d.handled[k]
  BY <1>1 DEF MailWell
<1> HIDE DEF n
<1>3. /\ d.cleared <= d.arrived /\ d.arrived <= n
      /\ \A k \in 1 .. n :
           /\ k <= d.cleared => d.handled[k] = 1
           /\ d.handled[k] > 0 => /\ k <= d.arrived
                                  /\ \A b \in 1 .. k : d.mail[b] # "bad" /\ d.handled[b] > 0
           /\ k > d.cleared /\ d.handled[k] > 0 =>
                \E b \in k .. d.arrived : d.mail[b] = "bad"
  BY DEF MailWell, BadIn, n
<1>4. \A k \in 1 .. n + 1 :
        /\ k <= e.cleared => e.handled[k] = 1
        /\ e.handled[k] > 0 => /\ k <= e.arrived
                               /\ \A b \in 1 .. k : e.mail[b] # "bad" /\ e.handled[b] > 0
        /\ k > e.cleared /\ e.handled[k] > 0 =>
             \E b \in k .. e.arrived : e.mail[b] = "bad"
  <2> SUFFICES ASSUME NEW k \in 1 .. n + 1
               PROVE  /\ k <= e.cleared => e.handled[k] = 1
                      /\ e.handled[k] > 0 =>
                           /\ k <= e.arrived
                           /\ \A b \in 1 .. k : e.mail[b] # "bad" /\ e.handled[b] > 0
                      /\ k > e.cleared /\ e.handled[k] > 0 =>
                           \E b \in k .. e.arrived : e.mail[b] = "bad"
    OBVIOUS
  <2>1. CASE k = n + 1
    BY <1>1, <1>2, <1>3, <2>1
  <2>2. CASE k \in 1 .. n
    <3>1. \A b \in 1 .. k : b \in 1 .. n
      BY <1>1, <2>2
    <3>2. \A b \in k .. d.arrived : b \in 1 .. n
      BY <1>1, <1>3, <2>2
    <3>3. e.handled[k] = d.handled[k]
      BY <1>2, <2>2
    <3>4. k <= e.cleared => e.handled[k] = 1
      BY <1>3, <2>2, <3>3
    <3>5. ASSUME e.handled[k] > 0
          PROVE  /\ k <= e.arrived
                 /\ \A b \in 1 .. k : e.mail[b] # "bad" /\ e.handled[b] > 0
      BY <1>2, <1>3, <2>2, <3>1, <3>3, <3>5
    <3>6. ASSUME k > e.cleared, e.handled[k] > 0
          PROVE  \E b \in k .. e.arrived : e.mail[b] = "bad"
      <4>1. PICK b \in k .. d.arrived : d.mail[b] = "bad"
        BY <1>3, <2>2, <3>3, <3>6
      <4>2. e.mail[b] = "bad"
        BY <1>2, <3>2, <4>1
      <4> QED
        BY <4>2
    <3> QED
      BY <3>4, <3>5, <3>6
  <2>3. k = n + 1 \/ k \in 1 .. n
    BY <1>1
  <2> QED
    BY <2>1, <2>2, <2>3, Zenon
<1>5. Len(e.handled) = Len(e.mail) /\ Len(e.mail) = n + 1
  BY <1>1, <1>2
<1>6. e.cleared <= e.arrived /\ e.arrived <= Len(e.mail)
  BY <1>1, <1>2, <1>3
<1>7. \A k \in 1 .. Len(e.mail) :
        /\ k <= e.cleared => e.handled[k] = 1
        /\ e.handled[k] > 0 => /\ k <= e.arrived
                               /\ \A b \in 1 .. k : e.mail[b] # "bad" /\ e.handled[b] > 0
        /\ k > e.cleared /\ e.handled[k] > 0 =>
             \E b \in k .. e.arrived : e.mail[b] = "bad"
  BY ONLY <1>4, <1>5
<1> QED
  BY ONLY <1>5, <1>6, <1>7, Zenon DEF MailWell, BadIn

\* A turn of the tier walks over what has arrived, and clears it unless it met
\* a datagram that cannot be handled.
LEMMA WalkedMail ==
  ASSUME NEW d \in DeviceSet, MailWell(d)
  PROVE  MailWell(Cleaned(d))
<1> DEFINE e == Cleaned(d)
           w == Len(d.mail)
<1>1. /\ d.arrived \in Nat /\ d.cleared \in Nat /\ w \in Nat
      /\ d.mail \in Seq(Kinds) /\ d.handled \in Seq(0 .. 2)
  BY LenProperties DEF DeviceSet
<1>2. /\ d.cleared <= d.arrived /\ d.arrived <= w /\ Len(d.handled) = w
      /\ \A n \in 1 .. w :
           /\ n <= d.cleared => d.handled[n] = 1
           /\ d.handled[n] > 0 => /\ n <= d.arrived
                                  /\ \A b \in 1 .. n : d.mail[b] # "bad" /\ d.handled[b] > 0
           /\ n > d.cleared /\ d.handled[n] > 0 =>
                \E b \in n .. d.arrived : d.mail[b] = "bad"
  BY DEF MailWell, BadIn
<1>3. /\ e.mail = d.mail /\ e.arrived = d.arrived /\ Len(e.handled) = w
      /\ e.cleared = IF Bad(d) = {} THEN d.arrived ELSE d.cleared
      /\ \A n \in DOMAIN d.handled :
           e.handled[n] = IF n \in Walked(d) THEN Twice(d.handled[n] + 1) ELSE d.handled[n]
  BY <1>2, CleanedType
<1>4. \A n \in 1 .. w : d.handled[n] \in 0 .. 2 /\ n \in DOMAIN d.handled
  BY <1>1, <1>2, LenProperties
<1> HIDE DEF e, w
<1>5. \A n \in 1 .. w : /\ n \in Walked(d) => e.handled[n] = Twice(d.handled[n] + 1)
                        /\ n \notin Walked(d) => e.handled[n] = d.handled[n]
  BY <1>3, <1>4
<1>6. \A n \in 1 .. w : /\ n \in Walked(d) => e.handled[n] > 0
                        /\ d.handled[n] > 0 => e.handled[n] > 0
                        /\ e.handled[n] > 0 => n \in Walked(d) \/ d.handled[n] > 0
  BY <1>4, <1>5 DEF Twice
\* Where the walk comes to, everything before it has been handled.
<1>7. \A n \in 1 .. w : n \in Walked(d) =>
        /\ n > d.cleared /\ n <= d.arrived
        /\ \A b \in 1 .. n : b <= d.cleared \/ b \in Walked(d)
        /\ \A b \in 1 .. n : d.mail[b] # "bad"
  <2> SUFFICES ASSUME NEW n \in 1 .. w, n \in Walked(d)
               PROVE  /\ n > d.cleared /\ n <= d.arrived
                      /\ \A b \in 1 .. n : (b <= d.cleared \/ b \in Walked(d)) /\ d.mail[b] # "bad"
    BY Zenon
  <2>0. n \in (d.cleared + 1) .. d.arrived
    BY DEF Walked, Inbound
  <2> SUFFICES ASSUME NEW b \in 1 .. n
               PROVE  (b <= d.cleared \/ b \in Walked(d)) /\ d.mail[b] # "bad"
    BY <1>1, <2>0
  <2>1. /\ n \in (d.cleared + 1) .. d.arrived
        /\ \A c \in (d.cleared + 1) .. d.arrived : d.mail[c] = "bad" => n < c
    BY DEF Walked, Inbound, Bad
  <2>2. b <= d.cleared \/ b \in (d.cleared + 1) .. d.arrived
    BY <1>1, <2>1
  <2>3. b \in (d.cleared + 1) .. d.arrived => b \in Walked(d)
    BY <1>1, <2>1 DEF Walked, Inbound, Bad
  <2>4. d.mail[b] # "bad"
    <3>1. CASE b <= d.cleared
      <4>1. b \in 1 .. w /\ d.handled[b] = 1
        BY <1>1, <1>2, <2>1, <3>1
      <4>2. b \in 1 .. b /\ d.handled[b] > 0
        BY <1>1, <4>1
      <4> QED
        BY <1>2, <4>1, <4>2
    <3>2. CASE b \in (d.cleared + 1) .. d.arrived
      BY <1>1, <2>1, <3>2
    <3> QED
      BY <2>2, <3>1, <3>2
  <2> QED
    BY <2>2, <2>3, <2>4
<1>8. ASSUME NEW n \in 1 .. w, e.handled[n] > 0
      PROVE  n <= e.arrived /\ \A b \in 1 .. n : e.mail[b] # "bad" /\ e.handled[b] > 0
  <2>0. \A b \in 1 .. n : b \in 1 .. w
    BY <1>1
  <2>1. CASE d.handled[n] > 0
    BY <1>2, <1>3, <1>6, <2>0, <2>1
  <2>2. CASE n \in Walked(d)
    <3>1. n <= e.arrived /\ \A b \in 1 .. n : e.mail[b] # "bad"
      BY <1>3, <1>7, <2>2
    <3>2. ASSUME NEW b \in 1 .. n PROVE e.handled[b] > 0
      <4>1. CASE b <= d.cleared
        <5>1. d.handled[b] > 0
          BY <1>2, <2>0, <4>1
        <5> QED
          BY <1>6, <2>0, <5>1
      <4>2. CASE b \in Walked(d)
        BY <1>6, <2>0, <4>2
      <4> QED
        BY <1>7, <2>2, <4>1, <4>2
    <3> QED
      BY <3>1, <3>2
  <2> QED
    BY <1>6, <1>8, <2>1, <2>2
<1>9. ASSUME NEW n \in 1 .. w, n > e.cleared, e.handled[n] > 0
      PROVE  \E b \in n .. e.arrived : e.mail[b] = "bad"
  <2>1. n <= d.arrived
    BY <1>3, <1>8, <1>9
  <2>2. Bad(d) # {} /\ e.cleared = d.cleared
    BY <1>1, <1>3, <1>9, <2>1
  <2>3. CASE d.handled[n] > 0
    BY <1>2, <1>3, <1>9, <2>2, <2>3
  <2>4. CASE n \in Walked(d)
    <3>1. PICK b \in Bad(d) : TRUE
      BY <2>2
    <3>2. b \in (d.cleared + 1) .. d.arrived /\ d.mail[b] = "bad" /\ n < b
      BY <2>4 DEF Bad, Inbound, Walked
    <3> QED
      BY <1>1, <1>3, <3>2
  <2> QED
    BY <1>6, <1>9, <2>3, <2>4
<1>10. ASSUME NEW n \in 1 .. w, n <= e.cleared
       PROVE  e.handled[n] = 1
  <2>1. CASE n <= d.cleared
    <3>1. d.handled[n] = 1 /\ n \notin Walked(d)
      BY <1>1, <1>2, <1>7, <2>1
    <3> QED
      BY <1>5, <3>1
  <2>2. CASE n > d.cleared
    <3>1. Bad(d) = {} /\ n \in (d.cleared + 1) .. d.arrived
      BY <1>1, <1>3, <1>10, <2>2
    <3>2. n \in Walked(d)
      BY <3>1 DEF Walked, Inbound
    <3>3. ~ (d.handled[n] > 0)
      BY <1>1, <1>2, <2>2, <3>1 DEF Bad, Inbound
    <3>4. d.handled[n] = 0
      BY <1>4, <3>3
    <3> QED
      BY <1>5, <3>2, <3>4 DEF Twice
  <2> QED
    BY <1>1, <2>1, <2>2
<1>11. e.cleared <= e.arrived /\ e.arrived <= w
  BY <1>1, <1>2, <1>3
<1>12. w = Len(e.mail)
  BY <1>3 DEF w
<1>13. MailWell(e)
  BY <1>3, <1>8, <1>9, <1>10, <1>11, <1>12 DEF MailWell, BadIn
<1> QED
  BY <1>13 DEF e

LEMMA MailKept ==
  ASSUME MailInv, UNCHANGED devices
  PROVE  \A i \in DOMAIN devices' : MailWell(devices'[i])
BY DEF MailInv

LEMMA MailOfNewDevice ==
  ASSUME MailInv, NEW a \in Addresses, NEW m \in BOOLEAN, NEW s \in BOOLEAN,
         devices' = Append(devices, Device(a, m, s))
  PROVE  \A i \in DOMAIN devices' : MailWell(devices'[i])
<1> DEFINE e == Device(a, m, s)
<1>1. e \in DeviceSet /\ MailWell(e)
  BY NewDevice, NewDeviceMail
<1>2. devices \in Seq(DeviceSet) /\ Len(devices) \in Nat /\ DOMAIN devices = 1 .. Len(devices)
  BY Sizes DEF MailInv, BoundInv, PeersTyped
<1> HIDE DEF e
<1>3. /\ DOMAIN devices' = 1 .. Len(devices) + 1
      /\ devices'[Len(devices) + 1] = e
      /\ \A j \in DOMAIN devices : devices'[j] = devices[j]
  BY <1>1, <1>2, AppendKeeps DEF e
<1> SUFFICES ASSUME NEW i \in DOMAIN devices'
             PROVE  MailWell(devices'[i])
  OBVIOUS
<1>4. i \in DOMAIN devices \/ i = Len(devices) + 1
  BY <1>2, <1>3
<1> QED
  BY <1>1, <1>3, <1>4 DEF MailInv

LEMMA MailOfLoop ==
  ASSUME MailInv, NetInterfaceLoop
  PROVE  \A i \in DOMAIN devices' : MailWell(devices'[i])
<1>1. /\ DOMAIN devices' = DOMAIN devices
      /\ \A i \in DOMAIN devices :
           \/ devices'[i] = devices[i]
           \/ devices'[i] = [devices[i] EXCEPT !.arrived = Len(devices[i].mail)]
  BY DEF NetInterfaceLoop
<1> SUFFICES ASSUME NEW i \in DOMAIN devices
             PROVE  MailWell(devices'[i])
  BY <1>1
<1> DEFINE d == devices[i]
           n == Len(d.mail)
           e == [d EXCEPT !.arrived = n]
<1>2. d \in DeviceSet /\ MailWell(d)
  BY Sizes DEF MailInv, BoundInv
<1>3. n \in Nat
  BY <1>2, LenProperties DEF DeviceSet
<1>4. devices'[i] = d \/ devices'[i] = e
  BY <1>1
<1>5. MailWell(e)
  <2> HIDE DEF d, n
  <2>1. /\ e \in DeviceSet /\ e.mail = d.mail /\ e.handled = d.handled
        /\ e.cleared = d.cleared /\ e.arrived = n
    BY <1>2, <1>3 DEF DeviceSet
  <2> HIDE DEF e
  <2> QED
    BY <1>2, <2>1, ArrivedMail DEF n
<1> HIDE DEF d, e
<1> QED
  BY <1>2, <1>4, <1>5

LEMMA MailOfMail ==
  ASSUME MailInv, NEW i \in DOMAIN devices, NEW kind \in Kinds, Mail(i, kind)
  PROVE  \A j \in DOMAIN devices' : MailWell(devices'[j])
<1> DEFINE d == devices[i]
           m == Append(d.mail, kind)
           h == Append(d.handled, 0)
           e == Mailed(d, m, h)
<1>1. d \in DeviceSet /\ MailWell(d) /\ m \in Seq(Kinds) /\ h \in Seq(0 .. 2)
  BY Sizes DEF MailInv, BoundInv, DeviceSet
<1>2. devices' = [devices EXCEPT ![i] = e]
  BY DEF Mail, Mailed
<1>3. MailWell(e)
  <2> HIDE DEF d
  <2>1. /\ e \in DeviceSet /\ e.mail = m /\ e.handled = h
        /\ e.cleared = d.cleared /\ e.arrived = d.arrived
    <3> HIDE DEF m, h
    <3> QED
      BY <1>1, NewMail
  <2> HIDE DEF e
  <2> QED
    BY <1>1, <2>1, SentMail
<1> HIDE DEF e
<1> QED
  BY <1>2, <1>3 DEF MailInv

LEMMA MailOfServing ==
  ASSUME MailInv, ServeConnected
  PROVE  \A j \in DOMAIN devices' : MailWell(devices'[j])
<1> DEFINE d == states[tierAt].device
<1>1. devices' = [devices EXCEPT ![d] = Cleaned(devices[d])]
  BY DEF ServeConnected, TierState
<1>2. ASSUME d \in DOMAIN devices PROVE MailWell(Cleaned(devices[d]))
  <2>1. devices[d] \in DeviceSet /\ MailWell(devices[d])
    BY <1>2, Sizes DEF MailInv, BoundInv
  <2> QED
    BY <2>1, WalkedMail
<1> QED
  BY <1>1, <1>2 DEF MailInv

LEMMA MailStep == MailInv /\ [NodeNext]_nodeVars => MailInv'
<1> SUFFICES ASSUME MailInv, [NodeNext]_nodeVars PROVE MailInv'
  OBVIOUS
<1> DEFINE Well == \A i \in DOMAIN devices' : MailWell(devices'[i])
<1>1. BoundInv' /\ (NetworkStep \/ UNCHANGED networkVars)
  BY BoundStep, NodeStep DEF MailInv, BoundInv, PeersTyped
<1>2. ASSUME BindPeer PROVE Well
  <2>1. PICK i \in Unbound : \/ BindRefused(peers[i]) \/ BindNoWay(peers[i])
                            \/ BindUnconnected(peers[i]) \/ BindConnected(peers[i])
    BY <1>2 DEF BindPeer
  <2> DEFINE p == peers[i]
  <2>2. p \in Addresses
    BY UnboundPeer DEF MailInv
  <2>3. devices \in Seq(DeviceSet)
    BY DEF MailInv, BoundInv, PeersTyped
  <2> HIDE DEF p
  <2>4. CASE BindRefused(p)
    <3>1. devices' = devices
      BY <2>3, <2>4 DEF BindRefused, BindFails
    <3> QED
      BY <3>1, MailKept
  <2>5. CASE BindNoWay(p) \/ BindUnconnected(p) \/ BindConnected(p)
    <3>1. PICK m \in BOOLEAN, s \in BOOLEAN :
            \/ devices' = devices \o <<Device(p, m, s)>>
            \/ devices' = Append(devices, Device(p, m, s))
      BY <2>5 DEF BindNoWay, BindUnconnected, BindConnected, BindFails
    <3>2. devices' = Append(devices, Device(p, m, s))
      BY <2>2, <2>3, <3>1, NewDevice, AppendIsConcat
    <3> QED
      BY <2>2, <3>2, MailOfNewDevice
  <2> QED
    BY <2>1, <2>4, <2>5 DEF p
<1>3. ASSUME PeersMain PROVE Well
  <2>1. CASE AcceptConnection
    BY <2>1, MailKept, MailOfNewDevice DEF AcceptConnection, Addresses
  <2> QED
    BY <1>2, <1>3, <2>1, MailKept, MailOfLoop DEF PeersMain, BindEnd, peersVars
<1>4. ASSUME TierMain PROVE Well
  BY <1>4, MailKept, MailOfServing
     DEF TierMain, ServeUnconnected, ServeThrows, TierEnd, peersVars
<1>5. ASSUME Call \/ Sends \/ Learns PROVE Well
  BY <1>5, MailKept, MailOfMail DEF Call, Sends, Learns, Learn
<1>6. ASSUME UNCHANGED networkVars PROVE Well
  BY <1>6, MailKept DEF networkVars, peersVars
<1>7. Well
  BY <1>1, <1>3, <1>4, <1>5, <1>6 DEF NetworkStep
<1> QED
  BY <1>1, <1>7 DEF MailInv

LEMMA MailInit == NodeInit => MailInv
<1> SUFFICES ASSUME NodeInit PROVE MailInv
  OBVIOUS
<1>1. devices = <<Device(Self, TRUE, TRUE)>>
  BY DEF NodeInit, NetworkInit, PeersInit
<1>2. \A i \in DOMAIN devices : devices[i] = Device(Self, TRUE, TRUE)
  <2> DEFINE e == Device(Self, TRUE, TRUE)
  <2> HIDE DEF e
  <2>1. DOMAIN <<e>> = 1 .. 1 /\ <<e>>[1] = e
    OBVIOUS
  <2>2. devices = <<e>>
    BY <1>1 DEF e
  <2>3. \A i \in DOMAIN devices : devices[i] = e
    BY <2>1, <2>2
  <2> QED
    BY <2>3 DEF e
<1> QED
  BY <1>2, BoundInit, NewDeviceMail DEF MailInv

\* Datagrams are handled in order and none is passed over; one is handled again
\* only if it came before one that cannot be handled (network_to_tier,
\* net_interface_ip_recv_all).
THEOREM NodeDatagramsOnce == Spec => []DatagramsOnce
<1> QED
  BY MailInit, MailStep, MailWellSuffices, PTL DEF Spec

-----------------------------------------------------------------------------
(***************************************************************************)
(* The console: the bytes between a client and console_t::run are always   *)
(* the lines of the commands that have not run yet.                        *)
(***************************************************************************)

\* The lines of commands.
LinesFor(s) == [i \in DOMAIN s |-> Line(s[i])]
Lines(s)    == FlattenSeq(LinesFor(s))

LEMMA LineType ==
  ASSUME NEW k \in Commands
  PROVE  /\ Line(k) \in Seq(Char) /\ Len(Line(k)) = 3
         /\ Line(k)[1] = k /\ Line(k)[2] = "\r" /\ Line(k)[3] = "\n"
         /\ k # "\r" /\ k # "\n"
BY CommandsAssumption DEF Line, Char

LEMMA LinesType ==
  ASSUME NEW s \in Seq(Commands)
  PROVE  /\ LinesFor(s) \in Seq(Seq(Char)) /\ Len(LinesFor(s)) = Len(s)
         /\ Lines(s) \in Seq(Char)
<1>1. Len(s) \in Nat /\ DOMAIN s = 1 .. Len(s)
  BY LenProperties
<1>2. \A i \in 1 .. Len(s) : LinesFor(s)[i] \in Seq(Char)
  BY <1>1, LineType, ElementOfSeq DEF LinesFor
<1>3. LinesFor(s) = [i \in 1 .. Len(s) |-> LinesFor(s)[i]]
  BY <1>1 DEF LinesFor
<1>4. LinesFor(s) \in Seq(Seq(Char)) /\ Len(LinesFor(s)) = Len(s)
  BY <1>1, <1>2, <1>3, SequenceByElements
<1> QED
  BY <1>4, FlattenType DEF Lines

\* One more command, one more line behind the others.
LEMMA LinesAppend ==
  ASSUME NEW s \in Seq(Commands), NEW k \in Commands
  PROVE  Lines(Append(s, k)) = Lines(s) \o Line(k)
<1> DEFINE t == Append(s, k)
<1>1. /\ t \in Seq(Commands) /\ Len(t) = Len(s) + 1 /\ Len(s) \in Nat
      /\ \A i \in 1 .. Len(s) : t[i] = s[i]
      /\ t[Len(s) + 1] = k
      /\ DOMAIN t = 1 .. Len(s) + 1 /\ DOMAIN s = 1 .. Len(s)
  BY AppendProperties, LenProperties
<1>2. LinesFor(t) \in Seq(Seq(Char)) /\ LinesFor(s) \in Seq(Seq(Char)) /\ Line(k) \in Seq(Char)
  BY <1>1, LinesType, LineType
<1>3. Len(LinesFor(s)) = Len(s) /\ Len(LinesFor(t)) = Len(s) + 1
  BY <1>1, LinesType
<1>4. \A i \in 1 .. Len(s) : LinesFor(t)[i] = LinesFor(s)[i]
  BY <1>1 DEF LinesFor
<1>5. LinesFor(t)[Len(s) + 1] = Line(k)
  BY <1>1 DEF LinesFor
<1> HIDE DEF t
<1>6. LinesFor(t) = Append(LinesFor(s), Line(k))
  BY <1>2, <1>3, <1>4, <1>5, AppendByElements
<1>7. FlattenSeq(Append(LinesFor(s), Line(k))) = FlattenSeq(LinesFor(s)) \o Line(k)
  BY <1>2, FlattenAppend
<1> QED
  BY <1>6, <1>7 DEF Lines, t

\* The first command's line comes first.
LEMMA LinesHead ==
  ASSUME NEW s \in Seq(Commands), s # <<>>
  PROVE  /\ Head(s) \in Commands /\ Tail(s) \in Seq(Commands)
         /\ s = <<Head(s)>> \o Tail(s)
         /\ Lines(s) = Line(Head(s)) \o Lines(Tail(s))
<1>1. /\ Head(s) \in Commands /\ Tail(s) \in Seq(Commands) /\ s = <<Head(s)>> \o Tail(s)
      /\ Len(s) \in Nat \ {0} /\ DOMAIN s = 1 .. Len(s)
      /\ Len(Tail(s)) = Len(s) - 1 /\ DOMAIN Tail(s) = 1 .. Len(s) - 1
      /\ \A i \in 1 .. Len(s) - 1 : Tail(s)[i] = s[i + 1]
      /\ Head(s) = s[1]
  OBVIOUS
<1>2. /\ LinesFor(s) \in Seq(Seq(Char)) /\ LinesFor(Tail(s)) \in Seq(Seq(Char))
  BY <1>1, LinesType
<1>3. /\ LinesFor(s) # <<>> /\ Head(LinesFor(s)) = Line(Head(s))
      /\ Len(LinesFor(s)) = Len(s)
  <2>1. DOMAIN LinesFor(s) = 1 .. Len(s) /\ LinesFor(s)[1] = Line(Head(s))
    BY <1>1 DEF LinesFor
  <2> QED
    BY <1>1, <1>2, <2>1
<1>4. Tail(LinesFor(s)) = LinesFor(Tail(s))
  <2>1. /\ Tail(LinesFor(s)) \in Seq(Seq(Char)) /\ Len(Tail(LinesFor(s))) = Len(s) - 1
        /\ \A i \in 1 .. Len(s) - 1 : Tail(LinesFor(s))[i] = LinesFor(s)[i + 1]
    BY <1>1, <1>2, <1>3
  <2>2. \A i \in 1 .. Len(s) - 1 : LinesFor(s)[i + 1] = LinesFor(Tail(s))[i]
    BY <1>1 DEF LinesFor
  <2>4. Len(LinesFor(Tail(s))) = Len(s) - 1
    BY <1>1, LinesType
  <2> QED
    BY <1>2, <2>1, <2>2, <2>4, SeqEqual
<1> QED
  BY <1>1, <1>2, <1>3, <1>4, FlattenHead DEF Lines

(***************************************************************************)
(* The first line of an input.                                             *)
(***************************************************************************)

LEMMA LineEndFirst ==
  ASSUME NEW S, NEW s \in Seq(S), Newline(s)
  PROVE  /\ LineEnd(s) \in 1 .. Len(s) /\ s[LineEnd(s)] = "\n"
         /\ \A i \in 1 .. LineEnd(s) - 1 : s[i] # "\n"
<1> DEFINE Ends == {i \in 1 .. Len(s) : s[i] = "\n"}
           T == {n \in Nat : \A i \in Ends : i > n}
           First(i) == s[i] = "\n" /\ "\n" \notin ToSet(SubSeq(s, 1, i - 1))
<1>0. Len(s) \in Nat /\ DOMAIN s = 1 .. Len(s)
  BY LenProperties
<1>1. PICK e \in Ends : TRUE
  BY DEF Newline, Contains
<1>2. PICK m \in Ends : \A i \in Ends : m <= i
  <2> SUFFICES ASSUME \A m \in Ends : \E i \in Ends : i < m
               PROVE  FALSE
    BY <1>0
  <2>1. 0 \in T
    BY <1>0
  <2>2. \A n \in Nat : n \in T => n + 1 \in T
    <3> SUFFICES ASSUME NEW n \in Nat, n \in T, NEW i \in Ends, ~ (i > n + 1)
                 PROVE  FALSE
      BY <1>0
    <3>1. i = n + 1
      BY <1>0
    <3> QED
      BY <1>0, <3>1
  <2>3. Nat \subseteq T
    BY <2>1, <2>2, NumberInduction
  <2> QED
    BY <1>0, <1>1, <2>3
<1>3. \A i \in 1 .. Len(s) :
        /\ SubSeq(s, 1, i - 1) \in Seq(S) /\ Len(SubSeq(s, 1, i - 1)) = i - 1
        /\ \A j \in 1 .. i - 1 : SubSeq(s, 1, i - 1)[j] = s[j]
  BY <1>0
<1>4. \A i \in 1 .. Len(s) :
        ToSet(SubSeq(s, 1, i - 1)) = {s[j] : j \in 1 .. i - 1}
  <2> SUFFICES ASSUME NEW i \in 1 .. Len(s)
               PROVE  ToSet(SubSeq(s, 1, i - 1)) = {s[j] : j \in 1 .. i - 1}
    OBVIOUS
  <2> DEFINE u == SubSeq(s, 1, i - 1)
  <2>1. u \in Seq(S) /\ Len(u) = i - 1 /\ \A j \in 1 .. i - 1 : u[j] = s[j]
    BY <1>3
  <2> HIDE DEF u
  <2>2. DOMAIN u = 1 .. i - 1
    BY <2>1, LenProperties
  <2>3. ToSet(u) = {u[j] : j \in 1 .. i - 1}
    BY <2>2 DEF ToSet
  <2> QED
    BY <2>1, <2>3 DEF u
<1> HIDE DEF First
<1>5. \A i \in 1 .. Len(s) :
        First(i) <=> s[i] = "\n" /\ \A j \in 1 .. i - 1 : s[j] # "\n"
  BY <1>4 DEF First
<1>6. m \in 1 .. Len(s) /\ First(m)
  BY <1>0, <1>2, <1>5
<1>7. LineEnd(s) = CHOOSE i \in 1 .. Len(s) : First(i)
  BY DEF LineEnd, First
<1>8. LineEnd(s) \in 1 .. Len(s) /\ First(LineEnd(s))
  BY <1>6, <1>7
<1> QED
  BY <1>5, <1>8

\* A client that waits has sent one line: that is what the console reads.
LEMMA FirstLine ==
  ASSUME NEW k \in Commands, NEW s \in Seq(Char), NEW t \in Seq(Char), NEW u \in Seq(Char)
  PROVE  s \o t = Line(k) \o u /\ Newline(s) /\ LineEnd(s) = Len(s)
           => s = Line(k) /\ t = u
<1> DEFINE a == s \o t
           b == Line(k) \o u
<1>1. /\ Line(k) \in Seq(Char) /\ Len(Line(k)) = 3
      /\ Line(k)[1] = k /\ Line(k)[2] = "\r" /\ Line(k)[3] = "\n"
      /\ k # "\n"
  BY LineType
<1>2. /\ a \in Seq(Char) /\ Len(a) = Len(s) + Len(t)
      /\ \A i \in 1 .. Len(s) : a[i] = s[i]
      /\ Len(s) \in Nat /\ Len(t) \in Nat
  BY ConcatProperties, LenProperties
<1>3. /\ b \in Seq(Char) /\ Len(b) = 3 + Len(u)
      /\ \A i \in 1 .. 3 : b[i] = Line(k)[i]
      /\ Len(u) \in Nat
  <2>1. /\ b \in Seq(Char) /\ Len(b) = Len(Line(k)) + Len(u) /\ Len(u) \in Nat
    BY <1>1, ConcatLength
  <2>2. \A i \in 1 .. Len(Line(k)) : b[i] = Line(k)[i]
    <3> DEFINE l == Line(k)
    <3>1. l \in Seq(Char)
      BY <1>1
    <3> HIDE DEF l
    <3>2. \A i \in 1 .. Len(l) : (l \o u)[i] = l[i]
      BY <3>1, ConcatProperties, LenProperties
    <3> QED
      BY <3>2 DEF l
  <2> HIDE DEF b
  <2> QED
    BY <1>1, <2>1, <2>2
<1> HIDE DEF a, b
<1> SUFFICES ASSUME a = b, Newline(s), LineEnd(s) = Len(s)
             PROVE  s = Line(k) /\ t = u
  BY DEF a, b
<1>4. Len(s) \in Nat \ {0} /\ s[Len(s)] = "\n" /\ \A i \in 1 .. Len(s) - 1 : s[i] # "\n"
  <2>1. /\ LineEnd(s) \in 1 .. Len(s) /\ s[LineEnd(s)] = "\n"
        /\ \A i \in 1 .. LineEnd(s) - 1 : s[i] # "\n"
    BY LineEndFirst
  <2> QED
    BY <1>2, <2>1
<1>5. a = b
  OBVIOUS
<1>6. b[1] = k /\ b[2] = "\r" /\ b[3] = "\n"
  BY <1>1, <1>3
<1>7. Len(s) = 3
  <2>1. CASE Len(s) < 3
    BY <1>1, <1>2, <1>4, <1>5, <1>6, <2>1
  <2>2. CASE Len(s) > 3
    BY <1>2, <1>4, <1>5, <1>6, <2>2
  <2> QED
    BY <1>4, <2>1, <2>2
<1>8. s = Line(k)
  <2>1. \A i \in 1 .. 3 : s[i] = Line(k)[i]
    BY <1>2, <1>3, <1>5, <1>7
  <2> QED
    BY <1>1, <1>7, <2>1, SeqEqual
<1>9. t = u
  <2>1. SubSeq(a, Len(s) + 1, Len(s) + Len(t)) = t
    BY ConcatSecond DEF a
  <2>2. SubSeq(b, Len(Line(k)) + 1, Len(Line(k)) + Len(u)) = u
    BY <1>1, ConcatSecond DEF b
  <2>3. Len(t) = Len(u)
    BY <1>2, <1>3, <1>5, <1>7
  <2> QED
    BY <1>1, <1>5, <1>7, <2>1, <2>2, <2>3
<1> QED
  BY <1>8, <1>9

\* The command is read back from its line, of which nothing is left.
LEMMA CommandRead ==
  ASSUME NEW k \in Commands
  PROVE  Word(SubSeq(Line(k), 1, Len(Line(k)) - 1)) = <<k>> /\ SubSeq(Line(k), 3, 3) = <<"\n">>
<1> DEFINE s == <<k, "\r">>
           I == {i \in 1 .. Len(s) : s[i] = "\r"}
<1>1. SubSeq(Line(k), 1, Len(Line(k)) - 1) = s /\ SubSeq(Line(k), 3, 3) = <<"\n">>
  <2>1. /\ s \in Seq(Char) /\ Len(s) = 2 /\ s[1] = k /\ s[2] = "\r"
        /\ <<"\n">> \in Seq(Char) /\ Len(<<"\n">>) = 1 /\ <<"\n">>[1] = "\n"
    BY DEF Char
  <2>2. /\ SubSeq(Line(k), 1, 2) \in Seq(Char) /\ Len(SubSeq(Line(k), 1, 2)) = 2
        /\ SubSeq(Line(k), 1, 2)[1] = Line(k)[1] /\ SubSeq(Line(k), 1, 2)[2] = Line(k)[2]
    BY LineType
  <2>3. /\ SubSeq(Line(k), 3, 3) \in Seq(Char) /\ Len(SubSeq(Line(k), 3, 3)) = 1
        /\ SubSeq(Line(k), 3, 3)[1] = Line(k)[3]
    BY LineType
  <2>4. SubSeq(Line(k), 1, 2) = s
    <3> HIDE DEF s
    <3>1. \A i \in 1 .. 2 : SubSeq(Line(k), 1, 2)[i] = s[i]
      BY <2>1, <2>2, LineType
    <3> QED
      BY <2>1, <2>2, <3>1, SeqEqual
  <2>5. SubSeq(Line(k), 3, 3) = <<"\n">>
    <3> DEFINE r == <<"\n">>
    <3>1. r \in Seq(Char) /\ Len(r) = 1 /\ r[1] = "\n"
      BY <2>1
    <3> HIDE DEF r
    <3>2. \A i \in 1 .. 1 : SubSeq(Line(k), 3, 3)[i] = r[i]
      BY <2>3, <3>1, LineType
    <3>3. SubSeq(Line(k), 3, 3) = r
      BY <2>3, <3>1, <3>2, SeqEqual
    <3> QED
      BY <3>3 DEF r
  <2>6. Len(Line(k)) - 1 = 2
    BY LineType
  <2> QED
    BY <2>4, <2>5, <2>6
<1>2. I = {2} /\ Contains(s, "\r")
  BY LineType DEF Contains
<1> HIDE DEF I
<1>3. SelectInSeq(s, LAMBDA x : x = "\r") = Min(I)
  BY <1>2 DEF SelectInSeq, I
<1>4. Min(I) = 2
  BY <1>2 DEF Min
<1>5. SubSeq(s, 1, 2 - 1) = <<k>>
  <2> DEFINE r == <<k>>
  <2>1. r \in Seq(Char) /\ Len(r) = 1 /\ r[1] = k
    BY DEF Char
  <2>2. s \in Seq(Char) /\ Len(s) = 2 /\ s[1] = k
    BY DEF Char
  <2> HIDE DEF r, s
  <2>3. /\ SubSeq(s, 1, 1) \in Seq(Char) /\ Len(SubSeq(s, 1, 1)) = 1
        /\ SubSeq(s, 1, 1)[1] = s[1]
    <3>1. 1 \in Nat \ {0} /\ 1 \in 0 .. Len(s)
      BY <2>2
    <3>2. /\ SubSeq(s, 1, 1) \in Seq(Char)
          /\ Len(SubSeq(s, 1, 1)) = IF 1 <= 1 THEN 1 - 1 + 1 ELSE 0
          /\ \A i \in 1 .. Len(SubSeq(s, 1, 1)) : SubSeq(s, 1, 1)[i] = s[1 + i - 1]
      BY ONLY <2>2, <3>1, PieceKeeps
    <3> DEFINE u == SubSeq(s, 1, 1)
    <3> HIDE DEF u
    <3>3. Len(u) = 1 /\ u[1] = s[1]
      BY <3>2 DEF u
    <3> QED
      BY <3>2, <3>3 DEF u
  <2>4. \A i \in 1 .. 1 : SubSeq(s, 1, 1)[i] = r[i]
    BY <2>1, <2>2, <2>3
  <2>5. SubSeq(s, 1, 1) = r
    BY <2>1, <2>3, <2>4, SeqEqual
  <2> QED
    BY <2>5 DEF r
<1> HIDE DEF s
<1>6. Word(s) = <<k>>
  BY <1>2, <1>3, <1>4, <1>5 DEF Word
<1> QED
  BY <1>1, <1>6

(***************************************************************************)
(* The console and everyone else.                                          *)
(***************************************************************************)

\* The types of the streams and the histories.
StreamsTyped ==
  /\ input \in [Consoles -> Seq(Char)]
  /\ recv \in [Consoles -> Seq(Char)]
  /\ wire \in [Consoles -> Seq(Char)]
  /\ typed \in [Consoles -> Seq(Commands)]
  /\ ran \in [Consoles -> Seq(Commands)]

\* The lines on the way to c are those of the commands r, which are to run.
Waiting(c, r) ==
  /\ r \in Seq(Commands)
  /\ typed[c] = ran[c] \o r
  /\ input[c] \o recv[c] \o wire[c] = Lines(r)

\* A line end is only there while the lines are run, and ends the input.
EndsOnce(c) ==
  Newline(input[c]) => pc = "lines" /\ c = Current /\ LineEnd(input[c]) = Len(input[c])

ConsoleInv ==
  /\ StreamsTyped
  /\ \A c \in Consoles \ ahead : (\E r : Waiting(c, r)) /\ EndsOnce(c)

LEMMA ConsoleInvKept ==
  ASSUME ConsoleInv
  PROVE  CommandsKept
<1> SUFFICES ASSUME NEW c \in Consoles \ ahead
             PROVE  /\ typed[c] = ran[c] \o ToRun(c)
                    /\ input[c] \o recv[c] \o wire[c]
                         = FlattenSeq([i \in DOMAIN ToRun(c) |-> Line(ToRun(c)[i])])
  BY DEF CommandsKept
<1>1. PICK r : Waiting(c, r)
  BY DEF ConsoleInv
<1>2. ran[c] \in Seq(Commands) /\ r \in Seq(Commands)
  BY <1>1 DEF ConsoleInv, StreamsTyped, Waiting
<1>3. SubSeq(ran[c] \o r, Len(ran[c]) + 1, Len(ran[c]) + Len(r)) = r
  BY <1>2, ConcatSecond
<1>4. Len(ran[c] \o r) = Len(ran[c]) + Len(r)
  BY <1>2, ConcatLength
<1>5. ToRun(c) = r
  BY <1>1, <1>3, <1>4 DEF ToRun, Waiting
<1> QED
  BY <1>1, <1>5 DEF Waiting, Lines, LinesFor

\* What a step does to the console: one of these, or nothing to it, in which
\* case the main thread was not running lines or is where it was.
Elsewhere == UNCHANGED consoleVars /\ (pc # "lines" \/ UNCHANGED pc)
LEMMA ConsoleStep ==
  ASSUME budget \in Budgets, [NodeNext]_nodeVars
  PROVE  \/ ConsoleMain \/ Execute
         \/ \E c \in Consoles : (\E k \in Commands : Type(c, k)) \/ RecvThread(c)
         \/ Elsewhere
<1> USE DEF Elsewhere
<1>1. CASE UNCHANGED nodeVars
  BY <1>1 DEF nodeVars
<1>2. CASE TvTurn
  BY <1>2 DEF TvTurn, TvMain, Record, Inward, OutwardNothing, Outward, OutwardThrows,
              TvEnd, Showing, At
<1>3. CASE NetTurn
  BY <1>3 DEF NetTurn, PeersMain, NetInterfaceLoop, AcceptConnection, BindPeer, BindEnd, At
<1>4. CASE ConsoleTurn \/ CommandTurn
  BY <1>4 DEF ConsoleTurn, CommandTurn
<1>5. CASE TierTurn
  BY <1>5 DEF TierTurn, TierMain, ServeConnected, ServeUnconnected, ServeThrows, TierEnd,
              Serving, At
<1>6. CASE \E c \in Consoles : TypeLine(c) \/ Receive(c)
  <2>1. budget.words \subseteq Commands
    BY BudgetsAssumption
  <2> QED
    BY <1>6, <2>1 DEF TypeLine, Receive
<1>7. CASE PeerCalls
  BY <1>7 DEF PeerCalls, Call
<1>8. CASE PeerSends
  BY <1>8 DEF PeerSends, Mail
<1>9. CASE PeerLearned
  BY <1>9 DEF PeerLearned, Learn
<1>10. CASE \E m \in Meters : MeterSends(m)
  BY <1>10 DEF MeterSends
<1>11. CASE TimePasses \/ DeviceCallsBack
  BY <1>11 DEF TimePasses, DeviceCallsBack, Tick, Callback
<1> QED
  BY <1>1, <1>2, <1>3, <1>4, <1>5, <1>6, <1>7, <1>8, <1>9, <1>10, <1>11
     DEF NodeNext, Main, Others

LEMMA ConsoleStart == NodeInit => ConsoleInv
<1> SUFFICES ASSUME NodeInit
             PROVE  ConsoleInv
  OBVIOUS
<1>1. <<>> \in Seq(Char) /\ <<>> \in Seq(Commands)
  OBVIOUS
<1>2. ConsoleInit(budget.clients)
  BY DEF NodeInit
<1>3. StreamsTyped
  BY <1>1, <1>2 DEF ConsoleInit, StreamsTyped
<1>4. Lines(<<>>) = <<>>
  <2>1. LinesFor(<<>>) \in Seq(Seq(Char)) /\ Len(LinesFor(<<>>)) = 0
    BY <1>1, LinesType
  <2>2. LinesFor(<<>>) = <<>>
    BY <2>1, EmptySeq
  <2> QED
    BY <2>2, FlattenEmpty DEF Lines
<1>5. ASSUME NEW c \in Consoles
      PROVE  Waiting(c, <<>>) /\ EndsOnce(c)
  <2>1. input[c] = <<>> /\ recv[c] = <<>> /\ wire[c] = <<>> /\ typed[c] = <<>> /\ ran[c] = <<>>
    BY <1>2 DEF ConsoleInit
  <2>2. ~Newline(input[c])
    BY <2>1 DEF Newline, Contains
  <2> QED
    BY <1>1, <1>4, <2>1, <2>2 DEF Waiting, EndsOnce
<1> QED
  BY <1>3, <1>5 DEF ConsoleInv

\* What leaves the streams alone.
LEMMA StreamsStay ==
  ASSUME ConsoleInv, UNCHANGED <<streams, hist>>,
         \/ \A c \in Consoles \ ahead : ~Newline(input[c])
         \/ UNCHANGED <<pc, each>>
  PROVE  ConsoleInv'
<1>1. UNCHANGED <<wire, recv, input, typed, ran, ahead>>
  BY DEF streams, hist
<1>2. ASSUME NEW c \in Consoles \ ahead
      PROVE  (\E r : Waiting(c, r)') /\ EndsOnce(c)'
  <2>1. PICK r : Waiting(c, r)
    BY DEF ConsoleInv
  <2>2. Waiting(c, r)'
    BY <1>1, <2>1 DEF Waiting
  <2>3. EndsOnce(c)
    BY DEF ConsoleInv
  <2>4. EndsOnce(c)'
    BY <1>1, <2>3 DEF EndsOnce, Current
  <2> QED
    BY <2>2, <2>4
<1> QED
  BY <1>1, <1>2 DEF ConsoleInv, StreamsTyped

\* A new line of d.
LEMMA TypeKeeps ==
  ASSUME ConsoleInv, NEW d \in Consoles, NEW k \in Commands, Type(d, k)
  PROVE  ConsoleInv'
<1>1. /\ wire' = [wire EXCEPT ![d] = @ \o Line(k)]
      /\ typed' = [typed EXCEPT ![d] = Append(@, k)]
      /\ UNCHANGED <<pc, each, recv, input, ran, ahead>>
  BY DEF Type, server
<1>2. StreamsTyped /\ Line(k) \in Seq(Char)
  BY LineType DEF ConsoleInv
<1>3. StreamsTyped'
  <2>1. wire[d] \o Line(k) \in Seq(Char)
    BY <1>2, ConcatLength DEF StreamsTyped
  <2>2. Append(typed[d], k) \in Seq(Commands)
    BY <1>2, AppendProperties DEF StreamsTyped
  <2> QED
    BY <1>1, <1>2, <2>1, <2>2 DEF StreamsTyped
<1>4. ASSUME NEW c \in Consoles \ ahead
      PROVE  (\E r : Waiting(c, r)') /\ EndsOnce(c)'
  <2>1. PICK r : Waiting(c, r)
    BY DEF ConsoleInv
  <2>2. EndsOnce(c)
    BY DEF ConsoleInv
  <2>3. EndsOnce(c)'
    BY <1>1, <2>2 DEF EndsOnce, Current
  <2>4. CASE c # d
    <3>1. wire'[c] = wire[c] /\ typed'[c] = typed[c]
      BY <1>1, <1>2, <2>4 DEF StreamsTyped
    <3>2. Waiting(c, r)'
      BY <1>1, <2>1, <3>1 DEF Waiting
    <3> QED
      BY <2>3, <3>2
  <2>5. CASE c = d
    <3> DEFINE q == Append(r, k)
    <3>1. wire'[c] = wire[c] \o Line(k) /\ typed'[c] = Append(typed[c], k)
      BY <1>1, <1>2, <2>5 DEF StreamsTyped
    <3>2. r \in Seq(Commands) /\ q \in Seq(Commands) /\ ran[c] \in Seq(Commands)
      BY <1>2, <2>1, AppendProperties DEF Waiting, StreamsTyped
    <3>3. Append(ran[c] \o r, k) = ran[c] \o q
      <4> DEFINE s == ran[c]
      <4>1. s \in Seq(Commands) /\ r \in Seq(Commands)
        BY <3>2
      <4> HIDE DEF s
      <4>2. Append(s \o r, k) = s \o Append(r, k)
        BY <4>1
      <4> QED
        BY <4>2 DEF s
    <3>4. Lines(q) = Lines(r) \o Line(k)
      BY <3>2, LinesAppend
    <3>5. input[c] \in Seq(Char) /\ recv[c] \in Seq(Char) /\ wire[c] \in Seq(Char)
      BY <1>2 DEF StreamsTyped
    <3>6. (input[c] \o recv[c] \o wire[c]) \o Line(k) = input[c] \o recv[c] \o (wire[c] \o Line(k))
      <4> DEFINE a == input[c] \o recv[c]
                 b == wire[c]
                 l == Line(k)
      <4>1. a \in Seq(Char) /\ b \in Seq(Char) /\ l \in Seq(Char)
        BY <1>2, <3>5, ConcatLength
      <4> HIDE DEF a, b, l
      <4>2. (a \o b) \o l = a \o (b \o l)
        BY <4>1, ConcatAssociative
      <4> QED
        BY <4>2 DEF a, b, l
    <3> HIDE DEF q
    <3>7. Waiting(c, q)'
      BY <1>1, <2>1, <3>1, <3>2, <3>3, <3>4, <3>6 DEF Waiting
    <3> QED
      BY <2>3, <3>7
  <2> QED
    BY <2>4, <2>5
<1> QED
  BY <1>1, <1>3, <1>4 DEF ConsoleInv

\* Bytes that go from a to b in two sequences side by side.
HandedOver(S, a, b, n) ==
  /\ a \o SubSeq(b, 1, n) \in Seq(S) /\ SubSeq(b, n + 1, Len(b)) \in Seq(S)
  /\ (a \o SubSeq(b, 1, n)) \o SubSeq(b, n + 1, Len(b)) = a \o b

\* They stay the same bytes.
LEMMA Handover ==
  ASSUME NEW S, NEW a \in ListsOf(S), NEW b \in ListsOf(S), NEW n \in 1 .. Len(b)
  PROVE  HandedOver(S, a, b, n)
<1> DEFINE u == SubSeq(b, 1, n)
           v == SubSeq(b, n + 1, Len(b))
<1>0. a \in Seq(S) /\ b \in Seq(S)
  BY DEF ListsOf
<1>1. u \in Seq(S) /\ v \in Seq(S) /\ u \o v = b
  BY <1>0
<1> HIDE DEF u, v
<1>2. a \o u \in Seq(S) /\ a \in ListsOf(S) /\ u \in ListsOf(S) /\ v \in ListsOf(S)
  BY <1>0, <1>1, ConcatLength DEF ListsOf
<1>3. Cat(Cat(a, u), v) = Cat(a, Cat(u, v))
  BY ONLY <1>2, Associate
<1>4. Cat(u, v) = b
  BY ONLY <1>1, Zenon DEF Cat
<1>5. Cat(Cat(a, u), v) = Cat(a, b)
  BY ONLY <1>3, <1>4
<1>6. (a \o u) \o v = a \o b
  BY ONLY <1>5, Zenon DEF Cat
<1> QED
  BY ONLY <1>1, <1>2, <1>6, Zenon DEF HandedOver, u, v

\* The recv thread of d.
LEMMA RecvKeeps ==
  ASSUME ConsoleInv, NEW d \in Consoles, RecvThread(d)
  PROVE  ConsoleInv'
<1>1. PICK n \in 1 .. Len(wire[d]) :
        /\ recv' = [recv EXCEPT ![d] = @ \o SubSeq(wire[d], 1, n)]
        /\ wire' = [wire EXCEPT ![d] = SubSeq(@, n + 1, Len(@))]
  BY DEF RecvThread
<1>2. UNCHANGED <<pc, each, input, typed, ran, ahead>>
  BY DEF RecvThread, server, hist
<1>3. StreamsTyped
  BY DEF ConsoleInv
<1>4. recv[d] \in Seq(Char) /\ wire[d] \in Seq(Char)
  BY <1>3 DEF StreamsTyped
<1>5. /\ recv[d] \o SubSeq(wire[d], 1, n) \in Seq(Char)
      /\ SubSeq(wire[d], n + 1, Len(wire[d])) \in Seq(Char)
      /\ (recv[d] \o SubSeq(wire[d], 1, n)) \o SubSeq(wire[d], n + 1, Len(wire[d]))
           = recv[d] \o wire[d]
  <2> DEFINE a == recv[d]
             b == wire[d]
  <2>1. a \in ListsOf(Char) /\ b \in ListsOf(Char) /\ n \in 1 .. Len(b)
    BY <1>4 DEF ListsOf
  <2> HIDE DEF a, b
  <2>2. HandedOver(Char, a, b, n)
    BY ONLY <2>1, Handover
  <2> QED
    BY ONLY <2>2, Zenon DEF HandedOver, a, b
<1>6. StreamsTyped'
  BY <1>1, <1>2, <1>3, <1>5 DEF StreamsTyped
<1>7. \A c \in Consoles : recv'[c] \o wire'[c] = recv[c] \o wire[c]
  BY <1>1, <1>3, <1>5 DEF StreamsTyped
<1>8. ASSUME NEW c \in Consoles \ ahead
      PROVE  (\E r : Waiting(c, r)') /\ EndsOnce(c)'
  <2>1. PICK r : Waiting(c, r)
    BY DEF ConsoleInv
  <2>2. EndsOnce(c)
    BY DEF ConsoleInv
  <2>3. EndsOnce(c)'
    BY <1>2, <2>2 DEF EndsOnce, Current
  <2>4. input[c] \o recv'[c] \o wire'[c] = input[c] \o recv[c] \o wire[c]
    <3> DEFINE a == input[c]
               b == recv[c]
               w == wire[c]
               x == recv'[c]
               y == wire'[c]
    <3>1. /\ a \in Seq(Char) /\ b \in Seq(Char) /\ w \in Seq(Char)
          /\ x \in Seq(Char) /\ y \in Seq(Char)
      BY <1>3, <1>6 DEF StreamsTyped
    <3>2. x \o y = b \o w
      BY <1>7
    <3> HIDE DEF a, b, w, x, y
    <3>3. /\ a \in ListsOf(Char) /\ b \in ListsOf(Char) /\ w \in ListsOf(Char)
          /\ x \in ListsOf(Char) /\ y \in ListsOf(Char)
      BY <3>1 DEF ListsOf
    <3>4. Cat(Cat(a, x), y) = Cat(a, Cat(x, y)) /\ Cat(Cat(a, b), w) = Cat(a, Cat(b, w))
      BY ONLY <3>3, Associate
    <3>6. Cat(x, y) = Cat(b, w)
      BY ONLY <3>2, Zenon DEF Cat
    <3>7. Cat(Cat(a, x), y) = Cat(Cat(a, b), w)
      BY ONLY <3>4, <3>6
    <3>5. (a \o x) \o y = (a \o b) \o w
      BY ONLY <3>7, Zenon DEF Cat
    <3> QED
      BY <3>5 DEF a, b, w, x, y
  <2>6. Waiting(c, r)'
    BY <1>2, <2>1, <2>4 DEF Waiting
  <2> QED
    BY <2>3, <2>6
<1> QED
  BY <1>2, <1>6, <1>8 DEF ConsoleInv

\* run takes what has been received.
LEMMA TakeKeeps ==
  ASSUME ConsoleInv, TakeInput
  PROVE  ConsoleInv'
<1> DEFINE d == Current
<1>1. /\ pc = "each" /\ pc' = "lines"
      /\ input' = [input EXCEPT ![d] = @ \o recv[d]]
      /\ recv' = [recv EXCEPT ![d] = <<>>]
      /\ ahead' = IF Newline(input'[d]) /\ LineEnd(input'[d]) < Len(input'[d])
                  THEN ahead \cup {d} ELSE ahead
      /\ UNCHANGED <<each, wire, typed, ran>>
  BY DEF TakeInput, Looping, At, Goto
<1>2. StreamsTyped
  BY DEF ConsoleInv
<1>3. Current' = d
  BY <1>1 DEF Current
<1> HIDE DEF d
<1>4. StreamsTyped'
  <2>1. d \in Consoles => input[d] \o recv[d] \in Seq(Char)
    BY <1>2, ConcatLength DEF StreamsTyped
  <2>2. <<>> \in Seq(Char)
    OBVIOUS
  <2> QED
    BY <1>1, <1>2, <2>1, <2>2 DEF StreamsTyped
<1>5. ASSUME NEW c \in Consoles \ ahead'
      PROVE  (\E r : Waiting(c, r)') /\ EndsOnce(c)'
  <2>1. c \in Consoles \ ahead
    BY <1>1
  <2>2. PICK r : Waiting(c, r)
    BY <2>1 DEF ConsoleInv
  <2>3. ~Newline(input[c])
    BY <1>1, <2>1 DEF ConsoleInv, EndsOnce
  <2>4. CASE c # d
    <3>1. input'[c] = input[c] /\ recv'[c] = recv[c]
      BY <1>1, <1>2, <2>4 DEF StreamsTyped
    <3>2. Waiting(c, r)'
      BY <1>1, <2>2, <3>1 DEF Waiting
    <3>3. EndsOnce(c)'
      BY <2>3, <3>1 DEF EndsOnce
    <3> QED
      BY <3>2, <3>3
  <2>5. CASE c = d
    <3>1. input'[c] = input[c] \o recv[c] /\ recv'[c] = <<>>
      BY <1>1, <1>2, <2>5 DEF StreamsTyped
    <3>2. input'[c] \in Seq(Char)
      BY <1>4 DEF StreamsTyped
    <3>3. input'[c] \o recv'[c] = input[c] \o recv[c]
      <4> DEFINE a == input'[c]
      <4>1. a \in Seq(Char)
        BY <3>2
      <4> HIDE DEF a
      <4>2. a \o <<>> = a
        BY <4>1
      <4> QED
        BY <3>1, <4>2 DEF a
    <3>4. Waiting(c, r)'
      BY <1>1, <2>2, <3>3 DEF Waiting
    <3>5. EndsOnce(c)'
      <4> SUFFICES ASSUME Newline(input'[c])
                   PROVE  pc' = "lines" /\ c = Current' /\ LineEnd(input'[c]) = Len(input'[c])
        BY DEF EndsOnce
      <4>1. LineEnd(input'[c]) \in 1 .. Len(input'[c]) /\ Len(input'[c]) \in Nat
        BY <3>2, LineEndFirst, LenProperties
      <4>2. ~ (LineEnd(input'[c]) < Len(input'[c]))
        BY <1>1, <2>5
      <4> QED
        BY <1>1, <1>3, <2>5, <4>1, <4>2
    <3> QED
      BY <3>4, <3>5
  <2> QED
    BY <2>4, <2>5
<1> QED
  BY <1>1, <1>4, <1>5 DEF ConsoleInv

\* The console runs the line that is there, and the command is the next one.
LEMMA LineRun ==
  ASSUME ConsoleInv, HasLine, Current \in Consoles \ ahead, NEW r, Waiting(Current, r)
  PROVE  \E k \in Commands, q \in Seq(Commands) :
           /\ Command = <<k>> /\ Left(input[Current]) = <<>>
           /\ typed[Current] = Append(ran[Current], k) \o q
           /\ recv[Current] \o wire[Current] = Lines(q)
<1> DEFINE c == Current
           s == input[c]
           t == recv[c] \o wire[c]
           k == Head(r)
           q == Tail(r)
<1>1. /\ s \in Seq(Char) /\ recv[c] \in Seq(Char) /\ wire[c] \in Seq(Char)
      /\ ran[c] \in Seq(Commands)
  BY DEF ConsoleInv, StreamsTyped
<1>2. t \in Seq(Char)
  BY <1>1, ConcatLength
<1>3. r \in Seq(Commands) /\ typed[c] = ran[c] \o r /\ s \o recv[c] \o wire[c] = Lines(r)
  BY DEF Waiting
<1>4. s \o t = Lines(r)
  <2> DEFINE a == recv[c]
             b == wire[c]
  <2>1. s \in Seq(Char) /\ a \in Seq(Char) /\ b \in Seq(Char)
    BY <1>1
  <2> HIDE DEF s, a, b
  <2>2. (s \o a) \o b = s \o (a \o b)
    BY <2>1, ConcatAssociative
  <2> QED
    BY <1>3, <2>2 DEF a, b
<1>5. Newline(s) /\ LineEnd(s) = Len(s)
  BY DEF HasLine, ConsoleInv, EndsOnce
<1>6. Command = Word(SubSeq(s, 1, LineEnd(s) - 1))
  BY DEF Command
<1> HIDE DEF c, s, t
<1>7. r # <<>>
  <2> SUFFICES ASSUME r = <<>>
               PROVE  FALSE
    OBVIOUS
  <2>1. LinesFor(<<>>) = <<>>
    <3>1. LinesFor(<<>>) \in Seq(Seq(Char)) /\ Len(LinesFor(<<>>)) = 0
      BY <1>3, LinesType
    <3> QED
      BY <3>1, EmptySeq
  <2>2. s \o t = <<>>
    BY <1>4, <2>1, FlattenEmpty DEF Lines
  <2>3. Len(s \o t) = Len(s) + Len(t) /\ Len(s) \in Nat /\ Len(t) \in Nat
    BY <1>1, <1>2, ConcatLength
  <2>4. LineEnd(s) \in 1 .. Len(s)
    BY <1>1, <1>5, LineEndFirst
  <2> QED
    BY <2>2, <2>3, <2>4
<1>8. /\ k \in Commands /\ q \in Seq(Commands) /\ r = <<k>> \o q
      /\ Lines(r) = Line(k) \o Lines(q)
  BY <1>3, <1>7, LinesHead
<1> HIDE DEF k, q
<1>9. s = Line(k) /\ t = Lines(q)
  <2>1. Lines(q) \in Seq(Char)
    BY <1>8, LinesType
  <2>2. s \o t = Line(k) \o Lines(q)
    BY <1>4, <1>8
  <2> QED
    BY <1>1, <1>2, <1>5, <1>8, <2>1, <2>2, FirstLine
<1>10. Command = <<k>>
  BY <1>5, <1>6, <1>8, <1>9, CommandRead
<1>11. Left(s) = <<>>
  <2>1. LineEnd(s) = 3 /\ Len(s) = 3
    BY <1>5, <1>8, <1>9, LineType
  <2>2. SubSeq(s, 3, 3) = <<"\n">>
    BY <1>8, <1>9, CommandRead
  <2> QED
    BY <2>1, <2>2 DEF Left
<1>12. typed[c] = Append(ran[c], k) \o q
  <2> DEFINE a == ran[c]
  <2>1. a \in Seq(Commands) /\ k \in Commands /\ q \in Seq(Commands)
    BY <1>1, <1>8
  <2> HIDE DEF a
  <2> DEFINE m == <<k>>
  <2>2. m \in Seq(Commands) /\ Append(a, k) = a \o m
    BY <2>1
  <2>3. a \in ListsOf(Commands) /\ m \in ListsOf(Commands) /\ q \in ListsOf(Commands)
    BY <2>1, <2>2 DEF ListsOf
  <2> HIDE DEF m
  <2>4. Cat(Cat(a, m), q) = Cat(a, Cat(m, q))
    BY ONLY <2>3, Associate
  <2>5. a \o (m \o q) = (a \o m) \o q
    BY ONLY <2>4, Zenon DEF Cat
  <2> QED
    BY <1>3, <1>8, <2>2, <2>5 DEF a, m
<1> QED
  BY <1>8, <1>9, <1>10, <1>11, <1>12 DEF c, s, t

LEMMA ExecuteKeeps ==
  ASSUME ConsoleInv, Execute \/ ExecuteExit
  PROVE  ConsoleInv'
<1> DEFINE d == Current
           fits == Command # <<>> /\ Command[1] \in Commands
<1>1. /\ HasLine
      /\ input' = [input EXCEPT ![d] = Left(@)]
      /\ ran' = IF fits THEN [ran EXCEPT ![d] = Append(@, Command[1])] ELSE ran
      /\ UNCHANGED <<each, wire, recv, typed, ahead>>
  <2>1. CASE Execute
    BY <2>1 DEF Execute, server
  <2>2. CASE ExecuteExit
    BY <2>2, CommandsAssumption DEF ExecuteExit
  <2> QED
    BY <2>1, <2>2
<1>2. StreamsTyped /\ pc = "lines"
  BY <1>1 DEF ConsoleInv, HasLine, At
<1>3. StreamsTyped'
  <2>1. d \in Consoles => Left(input[d]) \in Seq(Char)
    <3> SUFFICES ASSUME d \in Consoles
                 PROVE  Left(input[d]) \in Seq(Char)
      OBVIOUS
    <3> DEFINE s == input[d]
    <3>1. s \in Seq(Char) /\ Newline(s)
      BY <1>1, <1>2 DEF StreamsTyped, HasLine
    <3> HIDE DEF s
    <3>2. LineEnd(s) \in 1 .. Len(s)
      BY <3>1, LineEndFirst
    <3>3. SubSeq(s, LineEnd(s), Len(s)) \in Seq(Char)
      BY <3>1, <3>2, LenProperties, SubSeqProperties
    <3> QED
      BY <3>3 DEF Left, s
  <2>2. d \in Consoles /\ fits => Append(ran[d], Command[1]) \in Seq(Commands)
    BY <1>2, AppendProperties DEF StreamsTyped
  <2> HIDE DEF d, fits
  <2> QED
    BY <1>1, <1>2, <2>1, <2>2 DEF StreamsTyped
<1>4. ASSUME NEW c \in Consoles \ ahead
      PROVE  (\E r : Waiting(c, r)') /\ EndsOnce(c)'
  <2>1. PICK r : Waiting(c, r)
    BY DEF ConsoleInv
  <2>2. CASE c # d
    <3>1. input'[c] = input[c] /\ ran'[c] = ran[c]
      BY <1>1, <1>2, <2>2 DEF StreamsTyped
    <3>2. Waiting(c, r)'
      BY <1>1, <2>1, <3>1 DEF Waiting
    <3>3. ~Newline(input[c])
      BY <2>2 DEF ConsoleInv, EndsOnce
    <3> QED
      BY <3>1, <3>2, <3>3 DEF EndsOnce
  <2>3. CASE c = d
    <3>1. PICK k \in Commands, q \in Seq(Commands) :
            /\ Command = <<k>> /\ Left(input[c]) = <<>>
            /\ typed[c] = Append(ran[c], k) \o q
            /\ recv[c] \o wire[c] = Lines(q)
      BY <1>1, <2>1, <2>3, LineRun
    <3>2. fits /\ Command[1] = k
      BY <3>1
    <3>3. input'[c] = <<>> /\ ran'[c] = Append(ran[c], k)
      BY <1>1, <1>2, <2>3, <3>1, <3>2 DEF StreamsTyped
    <3>4. <<>> \o recv[c] \o wire[c] = recv[c] \o wire[c]
      <4> DEFINE a == recv[c]
      <4>1. a \in Seq(Char)
        BY <1>2 DEF StreamsTyped
      <4> HIDE DEF a
      <4>2. <<>> \o a = a
        BY <4>1
      <4> QED
        BY <4>2 DEF a
    <3>5. Waiting(c, q)'
      BY <1>1, <3>1, <3>3, <3>4 DEF Waiting
    <3>6. EndsOnce(c)'
      BY <3>3 DEF EndsOnce, Newline, Contains
    <3> QED
      BY <3>5, <3>6
  <2> QED
    BY <2>2, <2>3
<1> QED
  BY <1>1, <1>3, <1>4 DEF ConsoleInv

LEMMA ConsoleNext ==
  ASSUME ConsoleInv, budget \in Budgets, [NodeNext]_nodeVars
  PROVE  ConsoleInv'
<1>0. \A c \in Consoles \ ahead :
        Newline(input[c]) => pc = "lines" /\ c = Current
  BY DEF ConsoleInv, EndsOnce
<1>1. CASE Accept \/ AcceptThrows \/ AcceptNone \/ Reap \/ LoopEnd
  <2>1. pc # "lines"
    BY <1>1 DEF Accept, AcceptThrows, AcceptNone, Reap, LoopEnd, Looping, At
  <2>2. UNCHANGED <<streams, hist>>
    BY <1>1 DEF Accept, AcceptThrows, AcceptNone, Reap, LoopEnd, consoleVars
  <2> QED
    BY <1>0, <2>1, <2>2, StreamsStay
<1>2. CASE RunEnd
  <2>1. ~Newline(input[Current]) /\ UNCHANGED <<streams, hist>>
    BY <1>2 DEF RunEnd
  <2> QED
    BY <1>0, <2>1, StreamsStay
<1>3. CASE Elsewhere
  <2>1. UNCHANGED <<streams, hist, each>> /\ (pc # "lines" \/ UNCHANGED pc)
    BY <1>3 DEF Elsewhere, consoleVars, server
  <2> QED
    BY <1>0, <2>1, StreamsStay
<1>4. CASE TakeInput
  BY <1>4, TakeKeeps
<1>5. CASE Execute \/ ExecuteExit
  BY <1>5, ExecuteKeeps
<1>6. CASE \E c \in Consoles : (\E k \in Commands : Type(c, k)) \/ RecvThread(c)
  BY <1>6, TypeKeeps, RecvKeeps
<1> QED
  BY <1>1, <1>2, <1>3, <1>4, <1>5, <1>6, ConsoleStep DEF ConsoleMain

\* However the bytes are cut on their way, whatever fails and whatever else the
\* node does: a console runs the commands its client has typed, in order and
\* each of them once (console_t::run, execute), as long as the client waits for
\* a line to be run before it goes on typing.
THEOREM NodeCommandsKept == Spec => []CommandsKept
<1>1. NodeInit => ConsoleInv /\ budget \in Budgets
  BY ConsoleStart DEF NodeInit
<1>2. ConsoleInv /\ budget \in Budgets /\ [NodeNext]_nodeVars
        => ConsoleInv' /\ (budget \in Budgets)'
  <2>1. budget \in Budgets /\ [NodeNext]_nodeVars => UNCHANGED budget
    BY NodeStep
  <2> QED
    BY <2>1, ConsoleNext
<1>3. ConsoleInv => CommandsKept
  BY ConsoleInvKept
<1> QED
  BY <1>1, <1>2, <1>3, PTL DEF Spec

(***************************************************************************)
(* The TV of the node.                                                     *)
(***************************************************************************)

\* How many samples were sent is a number.
LEMMA SentType ==
  ASSUME RecorderTyped
  PROVE  Sent \in Nat
<1> DEFINE Lines8(s) == Len(s) \div LineLength
           S == DOMAIN flight
           c == [s \in SUBSET S |-> CHOOSE x \in s : TRUE]
           D == [m \in S |-> [n \in Nat |-> Lines8(flight[m]) + n]]
           Eq(g) == g = [s \in SUBSET S |->
                           IF s = {} THEN 0
                           ELSE (Len(flight[CHOOSE x \in s : TRUE]) \div LineLength)
                                  + g[s \ {CHOOSE x \in s : TRUE}]]
           it == CHOOSE g : Eq(g)
<1>1. Sent = Len(entered) + it[S]
  BY DEF Sent, FoldFunction, FoldFunctionOnSet, MapThenFoldSet
<1>2. S = Meters /\ IsFiniteSet(S)
  BY RecorderAssumption DEF RecorderTyped
<1>3. \A s \in SUBSET S : s # {} => c[s] \in s
  OBVIOUS
<1>4. \A m \in S : Lines8(flight[m]) \in Nat
  <2> SUFFICES ASSUME NEW m \in S PROVE Lines8(flight[m]) \in Nat
    OBVIOUS
  <2>1. flight[m] \in Seq(Int)
    BY <1>2 DEF RecorderTyped
  <2>2. Len(flight[m]) \in Nat
    BY <2>1
  <2> QED
    BY <2>2 DEF LineLength
<1>5. D \in [S -> [Nat -> Nat]]
  <2> HIDE DEF Lines8
  <2> QED
    BY <1>4
<1>6. PICK g \in [SUBSET S -> Nat] : TakesOut(g, S, c, 0, D)
  <2> DEFINE A == Nat
             a == 0
  <2>1. IsFiniteSet(S) /\ a \in A /\ D \in [S -> [A -> A]]
    BY <1>2, <1>5
  <2> HIDE DEF c, D, S, A, a
  <2>2. \E g \in [SUBSET S -> A] : TakesOut(g, S, c, a, D)
    BY ONLY <1>3, <2>1, SubsetRecursion
  <2> QED
    BY <2>2 DEF A, a
<1>7. Eq(g)
  <2>1. ASSUME NEW s \in SUBSET S
        PROVE  g[s] = IF s = {} THEN 0
                      ELSE (Len(flight[CHOOSE x \in s : TRUE]) \div LineLength)
                             + g[s \ {CHOOSE x \in s : TRUE}]
    <3> DEFINE x0 == CHOOSE x \in s : TRUE
    <3>1. s # {} => x0 \in S /\ g[s \ {x0}] \in Nat /\ c[s] = x0
      OBVIOUS
    <3>2. g[s] = IF s = {} THEN 0 ELSE D[c[s]][g[s \ {c[s]}]]
      BY <1>6 DEF TakesOut
    <3> HIDE DEF x0, c
    <3>3. g[s] = IF s = {} THEN 0 ELSE (Len(flight[x0]) \div LineLength) + g[s \ {x0}]
      BY <3>1, <3>2
    <3> QED
      BY <3>3 DEF x0
  <2> QED
    BY <2>1
<1>8. Eq(it)
  <2> HIDE DEF Eq
  <2> QED
    BY <1>7
<1> DEFINE T == {s \in SUBSET S : it[s] \in Nat}
<1>9. {} \in T
  <2>1. it[{}] = 0
    BY <1>8
  <2> HIDE DEF it
  <2> QED
    BY <2>1
<1>10. ASSUME NEW s \in SUBSET S, s # {}, s \ {CHOOSE x \in s : TRUE} \in T
       PROVE  s \in T
  <2> DEFINE x0 == CHOOSE x \in s : TRUE
  <2>1. x0 \in S
    BY <1>10
  <2>2. it[s] = Lines8(flight[x0]) + it[s \ {x0}]
    BY <1>8, <1>10
  <2>3. it[s \ {x0}] \in Nat
    BY <1>10
  <2>4. Lines8(flight[x0]) \in Nat
    BY <1>4, <2>1
  <2> HIDE DEF it, x0, Lines8
  <2> QED
    BY <2>2, <2>3, <2>4
<1> HIDE DEF it, Eq
<1>11. S \in T
  <2> DEFINE U == {n \in Nat : \A s \in SUBSET S : Cardinality(s) = n => s \in T}
  <2>1. 0 \in U
    <3>1. \A s \in SUBSET S : Cardinality(s) = 0 => s = {}
      BY <1>2, FS_Subset, FS_EmptySet
    <3> HIDE DEF T
    <3> QED
      BY <1>9, <3>1
  <2>2. ASSUME NEW n \in Nat, n \in U PROVE n + 1 \in U
    <3> SUFFICES ASSUME NEW s \in SUBSET S, Cardinality(s) = n + 1 PROVE s \in T
      OBVIOUS
    <3>1. IsFiniteSet(s)
      BY <1>2, FS_Subset
    <3>2. s # {}
      BY <3>1, FS_EmptySet
    <3> DEFINE x0 == CHOOSE x \in s : TRUE
    <3>3. x0 \in s
      BY <3>2
    <3>4. Cardinality(s \ {x0}) = n /\ s \ {x0} \in SUBSET S
      <4>1. Cardinality(s \ {x0}) = Cardinality(s) - 1
        <5> HIDE DEF x0
        <5> QED
          BY <3>1, <3>3, FS_RemoveElement
      <4> QED
        BY <4>1
    <3>5. s \ {x0} \in T
      <4> HIDE DEF T, x0
      <4> QED
        BY <2>2, <3>4
    <3> QED
      BY <1>10, <3>2, <3>5
  <2> HIDE DEF U
  <2>3. Nat \subseteq U
    BY <2>1, <2>2, NumberInduction
  <2>4. Cardinality(S) \in U
    BY <1>2, <2>3, FS_CardinalityType
  <2> QED
    BY <2>4 DEF U
<1>12. it[S] \in Nat
  BY <1>11
<1>13. Len(entered) \in Nat
  BY DEF RecorderTyped
<1> HIDE DEF S
<1> QED
  BY <1>1, <1>12, <1>13

\* A pull takes what is there.
LEMMA PartsTaken ==
  ASSUME RecorderTyped, NEW taken \in Parts
  PROVE  Takes(taken)
<1>1. \A m \in Meters : Len(flight[m]) \in Nat
  <2> SUFFICES ASSUME NEW m \in Meters PROVE Len(flight[m]) \in Nat
    OBVIOUS
  <2>1. flight[m] \in Seq(Int)
    BY DEF RecorderTyped
  <2> QED
    BY <2>1
<1>2. CASE budget.tear /\ ~torn
  <2>1. /\ taken \in [Meters -> UNION {0..All[m] : m \in Meters}]
        /\ \A m \in Meters : taken[m] <= All[m]
    BY <1>2 DEF Parts
  <2>2. \A m \in Meters : taken[m] \in Nat
    <3> SUFFICES ASSUME NEW m \in Meters PROVE taken[m] \in Nat
      OBVIOUS
    <3>1. PICK d \in Meters : taken[m] \in 0..All[d]
      BY <2>1
    <3>2. All[d] \in Nat
      BY <1>1 DEF All
    <3> QED
      BY <3>1, <3>2
  <2>3. taken \in [Meters -> Nat]
    BY <2>1, <2>2
  <2> QED
    BY <2>1, <2>3 DEF Takes, Taken, All
<1>3. CASE ~ (budget.tear /\ ~torn)
  <2>1. taken = All
    BY <1>3 DEF Parts
  <2>2. taken \in [Meters -> Nat]
    BY <1>1, <2>1 DEF All
  <2>3. \A m \in Meters : taken[m] <= Len(flight[m])
    BY <1>1, <2>1 DEF All
  <2> QED
    BY <2>2, <2>3 DEF Takes, Taken
<1> QED
  BY <1>2, <1>3

\* Every step of the node keeps the station in order.
LEMMA StationNext ==
  ASSUME StationInv, [NodeNext]_nodeVars
  PROVE  StationInv'
<1>0. pc # "tv" => windowAt = 1
  BY DEF StationInv, WindowsInv
<1>1. CASE UNCHANGED nodeVars
  BY <1>0, <1>1, StationSame DEF nodeVars
<1>2. CASE TvTurn
  <2>1. CASE TvMain
    BY <2>1, NothingKeeps, OutwardKeeps, ThrowsKeeps, TvEndKeeps DEF TvMain
  <2>2. CASE Record
    <3>1. PICK taken \in Parts : Inward(taken)
      BY <2>2 DEF Record
    <3>2. Takes(taken)
      BY PartsTaken DEF StationInv
    <3> QED
      BY <3>1, <3>2, InwardKeeps
  <2> QED
    BY <1>2, <2>1, <2>2 DEF TvTurn
<1>3. CASE NetTurn
  <2>1. pc # "tv"
    BY <1>3 DEF NetTurn, PeersMain, NetInterfaceLoop, AcceptConnection, BindPeer, BindEnd, At
  <2> QED
    BY <1>0, <1>3, <2>1, StationSame DEF NetTurn
<1>4. CASE ConsoleTurn
  <2>1. pc # "tv"
    BY <1>4 DEF ConsoleTurn, ConsoleMain, Accept, AcceptThrows, AcceptNone, Reap, TakeInput,
                ExecuteExit, RunEnd, LoopEnd, Looping, HasLine, At
  <2> QED
    BY <1>0, <1>4, <2>1, StationSame DEF ConsoleTurn
<1>5. CASE CommandTurn
  <2>1. pc = "lines" /\ pc' = pc /\ TvCommand(Command)
    BY <1>5 DEF CommandTurn, Execute, HasLine, At
  <2>2. windowAt = 1
    BY <1>0, <2>1
  <2> QED
    BY <2>1, <2>2, CommandKeeps
<1>6. CASE TierTurn
  <2>1. pc # "tv"
    BY <1>6 DEF TierTurn, TierMain, ServeConnected, ServeUnconnected, ServeThrows, TierEnd,
                Serving, At
  <2> QED
    BY <1>0, <1>6, <2>1, StationSame DEF TierTurn
<1>7. CASE \E c \in Consoles : TypeLine(c) \/ Receive(c)
  <2>1. pc' = pc /\ UNCHANGED stationVars
    BY <1>7 DEF TypeLine, Receive, Type, RecvThread
  <2> QED
    BY <1>0, <2>1, StationSame
<1>8. CASE PeerCalls \/ PeerSends \/ PeerLearned
  <2>1. pc' = pc /\ UNCHANGED stationVars
    BY <1>8 DEF PeerCalls, PeerSends, PeerLearned, Call, Mail, Learn
  <2> QED
    BY <1>0, <2>1, StationSame
<1>9. CASE \E m \in Meters : MeterSends(m)
  <2>1. PICK m \in Meters : MeterSends(m)
    BY <1>9
  <2> DEFINE s == [value |-> Sent + 1, time |-> now]
  <2>2. Measure(m, s) /\ UNCHANGED <<pc, tvVars>>
    BY <2>1 DEF MeterSends
  <2>3. s \in SampleSet
    <3>1. Sent \in Nat /\ now \in Nat
      BY SentType DEF StationInv, SoundTyped
    <3> HIDE DEF Sent
    <3>2. Sent + 1 \in Nat
      BY <3>1
    <3> QED
      BY <3>1, <3>2 DEF SampleSet
  <2> HIDE DEF s
  <2> QED
    BY <2>2, <2>3, MeasureStationKeeps
<1>10. CASE TimePasses
  BY <1>10, TickKeeps DEF TimePasses
<1>11. CASE DeviceCallsBack
  BY <1>11, CallbackKeeps DEF DeviceCallsBack
<1> QED
  BY <1>1, <1>2, <1>3, <1>4, <1>5, <1>6, <1>7, <1>8, <1>9, <1>10, <1>11
     DEF NodeNext, Main, Others

\* The node begins with a station in order.
LEMMA StationStart == NodeInit => StationInv
BY StationBegins DEF NodeInit

\* The station is in order in every state of the node.
LEMMA StationAlways == Spec => []StationInv
<1>1. StationInv /\ [NodeNext]_nodeVars => StationInv'
  BY StationNext
<1> QED
  BY <1>1, StationStart, PTL DEF Spec

(***************************************************************************)
(* The loop over the consoles.                                             *)
(***************************************************************************)

\* The loop over the consoles, by kind; a line is only run on a live one.
LoopTyped ==
  /\ pc \in Places
  /\ waiting \in Seq(Consoles) /\ objects \in Seq(Consoles) /\ each.list \in Seq(Consoles)
  /\ each = [list |-> each.list, at |-> each.at]
  /\ each.at \in 1 .. Len(each.list) + 1
  /\ alive \subseteq ToSet(objects) /\ ahead \subseteq Consoles
  /\ pc = "lines" => each.at <= Len(each.list) /\ Current \in alive

\* The loop over the consoles begins in order.
LEMMA LoopStart == NodeInit => LoopTyped
<1> SUFFICES ASSUME NodeInit PROVE LoopTyped
  OBVIOUS
<1>1. /\ budget \in Budgets /\ waiting \in SetToSeqs(budget.clients) /\ pc = "tv"
      /\ objects = <<>> /\ each = [list |-> <<>>, at |-> 1] /\ alive = {} /\ ahead = {}
  BY DEF NodeInit, ConsoleInit, At
<1>2. waiting \in Seq(Consoles)
  <2> DEFINE s == budget.clients
             n == Cardinality(s)
  <2>1. s \subseteq Consoles /\ n \in Nat
    BY <1>1, BudgetsAssumption, FS_CardinalityType
  <2>2. waiting \in [1 .. n -> s]
    BY <1>1 DEF SetToSeqs
  <2> HIDE DEF s, n
  <2> QED
    BY <2>1, <2>2
<1>3. <<>> \in Seq(Consoles) /\ 1 \in 1 .. Len(<<>>) + 1
  OBVIOUS
<1> QED
  BY <1>1, <1>2, <1>3 DEF LoopTyped, Places

\* Steps of others leave the loop alone.
LEMMA LoopSame ==
  ASSUME LoopTyped, UNCHANGED server, ahead' \subseteq Consoles, pc' \in Places,
         pc' = "lines" => pc = "lines"
  PROVE  LoopTyped'
BY DEF LoopTyped, server, Current

\* Steps of the console keep it in order.
LEMMA LoopConsole ==
  ASSUME LoopTyped, ConsoleMain \/ Execute
  PROVE  LoopTyped'
<1>0. Places = {"tv", "net", "proto", "bind", "accept", "each", "lines", "tier"}
  BY DEF Places
<1>1. CASE AcceptNone
  <2>1. /\ UNCHANGED <<waiting, objects, alive, ahead>> /\ pc' = "each"
        /\ each' = [list |-> objects', at |-> 1]
    BY <1>1 DEF AcceptNone, StartLoop, Goto, hist
  <2>2. 1 \in 1 .. Len(objects) + 1
    BY LenProperties DEF LoopTyped
  <2> QED
    BY <1>0, <2>1, <2>2 DEF LoopTyped
<1>2. CASE Accept \/ AcceptThrows
  <2>1. waiting # <<>> /\ waiting' = Tail(waiting) /\ objects' = Append(objects, Head(waiting))
    BY <1>2 DEF Accept, AcceptThrows
  <2>2. waiting \in Seq(Consoles) /\ Head(waiting) \in Consoles /\ waiting' \in Seq(Consoles)
    BY <2>1 DEF LoopTyped
  <2>3. /\ objects' \in Seq(Consoles) /\ Len(objects') = Len(objects) + 1 /\ Len(objects) \in Nat
        /\ objects'[Len(objects) + 1] = Head(waiting)
        /\ \A i \in 1 .. Len(objects) : objects'[i] = objects[i]
    <3>1. objects \in Seq(Consoles)
      BY DEF LoopTyped
    <3> DEFINE h == Head(waiting)
    <3> HIDE DEF h
    <3>2. /\ Append(objects, h) \in Seq(Consoles) /\ Len(Append(objects, h)) = Len(objects) + 1
          /\ Append(objects, h)[Len(objects) + 1] = h
          /\ \A i \in DOMAIN objects : Append(objects, h)[i] = objects[i]
      BY <2>2, <3>1, AppendKeeps DEF h
    <3> QED
      BY <2>1, <3>1, <3>2, LenProperties DEF h
  <2>4. ToSet(objects) \cup {Head(waiting)} \subseteq ToSet(objects')
    <3>1. /\ ToSet(objects) = {objects[i] : i \in 1 .. Len(objects)}
          /\ ToSet(objects') = {objects'[i] : i \in 1 .. Len(objects')}
      BY <2>3, LenProperties DEF ToSet, LoopTyped
    <3> QED
      BY <2>3, <3>1
  <2>5. CASE Accept
    <3>1. /\ pc' = "each" /\ each' = [list |-> objects', at |-> 1]
          /\ alive' = alive \cup {Head(waiting)} /\ ahead' = ahead
      BY <2>5 DEF Accept, StartLoop, Goto, hist
    <3>2. 1 \in 1 .. Len(objects') + 1
      BY <2>3
    <3> QED
      BY <1>0, <2>2, <2>3, <2>4, <3>1, <3>2 DEF LoopTyped
  <2>6. CASE AcceptThrows
    <3>1. pc' = "tv" /\ UNCHANGED <<each, alive, ahead>>
      BY <2>6 DEF AcceptThrows, NextTurn, Goto, hist
    <3> QED
      BY <1>0, <2>2, <2>3, <2>4, <3>1 DEF LoopTyped
  <2> QED
    BY <1>2, <2>5, <2>6
<1>3. CASE Reap
  <2>1. /\ pc = "each" /\ pc' = pc /\ Current \notin alive
        /\ objects' = RemoveFirst(objects, Current) /\ UNCHANGED <<waiting, alive, ahead>>
        /\ each' = [each EXCEPT !.at = @ + 1] /\ each.at <= Len(each.list)
    BY <1>3 DEF Reap, Looping, At, Advance, hist
  <2>2. /\ objects' \in Seq(Consoles)
        /\ \A x \in ToSet(objects) : x # Current => x \in ToSet(objects')
    <3> DEFINE c == Current
    <3>1. objects \in Seq(Consoles)
      BY DEF LoopTyped
    <3> HIDE DEF c
    <3> QED
      BY <2>1, <3>1, RemoveFirstKeeps DEF c
  <2>3. /\ each' = [list |-> each.list, at |-> each.at + 1]
        /\ each.at + 1 \in 1 .. Len(each.list) + 1
    <3>1. each = [list |-> each.list, at |-> each.at] /\ each.at \in 1 .. Len(each.list) + 1
          /\ Len(each.list) \in Nat
      BY LenProperties DEF LoopTyped
    <3>2. each' = [list |-> each.list, at |-> each.at + 1]
      BY <2>1, <3>1
    <3> QED
      BY <2>1, <3>1, <3>2
  <2> QED
    BY <2>1, <2>2, <2>3 DEF LoopTyped
<1>4. CASE RunEnd
  <2>1. /\ pc = "lines" /\ pc' = "each" /\ UNCHANGED <<waiting, objects, alive, ahead>>
        /\ each' = [each EXCEPT !.at = @ + 1] /\ each.at <= Len(each.list)
    BY <1>4 DEF RunEnd, At, Goto, Advance, hist, LoopTyped
  <2>3. /\ each' = [list |-> each.list, at |-> each.at + 1]
        /\ each.at + 1 \in 1 .. Len(each.list) + 1
    <3>1. each = [list |-> each.list, at |-> each.at] /\ each.at \in 1 .. Len(each.list) + 1
          /\ Len(each.list) \in Nat
      BY LenProperties DEF LoopTyped
    <3>2. each' = [list |-> each.list, at |-> each.at + 1]
      BY <2>1, <3>1
    <3> QED
      BY <2>1, <3>1, <3>2
  <2> QED
    BY <1>0, <2>1, <2>3 DEF LoopTyped
<1>5. CASE TakeInput
  <2>1. /\ each.at <= Len(each.list) /\ Current \in alive /\ pc' = "lines"
        /\ UNCHANGED <<waiting, objects, each, alive>> /\ ahead' \subseteq ahead \cup {Current}
    BY <1>5 DEF TakeInput, Looping, Goto
  <2>2. Current \in Consoles
    <3>1. ToSet(objects) \subseteq Consoles
      BY DEF LoopTyped, ToSet
    <3> QED
      BY <2>1, <3>1 DEF LoopTyped
  <2> QED
    BY <1>0, <2>1, <2>2 DEF LoopTyped, Current
<1>6. CASE ExecuteExit
  <2>1. pc' = "tv" /\ alive' \subseteq alive /\ UNCHANGED <<waiting, objects, each, ahead>>
    BY <1>6 DEF ExecuteExit, NextTurn, Goto
  <2> QED
    BY <1>0, <2>1 DEF LoopTyped
<1>7. CASE LoopEnd
  <2>1. pc' = "tier" /\ UNCHANGED server /\ ahead' = ahead
    BY <1>7 DEF LoopEnd, Goto, consoleVars, hist
  <2> QED
    BY <1>0, <2>1, LoopSame DEF LoopTyped
<1>8. CASE Execute
  <2>1. pc' = pc /\ UNCHANGED server /\ ahead' = ahead
    BY <1>8 DEF Execute
  <2> QED
    BY <2>1, LoopSame DEF LoopTyped
<1> QED
  BY <1>1, <1>2, <1>3, <1>4, <1>5, <1>6, <1>7, <1>8 DEF ConsoleMain

\* The main thread stays in places there are.
LEMMA PlacesKept ==
  ASSUME pc \in Places, [NodeNext]_nodeVars
  PROVE  \/ ConsoleMain \/ Execute
         \/ pc' \in Places /\ (pc' = "lines" => pc = "lines")
<1>0. Places = {"tv", "net", "proto", "bind", "accept", "each", "lines", "tier"}
  BY DEF Places
<1>1. CASE UNCHANGED nodeVars
  BY <1>1 DEF nodeVars
<1>2. CASE TvTurn
  BY <1>0, <1>2 DEF TvTurn, TvMain, Record, Inward, OutwardNothing, Outward, OutwardThrows,
                    TvEnd, Showing, At, Goto, NextTurn
<1>3. CASE NetTurn
  BY <1>0, <1>3 DEF NetTurn, PeersMain, NetInterfaceLoop, AcceptConnection, BindPeer, BindEnd,
                    At, Goto, NextTurn, BindRefused, BindNoWay, BindUnconnected, BindConnected,
                    BindFails
<1>4. CASE ConsoleTurn \/ CommandTurn
  BY <1>4 DEF ConsoleTurn, CommandTurn
<1>5. CASE TierTurn
  BY <1>0, <1>5 DEF TierTurn, TierMain, ServeConnected, ServeUnconnected, ServeThrows, TierEnd,
                    Goto, NextTurn
<1>6. CASE Others
  <2>1. pc' = pc
    BY <1>6 DEF Others, TypeLine, Receive, Type, RecvThread, PeerCalls, Call, PeerSends, Mail,
                PeerLearned, Learn, MeterSends, TimePasses, Tick, DeviceCallsBack, Callback
  <2> QED
    BY <2>1
<1> QED
  BY <1>1, <1>2, <1>3, <1>4, <1>5, <1>6 DEF NodeNext, Main

\* Every step of the node keeps the loop in order.
LEMMA LoopNext ==
  ASSUME LoopTyped, budget \in Budgets, [NodeNext]_nodeVars
  PROVE  LoopTyped'
<1>1. CASE ConsoleMain \/ Execute
  BY <1>1, LoopConsole
<1>2. CASE \E c \in Consoles : (\E k \in Commands : Type(c, k)) \/ RecvThread(c)
  <2>1. pc' = pc /\ UNCHANGED server /\ ahead' = ahead
    BY <1>2 DEF Type, RecvThread, hist
  <2> QED
    BY <2>1, LoopSame DEF LoopTyped
<1>3. CASE Elsewhere
  <2>1. UNCHANGED server /\ ahead' = ahead
    BY <1>3 DEF Elsewhere, consoleVars, hist
  <2>2. CASE pc' \in Places /\ (pc' = "lines" => pc = "lines")
    BY <2>1, <2>2, LoopSame DEF LoopTyped
  <2> QED
    BY <1>1, <2>2, PlacesKept DEF LoopTyped
<1> QED
  BY <1>1, <1>2, <1>3, ConsoleStep

(***************************************************************************)
(* What the consoles ran.                                                  *)
(***************************************************************************)

\* No console ran k; one ran it just now.
NeverRan(k) == \A c \in Consoles : \A i \in DOMAIN ran[c] : ran[c][i] # k
OneMore(c, k) == ran' = [ran EXCEPT ![c] = Append(@, k)]

\* What has been run once now was run at most once before, and not at all if it
\* was run just now.
LEMMA OnceBefore ==
  ASSUME StreamsTyped, NEW c \in Consoles, NEW j \in Commands, OneMore(c, j), NEW k
  PROVE  /\ RanOnce(k)' => RanOnce(k) /\ (j = k => NeverRan(k))
         /\ NeverRan(k)' => NeverRan(k) /\ j # k
<1> DEFINE n == Len(ran[c])
<1>1. /\ ran \in [Consoles -> Seq(Commands)] /\ ran[c] \in Seq(Commands)
      /\ DOMAIN ran[c] = 1 .. n /\ n \in Nat
  BY LenProperties DEF StreamsTyped
<1>2. /\ DOMAIN Append(ran[c], j) = 1 .. n + 1 /\ Append(ran[c], j)[n + 1] = j
      /\ \A i \in DOMAIN ran[c] : Append(ran[c], j)[i] = ran[c][i]
  <2> DEFINE s == ran[c]
  <2>1. s \in Seq(Commands)
    BY <1>1
  <2> HIDE DEF s
  <2>2. /\ DOMAIN Append(s, j) = 1 .. Len(s) + 1 /\ Append(s, j)[Len(s) + 1] = j
        /\ \A i \in DOMAIN s : Append(s, j)[i] = s[i]
    BY <2>1, AppendKeeps
  <2> QED
    BY <2>2 DEF s
<1>3. ran'[c] = Append(ran[c], j) /\ \A d \in Consoles : d # c => ran'[d] = ran[d]
  BY <1>1 DEF OneMore
<1>4. /\ n + 1 \in DOMAIN ran'[c] /\ ran'[c][n + 1] = j /\ n + 1 \notin DOMAIN ran[c]
      /\ \A d \in Consoles : \A i \in DOMAIN ran[d] :
           i \in DOMAIN ran'[d] /\ ran'[d][i] = ran[d][i]
  <2>1. n + 1 \in 1 .. n + 1 /\ n + 1 \notin 1 .. n /\ \A i \in 1 .. n : i \in 1 .. n + 1
    BY <1>1
  <2> HIDE DEF n
  <2> QED
    BY <1>1, <1>2, <1>3, <2>1
<1> HIDE DEF n
<1>5. ASSUME RanOnce(k)'
      PROVE  RanOnce(k) /\ (j = k => NeverRan(k))
  <2>1. \A d, e \in Consoles : \A i \in DOMAIN ran'[d], l \in DOMAIN ran'[e] :
          ran'[d][i] = k /\ ran'[e][l] = k => d = e /\ i = l
    BY <1>5 DEF RanOnce
  <2>2. RanOnce(k)
    BY <1>4, <2>1 DEF RanOnce
  <2>3. ASSUME j = k, NEW d \in Consoles, NEW i \in DOMAIN ran[d], ran[d][i] = k
        PROVE  FALSE
    <3>1. d = c /\ i = n + 1
      BY <1>4, <2>1, <2>3
    <3> QED
      BY <1>4, <3>1
  <2> QED
    BY <2>2, <2>3 DEF NeverRan
<1>6. ASSUME NeverRan(k)'
      PROVE  NeverRan(k) /\ j # k
  BY <1>4, <1>6 DEF NeverRan
<1> QED
  BY <1>5, <1>6

\* A word of the TV manager that a console runs is one it has run from then on.
LEMMA CommandRan ==
  ASSUME StreamsTyped, LoopTyped, Execute, NEW k, Command = <<k>>, k \notin {"\r", "\n"}
  PROVE  Current \in Consoles /\ k \in Commands /\ OneMore(Current, k)
<1> DEFINE s == input[Current]
           line == SubSeq(s, 1, LineEnd(s) - 1)
<1>1. Current \in Consoles
  <2>1. ToSet(objects) \subseteq Consoles
    BY DEF LoopTyped, ToSet
  <2> QED
    BY <2>1 DEF LoopTyped, Execute, HasLine, At
<1>2. s \in Seq(Char) /\ Newline(s)
  BY <1>1 DEF StreamsTyped, Execute, HasLine
<1>3. LineEnd(s) \in 1 .. Len(s)
  BY <1>2, LineEndFirst
<1>4. Command = Word(line)
  BY DEF Command
<1>5. line \in Seq(Char) /\ Len(line) \in Nat
  <2> DEFINE b == LineEnd(s) - 1
  <2>1. b \in 0 .. Len(s) /\ 1 \in Nat \ {0}
    BY <1>2, <1>3
  <2> HIDE DEF s, b
  <2>2. SubSeq(s, 1, b) \in Seq(Char)
    BY <1>2, <2>1, PieceKeeps
  <2>3. line \in Seq(Char)
    BY <2>2 DEF b
  <2> HIDE DEF line
  <2> QED
    BY <2>3
<1> HIDE DEF line
<1>6. k \in Char
  <2>2. <<k>> = SubSeq(line, 1, SelectInSeq(line, LAMBDA x : x = "\r") - 1)
    <3>1. <<k>> # <<>>
      OBVIOUS
    <3> QED
      BY <1>4, <3>1 DEF Word
  <2> DEFINE q == SelectInSeq(line, LAMBDA x : x = "\r")
             I == {i \in 1 .. Len(line) : line[i] = "\r"}
  <2>3. q = IF I # {} THEN Min(I) ELSE 0
    BY DEF SelectInSeq
  <2>4. q \in 0 .. Len(line)
    <3>1. I # {} => Min(I) \in I
      <4>1. I \in SUBSET (1 .. Len(line))
        OBVIOUS
      <4> HIDE DEF I
      <4> QED
        BY <1>5, <4>1, MinOfNumbers
    <3>2. I # {} => Min(I) \in 1 .. Len(line)
      BY <3>1
    <3> HIDE DEF I, q
    <3> QED
      BY <1>5, <2>3, <3>2
  <2> DEFINE b == q - 1
  <2>5. <<k>> = SubSeq(line, 1, b)
    BY <2>2
  <2>6. b \in Int /\ b <= Len(line)
    <3> HIDE DEF q
    <3> QED
      BY <1>5, <2>4
  <2> HIDE DEF b, q
  <2>7. b >= 1
    <3> SUFFICES ASSUME ~ (b >= 1) PROVE FALSE
      OBVIOUS
    <3>1. SubSeq(line, 1, b) = <<>>
      BY <1>5, <2>6
    <3>2. Len(<<k>>) = 1 /\ Len(<<>>) = 0
      OBVIOUS
    <3>3. <<k>> = <<>>
      BY <2>5, <3>1
    <3> QED
      BY <3>2, <3>3
  <2>8. b \in 0 .. Len(line) /\ 1 \in Nat \ {0}
    BY <1>5, <2>6, <2>7
  <2>9. SubSeq(line, 1, b) \in Seq(Char)
    BY <1>5, <2>8, PieceKeeps
  <2>10. <<k>> \in Seq(Char)
    BY <2>5, <2>9
  <2> QED
    BY <2>10
<1>7. k \in Commands
  BY <1>6 DEF Char
<1>8. Command # <<>> /\ Command[1] = k
  OBVIOUS
<1> QED
  BY <1>1, <1>7, <1>8 DEF Execute, OneMore

\* The command that plays is run.
Plays == CommandTurn /\ Command = <<"play">>

\* A window for numbers changes nothing of what is heard.
LEMMA SoundBind ==
  ASSUME StationInv, StationInv', SoundInv, NEW w, w.sink = "numbers",
         windows' = Append(windows, w), TvUnchanged
  PROVE  SoundInv' /\ Sounding' = Sounding
<1>1. windows \in Seq(WindowSet) /\ windows' \in Seq(WindowSet) /\ now \in Nat
  BY DEF StationInv, WindowsInv, SoundTyped
<1>2. UNCHANGED <<pushedTo, playback, heard, starved, now>>
  BY DEF TvUnchanged
<1>3. /\ Len(windows') = Len(windows) + 1 /\ Len(windows) \in Nat
      /\ windows'[Len(windows) + 1] = w
      /\ \A i \in 1 .. Len(windows) : windows'[i] = windows[i]
  BY <1>1
<1>4. \A i \in 1 .. Len(windows') : ~ (i <= Len(windows)) => windows'[i].sink # "audio"
  BY <1>3
<1>5. Len(windows') >= Len(windows)
  BY <1>3
<1>6. /\ \A i \in 1 .. Len(windows') : windows'[i].sink = "audio" => i = 1
      /\ Sounding' = Sounding /\ (Sounding => windows'[1] = windows[1])
  BY <1>1, <1>3, <1>4, <1>5, OthersSteady
<1> QED
  BY <1>1, <1>2, <1>6, SoundSteady

\* Playing begins with nothing heard.
LEMMA SoundPlay ==
  ASSUME StationInv, SoundInv, PlayItem, ~ Sounding
  PROVE  SoundInv'
<1> DEFINE w == Window("out", "audio", ClipStart, spans[ClipStart].start - now - Delay)
<1>1. windows' = <<w>> /\ UNCHANGED <<pushedTo, playback, heard, starved>>
  BY DEF PlayItem, TvUnchanged
<1>2. pushedTo = {} /\ playback = <<>> /\ heard = <<>>
  BY DEF SoundInv
<1>3. windows'[1].frame = ClipStart /\ Len(windows') = 1
  BY <1>1 DEF Window
<1>4. \A i \in 1 .. Len(windows') : windows'[i].sink = "audio" => i = 1
  BY <1>3
<1>5. SoundInStep'
  <2>1. Len(playback') = 0
    BY <1>1, <1>2
  <2> QED
    BY <1>1, <1>2, <1>3, <2>1 DEF SoundInStep, ShownFrame, ClipStart
<1> QED
  BY <1>1, <1>2, <1>4, <1>5 DEF SoundInv, Rising

\* Every other step keeps what is heard in order.
LEMMA SoundStep ==
  ASSUME StationInv, StationInv', SoundInv, [NodeNext]_nodeVars, ~ Plays
  PROVE  SoundInv' /\ Sounding' = Sounding
<1>0. now \in Nat
  BY DEF StationInv, SoundTyped
<1>1. ASSUME UNCHANGED <<pushedTo, playback, heard, starved>>, now' >= now, UNCHANGED windows
      PROVE  SoundInv' /\ Sounding' = Sounding
  <2>1. Sounding' = Sounding
    BY <1>1 DEF Sounding
  <2>2. \A i \in 1 .. Len(windows') : windows'[i].sink = "audio" => i = 1
    BY <1>1 DEF SoundInv
  <2> QED
    BY <1>1, <2>1, <2>2, SoundSteady
<1>2. ASSUME UNCHANGED stationVars
      PROVE  SoundInv' /\ Sounding' = Sounding
  BY <1>0, <1>1, <1>2 DEF stationVars, tvVars
<1>3. CASE TvTurn
  <2>1. CASE OutwardNothing \/ TvEnd
    BY <1>0, <1>1, <2>1 DEF OutwardNothing, TvEnd
  <2>2. CASE Outward
    BY <2>2, SoundOutward
  <2>3. CASE OutwardThrows
    BY <2>3, SoundThrows
  <2>4. CASE Record
    <3>1. PICK taken \in Parts : Inward(taken)
      BY <2>4 DEF Record
    <3>2. UNCHANGED <<pushedTo, playback, heard, starved, now>>
      BY <3>1 DEF Inward
    <3>3. CASE UNCHANGED windows
      BY <1>0, <1>1, <3>2, <3>3
    <3>4. CASE ~ UNCHANGED windows
      <4> DEFINE g == Len(lists) + 1
      <4>1. Showing /\ ThisWindow.sink # "audio" /\ MoveTo(g)
        BY <3>1, <3>4, ThisWindowPlaced DEF Inward, Join
      <4>2. g \in Nat
        BY FrameCounts DEF StationInv
      <4> HIDE DEF g
      <4>3. /\ windows' \in Seq(WindowSet) /\ Len(windows') = Len(windows)
            /\ windows'[windowAt] = [ThisWindow EXCEPT !.frame = g]
            /\ \A i \in 1 .. Len(windows) : i # windowAt => windows'[i] = windows[i]
        BY <4>1, <4>2, WindowMoved
      <4>4. /\ windowAt \in 1 .. Len(windows) /\ ThisWindow \in WindowSet
            /\ ThisWindow = windows[windowAt] /\ Len(windows) \in Nat
        BY <4>1, ThisWindowPlaced DEF ThisWindow
      <4>5. windows'[windowAt].sink = windows[windowAt].sink
        BY <4>3, <4>4 DEF WindowSet
      <4>6. /\ \A i \in 1 .. Len(windows) : windows'[i].sink = windows[i].sink
            /\ \A i \in 1 .. Len(windows) : windows[i].sink = "audio" => windows'[i] = windows[i]
            /\ \A i \in 1 .. Len(windows') : ~ (i <= Len(windows)) => windows'[i].sink # "audio"
            /\ Len(windows') >= Len(windows)
        <5> DEFINE n == Len(windows)
                   a == windowAt
        <5>1. n \in Nat /\ Len(windows') = n /\ a \in 1 .. n /\ windows[a].sink # "audio"
              /\ windows'[a].sink = windows[a].sink
              /\ \A i \in 1 .. n : i # a => windows'[i] = windows[i]
          BY <4>1, <4>3, <4>4, <4>5
        <5>2. ASSUME NEW i \in 1 .. n
              PROVE  /\ windows'[i].sink = windows[i].sink
                     /\ windows[i].sink = "audio" => windows'[i] = windows[i]
          BY <5>1
        <5> HIDE DEF n, a
        <5>3. Len(windows') >= n /\ \A i \in 1 .. Len(windows') : i <= n
          BY <5>1
        <5> QED
          BY <5>2, <5>3 DEF n
      <4>7. /\ \A i \in 1 .. Len(windows') : windows'[i].sink = "audio" => i = 1
            /\ Sounding' = Sounding /\ (Sounding => windows'[1] = windows[1])
        BY <4>3, <4>6, OthersSteady
      <4> QED
        BY <1>0, <3>2, <4>7, SoundSteady
    <3> QED
      BY <3>3, <3>4
  <2> QED
    BY <1>3, <2>1, <2>2, <2>3, <2>4 DEF TvTurn, TvMain
<1>4. CASE CommandTurn
  <2>1. TvCommand(Command) /\ Command # <<"play">>
    BY <1>4 DEF CommandTurn, Plays
  <2>2. CASE BindRecord
    <3> DEFINE w == Window("in", "numbers", ItemFrame, 0)
    <3>1. w.sink = "numbers" /\ windows' = Append(windows, w) /\ TvUnchanged
      BY <2>2 DEF BindRecord, Window
    <3> HIDE DEF w
    <3> QED
      BY <3>1, SoundBind
  <2>3. CASE BindView
    <3> DEFINE w == Window("out", "numbers", ItemFrame, -Rewind)
    <3>1. w.sink = "numbers" /\ windows' = Append(windows, w) /\ TvUnchanged
      BY <2>3 DEF BindView, Window
    <3> HIDE DEF w
    <3> QED
      BY <3>1, SoundBind
  <2>4. BindRecord \/ BindView \/ UNCHANGED stationVars
    BY <2>1 DEF TvCommand
  <2> QED
    BY <1>2, <2>2, <2>3, <2>4
<1>5. CASE DeviceCallsBack
  BY <1>5, SoundPlayed DEF DeviceCallsBack
<1>6. CASE TimePasses
  <2>1. UNCHANGED <<pushedTo, playback, heard, starved, windows>> /\ now' = now + 1
    BY <1>6 DEF TimePasses, Tick
  <2> QED
    BY <1>0, <1>1, <2>1
<1>7. CASE \E m \in Meters : MeterSends(m)
  <2>1. UNCHANGED <<pushedTo, playback, heard, starved, windows, now>>
    BY <1>7 DEF MeterSends, tvVars
  <2> QED
    BY <1>0, <1>1, <2>1
<1>8. CASE UNCHANGED nodeVars \/ NetTurn \/ ConsoleTurn \/ TierTurn
           \/ (\E c \in Consoles : TypeLine(c) \/ Receive(c))
           \/ PeerCalls \/ PeerSends \/ PeerLearned
  BY <1>2, <1>8 DEF nodeVars, NetTurn, ConsoleTurn, TierTurn, TypeLine, Receive, PeerCalls,
                    PeerSends, PeerLearned
<1> QED
  BY <1>3, <1>4, <1>5, <1>6, <1>7, <1>8 DEF NodeNext, Main, Others

\* How a step changes what the consoles ran.
LEMMA RanStep ==
  ASSUME StreamsTyped, LoopTyped, budget \in Budgets, [NodeNext]_nodeVars
  PROVE  UNCHANGED ran \/ \E c \in Consoles, k \in Commands : OneMore(c, k)
<1>1. CASE Execute \/ ExecuteExit
  <2>1. UNCHANGED ran \/ \E k \in Commands : OneMore(Current, k)
    BY <1>1, CommandsAssumption DEF Execute, ExecuteExit, OneMore, CommandsAssumption
  <2>2. Current \in Consoles
    <3>1. ToSet(objects) \subseteq Consoles /\ pc = "lines"
      BY <1>1 DEF LoopTyped, ToSet, Execute, ExecuteExit, HasLine, At
    <3> QED
      BY <3>1 DEF LoopTyped
  <2> QED
    BY <2>1, <2>2
<1>2. CASE ConsoleMain /\ ~ ExecuteExit
  BY <1>2 DEF ConsoleMain, Accept, AcceptThrows, AcceptNone, Reap, TakeInput, RunEnd, LoopEnd,
              hist, consoleVars
<1>3. CASE \E c \in Consoles : (\E k \in Commands : Type(c, k)) \/ RecvThread(c)
  BY <1>3 DEF Type, RecvThread, hist
<1>4. CASE Elsewhere
  BY <1>4 DEF Elsewhere, consoleVars, hist
<1> QED
  BY <1>1, <1>2, <1>3, <1>4, ConsoleStep

\* The inductive form of HeardInOrder.
SoundKeptInv == RanOnce("play") => SoundInv /\ (NeverRan("play") => ~ Sounding)

\* Nothing is heard at first.
LEMMA SoundStart == NodeInit => SoundKeptInv
<1> SUFFICES ASSUME NodeInit PROVE SoundInv /\ ~ Sounding
  BY DEF SoundKeptInv
<1>1. windows = <<>> /\ pushedTo = {} /\ playback = <<>> /\ heard = <<>> /\ starved = FALSE
  BY DEF NodeInit, StationInit
<1>2. ~ Sounding /\ Rising(<<>>)
  BY <1>1 DEF Sounding, Rising
<1> QED
  BY <1>1, <1>2 DEF SoundInv

\* Every step keeps the inductive form.
LEMMA SoundNext ==
  ASSUME StationInv, StationInv', ConsoleInv, LoopTyped, budget \in Budgets, SoundKeptInv,
         [NodeNext]_nodeVars
  PROVE  SoundKeptInv'
<1> SUFFICES ASSUME RanOnce("play")'
             PROVE  SoundInv' /\ (NeverRan("play")' => ~ Sounding')
  BY DEF SoundKeptInv
<1>1. StreamsTyped
  BY DEF ConsoleInv
<1>2. CASE Plays
  <2>1. Execute /\ Command = <<"play">> /\ "play" \notin {"\r", "\n"}
    BY <1>2 DEF Plays, CommandTurn
  <2>2. Current \in Consoles /\ "play" \in Commands /\ OneMore(Current, "play")
    BY <1>1, <2>1, CommandRan
  <2>3. RanOnce("play") /\ NeverRan("play") /\ ~ NeverRan("play")'
    BY <1>1, <2>2, OnceBefore
  <2>4. PlayItem
    BY <1>2 DEF Plays, CommandTurn, TvCommand
  <2> QED
    BY <2>3, <2>4, SoundPlay DEF SoundKeptInv
<1>3. CASE ~ Plays
  <2>1. RanOnce("play") /\ (NeverRan("play")' => NeverRan("play"))
    <3>1. CASE UNCHANGED ran
      BY <3>1 DEF RanOnce, NeverRan
    <3>2. CASE \E c \in Consoles, k \in Commands : OneMore(c, k)
      BY <1>1, <3>2, OnceBefore
    <3> QED
      BY <1>1, <3>1, <3>2, RanStep
  <2>2. SoundInv' /\ Sounding' = Sounding
    BY <1>3, <2>1, SoundStep DEF SoundKeptInv
  <2> QED
    BY <2>1, <2>2 DEF SoundKeptInv
<1> QED
  BY <1>2, <1>3

\* What holds of the parts of the node together.
NodeInv == StationInv /\ ConsoleInv /\ LoopTyped /\ MailInv /\ budget \in Budgets

\* It holds at first.
LEMMA NodeInvStart == NodeInit => NodeInv
BY StationStart, ConsoleStart, LoopStart, MailInit DEF NodeInit, NodeInv

\* Every step keeps it.
LEMMA NodeInvNext == NodeInv /\ [NodeNext]_nodeVars => NodeInv'
<1>1. budget \in Budgets /\ [NodeNext]_nodeVars => UNCHANGED budget
  BY NodeStep
<1> QED
  BY <1>1, StationNext, ConsoleNext, LoopNext, MailStep DEF NodeInv

\* A clip is heard in order, whatever the rest of the node does: SoundInv.
THEOREM NodeHeardInOrder == Spec => []HeardInOrder
<1>1. NodeInit => NodeInv /\ SoundKeptInv
  BY NodeInvStart, SoundStart
<1>2. NodeInv /\ SoundKeptInv /\ [NodeNext]_nodeVars => NodeInv' /\ SoundKeptInv'
  BY NodeInvNext, SoundNext DEF NodeInv
<1>3. NodeInv /\ SoundKeptInv => HeardInOrder
  <2> SUFFICES ASSUME NodeInv, SoundInv PROVE InOrder
    BY DEF HeardInOrder, SoundKeptInv
  <2>1. heard \in Seq(Sounds) /\ Len(heard) \in Nat /\ \A i \in 1 .. Len(heard) : heard[i] \in Int
    <3>1. heard \in Seq(Sounds) /\ \A x \in Sounds : x \in Int
      BY DEF NodeInv, StationInv, SoundTyped, Sounds
    <3> HIDE DEF Sounds
    <3> QED
      BY <3>1
  <2>2. ASSUME NEW i \in 2 .. Len(heard)
        PROVE  heard[i] > heard[i - 1]
    <3>1. i \in 1 .. Len(heard) /\ i - 1 \in 1 .. Len(heard) /\ i - 1 < i
      BY <2>1
    <3>2. heard[i - 1] < heard[i]
      BY <3>1 DEF SoundInv, Rising
    <3> QED
      BY <2>1, <3>1, <3>2
  <2> QED
    BY <2>2 DEF InOrder
<1> QED
  BY <1>1, <1>2, <1>3, PTL DEF Spec

(***************************************************************************)
(* The types of the whole node.                                            *)
(***************************************************************************)

\* What the types say of the peers beyond PeersTyped.
PeersInOrder ==
  /\ IsInjective(peers) /\ located \subseteq Peers /\ listed \in Nat /\ callers \in Nat
  /\ tierAt \in 1 .. Len(states) + 1

\* No tier state goes.
LEMMA StatesRise ==
  ASSUME BoundInv, [NodeNext]_nodeVars
  PROVE  Len(states') >= Len(states) /\ Len(states) \in Nat /\ Len(states') \in Nat
<1>1. PeersTyped /\ PeersTyped' /\ StatesGrow
  BY NetworkGrows DEF BoundInv
<1>2. /\ states \in Seq(StateSet) /\ states' \in Seq(StateSet)
      /\ Len(states) \in Nat /\ Len(states') \in Nat
      /\ DOMAIN states = 1 .. Len(states) /\ DOMAIN states' = 1 .. Len(states')
  BY <1>1, LenProperties DEF PeersTyped
<1>3. CASE StatesKept
  <2> DEFINE m == Len(states)
             n == Len(states')
  <2>1. DOMAIN states' = DOMAIN states
    BY <1>3 DEF StatesKept
  <2>2. m \in Nat /\ n \in Nat /\ 1 .. n = 1 .. m
    BY <1>2, <2>1
  <2> HIDE DEF m, n
  <2>3. m # 0 => m \in 1 .. n
    BY <2>2
  <2>4. n >= m
    BY <2>2, <2>3
  <2>5. n >= m /\ m \in Nat /\ n \in Nat
    BY <2>2, <2>4
  <2> QED
    BY <2>5 DEF m, n
<1>4. CASE \E p \in Addresses, d \in Nat : StateAdded(p, d)
  <2>1. PICK p \in Addresses, d \in Nat : StateAdded(p, d)
    BY <1>4
  <2>2. states' = Append(states, State(p, d))
    BY <2>1 DEF StateAdded
  <2>3. Len(states') = Len(states) + 1
    <3> DEFINE e == State(p, d)
    <3> HIDE DEF e
    <3>1. states' = Append(states, e)
      BY <2>2 DEF e
    <3> QED
      BY <1>2, <3>1
  <2> QED
    BY <1>2, <2>3
<1> QED
  BY <1>1, <1>2, <1>3, <1>4 DEF StatesGrow

\* The peers begin in order.
LEMMA PeersInOrderStart == NodeInit => PeersInOrder
<1> SUFFICES ASSUME NodeInit PROVE PeersInOrder
  OBVIOUS
<1>1. PeersInit /\ tierAt = 1
  BY DEF NodeInit, NetworkInit
<1>2. PICK known \in SUBSET Peers : peers \in SetToSeqs(known \cup {Self})
  BY <1>1 DEF PeersInit
<1>3. IsInjective(peers)
  BY <1>2 DEF SetToSeqs, IsInjective
<1>4. located \subseteq Peers /\ listed = 1 /\ states = <<>> /\ callers = 0
  BY <1>1, PeersAssumption DEF PeersInit
<1>5. tierAt \in 1 .. Len(states) + 1
  BY <1>1, <1>4
<1> QED
  BY <1>3, <1>4, <1>5 DEF PeersInOrder

\* Every step keeps them in order.
LEMMA PeersInOrderNext ==
  ASSUME BoundInv, PeersInOrder, [NodeNext]_nodeVars
  PROVE  PeersInOrder'
<1>1. NetworkStep \/ UNCHANGED networkVars
  BY NodeStep DEF BoundInv, PeersTyped
<1>2. Len(states') >= Len(states) /\ Len(states) \in Nat /\ Len(states') \in Nat
  BY StatesRise
<1>3. tierAt \in 1 .. Len(states) + 1 /\ listed \in Nat /\ callers \in Nat
  BY DEF PeersInOrder
<1>4. tierAt' \in 1 .. Len(states') + 1
  <2>1. tierAt' = tierAt \/ tierAt' = 1 \/ (tierAt' = tierAt + 1 /\ tierAt <= Len(states))
    BY <1>1 DEF NetworkStep, networkVars, TierMain, ServeConnected, ServeUnconnected, ServeThrows,
                TierEnd, Serving
  <2> QED
    BY <1>2, <1>3, <2>1
<1>5. located' \subseteq Peers /\ listed' \in Nat /\ callers' \in Nat
  <2>1. located' = located
    BY <1>1 DEF NetworkStep, networkVars, peersVars, PeersMain, NetInterfaceLoop, AcceptConnection,
                BindPeer, BindEnd, BindRefused, BindNoWay, BindUnconnected, BindConnected, BindFails,
                Call, Sends, Mail, Learns, Learn, TierMain, ServeConnected, ServeUnconnected,
                ServeThrows, TierEnd
  <2>2. listed' = listed \/ listed' = listed + 0 \/ listed' = listed + 1 \/ listed' = listed + 2
    BY <1>1 DEF NetworkStep, networkVars, peersVars, PeersMain, NetInterfaceLoop, AcceptConnection,
                BindPeer, BindEnd, BindRefused, BindNoWay, BindUnconnected, BindConnected, BindFails,
                Call, Sends, Mail, Learns, Learn, TierMain, ServeConnected, ServeUnconnected,
                ServeThrows, TierEnd
  <2>3. callers' = callers \/ callers' = callers + 1 \/ (callers # 0 /\ callers' = callers - 1)
    BY <1>1 DEF NetworkStep, networkVars, peersVars, PeersMain, NetInterfaceLoop, AcceptConnection,
                BindPeer, BindEnd, BindRefused, BindNoWay, BindUnconnected, BindConnected, BindFails,
                Call, Sends, Mail, Learns, Learn, TierMain, ServeConnected, ServeUnconnected,
                ServeThrows, TierEnd
  <2> QED
    BY <1>3, <2>1, <2>2, <2>3 DEF PeersInOrder
<1>6. IsInjective(peers')
  <2>1. CASE Learns
    <3>1. PICK p \in Peers : Learn(p)
      BY <2>1 DEF Learns
    <3>2. peers' = Append(peers, p) /\ p \notin ToSet(peers)
      BY <3>1 DEF Learn
    <3>3. peers \in Seq(Peers \cup {Self}) /\ DOMAIN peers = 1 .. Len(peers) /\ Len(peers) \in Nat
      BY LenProperties DEF BoundInv, PeersTyped
    <3>4. /\ DOMAIN peers' = 1 .. Len(peers) + 1 /\ peers'[Len(peers) + 1] = p
          /\ \A j \in DOMAIN peers : peers'[j] = peers[j]
      <4>1. p \in Peers \cup {Self}
        OBVIOUS
      <4> QED
        BY <3>2, <3>3, <4>1, AppendKeeps
    <3>5. \A i \in 1 .. Len(peers) : peers[i] # p
      BY <3>2, <3>3 DEF ToSet
    <3>6. \A i \in 1 .. Len(peers) + 1 : i = Len(peers) + 1 \/ i \in 1 .. Len(peers)
      BY <3>3
    <3>7. \A i, j \in DOMAIN peers : peers[i] = peers[j] => i = j
      BY DEF PeersInOrder, IsInjective
    <3>8. \A i, j \in DOMAIN peers' : peers'[i] = peers'[j] => i = j
      <4> DEFINE n == Len(peers)
                 q == peers'
      <4>1. /\ DOMAIN q = 1 .. n + 1 /\ q[n + 1] = p /\ \A j \in 1 .. n : q[j] = peers[j]
            /\ \A i \in 1 .. n : peers[i] # p
            /\ \A i \in 1 .. n + 1 : i = n + 1 \/ i \in 1 .. n
            /\ \A i, j \in 1 .. n : peers[i] = peers[j] => i = j
        BY <3>3, <3>4, <3>5, <3>6, <3>7
      <4> HIDE DEF n, q
      <4>2. \A i, j \in DOMAIN q : q[i] = q[j] => i = j
        BY ONLY <4>1
      <4> QED
        BY <4>2 DEF q
    <3> QED
      BY <3>8 DEF IsInjective
  <2>2. CASE ~ Learns
    <3>1. peers' = peers
      BY <1>1, <2>2 DEF NetworkStep, networkVars, peersVars, PeersMain, NetInterfaceLoop,
                AcceptConnection,
                BindPeer, BindEnd, BindRefused, BindNoWay, BindUnconnected, BindConnected, BindFails,
                Call, Sends, Mail, TierMain, ServeConnected, ServeUnconnected,
                ServeThrows, TierEnd
    <3> QED
      BY <3>1 DEF PeersInOrder
  <2> QED
    BY <2>1, <2>2
<1> QED
  BY <1>4, <1>5, <1>6 DEF PeersInOrder

\* What every variable holds, in every state of the node.
THEOREM NodeTypeOK == Spec => []TypeOK
<1>1. NodeInit => NodeInv /\ PeersInOrder
  BY NodeInvStart, PeersInOrderStart
<1>2. NodeInv /\ PeersInOrder /\ [NodeNext]_nodeVars => NodeInv' /\ PeersInOrder'
  BY NodeInvNext, PeersInOrderNext DEF NodeInv, MailInv
<1>3. NodeInv /\ PeersInOrder => TypeOK
  <2> SUFFICES ASSUME NodeInv, PeersInOrder PROVE TypeOK
    OBVIOUS
  <2>1. StationInv /\ StreamsTyped /\ LoopTyped /\ BoundInv /\ PeersTyped /\ DevicesThere
        /\ \A i \in DOMAIN devices : MailWell(devices[i])
    BY DEF NodeInv, MailInv, BoundInv, ConsoleInv
  <2>2. /\ pc \in Places
        /\ {waiting, objects, each.list} \subseteq Seq(Consoles)
        /\ each.at \in 1..(Len(each.list) + 1) /\ alive \subseteq ToSet(objects)
        /\ ahead \subseteq Consoles
        /\ pc = "lines" => Current \in alive
    BY <2>1 DEF LoopTyped
  <2>3. /\ {wire, recv, input} \subseteq [Consoles -> Seq(Char)]
        /\ {typed, ran} \subseteq [Consoles -> Seq(Commands)]
    BY <2>1 DEF StreamsTyped
  <2>4. ToSet(peers) \subseteq Peers \cup {Self}
    <3>1. peers \in Seq(Peers \cup {Self})
      BY <2>1 DEF PeersTyped
    <3> QED
      BY <3>1 DEF ToSet
  <2>5. ASSUME NEW i \in DOMAIN devices
        PROVE  /\ devices[i].mail \in Seq(Kinds)
               /\ devices[i].cleared \in 0..devices[i].arrived
               /\ devices[i].arrived \in 0..Len(devices[i].mail)
               /\ Len(devices[i].handled) = Len(devices[i].mail)
    <3> DEFINE d == devices[i]
    <3>1. d \in DeviceSet /\ MailWell(d)
      BY <2>1, Sizes
    <3>2. d.mail \in Seq(Kinds) /\ d.arrived \in Nat /\ d.cleared \in Nat
      BY <3>1 DEF DeviceSet
    <3>3. Len(d.mail) \in Nat
      BY <3>2, LenProperties
    <3> HIDE DEF d
    <3>4. d.cleared \in 0 .. d.arrived /\ d.arrived \in 0 .. Len(d.mail)
      BY <3>1, <3>2, <3>3 DEF MailWell
    <3> QED
      BY <3>1, <3>2, <3>4 DEF MailWell, d
  <2>6. ASSUME NEW i \in DOMAIN states
        PROVE  /\ states[i].device \in {NoDevice} \cup DOMAIN devices
               /\ states[i].stored \in 0..2 /\ {states[i].due, states[i].owes} \subseteq BOOLEAN
    <3>1. /\ states[i] \in StateSet /\ states[i].device <= Len(devices)
          /\ Len(devices) \in Nat /\ DOMAIN devices = 1 .. Len(devices)
      BY <2>1, Sizes DEF DevicesThere
    <3>2. states[i].device \in Nat /\ states[i].stored \in 0..2
          /\ states[i].due \in BOOLEAN /\ states[i].owes \in BOOLEAN
      BY <3>1 DEF StateSet
    <3> QED
      BY <3>1, <3>2 DEF NoDevice
  <2>7. windowAt \in 1..(Len(windows) + 1)
    BY <2>1 DEF StationInv, WindowsInv
  <2>8. flight \in [Meters -> Seq(Int)] /\ buffer \in Seq(Int) /\ torn \in BOOLEAN
    BY <2>1 DEF StationInv, RecorderTyped
  <2>9. /\ AllFrames = 1 .. Len(lists)
        /\ DOMAIN spans = AllFrames /\ DOMAIN content = AllFrames /\ pushedTo \subseteq AllFrames
    <3>1. FramesInv /\ pushedTo \subseteq ClipFrames
      BY <2>1 DEF StationInv, SoundTyped
    <3>2. AllFrames = 1 .. Len(lists) /\ \A f \in ClipFrames : f \in 1 .. Len(lists)
      BY <3>1, FrameCounts
    <3>3. spans \in Seq(SpanSet) /\ content \in Seq(RawSet) /\ Len(spans) = Len(lists)
          /\ Len(content) = Len(lists)
      BY <3>1 DEF FramesInv
    <3>4. DOMAIN spans = 1 .. Len(lists) /\ DOMAIN content = 1 .. Len(lists)
      BY <3>3, LenProperties
    <3> QED
      BY <3>1, <3>2, <3>4
  <2>10. \A i \in DOMAIN windows : windows[i].frame \in AllFrames
    <3>1. DOMAIN windows = 1 .. Len(windows)
      BY <2>1, LenProperties DEF StationInv, WindowsInv
    <3>2. \A i \in 1 .. Len(windows) : windows[i].frame \in 1 .. Len(lists)
      BY <2>1 DEF StationInv, WindowsInv, WindowPlaced
    <3> QED
      BY <2>9, <3>1, <3>2
  <2>11. heard \in Seq(1..(Clip * Span)) /\ starved \in BOOLEAN
    BY <2>1 DEF StationInv, SoundTyped, Sounds
  <2> QED
    BY <2>2, <2>3, <2>4, <2>5, <2>6, <2>7, <2>8, <2>9, <2>10, <2>11 DEF TypeOK, PeersInOrder
<1> QED
  BY <1>1, <1>2, <1>3, PTL DEF Spec

\* The command that records is run.
Records == CommandTurn /\ Command = <<"record">>

\* The windows that take nothing from meters go on.
LEMMA RecordMoves ==
  ASSUME StationInv, Showing, ThisWindow.flow = "out", Latest # BlankFrame, MoveTo(Latest)
  PROVE  \A i \in 1 .. Len(windows') :
           windows'[i].flow = "in" => /\ i \in 1 .. Len(windows) /\ windows[i].flow = "in"
                                      /\ windows'[i].frame = windows[i].frame
<1> DEFINE g == Latest
<1>1. g \in Nat
  BY LatestFound DEF StationInv, FramesInv
<1>2. MoveTo(g)
  OBVIOUS
<1> HIDE DEF g
<1>3. /\ Len(windows') = Len(windows)
      /\ windows'[windowAt] = [ThisWindow EXCEPT !.frame = g]
      /\ \A i \in 1 .. Len(windows) : i # windowAt => windows'[i] = windows[i]
  BY <1>1, <1>2, WindowMoved
<1>4. ThisWindow \in WindowSet
  BY ThisWindowPlaced
<1>5. windows'[windowAt].flow # "in"
  BY <1>3, <1>4 DEF WindowSet
<1> QED
  BY <1>3, <1>5

\* Every other step loses no sample.
LEMMA RecordStep ==
  ASSUME StationInv, StationInv', RecordInv, [NodeNext]_nodeVars, ~ Records
  PROVE  RecordInv' /\ (~ Recording => ~ Recording' /\ Recorded' = Recorded)
<1>1. ASSUME UNCHANGED <<lists, content, samples, buffer, entered, torn>>, UNCHANGED windows
      PROVE  RecordInv' /\ (~ Recording => ~ Recording' /\ Recorded' = Recorded)
  BY <1>1, RecordSteady
<1>2. ASSUME UNCHANGED stationVars
      PROVE  RecordInv' /\ (~ Recording => ~ Recording' /\ Recorded' = Recorded)
  BY <1>1, <1>2 DEF stationVars, tvVars, recorderVars
<1>3. CASE TvTurn
  <2>1. CASE OutwardNothing \/ TvEnd
    BY <1>1, <2>1 DEF OutwardNothing, TvEnd, recorderVars
  <2>2. CASE Outward \/ OutwardThrows
    <3>1. /\ Showing /\ ThisWindow.flow = "out" /\ Latest # BlankFrame /\ MoveTo(Latest)
          /\ UNCHANGED <<lists, content, samples, buffer, entered, torn>>
      BY <2>2 DEF Outward, OutwardThrows, recorderVars
    <3> QED
      BY <3>1, RecordMoves, RecordSteady
  <2>3. CASE Record
    <3>1. PICK taken \in Parts : Inward(taken)
      BY <2>3 DEF Record
    <3>2. Takes(taken)
      BY PartsTaken DEF StationInv
    <3> QED
      BY <3>1, <3>2, InwardRecords
  <2> QED
    BY <1>3, <2>1, <2>2, <2>3 DEF TvTurn, TvMain
<1>4. CASE CommandTurn
  <2>1. TvCommand(Command) /\ Command # <<"record">>
    BY <1>4 DEF CommandTurn, Records
  <2>2. CASE BindView
    <3> DEFINE w == Window("out", "numbers", ItemFrame, -Rewind)
               n == Len(windows)
    <3>1. windows' = Append(windows, w) /\ w.flow # "in"
      BY <2>2 DEF BindView, Window
    <3>2. UNCHANGED <<lists, content, samples, buffer, entered, torn>>
      BY <2>2 DEF BindView, TvUnchanged, recorderVars
    <3>3. windows \in Seq(WindowSet) /\ n \in Nat
      BY DEF StationInv, WindowsInv
    <3> HIDE DEF w
    <3>4. /\ Len(windows') = n + 1 /\ windows'[n + 1] = w
          /\ \A i \in 1 .. n : windows'[i] = windows[i]
      BY <3>1, <3>3
    <3>5. \A i \in 1 .. Len(windows') : i = n + 1 \/ i \in 1 .. n
      BY <3>3, <3>4
    <3>6. \A i \in 1 .. Len(windows') :
            windows'[i].flow = "in" => /\ i \in 1 .. Len(windows) /\ windows[i].flow = "in"
                                       /\ windows'[i].frame = windows[i].frame
      BY <3>1, <3>4, <3>5
    <3> QED
      BY <3>2, <3>6, RecordSteady
  <2>3. CASE PlayItem
    <3> DEFINE w == Window("out", "audio", ClipStart, spans[ClipStart].start - now - Delay)
    <3>1. windows' = <<w>> /\ w.flow # "in"
      BY <2>3 DEF PlayItem, Window
    <3>2. UNCHANGED <<lists, content, samples, buffer, entered, torn>>
      BY <2>3 DEF PlayItem, TvUnchanged, recorderVars
    <3> HIDE DEF w
    <3>3. \A i \in 1 .. Len(windows') : windows'[i].flow # "in"
      BY <3>1
    <3> QED
      BY <3>2, <3>3, RecordSteady
  <2>4. BindView \/ PlayItem \/ UNCHANGED stationVars
    BY <2>1 DEF TvCommand
  <2> QED
    BY <1>2, <2>2, <2>3, <2>4
<1>5. CASE DeviceCallsBack
  BY <1>1, <1>5 DEF DeviceCallsBack, Callback, recorderVars
<1>6. CASE TimePasses
  BY <1>1, <1>6 DEF TimePasses, Tick, recorderVars
<1>7. CASE \E m \in Meters : MeterSends(m)
  BY <1>1, <1>7 DEF MeterSends, Measure, tvVars
<1>8. CASE UNCHANGED nodeVars \/ NetTurn \/ ConsoleTurn \/ TierTurn
           \/ (\E c \in Consoles : TypeLine(c) \/ Receive(c))
           \/ PeerCalls \/ PeerSends \/ PeerLearned
  BY <1>2, <1>8 DEF nodeVars, NetTurn, ConsoleTurn, TierTurn, TypeLine, Receive, PeerCalls,
                    PeerSends, PeerLearned
<1> QED
  BY <1>3, <1>4, <1>5, <1>6, <1>7, <1>8 DEF NodeNext, Main, Others

\* The inductive form of RecordedKept.
RecordKeptInv ==
  RanOnce("record") => RecordInv /\ (NeverRan("record") => ~ Recording /\ Recorded = 0)

\* Nothing is recorded at first.
LEMMA RecordStart == NodeInit => RecordKeptInv
<1> SUFFICES ASSUME NodeInit PROVE RecordInv /\ ~ Recording /\ Recorded = 0
  BY DEF RecordKeptInv
<1>1. /\ windows = <<>> /\ samples = <<>> /\ buffer = <<>> /\ entered = <<>> /\ lists = FirstLists
  BY DEF NodeInit, StationInit, RecorderInit, FirstLists, Blanks, Blank, ClipVector
<1>2. StationInv
  BY StationStart
<1>3. Len(lists) = Clip + 1 /\ Clip \in Nat
  <2>1. lists \in [1 .. Clip + 1 -> LinkSet] /\ Clip \in Nat
    BY <1>1, FirstListsLinked, StationAssumption DEF Links, StationAssumption
  <2>2. DOMAIN lists = 1 .. Clip + 1 /\ DOMAIN lists = 1 .. Len(lists) /\ Len(lists) \in Nat
    BY <1>2, <2>1, LenProperties DEF StationInv, FramesInv
  <2> QED
    BY <2>1, <2>2
<1>4. Recorded = 0
  BY <1>3 DEF Recorded
<1>5. ChainLinked
  <2>1. ASSUME NEW k \in 0 .. Recorded
        PROVE  lists[RecordedAt(k)].second = IF k = Recorded THEN <<>> ELSE <<Clip + 2 + k>>
    <3>1. k = 0 /\ RecordedAt(k) = ItemFrame
      BY <1>4 DEF RecordedAt
    <3>2. lists[ItemFrame] = Blank
      BY <1>1, FirstListsLinked
    <3> QED
      BY <1>4, <3>1, <3>2 DEF Blank
  <2> QED
    BY <2>1 DEF ChainLinked
<1>6. Behind(Fronts, Behind(samples, LinesOf(buffer))) = entered
  <2>1. RecordedFronts = <<>>
    BY <1>4 DEF RecordedFronts
  <2>2. Fronts = <<>> /\ LinesOf(buffer) = <<>>
    BY <1>1, <2>1, FlattenEmpty, WholeNothing DEF Fronts
  <2>3. Behind(<<>>, <<>>) = <<>>
    BY DEF Behind
  <2> QED
    BY <1>1, <2>2, <2>3
<1>7. Len(windows) = 0 /\ ~ Recording
  BY <1>1 DEF Recording
<1> QED
  BY <1>4, <1>5, <1>6, <1>7 DEF RecordInv

\* Every step keeps the inductive form.
LEMMA RecordNext ==
  ASSUME StationInv, StationInv', ConsoleInv, LoopTyped, budget \in Budgets, RecordKeptInv,
         [NodeNext]_nodeVars
  PROVE  RecordKeptInv'
<1> SUFFICES ASSUME RanOnce("record")'
             PROVE  RecordInv' /\ (NeverRan("record")' => ~ Recording' /\ Recorded' = 0)
  BY DEF RecordKeptInv
<1>1. StreamsTyped
  BY DEF ConsoleInv
<1>2. CASE Records
  <2>1. Execute /\ Command = <<"record">> /\ "record" \notin {"\r", "\n"}
    BY <1>2 DEF Records, CommandTurn
  <2>2. Current \in Consoles /\ "record" \in Commands /\ OneMore(Current, "record")
    BY <1>1, <2>1, CommandRan
  <2>3. RanOnce("record") /\ NeverRan("record") /\ ~ NeverRan("record")'
    BY <1>1, <2>2, OnceBefore
  <2>4. BindRecord
    BY <1>2 DEF Records, CommandTurn, TvCommand
  <2> QED
    BY <2>3, <2>4, RecordBegins DEF RecordKeptInv
<1>3. CASE ~ Records
  <2>1. RanOnce("record") /\ (NeverRan("record")' => NeverRan("record"))
    <3>1. CASE UNCHANGED ran
      BY <3>1 DEF RanOnce, NeverRan
    <3>2. CASE \E c \in Consoles, k \in Commands : OneMore(c, k)
      BY <1>1, <3>2, OnceBefore
    <3> QED
      BY <1>1, <3>1, <3>2, RanStep
  <2>2. RecordInv' /\ (~ Recording => ~ Recording' /\ Recorded' = Recorded)
    BY <1>3, <2>1, RecordStep DEF RecordKeptInv
  <2> QED
    BY <2>1, <2>2 DEF RecordKeptInv
<1> QED
  BY <1>2, <1>3

\* A recorder loses no sample, whatever the rest of the node does: RecordInv.
THEOREM NodeRecordedKept == Spec => []RecordedKept
<1>1. NodeInit => NodeInv /\ RecordKeptInv
  BY NodeInvStart, RecordStart
<1>2. NodeInv /\ RecordKeptInv /\ [NodeNext]_nodeVars => NodeInv' /\ RecordKeptInv'
  BY NodeInvNext, RecordNext DEF NodeInv
<1>3. NodeInv /\ RecordKeptInv => RecordedKept
  BY RecordedSamples DEF NodeInv, RecordKeptInv, RecordedKept
<1> QED
  BY <1>1, <1>2, <1>3, PTL DEF Spec

=============================================================================

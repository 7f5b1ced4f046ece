----------------------------- MODULE TierNetwork ----------------------------
(***************************************************************************)
(* The network tier in the loop over the tier states (id_tier_loop):       *)
(* datagrams of a peer are handled in order, and the cache is updated now  *)
(* and then (id/tier/network/).  A datagram is its kind: "meta" asks for   *)
(* our cache, "data" is an object, "cache" tells what the peer holds,      *)
(* "request" wants objects that this node does not hold, and "bad" makes   *)
(* its handler throw: a type that does not exist, metadata that is too     *)
(* short, a difference of caches that cannot be read.  A request as        *)
(* get_hint_id writes it, the id in front of the type byte, is of the kind *)
(* that the first byte of its id says.                                     *)
(* Not among the kinds: metadata that ask for a difference of the caches,  *)
(* which end the process (a print with P_CRIT).                            *)
(*                                                                         *)
(* The memory and disk states come first in the loop, and are IdTier's.    *)
(***************************************************************************)
EXTENDS Peers, FiniteSets

CONSTANT Kinds
ASSUME KindsAssumption == Kinds \subseteq {"meta", "data", "cache", "request", "bad"}

VARIABLE tierAt      \* id_tier_loop: the next network state

networkVars == <<peersVars, tierAt>>

NetworkInit == PeersInit /\ tierAt = 1

-----------------------------------------------------------------------------
(* network_to_tier                                                         *)

Inbound(d) == (d.cleared + 1)..d.arrived
Bad(d)     == {n \in Inbound(d) : d.mail[n] = "bad"}

\* Mutant: the loop ends one datagram early.
WalkedShort(d) == {n \in Inbound(d) : n < d.arrived /\ \A b \in Bad(d) : n < b}

\* The datagrams in front of the first one that throws.
Walked(d) == {n \in Inbound(d) : \A b \in Bad(d) : n < b}
Of(d, kind) == {n \in Walked(d) : d.mail[n] = kind}

Twice(n) == IF n > 2 THEN 2 ELSE n

\* Mutant: inbound_data is cleared first.
CleanedFirst(d) ==
  [d EXCEPT !.cleared = d.arrived,
            !.handled = [n \in DOMAIN @ |-> IF n \in Walked(d) THEN Twice(@[n] + 1) ELSE @[n]]]

\* inbound_data is cleared behind the last datagram.
Cleaned(d) ==
  [d EXCEPT !.cleared = IF Bad(d) = {} THEN d.arrived ELSE @,
            !.handled = [n \in DOMAIN @ |-> IF n \in Walked(d) THEN Twice(@[n] + 1) ELSE @[n]]]

\* meta.macros asks for our cache until it is sent, after the last datagram.
Fed(s, d) ==
  [s EXCEPT !.stored = Twice(@ + Cardinality(Of(d, "data"))),
            !.owes   = Bad(d) # {} /\ (@ \/ Of(d, "meta") # {})]

-----------------------------------------------------------------------------
(* id_tier_loop                                                            *)

Serving == At("tier") /\ tierAt <= Len(states)
TierState  == states[tierAt]

\* The exceptions of the medium's loop are caught.  The update of the cache
\* takes away the flag that asked for it.
ServeConnected ==
  /\ Serving /\ TierState.device # NoDevice
  /\ LET d == TierState.device
     IN  /\ states' = [states EXCEPT ![tierAt] = Fed(@, devices[d])]
         /\ devices' = [devices EXCEPT ![d] = Cleaned(@)]
  /\ tierAt' = tierAt + 1
  /\ UNCHANGED <<pc, peers, located, listed, callers>>

\* A state without a device: its loop throws, and is caught.
ServeUnconnected ==
  /\ Serving /\ TierState.device = NoDevice /\ ~TierState.due
  /\ tierAt' = tierAt + 1
  /\ UNCHANGED <<pc, peersVars>>

\* The update of its cache is due: update_cache throws out of id_tier_loop,
\* and the flag that asks for it stays.
ServeThrows ==
  /\ Serving /\ TierState.device = NoDevice
  /\ states' = [states EXCEPT ![tierAt].due = TRUE]
  /\ tierAt' = 1 /\ NextTurn
  /\ UNCHANGED <<peers, located, devices, listed, callers>>

TierEnd ==
  /\ At("tier") /\ tierAt > Len(states)
  /\ tierAt' = 1 /\ NextTurn
  /\ UNCHANGED peersVars

TierMain == ServeConnected \/ ServeUnconnected \/ ServeThrows \/ TierEnd

-----------------------------------------------------------------------------
\* Datagrams are handled in order and none is passed over; one is handled
\* again only if it came before one that cannot be handled, and what came
\* behind that one never is (network_to_tier, net_interface_ip_recv_all).
DatagramsOnce ==
  \A i \in DOMAIN devices :
    LET d == devices[i]
        behind(n) == \E b \in 1..n : d.mail[b] = "bad"
        before(n) == \E b \in n..d.arrived : d.mail[b] = "bad"
    IN  \A n \in DOMAIN d.mail :
          /\ n <= d.cleared => d.handled[n] = 1
          /\ d.handled[n] > 1 => before(n)
          /\ d.handled[n] > 0 => /\ n <= d.arrived /\ ~behind(n)
                                 /\ \A m \in 1..n : d.handled[m] > 0

=============================================================================

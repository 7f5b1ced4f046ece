---------------------------- MODULE VersionStore ----------------------------
(***************************************************************************)
(* What the ID tiers promise, without tiers: each datum has the version    *)
(* its users see and a set of versions that survive a restart.             *)
(***************************************************************************)
EXTENDS Integers

CONSTANTS
  Ids,     \* the data
  Faults   \* "crash" and "short" (a write cut short) if they may happen

VARIABLES
  view,    \* view[x]: the version a lookup returns, -1 if x is not loaded
  durable  \* durable[x]: the versions the disk holds intact

svars == <<view, durable>>

Init == view = [x \in Ids |-> -1] /\ durable = [x \in Ids |-> {}]

\* A datum is born with version 0, once.
New(x) ==
  /\ view[x] = -1 /\ durable[x] = {}
  /\ view' = [view EXCEPT ![x] = 0]
  /\ UNCHANGED durable

\* An edit of a loaded datum makes the next version.
Change(x) ==
  /\ view[x] >= 0
  /\ view' = [view EXCEPT ![x] = @ + 1]
  /\ UNCHANGED durable

\* A version the users have seen reaches the disk.
Persist(x) ==
  /\ \E m \in 0..view[x] : durable' = [durable EXCEPT ![x] = @ \union {m}]
  /\ UNCHANGED view

\* A datum that is not loaded comes back in a version the disk holds.
Load(x) ==
  /\ view[x] = -1
  /\ \E m \in durable[x] : view' = [view EXCEPT ![x] = m]
  /\ UNCHANGED durable

\* A write cut short spoils the one version it was writing, none that the
\* users have not reached.
Spoil(x) ==
  /\ "short" \in Faults
  /\ \E m \in 0..view[x] : durable' = [durable EXCEPT ![x] = @ \ {m}]
  /\ UNCHANGED view

\* A restart forgets what was not durable; it may spoil or complete the one
\* write it interrupted.
Restart ==
  /\ "crash" \in Faults
  /\ view' = [x \in Ids |-> -1]
  /\ \/ UNCHANGED durable
     \/ \E x \in Ids : \E m \in 0..view[x] :
          durable' \in {[durable EXCEPT ![x] = @ \ {m}],
                        [durable EXCEPT ![x] = @ \union {m}]}

Next == \/ \E x \in Ids : New(x) \/ Change(x) \/ Persist(x) \/ Load(x) \/ Spoil(x)
        \/ Restart

Spec == Init /\ [][Next]_svars

=============================================================================

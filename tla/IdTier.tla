------------------------------- MODULE IdTier -------------------------------
(***************************************************************************)
(* The storage tiers of the ID system: the memory tier 0.0, the disk tier  *)
(* states 2.0 that share one data folder, and id_tier_loop, which copies   *)
(* data between them.  One action is one step of the single thread that    *)
(* runs the main loop; a crash may fall between any two of them.           *)
(*                                                                         *)
(* A datum is its id, its modification_incrementor and a value: the number *)
(* of the edit that produced the content.  The same record shape serves an *)
(* object in memory, a file, and an entry of a transport queue.            *)
(***************************************************************************)
EXTENDS Integers, Sequences, FiniteSets, SequencesExt

CONSTANTS
  Ids,        \* ids of the objects that may be exported
  Own,        \* those whose hash is that of production_priv_key_id
  Loadable,   \* those of a type id_tier_mem_add_data has a CHECK_TYPE for
  Mem,        \* the memory tier state
  Disks,      \* the disk tier states (id_tier_init runs twice)
  Order,      \* all tier states, in the order ID_TIER_CACHE_GET sorts them
  Asked,      \* the disk states get_id_ptr asks, one after the other: all of
              \* them in the order of creation, once per entry of all_tiers
  Faults,     \* the faults of the file system and the machine that may happen
  MaxEdits,   \* bound: edits in a behaviour
  MaxFaults,  \* bound: faults in a behaviour
  MaxIndex,   \* bound: a disk index this long is refreshed (the timer is due)
  MaxObjects, \* bound: id_tier_loop starts with at most this many objects
  MaxQueue    \* bound: a tier loop or lookup starts with queues this short

Tiers == {Mem} \union Disks

ASSUME IdsAssumption ==
  IsFiniteSet(Ids) /\ Own \subseteq Ids /\ Loadable \subseteq Ids
ASSUME TiersAssumption ==
  /\ Mem \notin Disks
  /\ Order \in Seq(Tiers) /\ Order # <<>>
  /\ Asked \in Seq(Disks) /\ Asked # <<>>
ASSUME OrderAssumption == ToSet(Order) = Tiers
ASSUME BoundsAssumption ==
  /\ Faults \subseteq {"open", "short", "crash"}
  /\ MaxEdits \in Nat /\ MaxFaults \in Nat /\ MaxIndex \in Nat
  /\ MaxObjects \in Nat /\ MaxQueue \in Nat

VARIABLES
  id_vector,  \* the objects in memory, in creation order
  storage,    \* storage[t]: the (id, mod_inc) index kept by tier state t
  files,      \* files[x][m]: content of the file <hex x>_<m> of the data folder
  inbound,    \* inbound[t]: inbound_transport, the data requested from t
  outbound,   \* outbound[t]: outbound_transport, the data to be added to t
  pc,         \* where the thread is
  row, col,   \* i and c of id_tier_loop
  moves,      \* the shifts of the current pair or lookup that are left, by
              \* their position in the index or in Asked
  call,       \* the running medium.loop: tier, next outbound entry, return point
  looking,    \* whether the shifts are those of get_id_ptr
  born,       \* ids that have been created
  edits,      \* number of edits so far
  faults,     \* number of faults so far
  hist        \* history: ids loaded stale; what the last id_tier_loop started
              \* from and how it ended

data  == <<id_vector, storage, files>>
queue == <<inbound, outbound>>
ctl   == <<pc, row, col, moves, call, looking>>
env   == <<born, edits, faults>>
vars  == <<data, queue, ctl, env, hist>>

-----------------------------------------------------------------------------
(* Data.                                                                   *)

Mods   == 0..MaxEdits
NoFile == -1   \* no such file; a transport entry without payload
Empty  == -2   \* a file of no bytes
Torn   == -3   \* a file whose payload no import accepts
Datum  == [id : Ids, mod : Mods, val : -3..MaxEdits]
Entry  == [id : Ids, mod : Mods]
Move   == [id : Ids, from : Tiers, to : Tiers]

Blank(x)   == [id |-> x, mod |-> 0, val |-> NoFile]
Filled(e)  == e.val \notin {NoFile, Empty}
Index(s)   == [j \in DOMAIN s |-> [id |-> s[j].id, mod |-> s[j].mod]]
Match(s, x) == {j \in DOMAIN s : s[j].id = x}
First(s, x) == s[Min(Match(s, x))]
Listed(t, x) == Match(storage[t], x) # {}

\* The first version an index lists for x, -1 if it lists none.
Version(s, x) == IF Match(s, x) = {} THEN -1 ELSE First(s, x).mod

\* The version a lookup in memory returns, -1 if x is not in memory.
View(x) == Version(id_vector, x)

\* What gen_id_buffer may return for folder contents f: find lists the files
\* in no particular order.
Listings(f) ==
  SetToSeqs({e \in Entry : f[e.id][e.mod] # NoFile})

\* ID_TIER_GET_ID: the payload tier t returns for x, blank on any failure.
GetId(t, x) ==
  CASE t = Mem /\ View(x) # -1 -> First(id_vector, x)
    [] t # Mem /\ Listed(t, x) ->
         LET m == Version(storage[t], x)
         IN  [id |-> x, mod |-> m, val |-> files[x][m]]
    [] OTHER -> Blank(x)

\* The entries of a queue for which get returns nothing: the ASSERT behind it
\* throws (memory refuses the data of others instead, which is swallowed).
Unfillable(t, q) ==
  {j \in DOMAIN q : /\ ~Filled(q[j])
                    /\ ~Filled(GetId(t, q[j].id))
                    /\ t = Mem => q[j].id \in Own}

\* The inbound half of ID_TIER_LOOP_STANDARD: fill every empty entry up to the
\* first one that throws.
Fill(t, q) ==
  [j \in DOMAIN q |->
     IF \/ Filled(q[j])
        \/ \E k \in Unfillable(t, q) : k <= j
        \/ t = Mem /\ q[j].id \notin Own
     THEN q[j] ELSE GetId(t, q[j].id)]

-----------------------------------------------------------------------------
\* The shift that brings entry e of the memory index and disk d in step.
Shift(e, d) ==
  IF e.mod > Version(storage[d], e.id)
  THEN [id |-> e.id, from |-> Mem, to |-> d]
  ELSE [id |-> e.id, from |-> d, to |-> Mem]

\* Mutant: only ids the disk lists already are compared.
MoveLogicListed(d) ==
  LET s == storage[Mem]
  IN  [j \in {k \in DOMAIN s : Version(storage[d], s[k].id) \notin {-1, s[k].mod}}
         |-> Shift(s[j], d)]

(* tier_standard_move_logic for the memory tier and disk d: what both      *)
(* indexes list in different versions, from the newer to the older.        *)
MoveLogic(d) ==
  LET s == storage[Mem]
  IN  [j \in {k \in DOMAIN s : s[k].mod # Version(storage[d], s[k].id)}
         |-> Shift(s[j], d)]

\* The pair's moves: none between states of one major tier, and the lower
\* major tier comes first whichever way round the pair is visited.
PairMoves(s, t) ==
  CASE s = Mem /\ t # Mem -> MoveLogic(t)
    [] s # Mem /\ t = Mem -> MoveLogic(s)
    [] OTHER -> <<>>

\* shift_data_to_state returns early for data it must not or cannot read.
Eligible(m) ==
  /\ m.from = Mem => m.id \in Own
  /\ Listed(m.from, m.id)

-----------------------------------------------------------------------------
(* Initial state: the bootstrapped tier states over an empty folder.       *)

NoCall == [tier |-> Mem, k |-> 1, ret |-> "app"]

Init ==
  /\ id_vector = <<>>
  /\ storage = [t \in Tiers |-> <<>>]
  /\ files = [x \in Ids |-> [m \in Mods |-> NoFile]]
  /\ inbound = [t \in Tiers |-> <<>>] /\ outbound = [t \in Tiers |-> <<>>]
  /\ pc = "app" /\ row = 1 /\ col = 1
  /\ moves = <<>> /\ call = NoCall /\ looking = FALSE
  /\ born = {} /\ edits = 0 /\ faults = 0
  /\ hist = [stale |-> {}, goal |-> {}, loop |-> "none"]

\* An app step invalidates what the last id_tier_loop has established.
AppStep == /\ pc = "app"
           /\ hist' = [hist EXCEPT !.loop = "none", !.goal = {}]

\* The bounds on what grows without limit in the code: duplicate objects,
\* and the copies that pile up in the queue of a tier that cannot take them.
Bounded == /\ Len(id_vector) <= MaxObjects
           /\ \A t \in Tiers : Len(outbound[t]) <= MaxQueue

(***************************************************************************)
(* The rest of the program, between two iterations of id_tier_loop.        *)
(***************************************************************************)

\* mem_add_id: a new object enters memory and the index is regenerated.
Create(x) ==
  /\ AppStep
  /\ x \notin born
  /\ born' = born \union {x}
  /\ id_vector' = Append(id_vector, [id |-> x, mod |-> 0, val |-> 0])
  /\ storage' = [storage EXCEPT ![Mem] = Index(id_vector')]
  /\ UNCHANGED <<files, queue, ctl, edits, faults>>

\* Mutant: mod_inc() is called twice.
EditTwice(x) ==
  /\ AppStep
  /\ View(x) # -1 /\ edits < MaxEdits
  /\ edits' = edits + 1
  /\ id_vector' = [id_vector EXCEPT ![Min(Match(id_vector, x))] =
                     [id |-> x, mod |-> View(x) + 2, val |-> edits + 1]]
  /\ UNCHANGED <<storage, files, queue, ctl, born, faults>>

\* Mutant: a setter that forgets mod_inc().
EditSilently(x) ==
  /\ AppStep
  /\ View(x) # -1 /\ edits < MaxEdits
  /\ edits' = edits + 1
  /\ id_vector' = [id_vector EXCEPT ![Min(Match(id_vector, x))].val = edits + 1]
  /\ UNCHANGED <<storage, files, queue, ctl, born, faults>>

\* A setter of the object that a lookup returns: mod_inc() is called, the
\* index of the memory tier is not regenerated.
Edit(x) ==
  /\ AppStep
  /\ View(x) # -1 /\ edits < MaxEdits
  /\ edits' = edits + 1
  /\ id_vector' = [id_vector EXCEPT ![Min(Match(id_vector, x))] =
                     [id |-> x, mod |-> View(x) + 1, val |-> edits + 1]]
  /\ UNCHANGED <<storage, files, queue, ctl, born, faults>>

\* An object of a mem_only type is created or deleted (mem_add_id or
\* mem_del_id): the index is regenerated.
Churn ==
  /\ AppStep
  /\ storage' = [storage EXCEPT ![Mem] = Index(id_vector)]
  /\ UNCHANGED <<id_vector, files, queue, ctl, env>>

\* get_id_ptr of an object that is not in memory: ask each disk in turn.
Lookup(x) ==
  /\ AppStep
  /\ x \in born /\ View(x) = -1
  /\ Bounded
  /\ moves' = [j \in DOMAIN Asked |-> [id |-> x, from |-> Asked[j], to |-> Mem]]
  /\ pc' = "shift" /\ looking' = TRUE
  /\ UNCHANGED <<data, queue, row, col, call, env>>

(***************************************************************************)
(* medium.loop: fill the inbound queue, then add the outbound entries.     *)
(***************************************************************************)

\* Call the loop of t on inbound queue q; an unfillable entry throws before
\* any outbound entry is looked at.
CallLoop(t, q, onThrow, ret) ==
  /\ inbound' = [inbound EXCEPT ![t] = Fill(t, q)]
  /\ IF Unfillable(t, q) # {}
     THEN pc' = onThrow /\ UNCHANGED call
     ELSE pc' = "flush" /\ call' = [tier |-> t, k |-> 1, ret |-> ret]

AtEntry == pc = "flush" /\ call.k <= Len(outbound[call.tier])
Current == outbound[call.tier][call.k]

Stored == /\ outbound' = [outbound EXCEPT ![call.tier] = RemoveAt(@, call.k)]
          /\ UNCHANGED call
Kept   == /\ call' = [call EXCEPT !.k = @ + 1]
          /\ UNCHANGED outbound

\* Mutant: the import does not regenerate the index.
FlushMemUnindexed ==
  /\ AtEntry /\ call.tier = Mem
  /\ IF Current.id \in Loadable
     THEN Stored /\ id_vector' = Append(id_vector, Current)
     ELSE Kept /\ UNCHANGED id_vector
  /\ UNCHANGED <<storage, files, inbound, pc, row, col, moves, looking, env, hist>>

\* Mutant: the import takes the place of the object memory holds.
FlushMemReplaces ==
  /\ AtEntry /\ call.tier = Mem
  /\ IF Current.id \in Loadable
     THEN /\ Stored
          /\ id_vector' = Append(SelectSeq(id_vector, LAMBDA o : o.id # Current.id),
                                 Current)
          /\ storage' = [storage EXCEPT ![Mem] = Index(id_vector')]
     ELSE Kept /\ UNCHANGED <<id_vector, storage>>
  /\ UNCHANGED <<files, inbound, pc, row, col, moves, looking, env, hist>>

\* id_tier_mem_add_data: construct and import an object, whatever memory
\* already holds; a type without a creator throws.
FlushMem ==
  /\ AtEntry /\ call.tier = Mem
  /\ IF Current.id \in Loadable
     THEN /\ Stored
          /\ id_vector' = Append(id_vector, Current)
          /\ storage' = [storage EXCEPT ![Mem] = Index(id_vector')]
          /\ hist' = [hist EXCEPT !.stale =
               IF View(Current.id) = -1
                  /\ \E m \in Mods : m > Current.mod /\ files[Current.id][m] >= 0
               THEN @ \union {Current.id} ELSE @]
     ELSE Kept /\ UNCHANGED <<id_vector, storage, hist>>
  /\ UNCHANGED <<files, inbound, pc, row, col, moves, looking, env>>

\* Mutant: the file is named for the version after the one it holds.
FlushDiskAhead(content) ==
  /\ AtEntry /\ call.tier # Mem
  /\ content = Current.val /\ Current.mod < MaxEdits
  /\ Stored
  /\ files' = [files EXCEPT ![Current.id][Current.mod + 1] = content]
  /\ storage' = [storage EXCEPT ![call.tier] =
                   Append(@, [id |-> Current.id, mod |-> Current.mod + 1])]
  /\ UNCHANGED <<id_vector, inbound, pc, row, col, moves, looking, env, hist>>

\* id_tier_disk_add_data: write the file in place, then list it.  The write
\* itself is unchecked, so a full disk leaves a listed file that is cut short.
FlushDisk(content) ==
  /\ AtEntry /\ call.tier # Mem
  /\ \/ content = Current.val
     \/ "short" \in Faults /\ faults < MaxFaults /\ content \in {Empty, Torn}
  /\ Stored
  /\ files' = [files EXCEPT ![Current.id][Current.mod] = content]
  /\ storage' = [storage EXCEPT ![call.tier] =
                   Append(@, [id |-> Current.id, mod |-> Current.mod])]
  /\ IF content = Current.val
     THEN UNCHANGED <<faults, hist>>
     ELSE faults' = faults + 1 /\ hist' = [hist EXCEPT !.loop = "failed"]
  /\ UNCHANGED <<id_vector, inbound, pc, row, col, moves, looking, born, edits>>

\* Mutant: a file that cannot be opened is listed all the same.
FlushFailsLists ==
  /\ AtEntry /\ call.tier # Mem
  /\ "open" \in Faults /\ faults < MaxFaults
  /\ faults' = faults + 1
  /\ Stored
  /\ storage' = [storage EXCEPT ![call.tier] =
                   Append(@, [id |-> Current.id, mod |-> Current.mod])]
  /\ hist' = [hist EXCEPT !.loop = "failed"]
  /\ UNCHANGED <<id_vector, files, inbound, pc, row, col, moves, looking, born, edits>>

\* Mutant: the entry is taken out of the queue before the write is tried.
FlushFailsForgets ==
  /\ AtEntry /\ call.tier # Mem
  /\ "open" \in Faults /\ faults < MaxFaults
  /\ faults' = faults + 1
  /\ Stored
  /\ hist' = [hist EXCEPT !.loop = "failed"]
  /\ UNCHANGED <<data, inbound, pc, row, col, moves, looking, born, edits>>

\* The file cannot be opened: the entry stays for the next loop.
FlushFails ==
  /\ AtEntry /\ call.tier # Mem
  /\ "open" \in Faults /\ faults < MaxFaults
  /\ faults' = faults + 1
  /\ Kept
  /\ hist' = [hist EXCEPT !.loop = "failed"]
  /\ UNCHANGED <<data, inbound, pc, row, col, moves, looking, born, edits>>

FlushEnd ==
  /\ pc = "flush" /\ call.k > Len(outbound[call.tier])
  /\ pc' = call.ret
  /\ call' = NoCall
  /\ UNCHANGED <<data, queue, row, col, moves, looking, env, hist>>

(***************************************************************************)
(* shift_data_to_state: fetch from one tier, take the payload, queue it    *)
(* for the other and run that tier's loop.                                 *)
(***************************************************************************)

m0   == moves[Min(DOMAIN moves)]
Rest == [j \in DOMAIN moves \ {Min(DOMAIN moves)} |-> moves[j]]

\* get_data_from_state: a request that is already queued is not retried.
ShiftFetch ==
  /\ pc = "shift"
  /\ IF Eligible(m0) /\ Match(inbound[m0.from], m0.id) = {}
     THEN CallLoop(m0.from, Append(inbound[m0.from], Blank(m0.id)), "missed", "take")
     ELSE /\ pc' = IF Eligible(m0) THEN "take" ELSE "missed"
          /\ UNCHANGED <<inbound, call>>
  /\ UNCHANGED <<data, outbound, row, col, moves, looking, env, hist>>

\* The answer leaves the queue; strip_to_transportable throws on a torn one,
\* anything else is handed to add_data_to_state, which swallows what the
\* loop of the destination throws.
ShiftTake ==
  LET q == inbound[m0.from]
      j == Min(Match(q, m0.id))
  IN
  /\ pc = "take"
  /\ IF ~Filled(q[j])
     THEN pc' = "missed" /\ UNCHANGED <<queue, call>>
     ELSE IF q[j].val = Torn
     THEN /\ inbound' = [inbound EXCEPT ![m0.from] = RemoveAt(q, j)]
          /\ pc' = "threw" /\ UNCHANGED <<outbound, call>>
     ELSE /\ outbound' = [outbound EXCEPT ![m0.to] = Append(@, q[j])]
          /\ inbound' = [inbound EXCEPT ![m0.from] = RemoveAt(q, j),
                                        ![m0.to] = Fill(m0.to, inbound[m0.to])]
          /\ IF Unfillable(m0.to, inbound[m0.to]) # {}
             THEN pc' = "shifted" /\ UNCHANGED call
             ELSE /\ pc' = "flush"
                  /\ call' = [tier |-> m0.to, k |-> 1, ret |-> "shifted"]
  /\ UNCHANGED <<data, row, col, moves, looking, env, hist>>

\* Back in the caller.  id_tier_loop goes on to the next move; get_id_ptr runs
\* the loop of the disk it asked (skipped if the shift threw) and asks no other
\* once one has answered.
ShiftEnd ==
  /\ pc \in {"missed", "shifted", "threw"}
  /\ moves' = IF looking /\ pc = "shifted" THEN <<m0>> ELSE moves
  /\ IF looking /\ pc # "threw"
     THEN CallLoop(m0.from, inbound[m0.from], "next", "next")
     ELSE pc' = "next" /\ UNCHANGED <<inbound, call>>
  /\ UNCHANGED <<data, outbound, row, col, looking, env, hist>>

NextMove ==
  /\ pc = "next"
  /\ moves' = Rest
  /\ IF DOMAIN Rest # {}
     THEN pc' = "shift" /\ UNCHANGED <<col, looking>>
     ELSE IF looking
     THEN pc' = "app" /\ looking' = FALSE /\ UNCHANGED col
     ELSE pc' = "pair" /\ col' = col + 1 /\ UNCHANGED looking
  /\ UNCHANGED <<data, queue, row, call, env, hist>>

(***************************************************************************)
(* id_tier_loop.                                                           *)
(***************************************************************************)

BeginTierLoop ==
  /\ pc = "app"
  /\ Bounded
  /\ pc' = "pair" /\ row' = 1 /\ col' = 1
  /\ hist' = [hist EXCEPT !.loop = "running",
                          !.goal = {e \in ToSet(storage[Mem]) : e.id \in Own}]
  /\ UNCHANGED <<data, queue, moves, call, looking, env>>

\* The moves of one pair are computed from the indexes as they are now.
VisitPair ==
  /\ pc = "pair" /\ col <= Len(Order)
  /\ LET todo == PairMoves(Order[row], Order[col])
     IN  IF DOMAIN todo = {}
         THEN col' = col + 1 /\ UNCHANGED <<pc, moves>>
         ELSE pc' = "shift" /\ moves' = todo /\ UNCHANGED col
  /\ UNCHANGED <<data, queue, row, call, looking, env, hist>>

\* The state's own turn: its loop, whose exceptions are swallowed.
Turn ==
  /\ pc = "pair" /\ col > Len(Order)
  /\ CallLoop(Order[row], inbound[Order[row]], "refresh", "refresh")
  /\ UNCHANGED <<data, outbound, row, col, moves, looking, env, hist>>

\* update_cache: a disk whose timer is due reads its index from the folder.
Refresh ==
  /\ pc = "refresh"
  /\ \/ /\ Order[row] = Mem \/ Len(storage[Order[row]]) <= MaxIndex
        /\ UNCHANGED storage
     \/ /\ Order[row] # Mem
        /\ \E l \in Listings(files) : storage' = [storage EXCEPT ![Order[row]] = l]
  /\ col' = 1
  /\ IF row < Len(Order)
     THEN pc' = "pair" /\ row' = row + 1 /\ UNCHANGED hist
     ELSE /\ pc' = "app" /\ row' = 1
          /\ hist' = [hist EXCEPT !.loop = IF @ = "running" THEN "complete" ELSE @]
  /\ UNCHANGED <<id_vector, files, queue, moves, call, looking, env>>

(***************************************************************************)
(* The process dies and is started again: memory and queues are gone, the  *)
(* file being written may be cut short, the indexes are read from the      *)
(* folder by id_tier_init_disk.                                            *)
(***************************************************************************)
Crash ==
  /\ "crash" \in Faults /\ faults < MaxFaults
  /\ faults' = faults + 1
  /\ \/ UNCHANGED files
     \/ /\ AtEntry /\ call.tier # Mem
        /\ \E content \in {Empty, Torn, Current.val} :
             files' = [files EXCEPT ![Current.id][Current.mod] = content]
  /\ \E l \in [Disks -> Listings(files')] :
       storage' = [t \in Tiers |-> IF t = Mem THEN <<>> ELSE l[t]]
  /\ id_vector' = <<>>
  /\ inbound' = [t \in Tiers |-> <<>>] /\ outbound' = [t \in Tiers |-> <<>>]
  /\ pc' = "app" /\ row' = 1 /\ col' = 1
  /\ moves' = <<>> /\ call' = NoCall /\ looking' = FALSE
  /\ hist' = [hist EXCEPT !.loop = "none", !.goal = {}]
  /\ UNCHANGED <<born, edits>>

-----------------------------------------------------------------------------

App == \/ \E x \in Ids : Create(x) \/ Edit(x) \/ Lookup(x)
       \/ Churn

Flush == \/ FlushMem \/ FlushFails \/ FlushEnd
         \/ \E content \in -3..MaxEdits : FlushDisk(content)

\* What the thread does once id_tier_loop or get_id_ptr is entered.
Busy == \/ Flush
        \/ ShiftFetch \/ ShiftTake \/ ShiftEnd \/ NextMove
        \/ VisitPair \/ Turn \/ Refresh

Next == App \/ BeginTierLoop \/ Busy \/ Crash

Spec == Init /\ [][Next]_vars

\* The main loop reaches id_tier_loop again and again, whatever the other
\* subsystems do in between, and the thread does not stop inside a call.
Fairness == SF_vars(BeginTierLoop) /\ WF_vars(Busy)

FairSpec == Spec /\ Fairness

-----------------------------------------------------------------------------
(* Properties.                                                             *)

Labels == {"app", "pair", "shift", "take", "missed", "shifted", "threw",
           "next", "flush", "refresh"}

\* The variables hold data of their kind.
TypeOK ==
  /\ id_vector \in Seq(Datum)
  /\ storage \in [Tiers -> Seq(Entry)]
  /\ files \in [Ids -> [Mods -> -3..MaxEdits]]
  /\ inbound \in [Tiers -> Seq(Datum)] /\ outbound \in [Tiers -> Seq(Datum)]
  /\ pc \in Labels
  /\ row \in DOMAIN Order /\ col \in Nat \ {0}
  /\ DOMAIN moves \subseteq Nat /\ moves \in [DOMAIN moves -> Move]
  /\ call \in [tier : Tiers, k : Nat \ {0}, ret : Labels]
  /\ looking \in BOOLEAN
  /\ born \subseteq Ids /\ edits \in 0..MaxEdits /\ faults \in 0..MaxFaults
  /\ hist \in [stale : SUBSET Ids, goal : SUBSET Entry,
               loop : {"none", "running", "failed", "complete"}]

\* A disk index never names a file that is not in the folder, although two
\* tier states write to that folder and each keeps its own index.
DiskIndexSound ==
  \A d \in Disks : \A j \in DOMAIN storage[d] :
    files[storage[d][j].id][storage[d][j].mod] # NoFile

\* The memory index (id_buffer) has one entry per object, in the same order;
\* the version it lists may lag behind the object's but is never ahead of it.
MemIndexLags ==
  /\ DOMAIN storage[Mem] = DOMAIN id_vector
  /\ \A j \in DOMAIN id_vector :
       /\ storage[Mem][j].id = id_vector[j].id
       /\ storage[Mem][j].mod <= id_vector[j].mod

\* While the process runs, an object that has been found in memory stays
\* there, and the version a lookup finds never goes back, whatever older
\* copies the disks hand back to memory.
ViewGrows ==
  [][\A x \in Ids : View(x)' >= View(x) \/ id_vector' = <<>>]_vars

\* Data accepted for a disk stays queued until the file holds exactly it: no
\* failed open loses an entry, only a write that the system cut short or a
\* restart, which empties memory.
QueuedUntilStored ==
  [][\A d \in Disks : \A j \in DOMAIN outbound[d] :
       LET p == outbound[d][j]
       IN  \/ \E k \in DOMAIN outbound'[d] : outbound'[d][k] = p
           \/ files'[p.id][p.mod] \in {p.val, Empty, Torn}
           \/ id_vector' = <<>>]_vars

\* Tier states whose loop throws before it reaches the outbound queue.
Wedged(d) == \E j \in DOMAIN inbound[d] : ~Filled(inbound[d][j])

\* An id_tier_loop that ran to its end without a failed write has put every
\* object of ours, in the version the memory index listed when the loop began
\* or a newer one, on the disk, unless a request that no file can answer
\* blocks the queue of every disk, or a file of that object was damaged before
\* (the indexes list it like an intact one).
LoopPersists ==
  hist.loop = "complete" =>
    \/ \A d \in Disks : Wedged(d)
    \/ \A e \in hist.goal :
         \E m \in Mods : \/ m >= e.mod /\ files[e.id][m] >= 0
                         \/ files[e.id][m] \in {Empty, Torn}

\* All copies of a datum, wherever they are.
Copies(x) ==
  LET here(s) == {s[j] : j \in Match(s, x)}
  IN  here(id_vector)
      \union (UNION {here(inbound[t]) \union here(outbound[t]) : t \in Tiers})
      \union {[id |-> x, mod |-> m, val |-> files[x][m]] : m \in Mods}

\* A modification_incrementor identifies the content: two copies of an id
\* with the same one are equal, unless the program has once loaded a version
\* that was not the newest on disk and then edited it.
VersionIdentifiesContent ==
  \A x \in Ids \ hist.stale :
    \A a, b \in Copies(x) :
      a.mod = b.mod /\ a.val >= 0 /\ b.val >= 0 => a.val = b.val

\* What the memory index lists for an object of ours reaches the disk, or a
\* newer version does: writes that fail are retried until they succeed.
EventuallyOnDisk ==
  \A x \in Own : \A m \in Mods :
    (\E j \in DOMAIN storage[Mem] : storage[Mem][j] = [id |-> x, mod |-> m])
      ~> (\E n \in Mods : n >= m /\ files[x][n] >= 0)

\* The comment on id_vector and id_buffer (id_tier_memory.cpp:32-36): the two
\* are kept coupled, so the memory index always lists the current versions.
IndexCoupled == storage[Mem] = Index(id_vector)

(***************************************************************************)
(* The tiers implement a store of versions: what a lookup finds, and the   *)
(* versions the data folder holds intact.                                  *)
(***************************************************************************)
Store == INSTANCE VersionStore WITH
           view    <- [x \in Ids |-> View(x)],
           durable <- [x \in Ids |-> {m \in Mods : files[x][m] >= 0}]

\* Every step of the tiers is a step of VersionStore or leaves it alone.
ImplementsStore == Store!Spec

=============================================================================

------------------------------- MODULE IdSets -------------------------------
(***************************************************************************)
(* id/set/: a list of ids as a vector of bytes, the members that hold such *)
(* a vector (GET_SET_ID_VECTOR of id.h) and the buffer of ids and versions *)
(* of a tier state (id_tier_storage.cpp).  An id is its bytes: uuid, hash  *)
(* of the owner, type; the sizes of the parts are constants.               *)
(***************************************************************************)
EXTENDS Naturals, Sequences, SequencesExt, Results

CONSTANTS UuidSize, HashSize, TypeCount,
          SomeIds,       \* the ids that are put into sets
          MaxSet         \* bound on the length of a set

ASSUME IdSetsAssumption ==
  /\ UuidSize \in Nat \ {0} /\ HashSize \in Nat \ {0} /\ TypeCount \in Nat
  /\ MaxSet \in Nat

VARIABLES vector,        \* a member with an id set
          listed,        \* the ids put into it, in order (history)
          ids, modIncs,  \* the buffer of a tier state
          entries        \* the pairs put into the buffer (history)

idSetVars == <<vector, listed, ids, modIncs, entries>>

IdSize   == UuidSize + HashSize + 1
BlankId  == [i \in 1..IdSize |-> 0]
UuidOf(id) == SubSeq(id, 1, UuidSize)
HashOf(id) == SubSeq(id, UuidSize + 1, UuidSize + HashSize)
TypeOf(id) == id[IdSize]
Behind(s, n) == SubSeq(s, n + 1, Len(s))

\* assert_valid_id
ValidId(id) ==
  \/ id = BlankId
  \/ TypeOf(id) <= TypeCount /\ \E i \in 1..UuidSize : id[i] # 0

-----------------------------------------------------------------------------
(* The scheme that copies: the ids one behind the other, each in network   *)
(* byte order.                                                             *)

CopyScheme     == 1
UuidListScheme == 2

CompactCopy(list) == FlattenSeq([i \in DOMAIN list |-> Reverse(list[i])])

ExpandCopy(s) ==
  IF Len(s) % IdSize # 0 THEN Threw
  ELSE Returned([k \in 1..Len(s) \div IdSize |->
                   Reverse(SubSeq(s, (k - 1) * IdSize + 1, k * IdSize))])

-----------------------------------------------------------------------------
(* The scheme that lists the uuids of each owner.  Nothing chooses it when *)
(* a set is written; a set from outside may name it.                       *)

Separator == [i \in 1..UuidSize |-> IF i = UuidSize THEN 1 ELSE 0]

\* One group for each owner, in the order of the first id of each.
Owners(list) ==
  FoldLeft(LAMBDA seen, id : IF HashOf(id) \in ToSet(seen) THEN seen
                             ELSE Append(seen, HashOf(id)),
           <<>>, list)

CompactUuidList(list) ==
  LET Group(h) ==
        FlattenSeq([i \in DOMAIN SelectSeq(list, LAMBDA id : HashOf(id) = h) |->
          LET id == SelectSeq(list, LAMBDA one : HashOf(one) = h)[i]
          IN  Append(UuidOf(id), TypeOf(id))]) \o Separator \o h
  IN  FlattenSeq([k \in DOMAIN Owners(list) |-> Group(Owners(list)[k])])

\* find_first_seperator, from 1; 0 when there is none.
FirstSeparator(s) ==
  SelectInSeq([i \in 1..(Len(s) + 1 - UuidSize) |->
                 SubSeq(s, i, i + UuidSize - 1) = Separator],
              LAMBDA found : found)

\* One round of the loop: what precedes a separator is a group, and the
\* separator goes with it; a separator in front is followed by an owner.
ReadGroupAt(st, at) ==
  CASE at = 0 \/ st.threw -> st
    [] at > 1 /\ ~st.threw ->
         [rest   |-> Behind(st.rest, at - 1 + UuidSize),
          groups |-> Append(st.groups, SubSeq(st.rest, 1, at - 1)),
          hashes |-> Append(st.hashes, [i \in 1..HashSize |-> 0]), threw |-> FALSE]
    [] at = 1 /\ ~st.threw ->
         IF st.groups = <<>> \/ Len(st.rest) < UuidSize + HashSize
         THEN [st EXCEPT !.threw = TRUE]
         ELSE [st EXCEPT !.hashes[Len(st.groups)] =
                            SubSeq(st.rest, UuidSize + 1, UuidSize + HashSize),
                         !.rest = Behind(st.rest, UuidSize + HashSize)]
ReadGroup(st) == ReadGroupAt(st, FirstSeparator(st.rest))

\* (A group that is not made of whole entries is read past its end; here the
\* call throws.)
UuidListIds(st) ==
  LET entry == UuidSize + 1
      Read(g) == [k \in 1..Len(st.groups[g]) \div entry |->
                    LET e == SubSeq(st.groups[g], (k - 1) * entry + 1, k * entry)
                    IN  UuidOf(e) \o st.hashes[g] \o <<e[entry]>>]
  IN  IF \/ st.threw \/ st.rest # <<>>
         \/ \E g \in DOMAIN st.groups : Len(st.groups[g]) % entry # 0
      THEN Threw
      ELSE Returned(FlattenSeq([g \in DOMAIN st.groups |-> Read(g)]))
ExpandUuidList(s) ==
  UuidListIds(FoldLeft(LAMBDA acc, i : ReadGroup(acc),
                       [rest |-> s, groups |-> <<>>, hashes |-> <<>>, threw |-> FALSE],
                       [i \in DOMAIN s |-> i]))

-----------------------------------------------------------------------------
(* The sets the program uses.                                              *)

\* compact_id_set: ids are not checked when they are written ...
CompactIdSet(list) ==
  IF list = <<>> THEN <<>> ELSE <<CopyScheme>> \o CompactCopy(list)

\* Mutant: ... nor when they are read.
ExpandUnchecked(s) ==
  IF Len(s) <= 2 THEN Returned(<<>>) ELSE ExpandCopy(Tail(s))

\* expand_id_set: ... but when they are read.
ExpandIdSet(s) ==
  IF Len(s) <= 2 THEN Returned(<<>>)
  ELSE Then(CASE s[1] = CopyScheme     -> ExpandCopy(Tail(s))
              [] s[1] = UuidListScheme -> ExpandUuidList(Tail(s))
              [] OTHER                 -> Threw,
            LAMBDA list : IF \E i \in DOMAIN list : ~ValidId(list[i]) THEN Threw
                          ELSE Returned(list))

AddIdToSet(s, id) ==
  Then(ExpandIdSet(s), LAMBDA list : Returned(CompactIdSet(Append(list, id))))

DelIdFromSet(s, id) ==
  Then(ExpandIdSet(s), LAMBDA list :
    Returned(CompactIdSet(SelectSeq(list, LAMBDA one : one # id))))

-----------------------------------------------------------------------------
IdSetsInit ==
  /\ vector = <<>> /\ listed = <<>>
  /\ ids = <<>> /\ modIncs = <<>> /\ entries = <<>>

\* set_*(vector of ids)
SetVector(list) ==
  /\ vector' = CompactIdSet(list)
  /\ listed' = list
  /\ UNCHANGED <<ids, modIncs, entries>>

\* add_*(id): an exception leaves the member as it was.
AddToVector(id) ==
  /\ Len(listed) < MaxSet
  /\ \E new \in {AddIdToSet(vector, id)} :
       IF new.threw THEN UNCHANGED <<vector, listed>>
       ELSE vector' = new.value /\ listed' = Append(listed, id)
  /\ UNCHANGED <<ids, modIncs, entries>>

\* del_*(id)
DelFromVector(id) ==
  /\ \E new \in {DelIdFromSet(vector, id)} :
       IF new.threw THEN UNCHANGED <<vector, listed>>
       ELSE /\ vector' = new.value
            /\ listed' = SelectSeq(listed, LAMBDA one : one # id)
  /\ UNCHANGED <<ids, modIncs, entries>>

\* id_tier_state_storage_t::add_id_buffer
AddIdBuffer(id, version) ==
  /\ Len(modIncs) < MaxSet
  /\ \E new \in {AddIdToSet(ids, id)} :
       IF new.threw THEN UNCHANGED <<ids, modIncs, entries>>
       ELSE /\ ids' = new.value
            /\ modIncs' = Append(modIncs, version)
            /\ entries' = Append(entries, <<id, version>>)
  /\ UNCHANGED <<vector, listed>>

\* set_id_buffer
SetIdBuffer(pairs) ==
  /\ ids' = CompactIdSet([i \in DOMAIN pairs |-> pairs[i][1]])
  /\ modIncs' = [i \in DOMAIN pairs |-> pairs[i][2]]
  /\ entries' = pairs
  /\ UNCHANGED <<vector, listed>>

\* del_id_buffer: the ASSERT compares the number of versions with the number
\* of bytes, so that a call on a buffer that is not empty throws.  (On an empty
\* one it erases the end of a vector, which nothing defines.)
DelIdBuffer(id) ==
  /\ modIncs # <<>>
  /\ IF Len(modIncs) # Len(ids) THEN UNCHANGED <<ids, modIncs, entries>>
     ELSE /\ modIncs' = Behind(modIncs, 1)
          /\ entries' = SelectSeq(entries, LAMBDA e : e[1] # id)
          /\ ids' = ids
  /\ UNCHANGED <<vector, listed>>

\* get_id_buffer reads the ids with get_ids and pairs them with the versions;
\* get_entry_meta wants as many extras as ids: the state holds the list of
\* allowed extras there.
EntryMeta(id, extras) ==
  Then(ExpandIdSet(ids), LAMBDA list :
    LET at == SelectInSeq(list, LAMBDA one : one = id)
    IN  IF at = 0 \/ Len(list) # Len(modIncs) \/ Len(list) # Len(extras) THEN Threw
        ELSE Returned(<<id, modIncs[at], extras[at]>>))

VectorNext ==
  \/ \E id \in SomeIds : AddToVector(id) \/ DelFromVector(id)
  \/ \E a, b \in SomeIds : SetVector(<<a, b>>)

BufferNext ==
  \/ \E id \in SomeIds, v \in 1..2 : AddIdBuffer(id, v)
  \/ \E id \in SomeIds : DelIdBuffer(id)
  \/ \E a, b \in SomeIds : SetIdBuffer(<<<<a, 1>>, <<b, 2>>>>)

-----------------------------------------------------------------------------
\* The buffer of a tier state pairs each id with its version, whatever calls
\* failed in between; an entry that is found is found with its own version and
\* an extra.
BufferPairs ==
  /\ Len(modIncs) = Len(entries)
  /\ \A read \in {ExpandIdSet(ids)} :
       IF \A i \in DOMAIN entries : ValidId(entries[i][1])
       THEN /\ ~read.threw
            /\ \A i \in DOMAIN entries : <<read.value[i], modIncs[i]>> = entries[i]
       ELSE read.threw
  /\ \A meta \in {EntryMeta(id, <<0, 2>>) : id \in SomeIds} : ~meta.threw =>
       \E i \in 1..2 : entries[i] = <<meta.value[1], meta.value[2]>>

\* A set reads back as the ids put into it, in their order and with their
\* repetitions; it cannot be read, changed or cleaned when one of them is not
\* valid, though it could be written.  The same ids under the scheme of the
\* uuid lists never read back.  And the ids of a tier's buffer stay with their
\* versions (id_set.cpp, id_set_copy.cpp, id_set_uuid_list.cpp,
\* id_tier_storage.cpp).
IdSetsReadBack ==
  /\ \A read \in {ExpandIdSet(vector)} :
       IF \A i \in DOMAIN listed : ValidId(listed[i])
       THEN ~read.threw /\ read.value = listed ELSE read.threw
  /\ listed # <<>> =>
       \A other \in {ExpandIdSet(<<UuidListScheme>> \o CompactUuidList(listed))} :
         other.threw \/ other.value # listed
  /\ BufferPairs

=============================================================================

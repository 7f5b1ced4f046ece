---------------------------- MODULE IdTransport ----------------------------
(***************************************************************************)
(* id_export.cpp, id_import.cpp, id_transport*.cpp and the raw namespace   *)
(* of id_api.cpp: an object as bytes, the layers that are put around the   *)
(* bytes (compressed, encrypted), what is stripped from them for a tier,   *)
(* and the import into an object that may hold older data.  A byte is a    *)
(* number below Base; the sizes of the fixed fields are constants.         *)
(***************************************************************************)
EXTENDS Naturals, Sequences, SequencesExt, Results

CONSTANTS Base,       \* 256
          Kinds,      \* the kinds of the members, in the order they are listed
          MemberRules,\* their rules: [tier, intermediary], sequences
          Values,     \* for each kind the values a member takes
          RawLength,  \* bytes of a raw member, and of an id member
          EightLength,\* bytes of an element of an eight byte vector
          IdBytes,    \* the id of the object
          IncLength,  \* bytes of the modification incrementor
          StripRules, \* rules a tier asks for
          OwnerKeys,  \* keys an owner may encrypt with: [length, fits], its bytes,
                      \* and whether the modulus has the 4096 bits that
                      \* decrypt_aes192_sha256 wants
          LeastKeyBits,    \* 2048 + 13
          CompressedSizes, \* sizes that zstd may compress to
          MaxInc      \* bound on the changes of the sender

ASSUME TransportAssumption ==
  /\ Base \in Nat \ {0, 1} /\ Len(Kinds) < Base
  /\ RawLength \in Nat \ {0} /\ EightLength \in Nat \ {0}
  /\ IncLength \in Nat \ {0} /\ MaxInc < Base^IncLength
  /\ OwnerKeys # {} /\ OwnerKeys \subseteq [length : Nat, fits : BOOLEAN]
  /\ LeastKeyBits \in Nat /\ CompressedSizes \subseteq Nat

VARIABLES isKey,      \* the object is a public or private key
          ownerKey,   \* the key of its owner
          sender,     \* the object that is exported: [members, inc]
          wire,       \* its bytes under way
          receiver,   \* the object that is imported into
          keyKnown,   \* the receiver has the public key of the owner
          sent,       \* the members when they were exported (history)
          stripped,   \* the rules asked for since (history)
          before,     \* the receiver when the last import began (history)
          imported    \* what the last import came to (history)

transportVars ==
  <<isKey, ownerKey, sender, wire, receiver, keyKnown, sent, stripped, before, imported>>

Encrypted  == 1          \* ID_EXTRA_ENCRYPT
Compressed == 2          \* ID_EXTRA_COMPRESS
HasBit(extra, bit) == (extra \div bit) % 2 = 1

\* What a read gives: a value, and the bytes that are left.
Read(v, rest)  == Returned([of |-> v, rest |-> rest])
After(s, n)    == SubSeq(s, n + 1, Len(s))

-----------------------------------------------------------------------------
(* Fields (id_transport.cpp).  Every field is turned into network order.   *)

\* The k digits of n, the highest first.
Digits(n, k) == [i \in 1..k |-> (n \div Base^(k - i)) % Base]
NumberOf(s)  == FoldLeft(LAMBDA acc, d : acc * Base + d, 0, s)

\* A size: the number of its bytes, one to seven, and the bytes.
ExportSize(n) ==
  LET k == CHOOSE i \in 1..7 : n < Base^i /\ \A j \in 1..(i - 1) : n >= Base^j
  IN  <<k>> \o Digits(n, k)

\* Mutant: a size with as many bytes as it needs is read one byte short.
ImportSizeShort(s) ==
  IF s = <<>> \/ Len(s) < s[1] + 1 THEN Threw
  ELSE Read(NumberOf(SubSeq(s, 2, s[1])), After(s, s[1] + 1))

ImportSize(s) ==
  IF s = <<>> \/ Len(s) < s[1] + 1 \/ s[1] > 8 THEN Threw
  ELSE Read(NumberOf(SubSeq(s, 2, s[1] + 1)), After(s, s[1] + 1))

\* A field of fixed length has no size in front.
ExportStatic(payload) == Reverse(payload)
ImportStatic(s, n) ==
  IF Len(s) < n THEN Threw ELSE Read(Reverse(SubSeq(s, 1, n)), After(s, n))

Export8Bit(payload) == <<Len(payload)>> \o Reverse(payload)
\* (A vector that ends too early is read past its end; here the call throws.)
Import8Bit(s) ==
  IF s = <<>> \/ Len(s) < s[1] + 1 THEN Threw
  ELSE Read(Reverse(SubSeq(s, 2, s[1] + 1)), After(s, s[1] + 1))

ExportDynamic(payload) == ExportSize(Len(payload)) \o Reverse(payload)
ImportDynamic(s) ==
  Then(ImportSize(s), LAMBDA n :
    IF Len(n.rest) < n.of THEN Threw
    ELSE Read(Reverse(SubSeq(n.rest, 1, n.of)), After(n.rest, n.of)))

\* The rules of a member: its tiers, two bytes each, and its intermediaries.
StringifyRules(rules) ==
  Export8Bit(FlattenSeq(rules.tier)) \o Export8Bit(rules.intermediary)
UnstringifyRules(s) ==
  Then(Import8Bit(s), LAMBDA tiers :
    IF Len(tiers.of) % 2 # 0 THEN Threw
    ELSE Then(Import8Bit(tiers.rest), LAMBDA inter :
           Read([tier |-> [i \in 1..Len(tiers.of) \div 2 |->
                             SubSeq(tiers.of, 2 * i - 1, 2 * i)],
                 intermediary |-> inter.of], inter.rest)))

-----------------------------------------------------------------------------
(* Members (id_transport_data_ptr.cpp).                                    *)

\* export_standardize_data_ptr: the parts of a member that have bytes, each
\* with its position.  Only rows have several.
Standardized(kind, value) ==
  IF kind # "rows"
  THEN IF value = <<>> THEN <<>> ELSE <<[pos |-> 0, bytes |-> value]>>
  ELSE SelectSeq([i \in DOMAIN value |-> [pos |-> i - 1, bytes |-> value[i]]],
                 LAMBDA part : part.bytes # <<>>)

\* export_ptr_from_data_id_ptr: a member without bytes leaves nothing behind,
\* one with two rows that have bytes cannot be exported.
ExportMember(i, value, rules) ==
  LET parts == Standardized(Kinds[i], value)
  IN  IF parts = <<>> THEN Returned(<<>>)
      ELSE IF Len(parts) > 1 THEN Threw
      ELSE Returned(Digits(i - 1, 2) \o StringifyRules(rules) \o ExportSize(1)
                      \o ExportSize(parts[1].pos) \o ExportDynamic(parts[1].bytes))

\* nether_add_at_pos: the parts by position; a position is filled once.
AddAtPos(nether, bytes, pos) ==
  LET wide == nether \o [k \in 1..(pos + 1 - Len(nether)) |-> <<>>]
  IN  IF wide[pos + 1] # <<>> THEN Threw
      ELSE Returned([wide EXCEPT ![pos + 1] = bytes])

\* One part: its position and its payload.
ImportPart(nether, s) ==
  Then(ImportSize(s), LAMBDA pos :
    Then(ImportDynamic(pos.rest), LAMBDA load :
      Then(AddAtPos(nether, load.of, pos.of), LAMBDA wide : Read(wide, load.rest))))

\* The parts of an entry, of which the first size says how many there are.
ImportParts(s) ==
  Then(ImportSize(s), LAMBDA count :
    FoldLeft(LAMBDA acc, k : Then(acc, LAMBDA st : ImportPart(st.of, st.rest)),
             Read(<<>>, count.rest), [k \in 1..count.of |-> k]))

\* An entry: which member, its rules, its parts.
ImportEntry(s) ==
  Then(ImportStatic(s, 2), LAMBDA which :
    Then(UnstringifyRules(which.rest), LAMBDA rules :
      Then(ImportParts(rules.rest), LAMBDA parts :
        Read([member |-> NumberOf(Reverse(which.of)) + 1,
              rules |-> rules.of, nether |-> parts.of], parts.rest))))

\* import_standardize_data_ptr and the copying behind it: what the member
\* becomes, and whether the call throws.  Rows are given two positions, and
\* filled with zeros first: one position only leaves the zeros behind.
Zeros(n) == [k \in 1..n |-> 0]
ImportMember(kind, old, nether) ==
  LET whole == [value |-> nether[1], threw |-> FALSE]
      none  == [value |-> old, threw |-> TRUE]
  IN  CASE kind \in {"raw", "id"} ->
             IF Len(nether) = 1 /\ Len(nether[1]) = RawLength THEN whole ELSE none
        [] kind = "bytes" -> IF Len(nether) = 1 THEN whole ELSE none
        [] kind = "eights" ->
             IF Len(nether) = 1 /\ Len(nether[1]) % EightLength = 0
             THEN whole ELSE none
        [] kind = "rows" ->
             CASE Len(nether) = 2 -> [value |-> nether, threw |-> FALSE]
               [] Len(nether) = 1 -> [value |-> <<Zeros(1), Zeros(Len(nether[1]))>>,
                                      threw |-> TRUE]
               [] OTHER           -> none

-----------------------------------------------------------------------------
(* Whole objects.                                                          *)

\* data_id_t::export_data, for the owner: throws when a member cannot be
\* exported.  The bytes begin with the preamble, which nothing encrypts.
ExportData(obj) ==
  LET parts == [i \in DOMAIN Kinds |-> ExportMember(i, obj.members[i], MemberRules[i])]
  IN  IF \E i \in DOMAIN parts : parts[i].threw THEN Threw
      ELSE Returned([extra |-> 0,
                     head  |-> ExportStatic(IdBytes) \o Digits(obj.inc, IncLength),
                     body  |-> [form  |-> "plain",
                                bytes |-> FlattenSeq([i \in DOMAIN parts |->
                                                        parts[i].value])]])

\* What an entry does to the members; acc.stop: an exception ended the loop.
TakeEntry(acc, entry, got, stop) ==
  [acc EXCEPT !.members[entry.of.member] = got.value, !.stop = stop,
              !.rest = entry.rest]
Got(acc, entry) ==
  ImportMember(Kinds[entry.member], acc.members[entry.member], entry.nether)
Unread(acc, entry) == entry.threw \/ entry.value.of.member \notin DOMAIN Kinds

\* One round of the loop in import_data; the first exception ends the loop,
\* and nobody hears of it.
ImportRead(acc, entry) ==
  IF Unread(acc, entry) THEN [acc EXCEPT !.stop = TRUE]
  ELSE TakeEntry(acc, entry.value, Got(acc, entry.value.of),
                 Got(acc, entry.value.of).threw)
ImportNext(acc) ==
  IF acc.stop \/ acc.rest = <<>> THEN acc ELSE ImportRead(acc, ImportEntry(acc.rest))

ImportBytes(obj, w) ==
  LET inc  == NumberOf(After(w.head, Len(IdBytes)))
      read == FoldLeft(LAMBDA acc, k : ImportNext(acc),
                       [members |-> obj.members, rest |-> w.body.bytes, stop |-> FALSE],
                       [k \in DOMAIN w.body.bytes |-> k])
  IN  [members |-> read.members, inc |-> inc]

-----------------------------------------------------------------------------
(* Layers (id_api::raw, encrypt.cpp, compress.cpp).  A body is plain, or   *)
(* the compression or the encryption of a body.  Its first byte names the  *)
(* scheme, and opening a layer with the tool of the other one fails, but   *)
(* for one case: ENCRYPT_RSA and COMPRESS_NONE are both 1.                 *)

Size(body) == IF body.form = "plain" THEN Len(body.bytes) ELSE body.size

\* encrypt_gen_optimal_encrypt: what does not fit the key is encrypted with a
\* key of its own, which is then encrypted in front.
Scheme(body) == IF Size(body) + 13 <= ownerKey.length THEN "rsa" ELSE "aes"

\* Keys are not encrypted, nor is an object without a payload; a key that is
\* too short is refused.
Encrypt(w) ==
  IF isKey \/ (w.body.form = "plain" /\ w.body.bytes = <<>>) THEN Returned(w)
  ELSE IF ownerKey.length * 8 < LeastKeyBits THEN Threw
  ELSE Returned(
    [w EXCEPT !.body = [form |-> "encrypted", scheme |-> Scheme(w.body), of |-> w.body],
              !.extra = IF HasBit(@, Encrypted) THEN @ ELSE @ + Encrypted])

Compress(w, size) ==
  [w EXCEPT !.body = [form |-> "compressed", size |-> size, of |-> w.body],
            !.extra = @ + Compressed]

\* The public key is looked up by the hash in the id; the header of an AES
\* body is taken to be as long as a 4096 bit key makes it.
Decrypt(w, key) ==
  IF \/ ~key \/ w.body.form # "encrypted"
     \/ (w.body.scheme = "aes" /\ ~ownerKey.fits)
  THEN Threw
  ELSE Returned([w EXCEPT !.body = w.body.of, !.extra = w.extra - Encrypted])

\* An RSA body is taken for one that is not compressed: it loses its first
\* byte, and nothing opens what is left.
Torn(body) == [form |-> "torn", of |-> body]
TakesForNone(body) == body.form = "encrypted" /\ body.scheme = "rsa"
Decompress(w) ==
  LET open(body) == Returned([w EXCEPT !.body = body, !.extra = w.extra - Compressed])
  IN  CASE w.body.form = "compressed" -> open(w.body.of)
        [] TakesForNone(w.body)       -> open(Torn(w.body))
        [] OTHER                      -> Threw

\* What is on and not wanted, and what is wanted and not on.
Unwanted(w, extra, bit) == HasBit(w.extra, bit) /\ ~HasBit(extra, bit)
Missing(w, extra, bit)  == ~HasBit(w.extra, bit) /\ HasBit(extra, bit)
PutOn(w, plain, extra, size) ==
  Then(IF Missing(w, extra, Encrypted) THEN Encrypt(plain) ELSE Returned(plain),
       LAMBDA e : Returned(IF Missing(w, extra, Compressed) THEN Compress(e, size) ELSE e))
Asked(w, extra) == IF w.extra = extra THEN Returned(w) ELSE Threw

\* Mutant: the layers are taken off in the opposite order.
ForceDecompressFirst(w, extra, size, key) ==
  Then(IF Unwanted(w, extra, Compressed) THEN Decompress(w) ELSE Returned(w), LAMBDA d1 :
    Then(IF Unwanted(w, extra, Encrypted) THEN Decrypt(d1, key) ELSE Returned(d1),
         LAMBDA d2 : Then(PutOn(w, d2, extra, size), LAMBDA e : Asked(e, extra))))

\* force_to_extra: decrypt, decompress, encrypt, compress, in this order, as
\* far as the extra byte differs; throws unless the byte is then the one asked.
\* size: what zstd compresses to, if it comes to that.
ForceToExtra(w, extra, size, key) ==
  Then(IF Unwanted(w, extra, Encrypted) THEN Decrypt(w, key) ELSE Returned(w), LAMBDA d1 :
    Then(IF Unwanted(w, extra, Compressed) THEN Decompress(d1) ELSE Returned(d1),
         LAMBDA d2 : Then(PutOn(w, d2, extra, size), LAMBDA e : Asked(e, extra))))

\* Everything off.
Open(w, key) == ForceToExtra(w, 0, 0, key)

-----------------------------------------------------------------------------
(* Stripping for a tier.                                                   *)

\* import_to_vectorized: the entries; throws on bytes it cannot read.
Entries(bytes) ==
  FoldLeft(LAMBDA acc, k : Then(acc, LAMBDA st :
             IF st.rest = <<>> THEN acc
             ELSE Then(ImportEntry(st.rest), LAMBDA entry :
                    Read(Append(st.of, entry.of), entry.rest))),
           Read(<<>>, bytes), [k \in DOMAIN bytes |-> k])

\* export_to_vectorized: every position is written, those without bytes too.
ExportEntry(entry) ==
  Digits(entry.member - 1, 2) \o StringifyRules(entry.rules)
    \o ExportSize(Len(entry.nether))
    \o FlattenSeq([k \in DOMAIN entry.nether |->
                     ExportSize(k - 1) \o ExportDynamic(entry.nether[k])])

\* An entry stays when its rules have the tier and the intermediary asked for;
\* asking for none is asking for any.
Allowed(rules, asked) ==
  /\ asked.tier = <<>> \/ ToSet(rules.tier) \cap ToSet(asked.tier) # {}
  /\ asked.intermediary = <<>>
       \/ ToSet(rules.intermediary) \cap ToSet(asked.intermediary) # {}

StripToTransportable(w, asked, key) ==
  Then(Open(w, key), LAMBDA plain :
    Then(Entries(plain.body.bytes), LAMBDA all :
      LET kept == SelectSeq(all.of, LAMBDA entry : Allowed(entry.rules, asked))
      IN  Returned([plain EXCEPT !.body.bytes =
                      FlattenSeq([k \in DOMAIN kept |-> ExportEntry(kept[k])])])))

-----------------------------------------------------------------------------
NoWire == [extra |-> 0, head |-> <<>>, body |-> [form |-> "plain", bytes |-> <<>>]]
EmptyMember(kind) == IF kind \in {"raw", "id"} THEN Zeros(RawLength) ELSE <<>>
NewObject == [members |-> [i \in DOMAIN Kinds |-> EmptyMember(Kinds[i])], inc |-> 0]

TransportInit ==
  /\ sender = NewObject /\ receiver = NewObject /\ before = NewObject
  /\ wire = NoWire /\ keyKnown = FALSE /\ isKey \in BOOLEAN /\ ownerKey \in OwnerKeys
  /\ sent = NewObject.members /\ stripped = {} /\ imported = "nothing"

\* A setter: the new value, and the modification incrementor.
SetMember(i, v) ==
  /\ sender.inc < MaxInc
  /\ v # sender.members[i]
  /\ sender' = [sender EXCEPT !.members[i] = v, !.inc = @ + 1]
  /\ UNCHANGED <<isKey, ownerKey, wire, receiver, keyKnown, sent, stripped, before, imported>>

Export ==
  /\ \E out \in {ExportData(sender)} :
       IF out.threw THEN UNCHANGED <<wire, sent, stripped, imported>>
       ELSE /\ wire' = out.value
            /\ sent' = sender.members
            /\ stripped' = {}
            /\ imported' = "nothing"
  /\ UNCHANGED <<isKey, ownerKey, sender, receiver, keyKnown, before>>

\* A tier takes the data in the form it wants; what throws stays as it was.
Seal(extra) ==
  /\ wire # NoWire
  /\ \E size \in CompressedSizes : \E out \in {ForceToExtra(wire, extra, size, TRUE)} :
       wire' = IF out.threw THEN wire ELSE out.value
  /\ imported' = "nothing"
  /\ UNCHANGED <<isKey, ownerKey, sender, receiver, keyKnown, sent, stripped, before>>

\* shift_data strips the own data for the tier it goes to; nothing left is
\* nothing sent.
Strip(asked) ==
  /\ wire # NoWire
  /\ \E out \in {StripToTransportable(wire, asked, TRUE)} :
       IF out.threw THEN UNCHANGED <<wire, stripped>>
       ELSE /\ wire' = IF out.value.body.bytes = <<>> THEN NoWire ELSE out.value
            /\ stripped' = stripped \cup {asked}
  /\ imported' = "nothing"
  /\ UNCHANGED <<isKey, ownerKey, sender, receiver, keyKnown, sent, before>>

LearnKey ==
  /\ ~keyKnown /\ keyKnown' = TRUE
  /\ UNCHANGED <<isKey, ownerKey, sender, wire, receiver, sent, stripped, before, imported>>

\* data_id_t::import_data; data that cannot be opened changes nothing.
ImportData ==
  /\ wire # NoWire
  /\ before' = receiver
  /\ \E plain \in {Open(wire, keyKnown)} :
       IF plain.threw THEN receiver' = receiver /\ imported' = "threw"
       ELSE receiver' = ImportBytes(receiver, plain.value) /\ imported' = "returned"
  /\ UNCHANGED <<isKey, ownerKey, sender, wire, keyKnown, sent, stripped>>

TransportNext ==
  \/ \E i \in DOMAIN Kinds : \E v \in Values[Kinds[i]] : SetMember(i, v)
  \/ Export
  \/ \E extra \in 0..3 : Seal(extra)
  \/ \E asked \in StripRules : Strip(asked)
  \/ LearnKey
  \/ ImportData

TransportSpec == TransportInit /\ [][TransportNext]_transportVars

-----------------------------------------------------------------------------
\* The members that travelled: those with bytes, and with rules that fit.
Travelled ==
  {i \in DOMAIN Kinds : /\ Standardized(Kinds[i], sent[i]) # <<>>
                        /\ \A asked \in stripped : Allowed(MemberRules[i], asked)}
\* The first of them that cannot be read back ends the import: rows whose one
\* row with bytes is not the second.
FirstBad ==
  LET bad == {i \in Travelled : /\ Kinds[i] = "rows"
                                /\ Standardized(Kinds[i], sent[i])[1].pos # 1}
  IN  IF bad = {} THEN Len(Kinds) + 1 ELSE CHOOSE i \in bad : \A j \in bad : i <= j

\* An import leaves exactly this: the members that had bytes, were allowed to
\* travel and come before one that cannot be read are those of the sender;
\* every other member is the one the receiver had, also where the sender's is
\* empty now; and the version is the sender's all the same (export_data,
\* import_data, strip_to_transportable, id_transport.cpp).
ObjectsTravel ==
  imported = "returned" =>
    /\ receiver.inc = NumberOf(After(wire.head, Len(IdBytes)))
    /\ \A i \in DOMAIN Kinds :
         /\ i \in Travelled /\ i < FirstBad =>
              Standardized(Kinds[i], receiver.members[i]) = Standardized(Kinds[i], sent[i])
         /\ i \notin Travelled \/ i > FirstBad =>
              receiver.members[i] = before.members[i]

\* Data can be opened again unless the compression was put around the
\* encryption, the compression was taken off from under it (an RSA body is torn
\* then), the key is not there or is not of the length an AES header needs; what
\* fails leaves the receiver as it was.  The layers keep step with the extra
\* byte (force_to_extra, encrypt, decrypt, compress, decompress).
SealsOpen ==
  LET opens == CASE wire.extra = 0 -> TRUE
                 [] wire.extra = Compressed -> TRUE
                 [] OTHER -> /\ wire.body.form = "encrypted"
                             /\ keyKnown
                             /\ wire.body.scheme = "aes" => ownerKey.fits
  IN  /\ Open(wire, keyKnown).threw = ~opens
      /\ imported = "threw" => receiver = before
      /\ isKey => wire.extra \in {0, Compressed}

=============================================================================

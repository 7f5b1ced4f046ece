--------------------------- MODULE FormatProofs ---------------------------
(***************************************************************************)
(* What a node keeps and sends as files and bytes: KeysStay of Bootstrap,  *)
(* for any number of pairs, disk states and faults, SealsOpen of           *)
(* IdTransport, for all members, rules and tiers, and ListsWalk and        *)
(* ScrollFinds of Frames, for vectors of any length and any gaps.          *)
(***************************************************************************)
EXTENDS Bootstrap, IdTransport, Frames, SequenceLemmas

\* Files, the pair of the process and the history are of their kind.
KeysTyped ==
  /\ keyFiles \in [KeyKinds -> [1..MaxPairs -> {"none", "whole", "torn"}]]
  /\ pairs \in 0..MaxPairs /\ node \in {0, pairs}
  /\ writes \in Seq(KeyKinds) /\ writeAt \in Nat \ {0}
  /\ founded \subseteq {pairs}
  /\ spoiled \in BOOLEAN /\ halved \in BOOLEAN /\ refused \in BOOLEAN

\* A private key in the folder is that of the last pair, and stays if its pair
\* has been on disk.
LastPairOnly ==
  /\ \A pair \in InFolder("priv") : pair = pairs
  /\ founded # {} => pairs \in InFolder("priv")

\* What a start needs is there, or the history says why it is not: always for
\* damaged files, and for a missing public key while no process runs.
StartIsKnown ==
  /\ \A kind \in KeyKinds, pair \in 1..MaxPairs : keyFiles[kind][pair] = "torn" => spoiled
  /\ node = 0 /\ pairs \in InFolder("priv") => pairs \in InFolder("pub") \/ spoiled \/ halved
  /\ refused => spoiled \/ halved

KeysInv == KeysTyped /\ LastPairOnly /\ StartIsKnown

USE BootstrapAssumption

LEMMA KeysInitInv == KeysInit => KeysInv
<1> SUFFICES ASSUME KeysInit PROVE KeysInv
  OBVIOUS
<1> USE DEF KeysInit
<1>1. KeysTyped
  <2>1. keyFiles \in [KeyKinds -> [1..MaxPairs -> {"none", "whole", "torn"}]]
    <3>1. [pair \in 1..MaxPairs |-> "none"] \in [1..MaxPairs -> {"none", "whole", "torn"}]
      OBVIOUS
    <3>2. QED
      BY <3>1
  <2>2. writes \in Seq(KeyKinds)
    OBVIOUS
  <2>3. pairs \in 0..MaxPairs /\ node \in {0, pairs} /\ writeAt \in Nat \ {0}
    OBVIOUS
  <2>4. QED
    BY <2>1, <2>2, <2>3 DEF KeysTyped
<1>2. InFolder("priv") = {}
  BY DEF InFolder, KeyKinds
<1>3. LastPairOnly /\ StartIsKnown
  BY <1>2 DEF LastPairOnly, StartIsKnown
<1>4. QED
  BY <1>1, <1>3 DEF KeysInv

\* A new pair is made only when no private key is there.
LEMMA FirstBootInv == KeysInv /\ FirstBoot => KeysInv'
<1> SUFFICES ASSUME KeysInv, FirstBoot PROVE KeysInv'
  OBVIOUS
<1> USE DEF FirstBoot, keyHistory
<1>1. founded = {}
  BY DEF KeysInv, LastPairOnly, NoPrivateKey
<1>2. KeysTyped'
  <2>1. writes' \in Seq(KeyKinds)
    BY DEF KeyKinds
  <2>2. QED
    BY <1>1, <2>1 DEF KeysInv, KeysTyped
<1>3. LastPairOnly'
  BY <1>1 DEF KeysInv, LastPairOnly, NoPrivateKey, InFolder
<1>4. StartIsKnown'
  BY DEF KeysInv, KeysTyped, StartIsKnown, InFolder
<1>5. QED
  BY <1>2, <1>3, <1>4 DEF KeysInv

LEMMA LoadKeysInv == KeysInv /\ LoadKeys => KeysInv'
<1> SUFFICES ASSUME KeysInv, LoadKeys PROVE KeysInv'
  OBVIOUS
<1> USE DEF LoadKeys, keyHistory
<1>1. node' = pairs /\ pairs # 0
  BY DEF KeysInv, LastPairOnly, InFolder
<1>2. KeysTyped'
  BY <1>1 DEF KeysInv, KeysTyped, KeyKinds
<1>3. LastPairOnly' /\ StartIsKnown'
  BY <1>1 DEF KeysInv, LastPairOnly, StartIsKnown, InFolder
<1>4. QED
  BY <1>2, <1>3 DEF KeysInv

\* The one private key that is there cannot be loaded: it or its public key is
\* damaged, or that one is missing.
LEMMA RefuseStartInv == KeysInv /\ RefuseStart => KeysInv'
<1> SUFFICES ASSUME KeysInv, RefuseStart PROVE KeysInv'
  OBVIOUS
<1> USE DEF RefuseStart
<1>1. InFolder("priv") = {pairs} /\ pairs \in 1..MaxPairs
  BY DEF KeysInv, LastPairOnly, NoPrivateKey, InFolder
<1>2. ~Whole(pairs)
  BY <1>1
<1>3. PICK kind \in KeyKinds : keyFiles[kind][pairs] # "whole"
  BY <1>2 DEF Whole
<1>4. keyFiles[kind][pairs] \in {"none", "torn"}
  BY <1>1, <1>3 DEF KeysInv, KeysTyped
<1>5. spoiled \/ halved
  <2>1. CASE keyFiles[kind][pairs] = "torn"
    BY <1>1, <2>1 DEF KeysInv, StartIsKnown
  <2>2. CASE keyFiles[kind][pairs] = "none"
    <3>1. kind = "pub"
      BY <1>1, <2>2 DEF InFolder, KeyKinds
    <3>2. QED
      BY <1>1, <2>2, <3>1 DEF KeysInv, StartIsKnown, InFolder
  <2>3. QED
    BY <1>4, <2>1, <2>2
<1>6. QED
  BY <1>5 DEF KeysInv, KeysTyped, LastPairOnly, StartIsKnown, InFolder

\* What a write leaves in the folder: the key of the running node, whole or torn.
LEMMA WrittenLeaves ==
  ASSUME KeysInv, node # 0, NEW content \in {"whole", "torn"},
         Key \in KeyKinds, Written(content)
  PROVE  /\ keyFiles' \in [KeyKinds -> [1..MaxPairs -> {"none", "whole", "torn"}]]
         /\ node = pairs /\ pairs \in 1..MaxPairs
         /\ keyFiles'[Key][node] = content
         /\ \A kind \in KeyKinds, pair \in 1..MaxPairs :
              <<kind, pair>> # <<Key, node>> => keyFiles'[kind][pair] = keyFiles[kind][pair]
BY DEF KeysInv, KeysTyped, Written

LEMMA WritingKey ==
  ASSUME KeysInv, Writing
  PROVE  Key \in KeyKinds /\ RemoveAt(writes, writeAt) \in Seq(KeyKinds)
<1>1. writes \in Seq(KeyKinds) /\ writeAt \in 1..Len(writes)
  BY DEF KeysInv, KeysTyped, Writing
<1>2. Key \in KeyKinds
  BY <1>1 DEF Key
<1>3. RemoveAt(writes, writeAt) \in Seq(KeyKinds)
  BY <1>1 DEF RemoveAt
<1>4. QED
  BY <1>2, <1>3

\* The folder and its history after a write.
LEMMA WriteFiles ==
  ASSUME KeysInv, node # 0, NEW content \in {"whole", "torn"},
         Key \in KeyKinds, Written(content), UNCHANGED pairs,
         founded' \in {founded, founded \cup {node}},
         founded' # founded => keyFiles'["priv"][node] = "whole",
         spoiled' \in BOOLEAN, spoiled => spoiled', content = "torn" => spoiled'
  PROVE  /\ founded' \subseteq {pairs'}
         /\ LastPairOnly'
         /\ \A kind \in KeyKinds, pair \in 1..MaxPairs :
              keyFiles'[kind][pair] = "torn" => spoiled'
<1> DEFINE Here == /\ node = pairs /\ pairs \in 1..MaxPairs
                   /\ keyFiles'[Key][node] = content
           Else == \A kind \in KeyKinds, pair \in 1..MaxPairs :
                     <<kind, pair>> # <<Key, node>> => keyFiles'[kind][pair] = keyFiles[kind][pair]
<1>1. Here /\ Else
  BY WrittenLeaves
<1>2. founded' \subseteq {pairs'}
  BY <1>1 DEF KeysInv, KeysTyped
<1>3. LastPairOnly'
  <2>1. \A pair \in InFolder("priv")' : pair = pairs'
    BY <1>1 DEF KeysInv, LastPairOnly, InFolder, KeyKinds
  <2>2. founded' # {} => pairs' \in InFolder("priv")'
    <3>1. CASE founded' = founded
      BY <1>1, <3>1 DEF KeysInv, LastPairOnly, InFolder, KeyKinds
    <3>2. CASE founded' # founded
      BY <1>1, <3>2 DEF InFolder
    <3>3. QED
      BY <3>1, <3>2
  <2>3. QED
    BY <2>1, <2>2 DEF LastPairOnly
<1>4. \A kind \in KeyKinds, pair \in 1..MaxPairs :
        keyFiles'[kind][pair] = "torn" => spoiled'
  BY <1>1 DEF KeysInv, StartIsKnown
<1>5. QED
  BY <1>2, <1>3, <1>4

LEMMA WriteKeyInv == KeysInv /\ WriteKey => KeysInv'
<1> SUFFICES ASSUME KeysInv, WriteKey PROVE KeysInv'
  OBVIOUS
<1> USE DEF WriteKey
<1>1. Key \in KeyKinds /\ writes' \in Seq(KeyKinds) /\ node # 0
  BY WritingKey DEF Writing
<1>2. keyFiles' \in [KeyKinds -> [1..MaxPairs -> {"none", "whole", "torn"}]]
  BY <1>1, WrittenLeaves
<1>3. /\ founded' \in {founded, founded \cup {node}}
      /\ founded' # founded => keyFiles'["priv"][node] = "whole"
  BY DEF KeyKinds
<1>4. /\ founded' \subseteq {pairs'} /\ LastPairOnly'
      /\ \A kind \in KeyKinds, pair \in 1..MaxPairs :
           keyFiles'[kind][pair] = "torn" => spoiled'
  BY <1>1, <1>3, WriteFiles DEF KeysInv, KeysTyped
<1>5. KeysTyped'
  BY <1>1, <1>2, <1>4 DEF KeysInv, KeysTyped
<1>6. StartIsKnown'
  BY <1>1, <1>4 DEF KeysInv, StartIsKnown
<1>7. QED
  BY <1>4, <1>5, <1>6 DEF KeysInv

LEMMA WriteFailsInv == KeysInv /\ WriteFails => KeysInv'
<1> SUFFICES ASSUME KeysInv, WriteFails PROVE KeysInv'
  OBVIOUS
<1> USE DEF WriteFails
<1>1. writes \in Seq(KeyKinds) /\ writeAt \in 1..Len(writes) /\ Key \in KeyKinds
  BY WritingKey DEF KeysInv, KeysTyped, Writing
<1>2. writes' \in Seq(KeyKinds)
  BY <1>1 DEF InsertAt
<1>3. KeysTyped'
  BY <1>1, <1>2 DEF KeysInv, KeysTyped
<1>4. LastPairOnly' /\ StartIsKnown'
  BY DEF KeysInv, LastPairOnly, StartIsKnown, InFolder
<1>5. QED
  BY <1>3, <1>4 DEF KeysInv

LEMMA WriteCutInv == KeysInv /\ WriteCut => KeysInv'
<1> SUFFICES ASSUME KeysInv, WriteCut PROVE KeysInv'
  OBVIOUS
<1> USE DEF WriteCut
<1>1. Key \in KeyKinds /\ writes' \in Seq(KeyKinds) /\ node # 0
  BY WritingKey DEF Writing
<1>2. keyFiles' \in [KeyKinds -> [1..MaxPairs -> {"none", "whole", "torn"}]]
  BY <1>1, WrittenLeaves
<1>3. /\ founded' \subseteq {pairs'} /\ LastPairOnly'
      /\ \A kind \in KeyKinds, pair \in 1..MaxPairs :
           keyFiles'[kind][pair] = "torn" => spoiled'
  BY <1>1, WriteFiles DEF KeysInv, KeysTyped
<1>4. KeysTyped'
  BY <1>1, <1>2, <1>3 DEF KeysInv, KeysTyped
<1>5. StartIsKnown'
  BY <1>1, <1>3 DEF KeysInv, StartIsKnown
<1>6. QED
  BY <1>3, <1>4, <1>5 DEF KeysInv

LEMMA NextLoopInv == KeysInv /\ NextLoop => KeysInv'
BY DEF NextLoop, keyHistory, KeysInv, KeysTyped, LastPairOnly, StartIsKnown, InFolder

\* The history notes a private key that is left without its public key.
LEMMA StopInv == KeysInv /\ Stop => KeysInv'
<1> SUFFICES ASSUME KeysInv, Stop PROVE KeysInv'
  OBVIOUS
<1> USE DEF Stop, Ended
<1>1. node = pairs /\ pairs \in 1..MaxPairs
  BY DEF KeysInv, KeysTyped
<1>2. KeysTyped'
  BY <1>1 DEF KeysInv, KeysTyped, KeyKinds
<1>3. LastPairOnly' /\ StartIsKnown'
  BY <1>1 DEF KeysInv, KeysTyped, LastPairOnly, StartIsKnown, InFolder
<1>4. QED
  BY <1>2, <1>3 DEF KeysInv

LEMMA StopInWriteInv == KeysInv /\ StopInWrite => KeysInv'
<1> SUFFICES ASSUME KeysInv, StopInWrite PROVE KeysInv'
  OBVIOUS
<1> USE DEF StopInWrite, Ended
<1>1. Key \in KeyKinds
  BY WritingKey
<1>2. keyFiles' \in [KeyKinds -> [1..MaxPairs -> {"none", "whole", "torn"}]]
  BY <1>1, WrittenLeaves
<1>3. /\ founded' \subseteq {pairs'} /\ LastPairOnly'
      /\ \A kind \in KeyKinds, pair \in 1..MaxPairs :
           keyFiles'[kind][pair] = "torn" => spoiled'
  BY <1>1, WriteFiles DEF KeysInv, KeysTyped
<1>4. KeysTyped'
  BY <1>2, <1>3 DEF KeysInv, KeysTyped, KeyKinds
<1>5. QED
  BY <1>3, <1>4 DEF KeysInv, StartIsKnown

-----------------------------------------------------------------------------
LEMMA KeysNextInv == KeysInv /\ [KeysNext]_keyVars => KeysInv'
<1> SUFFICES ASSUME KeysInv, [KeysNext]_keyVars PROVE KeysInv'
  OBVIOUS
<1>1. CASE UNCHANGED keyVars
  BY <1>1 DEF keyVars, keyHistory, KeysInv, KeysTyped, LastPairOnly, StartIsKnown, InFolder
<1>2. QED
  BY <1>1, FirstBootInv, LoadKeysInv, RefuseStartInv, WriteKeyInv, WriteFailsInv,
     WriteCutInv, NextLoopInv, StopInv, StopInWriteInv DEF KeysNext

\* A node never has two private keys, keeps the pair that has been on disk, and
\* refuses to start only after a cut write or a stop between its two keys
\* (bootstrap_production_priv_key_id).
THEOREM NodeKeepsItsKeys == KeysSpec => []KeysStay
<1>1. KeysInv => KeysStay
  BY DEF KeysInv, KeysTyped, LastPairOnly, StartIsKnown, KeysStay
<1>2. QED
  BY <1>1, KeysInitInv, KeysNextInv, PTL DEF KeysSpec

-----------------------------------------------------------------------------
(***************************************************************************)
(* SealsOpen of IdTransport.                                               *)
(***************************************************************************)

Plain(body)    == body = [form |-> "plain", bytes |-> body.bytes]
Squeezed(body) == body = [form |-> "compressed", size |-> body.size, of |-> body.of]
IsTorn(body)   == body = Torn(body.of)
Sealed(body)   == /\ body = [form |-> "encrypted", scheme |-> body.scheme, of |-> body.of]
                  /\ body.scheme \in {"rsa", "aes"}

\* What the extra byte says of the layers: with both bits, either may be the
\* outer one, and what counts as encrypted may be torn.
Layered(w) ==
  /\ w = [extra |-> w.extra, head |-> w.head, body |-> w.body]
  /\ \/ w.extra = 0 /\ Plain(w.body)
     \/ w.extra = 1 /\ Sealed(w.body) /\ Plain(w.body.of)
     \/ w.extra = 1 /\ IsTorn(w.body)
     \/ w.extra = 2 /\ Squeezed(w.body) /\ Plain(w.body.of)
     \/ w.extra = 3 /\ Squeezed(w.body) /\ Sealed(w.body.of) /\ Plain(w.body.of.of)
     \/ w.extra = 3 /\ Squeezed(w.body) /\ IsTorn(w.body.of)
     \/ w.extra = 3 /\ Sealed(w.body) /\ Squeezed(w.body.of) /\ Plain(w.body.of.of)
  /\ isKey => w.extra \in {0, 2}

LEMMA Bits ==
  /\ ~HasBit(0, Encrypted) /\ ~HasBit(0, Compressed)
  /\ HasBit(1, Encrypted) /\ ~HasBit(1, Compressed)
  /\ ~HasBit(2, Encrypted) /\ HasBit(2, Compressed)
  /\ HasBit(3, Encrypted) /\ HasBit(3, Compressed)
BY DEF HasBit, Encrypted, Compressed

\* A body exchanged, and the byte with it.
Swap(w, c, y) == [w EXCEPT !.body = c, !.extra = y]

\* What the exchange leaves.
LEMMA Exchanged ==
  ASSUME NEW w, w = [extra |-> w.extra, head |-> w.head, body |-> w.body], NEW y, NEW c
  PROVE  Swap(w, c, y) = [extra |-> y, head |-> w.head, body |-> c]
<1> DEFINE x == w.extra
           h == w.head
           b == w.body
<1>1. w = [extra |-> x, head |-> h, body |-> b]
  OBVIOUS
<1> HIDE DEF x, h, b
<1> DEFINE u == [w EXCEPT !.body = c]
<1>2. u = [extra |-> x, head |-> h, body |-> c]
  BY <1>1
<1>3. [w EXCEPT !.body = c, !.extra = y] = [u EXCEPT !.extra = y]
  OBVIOUS
<1> HIDE DEF u
<1>4. [u EXCEPT !.extra = y] = [extra |-> y, head |-> h, body |-> c]
  BY <1>2
<1> QED
  BY <1>3, <1>4 DEF h, Swap

\* One layer taken off, or put on.
LEMMA DecryptOff ==
  ASSUME NEW w, Layered(w), w.extra \in {1, 3}, NEW key \in BOOLEAN
  PROVE  IF w.body.form = "encrypted" /\ key /\ (w.body.scheme = "aes" => ownerKey.fits)
         THEN \E v : /\ Decrypt(w, key) = Returned(v)
                     /\ Layered(v) /\ v.extra = w.extra - 1
         ELSE Decrypt(w, key) = Threw
<1> DEFINE v == [w EXCEPT !.body = w.body.of, !.extra = w.extra - Encrypted]
<1>1. w = [extra |-> w.extra, head |-> w.head, body |-> w.body]
  BY DEF Layered
<1>2. v = [extra |-> w.extra - 1, head |-> w.head, body |-> w.body.of]
  <2> DEFINE y == w.extra - Encrypted
             c == w.body.of
  <2> HIDE DEF y, c
  <2>1. Swap(w, c, y) = [extra |-> y, head |-> w.head, body |-> c]
    BY ONLY <1>1, Exchanged
  <2> QED
    BY <2>1 DEF Swap, y, c, Encrypted
<1>3. w.body.form = "encrypted" => Layered(v)
  <2> HIDE DEF v
  <2>1. CASE w.extra = 1
    BY <1>2, <2>1 DEF Layered, IsTorn, Torn
  <2>2. CASE w.extra = 3
    BY <1>2, <2>2 DEF Layered, Squeezed
  <2> QED
    BY <2>1, <2>2
<1> QED
  BY <1>2, <1>3 DEF Decrypt

LEMMA DecompressOff ==
  ASSUME NEW w, Layered(w), w.extra \in {2, 3}
  PROVE  \/ w.body.form # "compressed" /\ Decompress(w) = Threw
         \/ \E v : /\ Decompress(w) = Returned(v)
                   /\ Layered(v) /\ v.extra = w.extra - 2
<1> DEFINE v(c) == [w EXCEPT !.body = c, !.extra = w.extra - Compressed]
<1>1. w = [extra |-> w.extra, head |-> w.head, body |-> w.body]
  BY DEF Layered
<1>2. ASSUME NEW c
      PROVE  v(c) = [extra |-> w.extra - 2, head |-> w.head, body |-> c]
  <2> DEFINE y == w.extra - Compressed
  <2> HIDE DEF y
  <2>1. Swap(w, c, y) = [extra |-> y, head |-> w.head, body |-> c]
    BY ONLY <1>1, Exchanged
  <2> QED
    BY <2>1 DEF Swap, y, Compressed
<1>3. CASE w.body.form = "compressed"
  <2>1. ~TakesForNone(w.body)
    BY <1>3 DEF TakesForNone
  <2>3. Decompress(w) = Returned(v(w.body.of))
    BY <1>3, <2>1, Zenon DEF Decompress
  <2> HIDE DEF v
  <2>2. Layered(v(w.body.of)) /\ v(w.body.of).extra = w.extra - 2
    <3>1. CASE w.extra = 2
      BY <1>2, <3>1 DEF Layered
    <3>2. CASE w.extra = 3
      BY <1>2, <1>3, <3>2 DEF Layered, Sealed
    <3> QED
      BY <3>1, <3>2
  <2> QED
    BY <2>2, <2>3
<1>4. CASE w.body.form # "compressed" /\ TakesForNone(w.body)
  <2> DEFINE t == Torn(w.body)
  <2>1. Decompress(w) = Returned(v(t))
    BY <1>4 DEF Decompress
  <2>2. w.extra = 3 /\ (isKey => FALSE)
    BY <1>4 DEF Layered, Squeezed
  <2>3. IsTorn(t)
    BY DEF IsTorn, Torn
  <2> HIDE DEF v, t
  <2>4. Layered(v(t)) /\ v(t).extra = w.extra - 2
    BY <1>2, <2>2, <2>3 DEF Layered
  <2> QED
    BY <2>1, <2>4
<1>5. CASE w.body.form # "compressed" /\ ~TakesForNone(w.body)
  BY <1>5 DEF Decompress
<1> QED
  BY <1>3, <1>4, <1>5

LEMMA EncryptOn ==
  ASSUME NEW w, Layered(w), w.extra \in {0, 2}
  PROVE  \/ Encrypt(w) = Threw
         \/ \E v : /\ Encrypt(w) = Returned(v)
                   /\ Layered(v) /\ v.extra \in {w.extra, w.extra + 1}
<1>1. w = [extra |-> w.extra, head |-> w.head, body |-> w.body]
  BY DEF Layered
<1>2. CASE isKey \/ (w.body.form = "plain" /\ w.body.bytes = <<>>)
  <2>1. Encrypt(w) = Returned(w)
    BY <1>2 DEF Encrypt
  <2> QED
    BY <2>1
<1>3. CASE ~isKey /\ ~(w.body.form = "plain" /\ w.body.bytes = <<>>)
  <2> DEFINE k == Scheme(w.body)
             b == [form |-> "encrypted", scheme |-> k, of |-> w.body]
             v == [extra |-> w.extra + 1, head |-> w.head, body |-> b]
  <2>1. k \in {"rsa", "aes"}
    BY DEF Scheme
  <2>2. ~HasBit(w.extra, Encrypted)
    BY Bits
  <2>3. Encrypt(w) = Threw \/ Encrypt(w) = Returned(v)
    <3> DEFINE y == IF HasBit(w.extra, Encrypted) THEN w.extra ELSE w.extra + Encrypted
    <3>1. Encrypt(w) = Threw \/ Encrypt(w) = Returned(Swap(w, b, y))
      BY <1>3, Zenon DEF Encrypt, Swap
    <3>2. y = w.extra + 1
      BY <2>2 DEF Encrypted
    <3> HIDE DEF b, y
    <3>3. Swap(w, b, y) = [extra |-> y, head |-> w.head, body |-> b]
      BY ONLY <1>1, Exchanged
    <3> QED
      BY <3>1, <3>2, <3>3
  <2>4. Sealed(b) /\ b.of = w.body
    BY <2>1 DEF Sealed
  <2> HIDE DEF b
  <2>5. Layered(v) /\ v.extra \in {w.extra, w.extra + 1}
    BY <1>3, <2>4 DEF Layered
  <2> HIDE DEF v
  <2> QED
    BY <2>3, <2>5
<1> QED
  BY <1>2, <1>3

LEMMA CompressOn ==
  ASSUME NEW w, Layered(w), w.extra \in {0, 1}, NEW size
  PROVE  Layered(Compress(w, size)) /\ Compress(w, size).extra = w.extra + 2
<1> DEFINE b == [form |-> "compressed", size |-> size, of |-> w.body]
           v == [extra |-> w.extra + 2, head |-> w.head, body |-> b]
<1>1. w = [extra |-> w.extra, head |-> w.head, body |-> w.body]
  BY DEF Layered
<1>2. Compress(w, size) = v
  <2> DEFINE y == w.extra + Compressed
  <2>1. Compress(w, size) = Swap(w, b, y)
    BY DEF Compress, Swap
  <2> HIDE DEF y, b
  <2>2. Swap(w, b, y) = [extra |-> y, head |-> w.head, body |-> b]
    BY ONLY <1>1, Exchanged
  <2> QED
    BY <2>1, <2>2 DEF y, Compressed
<1>3. Squeezed(b) /\ b.of = w.body
  BY DEF Squeezed
<1> HIDE DEF b
<1>4. Layered(v)
  BY <1>3 DEF Layered
<1> QED
  BY <1>2, <1>4

\* What force_to_extra has to do, by the two extra bytes.
LEMMA Differences ==
  ASSUME NEW w, w.extra \in 0 .. 3, NEW extra \in 0 .. 3
  PROVE  /\ Unwanted(w, extra, Encrypted) <=> w.extra \in {1, 3} /\ extra \in {0, 2}
         /\ Unwanted(w, extra, Compressed) <=> w.extra \in {2, 3} /\ extra \in {0, 1}
         /\ Missing(w, extra, Encrypted) <=> w.extra \in {0, 2} /\ extra \in {1, 3}
         /\ Missing(w, extra, Compressed) <=> w.extra \in {0, 1} /\ extra \in {2, 3}
<1>1. w.extra \in {0, 1, 2, 3} /\ extra \in {0, 1, 2, 3}
  OBVIOUS
<1> QED
  BY <1>1, Bits, Zenon DEF Unwanted, Missing

\* The second half of force_to_extra.
Finish(w, v, extra, size) ==
  Then(PutOn(w, v, extra, size), LAMBDA e : Asked(e, extra))

\* The steps of force_to_extra, whose tests look at the data as it was.
LEMMA TakenOff ==
  ASSUME NEW w, Layered(w), NEW extra \in 0 .. 3, NEW size, NEW key \in BOOLEAN
  PROVE  \/ ForceToExtra(w, extra, size, key) = Threw
         \/ \E v :
              /\ ForceToExtra(w, extra, size, key) = Finish(w, v, extra, size)
              /\ Layered(v)
              /\ Missing(w, extra, Encrypted) => v.extra \in {0, 2}
              /\ Missing(w, extra, Compressed) => v.extra \in {0, 1}
<1> DEFINE a == IF Unwanted(w, extra, Encrypted) THEN Decrypt(w, key) ELSE Returned(w)
           b(d) == IF Unwanted(w, extra, Compressed) THEN Decompress(d) ELSE Returned(d)
<1>0. w.extra \in 0 .. 3
  BY DEF Layered
<1>1. a = Threw \/ \E d : a = Returned(d) /\ Layered(d) /\ d.extra = w.extra - (IF Unwanted(w, extra, Encrypted) THEN 1 ELSE 0)
  BY <1>0, Differences, DecryptOff
<1>2. ForceToExtra(w, extra, size, key) = Then(a, LAMBDA d : Then(b(d), LAMBDA e : Finish(w, e, extra, size)))
  BY DEF ForceToExtra, Finish
<1> HIDE DEF a, b
<1>3. CASE a = Threw
  BY <1>2, <1>3 DEF Then, Threw
<1>4. CASE a # Threw
  <2>0. PICK d : /\ a = Returned(d) /\ Layered(d)
                 /\ d.extra = w.extra - (IF Unwanted(w, extra, Encrypted) THEN 1 ELSE 0)
    BY <1>1, <1>4
  <2>1. ForceToExtra(w, extra, size, key) = Then(b(d), LAMBDA e : Finish(w, e, extra, size))
    BY <1>2, <2>0 DEF Then, Returned
  <2>2. CASE Unwanted(w, extra, Compressed)
    <3>1. d.extra \in {2, 3} /\ b(d) = Decompress(d)
      BY <1>0, <2>0, <2>2, Differences DEF b
    <3>2. CASE b(d) = Threw
      BY <2>1, <3>2 DEF Then, Threw
    <3>3. ASSUME NEW v, b(d) = Returned(v), Layered(v), v.extra = d.extra - 2
          PROVE  \E e : /\ ForceToExtra(w, extra, size, key) = Finish(w, e, extra, size)
                        /\ Layered(e)
                        /\ Missing(w, extra, Encrypted) => e.extra \in {0, 2}
                        /\ Missing(w, extra, Compressed) => e.extra \in {0, 1}
      <4>1. ForceToExtra(w, extra, size, key) = Finish(w, v, extra, size)
        BY <2>1, <3>3 DEF Then, Returned
      <4>2. /\ Missing(w, extra, Encrypted) => v.extra \in {0, 2}
            /\ ~Missing(w, extra, Compressed)
        BY <1>0, <2>0, <2>2, <3>3, Differences
      <4> QED
        BY <3>3, <4>1, <4>2
    <3> QED
      BY <2>0, <3>1, <3>2, <3>3, DecompressOff
  <2>3. CASE ~Unwanted(w, extra, Compressed)
    <3>1. b(d) = Returned(d)
      BY <2>3 DEF b
    <3>2. ForceToExtra(w, extra, size, key) = Finish(w, d, extra, size)
      BY <2>1, <3>1 DEF Then, Returned
    <3>3. /\ Missing(w, extra, Encrypted) => d.extra \in {0, 2}
          /\ Missing(w, extra, Compressed) => d.extra \in {0, 1}
      BY <1>0, <2>0, Differences
    <3> QED
      BY <2>0, <3>2, <3>3
  <2> QED
    BY <2>2, <2>3
<1> QED
  BY <1>3, <1>4

\* Whatever the layers, force_to_extra throws or keeps them in step.
LEMMA ForceLayers ==
  ASSUME NEW w, Layered(w), NEW extra \in 0 .. 3, NEW size \in Nat, NEW key \in BOOLEAN
  PROVE  \/ ForceToExtra(w, extra, size, key) = Threw
         \/ \E v : /\ ForceToExtra(w, extra, size, key) = Returned(v)
                  /\ Layered(v) /\ v.extra = extra
<1>1. CASE ForceToExtra(w, extra, size, key) = Threw
  BY <1>1
<1>2. ASSUME NEW v,
             ForceToExtra(w, extra, size, key) = Finish(w, v, extra, size),
             Layered(v),
             Missing(w, extra, Encrypted) => v.extra \in {0, 2},
             Missing(w, extra, Compressed) => v.extra \in {0, 1}
      PROVE  \/ ForceToExtra(w, extra, size, key) = Threw
             \/ \E u : /\ ForceToExtra(w, extra, size, key) = Returned(u)
                      /\ Layered(u) /\ u.extra = extra
  <2> DEFINE a == IF Missing(w, extra, Encrypted) THEN Encrypt(v) ELSE Returned(v)
             f(e) == IF Missing(w, extra, Compressed) THEN Compress(e, size) ELSE e
  <2>1. PutOn(w, v, extra, size) = Then(a, LAMBDA e : Returned(f(e)))
    BY DEF PutOn
  <2>2. \/ a = Threw
        \/ \E e : /\ a = Returned(e) /\ Layered(e)
                  /\ Missing(w, extra, Compressed) => e.extra \in {0, 1}
    <3>1. CASE Missing(w, extra, Encrypted)
      <4>1. a = Encrypt(v) /\ v.extra \in {0, 2} /\ Layered(v)
        BY <1>2, <3>1
      <4>2. \/ Encrypt(v) = Threw
            \/ \E e : /\ Encrypt(v) = Returned(e)
                      /\ Layered(e) /\ e.extra \in {v.extra, v.extra + 1}
        BY <4>1, EncryptOn
      <4>3. ASSUME NEW e, e.extra \in {v.extra, v.extra + 1},
                   Missing(w, extra, Compressed)
            PROVE  e.extra \in {0, 1}
        BY <1>2, <4>1, <4>3
      <4> QED
        BY <4>1, <4>2, <4>3
    <3>2. CASE ~Missing(w, extra, Encrypted)
      <4>1. a = Returned(v)
        BY <3>2
      <4> QED
        BY <1>2, <4>1
    <3> QED
      BY <3>1, <3>2
  <2> HIDE DEF a, f
  <2>3. CASE a = Threw
    <3>1. PutOn(w, v, extra, size) = Threw
      BY <2>1, <2>3 DEF Then, Threw
    <3> QED
      BY <1>2, <3>1 DEF Finish, Then, Threw
  <2>4. ASSUME NEW e, a = Returned(e), Layered(e),
               Missing(w, extra, Compressed) => e.extra \in {0, 1}
        PROVE  \/ ForceToExtra(w, extra, size, key) = Threw
               \/ \E u : /\ ForceToExtra(w, extra, size, key) = Returned(u)
                        /\ Layered(u) /\ u.extra = extra
    <3> DEFINE g == f(e)
    <3>1. PutOn(w, v, extra, size) = Returned(g)
      BY <2>1, <2>4 DEF Then, Returned
    <3>2. Layered(g)
      BY <2>4, CompressOn DEF f
    <3> HIDE DEF g
    <3>3. ForceToExtra(w, extra, size, key) = Asked(g, extra)
      BY <1>2, <3>1 DEF Finish, Then, Returned
    <3> QED
      BY <3>2, <3>3 DEF Asked
  <2> QED
    BY <2>2, <2>3, <2>4
<1> QED
  BY <1>1, <1>2, TakenOff

\* With the byte of a compressed body, the body is one.
LEMMA SqueezedForm ==
  ASSUME NEW w, Layered(w), w.extra = 2
  PROVE  w.body.form = "compressed"
<1> DEFINE o == w.body.of
           z == w.body.size
           b == w.body
<1>1. b = [form |-> "compressed", size |-> z, of |-> o]
  BY DEF Layered, Squeezed
<1> HIDE DEF o, z, b
<1>2. b.form = "compressed"
  BY <1>1
<1> QED
  BY <1>2 DEF b

\* Data whose byte says compressed only, is opened.
LEMMA Decompressed ==
  ASSUME NEW w, Layered(w), w.extra = 2
  PROVE  \E v : Decompress(w) = Returned(v) /\ v.extra = 0
BY SqueezedForm, DecompressOff

\* What the owner's data has to be like to be opened.
Opens(w, key) ==
  \/ w.extra \in {0, 2}
  \/ w.body.form = "encrypted" /\ key /\ (w.body.scheme = "aes" => ownerKey.fits)

\* Down to the plain data: exactly when SealsOpen says so.
LEMMA ForceOpens ==
  ASSUME NEW w, Layered(w), NEW key \in BOOLEAN, ownerKey \in OwnerKeys
  PROVE  IF Opens(w, key) THEN Open(w, key).threw = FALSE
                          ELSE Open(w, key).threw = TRUE
<1>1. w.extra \in {0, 1, 2, 3} /\ w.extra \in 0 .. 3 /\ 0 \in 0 .. 3
  BY DEF Layered
<1>2. /\ Unwanted(w, 0, Encrypted) <=> w.extra \in {1, 3}
      /\ Unwanted(w, 0, Compressed) <=> w.extra \in {2, 3}
      /\ ~Missing(w, 0, Encrypted) /\ ~Missing(w, 0, Compressed)
  BY <1>1, Differences
<1> DEFINE c(d) == Then(PutOn(w, d, 0, 0), LAMBDA e : Asked(e, 0))
           a == IF Unwanted(w, 0, Encrypted) THEN Decrypt(w, key) ELSE Returned(w)
           b(d) == IF Unwanted(w, 0, Compressed) THEN Decompress(d) ELSE Returned(d)
<1>3. ASSUME NEW d, d.extra = 0
      PROVE  c(d).threw = FALSE
  <2>1. PutOn(w, d, 0, 0) = Returned(d)
    BY <1>2 DEF PutOn, Then, Returned
  <2> QED
    BY <1>3, <2>1 DEF Then, Returned, Asked
<1>4. Open(w, key) = Then(a, LAMBDA d : Then(b(d), LAMBDA e : c(e)))
  BY DEF Open, ForceToExtra
<1> HIDE DEF a, b, c
<1>5. ASSUME NEW d, NEW v, a = Returned(d), b(d) = Returned(v), v.extra = 0
      PROVE  Open(w, key).threw = FALSE
  <2>1. Open(w, key) = Then(b(d), LAMBDA e : c(e))
    BY <1>4, <1>5 DEF Then, Returned
  <2>2. Open(w, key) = c(v)
    BY <1>5, <2>1 DEF Then, Returned
  <2>3. c(v).threw = FALSE
    BY <1>3, <1>5
  <2> QED
    BY <2>2, <2>3
<1>6. CASE w.extra = 0
  <2>1. a = Returned(w) /\ b(w) = Returned(w)
    BY <1>2, <1>6 DEF a, b
  <2> QED
    BY <1>5, <1>6, <2>1 DEF Opens
<1>7. CASE w.extra = 2
  <2>1. a = Returned(w) /\ b(w) = Decompress(w)
    BY <1>2, <1>7 DEF a, b
  <2>2. PICK v : Decompress(w) = Returned(v) /\ v.extra = 0
    BY <1>7, Decompressed
  <2>3. Open(w, key).threw = FALSE
    BY <1>5, <2>1, <2>2
  <2> QED
    BY <1>7, <2>3 DEF Opens
<1>8. CASE w.extra \in {1, 3} /\ ~Opens(w, key)
  <2>1. a = Threw
    BY <1>2, <1>8, DecryptOff DEF a, Opens
  <2>2. Open(w, key) = Threw
    BY <1>4, <2>1 DEF Then, Threw
  <2> QED
    BY <1>8, <2>2 DEF Threw
<1>9. CASE w.extra \in {1, 3} /\ Opens(w, key)
  <2>1. w.body.form = "encrypted" /\ key /\ (w.body.scheme = "aes" => ownerKey.fits)
    BY <1>9 DEF Opens
  <2>2. PICK d : Decrypt(w, key) = Returned(d) /\ Layered(d) /\ d.extra = w.extra - 1
    BY <1>9, <2>1, DecryptOff
  <2>3. a = Returned(d)
    BY <1>2, <1>9, <2>2 DEF a
  <2>4. CASE w.extra = 1
    <3>1. b(d) = Returned(d)
      BY <1>2, <2>4 DEF b
    <3>2. d.extra = 0
      BY <2>2, <2>4
    <3>3. Open(w, key).threw = FALSE
      BY <1>5, <2>3, <3>1, <3>2
    <3> QED
      BY <1>9, <3>3
  <2>5. CASE w.extra = 3
    <3>1. d.extra = 2
      BY <2>2, <2>5
    <3>2. PICK v : Decompress(d) = Returned(v) /\ v.extra = 0
      BY <2>2, <3>1, Decompressed
    <3>3. b(d) = Returned(v)
      BY <1>2, <2>5, <3>2 DEF b
    <3>4. Open(w, key).threw = FALSE
      BY <1>5, <2>3, <3>2, <3>3
    <3> QED
      BY <1>9, <3>4
  <2> QED
    BY <1>9, <2>4, <2>5
<1> QED
  BY <1>1, <1>6, <1>7, <1>8, <1>9

-----------------------------------------------------------------------------
(* The states.                                                             *)

\* What travels has the layers its extra byte says, and an import that threw
\* left the receiver alone.
SealInv ==
  /\ Layered(wire)
  /\ keyKnown \in BOOLEAN /\ ownerKey \in OwnerKeys
  /\ imported = "threw" => receiver = before

LEMMA PlainLayered ==
  ASSUME NEW h, NEW s
  PROVE  Layered([extra |-> 0, head |-> h, body |-> [form |-> "plain", bytes |-> s]])
<1> DEFINE b == [form |-> "plain", bytes |-> s]
           w == [extra |-> 0, head |-> h, body |-> b]
<1>1. Plain(b)
  BY DEF Plain
<1> HIDE DEF b
<1>2. Layered(w)
  BY <1>1 DEF Layered
<1> QED
  BY <1>2 DEF b

LEMMA SealInit ==
  TransportInit => SealInv
BY PlainLayered DEF TransportInit, SealInv, NoWire

LEMMA SealExport ==
  ASSUME SealInv, Export
  PROVE  SealInv'
<1> DEFINE out == ExportData(sender)
<1>1. CASE out.threw
  BY <1>1 DEF SealInv, Export, Layered
<1>2. CASE ~out.threw
  <2>1. /\ wire' = out.value /\ imported' = "nothing" /\ keyKnown' = keyKnown
        /\ isKey' = isKey /\ ownerKey' = ownerKey
    BY <1>2 DEF Export
  <2>2. \E h, s : out = Returned([extra |-> 0, head |-> h,
                                 body |-> [form |-> "plain", bytes |-> s]])
    BY <1>2, Zenon DEF ExportData, Threw
  <2> HIDE DEF out
  <2>3. Layered(wire')
    BY <2>1, <2>2, PlainLayered DEF Returned
  <2> QED
    BY <2>1, <2>3 DEF SealInv, Layered
<1> QED
  BY <1>1, <1>2

LEMMA SealSeal ==
  ASSUME SealInv, NEW extra \in 0 .. 3, Seal(extra)
  PROVE  SealInv'
<1> PICK size \in CompressedSizes :
       \E o \in {ForceToExtra(wire, extra, size, TRUE)} :
         wire' = IF o.threw THEN wire ELSE o.value
  BY DEF Seal
<1> DEFINE out == ForceToExtra(wire, extra, size, TRUE)
<1>1. /\ wire' = (IF out.threw THEN wire ELSE out.value)
      /\ imported' = "nothing" /\ keyKnown' = keyKnown /\ isKey' = isKey
      /\ ownerKey' = ownerKey
  BY DEF Seal
<1>2. out = Threw \/ \E v : out = Returned(v) /\ Layered(v) /\ v.extra = extra
  <2>1. Layered(wire) /\ size \in Nat /\ TRUE \in BOOLEAN
    BY TransportAssumption DEF SealInv, TransportAssumption
  <2> QED
    BY ONLY <2>1, extra \in 0 .. 3, ForceLayers
<1> HIDE DEF out
<1>3. Layered(wire')
  <2>1. CASE out = Threw
    BY <1>1, <2>1 DEF Threw, SealInv
  <2>2. ASSUME NEW v, out = Returned(v), Layered(v)
        PROVE  Layered(wire')
    <3>1. wire' = v
      BY <1>1, <2>2 DEF Returned
    <3> QED
      BY <2>2, <3>1
  <2> QED
    BY <1>2, <2>1, <2>2
<1> QED
  BY <1>1, <1>3 DEF SealInv, Layered

\* What a tier strips stays plain: only the bytes are others.
LEMMA SealStrip ==
  ASSUME SealInv, NEW asked, Strip(asked)
  PROVE  SealInv'
<1> DEFINE out == StripToTransportable(wire, asked, TRUE)
           plain == Open(wire, TRUE)
<1>1. \/ wire' = wire
      \/ wire' = NoWire
      \/ ~out.threw /\ wire' = out.value
  BY DEF Strip
<1>2. /\ imported' = "nothing"
      /\ keyKnown' = keyKnown
      /\ isKey' = isKey /\ ownerKey' = ownerKey
  BY DEF Strip
<1>3. plain = Threw \/ \E v : plain = Returned(v) /\ Layered(v) /\ v.extra = 0
  <2>1. 0 \in 0 .. 3 /\ 0 \in Nat /\ Layered(wire) /\ TRUE \in BOOLEAN
    BY DEF SealInv
  <2> QED
    BY ONLY <2>1, ForceLayers DEF Open
<1>4. ~out.threw => ~plain.threw /\ \E s : out = Returned([plain.value EXCEPT !.body.bytes = s])
  BY Zenon DEF StripToTransportable, Then, Threw, Returned
<1> HIDE DEF out, plain
<1>5. Layered(wire')
  <2>1. CASE wire' = wire
    BY <2>1 DEF SealInv
  <2>2. CASE wire' = NoWire
    BY <2>2, PlainLayered DEF NoWire
  <2>3. CASE ~out.threw /\ wire' = out.value
    <3>1. PICK s : out = Returned([plain.value EXCEPT !.body.bytes = s])
      BY <1>4, <2>3
    <3>2. \E v : plain = Returned(v) /\ Layered(v) /\ v.extra = 0
      BY <1>3, <1>4, <2>3 DEF Threw
    <3>3. PICK v : plain = Returned(v) /\ Layered(v) /\ v.extra = 0
      BY <3>2
    <3>4. wire' = [v EXCEPT !.body.bytes = s]
      BY <2>3, <3>1, <3>3 DEF Returned
    <3> DEFINE h == v.head
               b == v.body.bytes
    <3>5. v = [extra |-> 0, head |-> h, body |-> [form |-> "plain", bytes |-> b]]
      BY <3>3 DEF Layered, Plain
    <3> HIDE DEF h, b
    <3>6. wire' = [extra |-> 0, head |-> h, body |-> [form |-> "plain", bytes |-> s]]
      BY <3>4, <3>5
    <3> QED
      BY <3>6, PlainLayered
  <2> QED
    BY <1>1, <2>1, <2>2, <2>3
<1> QED
  BY <1>2, <1>5 DEF SealInv, Layered

LEMMA SealImport ==
  ASSUME SealInv, ImportData
  PROVE  SealInv'
BY DEF SealInv, ImportData, Layered

LEMMA SealInductive ==
  SealInv /\ [TransportNext]_transportVars => SealInv'
<1> SUFFICES ASSUME SealInv, [TransportNext]_transportVars
             PROVE  SealInv'
  OBVIOUS
<1>1. ASSUME NEW i, NEW v, SetMember(i, v)
      PROVE  SealInv'
  BY <1>1 DEF SealInv, SetMember, Layered
<1>2. CASE LearnKey
  BY <1>2 DEF SealInv, LearnKey, Layered
<1>3. CASE UNCHANGED transportVars
  BY <1>3 DEF SealInv, transportVars, Layered
<1> QED
  BY <1>1, <1>2, <1>3, SealExport, SealSeal, SealStrip, SealImport DEF TransportNext

\* The invariant says what the run checks.
LEMMA SealInvOpens ==
  SealInv => SealsOpen
<1> SUFFICES ASSUME SealInv
             PROVE  SealsOpen
  OBVIOUS
<1> DEFINE opens == CASE wire.extra = 0 -> TRUE
                      [] wire.extra = Compressed -> TRUE
                      [] OTHER -> /\ wire.body.form = "encrypted"
                                  /\ keyKnown
                                  /\ wire.body.scheme = "aes" => ownerKey.fits
           threw == Open(wire, keyKnown).threw
<1>1. opens \in BOOLEAN /\ (opens <=> Opens(wire, keyKnown))
  BY TransportAssumption DEF Opens, Compressed, SealInv, Layered, TransportAssumption
<1>2. IF Opens(wire, keyKnown) THEN threw = FALSE ELSE threw = TRUE
  BY ForceOpens DEF SealInv
<1> HIDE DEF threw, opens
<1>3. threw = ~opens
  BY <1>1, <1>2
<1>4. isKey => wire.extra \in {0, Compressed}
  BY DEF SealInv, Layered, Compressed
<1> QED
  BY <1>3, <1>4 DEF SealsOpen, SealInv, threw, opens

\* Data can be opened again unless the compression was put around the
\* encryption or taken off from under it (an RSA body is torn then), the key is
\* not there or is not of the length an AES header needs, and what fails leaves
\* the receiver as it was: for every object, key, rule, size that zstd
\* compresses to and order of sealing, stripping and importing (force_to_extra,
\* encrypt, decrypt, compress, decompress).
THEOREM DataIsOpened ==
  TransportSpec => []SealsOpen
<1>1. TransportSpec => []SealInv
  BY SealInit, SealInductive, PTL DEF TransportSpec
<1> QED
  BY <1>1, SealInvOpens, PTL

(***************************************************************************)
(* Lists of frames.                                                        *)
(***************************************************************************)

\* The lists of a frame, and of n frames.
LinkSet   == [first : Seq(Nat), second : Seq(Nat)]
Links(n)  == [1 .. n -> LinkSet]
SpanSet   == [start : Int, end : Int]
Blank     == [first |-> <<>>, second |-> <<>>]

(***************************************************************************)
(* A list without a frame.                                                 *)
(***************************************************************************)

\* Without keeps the kind of a list.
LEMMA WithoutType ==
  ASSUME NEW S, NEW list \in Seq(S), NEW f
  PROVE  Without(list, f) \in Seq(S)
<1> DEFINE n == Len(list)
           ss == [i \in 1 .. n |-> IF list[i] = f THEN <<>> ELSE <<list[i]>>]
<1>1. n \in Nat /\ DOMAIN list = 1 .. n /\ \A i \in 1 .. n : list[i] \in S
  OBVIOUS
<1>2. ss \in Seq(Seq(S))
  BY <1>1
<1>3. Without(list, f) = FlattenSeq(ss)
  BY <1>1 DEF Without
<1> HIDE DEF ss
<1> QED
  BY <1>2, <1>3, FlattenType

\* Without leaves alone a list the frame is not in.
LEMMA WithoutNone ==
  ASSUME NEW S, NEW list \in Seq(S), NEW f, f \notin S
  PROVE  Without(list, f) = list
<1> DEFINE n == Len(list)
           ss == [i \in 1 .. n |-> IF list[i] = f THEN <<>> ELSE <<list[i]>>]
           g == [i \in 0 .. n |-> SubSeq(list, 1, i)]
<1>1. n \in Nat /\ DOMAIN list = 1 .. n /\ \A i \in 1 .. n : list[i] \in S
  OBVIOUS
<1>2. ss \in Seq(Seq(S)) /\ Len(ss) = n
  BY <1>1
<1>3. \A i \in 1 .. n : ss[i] = <<list[i]>>
  BY <1>1
<1>4. Without(list, f) = FlattenSeq(ss)
  BY <1>1 DEF Without
<1>5. g \in [0 .. n -> Seq(S)]
  <2>1. ASSUME NEW i \in 0 .. n PROVE SubSeq(list, 1, i) \in Seq(S)
    BY <1>1
  <2> QED
    BY <2>1
<1>6. g[0] = <<>>
  BY <1>1
<1>7. ASSUME NEW i \in 1 .. n
      PROVE  g[i] = g[i - 1] \o ss[i]
  <2>1. SubSeq(list, 1, i) = SubSeq(list, 1, i - 1) \o <<list[i]>>
    BY <1>1
  <2>2. g[i] = SubSeq(list, 1, i) /\ g[i - 1] = SubSeq(list, 1, i - 1)
    BY <1>1
  <2>3. ss[i] = <<list[i]>>
    BY <1>3
  <2> HIDE DEF g, ss
  <2> QED
    BY <2>1, <2>2, <2>3
<1>8. g[n] = list
  BY <1>1
<1> HIDE DEF ss, g
<1>9. FlattenSeq(ss) = g[Len(ss)]
  BY <1>2, <1>5, <1>6, <1>7, FlattenDetermined
<1> QED
  BY <1>2, <1>4, <1>8, <1>9

\* The lists of a frame, set.
LEMMA SetListsType ==
  ASSUME NEW n \in Nat, NEW l \in Links(n), NEW f \in 1 .. n,
         NEW first \in Seq(Nat), NEW second \in Seq(Nat)
  PROVE  /\ SetLists(l, f, first, second) \in Links(n)
         /\ SetLists(l, f, first, second)[f] = [first  |-> Without(first, f),
                                                second |-> Without(second, f)]
         /\ \A g \in 1 .. n : g # f => SetLists(l, f, first, second)[g] = l[g]
<1>1. Without(first, f) \in Seq(Nat) /\ Without(second, f) \in Seq(Nat)
  BY WithoutType
<1>2. [first |-> Without(first, f), second |-> Without(second, f)] \in LinkSet
  BY <1>1 DEF LinkSet
<1> QED
  BY <1>2 DEF SetLists, Links

\* The same, for sequences under a name that hides them.
ListsSet(n, l, f, first, second) ==
  /\ SetLists(l, f, first, second) \in Links(n)
  /\ SetLists(l, f, first, second)[f] = [first  |-> Without(first, f),
                                         second |-> Without(second, f)]
  /\ \A g \in 1 .. n : g # f => SetLists(l, f, first, second)[g] = l[g]

LEMMA SetListsSet ==
  \A n \in Nat : \A l \in Links(n), f \in 1 .. n, first, second \in ListsOf(Nat) :
    ListsSet(n, l, f, first, second)
BY SetListsType DEF ListsSet, ListsOf

\* Lists without the frame itself are set as they are.
LEMMA SetListsPlain ==
  ASSUME NEW n \in Nat, NEW l, l \in Links(n), NEW f \in 1 .. n,
         NEW first \in Seq(Nat), NEW second \in Seq(Nat),
         Without(first, f) = first, Without(second, f) = second
  PROVE  /\ SetLists(l, f, first, second) \in Links(n)
         /\ SetLists(l, f, first, second)[f] = [first |-> first, second |-> second]
         /\ \A g \in 1 .. n : g # f => SetLists(l, f, first, second)[g] = l[g]
BY SetListsType

(***************************************************************************)
(* link_vector links frames that have no lists yet.                        *)
(***************************************************************************)

\* The n frames behind the frame m, and the lists that link_vector gives the
\* i-th of them.
Vector(m, n) == [k \in 1 .. n |-> m + k]
FirstLinked(i) == IF i > Depth THEN i - Depth ELSE 1
LastLinked(n, i) == IF i + Depth < n THEN i + Depth ELSE n
Piece(m, n, a, b) == SubSeq(Vector(m, n), a, b)
LinkedAt(m, n, i) == [first  |-> Piece(m, n, FirstLinked(i), i - 1),
                      second |-> Piece(m, n, i + 1, LastLinked(n, i))]

\* The frames of the vector up to the i-th are linked, the others have no lists
\* yet, and those in front of the vector have the lists they had.
LinkedTo(m, n, l, o, i) ==
  /\ \A g \in 1 .. m : o[g] = l[g]
  /\ \A k \in 1 .. n : o[m + k] = IF k <= i THEN LinkedAt(m, n, k) ELSE Blank

\* The kind of a vector.
LEMMA VectorType ==
  ASSUME NEW m \in Nat, NEW n \in Nat
  PROVE  /\ Vector(m, n) \in Seq(Nat) /\ Len(Vector(m, n)) = n
         /\ DOMAIN Vector(m, n) = 1 .. n
         /\ \A k \in 1 .. n : Vector(m, n)[k] = m + k
BY DEF Vector

\* s is the frames from the a-th to the b-th behind m.
IsPiece(s, m, a, b) ==
  /\ s \in Seq(Nat) /\ DOMAIN s = 1 .. Len(s)
  /\ Len(s) = IF a <= b THEN b - a + 1 ELSE 0
  /\ (s = <<>>) = (a > b)
  /\ \A k \in 1 .. Len(s) : s[k] = m + a + k - 1

\* A piece of a vector.
LEMMA PieceType ==
  ASSUME NEW m \in Nat, NEW n \in Nat, NEW a \in 1 .. n + 1, NEW b \in 0 .. n
  PROVE  IsPiece(Piece(m, n, a, b), m, a, b)
<1> DEFINE v == Vector(m, n)
           s == SubSeq(v, a, b)
<1>1. /\ v \in Seq(Nat) /\ Len(v) = n
      /\ \A k \in 1 .. n : v[k] = m + k
  BY VectorType
<1> HIDE DEF v
<1>2. /\ s \in Seq(Nat) /\ Len(s) = (IF a <= b THEN b - a + 1 ELSE 0)
      /\ DOMAIN s = 1 .. Len(s)
      /\ \A k \in 1 .. Len(s) : s[k] = v[a + k - 1]
  <2>1. v \in Seq(Nat) /\ a \in Nat \ {0} /\ b \in 0 .. Len(v)
    BY <1>1
  <2> QED
    BY ONLY <2>1, PieceKeeps
<1> HIDE DEF s
<1>3. a \in Nat \ {0} /\ b \in Nat /\ b <= n /\ Len(s) \in Nat
  BY <1>2
<1>4. ASSUME NEW k \in 1 .. Len(s)
      PROVE  s[k] = m + a + k - 1
  <2>1. a <= b /\ k \in Nat \ {0} /\ k <= b - a + 1
    BY <1>2, <1>3
  <2>2. a + k - 1 \in 1 .. n /\ m + (a + k - 1) = m + a + k - 1
    BY <1>3, <2>1
  <2> QED
    BY <1>1, <1>2, <2>2
<1>5. (s = <<>>) = (a > b)
  <2>1. (s = <<>>) <=> (Len(s) = 0)
    BY <1>2
  <2> QED
    BY <1>2, <1>3, <2>1
<1> QED
  BY <1>2, <1>4, <1>5 DEF s, v, Piece, IsPiece

\* A frame is not in its own lists.
LEMMA PieceWithout ==
  ASSUME NEW m \in Nat, NEW n \in Nat, NEW a \in 1 .. n + 1, NEW b \in 0 .. n,
         NEW i \in 1 .. n, i < a \/ b < i
  PROVE  Without(Piece(m, n, a, b), m + i) = Piece(m, n, a, b)
<1> DEFINE s == Piece(m, n, a, b)
           S == Nat \ {m + i}
<1>1. /\ s \in Seq(Nat) /\ Len(s) = (IF a <= b THEN b - a + 1 ELSE 0)
      /\ \A k \in 1 .. Len(s) : s[k] = m + a + k - 1
  <2>1. IsPiece(s, m, a, b)
    BY PieceType
  <2> HIDE DEF s
  <2> QED
    BY <2>1 DEF IsPiece
<1> HIDE DEF s
<1>2. ASSUME NEW k \in 1 .. Len(s)
      PROVE  s[k] \in S
  <2>1. s[k] = m + a + k - 1 /\ a \in Nat /\ b \in Nat /\ i \in Nat
    BY <1>1
  <2>2. k \in Nat \ {0} /\ a <= b /\ k <= b - a + 1
    BY <1>1, <2>1
  <2>3. m + a + k - 1 # m + i /\ m + a + k - 1 \in Nat
    BY <2>1, <2>2
  <2> QED
    BY <2>1, <2>3
<1>3. s \in Seq(S)
  BY <1>1, <1>2
<1> HIDE DEF S
<1>4. m + i \notin S
  BY DEF S
<1>5. Without(s, m + i) = s
  BY <1>3, <1>4, WithoutNone
<1> QED
  BY <1>5 DEF s

\* What the lists x of the i-th frame of the vector are: the next frame is the
\* first behind it, and the frame in front of it the last of those before.
LinkedAs(x, m, n, i) ==
  /\ x.first \in Seq(Nat) /\ x.second \in Seq(Nat)
  /\ Without(x.first, m + i) = x.first /\ Without(x.second, m + i) = x.second
  /\ (x.first = <<>>) = (i = 1)
  /\ i > 1 => x.first[Len(x.first)] = m + i - 1 /\ x.first[1] = m + FirstLinked(i)
  /\ \A k \in 1 .. Len(x.first) : x.first[k] < m + i
  /\ (x.second = <<>>) = (i = n)
  /\ i < n => x.second[1] = m + i + 1

LEMMA LinkedAtType ==
  ASSUME NEW m \in Nat, NEW n \in Nat, NEW i \in 1 .. n
  PROVE  LinkedAs(LinkedAt(m, n, i), m, n, i)
<1> DEFINE a == FirstLinked(i)
           b == LastLinked(n, i)
           back == Piece(m, n, a, i - 1)
           forth == Piece(m, n, i + 1, b)
<1>1. Depth \in Nat \ {0} /\ i \in Nat \ {0} /\ i <= n
  BY FramesAssumption DEF FramesAssumption
<1>2. /\ a \in Nat \ {0} /\ (i > 1 => a < i) /\ (i = 1 => a = 1)
      /\ b \in Nat /\ b <= n /\ (i < n => b > i) /\ (i = n => b = i)
  BY <1>1 DEF FirstLinked, LastLinked
<1> HIDE DEF a, b
<1>3. a \in 1 .. n + 1 /\ i - 1 \in 0 .. n /\ i + 1 \in 1 .. n + 1 /\ b \in 0 .. n
  BY <1>1, <1>2
<1>4. /\ back \in Seq(Nat)
      /\ Len(back) = (IF a <= i - 1 THEN (i - 1) - a + 1 ELSE 0)
      /\ (back = <<>>) = (a > i - 1)
      /\ \A k \in 1 .. Len(back) : back[k] = m + a + k - 1
  <2>1. IsPiece(back, m, a, i - 1)
    BY <1>3, PieceType
  <2> HIDE DEF back
  <2> QED
    BY <2>1 DEF IsPiece
<1>5. /\ forth \in Seq(Nat)
      /\ Len(forth) = (IF i + 1 <= b THEN b - (i + 1) + 1 ELSE 0)
      /\ (forth = <<>>) = (i + 1 > b)
      /\ \A k \in 1 .. Len(forth) : forth[k] = m + (i + 1) + k - 1
  <2>1. IsPiece(forth, m, i + 1, b)
    BY <1>3, PieceType
  <2> HIDE DEF forth
  <2> QED
    BY <2>1 DEF IsPiece
<1>6. Without(back, m + i) = back /\ Without(forth, m + i) = forth
  <2>1. i - 1 < i /\ i < i + 1
    BY <1>1
  <2> QED
    BY <1>3, <2>1, PieceWithout
<1>7. LinkedAt(m, n, i).first = back /\ LinkedAt(m, n, i).second = forth
  BY DEF LinkedAt, a, b
<1> HIDE DEF back, forth
<1>8. Len(back) \in Nat /\ Len(forth) \in Nat
  BY <1>4, <1>5
<1>9. (back = <<>>) = (i = 1) /\ (forth = <<>>) = (i = n)
  BY <1>1, <1>2, <1>4, <1>5
<1>10. ASSUME i > 1
       PROVE  back[Len(back)] = m + i - 1 /\ back[1] = m + a
  <2>1. a <= i - 1 /\ Len(back) = (i - 1) - a + 1
    BY <1>1, <1>2, <1>4, <1>10
  <2>2. Len(back) \in 1 .. Len(back) /\ 1 \in 1 .. Len(back)
    BY <1>2, <1>1, <1>8, <2>1
  <2>3. back[Len(back)] = m + a + Len(back) - 1 /\ back[1] = m + a + 1 - 1
    BY <1>4, <2>2
  <2> QED
    BY <1>1, <1>2, <2>1, <2>3
<1>11. ASSUME NEW k \in 1 .. Len(back)
       PROVE  back[k] < m + i
  <2>1. back[k] = m + a + k - 1 /\ k \in Nat \ {0} /\ a <= i - 1 /\ k <= (i - 1) - a + 1
    BY <1>1, <1>2, <1>4, <1>8
  <2> QED
    BY <1>1, <1>2, <2>1
<1>12. ASSUME i < n
       PROVE  forth[1] = m + i + 1
  <2>1. 1 \in 1 .. Len(forth)
    BY <1>1, <1>2, <1>5, <1>12
  <2>2. forth[1] = m + (i + 1) + 1 - 1
    BY <1>5, <2>1
  <2> QED
    BY <1>1, <2>2
<1> DEFINE x == LinkedAt(m, n, i)
<1>13. x.first = back /\ x.second = forth
  BY <1>7
<1> HIDE DEF x, a
<1>14. LinkedAs(x, m, n, i)
  BY <1>4, <1>5, <1>6, <1>9, <1>10, <1>11, <1>12, <1>13 DEF LinkedAs, a
<1> QED
  BY <1>14 DEF x

\* One frame of the vector, linked.
LEMMA LinkOneLinks ==
  ASSUME NEW m \in Nat, NEW n \in Nat, NEW l, NEW o, o \in Links(m + n), NEW i \in 1 .. n,
         LinkedTo(m, n, l, o, i - 1)
  PROVE  \E p \in Links(m + n) :
           /\ LinkOne([threw |-> FALSE, lists |-> o], Vector(m, n), i)
                = [threw |-> FALSE, lists |-> p]
           /\ LinkedTo(m, n, l, p, i)
<1> DEFINE v == Vector(m, n)
           back == LinkedAt(m, n, i).first
           forth == LinkedAt(m, n, i).second
           acc == [threw |-> FALSE, lists |-> o]
           p == SetLists(o, m + i, back, forth)
<1>1. /\ v \in Seq(Nat) /\ Len(v) = n /\ i \in Nat \ {0} /\ i <= n
      /\ \A k \in 1 .. n : v[k] = m + k
  <2>1. i \in Nat \ {0} /\ i <= n
    OBVIOUS
  <2> QED
    BY <2>1, VectorType, Zenon
<1>2. /\ back \in Seq(Nat) /\ forth \in Seq(Nat)
      /\ Without(back, m + i) = back /\ Without(forth, m + i) = forth
      /\ (back = <<>>) = (i = 1)
      /\ (i > 1 => back[Len(back)] = m + i - 1)
      /\ (forth = <<>>) = (i = n)
      /\ (i < n => forth[1] = m + i + 1)
  <2> DEFINE x == LinkedAt(m, n, i)
  <2>1. LinkedAs(x, m, n, i)
    BY LinkedAtType
  <2> HIDE DEF x
  <2>2. /\ x.first \in Seq(Nat) /\ x.second \in Seq(Nat)
        /\ Without(x.first, m + i) = x.first /\ Without(x.second, m + i) = x.second
        /\ (x.first = <<>>) = (i = 1)
        /\ (i > 1 => x.first[Len(x.first)] = m + i - 1)
        /\ (x.second = <<>>) = (i = n)
        /\ (i < n => x.second[1] = m + i + 1)
    BY <2>1, Zenon DEF LinkedAs
  <2> QED
    BY <2>2 DEF x
<1>3. /\ SubSeq(v, i + 1, IF i + Depth < Len(v) THEN i + Depth ELSE Len(v)) = forth
      /\ SubSeq(v, IF i > Depth THEN i - Depth ELSE 1, i - 1) = back
      /\ LinkedAt(m, n, i) = [first |-> back, second |-> forth]
  <2>1. Len(v) = n
    BY <1>1
  <2> QED
    BY <2>1 DEF LinkedAt, Piece, FirstLinked, LastLinked
<1> HIDE DEF v, back, forth
<1>4. o[m + i] = Blank
  BY <1>1, ~ (i <= i - 1) DEF LinkedTo
<1>5. v[i] = m + i /\ (i > 1 => v[i - 1] = m + i - 1) /\ (i < n => v[i + 1] = m + i + 1)
  <2>1. i > 1 => i - 1 \in 1 .. n /\ m + (i - 1) = m + i - 1
    BY <1>1
  <2>2. i < n => i + 1 \in 1 .. n /\ m + (i + 1) = m + i + 1
    BY <1>1
  <2> QED
    BY <1>1, <2>1, <2>2
<1>6. LinkOne(acc, v, i) = [threw |-> FALSE, lists |-> p]
  <2>1. o[m + i].first = <<>> /\ o[m + i].second = <<>>
    BY <1>4 DEF Blank
  <2>2. i > 1 => Last(back) = v[i - 1]
    BY <1>2, <1>5 DEF Last
  <2>3. i < Len(v) => forth[1] = v[i + 1]
    BY <1>1, <1>2, <1>5
  <2>4. (forth = <<>>) = (i = Len(v))
    BY <1>1, <1>2
  <2> HIDE DEF p
  <2>5. LinkOne(acc, v, i) = [acc EXCEPT !.lists = SetLists(o, m + i, back, forth)]
    BY <1>2, <1>3, <1>5, <2>1, <2>2, <2>3, <2>4 DEF LinkOne
  <2> QED
    BY <2>5 DEF p
<1>7. /\ p \in Links(m + n)
      /\ p[m + i] = [first |-> back, second |-> forth]
      /\ \A g \in 1 .. m + n : g # m + i => p[g] = o[g]
  <2> DEFINE c == m + n
             f == m + i
  <2>1. c \in Nat /\ f \in 1 .. c
    BY <1>1
  <2>2. back \in ListsOf(Nat) /\ forth \in ListsOf(Nat) /\ o \in Links(c)
    BY <1>2 DEF ListsOf
  <2>3. Without(back, f) = back /\ Without(forth, f) = forth
    BY <1>2
  <2> HIDE DEF p, c, f
  <2>4. ListsSet(c, o, f, back, forth)
    BY ONLY <2>1, <2>2, SetListsSet
  <2>5. /\ SetLists(o, f, back, forth) \in Links(c)
        /\ SetLists(o, f, back, forth)[f]
             = [first |-> Without(back, f), second |-> Without(forth, f)]
        /\ \A g \in 1 .. c : g # f => SetLists(o, f, back, forth)[g] = o[g]
    BY ONLY <2>4, Zenon DEF ListsSet
  <2> QED
    BY <2>3, <2>5 DEF p, c, f
<1> HIDE DEF p
<1>8. LinkedTo(m, n, l, p, i)
  <2>1. ASSUME NEW g \in 1 .. m
        PROVE  p[g] = l[g]
    <3>1. g \in 1 .. m + n /\ g # m + i
      BY <1>1
    <3> QED
      BY <1>7, <3>1 DEF LinkedTo
  <2>2. ASSUME NEW k \in 1 .. n
        PROVE  p[m + k] = IF k <= i THEN LinkedAt(m, n, k) ELSE Blank
    <3>1. CASE k = i
      BY <1>1, <1>3, <1>7, <3>1
    <3>2. CASE k # i
      <4>1. m + k \in 1 .. m + n /\ m + k # m + i /\ (k <= i <=> k <= i - 1)
        BY <1>1, <3>2
      <4>2. p[m + k] = o[m + k]
        BY <1>7, <4>1
      <4>3. o[m + k] = IF k <= i - 1 THEN LinkedAt(m, n, k) ELSE Blank
        BY DEF LinkedTo
      <4> QED
        BY <4>1, <4>2, <4>3
    <3> QED
      BY <3>1, <3>2
  <2> QED
    BY <2>1, <2>2 DEF LinkedTo
<1> QED
  BY <1>6, <1>7, <1>8 DEF v

\* Whatever the lists are, linking one frame leaves lists.
LinkStates(n) == [threw : BOOLEAN, lists : Links(n)]

\* LinkOne keeps its kind, whatever the lists are.
LEMMA LinkOneType ==
  ASSUME NEW m \in Nat, NEW n \in Nat, NEW acc \in LinkStates(m + n), NEW i \in 1 .. n
  PROVE  LinkOne(acc, Vector(m, n), i) \in LinkStates(m + n)
<1> DEFINE v == Vector(m, n)
           l == acc.lists
           old == l[m + i]
           forward  == IF old.second # <<>> THEN old.second
                       ELSE SubSeq(v, i + 1, IF i + Depth < Len(v) THEN i + Depth ELSE Len(v))
           backward == IF old.first # <<>> THEN old.first
                       ELSE SubSeq(v, IF i > Depth THEN i - Depth ELSE 1, i - 1)
           c == m + n
           f == m + i
<1>1. /\ v \in Seq(Nat) /\ Len(v) = n /\ Depth \in Nat \ {0} /\ v[i] = f
      /\ i \in Nat \ {0} /\ i <= n
  BY VectorType, FramesAssumption DEF FramesAssumption
<1>2. l \in Links(c) /\ c \in Nat /\ f \in 1 .. c
  BY <1>1 DEF LinkStates
<1>3. old.first \in Seq(Nat) /\ old.second \in Seq(Nat)
  <2>1. l[f] \in LinkSet
    <3> HIDE DEF c, f, l
    <3> QED
      BY <1>2 DEF Links
  <2>2. old \in LinkSet
    BY <2>1
  <2> HIDE DEF old
  <2> QED
    BY <2>2 DEF LinkSet
<1>4. forward \in Seq(Nat)
  <2> DEFINE b == IF i + Depth < Len(v) THEN i + Depth ELSE Len(v)
  <2>1. i + 1 \in Nat \ {0} /\ b \in 0 .. Len(v)
    BY <1>1
  <2> HIDE DEF v, old, b
  <2>2. SubSeq(v, i + 1, b) \in Seq(Nat)
    BY <1>1, <2>1, PieceKeeps
  <2> QED
    BY <1>3, <2>2 DEF b
<1>5. backward \in Seq(Nat)
  <2> DEFINE a == IF i > Depth THEN i - Depth ELSE 1
  <2>1. a \in Nat \ {0} /\ i - 1 \in 0 .. Len(v)
    BY <1>1
  <2> HIDE DEF v, old, a
  <2>2. SubSeq(v, a, i - 1) \in Seq(Nat)
    BY <1>1, <2>1, PieceKeeps
  <2> QED
    BY <1>3, <2>2 DEF a
<1>6. \/ LinkOne(acc, v, i) = acc
      \/ LinkOne(acc, v, i) = [acc EXCEPT !.threw = TRUE]
      \/ LinkOne(acc, v, i) = [acc EXCEPT !.lists = SetLists(l, f, backward, forward)]
  BY <1>1 DEF LinkOne
<1> HIDE DEF forward, backward, c, f, v, l
<1>7. SetLists(l, f, backward, forward) \in Links(c)
  BY <1>2, <1>4, <1>5, SetListsType
<1> QED
  BY <1>6, <1>7 DEF LinkStates, c, v

\* The loop of link_vector over the vector.
LinkFold(m, n, l) ==
  FoldLeft(LAMBDA acc, i : LinkOne(acc, Vector(m, n), i),
           [threw |-> FALSE, lists |-> l], [i \in DOMAIN Vector(m, n) |-> i])

\* It goes through the vector one frame after the other.
LinkRun(g, m, n, l) ==
  /\ g[0] = [threw |-> FALSE, lists |-> l]
  /\ \A i \in 1 .. n : g[i] = LinkOne(g[i - 1], Vector(m, n), i)
  /\ LinkFold(m, n, l) = g[n]

LEMMA LinkFoldFollows ==
  ASSUME NEW m \in Nat, NEW n \in Nat, NEW l, l \in Links(m + n)
  PROVE  \E g \in [0 .. n -> LinkStates(m + n)] : LinkRun(g, m, n, l)
<1> DEFINE v == Vector(m, n)
           A == LinkStates(m + n)
           seq == [i \in DOMAIN v |-> i]
           S == DOMAIN seq
           a == [threw |-> FALSE, lists |-> l]
           D == [i \in 1 .. n |-> [x \in A |-> LinkOne(x, v, i)]]
           Eq(h) == h = [s \in SUBSET S |->
                           IF s = {} THEN a
                           ELSE LinkOne(h[s \ {Max(s)}], v, seq[Max(s)])]
           it == CHOOSE h : Eq(h)
<1>1. LinkFold(m, n, l) = it[S]
  BY DEF LinkFold, FoldLeft, MapThenFoldSet
<1>2. S = 1 .. n /\ \A i \in 1 .. n : seq[i] = i
  BY VectorType
<1> HIDE DEF seq
<1>3. a \in A /\ D \in [1 .. n -> [A -> A]]
  BY LinkOneType DEF LinkStates
<1>4. \A i \in 1 .. n : \A x \in A : D[i][x] = LinkOne(x, v, i)
  OBVIOUS
<1> HIDE DEF A, a, D, v
<1>5. PICK h \in [SUBSET (1 .. n) -> A] :
        /\ Folded(h, n, a, D)
        /\ \A s \in SUBSET (1 .. n) : s # {} => Max(s) \in 1 .. n /\ h[s \ {Max(s)}] \in A
  BY <1>3, FoldExists
<1>6. Eq(h)
  <2>1. ASSUME NEW s \in SUBSET (1 .. n)
        PROVE  h[s] = IF s = {} THEN a ELSE LinkOne(h[s \ {Max(s)}], v, seq[Max(s)])
    <3>1. h[s] = IF s = {} THEN a ELSE D[Max(s)][h[s \ {Max(s)}]]
      BY <1>5 DEF Folded
    <3>2. CASE s = {}
      BY <3>1, <3>2
    <3>3. CASE s # {}
      <4> DEFINE x == h[s \ {Max(s)}]
                 i == Max(s)
      <4>1. h[s] = D[i][x]
        BY <3>1, <3>3
      <4>2. x \in A /\ i \in 1 .. n
        BY <1>5, <3>3
      <4> HIDE DEF x, i
      <4>3. h[s] = LinkOne(x, v, seq[i])
        BY <1>2, <1>4, <4>1, <4>2
      <4> QED
        BY <3>3, <4>3 DEF x, i
    <3> QED
      BY <3>2, <3>3
  <2> QED
    BY <1>2, <2>1
<1>7. Eq(it)
  <2> HIDE DEF Eq
  <2> QED
    BY <1>6
<1>8. \A s \in SUBSET (1 .. n) :
        it[s] = IF s = {} THEN a ELSE LinkOne(it[s \ {Max(s)}], v, seq[Max(s)])
  BY <1>2, <1>7
<1> HIDE DEF it
<1>9. it[{}] = a
  BY <1>8
<1>10. ASSUME NEW j \in 1 .. n, it[1 .. j - 1] \in A
       PROVE  it[1 .. j] = D[j][it[1 .. j - 1]]
  <2>1. /\ 1 .. j \in SUBSET (1 .. n) /\ 1 .. j # {}
        /\ Max(1 .. j) = j /\ (1 .. j) \ {j} = 1 .. j - 1
    BY IntervalPart
  <2>2. it[1 .. j] = LinkOne(it[1 .. j - 1], v, j)
    <3> DEFINE s == 1 .. j
    <3>1. it[s] = LinkOne(it[s \ {Max(s)}], v, seq[Max(s)])
      <4> HIDE DEF s
      <4> QED
        BY <1>8, <2>1 DEF s
    <3> QED
      BY <1>2, <2>1, <3>1
  <2> QED
    BY <1>4, <1>10, <2>2
<1>11. PICK g \in [0 .. n -> A] : LeadsTo(g, n, a, D, it)
  <2>1. n \in Nat /\ a \in A /\ D \in [1 .. n -> [A -> A]]
    BY <1>3
  <2>2. Stepwise(it, n, A, a, D)
    BY <1>9, <1>10 DEF Stepwise
  <2> QED
    BY ONLY <2>1, <2>2, FoldFollows
<1>12. \A i \in 1 .. n : g[i] = LinkOne(g[i - 1], v, i)
  <2>1. ASSUME NEW i \in 1 .. n
        PROVE  g[i] = LinkOne(g[i - 1], v, i)
    <3>1. g[i - 1] \in A /\ g[i] = D[i][g[i - 1]]
      BY <1>11 DEF LeadsTo, Follows
    <3> QED
      BY <1>4, <3>1
  <2> QED
    BY <2>1
<1>13. g[0] = a /\ LinkFold(m, n, l) = g[n]
  BY <1>1, <1>2, <1>11 DEF LeadsTo, Follows
<1> QED
  BY <1>12, <1>13 DEF a, A, v, LinkRun

\* It links every frame of the vector and throws nothing.
LEMMA LinkFoldLinks ==
  ASSUME NEW m \in Nat, NEW n \in Nat, NEW l, l \in Links(m + n), LinkedTo(m, n, l, l, 0)
  PROVE  \E p \in Links(m + n) :
           LinkFold(m, n, l) = [threw |-> FALSE, lists |-> p] /\ LinkedTo(m, n, l, p, n)
<1> DEFINE Done(x, i) == \E p \in Links(m + n) :
                           x = [threw |-> FALSE, lists |-> p] /\ LinkedTo(m, n, l, p, i)
<1>0. PICK g \in [0 .. n -> LinkStates(m + n)] : LinkRun(g, m, n, l)
  BY LinkFoldFollows
<1>1. /\ g[0] = [threw |-> FALSE, lists |-> l]
      /\ \A i \in 1 .. n : g[i] = LinkOne(g[i - 1], Vector(m, n), i)
      /\ LinkFold(m, n, l) = g[n]
  BY <1>0 DEF LinkRun
<1> DEFINE T == {i \in 0 .. n : Done(g[i], i)}
<1>2. 0 \in T
  BY <1>1
<1>3. ASSUME NEW i \in 0 .. n - 1, i \in T
      PROVE  i + 1 \in T
  <2>1. i + 1 \in 1 .. n /\ (i + 1) - 1 = i /\ i + 1 \in 0 .. n
    OBVIOUS
  <2>2. PICK o \in Links(m + n) :
          g[i] = [threw |-> FALSE, lists |-> o] /\ LinkedTo(m, n, l, o, (i + 1) - 1)
    BY <1>3, <2>1
  <2>3. PICK p \in Links(m + n) :
          /\ LinkOne([threw |-> FALSE, lists |-> o], Vector(m, n), i + 1)
               = [threw |-> FALSE, lists |-> p]
          /\ LinkedTo(m, n, l, p, i + 1)
    BY <2>1, <2>2, LinkOneLinks
  <2>4. g[i + 1] = LinkOne(g[i], Vector(m, n), i + 1)
    BY <1>1, <2>1
  <2>5. Done(g[i + 1], i + 1)
    BY <2>2, <2>3, <2>4
  <2> HIDE DEF Done
  <2> QED
    BY <2>1, <2>5
<1> HIDE DEF T
<1>4. 0 .. n \subseteq T
  BY <1>2, <1>3, BoundedInduction
<1>5. n \in T
  BY <1>4
<1> QED
  BY <1>1, <1>5 DEF T

\* A vector of two frames, which is linked by itself.
LEMMA TwoLinked ==
  ASSUME NEW m \in Nat, NEW l, l \in Links(m + 2), LinkedTo(m, 2, l, l, 0)
  PROVE  \E p \in Links(m + 2) :
           /\ SetLists(SetLists(l, m + 1, <<>>, <<m + 2>>), m + 2, <<m + 1>>, <<>>) = p
           /\ LinkedTo(m, 2, l, p, 2)
<1> DEFINE c == m + 2
           f == m + 1
           A == <<c>>
           B == <<f>>
           o == SetLists(l, f, <<>>, A)
           p == SetLists(o, c, B, <<>>)
<1>1. /\ c \in Nat /\ f \in Nat /\ f \in 1 .. c /\ c \in 1 .. c /\ f # c
      /\ <<>> \in ListsOf(Nat) /\ A \in ListsOf(Nat) /\ B \in ListsOf(Nat)
  BY DEF ListsOf
<1>2. /\ Without(<<>>, f) = <<>> /\ Without(A, f) = A
      /\ Without(<<>>, c) = <<>> /\ Without(B, c) = B
  <2> DEFINE X == Nat \ {f}
             Y == Nat \ {c}
  <2>1. <<>> \in Seq(X) /\ A \in Seq(X) /\ <<>> \in Seq(Y) /\ B \in Seq(Y)
        /\ f \notin X /\ c \notin Y
    <3>1. c \in X /\ f \in Y
      BY <1>1
    <3> HIDE DEF X, Y
    <3>2. A \in Seq(X) /\ B \in Seq(Y)
      BY <3>1
    <3> QED
      BY <3>2 DEF X, Y
  <2> HIDE DEF X, Y, A, B, c, f
  <2> QED
    BY <2>1, WithoutNone
<1>3. LinkedAt(m, 2, 1) = [first |-> <<>>, second |-> A]
      /\ LinkedAt(m, 2, 2) = [first |-> B, second |-> <<>>]
  <2>1. Depth \in Nat \ {0}
    BY FramesAssumption DEF FramesAssumption
  <2>2. FirstLinked(1) = 1 /\ FirstLinked(2) = 1 /\ LastLinked(2, 1) = 2 /\ LastLinked(2, 2) = 2
    BY <2>1 DEF FirstLinked, LastLinked
  <2>3. LinkedAt(m, 2, 1) = [first |-> Piece(m, 2, 1, 0), second |-> Piece(m, 2, 2, 2)]
        /\ LinkedAt(m, 2, 2) = [first |-> Piece(m, 2, 1, 1), second |-> Piece(m, 2, 3, 2)]
    BY <2>2 DEF LinkedAt
  <2>4. /\ IsPiece(Piece(m, 2, 1, 0), m, 1, 0) /\ IsPiece(Piece(m, 2, 2, 2), m, 2, 2)
        /\ IsPiece(Piece(m, 2, 1, 1), m, 1, 1) /\ IsPiece(Piece(m, 2, 3, 2), m, 3, 2)
    BY PieceType
  <2>5. ASSUME NEW s, NEW a \in 1 .. 2, IsPiece(s, m, a, a)
        PROVE  s = <<m + a>>
    <3>1. s \in Seq(Nat) /\ Len(s) = 1 /\ s[1] = m + a + 1 - 1
      BY <2>5 DEF IsPiece
    <3>2. m + a + 1 - 1 = m + a
      OBVIOUS
    <3> QED
      BY <3>1, <3>2
  <2>6. Piece(m, 2, 1, 0) = <<>> /\ Piece(m, 2, 3, 2) = <<>>
    BY <2>4 DEF IsPiece
  <2>7. Piece(m, 2, 2, 2) = A /\ Piece(m, 2, 1, 1) = B
    BY <2>4, <2>5
  <2> HIDE DEF A, B
  <2> QED
    BY <2>3, <2>6, <2>7
<1> HIDE DEF c, f, A, B
<1>4. /\ o \in Links(c) /\ o[f] = [first |-> <<>>, second |-> A]
      /\ \A g \in 1 .. c : g # f => o[g] = l[g]
  <2>1. l \in Links(c)
    BY DEF c
  <2> HIDE DEF o
  <2>2. ListsSet(c, l, f, <<>>, A)
    BY ONLY <1>1, <2>1, SetListsSet
  <2> QED
    BY <1>2, <2>2 DEF ListsSet, o
<1> HIDE DEF o
<1>5. /\ p \in Links(c) /\ p[c] = [first |-> B, second |-> <<>>]
      /\ \A g \in 1 .. c : g # c => p[g] = o[g]
  <2> HIDE DEF p
  <2>2. ListsSet(c, o, c, B, <<>>)
    BY ONLY <1>1, <1>4, SetListsSet
  <2> QED
    BY <1>2, <2>2 DEF ListsSet, p
<1> HIDE DEF p
<1>6. LinkedTo(m, 2, l, p, 2)
  <2>1. ASSUME NEW g \in 1 .. m
        PROVE  p[g] = l[g]
    <3>1. g \in 1 .. c /\ g # c /\ g # f
      BY DEF c, f
    <3> QED
      BY <1>4, <1>5, <3>1
  <2>2. p[m + 1] = LinkedAt(m, 2, 1)
    BY <1>1, <1>3, <1>4, <1>5 DEF f
  <2>3. p[m + 2] = LinkedAt(m, 2, 2)
    BY <1>3, <1>5 DEF c
  <2>4. \A k \in 1 .. 2 : (k = 1 \/ k = 2) /\ k <= 2
    OBVIOUS
  <2> QED
    BY <2>1, <2>2, <2>3, <2>4 DEF LinkedTo
<1> QED
  BY <1>5, <1>6 DEF p, o, A, B, c, f

\* link_vector links the frames of a vector as LinkedAt says, however many they
\* are, and throws nothing.
LEMMA VectorLinked ==
  ASSUME NEW m \in Nat, NEW n \in Nat \ {0}, NEW l, l \in Links(m + n),
         \A k \in 1 .. n : l[m + k] = Blank
  PROVE  \E p \in Links(m + n) :
           /\ LinkVector(l, Vector(m, n)) = [threw |-> FALSE, lists |-> p]
           /\ LinkedTo(m, n, l, p, n)
<1>1. LinkedTo(m, n, l, l, 0)
  BY DEF LinkedTo
<1>2. /\ Len(Vector(m, n)) = n
      /\ \A k \in 1 .. n : Vector(m, n)[k] = m + k
  BY VectorType
<1>3. CASE n = 1
  <2>1. LinkVector(l, Vector(m, n)) = [threw |-> FALSE, lists |-> l]
    BY <1>2, <1>3 DEF LinkVector
  <2>2. LinkedAt(m, 1, 1) = Blank
    <3>1. Depth \in Nat \ {0}
      BY FramesAssumption DEF FramesAssumption
    <3>2. FirstLinked(1) = 1 /\ LastLinked(1, 1) = 1
      BY <3>1 DEF FirstLinked, LastLinked
    <3>3. IsPiece(Piece(m, 1, 1, 0), m, 1, 0) /\ IsPiece(Piece(m, 1, 2, 1), m, 2, 1)
      BY PieceType
    <3>4. Piece(m, 1, 1, 0) = <<>> /\ Piece(m, 1, 2, 1) = <<>>
      BY <3>3 DEF IsPiece
    <3> QED
      BY <3>2, <3>4 DEF LinkedAt, Blank
  <2>3. LinkedTo(m, n, l, l, n)
    <3>1. \A k \in 1 .. n : k = 1 /\ k <= n /\ l[m + k] = Blank
      BY <1>3
    <3>2. \A k \in 1 .. n : LinkedAt(m, n, k) = Blank
      BY <1>3, <2>2, <3>1
    <3> QED
      BY <3>1, <3>2 DEF LinkedTo
  <2> QED
    BY <2>1, <2>3
<1>4. CASE n = 2
  <2>1. LinkVector(l, Vector(m, n))
          = [threw |-> FALSE,
             lists |-> SetLists(SetLists(l, m + 1, <<>>, <<m + 2>>), m + 2, <<m + 1>>, <<>>)]
    <3>1. Vector(m, n)[1] = m + 1 /\ Vector(m, n)[2] = m + 2
      BY <1>2, <1>4
    <3>2. ~ (Len(Vector(m, n)) < 2) /\ Len(Vector(m, n)) = 2
      BY <1>2, <1>4
    <3> QED
      BY <3>1, <3>2 DEF LinkVector
  <2>2. l \in Links(m + 2) /\ LinkedTo(m, 2, l, l, 0)
    BY <1>1, <1>4
  <2>3. PICK p \in Links(m + 2) :
          /\ SetLists(SetLists(l, m + 1, <<>>, <<m + 2>>), m + 2, <<m + 1>>, <<>>) = p
          /\ LinkedTo(m, 2, l, p, 2)
    BY <2>2, TwoLinked
  <2> QED
    BY <1>4, <2>1, <2>3
<1>5. CASE n > 2
  <2>1. ~ (Len(Vector(m, n)) < 2) /\ ~ (Len(Vector(m, n)) = 2)
    BY <1>2, <1>5
  <2>2. LinkVector(l, Vector(m, n)) = LinkFold(m, n, l)
    BY <2>1, Zenon DEF LinkVector, LinkFold
  <2> QED
    BY <1>1, <2>2, LinkFoldLinks
<1> QED
  BY <1>3, <1>4, <1>5

(***************************************************************************)
(* The frames as the sinks deliver them.                                   *)
(***************************************************************************)

\* The first and the last frame of a batch.
From(b) == batches[b][1]
To(b)   == batches[b][1] + Len(batches[b]) - 1

\* Where a walk goes back to from the frame f of a batch that begins with s.
Back(f, s) == IF f - Depth > s THEN f - Depth ELSE s

\* The lists x of the frame f lead back within its batch, and on to the frame
\* behind, in whatever batch that is.
Chained(x, f, s, n) ==
  /\ \A k \in 1 .. Len(x.first) : x.first[k] < f
  /\ IF f = s THEN x.first = <<>> ELSE x.first # <<>> /\ x.first[1] = Back(f, s)
  /\ IF f = n THEN x.second = <<>> ELSE x.second # <<>> /\ x.second[1] = f + 1

\* The batches are intervals, one behind the other, and cover the frames.
BatchesInv ==
  /\ batches \in Seq(Seq(Nat)) /\ batches # <<>>
  /\ \A b \in 1 .. Len(batches) :
       /\ Len(batches[b]) >= 1 /\ From(b) >= 1 /\ To(b) <= Len(lists)
       /\ \A i \in 1 .. Len(batches[b]) : batches[b][i] = From(b) + i - 1
  /\ \A b, c \in 1 .. Len(batches) : b < c => To(b) < From(c)
  /\ \A f \in 1 .. Len(lists) : \E b \in 1 .. Len(batches) : f \in From(b) .. To(b)
  /\ To(Len(batches)) = Len(lists)

\* The lists of every frame.
ChainsInv ==
  /\ lists \in Seq(LinkSet) /\ Len(lists) >= 1
  /\ \A b \in 1 .. Len(batches) : \A f \in From(b) .. To(b) :
       Chained(lists[f], f, From(b), Len(lists))

\* A frame begins when the one in front of it has ended, or later.
InOrder(s) ==
  /\ s \in Seq(SpanSet)
  /\ \A f \in 1 .. Len(s) : s[f].end = s[f].start + Span
  /\ \A f, g \in 1 .. Len(s) : f < g => s[f].end <= s[g].start

SpansInv == InOrder(spans) /\ Len(spans) = Len(lists)

VectorsInv == BatchesInv /\ ChainsInv /\ SpansInv

\* The time of a frame that comes gap behind the last one.
NextSpan(s, gap) == [start |-> Last(s).end + gap, end |-> Last(s).end + gap + Span]

\* Its kind.
LEMMA NextSpanType ==
  ASSUME NEW s \in Seq(SpanSet), s # <<>>, NEW gap \in Nat
  PROVE  /\ Last(s) = s[Len(s)] /\ Len(s) \in Nat \ {0}
         /\ \A f \in 1 .. Len(s) : s[f] \in SpanSet /\ s[f].start \in Int /\ s[f].end \in Int
         /\ NextSpan(s, gap) \in SpanSet
         /\ NextSpan(s, gap).start = Last(s).end + gap
         /\ NextSpan(s, gap).end = Last(s).end + gap + Span
<1> DEFINE n == Len(s)
<1>1. Span \in Nat /\ n \in Nat \ {0} /\ Last(s) = s[n]
  BY FramesAssumption DEF FramesAssumption, Last
<1>2. ASSUME NEW f \in 1 .. n
      PROVE  s[f] \in SpanSet /\ s[f].start \in Int /\ s[f].end \in Int
  <2>1. s[f] \in SpanSet
    OBVIOUS
  <2> DEFINE x == s[f]
  <2> HIDE DEF x, n
  <2>2. x \in SpanSet
    BY <2>1 DEF x
  <2>3. x.start \in Int /\ x.end \in Int
    BY ONLY <2>2 DEF SpanSet
  <2> QED
    BY <2>1, <2>3 DEF x
<1>3. n \in 1 .. n
  BY <1>1
<1>4. Last(s).end \in Int
  BY <1>1, <1>2, <1>3
<1> DEFINE y == Last(s).end
<1> HIDE DEF y, n
<1>5. y + gap \in Int /\ y + gap + Span \in Int
  BY <1>1, <1>4 DEF y
<1>6. NextSpan(s, gap) = [start |-> y + gap, end |-> y + gap + Span]
  BY DEF NextSpan, y
<1>7. [start |-> y + gap, end |-> y + gap + Span] \in SpanSet
  BY ONLY <1>5 DEF SpanSet
<1> QED
  BY <1>1, <1>2, <1>6, <1>7 DEF n, y

\* The times of a delivery.
SpanFold(s, n, gaps) ==
  FoldLeft(LAMBDA acc, i : LET from == Last(acc).end + gaps[i]
                           IN  Append(acc, [start |-> from, end |-> from + Span]),
           s, [i \in 1 .. n |-> i])

\* The times of at least one frame.
Times == Seq(SpanSet) \ {<<>>}

\* They are added one after the other.
SpanRun(g, s, n, gaps) ==
  /\ g[0] = s
  /\ \A i \in 1 .. n : g[i] = Append(g[i - 1], NextSpan(g[i - 1], gaps[i]))
  /\ SpanFold(s, n, gaps) = g[n]

LEMMA SpanFoldFollows ==
  ASSUME NEW n \in Nat, NEW gaps \in [1 .. n -> Nat], NEW s \in Times
  PROVE  \E g \in [0 .. n -> Times] : SpanRun(g, s, n, gaps)
<1> DEFINE A == Times
           seq == [i \in 1 .. n |-> i]
           S == DOMAIN seq
           D == [i \in 1 .. n |-> [x \in A |-> Append(x, NextSpan(x, gaps[i]))]]
           Eq(h) == h = [r \in SUBSET S |->
                           IF r = {} THEN s
                           ELSE LET from == Last(h[r \ {Max(r)}]).end + gaps[seq[Max(r)]]
                                IN  Append(h[r \ {Max(r)}],
                                           [start |-> from, end |-> from + Span])]
           it == CHOOSE h : Eq(h)
<1>1. SpanFold(s, n, gaps) = it[S]
  BY DEF SpanFold, FoldLeft, MapThenFoldSet
<1>2. S = 1 .. n /\ \A i \in 1 .. n : seq[i] = i
  OBVIOUS
<1> HIDE DEF seq
<1>3. s \in A /\ D \in [1 .. n -> [A -> A]]
  <2>1. ASSUME NEW i \in 1 .. n, NEW x \in A
        PROVE  Append(x, NextSpan(x, gaps[i])) \in A
    <3>1. x \in Seq(SpanSet) /\ x # <<>> /\ gaps[i] \in Nat
      BY DEF Times
    <3>3. NextSpan(x, gaps[i]) \in SpanSet
      BY <3>1, NextSpanType
    <3> DEFINE e == NextSpan(x, gaps[i])
    <3>4. e \in SpanSet
      BY <3>3
    <3> HIDE DEF e
    <3>5. Append(x, e) \in Seq(SpanSet) /\ Append(x, e) # <<>>
      BY <3>1, <3>4
    <3> QED
      BY <3>5 DEF e, Times
  <2> QED
    BY <2>1
<1>4. \A i \in 1 .. n : \A x \in A : D[i][x] = Append(x, NextSpan(x, gaps[i]))
  OBVIOUS
<1> HIDE DEF A, D
<1>5. PICK h \in [SUBSET (1 .. n) -> A] :
        /\ Folded(h, n, s, D)
        /\ \A r \in SUBSET (1 .. n) : r # {} => Max(r) \in 1 .. n /\ h[r \ {Max(r)}] \in A
  BY <1>3, FoldExists
<1>6. Eq(h)
  <2>1. ASSUME NEW r \in SUBSET (1 .. n)
        PROVE  h[r] = IF r = {} THEN s
                      ELSE Append(h[r \ {Max(r)}], NextSpan(h[r \ {Max(r)}], gaps[seq[Max(r)]]))
    <3>1. h[r] = IF r = {} THEN s ELSE D[Max(r)][h[r \ {Max(r)}]]
      BY <1>5 DEF Folded
    <3>2. CASE r = {}
      BY <3>1, <3>2
    <3>3. CASE r # {}
      <4> DEFINE x == h[r \ {Max(r)}]
                 i == Max(r)
      <4>1. h[r] = D[i][x]
        BY <3>1, <3>3
      <4>2. x \in A /\ i \in 1 .. n
        BY <1>5, <3>3
      <4> HIDE DEF x, i
      <4>3. h[r] = Append(x, NextSpan(x, gaps[seq[i]]))
        BY <1>2, <1>4, <4>1, <4>2
      <4> QED
        BY <3>3, <4>3 DEF x, i
    <3> QED
      BY <3>2, <3>3
  <2> QED
    BY <1>2, <2>1 DEF NextSpan
<1>7. Eq(it)
  <2> HIDE DEF Eq
  <2> QED
    BY <1>6
<1>8. \A r \in SUBSET (1 .. n) :
        it[r] = IF r = {} THEN s
                ELSE Append(it[r \ {Max(r)}], NextSpan(it[r \ {Max(r)}], gaps[seq[Max(r)]]))
  BY <1>2, <1>7 DEF NextSpan
<1> HIDE DEF it
<1>9. it[{}] = s
  BY <1>8
<1>10. ASSUME NEW j \in 1 .. n, it[1 .. j - 1] \in A
       PROVE  it[1 .. j] = D[j][it[1 .. j - 1]]
  <2>1. /\ 1 .. j \in SUBSET (1 .. n) /\ 1 .. j # {}
        /\ Max(1 .. j) = j /\ (1 .. j) \ {j} = 1 .. j - 1
    BY IntervalPart
  <2>2. it[1 .. j] = Append(it[1 .. j - 1], NextSpan(it[1 .. j - 1], gaps[j]))
    <3> DEFINE r == 1 .. j
    <3>1. it[r] = Append(it[r \ {Max(r)}], NextSpan(it[r \ {Max(r)}], gaps[seq[Max(r)]]))
      <4> HIDE DEF r
      <4> QED
        BY <1>8, <2>1 DEF r
    <3> QED
      BY <1>2, <2>1, <3>1
  <2> QED
    BY <1>4, <1>10, <2>2
<1>11. PICK g \in [0 .. n -> A] : LeadsTo(g, n, s, D, it)
  <2>1. n \in Nat /\ s \in A /\ D \in [1 .. n -> [A -> A]]
    BY <1>3
  <2>2. Stepwise(it, n, A, s, D)
    BY <1>9, <1>10 DEF Stepwise
  <2> QED
    BY ONLY <2>1, <2>2, FoldFollows
<1>12. \A i \in 1 .. n : g[i] = Append(g[i - 1], NextSpan(g[i - 1], gaps[i]))
  <2>1. ASSUME NEW i \in 1 .. n
        PROVE  g[i] = Append(g[i - 1], NextSpan(g[i - 1], gaps[i]))
    <3>1. g[i - 1] \in A /\ g[i] = D[i][g[i - 1]]
      BY <1>11 DEF LeadsTo, Follows
    <3> QED
      BY <1>4, <3>1
  <2> QED
    BY <2>1
<1>13. g[0] = s /\ SpanFold(s, n, gaps) = g[n]
  BY <1>1, <1>2, <1>11 DEF LeadsTo, Follows
<1> QED
  BY <1>12, <1>13 DEF A, SpanRun

\* One more frame leaves the times in order.
LEMMA NextSpanInOrder ==
  ASSUME NEW s, InOrder(s), s # <<>>, NEW gap \in Nat
  PROVE  InOrder(Append(s, NextSpan(s, gap))) /\ Len(Append(s, NextSpan(s, gap))) = Len(s) + 1
<1> DEFINE n == Len(s)
           e == NextSpan(s, gap)
           t == Append(s, e)
<1>0. s \in Seq(SpanSet) /\ Span \in Nat
  BY FramesAssumption DEF InOrder, FramesAssumption
<1>1. /\ s \in Seq(SpanSet) /\ n \in Nat \ {0} /\ Span \in Nat /\ Last(s) = s[n]
      /\ \A f \in 1 .. n : s[f] \in SpanSet /\ s[f].start \in Int /\ s[f].end \in Int
      /\ e \in SpanSet /\ e.start = Last(s).end + gap /\ e.end = Last(s).end + gap + Span
  BY <1>0, NextSpanType
<1> HIDE DEF e, n
<1>2. /\ n \in 1 .. n /\ s[n].start \in Int /\ s[n].end \in Int
      /\ s[n].end = s[n].start + Span
  BY <1>1 DEF InOrder, n
<1>3. e.start = s[n].end + gap /\ e.end = e.start + Span /\ e.start \in Int
  BY <1>1, <1>2
<1>4. /\ t \in Seq(SpanSet) /\ Len(t) = n + 1 /\ t[n + 1] = e
      /\ \A i \in 1 .. n : t[i] = s[i]
  BY <1>1, AppendKeeps DEF n
<1> HIDE DEF t
<1>5. \A i \in 1 .. n + 1 : i \in 1 .. n \/ i = n + 1
  BY <1>1
<1>6. \A f \in 1 .. n + 1 : t[f].end = t[f].start + Span
  BY <1>3, <1>4, <1>5 DEF InOrder, n
<1>7. ASSUME NEW f \in 1 .. n, NEW g \in 1 .. n + 1, f < g
      PROVE  t[f].end <= t[g].start
  <2>1. CASE g \in 1 .. n
    BY <1>4, <1>7, <2>1 DEF InOrder, n
  <2>2. CASE g = n + 1
    <3>1. s[f].end \in Int
      BY <1>1
    <3>2. s[f].end <= s[n].end
      <4>1. CASE f = n
        BY <1>2, <3>1, <4>1
      <4>2. CASE f # n
        <5>1. f < n /\ n \in 1 .. n
          BY <1>1, <4>2
        <5>2. s[f].end <= s[n].start
          BY <5>1 DEF InOrder, n
        <5> DEFINE u == s[n].start
                   w == s[f].end
        <5>3. Span \in Nat /\ u \in Int /\ w \in Int /\ w <= u /\ s[n].end = u + Span
          BY <1>1, <1>2, <3>1, <5>2
        <5> HIDE DEF u, w
        <5>4. w <= u + Span
          BY ONLY <5>3
        <5> QED
          BY <5>3, <5>4 DEF w
      <4> QED
        BY <4>1, <4>2
    <3>3. s[f].end <= e.start
      BY <1>2, <1>3, <3>1, <3>2
    <3> QED
      BY <1>4, <2>2, <3>3
  <2> QED
    BY <1>5, <2>1, <2>2
<1>8. \A f, g \in 1 .. n + 1 : f < g => f \in 1 .. n
  BY <1>1
<1> QED
  BY <1>4, <1>6, <1>7, <1>8 DEF InOrder, t, e, n

\* A delivery leaves them in order, and adds as many as it has frames.
LEMMA SpanFoldInOrder ==
  ASSUME NEW n \in Nat, NEW gaps \in [1 .. n -> Nat], NEW s, InOrder(s), s # <<>>
  PROVE  InOrder(SpanFold(s, n, gaps)) /\ Len(SpanFold(s, n, gaps)) = Len(s) + n
<1>1. s \in Seq(SpanSet) /\ Len(s) \in Nat
  BY DEF InOrder
<1>20. PICK g \in [0 .. n -> Times] : SpanRun(g, s, n, gaps)
  <2>1. s \in Times
    BY <1>1 DEF Times
  <2> QED
    BY <2>1, SpanFoldFollows
<1>2. /\ g[0] = s
      /\ \A i \in 1 .. n : g[i] = Append(g[i - 1], NextSpan(g[i - 1], gaps[i]))
      /\ SpanFold(s, n, gaps) = g[n]
  BY <1>20 DEF SpanRun
<1> DEFINE T == {i \in 0 .. n : InOrder(g[i]) /\ Len(g[i]) = Len(s) + i}
<1>3. 0 \in T
  BY <1>1, <1>2
<1>4. ASSUME NEW i \in 0 .. n - 1, i \in T
      PROVE  i + 1 \in T
  <2>1. i + 1 \in 1 .. n /\ (i + 1) - 1 = i /\ i + 1 \in 0 .. n /\ i \in 0 .. n
    OBVIOUS
  <2>2. g[i + 1] = Append(g[i], NextSpan(g[i], gaps[i + 1]))
    BY <1>2, <2>1
  <2>3. g[i] # <<>> /\ gaps[i + 1] \in Nat /\ InOrder(g[i]) /\ Len(g[i]) = Len(s) + i
    BY <1>4, <2>1 DEF Times
  <2>4. InOrder(g[i + 1]) /\ Len(g[i + 1]) = Len(g[i]) + 1
    BY <2>2, <2>3, NextSpanInOrder
  <2>5. Len(g[i + 1]) = Len(s) + (i + 1)
    BY <1>1, <2>3, <2>4
  <2> QED
    BY <2>1, <2>4, <2>5
<1> HIDE DEF T
<1>5. 0 .. n \subseteq T
  BY <1>3, <1>4, BoundedInduction
<1>6. n \in T
  BY <1>5
<1> QED
  BY <1>2, <1>6 DEF T

\* The first frame.
LEMMA FramesInitial ==
  ASSUME FramesInit
  PROVE  VectorsInv
<1>1. Span \in Nat
  BY FramesAssumption DEF FramesAssumption
<1>2. BatchesInv
  <2>1. /\ batches \in Seq(Seq(Nat)) /\ batches # <<>> /\ Len(batches) = 1
        /\ batches[1] = <<1>> /\ Len(lists) = 1
    BY DEF FramesInit
  <2>2. Len(batches[1]) = 1 /\ From(1) = 1 /\ To(1) = 1
    BY <2>1 DEF From, To
  <2> QED
    BY <2>1, <2>2 DEF BatchesInv
<1>3. ChainsInv
  <2>1. lists = <<Blank>> /\ Blank \in LinkSet /\ Blank.first = <<>> /\ Blank.second = <<>>
    BY DEF FramesInit, Blank, LinkSet
  <2> HIDE DEF Blank
  <2>2. lists \in Seq(LinkSet) /\ Len(lists) = 1 /\ lists[1] = Blank
    BY <2>1
  <2>3. Len(batches) = 1 /\ From(1) = 1 /\ To(1) = 1
    BY DEF FramesInit, From, To
  <2>4. Chained(Blank, 1, 1, 1)
    BY <2>1 DEF Chained
  <2> QED
    BY <2>2, <2>3, <2>4 DEF ChainsInv
<1>4. SpansInv
  <2>1. [start |-> 1, end |-> 1 + Span] \in SpanSet
    BY <1>1 DEF SpanSet
  <2> DEFINE e == [start |-> 1, end |-> 1 + Span]
  <2>2. e \in SpanSet /\ e.end = e.start + Span
    BY <2>1
  <2>3. spans = <<e>> /\ Len(lists) = 1
    BY DEF FramesInit
  <2> HIDE DEF e
  <2>4. spans \in Seq(SpanSet) /\ Len(spans) = 1 /\ spans[1] = e
    BY <2>2, <2>3
  <2> QED
    BY <2>2, <2>3, <2>4 DEF SpansInv, InOrder
<1> QED
  BY <1>2, <1>3, <1>4 DEF VectorsInv

\* A batch is an interval of frames; the last frame of all is the last of the
\* last batch.
LEMMA LastFrame ==
  ASSUME BatchesInv
  PROVE  /\ Len(batches) \in Nat \ {0}
         /\ \A b \in 1 .. Len(batches) : From(b) \in Nat \ {0} /\ To(b) \in Nat /\ From(b) <= To(b)
         /\ Last(Last(batches)) = To(Len(batches))
<1>1. batches \in Seq(Seq(Nat)) /\ Len(batches) \in Nat \ {0}
  BY DEF BatchesInv
<1>2. ASSUME NEW b \in 1 .. Len(batches)
      PROVE  From(b) \in Nat \ {0} /\ To(b) \in Nat /\ From(b) <= To(b)
  <2>1. batches[b] \in Seq(Nat) /\ Len(batches[b]) >= 1 /\ From(b) >= 1
    BY <1>1 DEF BatchesInv
  <2>2. From(b) \in Nat /\ Len(batches[b]) \in Nat
    BY <2>1 DEF From
  <2> QED
    BY <2>1, <2>2 DEF From, To
<1>3. Last(Last(batches)) = To(Len(batches))
  <2> DEFINE b == Len(batches)
  <2>1. b \in 1 .. Len(batches) /\ Last(batches) = batches[b]
    BY <1>1 DEF Last
  <2> HIDE DEF b
  <2>2. /\ batches[b] \in Seq(Nat) /\ Len(batches[b]) \in Nat /\ Len(batches[b]) >= 1
        /\ \A i \in 1 .. Len(batches[b]) : batches[b][i] = From(b) + i - 1
    BY <1>1, <2>1 DEF BatchesInv
  <2>3. batches[b][Len(batches[b])] = From(b) + Len(batches[b]) - 1
    BY <2>2
  <2>4. Last(batches[b]) = batches[b][Len(batches[b])]
    BY DEF Last
  <2> QED
    BY <2>1, <2>3, <2>4 DEF From, To, b
<1> QED
  BY <1>1, <1>2, <1>3

\* A frame is not in a list of others.
LEMMA OthersWithout ==
  ASSUME NEW list \in Seq(Nat), NEW f \in Nat, \A k \in 1 .. Len(list) : list[k] # f
  PROVE  Without(list, f) = list
<1> DEFINE S == Nat \ {f}
<1>1. list \in Seq(S)
  OBVIOUS
<1>2. f \notin S
  OBVIOUS
<1> HIDE DEF S
<1> QED
  BY <1>1, <1>2, WithoutNone

\* Two lists joined, under names that hide them.
Joined(u, S, s, t) ==
  /\ u \in Seq(S) /\ Len(u) = Len(s) + Len(t)
  /\ \A i \in 1 .. Len(s) : u[i] = s[i]
  /\ \A i \in 1 .. Len(t) : u[Len(s) + i] = t[i]

LEMMA JoinedParts == \A S : \A s, t \in ListsOf(S) : Joined(Cat(s, t), S, s, t)
BY ConcatAt DEF Joined, ListsOf, Cat

\* What a delivery of n frames behind m leaves: they are a batch of their own, linked,
\* and the last frame before them has them behind it.
Delivery(m, n, gaps) ==
  /\ m = Len(lists)
  /\ lists' \in Links(m + n)
  /\ \A g \in 1 .. m - 1 : lists'[g] = lists[g]
  /\ lists'[m] = [first |-> lists[m].first, second |-> Vector(m, n)]
  /\ \A k \in 1 .. n : lists'[m + k] = LinkedAt(m, n, k)
  /\ batches' = Append(batches, Vector(m, n))
  /\ spans' = SpanFold(spans, n, gaps)

LEMMA Delivered ==
  ASSUME VectorsInv, NEW n \in Nat \ {0}, NEW gaps \in [1 .. n -> Gaps], InwardFrames(n, gaps),
         NEW m, m = Len(lists)
  PROVE  Delivery(m, n, gaps)
<1> DEFINE empty == [i \in 1 .. n |-> [first |-> <<>>, second |-> <<>>]]
           room == lists \o empty
           made == LinkVector(room, Vector(m, n))
<1>1. lists \in Seq(LinkSet) /\ m \in Nat \ {0}
  BY DEF VectorsInv, ChainsInv
<1>2. Last(Last(batches)) = m
  <2>1. BatchesInv
    BY DEF VectorsInv
  <2> QED
    BY <2>1, LastFrame DEF BatchesInv
<1>3. /\ lists' = SetLists(made.lists, m, made.lists[m].first, Vector(m, n))
      /\ spans' = SpanFold(spans, n, gaps)
      /\ batches' = Append(batches, Vector(m, n))
  BY <1>2, Zenon DEF InwardFrames, Vector, SpanFold
<1>4. Blank \in LinkSet
  BY DEF Blank, LinkSet
<1>5. empty \in Seq(LinkSet) /\ Len(empty) = n /\ \A k \in 1 .. n : empty[k] = Blank
  <2>1. empty = [i \in 1 .. n |-> Blank]
    BY DEF Blank
  <2> HIDE DEF empty
  <2> QED
    BY <1>4, <2>1
<1> HIDE DEF empty
<1>6. /\ room \in Links(m + n)
      /\ \A g \in 1 .. m : room[g] = lists[g]
      /\ \A k \in 1 .. n : room[m + k] = Blank
  <2>1. /\ room \in Seq(LinkSet) /\ Len(room) = m + n
        /\ \A g \in 1 .. m : room[g] = lists[g]
        /\ \A k \in 1 .. n : room[m + k] = empty[k]
    <3>1. /\ room \in Seq(LinkSet) /\ Len(room) = Len(lists) + Len(empty)
          /\ \A g \in 1 .. Len(lists) : room[g] = lists[g]
          /\ \A k \in 1 .. Len(empty) : room[Len(lists) + k] = empty[k]
      <4>1. lists \in Seq(LinkSet) /\ empty \in Seq(LinkSet)
        BY <1>1, <1>5
      <4>2. lists \in ListsOf(LinkSet) /\ empty \in ListsOf(LinkSet)
        BY <4>1, Zenon DEF ListsOf
      <4>3. Joined(Cat(lists, empty), LinkSet, lists, empty)
        BY ONLY <4>2, JoinedParts
      <4>4. room = Cat(lists, empty)
        BY Zenon DEF Cat
      <4> HIDE DEF room
      <4> QED
        BY ONLY <4>3, <4>4, Zenon DEF Joined
    <3> QED
      BY <1>5, <3>1
  <2> HIDE DEF room
  <2>2. room \in [1 .. m + n -> LinkSet]
    BY <2>1
  <2> QED
    BY <1>5, <2>1, <2>2 DEF Links
<1> HIDE DEF room
<1>7. PICK p \in Links(m + n) :
        made = [threw |-> FALSE, lists |-> p] /\ LinkedTo(m, n, room, p, n)
  BY <1>1, <1>6, VectorLinked
<1>8. /\ made.lists = p
      /\ \A g \in 1 .. m : p[g] = lists[g]
      /\ \A k \in 1 .. n : p[m + k] = LinkedAt(m, n, k)
  BY <1>6, <1>7 DEF LinkedTo
<1> HIDE DEF made
<1> DEFINE first == lists[m].first
           second == Vector(m, n)
<1>9. first \in Seq(Nat) /\ \A k \in 1 .. Len(first) : first[k] < m
  <2> DEFINE b == Len(batches)
             x == lists[m]
  <2>1. b \in 1 .. Len(batches) /\ m \in From(b) .. To(b)
    <3>1. BatchesInv
      BY DEF VectorsInv
    <3>2. /\ b \in Nat \ {0} /\ \A c \in 1 .. b : From(c) \in Nat /\ To(c) \in Nat /\ From(c) <= To(c)
      BY <3>1, LastFrame
    <3>3. To(b) = m
      BY <3>1 DEF BatchesInv
    <3> QED
      BY <3>2, <3>3
  <2>2. Chained(x, m, From(b), m) /\ x \in LinkSet
    BY <1>1, <2>1 DEF VectorsInv, ChainsInv
  <2> HIDE DEF x
  <2> QED
    BY <2>2 DEF Chained, LinkSet, x
<1>10. Without(first, m) = first
  <2>1. \A k \in 1 .. Len(first) : first[k] # m
    BY <1>1, <1>9
  <2> HIDE DEF first
  <2> QED
    BY <1>1, <1>9, <2>1, OthersWithout
<1>11. second \in Seq(Nat) /\ Without(second, m) = second
  <2>1. second \in Seq(Nat) /\ Len(second) = n /\ \A k \in 1 .. n : second[k] = m + k
    BY <1>1, VectorType
  <2>2. \A k \in 1 .. Len(second) : second[k] # m
    BY <1>1, <2>1
  <2> HIDE DEF second
  <2> QED
    BY <1>1, <2>1, <2>2, OthersWithout
<1> HIDE DEF first, second
<1>12. lists' = SetLists(p, m, first, second)
  BY <1>1, <1>3, <1>8 DEF first, second
<1>13. m + n \in Nat /\ m \in 1 .. m + n
  BY <1>1
<1> DEFINE q == SetLists(p, m, first, second)
<1>14. /\ q \in Links(m + n) /\ q[m] = [first |-> first, second |-> second]
       /\ \A g \in 1 .. m + n : g # m => q[g] = p[g]
  BY <1>7, <1>9, <1>10, <1>11, <1>13, SetListsPlain
<1> HIDE DEF q
<1>15. \A g \in 1 .. m - 1 : q[g] = lists[g]
  <2>1. \A g \in 1 .. m - 1 : g \in 1 .. m + n /\ g # m /\ g \in 1 .. m
    BY <1>1
  <2> QED
    BY <1>8, <1>14, <2>1
<1>16. \A k \in 1 .. n : q[m + k] = LinkedAt(m, n, k)
  <2>1. \A k \in 1 .. n : m + k \in 1 .. m + n /\ m + k # m
    BY <1>1
  <2> QED
    BY <1>8, <1>14, <2>1
<1> QED
  BY <1>3, <1>12, <1>14, <1>15, <1>16, Zenon DEF Delivery, q, first, second

\* The batches after a delivery of n frames behind m, when there were e.
BatchesAfter(m, n, e) ==
  /\ Len(batches') = e + 1 /\ Len(lists') = m + n
  /\ \A b \in 1 .. e : From(b)' = From(b) /\ To(b)' = To(b)
  /\ From(e + 1)' = m + 1 /\ To(e + 1)' = m + n

LEMMA DeliveredBatches ==
  ASSUME VectorsInv, NEW n \in Nat \ {0}, NEW gaps, NEW m, Delivery(m, n, gaps),
         NEW e, e = Len(batches)
  PROVE  BatchesAfter(m, n, e) /\ BatchesInv'
<1> DEFINE v == Vector(m, n)
<1>1. lists \in Seq(LinkSet) /\ m \in Nat \ {0} /\ m = Len(lists) /\ BatchesInv
  BY DEF VectorsInv, ChainsInv, Delivery
<1>2. /\ e \in Nat \ {0} /\ batches \in Seq(Seq(Nat))
      /\ \A b \in 1 .. e : From(b) \in Nat \ {0} /\ To(b) \in Nat /\ From(b) <= To(b)
  BY <1>1, LastFrame DEF BatchesInv
<1>3. v \in Seq(Nat) /\ Len(v) = n /\ \A k \in 1 .. n : v[k] = m + k
  BY <1>1, VectorType
<1> HIDE DEF v
<1>4. batches' = Append(batches, v) /\ lists' \in Links(m + n)
  BY DEF Delivery, v
<1>5. /\ batches' \in Seq(Seq(Nat)) /\ Len(batches') = e + 1 /\ batches' # <<>>
      /\ batches'[e + 1] = v /\ \A b \in 1 .. e : batches'[b] = batches[b]
  <2> DEFINE S == Seq(Nat)
  <2>1. batches \in Seq(S) /\ v \in S /\ e = Len(batches) /\ e \in Nat
    BY <1>2, <1>3
  <2> HIDE DEF S
  <2>2. /\ batches' \in Seq(S) /\ Len(batches') = e + 1
        /\ batches'[e + 1] = v /\ \A b \in 1 .. e : batches'[b] = batches[b]
    BY <1>4, <2>1, AppendKeeps
  <2>3. batches' # <<>>
    BY <2>1, <2>2
  <2> QED
    BY <2>2, <2>3 DEF S
<1>6. Len(lists') = m + n
  <2>1. m + n \in Nat
    BY <1>1
  <2> QED
    BY <1>4, <2>1 DEF Links
<1>7. \A b \in 1 .. e : From(b)' = From(b) /\ To(b)' = To(b)
  BY <1>5 DEF From, To
<1>8. From(e + 1)' = m + 1 /\ To(e + 1)' = m + n
  <2>1. v[1] = m + 1 /\ Len(v) = n /\ (m + 1) + n - 1 = m + n
    BY <1>1, <1>3
  <2>2. From(e + 1)' = v[1] /\ To(e + 1)' = v[1] + Len(v) - 1
    BY <1>5 DEF From, To
  <2> QED
    BY <2>1, <2>2
<1>9. \A b \in 1 .. e + 1 : b \in 1 .. e \/ b = e + 1
  BY <1>2
<1>10. \A b \in 1 .. e : To(b) <= m
  BY <1>1 DEF BatchesInv
<1>11. ASSUME NEW b \in 1 .. e + 1
       PROVE  /\ Len(batches'[b]) >= 1 /\ From(b)' >= 1 /\ To(b)' <= m + n
              /\ \A i \in 1 .. Len(batches'[b]) : batches'[b][i] = From(b)' + i - 1
  <2>1. CASE b \in 1 .. e
    <3>1. /\ Len(batches[b]) >= 1 /\ From(b) >= 1 /\ To(b) <= m /\ To(b) \in Nat
          /\ \A i \in 1 .. Len(batches[b]) : batches[b][i] = From(b) + i - 1
      BY <1>1, <1>2, <2>1 DEF BatchesInv
    <3>2. To(b) <= m + n
      BY <1>1, <3>1
    <3> QED
      BY <1>5, <1>7, <2>1, <3>1, <3>2
  <2>2. CASE b = e + 1
    <3>1. \A i \in 1 .. n : v[i] = (m + 1) + i - 1
      BY <1>1, <1>3
    <3> QED
      BY <1>1, <1>3, <1>5, <1>8, <2>2, <3>1
  <2> QED
    BY <1>9, <2>1, <2>2
<1>12. ASSUME NEW b \in 1 .. e + 1, NEW c \in 1 .. e + 1, b < c
       PROVE  To(b)' < From(c)'
  <2>1. b \in 1 .. e
    BY <1>2, <1>12
  <2>2. CASE c \in 1 .. e
    BY <1>1, <1>7, <1>12, <2>1, <2>2 DEF BatchesInv
  <2>3. CASE c = e + 1
    BY <1>1, <1>2, <1>7, <1>8, <1>10, <2>1, <2>3
  <2> QED
    BY <1>9, <2>2, <2>3
<1>13. ASSUME NEW f \in 1 .. m + n
       PROVE  \E b \in 1 .. e + 1 : f \in From(b)' .. To(b)'
  <2>1. CASE f \in 1 .. m
    <3>1. PICK b \in 1 .. e : f \in From(b) .. To(b)
      BY <1>1, <2>1 DEF BatchesInv
    <3> QED
      BY <1>2, <1>7, <3>1
  <2>2. CASE f > m
    <3>1. f \in m + 1 .. m + n /\ e + 1 \in 1 .. e + 1
      BY <1>1, <1>2, <2>2
    <3> QED
      BY <1>8, <3>1
  <2> QED
    BY <1>1, <2>1, <2>2
<1>14. BatchesInv'
  BY <1>5, <1>6, <1>8, <1>11, <1>12, <1>13 DEF BatchesInv
<1>15. BatchesAfter(m, n, e)
  BY <1>5, <1>6, <1>7, <1>8, Zenon DEF BatchesAfter
<1> QED
  BY <1>14, <1>15

\* A delivery leaves the lists of all the frames chained.
LEMMA DeliveredChains ==
  ASSUME VectorsInv, NEW n \in Nat \ {0}, NEW gaps, NEW m, Delivery(m, n, gaps),
         NEW e, e = Len(batches), BatchesAfter(m, n, e)
  PROVE  ChainsInv'
<1>1. /\ lists \in Seq(LinkSet) /\ m \in Nat \ {0} /\ m = Len(lists)
      /\ BatchesInv /\ ChainsInv /\ Depth \in Nat \ {0}
  BY FramesAssumption DEF VectorsInv, ChainsInv, FramesAssumption, Delivery
<1>2. /\ e \in Nat \ {0} /\ batches \in Seq(Seq(Nat))
      /\ \A b \in 1 .. e : From(b) \in Nat \ {0} /\ To(b) \in Nat /\ From(b) <= To(b)
  BY <1>1, LastFrame DEF BatchesInv
<1>3. /\ lists' \in Links(m + n)
      /\ \A g \in 1 .. m - 1 : lists'[g] = lists[g]
      /\ lists'[m] = [first |-> lists[m].first, second |-> Vector(m, n)]
      /\ \A k \in 1 .. n : lists'[m + k] = LinkedAt(m, n, k)
  BY DEF Delivery
<1>4. /\ Len(batches') = e + 1 /\ Len(lists') = m + n
      /\ \A b \in 1 .. e : From(b)' = From(b) /\ To(b)' = To(b)
      /\ From(e + 1)' = m + 1 /\ To(e + 1)' = m + n
  BY DEF BatchesAfter
<1>5. lists' \in Seq(LinkSet)
  <2>1. m + n \in Nat
    BY <1>1
  <2> QED
    BY <1>3, <2>1 DEF Links
<1>6. \A b \in 1 .. e : To(b) <= m
  BY <1>1 DEF BatchesInv
<1>7. ASSUME NEW b \in 1 .. e, NEW f \in From(b) .. To(b)
      PROVE  Chained(lists'[f], f, From(b), m + n)
  <2>1. /\ Chained(lists[f], f, From(b), m) /\ f \in Nat \ {0} /\ f <= m
    BY <1>1, <1>2, <1>6 DEF ChainsInv
  <2>2. CASE f < m
    <3>1. lists'[f] = lists[f] /\ f # m /\ f # m + n
      BY <1>1, <1>3, <2>1, <2>2
    <3> QED
      BY <2>1, <3>1 DEF Chained
  <2>3. CASE f = m
    <3> DEFINE x == lists[f]
               y == lists'[f]
               s == Vector(m, n)
    <3>1. y = [first |-> x.first, second |-> s]
      BY <1>3, <2>3
    <3>2. s # <<>> /\ s[1] = m + 1
      BY <1>1, VectorType
    <3>3. y.first = x.first /\ y.second = s /\ f # m + n
      BY <1>1, <2>3, <3>1
    <3>4. Chained(x, f, From(b), m)
      BY <2>1
    <3> HIDE DEF x, y, s
    <3>5. Chained(y, f, From(b), m + n)
      BY <2>3, <3>2, <3>3, <3>4 DEF Chained
    <3> QED
      BY <3>5 DEF y
  <2> QED
    BY <1>1, <2>1, <2>2, <2>3
<1>8. ASSUME NEW f \in m + 1 .. m + n
      PROVE  Chained(lists'[f], f, m + 1, m + n)
  <2>1. PICK k \in 1 .. n : f = m + k
    <3>1. f - m \in 1 .. n /\ f = m + (f - m)
      BY <1>1
    <3> QED
      BY <3>1
  <2>2. lists'[f] = LinkedAt(m, n, k)
    BY <1>3, <2>1
  <2> DEFINE y == lists'[f]
  <2>3. LinkedAs(y, m, n, k)
    <3>1. m \in Nat /\ n \in Nat /\ k \in 1 .. n
      BY <1>1
    <3> QED
      BY ONLY <2>2, <3>1, LinkedAtType
  <2> HIDE DEF y
  <2>4. /\ (y.first = <<>>) = (k = 1)
        /\ k > 1 => y.first[1] = m + FirstLinked(k)
        /\ \A j \in 1 .. Len(y.first) : y.first[j] < m + k
        /\ (y.second = <<>>) = (k = n)
        /\ k < n => y.second[1] = m + k + 1
    BY <2>3, Zenon DEF LinkedAs
  <2>5. (f = m + 1) <=> (k = 1)
    BY <1>1, <2>1
  <2>6. (f = m + n) <=> (k = n)
    BY <1>1, <2>1
  <2>7. k # 1 => m + FirstLinked(k) = Back(f, m + 1) /\ k > 1
    BY <1>1, <2>1 DEF FirstLinked, Back
  <2>8. k # n => k < n /\ m + k + 1 = f + 1
    BY <1>1, <2>1
  <2>9. Chained(y, f, m + 1, m + n)
    BY <2>1, <2>4, <2>5, <2>6, <2>7, <2>8 DEF Chained
  <2> QED
    BY <2>9 DEF y
<1>9. \A b \in 1 .. e + 1 : b \in 1 .. e \/ b = e + 1
  BY <1>2
<1>10. \A b \in 1 .. e + 1 : \A f \in From(b)' .. To(b)' : Chained(lists'[f], f, From(b)', m + n)
  BY <1>4, <1>7, <1>8, <1>9
<1>11. Len(lists') >= 1
  BY <1>1, <1>4
<1> QED
  BY <1>4, <1>5, <1>10, <1>11 DEF ChainsInv, Chained, Back

\* The invariant of the frames.
LEMMA FramesStep ==
  ASSUME VectorsInv, [FramesNext]_frameVars
  PROVE  VectorsInv'
<1>1. CASE FramesNext
  <2>1. PICK n \in 1 .. MaxFrames : \E gaps \in [1 .. n -> Gaps] : InwardFrames(n, gaps)
    BY <1>1 DEF FramesNext
  <2>2. PICK gaps \in [1 .. n -> Gaps] : InwardFrames(n, gaps)
    BY <2>1
  <2>3. n \in Nat \ {0}
    BY FramesAssumption DEF FramesAssumption
  <2>4. gaps \in [1 .. n -> Nat]
    BY FramesAssumption DEF FramesAssumption
  <2>5. PICK m, e : m = Len(lists) /\ e = Len(batches)
    OBVIOUS
  <2>6. Delivery(m, n, gaps)
    BY <2>2, <2>3, <2>5, Delivered
  <2>7. BatchesAfter(m, n, e) /\ BatchesInv'
    BY <2>3, <2>5, <2>6, DeliveredBatches
  <2>8. ChainsInv'
    BY <2>3, <2>5, <2>6, <2>7, DeliveredChains
  <2>9. SpansInv'
    <3>1. InOrder(spans) /\ Len(spans) = m /\ m >= 1
      BY <2>5 DEF VectorsInv, SpansInv, ChainsInv
    <3>2. spans # <<>>
      BY <3>1
    <3>3. spans' = SpanFold(spans, n, gaps)
      BY <2>6 DEF Delivery
    <3>4. InOrder(spans') /\ Len(spans') = Len(spans) + n
      BY <2>3, <2>4, <3>1, <3>2, <3>3, SpanFoldInOrder
    <3>5. Len(lists') = m + n
      BY <2>7 DEF BatchesAfter
    <3> QED
      BY <3>1, <3>4, <3>5 DEF SpansInv, InOrder
  <2> QED
    BY <2>7, <2>8, <2>9 DEF VectorsInv
<1>2. CASE UNCHANGED frameVars
  <2>1. lists' = lists /\ spans' = spans /\ batches' = batches
    BY <1>2 DEF frameVars
  <2>2. BatchesInv'
    BY <2>1 DEF VectorsInv, BatchesInv, From, To
  <2>3. ChainsInv'
    BY <2>1 DEF VectorsInv, ChainsInv, From, To, Chained, Back
  <2>4. SpansInv'
    BY <2>1 DEF VectorsInv, SpansInv, InOrder
  <2> QED
    BY <2>2, <2>3, <2>4 DEF VectorsInv
<1> QED
  BY <1>1, <1>2

\* In every behaviour the batches are intervals of frames one behind the other,
\* the lists of a frame lead back within its batch and on to the frame behind,
\* and a frame begins when the one in front of it has ended (link_vector,
\* tv_loop_sink_inward_flow).
THEOREM FramesInOrder == FramesSpec => []VectorsInv
<1>1. FramesInit => VectorsInv
  BY FramesInitial
<1>2. VectorsInv /\ [FramesNext]_frameVars => VectorsInv'
  BY FramesStep
<1> QED
  BY <1>1, <1>2, PTL DEF FramesSpec

(***************************************************************************)
(* The walks.                                                              *)
(***************************************************************************)

\* Where a walk is and what it has seen; one of as many rounds as n.
Walks == [at : Nat, seen : Seq(Nat)]
WalkFold(f, d, n, known) ==
  FoldLeft(LAMBDA acc, k : WalkOn(acc, known, d > 0), [at |-> f, seen |-> <<>>],
           [k \in 1 .. n |-> k])
UntilFold(f, d, n, target, known) ==
  FoldLeft(LAMBDA acc, k : IF acc.at = target THEN acc ELSE WalkOn(acc, known, d > 0),
           [at |-> f, seen |-> <<>>], [k \in 1 .. n |-> k])

WalkRun(g, f, d, n, known) ==
  /\ g[0] = [at |-> f, seen |-> <<>>]
  /\ \A i \in 1 .. n : g[i] = WalkOn(g[i - 1], known, d > 0)
  /\ WalkFold(f, d, n, known) = g[n]

\* A walk that ends at a target.
UntilOn(x, target, known, forwards) ==
  IF x.at = target THEN x ELSE WalkOn(x, known, forwards)
UntilRun(g, f, d, n, target, known) ==
  /\ g[0] = [at |-> f, seen |-> <<>>]
  /\ \A i \in 1 .. n : g[i] = UntilOn(g[i - 1], target, known, d > 0)
  /\ UntilFold(f, d, n, target, known) = g[n]

\* A round over frames that there are.
LEMMA WalkOnType ==
  ASSUME ChainsInv, NEW known, known \subseteq AllFrames, NEW x \in Walks, NEW fw \in BOOLEAN
  PROVE  WalkOn(x, known, fw) \in Walks
<1> DEFINE y == Neighbour(x.at, fw)
<1>1. x.at \in Nat /\ x.seen \in Seq(Nat)
  BY DEF Walks
<1>2. CASE x.at \notin known \/ y = BlankFrame
  <2>1. WalkOn(x, known, fw) = [x EXCEPT !.at = 0]
    BY <1>2 DEF WalkOn, BlankFrame
  <2> QED
    BY <2>1 DEF Walks
<1>3. CASE ~ (x.at \notin known \/ y = BlankFrame)
  <2>1. WalkOn(x, known, fw) = [at |-> y, seen |-> Append(x.seen, y)]
    BY <1>3 DEF WalkOn
  <2>2. y \in Nat
    <3> DEFINE z == lists[x.at]
               list == IF fw THEN z.second ELSE z.first
    <3>1. z \in LinkSet
      BY <1>3 DEF ChainsInv, AllFrames
    <3> HIDE DEF z
    <3>2. list \in Seq(Nat)
      BY <3>1 DEF LinkSet
    <3>3. y = IF list = <<>> THEN 0 ELSE list[1]
      BY DEF Neighbour, BlankFrame, z
    <3> HIDE DEF list
    <3> QED
      BY <3>2, <3>3
  <2> HIDE DEF y
  <2>3. Append(x.seen, y) \in Seq(Nat)
    BY <1>1, <2>2
  <2> QED
    BY <2>1, <2>2, <2>3 DEF Walks
<1> QED
  BY <1>2, <1>3

\* A walk goes round after round.
LEMMA WalkFoldFollows ==
  ASSUME ChainsInv, NEW n \in Nat, NEW f \in Nat, NEW d \in Int,
         NEW known, known \subseteq AllFrames
  PROVE  \E g \in [0 .. n -> Walks] : WalkRun(g, f, d, n, known)
<1> DEFINE A == Walks
           seq == [k \in 1 .. n |-> k]
           S == DOMAIN seq
           a == [at |-> f, seen |-> <<>>]
           D == [i \in 1 .. n |-> [x \in A |-> WalkOn(x, known, d > 0)]]
           Eq(h) == h = [r \in SUBSET S |->
                           IF r = {} THEN a ELSE WalkOn(h[r \ {Max(r)}], known, d > 0)]
           it == CHOOSE h : Eq(h)
<1>1. WalkFold(f, d, n, known) = it[S]
  BY DEF WalkFold, FoldLeft, MapThenFoldSet
<1>2. S = 1 .. n
  OBVIOUS
<1> HIDE DEF seq
<1>3. n \in Nat /\ a \in A /\ D \in [1 .. n -> [A -> A]]
  <2> DEFINE fw == d > 0
  <2>1. ASSUME NEW x \in A
        PROVE  WalkOn(x, known, fw) \in A
    <3>1. fw \in BOOLEAN
      OBVIOUS
    <3> HIDE DEF fw
    <3> QED
      BY <3>1, WalkOnType
  <2>2. a \in A
    BY DEF Walks
  <2> HIDE DEF A
  <2> QED
    BY <2>1, <2>2
<1>4. \A i \in 1 .. n : \A x \in A : D[i][x] = WalkOn(x, known, d > 0)
  OBVIOUS
<1> HIDE DEF A, D, a
<1>5. PICK h \in [SUBSET (1 .. n) -> A] :
        /\ Folded(h, n, a, D)
        /\ \A r \in SUBSET (1 .. n) : r # {} => Max(r) \in 1 .. n /\ h[r \ {Max(r)}] \in A
  BY <1>3, FoldExists
<1>6. Eq(h)
  <2>1. ASSUME NEW r \in SUBSET (1 .. n)
        PROVE  h[r] = IF r = {} THEN a ELSE WalkOn(h[r \ {Max(r)}], known, d > 0)
    <3>1. h[r] = IF r = {} THEN a ELSE D[Max(r)][h[r \ {Max(r)}]]
      BY <1>5 DEF Folded
    <3>2. CASE r = {}
      BY <3>1, <3>2
    <3>3. CASE r # {}
      <4> DEFINE x == h[r \ {Max(r)}]
                 i == Max(r)
      <4>1. h[r] = D[i][x] /\ x \in A /\ i \in 1 .. n
        BY <1>5, <3>1, <3>3
      <4> HIDE DEF x, i
      <4>2. h[r] = WalkOn(x, known, d > 0)
        BY <1>4, <4>1
      <4> QED
        BY <3>3, <4>2 DEF x
    <3> QED
      BY <3>2, <3>3
  <2> QED
    BY <1>2, <2>1
<1>7. Eq(it)
  <2> HIDE DEF Eq
  <2> QED
    BY <1>6
<1>8. \A r \in SUBSET (1 .. n) : it[r] = IF r = {} THEN a ELSE WalkOn(it[r \ {Max(r)}], known, d > 0)
  BY <1>2, <1>7
<1> HIDE DEF it
<1>9. Stepwise(it, n, A, a, D)
  <2>1. it[{}] = a
    BY <1>8
  <2>2. ASSUME NEW j \in 1 .. n, it[1 .. j - 1] \in A
        PROVE  it[1 .. j] = D[j][it[1 .. j - 1]]
    <3> DEFINE r == 1 .. j
               y == it[r \ {Max(r)}]
    <3>1. r \in SUBSET (1 .. n) /\ r # {} /\ Max(r) = j /\ r \ {j} = 1 .. j - 1
      BY IntervalPart
    <3> HIDE DEF r
    <3>2. it[r] = WalkOn(y, known, d > 0)
      BY <1>8, <3>1
    <3>3. y = it[1 .. j - 1]
      BY <3>1
    <3> HIDE DEF y
    <3> QED
      BY <1>4, <2>2, <3>2, <3>3 DEF r
  <2> QED
    BY <2>1, <2>2 DEF Stepwise
<1>10. PICK g \in [0 .. n -> A] : LeadsTo(g, n, a, D, it)
  BY ONLY <1>3, <1>9, FoldFollows
<1>11. ASSUME NEW i \in 1 .. n
       PROVE  g[i] = WalkOn(g[i - 1], known, d > 0)
  <2>1. g[i - 1] \in A /\ g[i] = D[i][g[i - 1]]
    BY <1>10 DEF LeadsTo, Follows
  <2> QED
    BY <1>4, <2>1
<1>12. g[0] = a /\ WalkFold(f, d, n, known) = g[n]
  BY <1>1, <1>2, <1>10 DEF LeadsTo, Follows
<1> QED
  BY <1>11, <1>12 DEF a, A, WalkRun

LEMMA UntilFoldFollows ==
  ASSUME ChainsInv, NEW n \in Nat, NEW f \in Nat, NEW d \in Int, NEW target,
         NEW known, known \subseteq AllFrames
  PROVE  \E g \in [0 .. n -> Walks] : UntilRun(g, f, d, n, target, known)
<1> DEFINE A == Walks
           seq == [k \in 1 .. n |-> k]
           S == DOMAIN seq
           a == [at |-> f, seen |-> <<>>]
           D == [i \in 1 .. n |-> [x \in A |-> UntilOn(x, target, known, d > 0)]]
           Eq(h) == h = [r \in SUBSET S |->
                           IF r = {} THEN a ELSE UntilOn(h[r \ {Max(r)}], target, known, d > 0)]
           it == CHOOSE h : Eq(h)
<1>1. UntilFold(f, d, n, target, known) = it[S]
  BY DEF UntilFold, FoldLeft, MapThenFoldSet, UntilOn
<1>2. S = 1 .. n
  OBVIOUS
<1> HIDE DEF seq
<1>3. n \in Nat /\ a \in A /\ D \in [1 .. n -> [A -> A]]
  <2> DEFINE fw == d > 0
  <2>1. ASSUME NEW x \in A
        PROVE  WalkOn(x, known, fw) \in A
    <3>1. fw \in BOOLEAN
      OBVIOUS
    <3> HIDE DEF fw
    <3> QED
      BY <3>1, WalkOnType
  <2>2. a \in A
    BY DEF Walks
  <2> HIDE DEF A
  <2> QED
    BY <2>1, <2>2 DEF UntilOn
<1>4. \A i \in 1 .. n : \A x \in A : D[i][x] = UntilOn(x, target, known, d > 0)
  OBVIOUS
<1> HIDE DEF A, D, a
<1>5. PICK h \in [SUBSET (1 .. n) -> A] :
        /\ Folded(h, n, a, D)
        /\ \A r \in SUBSET (1 .. n) : r # {} => Max(r) \in 1 .. n /\ h[r \ {Max(r)}] \in A
  BY <1>3, FoldExists
<1>6. Eq(h)
  <2>1. ASSUME NEW r \in SUBSET (1 .. n)
        PROVE  h[r] = IF r = {} THEN a ELSE UntilOn(h[r \ {Max(r)}], target, known, d > 0)
    <3>1. h[r] = IF r = {} THEN a ELSE D[Max(r)][h[r \ {Max(r)}]]
      BY <1>5 DEF Folded
    <3>2. CASE r = {}
      BY <3>1, <3>2
    <3>3. CASE r # {}
      <4> DEFINE x == h[r \ {Max(r)}]
                 i == Max(r)
      <4>1. h[r] = D[i][x] /\ x \in A /\ i \in 1 .. n
        BY <1>5, <3>1, <3>3
      <4> HIDE DEF x, i
      <4>2. h[r] = UntilOn(x, target, known, d > 0)
        BY <1>4, <4>1
      <4> QED
        BY <3>3, <4>2 DEF x
    <3> QED
      BY <3>2, <3>3
  <2> QED
    BY <1>2, <2>1
<1>7. Eq(it)
  <2> HIDE DEF Eq
  <2> QED
    BY <1>6
<1>8. \A r \in SUBSET (1 .. n) : it[r] = IF r = {} THEN a ELSE UntilOn(it[r \ {Max(r)}], target, known, d > 0)
  BY <1>2, <1>7
<1> HIDE DEF it
<1>9. Stepwise(it, n, A, a, D)
  <2>1. it[{}] = a
    BY <1>8
  <2>2. ASSUME NEW j \in 1 .. n, it[1 .. j - 1] \in A
        PROVE  it[1 .. j] = D[j][it[1 .. j - 1]]
    <3> DEFINE r == 1 .. j
               y == it[r \ {Max(r)}]
    <3>1. r \in SUBSET (1 .. n) /\ r # {} /\ Max(r) = j /\ r \ {j} = 1 .. j - 1
      BY IntervalPart
    <3> HIDE DEF r
    <3>2. it[r] = UntilOn(y, target, known, d > 0)
      BY <1>8, <3>1
    <3>3. y = it[1 .. j - 1]
      BY <3>1
    <3> HIDE DEF y
    <3> QED
      BY <1>4, <2>2, <3>2, <3>3 DEF r
  <2> QED
    BY <2>1, <2>2 DEF Stepwise
<1>10. PICK g \in [0 .. n -> A] : LeadsTo(g, n, a, D, it)
  BY ONLY <1>3, <1>9, FoldFollows
<1>11. ASSUME NEW i \in 1 .. n
       PROVE  g[i] = UntilOn(g[i - 1], target, known, d > 0)
  <2>1. g[i - 1] \in A /\ g[i] = D[i][g[i - 1]]
    BY <1>10 DEF LeadsTo, Follows
  <2> QED
    BY <1>4, <2>1
<1>12. g[0] = a /\ UntilFold(f, d, n, target, known) = g[n]
  BY <1>1, <1>2, <1>10 DEF LeadsTo, Follows
<1> QED
  BY <1>11, <1>12 DEF a, A, UntilRun

\* The first frame of the batch of f, and where the walks go from f.
First(f) == batches[InBatch(f)][1]
Forth(f) == IF f = Len(lists) THEN 0 ELSE f + 1
Rear(f)  == IF f = First(f) THEN 0 ELSE Back(f, First(f))

\* The batch of a frame.
LEMMA FrameBatch ==
  ASSUME BatchesInv, NEW f \in 1 .. Len(lists)
  PROVE  /\ InBatch(f) \in 1 .. Len(batches)
         /\ f \in From(InBatch(f)) .. To(InBatch(f))
         /\ \A b \in 1 .. Len(batches) : f \in From(b) .. To(b) => b = InBatch(f)
<1> DEFINE e == Len(batches)
<1>1. /\ e \in Nat /\ DOMAIN batches = 1 .. e
      /\ \A b \in 1 .. e : From(b) \in Nat \ {0} /\ To(b) \in Nat /\ From(b) <= To(b)
  <2>1. batches \in Seq(Seq(Nat))
    BY DEF BatchesInv
  <2> QED
    BY <2>1, LastFrame
<1>2. ASSUME NEW b \in 1 .. e
      PROVE  (f \in ToSet(batches[b])) <=> (f \in From(b) .. To(b))
  <2>1. /\ batches[b] \in Seq(Nat) /\ Len(batches[b]) \in Nat
        /\ \A i \in 1 .. Len(batches[b]) : batches[b][i] = From(b) + i - 1
    BY DEF BatchesInv
  <2>2. To(b) = From(b) + Len(batches[b]) - 1
    BY DEF From, To
  <2>3. DOMAIN batches[b] = 1 .. Len(batches[b])
    BY <2>1
  <2>4. ASSUME f \in ToSet(batches[b])
        PROVE  f \in From(b) .. To(b)
    <3>1. PICK i \in 1 .. Len(batches[b]) : f = batches[b][i]
      BY <2>3, <2>4 DEF ToSet
    <3>2. f = From(b) + i - 1 /\ i \in Nat \ {0} /\ i <= Len(batches[b])
      BY <2>1, <3>1
    <3> QED
      BY <1>1, <2>1, <2>2, <3>2
  <2>5. ASSUME f \in From(b) .. To(b)
        PROVE  f \in ToSet(batches[b])
    <3> DEFINE i == f - From(b) + 1
    <3>1. i \in 1 .. Len(batches[b]) /\ f = From(b) + i - 1
      BY <1>1, <2>1, <2>2, <2>5
    <3>2. f = batches[b][i]
      BY <2>1, <3>1
    <3> HIDE DEF i
    <3> QED
      BY <2>3, <3>1, <3>2 DEF ToSet
  <2> QED
    BY <2>4, <2>5
<1>3. PICK c \in 1 .. e : f \in From(c) .. To(c)
  BY DEF BatchesInv
<1>4. InBatch(f) \in 1 .. e /\ f \in ToSet(batches[InBatch(f)])
  <2>1. \E b \in DOMAIN batches : f \in ToSet(batches[b])
    BY <1>1, <1>2, <1>3
  <2> QED
    BY <1>1, <2>1, Zenon DEF InBatch
<1>5. f \in From(InBatch(f)) .. To(InBatch(f))
  BY <1>2, <1>4
<1>6. ASSUME NEW b \in 1 .. e, NEW d \in 1 .. e, f \in From(b) .. To(b), f \in From(d) .. To(d)
      PROVE  b = d
  <2>1. ~ (b < d)
    <3>1. b < d => To(b) < From(d)
      BY DEF BatchesInv
    <3> QED
      BY <1>1, <1>6, <3>1
  <2>2. ~ (d < b)
    <3>1. d < b => To(d) < From(b)
      BY DEF BatchesInv
    <3> QED
      BY <1>1, <1>6, <3>1
  <2> QED
    BY <2>1, <2>2
<1> QED
  BY <1>4, <1>5, <1>6

\* The batches are one behind the other.
LEMMA BatchOrder ==
  ASSUME BatchesInv, NEW f \in 1 .. Len(lists), NEW g \in 1 .. Len(lists)
  PROVE  /\ f <= g => InBatch(f) <= InBatch(g)
         /\ (InBatch(f) = InBatch(g)) <=> (First(f) = First(g))
         /\ First(f) <= f /\ First(f) \in 1 .. Len(lists)
         /\ (First(f) <= g /\ g <= f) => First(g) = First(f)
         /\ (InBatch(f) <= InBatch(g)) <=> (First(f) <= g)
<1> DEFINE b == InBatch(f)
           c == InBatch(g)
           n == Len(lists)
           e == Len(batches)
<1>1. /\ b \in 1 .. e /\ f \in From(b) .. To(b)
      /\ \A d \in 1 .. e : f \in From(d) .. To(d) => d = b
  BY FrameBatch
<1>2. /\ c \in 1 .. e /\ g \in From(c) .. To(c)
      /\ \A d \in 1 .. e : g \in From(d) .. To(d) => d = c
  BY FrameBatch
<1>3. First(f) = From(b) /\ First(g) = From(c)
  BY DEF First, From
<1>4. /\ e \in Nat
      /\ \A d \in 1 .. e : From(d) \in Nat \ {0} /\ To(d) \in Nat /\ From(d) <= To(d)
  BY LastFrame
<1>5. b < c => To(b) < From(c)
  BY <1>1, <1>2 DEF BatchesInv
<1>6. c < b => To(c) < From(b)
  BY <1>1, <1>2 DEF BatchesInv
<1>7. f \in 1 .. n /\ g \in 1 .. n /\ n \in Nat
  <2>1. e \in 1 .. e /\ n = To(e)
    BY <1>1, <1>4 DEF BatchesInv
  <2> QED
    BY <1>4, <2>1
<1> HIDE DEF b, c, n, e
<1>8. b \in Nat /\ c \in Nat /\ From(b) \in Nat \ {0} /\ From(c) \in Nat \ {0} /\ To(b) \in Nat /\ To(c) \in Nat
  BY <1>1, <1>2, <1>4
<1>9. From(b) <= f /\ f <= To(b) /\ From(c) <= g /\ g <= To(c)
  BY <1>1, <1>2, <1>8
<1>10. f <= g => b <= c
  BY <1>6, <1>7, <1>8, <1>9
<1>11. (b = c) <=> (From(b) = From(c))
  BY <1>5, <1>6, <1>7, <1>8, <1>9
<1>12. From(b) <= f /\ From(b) \in 1 .. n
  BY <1>7, <1>8, <1>9
<1>13. From(b) <= g /\ g <= f => From(c) = From(b)
  <2> SUFFICES ASSUME From(b) <= g, g <= f PROVE From(c) = From(b)
    OBVIOUS
  <2>1. g \in From(b) .. To(b)
    BY <1>7, <1>8, <1>9
  <2>2. b = c
    BY <1>1, <1>2, <2>1
  <2> QED
    BY <2>2
<1>14. (b <= c) <=> (From(b) <= g)
  BY <1>5, <1>6, <1>7, <1>8, <1>9
<1> QED
  BY <1>3, <1>10, <1>11, <1>12, <1>13, <1>14 DEF b, c, n

\* Where a round leads.
LEMMA NeighbourIs ==
  ASSUME VectorsInv, NEW f \in 1 .. Len(lists)
  PROVE  /\ Neighbour(f, TRUE) = Forth(f) /\ Neighbour(f, FALSE) = Rear(f)
         /\ Rear(f) = 0 \/ (/\ Rear(f) \in 1 .. Len(lists) /\ Rear(f) < f
                            /\ First(Rear(f)) = First(f))
<1> DEFINE n == Len(lists)
           s == First(f)
           x == lists[f]
<1>1. BatchesInv /\ ChainsInv /\ Depth \in Nat \ {0}
  BY FramesAssumption DEF VectorsInv, FramesAssumption
<1>2. s <= f /\ s \in 1 .. n /\ f \in 1 .. n /\ n \in Nat
  BY <1>1, BatchOrder DEF ChainsInv
<1>3. Chained(x, f, s, n)
  <2>1. InBatch(f) \in 1 .. Len(batches) /\ f \in From(InBatch(f)) .. To(InBatch(f))
    BY <1>1, FrameBatch
  <2>2. s = From(InBatch(f))
    BY DEF First, From
  <2> QED
    BY <1>1, <2>1, <2>2 DEF ChainsInv
<1>4. /\ Neighbour(f, TRUE) = IF x.second = <<>> THEN 0 ELSE x.second[1]
      /\ Neighbour(f, FALSE) = IF x.first = <<>> THEN 0 ELSE x.first[1]
  BY DEF Neighbour, BlankFrame
<1> HIDE DEF x
<1>5. /\ Neighbour(f, TRUE) = IF f = n THEN 0 ELSE f + 1
      /\ Neighbour(f, FALSE) = IF f = s THEN 0 ELSE Back(f, s)
  BY <1>3, <1>4 DEF Chained
<1>6. Neighbour(f, TRUE) = Forth(f) /\ Neighbour(f, FALSE) = Rear(f)
  BY <1>5 DEF Forth, Rear
<1>7. ASSUME f # s
      PROVE  Rear(f) \in 1 .. n /\ Rear(f) < f /\ First(Rear(f)) = s
  <2> DEFINE g == Back(f, s)
  <2>1. g \in 1 .. n /\ g < f /\ s <= g
    <3> HIDE DEF s, n
    <3> QED
      BY <1>1, <1>2, <1>7 DEF Back
  <2>2. First(g) = s
    <3> HIDE DEF g
    <3>1. g <= f
      BY <1>2, <2>1
    <3> QED
      BY <1>1, <2>1, <3>1, BatchOrder
  <2> QED
    BY <1>7, <2>1, <2>2 DEF Rear
<1> QED
  BY <1>6, <1>7 DEF Rear

\* A walk forward over frames that are all here lists those behind, in order;
\* one that ends at a target ends there.
Ahead(x, f, r, last) ==
  x.seen = Vector(f, r) /\ x.at = IF last THEN 0 ELSE f + r

\* One more frame.
LEMMA VectorAppend ==
  ASSUME NEW f \in Nat, NEW r \in Nat
  PROVE  Append(Vector(f, r), f + r + 1) = Vector(f, r + 1)
<1> DEFINE v == Vector(f, r)
           w == Vector(f, r + 1)
<1>1. v \in Seq(Nat) /\ Len(v) = r /\ \A k \in 1 .. r : v[k] = f + k
  BY VectorType
<1>2. w \in Seq(Nat) /\ Len(w) = r + 1 /\ \A k \in 1 .. r + 1 : w[k] = f + k
  BY VectorType
<1> HIDE DEF v, w
<1>3. Append(v, f + r + 1) = w
  BY <1>1, <1>2
<1> QED
  BY <1>3 DEF v, w

\* A round forward.
LEMMA ForwardRound ==
  ASSUME VectorsInv, NEW f \in 1 .. Len(lists), NEW r \in 0 .. Len(lists) - f,
         NEW x \in Walks, x.seen = Vector(f, r), x.at = f + r
  PROVE  WalkOn(x, AllFrames, TRUE)
           = IF f + r = Len(lists) THEN [at |-> 0, seen |-> Vector(f, r)]
             ELSE [at |-> f + (r + 1), seen |-> Vector(f, r + 1)]
<1> DEFINE n == Len(lists)
           v == Vector(f, r)
<1>1. n \in Nat /\ AllFrames = 1 .. n /\ f \in Nat /\ r \in Nat
  BY DEF VectorsInv, ChainsInv, AllFrames
<1>2. f + r \in 1 .. n
  BY <1>1
<1>3. Neighbour(f + r, TRUE) = IF f + r = n THEN 0 ELSE f + r + 1
  BY <1>2, NeighbourIs DEF Forth
<1>4. x = [at |-> f + r, seen |-> v]
  BY DEF Walks
<1> HIDE DEF v, n
<1>5. CASE f + r = n
  <2>1. WalkOn(x, AllFrames, TRUE) = [x EXCEPT !.at = 0]
    BY <1>3, <1>4, <1>5 DEF WalkOn, BlankFrame
  <2> QED
    BY <1>4, <1>5, <2>1 DEF v, n
<1>6. CASE f + r # n
  <2>1. WalkOn(x, AllFrames, TRUE) = [at |-> f + r + 1, seen |-> Append(v, f + r + 1)]
    <3>1. f + r \in AllFrames /\ Neighbour(f + r, TRUE) = f + r + 1 /\ f + r + 1 # 0
      <4>1. f + r \in AllFrames /\ f + r + 1 # 0
        BY ONLY <1>1, <1>2
      <4>2. Neighbour(f + r, TRUE) = f + r + 1
        BY ONLY <1>3, <1>6, Zenon
      <4> QED
        BY <4>1, <4>2
    <3>2. x.at = f + r /\ x.seen = v
      BY <1>4
    <3> QED
      BY <3>1, <3>2, Zenon DEF WalkOn, BlankFrame
  <2>2. Append(Vector(f, r), f + r + 1) = Vector(f, r + 1)
    BY <1>1, VectorAppend
  <2>3. f + r + 1 = f + (r + 1)
    BY <1>1
  <2> QED
    BY <1>6, <2>1, <2>2, <2>3 DEF v, n
<1> QED
  BY <1>5, <1>6

LEMMA ForwardWalk ==
  ASSUME VectorsInv, NEW f \in 1 .. Len(lists), NEW d \in Nat \ {0}, NEW n \in Nat
  PROVE  WalkFold(f, d, n, AllFrames).seen = Vector(f, Upto(n, Len(lists) - f))
<1> DEFINE m == Len(lists)
<1>1. m \in Nat /\ AllFrames = 1 .. m /\ f \in Nat /\ f <= m /\ ChainsInv /\ d > 0
  BY DEF VectorsInv, ChainsInv, AllFrames
<1>2. PICK g \in [0 .. n -> Walks] : WalkRun(g, f, d, n, AllFrames)
  <2>1. d \in Int /\ f \in Nat
    BY <1>1
  <2> QED
    BY <1>1, <2>1, WalkFoldFollows
<1>3. /\ g[0] = [at |-> f, seen |-> <<>>]
      /\ \A i \in 1 .. n : g[i] = WalkOn(g[i - 1], AllFrames, TRUE)
      /\ WalkFold(f, d, n, AllFrames) = g[n]
  BY <1>1, <1>2 DEF WalkRun
<1> DEFINE T == {i \in 0 .. n : Ahead(g[i], f, Upto(i, m - f), i > m - f)}
<1>4. 0 \in T
  <2>1. Upto(0, m - f) = 0 /\ ~ (0 > m - f)
    BY <1>1 DEF Upto
  <2>2. Vector(f, 0) = <<>>
    BY <1>1, VectorType
  <2> QED
    BY <1>1, <1>3, <2>1, <2>2 DEF Ahead
<1>5. ASSUME NEW i \in 0 .. n - 1, i \in T
      PROVE  i + 1 \in T
  <2>1. i + 1 \in 1 .. n /\ (i + 1) - 1 = i /\ i + 1 \in 0 .. n /\ i \in 0 .. n /\ i \in Nat
    OBVIOUS
  <2>2. g[i + 1] = WalkOn(g[i], AllFrames, TRUE) /\ g[i] \in Walks
    BY <1>3, <2>1
  <2>3. Ahead(g[i], f, Upto(i, m - f), i > m - f)
    BY <1>5
  <2>4. CASE i > m - f
    <3>1. g[i].at = 0 /\ 0 \notin AllFrames
      BY <1>1, <2>3, <2>4 DEF Ahead
    <3>2. g[i + 1] = [g[i] EXCEPT !.at = 0]
      BY <2>2, <3>1 DEF WalkOn, BlankFrame
    <3>3. g[i + 1].at = 0 /\ g[i + 1].seen = g[i].seen
      BY <2>2, <3>2 DEF Walks
    <3>4. Upto(i + 1, m - f) = Upto(i, m - f) /\ i + 1 > m - f
      BY <1>1, <2>1, <2>4 DEF Upto
    <3> QED
      BY <2>1, <2>3, <3>3, <3>4 DEF Ahead
  <2>5. CASE i <= m - f
    <3>1. Upto(i, m - f) = i /\ ~ (i > m - f) /\ i \in 0 .. m - f
      BY <1>1, <2>1, <2>5 DEF Upto
    <3>2. g[i].seen = Vector(f, i) /\ g[i].at = f + i
      BY <2>3, <3>1 DEF Ahead
    <3>3. g[i + 1] = IF f + i = m THEN [at |-> 0, seen |-> Vector(f, i)]
                     ELSE [at |-> f + (i + 1), seen |-> Vector(f, i + 1)]
      BY <2>2, <3>1, <3>2, ForwardRound
    <3>4. (f + i = m) <=> (i + 1 > m - f)
      BY <1>1, <2>1, <2>5
    <3>5. Upto(i + 1, m - f) = IF f + i = m THEN i ELSE i + 1
      BY <1>1, <2>1, <2>5 DEF Upto
    <3>6. Ahead(g[i + 1], f, Upto(i + 1, m - f), i + 1 > m - f)
      <4>1. CASE f + i = m
        <5>1. g[i + 1].at = 0 /\ g[i + 1].seen = Vector(f, i)
          BY <3>3, <4>1
        <5> QED
          BY <3>4, <3>5, <4>1, <5>1 DEF Ahead
      <4>2. CASE f + i # m
        <5>1. g[i + 1].at = f + (i + 1) /\ g[i + 1].seen = Vector(f, i + 1)
          BY <3>3, <4>2
        <5> QED
          BY <3>4, <3>5, <4>2, <5>1 DEF Ahead
      <4> QED
        BY <4>1, <4>2
    <3> QED
      BY <2>1, <3>6
  <2>6. i > m - f \/ i <= m - f
    BY <1>1, <2>1
  <2> QED
    BY <2>4, <2>5, <2>6
<1> HIDE DEF T
<1>6. 0 .. n \subseteq T
  BY <1>4, <1>5, BoundedInduction
<1>7. n \in T
  BY <1>6
<1> QED
  BY <1>3, <1>7 DEF T, Ahead

\* The walk to a frame behind.
LEMMA ForwardUntil ==
  ASSUME VectorsInv, NEW f \in 1 .. Len(lists), NEW d \in Nat \ {0}, NEW n \in Nat,
         NEW t \in f + 1 .. Len(lists)
  PROVE  UntilFold(f, d, n, t, AllFrames).seen = Vector(f, Upto(n, t - f))
<1> DEFINE m == Len(lists)
<1>1. /\ m \in Nat /\ AllFrames = 1 .. m /\ f \in Nat /\ f <= m /\ ChainsInv /\ d > 0
      /\ t \in Nat /\ f < t /\ t <= m
  BY DEF VectorsInv, ChainsInv, AllFrames
<1>2. PICK g \in [0 .. n -> Walks] : UntilRun(g, f, d, n, t, AllFrames)
  <2>1. d \in Int /\ f \in Nat
    BY <1>1
  <2> QED
    BY <1>1, <2>1, UntilFoldFollows
<1>3. /\ g[0] = [at |-> f, seen |-> <<>>]
      /\ \A i \in 1 .. n : g[i] = UntilOn(g[i - 1], t, AllFrames, TRUE)
      /\ UntilFold(f, d, n, t, AllFrames) = g[n]
  BY <1>1, <1>2 DEF UntilRun
<1> DEFINE T == {i \in 0 .. n : Ahead(g[i], f, Upto(i, t - f), FALSE)}
<1>4. 0 \in T
  <2>1. Upto(0, t - f) = 0
    BY <1>1 DEF Upto
  <2>2. Vector(f, 0) = <<>>
    BY <1>1, VectorType
  <2> QED
    BY <1>1, <1>3, <2>1, <2>2 DEF Ahead
<1>5. ASSUME NEW i \in 0 .. n - 1, i \in T
      PROVE  i + 1 \in T
  <2>1. i + 1 \in 1 .. n /\ (i + 1) - 1 = i /\ i + 1 \in 0 .. n /\ i \in 0 .. n /\ i \in Nat
    OBVIOUS
  <2>2. g[i + 1] = UntilOn(g[i], t, AllFrames, TRUE) /\ g[i] \in Walks
    BY <1>3, <2>1
  <2>3. Ahead(g[i], f, Upto(i, t - f), FALSE)
    BY <1>5
  <2>4. CASE i >= t - f
    <3>1. Upto(i, t - f) = t - f /\ Upto(i + 1, t - f) = t - f
      BY <1>1, <2>1, <2>4 DEF Upto
    <3>2. g[i].at = t
      BY <1>1, <2>3, <3>1 DEF Ahead
    <3>3. g[i + 1] = g[i]
      BY <2>2, <3>2 DEF UntilOn
    <3> QED
      BY <2>1, <2>3, <3>1, <3>3
  <2>5. CASE i < t - f
    <3>1. /\ Upto(i, t - f) = i /\ i \in 0 .. m - f /\ Upto(i + 1, t - f) = i + 1
          /\ f + i # t /\ f + i # m
      BY <1>1, <2>1, <2>5 DEF Upto
    <3>2. g[i].seen = Vector(f, i) /\ g[i].at = f + i
      BY <2>3, <3>1 DEF Ahead
    <3>3. g[i + 1] = WalkOn(g[i], AllFrames, TRUE)
      BY <2>2, <3>1, <3>2 DEF UntilOn
    <3>4. g[i + 1] = [at |-> f + (i + 1), seen |-> Vector(f, i + 1)]
      BY <2>2, <3>1, <3>2, <3>3, ForwardRound
    <3>5. Ahead(g[i + 1], f, Upto(i + 1, t - f), FALSE)
      BY <3>1, <3>4 DEF Ahead
    <3> QED
      BY <2>1, <3>5
  <2>6. i >= t - f \/ i < t - f
    BY <1>1, <2>1
  <2> QED
    BY <2>4, <2>5, <2>6
<1> HIDE DEF T
<1>6. 0 .. n \subseteq T
  BY <1>4, <1>5, BoundedInduction
<1>7. n \in T
  BY <1>6
<1> QED
  BY <1>3, <1>7 DEF T, Ahead

\* A walk over a frame that is not here ends with it.
LEMMA MissingWalk ==
  ASSUME VectorsInv, NEW f \in 1 .. Len(lists), f < Len(lists),
         NEW d \in Nat \ {0}, NEW n \in Nat \ {0}
  PROVE  WalkFold(f, d, n, AllFrames \ {f + 1}).seen = <<f + 1>>
<1> DEFINE m == Len(lists)
           here == AllFrames \ {f + 1}
<1>1. /\ m \in Nat /\ here = (1 .. m) \ {f + 1} /\ f \in Nat /\ f < m /\ ChainsInv /\ d > 0
      /\ here \subseteq AllFrames
  BY DEF VectorsInv, ChainsInv, AllFrames
<1> HIDE DEF here
<1>2. PICK g \in [0 .. n -> Walks] : WalkRun(g, f, d, n, here)
  <2>1. d \in Int /\ f \in Nat /\ n \in Nat
    BY <1>1
  <2> QED
    BY <1>1, <2>1, WalkFoldFollows
<1>3. /\ g[0] = [at |-> f, seen |-> <<>>]
      /\ \A i \in 1 .. n : g[i] = WalkOn(g[i - 1], here, TRUE)
      /\ WalkFold(f, d, n, here) = g[n]
  BY <1>1, <1>2 DEF WalkRun
<1>4. Neighbour(f, TRUE) = f + 1 /\ f + 1 # 0
  <2>1. Neighbour(f, TRUE) = Forth(f)
    BY NeighbourIs
  <2>2. f # Len(lists) /\ f + 1 # 0
    BY <1>1
  <2> QED
    BY <2>1, <2>2, Zenon DEF Forth
<1> DEFINE T == {i \in 0 .. n : i = 0 \/ (g[i].seen = <<f + 1>> /\ g[i].at \in {0, f + 1})}
<1>5. 0 \in T
  OBVIOUS
<1>6. ASSUME NEW i \in 0 .. n - 1, i \in T
      PROVE  i + 1 \in T
  <2>1. i + 1 \in 1 .. n /\ (i + 1) - 1 = i /\ i + 1 \in 0 .. n /\ i \in 0 .. n /\ i \in Nat
    OBVIOUS
  <2>2. g[i + 1] = WalkOn(g[i], here, TRUE) /\ g[i] \in Walks
    BY <1>3, <2>1
  <2>3. CASE i = 0
    <3>1. f \in here
      BY <1>1
    <3>2. g[i + 1] = [at |-> f + 1, seen |-> Append(<<>>, f + 1)]
      <4>1. g[i].at = f /\ g[i].seen = <<>>
        BY <1>3, <2>3
      <4> QED
        BY <1>4, <2>2, <3>1, <4>1, Zenon DEF WalkOn, BlankFrame
    <3>3. g[i + 1].at = f + 1 /\ g[i + 1].seen = <<f + 1>>
      BY <3>2
    <3> QED
      BY <2>1, <3>3
  <2>4. CASE i # 0
    <3>1. g[i].seen = <<f + 1>> /\ g[i].at \in {0, f + 1}
      BY <1>6, <2>4
    <3>2. g[i].at \notin here
      BY <1>1, <3>1
    <3>3. g[i + 1] = [g[i] EXCEPT !.at = 0]
      BY <2>2, <3>2 DEF WalkOn, BlankFrame
    <3>4. g[i + 1].at = 0 /\ g[i + 1].seen = g[i].seen
      BY <2>2, <3>3 DEF Walks
    <3> QED
      BY <2>1, <3>1, <3>4
  <2> QED
    BY <2>3, <2>4
<1> HIDE DEF T
<1>7. 0 .. n \subseteq T
  BY <1>5, <1>6, BoundedInduction
<1>8. n \in T
  BY <1>7
<1> QED
  BY <1>3, <1>8 DEF T, here

\* A walk backward from f that has been going for i rounds: it has gone from
\* each frame to the one Depth in front, or to the first of the batch, where
\* it ends.
LastSeen(x, f) == IF x.seen = <<>> THEN f ELSE x.seen[Len(x.seen)]
Before(x, f, j) == IF j = 1 THEN f ELSE x.seen[j - 1]
Behind(x, f, i) ==
  /\ x \in Walks
  /\ \A j \in 1 .. Len(x.seen) :
       /\ x.seen[j] \in 1 .. Len(lists) /\ First(x.seen[j]) = First(f)
       /\ x.seen[j] = Back(Before(x, f, j), First(f))
  /\ x.at # 0 => x.at = LastSeen(x, f) /\ Len(x.seen) = i
  /\ x.at = 0 => LastSeen(x, f) = First(f)

\* The frame it has seen last is of the same batch.
LEMMA BehindLast ==
  ASSUME VectorsInv, NEW f \in 1 .. Len(lists), NEW i \in Nat, NEW x, Behind(x, f, i)
  PROVE  /\ x.seen \in Seq(Nat) /\ Len(x.seen) \in Nat
         /\ LastSeen(x, f) \in 1 .. Len(lists) /\ First(LastSeen(x, f)) = First(f)
<1> DEFINE s == x.seen
<1>1. s \in Seq(Nat) /\ Len(s) \in Nat
  <2>1. s \in Seq(Nat)
    BY DEF Behind, Walks
  <2> QED
    BY <2>1
<1>2. \A j \in 1 .. Len(s) : s[j] \in 1 .. Len(lists) /\ First(s[j]) = First(f)
  BY DEF Behind
<1>3. LastSeen(x, f) = IF s = <<>> THEN f ELSE s[Len(s)]
  BY DEF LastSeen
<1> HIDE DEF s
<1>4. s # <<>> => Len(s) \in 1 .. Len(s)
  BY <1>1
<1>5. LastSeen(x, f) \in 1 .. Len(lists) /\ First(LastSeen(x, f)) = First(f)
  BY <1>2, <1>3, <1>4
<1> QED
  BY <1>1, <1>5 DEF s

\* A round backward.
LEMMA BackwardRound ==
  ASSUME VectorsInv, NEW f \in 1 .. Len(lists), NEW i \in Nat, NEW x, Behind(x, f, i)
  PROVE  /\ Behind(WalkOn(x, AllFrames, FALSE), f, i + 1)
         /\ x.at \in {0, First(f)} =>
              WalkOn(x, AllFrames, FALSE).at = 0 /\ WalkOn(x, AllFrames, FALSE).seen = x.seen
<1> DEFINE n == Len(lists)
           c == LastSeen(x, f)
           s == x.seen
           y == WalkOn(x, AllFrames, FALSE)
<1>1. /\ x \in Walks /\ s \in Seq(Nat) /\ Len(s) \in Nat /\ c \in 1 .. n
      /\ First(c) = First(f)
      /\ \A j \in 1 .. Len(s) :
           /\ s[j] \in 1 .. n /\ First(s[j]) = First(f)
           /\ s[j] = Back(Before(x, f, j), First(f))
      /\ x.at # 0 => x.at = c /\ Len(s) = i
      /\ x.at = 0 => c = First(f)
  BY BehindLast DEF Behind
<1>2. n \in Nat /\ AllFrames = 1 .. n
  BY DEF VectorsInv, ChainsInv, AllFrames
<1>3. Neighbour(c, FALSE) = Rear(c)
  BY <1>1, NeighbourIs
<1>4. x = [at |-> x.at, seen |-> s]
  BY <1>1 DEF Walks
<1>5. CASE x.at = 0 \/ c = First(f)
  <2>1. x.at \notin AllFrames \/ Neighbour(x.at, FALSE) = 0
    <3>1. CASE x.at = 0
      BY <1>2, <3>1
    <3>2. CASE x.at # 0
      <4>1. x.at = c /\ c = First(c)
        BY <1>1, <1>5, <3>2
      <4> QED
        BY <1>3, <4>1 DEF Rear
    <3> QED
      BY <3>1, <3>2
  <2>2. y = [x EXCEPT !.at = 0]
    BY <2>1, Zenon DEF WalkOn, BlankFrame
  <2>3. y.at = 0 /\ y.seen = s /\ y \in Walks
    <3> HIDE DEF y, s
    <3>1. y = [at |-> 0, seen |-> s]
      <4> DEFINE z == [at |-> x.at, seen |-> s]
      <4>1. [z EXCEPT !.at = 0] = [at |-> 0, seen |-> s]
        OBVIOUS
      <4> HIDE DEF z
      <4> QED
        BY <1>4, <2>2, <4>1 DEF z
    <3> QED
      BY <1>1, <3>1 DEF Walks
  <2>4. c = First(f)
    BY <1>1, <1>5
  <2> HIDE DEF y
  <2>5. Behind(y, f, i + 1)
    <3>1. LastSeen(y, f) = c
      BY <2>3 DEF LastSeen
    <3>2. \A j \in 1 .. Len(s) : Before(y, f, j) = Before(x, f, j)
      BY <2>3 DEF Before
    <3> QED
      BY <1>1, <2>3, <2>4, <3>1, <3>2, Zenon DEF Behind
  <2> QED
    BY <2>3, <2>5 DEF y
<1>6. CASE x.at # 0 /\ c # First(f)
  <2> DEFINE r == Rear(c)
             t == Append(s, r)
  <2>1. x.at = c /\ Len(s) = i /\ c # First(c)
    BY <1>1, <1>6
  <2>2. r = Back(c, First(f)) /\ r \in 1 .. n /\ First(r) = First(f) /\ r # 0
    <3>1. r = Back(c, First(c))
      BY <2>1 DEF Rear
    <3>2. r = 0 \/ (r \in 1 .. n /\ First(r) = First(c))
      BY <1>1, NeighbourIs
    <3>3. r # 0
      <4>1. c \in Nat /\ First(c) \in 1 .. n /\ Depth \in Nat
        <5>1. BatchesInv /\ Depth \in Nat
          BY FramesAssumption DEF VectorsInv, FramesAssumption
        <5>2. First(c) \in 1 .. n
          BY <1>1, <5>1, BatchOrder
        <5> QED
          BY <1>1, <1>2, <5>1, <5>2
      <4> DEFINE q == First(c)
      <4>2. r = IF c - Depth > q THEN c - Depth ELSE q
        BY <3>1 DEF Back
      <4> HIDE DEF r, q, c
      <4> QED
        BY <1>2, <4>1, <4>2 DEF q
    <3> QED
      BY <1>1, <3>1, <3>2, <3>3
  <2>3. y = [at |-> r, seen |-> t]
    <3>1. c \in AllFrames
      BY <1>1, <1>2
    <3> QED
      BY <1>3, <2>1, <2>2, <3>1, Zenon DEF WalkOn, BlankFrame
  <2> HIDE DEF r
  <2>4. /\ t \in Seq(Nat) /\ Len(t) = i + 1 /\ t[i + 1] = r /\ t # <<>>
        /\ \A j \in 1 .. Len(s) : t[j] = s[j]
    <3>1. r \in Nat
      BY <1>2, <2>2
    <3>2. /\ t \in Seq(Nat) /\ Len(t) = Len(s) + 1 /\ t[Len(s) + 1] = r
          /\ \A j \in 1 .. Len(s) : t[j] = s[j]
      BY <1>1, <3>1, AppendKeeps
    <3> HIDE DEF t
    <3>3. t # <<>>
      BY <1>1, <3>2
    <3> QED
      BY <2>1, <3>2, <3>3
  <2>5. y.at = r /\ y.seen = t /\ y \in Walks
    <3>1. r \in Nat
      BY <1>2, <2>2
    <3> HIDE DEF y, t
    <3> QED
      BY ONLY <2>3, <2>4, <3>1 DEF Walks
  <2> HIDE DEF y, t
  <2>6. LastSeen(y, f) = r
    BY <2>4, <2>5 DEF LastSeen
  <2>7. ASSUME NEW j \in 1 .. Len(t)
        PROVE  /\ t[j] \in 1 .. n /\ First(t[j]) = First(f)
               /\ t[j] = Back(Before(y, f, j), First(f))
    <3>1. j \in 1 .. Len(s) \/ j = i + 1
      BY <2>1, <2>4
    <3>2. CASE j \in 1 .. Len(s)
      <4>1. Before(y, f, j) = Before(x, f, j)
        <5>1. j # 1 => j - 1 \in 1 .. Len(s)
          BY <3>2
        <5> QED
          BY <2>4, <2>5, <5>1 DEF Before
      <4> QED
        BY <1>1, <2>4, <3>2, <4>1
    <3>3. CASE j = i + 1
      <4>1. Before(y, f, j) = c
        <5>1. CASE i = 0
          <6>1. s = <<>>
            BY <1>1, <2>1, <5>1
          <6>2. c = f
            BY <6>1 DEF LastSeen
          <6> QED
            BY <3>3, <5>1, <6>2 DEF Before
        <5>2. CASE i # 0
          <6>1. s # <<>> /\ i \in 1 .. Len(s) /\ j - 1 = i /\ j # 1
            BY <1>1, <2>1, <3>3, <5>2
          <6>2. c = s[i]
            BY <2>1, <6>1 DEF LastSeen
          <6> QED
            BY <2>4, <2>5, <6>1, <6>2 DEF Before
        <5> QED
          BY <5>1, <5>2
      <4> QED
        BY <2>2, <2>4, <3>3, <4>1
    <3> QED
      BY <3>1, <3>2, <3>3
  <2>8. Behind(y, f, i + 1)
    BY <2>2, <2>4, <2>5, <2>6, <2>7, Zenon DEF Behind
  <2>9. x.at \notin {0, First(f)}
    BY <1>6, <2>1
  <2> QED
    BY <2>8, <2>9 DEF y
<1> QED
  BY <1>5, <1>6

\* The two walks backward, one to the first frame of the batch, see the same.
LEMMA BackwardWalk ==
  ASSUME VectorsInv, NEW f \in 1 .. Len(lists), NEW d \in Int, ~ (d > 0), NEW n \in Nat
  PROVE  /\ Behind(WalkFold(f, d, n, AllFrames), f, n)
         /\ UntilFold(f, d, n, First(f), AllFrames).seen = WalkFold(f, d, n, AllFrames).seen
<1> DEFINE t == First(f)
<1>1. f \in Nat /\ ChainsInv /\ f # 0
  BY DEF VectorsInv, ChainsInv
<1>2. PICK g \in [0 .. n -> Walks] : WalkRun(g, f, d, n, AllFrames)
  BY <1>1, WalkFoldFollows
<1>3. PICK u \in [0 .. n -> Walks] : UntilRun(u, f, d, n, t, AllFrames)
  BY <1>1, UntilFoldFollows
<1>4. (d > 0) = FALSE
  OBVIOUS
<1>5. /\ g[0] = [at |-> f, seen |-> <<>>]
      /\ \A i \in 1 .. n : g[i] = WalkOn(g[i - 1], AllFrames, FALSE)
      /\ WalkFold(f, d, n, AllFrames) = g[n]
  BY <1>2, <1>4 DEF WalkRun
<1>6. /\ u[0] = [at |-> f, seen |-> <<>>]
      /\ \A i \in 1 .. n : u[i] = UntilOn(u[i - 1], t, AllFrames, FALSE)
      /\ UntilFold(f, d, n, t, AllFrames) = u[n]
  BY <1>3, <1>4 DEF UntilRun
<1> HIDE DEF t
<1> DEFINE Same(x, y) == y.seen = x.seen /\ (y.at = x.at \/ (y.at = t /\ x.at = 0))
           T == {i \in 0 .. n : Behind(g[i], f, i) /\ Same(g[i], u[i])}
<1>7. 0 \in T
  <2>1. g[0] \in Walks /\ g[0].at = f /\ g[0].seen = <<>>
    BY <1>5
  <2>2. Behind(g[0], f, 0)
    <3>1. Len(g[0].seen) = 0
      BY <2>1
    <3>2. \A j \in 1 .. 0 : FALSE
      OBVIOUS
    <3> QED
      BY <1>1, <2>1, <3>1, <3>2, Zenon DEF Behind, LastSeen
  <2> QED
    BY <1>5, <1>6, <2>2
<1>8. ASSUME NEW i \in 0 .. n - 1, i \in T
      PROVE  i + 1 \in T
  <2>1. i + 1 \in 1 .. n /\ (i + 1) - 1 = i /\ i + 1 \in 0 .. n /\ i \in 0 .. n /\ i \in Nat
    OBVIOUS
  <2> DEFINE x == g[i]
             y == u[i]
             z == WalkOn(x, AllFrames, FALSE)
  <2>2. g[i + 1] = z /\ u[i + 1] = UntilOn(y, t, AllFrames, FALSE) /\ x \in Walks /\ y \in Walks
    BY <1>5, <1>6, <2>1
  <2>3. Behind(x, f, i) /\ Same(x, y)
    BY <1>8
  <2>4. Behind(z, f, i + 1) /\ (x.at \in {0, t} => z.at = 0 /\ z.seen = x.seen)
    BY <2>1, <2>3, BackwardRound DEF t
  <2>5. Same(z, u[i + 1])
    <3>1. CASE y.at = t
      <4>1. u[i + 1] = y
        BY <2>2, <3>1, Zenon DEF UntilOn
      <4>2. x.at \in {0, t}
        BY <2>3, <3>1
      <4> QED
        BY <2>3, <2>4, <3>1, <4>1, <4>2
    <3>2. CASE y.at # t
      <4>1. u[i + 1] = WalkOn(y, AllFrames, FALSE)
        BY <2>2, <3>2, Zenon DEF UntilOn
      <4>2. y = x
        <5>1. y.at = x.at /\ y.seen = x.seen
          BY <2>3, <3>2
        <5>2. y = [at |-> y.at, seen |-> y.seen] /\ x = [at |-> x.at, seen |-> x.seen]
          <6> HIDE DEF x, y
          <6> QED
            BY <2>2 DEF Walks
        <5> HIDE DEF x, y
        <5> QED
          BY <5>1, <5>2
      <4> QED
        BY <4>1, <4>2
    <3> QED
      BY <3>1, <3>2
  <2> QED
    BY <2>1, <2>2, <2>4, <2>5
<1> HIDE DEF T
<1>9. 0 .. n \subseteq T
  BY <1>7, <1>8, BoundedInduction
<1>10. n \in T
  BY <1>9
<1> QED
  BY <1>5, <1>6, <1>10 DEF T, t

(***************************************************************************)
(* The search for a position.                                              *)
(***************************************************************************)

\* A round of it, and as many as n.
Places == [at : 0 .. Len(lists), n : Nat]
PosOn(x) ==
  IF x.at = BlankFrame THEN x
  ELSE IF lists[x.at].first = <<>> THEN [x EXCEPT !.at = BlankFrame]
  ELSE [at |-> lists[x.at].first[1], n |-> x.n + 1]
PosFold(f, n) ==
  FoldLeft(LAMBDA acc, k : IF acc.at = BlankFrame THEN acc
                           ELSE IF lists[acc.at].first = <<>>
                           THEN [acc EXCEPT !.at = BlankFrame]
                           ELSE [at |-> lists[acc.at].first[1], n |-> acc.n + 1],
           [at |-> f, n |-> 0], [k \in 1 .. n |-> k])
PosRun(g, f, n) ==
  /\ g[0] = [at |-> f, n |-> 0]
  /\ \A i \in 1 .. n : g[i] = PosOn(g[i - 1])
  /\ PosFold(f, n) = g[n]

\* A round leads to a frame in front.
LEMMA PosOnType ==
  ASSUME ChainsInv, BatchesInv, NEW x \in Places
  PROVE  PosOn(x) \in Places /\ PosOn(x).at <= x.at
<1> DEFINE n == Len(lists)
           l == lists[x.at]
<1>1. n \in Nat /\ x.at \in 0 .. n /\ x.n \in Nat /\ lists \in Seq(LinkSet)
  BY DEF Places, ChainsInv
<1>2. CASE x.at = 0
  <2>1. PosOn(x) = x
    BY <1>2 DEF PosOn, BlankFrame
  <2> QED
    BY <1>1, <2>1
<1>3. CASE x.at # 0 /\ l.first = <<>>
  <2>1. PosOn(x) = [x EXCEPT !.at = 0]
    BY <1>3 DEF PosOn, BlankFrame
  <2>2. [x EXCEPT !.at = 0] \in Places /\ [x EXCEPT !.at = 0].at = 0
    BY <1>1 DEF Places
  <2> QED
    BY <1>1, <2>1, <2>2
<1>4. CASE x.at # 0 /\ l.first # <<>>
  <2> DEFINE c == l.first[1]
  <2>1. PosOn(x) = [at |-> c, n |-> x.n + 1]
    BY <1>4, Zenon DEF PosOn, BlankFrame
  <2>2. x.at \in 1 .. n
    BY <1>1, <1>4
  <2>3. l \in LinkSet /\ \A k \in 1 .. Len(l.first) : l.first[k] < x.at
    <3>1. InBatch(x.at) \in 1 .. Len(batches) /\ x.at \in From(InBatch(x.at)) .. To(InBatch(x.at))
      BY <2>2, FrameBatch
    <3>2. Chained(l, x.at, From(InBatch(x.at)), n)
      BY <3>1 DEF ChainsInv
    <3> QED
      BY <1>1, <2>2, <3>2 DEF Chained
  <2> DEFINE s == l.first
  <2>4. s \in Seq(Nat) /\ s # <<>> /\ \A k \in 1 .. Len(s) : s[k] < x.at
    <3> HIDE DEF l
    <3> QED
      BY <1>4, <2>3 DEF LinkSet
  <2> HIDE DEF s
  <2>5. 1 \in 1 .. Len(s) /\ s[1] \in Nat
    BY <2>4
  <2>6. c \in Nat /\ c < x.at
    BY <2>4, <2>5 DEF s
  <2> HIDE DEF c
  <2>7. c \in 0 .. n /\ c <= x.at /\ x.n + 1 \in Nat
    BY <1>1, <2>2, <2>6
  <2> QED
    BY <2>1, <2>7 DEF Places
<1> QED
  BY <1>2, <1>3, <1>4

\* A search goes round after round.
LEMMA PosFoldFollows ==
  ASSUME ChainsInv, BatchesInv, NEW n \in Nat, NEW f \in 1 .. Len(lists)
  PROVE  \E g \in [0 .. n -> Places] : PosRun(g, f, n)
<1> DEFINE A == Places
           seq == [k \in 1 .. n |-> k]
           S == DOMAIN seq
           a == [at |-> f, n |-> 0]
           D == [i \in 1 .. n |-> [x \in A |-> PosOn(x)]]
           Eq(h) == h = [r \in SUBSET S |->
                           IF r = {} THEN a ELSE PosOn(h[r \ {Max(r)}])]
           it == CHOOSE h : Eq(h)
<1>1. PosFold(f, n) = it[S]
  BY DEF PosFold, FoldLeft, MapThenFoldSet, PosOn
<1>2. S = 1 .. n
  OBVIOUS
<1> HIDE DEF seq
<1>3. n \in Nat /\ a \in A /\ D \in [1 .. n -> [A -> A]]
  <2>1. ASSUME NEW x \in A
        PROVE  PosOn(x) \in A
    BY PosOnType
  <2>2. a \in A
    BY DEF Places
  <2> HIDE DEF A
  <2> QED
    BY <2>1, <2>2
<1>4. \A i \in 1 .. n : \A x \in A : D[i][x] = PosOn(x)
  OBVIOUS
<1> HIDE DEF A, D, a
<1>5. PICK h \in [SUBSET (1 .. n) -> A] :
        /\ Folded(h, n, a, D)
        /\ \A r \in SUBSET (1 .. n) : r # {} => Max(r) \in 1 .. n /\ h[r \ {Max(r)}] \in A
  BY <1>3, FoldExists
<1>6. Eq(h)
  <2>1. ASSUME NEW r \in SUBSET (1 .. n)
        PROVE  h[r] = IF r = {} THEN a ELSE PosOn(h[r \ {Max(r)}])
    <3>1. h[r] = IF r = {} THEN a ELSE D[Max(r)][h[r \ {Max(r)}]]
      BY <1>5 DEF Folded
    <3>2. CASE r = {}
      BY <3>1, <3>2
    <3>3. CASE r # {}
      <4> DEFINE x == h[r \ {Max(r)}]
                 i == Max(r)
      <4>1. h[r] = D[i][x] /\ x \in A /\ i \in 1 .. n
        BY <1>5, <3>1, <3>3
      <4> HIDE DEF x, i
      <4>2. h[r] = PosOn(x)
        BY <1>4, <4>1
      <4> QED
        BY <3>3, <4>2 DEF x
    <3> QED
      BY <3>2, <3>3
  <2> QED
    BY <1>2, <2>1
<1>7. Eq(it)
  <2> HIDE DEF Eq
  <2> QED
    BY <1>6
<1>8. \A r \in SUBSET (1 .. n) : it[r] = IF r = {} THEN a ELSE PosOn(it[r \ {Max(r)}])
  BY <1>2, <1>7
<1> HIDE DEF it
<1>9. Stepwise(it, n, A, a, D)
  <2>1. it[{}] = a
    BY <1>8
  <2>2. ASSUME NEW j \in 1 .. n, it[1 .. j - 1] \in A
        PROVE  it[1 .. j] = D[j][it[1 .. j - 1]]
    <3> DEFINE r == 1 .. j
               y == it[r \ {Max(r)}]
    <3>1. r \in SUBSET (1 .. n) /\ r # {} /\ Max(r) = j /\ r \ {j} = 1 .. j - 1
      BY IntervalPart
    <3> HIDE DEF r
    <3>2. it[r] = PosOn(y)
      BY <1>8, <3>1
    <3>3. y = it[1 .. j - 1]
      BY <3>1
    <3> HIDE DEF y
    <3> QED
      BY <1>4, <2>2, <3>2, <3>3 DEF r
  <2> QED
    BY <2>1, <2>2 DEF Stepwise
<1>10. PICK g \in [0 .. n -> A] : LeadsTo(g, n, a, D, it)
  BY ONLY <1>3, <1>9, FoldFollows
<1>11. ASSUME NEW i \in 1 .. n
       PROVE  g[i] = PosOn(g[i - 1])
  <2>1. g[i - 1] \in A /\ g[i] = D[i][g[i - 1]]
    BY <1>10 DEF LeadsTo, Follows
  <2> QED
    BY <1>4, <2>1
<1>12. g[0] = a /\ PosFold(f, n) = g[n]
  BY <1>1, <1>2, <1>10 DEF LeadsTo, Follows
<1> QED
  BY <1>11, <1>12 DEF a, A, PosRun

\* A search finds no frame behind.
LEMMA PosNowhere ==
  ASSUME VectorsInv, NEW f \in 1 .. Len(lists), NEW t \in Nat, f < t, NEW n \in Nat
  PROVE  PosFold(f, n).at # t
<1>1. ChainsInv /\ BatchesInv /\ f \in Nat /\ Len(lists) \in Nat
  BY DEF VectorsInv, ChainsInv
<1>2. PICK g \in [0 .. n -> Places] : PosRun(g, f, n)
  BY <1>1, PosFoldFollows
<1>3. /\ g[0] = [at |-> f, n |-> 0]
      /\ \A i \in 1 .. n : g[i] = PosOn(g[i - 1])
      /\ PosFold(f, n) = g[n]
  BY <1>2 DEF PosRun
<1> DEFINE T == {i \in 0 .. n : g[i].at <= f}
<1>4. 0 \in T
  BY <1>1, <1>3
<1>5. ASSUME NEW i \in 0 .. n - 1, i \in T
      PROVE  i + 1 \in T
  <2>1. i + 1 \in 1 .. n /\ (i + 1) - 1 = i /\ i + 1 \in 0 .. n /\ i \in 0 .. n
    OBVIOUS
  <2>2. g[i + 1] = PosOn(g[i]) /\ g[i] \in Places /\ g[i + 1] \in Places
    BY <1>3, <2>1
  <2>3. g[i + 1].at <= g[i].at
    BY <1>1, <2>2, PosOnType
  <2>4. g[i].at \in Nat /\ g[i + 1].at \in Nat /\ g[i].at <= f
    BY <1>1, <1>5, <2>2 DEF Places
  <2>5. g[i + 1].at <= f
    BY <1>1, <2>3, <2>4
  <2> QED
    BY <2>1, <2>5
<1> HIDE DEF T
<1>6. 0 .. n \subseteq T
  BY <1>4, <1>5, BoundedInduction
<1>7. n \in T
  BY <1>6
<1>8. g[n].at <= f
  BY <1>7 DEF T
<1> QED
  BY <1>1, <1>3, <1>8

(***************************************************************************)
(* All the walks.                                                          *)
(***************************************************************************)

\* The rounds of a walk.
LEMMA RoundsAre ==
  ASSUME NEW k \in Nat \ {0}
  PROVE  /\ Rounds(k) = [i \in 1 .. k + 1 |-> i] /\ Rounds(-k) = [i \in 1 .. k + 1 |-> i]
         /\ k \in Int /\ k > 0 /\ -k \in Int /\ ~ (-k > 0) /\ k + 1 \in Nat \ {0}
<1>1. k > 0 /\ ~ (-k > 0) /\ -(-k) = k
  OBVIOUS
<1> QED
  BY <1>1 DEF Rounds

\* The walk backward.
LEMMA BackwardListed ==
  ASSUME VectorsInv, NEW f \in 1 .. Len(lists), NEW n \in Nat \ {0}, NEW x, Behind(x, f, n)
  PROVE  /\ \A i \in DOMAIN x.seen :
              x.seen[i] = Back(IF i = 1 THEN f ELSE x.seen[i - 1],
                               First(IF i = 1 THEN f ELSE x.seen[i - 1]))
         /\ x.seen = <<>> \/ Last(x.seen) = First(f) \/ Len(x.seen) = n
         /\ x.seen = <<>> => f = First(f)
<1> DEFINE s == x.seen
<1>1. s \in Seq(Nat) /\ Len(s) \in Nat /\ DOMAIN s = 1 .. Len(s)
  <2>1. s \in Seq(Nat) /\ Len(s) \in Nat
    BY BehindLast
  <2> QED
    BY <2>1
<1>2. /\ \A j \in 1 .. Len(s) :
           First(s[j]) = First(f) /\ s[j] = Back(Before(x, f, j), First(f))
      /\ x.at # 0 => x.at = LastSeen(x, f) /\ Len(s) = n
      /\ x.at = 0 => LastSeen(x, f) = First(f)
      /\ LastSeen(x, f) = IF s = <<>> THEN f ELSE s[Len(s)]
  BY DEF Behind, LastSeen
<1>3. \A j \in 1 .. Len(s) : Before(x, f, j) = IF j = 1 THEN f ELSE s[j - 1]
  BY DEF Before
<1> HIDE DEF s
<1>4. ASSUME NEW j \in 1 .. Len(s)
      PROVE  s[j] = Back(IF j = 1 THEN f ELSE s[j - 1], First(IF j = 1 THEN f ELSE s[j - 1]))
  <2>1. CASE j = 1
    BY <1>2, <1>3, <2>1
  <2>2. CASE j # 1
    <3>1. j - 1 \in 1 .. Len(s)
      BY <1>1, <2>2
    <3>2. First(s[j - 1]) = First(f) /\ s[j] = Back(s[j - 1], First(f))
      BY <1>2, <1>3, <2>2, <3>1
    <3> QED
      BY <2>2, <3>2
  <2> QED
    BY <2>1, <2>2
<1>5. s # <<>> => Last(s) = s[Len(s)]
  BY DEF Last
<1>6. s = <<>> => Len(s) = 0 /\ Len(s) # n
  OBVIOUS
<1>7. s = <<>> => x.at = 0 /\ f = First(f)
  BY <1>2, <1>6
<1>8. s = <<>> \/ Last(s) = First(f) \/ Len(s) = n
  BY <1>2, <1>5
<1> QED
  BY <1>1, <1>4, <1>7, <1>8 DEF s

\* The walks go as ListsWalk says.
LEMMA WalksFollow ==
  ASSUME VectorsInv
  PROVE  ListsWalk
<1>1. AllFrames = 1 .. Len(lists) /\ Len(lists) \in Nat
  BY DEF VectorsInv, ChainsInv, AllFrames
<1> SUFFICES ASSUME NEW f \in 1 .. Len(lists), NEW k \in 1 .. 3
    PROVE  LET forward == ByDistance(f, k, AllFrames)
               back    == ByDistance(f, -k, AllFrames)
           IN  /\ forward = [i \in 1..Upto(k + 1, Len(lists) - f) |-> f + i]
               /\ \A i \in DOMAIN back :
                    back[i] = Back(IF i = 1 THEN f ELSE back[i - 1],
                                   First(IF i = 1 THEN f ELSE back[i - 1]))
               /\ back = <<>> \/ Last(back) = First(f) \/ Len(back) = k + 1
               /\ back = <<>> => f = First(f)
               /\ f < Len(lists) =>
                    ByDistance(f, k, AllFrames \ {f + 1}) = <<f + 1>>
               /\ \A g \in (f + 1)..Len(lists) :
                    /\ ByDistanceUntil(f, k, g, AllFrames) =
                         [i \in 1..Upto(k + 1, g - f) |-> f + i]
                    /\ PosInList(f, g, k) = <<>>
               /\ ByDistanceUntil(f, -k, First(f), AllFrames) = Reverse(back)
  BY <1>1, Zenon DEF ListsWalk, Back, First
<1>2. /\ Rounds(k) = [i \in 1 .. k + 1 |-> i] /\ Rounds(-k) = [i \in 1 .. k + 1 |-> i]
      /\ k \in Int /\ k > 0 /\ -k \in Int /\ ~ (-k > 0) /\ k + 1 \in Nat \ {0}
      /\ k \in Nat \ {0}
  <2>1. k \in Nat \ {0}
    OBVIOUS
  <2> QED
    BY <2>1, RoundsAre
<1> DEFINE back == WalkFold(f, -k, k + 1, AllFrames).seen
<1>3. ByDistance(f, -k, AllFrames) = back
  BY <1>2, Zenon DEF ByDistance, WalkFold
<1>4. \A known : ByDistance(f, k, known) = WalkFold(f, k, k + 1, known).seen
  BY <1>2, Zenon DEF ByDistance, WalkFold
<1>5. ByDistance(f, k, AllFrames) = [i \in 1 .. Upto(k + 1, Len(lists) - f) |-> f + i]
  <2>1. WalkFold(f, k, k + 1, AllFrames).seen = Vector(f, Upto(k + 1, Len(lists) - f))
    BY <1>2, ForwardWalk
  <2> QED
    BY <1>4, <2>1 DEF Vector
<1>6. /\ Behind(WalkFold(f, -k, k + 1, AllFrames), f, k + 1)
      /\ UntilFold(f, -k, k + 1, First(f), AllFrames).seen = back
  BY <1>2, BackwardWalk
<1>7. /\ \A i \in DOMAIN back :
           back[i] = Back(IF i = 1 THEN f ELSE back[i - 1],
                          First(IF i = 1 THEN f ELSE back[i - 1]))
      /\ back = <<>> \/ Last(back) = First(f) \/ Len(back) = k + 1
      /\ back = <<>> => f = First(f)
  BY <1>2, <1>6, BackwardListed
<1>8. f < Len(lists) => ByDistance(f, k, AllFrames \ {f + 1}) = <<f + 1>>
  BY <1>2, <1>4, MissingWalk
<1>9. ASSUME NEW g \in (f + 1) .. Len(lists)
      PROVE  ByDistanceUntil(f, k, g, AllFrames) = [i \in 1 .. Upto(k + 1, g - f) |-> f + i]
  <2>1. UntilFold(f, k, k + 1, g, AllFrames).seen = Vector(f, Upto(k + 1, g - f))
    BY <1>2, ForwardUntil
  <2>2. ByDistanceUntil(f, k, g, AllFrames) = UntilFold(f, k, k + 1, g, AllFrames).seen
    BY <1>2, Zenon DEF ByDistanceUntil, UntilFold
  <2> QED
    BY <2>1, <2>2 DEF Vector
<1>10. ASSUME NEW g \in (f + 1) .. Len(lists)
       PROVE  PosInList(f, g, k) = <<>>
  <2>1. g \in Nat /\ f < g /\ k \in Nat
    BY <1>1
  <2>2. PosFold(f, k).at # g
    BY <2>1, PosNowhere
  <2>3. PosInList(f, g, k)
          = IF PosFold(f, k).at = g THEN <<-PosFold(f, k).n>> ELSE <<>>
    BY Zenon DEF PosInList, PosFold
  <2> QED
    BY <2>2, <2>3
<1>11. ByDistanceUntil(f, -k, First(f), AllFrames) = Reverse(back)
  <2>1. ByDistanceUntil(f, -k, First(f), AllFrames)
          = Reverse(UntilFold(f, -k, k + 1, First(f), AllFrames).seen)
    BY <1>2, Zenon DEF ByDistanceUntil, UntilFold
  <2> QED
    BY <1>6, <2>1
<1> HIDE DEF back
<1> QED
  BY <1>3, <1>5, <1>7, <1>8, <1>9, <1>10, <1>11, Zenon

\* In every behaviour, the walks over frames that are all here list the frames
\* behind in order and go back Depth at a time within the batch; a walk over a
\* missing frame ends with it, and a search finds no frame behind (by_distance,
\* by_distance_until_match, pos_in_linked_list).
THEOREM WalksRight == FramesSpec => []ListsWalk
<1>1. VectorsInv => ListsWalk
  BY WalksFollow
<1> QED
  BY <1>1, FramesInOrder, PTL

(***************************************************************************)
(* The search for a moment.                                                *)
(***************************************************************************)

\* A frame that lasts at the time, and where a search goes from a frame.
Lasts(g, time) == spans[g].start <= time /\ time <= spans[g].end
Past(g, time)  == time > spans[g].end
Turn(g, time)  == IF Lasts(g, time) THEN g ELSE IF Past(g, time) THEN Forth(g) ELSE Rear(g)
ScrollOn(g, time) ==
  IF g \notin AllFrames \/ ScrollStep(g, time, AllFrames) = g THEN g
  ELSE ScrollStep(g, time, AllFrames)
ScrollFold(f, n, time) ==
  FoldLeft(LAMBDA g, k : IF g \notin AllFrames \/ ScrollStep(g, time, AllFrames) = g THEN g
                         ELSE ScrollStep(g, time, AllFrames),
           f, [k \in 1 .. n |-> k])
ScrollRun(g, f, n, time) ==
  /\ g[0] = f
  /\ \A i \in 1 .. n : g[i] = ScrollOn(g[i - 1], time)
  /\ ScrollFold(f, n, time) = g[n]

\* The times of the frames.
LEMMA SpanOrder ==
  ASSUME VectorsInv, NEW f \in 1 .. Len(lists)
  PROVE  /\ spans[f].start \in Int /\ spans[f].end \in Int /\ spans[f].start < spans[f].end
         /\ \A g \in 1 .. Len(lists) :
              f < g => spans[f].end <= spans[g].start /\ spans[f].start < spans[g].start
                       /\ spans[f].end < spans[g].end
<1>1. /\ spans \in Seq(SpanSet) /\ Len(spans) = Len(lists) /\ Span \in Nat \ {0}
      /\ Len(lists) \in Nat
  BY FramesAssumption DEF VectorsInv, SpansInv, InOrder, ChainsInv, FramesAssumption
<1>2. ASSUME NEW g \in 1 .. Len(lists)
      PROVE  /\ spans[g].start \in Int /\ spans[g].end \in Int
             /\ spans[g].end = spans[g].start + Span /\ spans[g].start < spans[g].end
  <2> DEFINE x == spans[g]
  <2>1. x \in SpanSet
    BY <1>1
  <2>2. x.end = x.start + Span
    BY <1>1 DEF VectorsInv, SpansInv, InOrder
  <2> HIDE DEF x
  <2>3. x.start \in Int /\ x.end \in Int
    BY ONLY <2>1 DEF SpanSet
  <2>4. x.start < x.end
    BY <1>1, <2>2, <2>3
  <2> QED
    BY <2>2, <2>3, <2>4 DEF x
<1>3. ASSUME NEW g \in 1 .. Len(lists), f < g
      PROVE  /\ spans[f].end <= spans[g].start /\ spans[f].start < spans[g].start
             /\ spans[f].end < spans[g].end
  <2>1. spans[f].end <= spans[g].start
    BY <1>1, <1>3 DEF VectorsInv, SpansInv, InOrder
  <2>2. /\ spans[f].start \in Int /\ spans[f].end \in Int /\ spans[f].start < spans[f].end
        /\ spans[g].start \in Int /\ spans[g].end \in Int /\ spans[g].start < spans[g].end
    BY <1>2
  <2> QED
    BY <2>1, <2>2
<1> QED
  BY <1>2, <1>3

\* A round of the search.
LEMMA ScrollOnIs ==
  ASSUME VectorsInv, NEW time \in Int, NEW g \in 0 .. Len(lists)
  PROVE  /\ ScrollOn(g, time) \in 0 .. Len(lists)
         /\ g = 0 => ScrollOn(g, time) = 0
         /\ g # 0 => ScrollOn(g, time) = Turn(g, time)
                     /\ (ScrollStep(g, time, AllFrames) = g <=> Lasts(g, time))
<1> DEFINE n == Len(lists)
           x == lists[g]
<1>1. n \in Nat /\ AllFrames = 1 .. n
  BY DEF VectorsInv, ChainsInv, AllFrames
<1>2. CASE g = 0
  <2>1. g \notin AllFrames
    BY <1>1, <1>2
  <2> QED
    BY <1>1, <1>2, <2>1 DEF ScrollOn
<1>3. CASE g # 0
  <2>1. g \in AllFrames /\ g \in 1 .. n /\ g \in Nat
    BY <1>1, <1>3
  <2>2. /\ Neighbour(g, TRUE) = Forth(g) /\ Neighbour(g, FALSE) = Rear(g)
        /\ Rear(g) = 0 \/ (Rear(g) \in 1 .. n /\ Rear(g) < g)
    BY <2>1, NeighbourIs
  <2>3. /\ Neighbour(g, TRUE) = IF x.second = <<>> THEN 0 ELSE x.second[1]
        /\ Neighbour(g, FALSE) = IF x.first = <<>> THEN 0 ELSE x.first[1]
    BY DEF Neighbour, BlankFrame
  <2>4. ScrollStep(g, time, AllFrames)
          = IF Lasts(g, time) THEN g
            ELSE IF Past(g, time) THEN (IF x.second = <<>> THEN 0 ELSE x.second[1])
            ELSE IF x.first = <<>> THEN 0 ELSE x.first[1]
    BY <2>1, Zenon DEF ScrollStep, Lasts, Past, BlankFrame
  <2> HIDE DEF x
  <2>5. ScrollStep(g, time, AllFrames) = Turn(g, time)
    BY <2>2, <2>3, <2>4 DEF Turn
  <2>6. /\ Forth(g) \in 0 .. n /\ Forth(g) # g
        /\ Rear(g) \in 0 .. n /\ Rear(g) # g
    BY <1>1, <2>1, <2>2 DEF Forth
  <2>7. Turn(g, time) \in 0 .. n /\ (Turn(g, time) = g <=> Lasts(g, time))
    BY <2>1, <2>6 DEF Turn
  <2>8. ScrollOn(g, time) = Turn(g, time)
    BY <2>1, <2>5, Zenon DEF ScrollOn
  <2> QED
    BY <1>3, <2>5, <2>7, <2>8
<1> QED
  BY <1>2, <1>3

\* A search for a moment goes round after round.
LEMMA ScrollFoldFollows ==
  ASSUME VectorsInv, NEW n \in Nat, NEW f \in 1 .. Len(lists), NEW time \in Int
  PROVE  \E g \in [0 .. n -> 0 .. Len(lists)] : ScrollRun(g, f, n, time)
<1> DEFINE A == 0 .. Len(lists)
           seq == [k \in 1 .. n |-> k]
           S == DOMAIN seq
           a == f
           D == [i \in 1 .. n |-> [x \in A |-> ScrollOn(x, time)]]
           Eq(h) == h = [r \in SUBSET S |->
                           IF r = {} THEN a ELSE ScrollOn(h[r \ {Max(r)}], time)]
           it == CHOOSE h : Eq(h)
<1>1. ScrollFold(f, n, time) = it[S]
  BY DEF ScrollFold, FoldLeft, MapThenFoldSet, ScrollOn
<1>2. S = 1 .. n
  OBVIOUS
<1> HIDE DEF seq
<1>3. n \in Nat /\ a \in A /\ D \in [1 .. n -> [A -> A]]
  <2>1. ASSUME NEW x \in A
        PROVE  ScrollOn(x, time) \in A
    BY ScrollOnIs
  <2>2. a \in A
    BY DEF VectorsInv, ChainsInv
  <2> HIDE DEF A
  <2> QED
    BY <2>1, <2>2
<1>4. \A i \in 1 .. n : \A x \in A : D[i][x] = ScrollOn(x, time)
  OBVIOUS
<1> HIDE DEF A, D, a
<1>5. PICK h \in [SUBSET (1 .. n) -> A] :
        /\ Folded(h, n, a, D)
        /\ \A r \in SUBSET (1 .. n) : r # {} => Max(r) \in 1 .. n /\ h[r \ {Max(r)}] \in A
  BY <1>3, FoldExists
<1>6. Eq(h)
  <2>1. ASSUME NEW r \in SUBSET (1 .. n)
        PROVE  h[r] = IF r = {} THEN a ELSE ScrollOn(h[r \ {Max(r)}], time)
    <3>1. h[r] = IF r = {} THEN a ELSE D[Max(r)][h[r \ {Max(r)}]]
      BY <1>5 DEF Folded
    <3>2. CASE r = {}
      BY <3>1, <3>2
    <3>3. CASE r # {}
      <4> DEFINE x == h[r \ {Max(r)}]
                 i == Max(r)
      <4>1. h[r] = D[i][x] /\ x \in A /\ i \in 1 .. n
        BY <1>5, <3>1, <3>3
      <4> HIDE DEF x, i
      <4>2. h[r] = ScrollOn(x, time)
        BY <1>4, <4>1
      <4> QED
        BY <3>3, <4>2 DEF x
    <3> QED
      BY <3>2, <3>3
  <2> QED
    BY <1>2, <2>1
<1>7. Eq(it)
  <2> HIDE DEF Eq
  <2> QED
    BY <1>6
<1>8. \A r \in SUBSET (1 .. n) : it[r] = IF r = {} THEN a ELSE ScrollOn(it[r \ {Max(r)}], time)
  BY <1>2, <1>7
<1> HIDE DEF it
<1>9. Stepwise(it, n, A, a, D)
  <2>1. it[{}] = a
    BY <1>8
  <2>2. ASSUME NEW j \in 1 .. n, it[1 .. j - 1] \in A
        PROVE  it[1 .. j] = D[j][it[1 .. j - 1]]
    <3> DEFINE r == 1 .. j
               y == it[r \ {Max(r)}]
    <3>1. r \in SUBSET (1 .. n) /\ r # {} /\ Max(r) = j /\ r \ {j} = 1 .. j - 1
      BY IntervalPart
    <3> HIDE DEF r
    <3>2. it[r] = ScrollOn(y, time)
      BY <1>8, <3>1
    <3>3. y = it[1 .. j - 1]
      BY <3>1
    <3> HIDE DEF y
    <3> QED
      BY <1>4, <2>2, <3>2, <3>3 DEF r
  <2> QED
    BY <2>1, <2>2 DEF Stepwise
<1>10. PICK g \in [0 .. n -> A] : LeadsTo(g, n, a, D, it)
  BY ONLY <1>3, <1>9, FoldFollows
<1>11. ASSUME NEW i \in 1 .. n
       PROVE  g[i] = ScrollOn(g[i - 1], time)
  <2>1. g[i - 1] \in A /\ g[i] = D[i][g[i - 1]]
    BY <1>10 DEF LeadsTo, Follows
  <2> QED
    BY <1>4, <2>1
<1>12. g[0] = a /\ ScrollFold(f, n, time) = g[n]
  BY <1>1, <1>2, <1>10 DEF LeadsTo, Follows
<1> QED
  BY <1>11, <1>12 DEF a, A, ScrollRun

\* A search that is not to get lost: behind the frames whose time is over there
\* is t, and in front of a first frame whose time has not come t is not.
Within(t, time) ==
  \A g \in 1 .. Len(lists) :
    /\ Past(g, time) => g < t
    /\ (~ Lasts(g, time) /\ ~ Past(g, time) /\ g = First(g)) => ~ (InBatch(g) <= InBatch(t))

\* A round from a frame g ahead of f leads to a frame ahead of f, or nowhere.
LEMMA RoundAhead ==
  ASSUME VectorsInv, NEW time \in Int, NEW f \in 1 .. Len(lists), NEW g \in 1 .. Len(lists),
         InBatch(f) <= InBatch(g)
  PROVE  LET r == ScrollOn(g, time)
         IN  /\ r # 0 => r \in 1 .. Len(lists) /\ InBatch(f) <= InBatch(r)
             /\ \A t \in 1 .. Len(lists) :
                  Within(t, time) /\ InBatch(g) <= InBatch(t) =>
                    r # 0 /\ InBatch(r) <= InBatch(t)
<1> DEFINE n == Len(lists)
           r == ScrollOn(g, time)
<1>1. n \in Nat /\ BatchesInv
  BY DEF VectorsInv, ChainsInv
<1>2. g \in 0 .. n /\ g # 0 /\ g \in Nat
  BY <1>1
<1>3. r \in 0 .. n /\ r = Turn(g, time)
  BY <1>2, ScrollOnIs
<1>4. \A x \in 1 .. n : InBatch(x) \in Nat
  <2>1. Len(batches) \in Nat
    BY <1>1, LastFrame
  <2>2. \A x \in 1 .. n : InBatch(x) \in 1 .. Len(batches)
    BY <1>1, FrameBatch
  <2> QED
    BY <2>1, <2>2
<1>5. r # 0 => r \in 1 .. n
  BY <1>1, <1>3
<1> HIDE DEF r, n
<1>6. CASE Lasts(g, time)
  <2>1. r = g
    BY <1>3, <1>6 DEF Turn
  <2> QED
    BY <1>2, <2>1 DEF r, n
<1>7. CASE ~ Lasts(g, time) /\ Past(g, time)
  <2>1. r = IF g = n THEN 0 ELSE g + 1
    BY <1>3, <1>7 DEF Turn, Forth, n
  <2>2. g + 1 \in 1 .. n => InBatch(g) <= InBatch(g + 1)
    <3>1. g <= g + 1 /\ g \in 1 .. n
      BY <1>2 DEF n
    <3> QED
      BY <1>1, <3>1, BatchOrder DEF n
  <2>3. r # 0 => r \in 1 .. n /\ InBatch(f) <= InBatch(r)
    <3> SUFFICES ASSUME r # 0 PROVE r \in 1 .. n /\ InBatch(f) <= InBatch(r)
      OBVIOUS
    <3>1. r = g + 1 /\ r \in 1 .. n
      BY <1>5, <2>1
    <3>2. InBatch(f) <= InBatch(g) /\ InBatch(g) <= InBatch(r)
      BY <2>2, <3>1
    <3>3. InBatch(f) \in Nat /\ InBatch(g) \in Nat /\ InBatch(r) \in Nat
      BY <1>4, <3>1 DEF n
    <3> QED
      BY <3>1, <3>2, <3>3
  <2>4. ASSUME NEW t \in 1 .. n, Within(t, time)
        PROVE  r # 0 /\ InBatch(r) <= InBatch(t)
    <3>1. g < t
      BY <1>7, <2>4 DEF Within, n
    <3>2. g # n /\ r = g + 1 /\ r <= t /\ r \in 1 .. n /\ r # 0
      BY <1>1, <1>2, <2>1, <3>1
    <3> QED
      BY <1>1, <3>2, BatchOrder DEF n
  <2> QED
    BY <2>3, <2>4 DEF r, n
<1>8. CASE ~ Lasts(g, time) /\ ~ Past(g, time)
  <2>1. r = Rear(g)
    BY <1>3, <1>8 DEF Turn
  <2>2. r # 0 => r \in 1 .. n /\ First(r) = First(g)
    BY <2>1, NeighbourIs DEF n
  <2>3. r # 0 => r \in 1 .. n /\ InBatch(r) = InBatch(g)
    BY <1>1, <2>2, BatchOrder DEF n
  <2>4. ASSUME NEW t \in 1 .. n, Within(t, time), InBatch(g) <= InBatch(t)
        PROVE  r # 0
    <3>1. g # First(g)
      BY <1>8, <2>4, Zenon DEF Within, n
    <3>2. r = Back(g, First(g))
      BY <2>1, <3>1 DEF Rear
    <3>3. First(g) \in 1 .. n /\ First(g) <= g
      BY <1>1, BatchOrder DEF n
    <3>4. Depth \in Nat
      BY FramesAssumption DEF FramesAssumption
    <3> DEFINE q == First(g)
    <3>5. r = IF g - Depth > q THEN g - Depth ELSE q
      BY <3>2 DEF Back
    <3> HIDE DEF q
    <3> QED
      BY <1>1, <1>2, <3>3, <3>4, <3>5 DEF q
  <2> QED
    BY <2>3, <2>4 DEF r, n
<1> QED
  BY <1>6, <1>7, <1>8

\* A search is never lost then; and where it is, is ahead of where it began.
LEMMA ScrollAhead ==
  ASSUME VectorsInv, NEW time \in Int, NEW f \in 1 .. Len(lists), NEW n \in Nat,
         NEW g \in [0 .. n -> 0 .. Len(lists)], ScrollRun(g, f, n, time),
         NEW t \in 1 .. Len(lists), NEW i \in 0 .. n
  PROVE  /\ g[i] # 0 => InBatch(f) <= InBatch(g[i])
         /\ Within(t, time) /\ InBatch(f) <= InBatch(t) =>
              g[i] # 0 /\ InBatch(g[i]) <= InBatch(t)
<1> DEFINE m == Len(lists)
           Sure == Within(t, time) /\ InBatch(f) <= InBatch(t)
           T == {j \in 0 .. n : /\ g[j] # 0 => InBatch(f) <= InBatch(g[j])
                                /\ Sure => g[j] # 0 /\ InBatch(g[j]) <= InBatch(t)}
<1>1. /\ g[0] = f /\ \A j \in 1 .. n : g[j] = ScrollOn(g[j - 1], time)
      /\ m \in Nat /\ BatchesInv
  BY DEF ScrollRun, VectorsInv, ChainsInv
<1>2. 0 \in T
  <2>1. InBatch(f) <= InBatch(f) /\ f # 0
    BY <1>1, BatchOrder
  <2> QED
    BY <1>1, <2>1
<1>3. ASSUME NEW j \in 0 .. n - 1, j \in T
      PROVE  j + 1 \in T
  <2>1. j + 1 \in 1 .. n /\ (j + 1) - 1 = j /\ j + 1 \in 0 .. n /\ j \in 0 .. n
    OBVIOUS
  <2> DEFINE x == g[j]
             y == ScrollOn(x, time)
  <2>2. g[j + 1] = y /\ x \in 0 .. m
    BY <1>1, <2>1
  <2>3. /\ x # 0 => InBatch(f) <= InBatch(x)
        /\ Sure => x # 0 /\ InBatch(x) <= InBatch(t)
    BY <1>3
  <2> HIDE DEF x, Sure
  <2>4. CASE x = 0
    <3>1. y = 0
      BY <2>2, <2>4, ScrollOnIs
    <3> QED
      BY <2>1, <2>2, <2>3, <2>4, <3>1
  <2>5. CASE x # 0
    <3>1. x \in 1 .. m
      BY <1>1, <2>2, <2>5
    <3>2. /\ y # 0 => InBatch(f) <= InBatch(y)
          /\ Within(t, time) /\ InBatch(x) <= InBatch(t) =>
               y # 0 /\ InBatch(y) <= InBatch(t)
      BY <2>3, <2>5, <3>1, RoundAhead
    <3>3. Sure => y # 0 /\ InBatch(y) <= InBatch(t)
      BY <2>3, <3>2 DEF Sure
    <3> HIDE DEF y
    <3> QED
      BY <2>1, <2>2, <3>2, <3>3
  <2> QED
    BY <2>4, <2>5
<1> HIDE DEF T
<1>4. 0 .. n \subseteq T
  BY <1>2, <1>3, BoundedInduction
<1>5. i \in T
  BY <1>4
<1> QED
  BY <1>5 DEF T

\* The frames from the batch of f on, and a time between two of one batch.
AheadOf(f) == {g \in AllFrames : InBatch(g) >= InBatch(f)}
GapAt(g, f, time) ==
  /\ g - 1 \in AheadOf(f) /\ InBatch(g) = InBatch(g - 1)
  /\ spans[g - 1].end < time /\ time < spans[g].start
Gap(f, time) == \E g \in AheadOf(f) : GapAt(g, f, time)

\* How many rounds are left before the search ends.
Left(g, time) ==
  IF g = 0 \/ Lasts(g, time) THEN 0
  ELSE IF Past(g, time) THEN Len(lists) - g + 1
  ELSE IF g = First(g) THEN 1 ELSE Len(lists) + g

\* One less after a round, when the time is in no gap.
LEMMA LeftFalls ==
  ASSUME VectorsInv, NEW time \in Int, NEW f \in 1 .. Len(lists), NEW g \in 1 .. Len(lists),
         InBatch(f) <= InBatch(g), ~ Gap(f, time), ~ Lasts(g, time)
  PROVE  Left(ScrollOn(g, time), time) \in Nat /\ Left(ScrollOn(g, time), time) < Left(g, time)
<1> DEFINE n == Len(lists)
           r == ScrollOn(g, time)
<1>1. n \in Nat /\ BatchesInv /\ AllFrames = 1 .. n
  BY DEF VectorsInv, ChainsInv, AllFrames
<1>2. g \in 1 .. n /\ g \in 0 .. n /\ g # 0 /\ g \in Nat /\ g <= n /\ g >= 1
  BY <1>1
<1>3. r \in 0 .. n /\ r = Turn(g, time)
  BY <1>2, ScrollOnIs
<1>4. Left(r, time) = IF r = 0 \/ Lasts(r, time) THEN 0
                      ELSE IF Past(r, time) THEN n - r + 1
                      ELSE IF r = First(r) THEN 1 ELSE n + r
  BY DEF Left
<1>5. Left(g, time) = IF Past(g, time) THEN n - g + 1
                      ELSE IF g = First(g) THEN 1 ELSE n + g
  BY <1>2 DEF Left
<1> HIDE DEF r, n
<1>6. CASE Past(g, time)
  <2>1. r = IF g = n THEN 0 ELSE g + 1
    BY <1>3, <1>6 DEF Turn, Forth, n
  <2>2. Left(g, time) = n - g + 1 /\ n - g + 1 >= 1 /\ n - g + 1 \in Nat
    BY <1>1, <1>2, <1>5, <1>6
  <2>3. CASE r = 0 \/ Lasts(r, time)
    <3>1. Left(r, time) = 0
      BY <1>4, <2>3
    <3> QED
      BY <2>2, <3>1 DEF r
  <2>4. CASE r # 0 /\ ~ Lasts(r, time)
    <3>1. r = g + 1 /\ g # n /\ r \in 1 .. n /\ n - r + 1 \in Nat /\ n - r + 1 < n - g + 1
          /\ 1 < n - g + 1
      BY <1>1, <1>2, <1>3, <2>1, <2>4
    <3>2. Left(r, time) = IF Past(r, time) THEN n - r + 1
                          ELSE IF r = First(r) THEN 1 ELSE n + r
      BY <1>4, <2>4
    <3>3. CASE Past(r, time)
      <4>1. Left(r, time) = n - r + 1
        BY <3>2, <3>3
      <4> QED
        BY <2>2, <3>1, <4>1 DEF r
    <3>4. CASE ~ Past(r, time)
      <4>1. time < spans[r].start /\ spans[g].end < time
        <5>1. /\ spans[r].start \in Int /\ spans[r].end \in Int
              /\ spans[g].end \in Int
          BY <1>2, <3>1, SpanOrder DEF n
        <5> QED
          BY <1>6, <2>4, <3>4, <5>1 DEF Lasts, Past
      <4>2. InBatch(g) \in Nat /\ InBatch(r) \in Nat /\ InBatch(f) \in Nat
        <5>1. Len(batches) \in Nat
          BY <1>1, LastFrame
        <5>2. \A x \in 1 .. n : InBatch(x) \in 1 .. Len(batches)
          BY <1>1, FrameBatch DEF n
        <5>3. g \in 1 .. n /\ r \in 1 .. n /\ f \in 1 .. n
          BY <1>2, <3>1 DEF n
        <5> QED
          BY <5>1, <5>2, <5>3
      <4>3. InBatch(g) <= InBatch(r)
        <5>1. g <= r
          BY <1>2, <3>1
        <5> QED
          BY <1>1, <1>2, <3>1, <5>1, BatchOrder DEF n
      <4>4. InBatch(g) # InBatch(r)
        <5> SUFFICES ASSUME InBatch(g) = InBatch(r) PROVE FALSE
          OBVIOUS
        <5>1. r - 1 = g
          BY <1>2, <3>1
        <5>2. InBatch(r) >= InBatch(f) /\ InBatch(g) >= InBatch(f)
          BY <4>2
        <5>3. r \in AheadOf(f) /\ r - 1 \in AheadOf(f)
          BY <1>1, <1>2, <3>1, <5>1, <5>2 DEF AheadOf
        <5>4. GapAt(r, f, time)
          BY <4>1, <5>1, <5>3 DEF GapAt
        <5> QED
          BY <5>3, <5>4 DEF Gap
      <4>5. r = First(r)
        <5>1. First(r) <= r /\ First(r) \in 1 .. n
          BY <1>1, <3>1, BatchOrder DEF n
        <5>2. ~ (InBatch(r) <= InBatch(g))
          BY <4>2, <4>3, <4>4
        <5>3. ~ (First(r) <= g)
          BY <1>1, <1>2, <3>1, <5>2, BatchOrder DEF n
        <5> QED
          BY <1>1, <1>2, <3>1, <5>1, <5>3
      <4>6. Left(r, time) = 1
        BY <3>2, <3>4, <4>5
      <4> QED
        BY <2>2, <3>1, <4>6 DEF r
    <3> QED
      BY <3>3, <3>4
  <2> QED
    BY <2>3, <2>4
<1>7. CASE ~ Past(g, time)
  <2>1. r = Rear(g)
    BY <1>3, <1>7 DEF Turn
  <2>2. CASE g = First(g)
    <3>1. r = 0
      BY <2>1, <2>2 DEF Rear
    <3>2. Left(r, time) = 0 /\ Left(g, time) = 1
      BY <1>4, <1>5, <1>7, <2>2, <3>1
    <3> QED
      BY <3>2 DEF r
  <2>3. CASE g # First(g)
    <3>1. Left(g, time) = n + g
      BY <1>5, <1>7, <2>3
    <3>2. r = 0 \/ (r \in 1 .. n /\ r < g)
      BY <1>2, <2>1, NeighbourIs DEF n
    <3>3. Left(r, time) \in {0, 1, n - r + 1, n + r} /\ (r = 0 => Left(r, time) = 0)
      BY <1>4
    <3>4. CASE r = 0
      BY <1>1, <1>2, <3>1, <3>3, <3>4 DEF r
    <3>5. CASE r \in 1 .. n /\ r < g
      <4>1. /\ \A x \in {0, 1, n - r + 1, n + r} : x \in Nat /\ x < n + g
        BY <1>1, <1>2, <3>5
      <4> QED
        BY <3>1, <3>3, <4>1 DEF r
    <3> QED
      BY <3>2, <3>4, <3>5
  <2> QED
    BY <2>2, <2>3
<1> QED
  BY <1>6, <1>7

\* The search ends, after twice as many rounds as there are frames.
LEMMA ScrollEnds ==
  ASSUME VectorsInv, NEW time \in Int, NEW f \in 1 .. Len(lists), ~ Gap(f, time),
         NEW n, n = 2 * Len(lists),
         NEW g \in [0 .. n -> 0 .. Len(lists)], ScrollRun(g, f, n, time)
  PROVE  g[n] = 0 \/ Lasts(g[n], time)
<1> DEFINE m == Len(lists)
           Done(x) == x = 0 \/ Lasts(x, time)
           T == {j \in 0 .. n : /\ Left(g[j], time) \in Nat
                                /\ Done(g[j]) \/ Left(g[j], time) <= n - j}
<1>1. /\ g[0] = f /\ \A j \in 1 .. n : g[j] = ScrollOn(g[j - 1], time)
      /\ m \in Nat /\ n \in Nat /\ f \in Nat /\ f <= m /\ f >= 1 /\ n = m + m
  BY DEF ScrollRun, VectorsInv, ChainsInv
<1>2. \A x : Done(x) => Left(x, time) = 0
  BY DEF Left
<1>3. \A x \in 1 .. m : Left(x, time) \in {0, 1, m - x + 1, m + x}
  BY DEF Left
<1>4. \A x \in 1 .. m : ~ Done(x) => Left(x, time) # 0
  <2> SUFFICES ASSUME NEW x \in 1 .. m, ~ Done(x) PROVE Left(x, time) # 0
    OBVIOUS
  <2>1. Left(x, time) \in {1, m - x + 1, m + x}
    BY DEF Left
  <2>2. \A y \in {1, m - x + 1, m + x} : y # 0
    BY <1>1
  <2> QED
    BY <2>1, <2>2
<1> HIDE DEF Done
<1>5. 0 \in T
  <2>1. Left(f, time) \in {0, 1, m - f + 1, m + f}
    BY <1>3
  <2>2. \A y \in {0, 1, m - f + 1, m + f} : y \in Nat /\ y <= n - 0
    BY <1>1
  <2> QED
    BY <1>1, <2>1, <2>2
<1>6. ASSUME NEW j \in 0 .. n - 1, j \in T
      PROVE  j + 1 \in T
  <2>1. /\ j + 1 \in 1 .. n /\ (j + 1) - 1 = j /\ j + 1 \in 0 .. n /\ j \in 0 .. n /\ j \in Nat
    OBVIOUS
  <2> DEFINE x == g[j]
             y == ScrollOn(x, time)
  <2>2. g[j + 1] = y /\ x \in 0 .. m
    BY <1>1, <2>1
  <2>3. Left(x, time) \in Nat /\ (Done(x) \/ Left(x, time) <= n - j)
    BY <1>6
  <2>4. x # 0 => InBatch(f) <= InBatch(x)
    <3>1. n \in Nat /\ f \in 1 .. m
      BY <1>1
    <3> QED
      BY <2>1, <3>1, ScrollAhead
  <2> HIDE DEF x
  <2>5. CASE Done(x)
    <3>1. y = x
      <4>1. CASE x = 0
        BY <2>2, <4>1, ScrollOnIs
      <4>2. CASE x # 0
        <5>1. Lasts(x, time)
          BY <2>5, <4>2 DEF Done
        <5> QED
          BY <2>2, <4>2, <5>1, ScrollOnIs DEF Turn
      <4> QED
        BY <4>1, <4>2
    <3> HIDE DEF y
    <3> QED
      BY <2>1, <2>2, <2>3, <2>5, <3>1
  <2>6. CASE ~ Done(x)
    <3>1. x \in 1 .. m /\ x # 0 /\ ~ Lasts(x, time)
      BY <1>1, <2>2, <2>6 DEF Done
    <3>2. Left(y, time) \in Nat /\ Left(y, time) < Left(x, time)
      BY <2>4, <3>1, LeftFalls
    <3>3. Left(x, time) <= n - j
      BY <2>3, <2>6
    <3> HIDE DEF y
    <3>4. Left(y, time) <= n - (j + 1)
      BY <1>1, <2>1, <2>3, <3>2, <3>3
    <3> QED
      BY <2>1, <2>2, <3>2, <3>4
  <2> QED
    BY <2>5, <2>6
<1> HIDE DEF T
<1>7. 0 .. n \subseteq T
  BY <1>1, <1>5, <1>6, BoundedInduction
<1>8. n \in T /\ n \in 0 .. n
  BY <1>1, <1>7
<1>9. Left(g[n], time) \in Nat /\ (Done(g[n]) \/ Left(g[n], time) <= n - n)
  BY <1>8 DEF T
<1>10. Done(g[n])
  <2> SUFFICES ASSUME ~ Done(g[n]) PROVE FALSE
    OBVIOUS
  <2>1. Left(g[n], time) = 0
    BY <1>1, <1>9
  <2>2. g[n] \in 0 .. m /\ g[n] # 0
    BY <1>8 DEF Done
  <2>3. g[n] \in 1 .. m
    BY <1>1, <2>2
  <2> QED
    BY <1>4, <2>1, <2>3
<1> QED
  BY <1>10 DEF Done

\* A frame that lasts at the time, and one behind a gap, are not to be missed.
LEMMA WithinLasting ==
  ASSUME VectorsInv, NEW time \in Int, NEW t \in 1 .. Len(lists), Lasts(t, time)
  PROVE  Within(t, time)
<1>1. BatchesInv
  BY DEF VectorsInv
<1> SUFFICES ASSUME NEW g \in 1 .. Len(lists)
    PROVE  /\ Past(g, time) => g < t
           /\ (~ Lasts(g, time) /\ ~ Past(g, time) /\ g = First(g)) =>
                ~ (InBatch(g) <= InBatch(t))
  BY DEF Within
<1>2. /\ spans[g].start \in Int /\ spans[g].end \in Int /\ spans[t].start \in Int
      /\ spans[t].end \in Int /\ g \in Int /\ t \in Int
  BY SpanOrder
<1>3. t < g => spans[t].end < spans[g].end
  BY SpanOrder
<1>4. g < t => spans[g].start < spans[t].start
  BY SpanOrder
<1>5. Past(g, time) => g < t
  BY <1>2, <1>3 DEF Past, Lasts
<1>6. ~ Lasts(g, time) /\ ~ Past(g, time) => t < g
  BY <1>2, <1>4 DEF Past, Lasts
<1>7. (InBatch(g) <= InBatch(t)) <=> (First(g) <= t)
  BY <1>1, BatchOrder
<1>8. t < g /\ g = First(g) => ~ (First(g) <= t)
  BY <1>2
<1> QED
  BY <1>5, <1>6, <1>7, <1>8

LEMMA WithinGap ==
  ASSUME VectorsInv, NEW time \in Int, NEW f \in 1 .. Len(lists), NEW t \in AheadOf(f),
         GapAt(t, f, time)
  PROVE  /\ t \in 1 .. Len(lists) /\ InBatch(f) <= InBatch(t) /\ Within(t, time)
         /\ \A g \in 1 .. Len(lists) : ~ Lasts(g, time)
<1> DEFINE n == Len(lists)
<1>1. BatchesInv /\ n \in Nat /\ AllFrames = 1 .. n
  BY DEF VectorsInv, ChainsInv, AllFrames
<1>2. /\ t \in 1 .. n /\ t - 1 \in 1 .. n /\ InBatch(t) >= InBatch(f)
      /\ InBatch(t) = InBatch(t - 1) /\ spans[t - 1].end < time /\ time < spans[t].start
      /\ t \in Nat
  BY <1>1 DEF AheadOf, GapAt
<1>3. First(t) = First(t - 1) /\ First(t - 1) <= t - 1 /\ First(t) \in 1 .. n
  BY <1>1, <1>2, BatchOrder
<1>4. ASSUME NEW g \in 1 .. n
      PROVE  /\ ~ Lasts(g, time) /\ (Past(g, time) => g < t)
             /\ (~ Lasts(g, time) /\ ~ Past(g, time) /\ g = First(g)) =>
                  ~ (InBatch(g) <= InBatch(t))
  <2> DEFINE s == t - 1
  <2>1. /\ spans[g].start \in Int /\ spans[g].end \in Int /\ spans[t].start \in Int
        /\ spans[t].end \in Int /\ spans[s].end \in Int /\ g \in Nat /\ s \in Nat
        /\ spans[g].start < spans[g].end /\ spans[t].start < spans[t].end
    BY <1>1, <1>2, SpanOrder
  <2>2. t < g => spans[t].start < spans[g].start /\ spans[t].end < spans[g].end
    BY <1>2, SpanOrder
  <2>3. g < s => spans[g].end < spans[s].end
    BY <1>2, SpanOrder
  <2>4. (g < s \/ g = s) \/ (g = t \/ t < g)
    BY <1>2, <2>1
  <2>5. g < s \/ g = s => spans[g].end < time /\ g < t
    BY <1>2, <2>1, <2>3
  <2>6. g = t \/ t < g => time < spans[g].start
    BY <1>2, <2>1, <2>2
  <2>7. ~ Lasts(g, time) /\ (Past(g, time) => g < t)
    BY <1>2, <2>1, <2>4, <2>5, <2>6 DEF Lasts, Past
  <2>8. ~ Past(g, time) => t <= g
    BY <1>2, <2>1, <2>4, <2>5 DEF Past
  <2>9. (InBatch(g) <= InBatch(t)) <=> (First(g) <= t)
    BY <1>1, <1>2, BatchOrder
  <2>10. ASSUME t <= g, g = First(g), InBatch(g) <= InBatch(t)
         PROVE  FALSE
    <3>1. First(g) <= t
      BY <2>9, <2>10
    <3>2. g = t
      BY <1>2, <2>1, <2>10, <3>1
    <3>3. First(t) = t
      BY <2>10, <3>2
    <3> QED
      BY <1>2, <1>3, <3>3
  <2> QED
    BY <2>7, <2>8, <2>10
<1>5. Within(t, time)
  BY <1>4 DEF Within
<1>6. InBatch(f) <= InBatch(t)
  <2>1. Len(batches) \in Nat
    BY <1>1, LastFrame
  <2>2. InBatch(f) \in 1 .. Len(batches) /\ InBatch(t) \in 1 .. Len(batches)
    BY <1>1, <1>2, FrameBatch
  <2> QED
    BY <1>2, <2>1, <2>2
<1> QED
  BY <1>2, <1>4, <1>5, <1>6

\* The search finds what ScrollFinds says.
LEMMA SearchFinds ==
  ASSUME VectorsInv
  PROVE  ScrollFinds
<1> DEFINE m == Len(lists)
<1>1. BatchesInv /\ m \in Nat \ {0} /\ AllFrames = 1 .. m /\ spans \in Seq(SpanSet)
      /\ Len(spans) = m
  BY DEF VectorsInv, ChainsInv, SpansInv, InOrder, AllFrames
<1>2. Last(spans).end \in Int
  <2>1. m \in 1 .. m /\ Last(spans) = spans[m]
    BY <1>1 DEF Last
  <2> QED
    BY <2>1, SpanOrder
<1> SUFFICES ASSUME NEW f \in 1 .. m, NEW time \in 0 .. (Last(spans).end + 1)
    PROVE  LET result == ScrollToTime(f, time, AllFrames)
               there  == {g \in AheadOf(f) : Lasts(g, time)}
           IN  IF there # {} THEN result \in there
               ELSE result = IF Gap(f, time) THEN Forever ELSE BlankFrame
  BY <1>1, Zenon DEF ScrollFinds, AheadOf, Lasts, Gap, GapAt
<1> DEFINE n == 2 * m
           e == ScrollFold(f, n, time)
           there == {g \in AheadOf(f) : Lasts(g, time)}
           result == ScrollToTime(f, time, AllFrames)
<1>3. time \in Int /\ n \in Nat /\ n \in 0 .. n
  BY <1>1, <1>2
<1>4. result = IF e \notin AllFrames THEN BlankFrame
               ELSE IF e \notin AllFrames \/ ScrollStep(e, time, AllFrames) = e THEN e
               ELSE Forever
  BY Zenon DEF ScrollToTime, ScrollFold
<1>5. PICK g \in [0 .. n -> 0 .. m] : ScrollRun(g, f, n, time)
  BY <1>3, ScrollFoldFollows
<1>6. e = g[n] /\ e \in 0 .. m
  BY <1>3, <1>5 DEF ScrollRun
<1>7. e # 0 => (ScrollStep(e, time, AllFrames) = e <=> Lasts(e, time))
  BY <1>3, <1>6, ScrollOnIs
<1> HIDE DEF e
<1>8. result = IF e = 0 THEN BlankFrame ELSE IF Lasts(e, time) THEN e ELSE Forever
  <2>1. (e \notin AllFrames) <=> (e = 0)
    BY <1>1, <1>6
  <2> HIDE DEF result
  <2> QED
    BY <1>4, <1>7, <2>1
<1>9. \A x \in 1 .. m : InBatch(x) \in Nat
  <2>1. Len(batches) \in Nat
    BY <1>1, LastFrame
  <2>2. \A x \in 1 .. m : InBatch(x) \in 1 .. Len(batches)
    BY <1>1, FrameBatch
  <2> QED
    BY <2>1, <2>2
<1>10. e # 0 => e \in AheadOf(f)
  <2> SUFFICES ASSUME e # 0 PROVE e \in AheadOf(f)
    OBVIOUS
  <2>1. InBatch(f) <= InBatch(e)
    BY <1>3, <1>5, <1>6, ScrollAhead
  <2>2. e \in 1 .. m
    BY <1>1, <1>6
  <2>3. InBatch(e) >= InBatch(f)
    BY <1>9, <2>1, <2>2
  <2> QED
    BY <1>1, <2>2, <2>3 DEF AheadOf
<1>11. ASSUME NEW t \in 1 .. m, Within(t, time), InBatch(f) <= InBatch(t)
       PROVE  e # 0
  BY <1>3, <1>5, <1>6, <1>11, ScrollAhead
<1>12. ASSUME Gap(f, time)
       PROVE  there = {} /\ result = Forever
  <2>1. PICK t \in AheadOf(f) : GapAt(t, f, time)
    BY <1>12 DEF Gap
  <2>2. /\ t \in 1 .. m /\ InBatch(f) <= InBatch(t) /\ Within(t, time)
        /\ \A x \in 1 .. m : ~ Lasts(x, time)
    BY <1>3, <2>1, WithinGap
  <2>3. e # 0 /\ e \in 1 .. m
    BY <1>1, <1>6, <1>11, <2>2
  <2>4. result = Forever
    BY <1>8, <2>2, <2>3
  <2>5. there = {}
    BY <1>1, <2>2 DEF AheadOf
  <2> QED
    BY <2>4, <2>5
<1>13. ASSUME ~ Gap(f, time)
       PROVE  e = 0 \/ Lasts(e, time)
  BY <1>3, <1>5, <1>6, <1>13, ScrollEnds
<1>14. ASSUME there # {}
       PROVE  result \in there
  <2>1. PICK t \in AheadOf(f) : Lasts(t, time)
    BY <1>14
  <2>2. t \in 1 .. m /\ InBatch(t) >= InBatch(f)
    BY <1>1 DEF AheadOf
  <2>3. InBatch(f) <= InBatch(t) /\ Within(t, time)
    BY <1>3, <1>9, <2>1, <2>2, WithinLasting
  <2>4. e # 0
    BY <1>11, <2>2, <2>3
  <2>5. ~ Gap(f, time)
    BY <1>12, <1>14
  <2>6. Lasts(e, time)
    BY <1>13, <2>4, <2>5
  <2>7. result = e
    BY <1>8, <2>4, <2>6
  <2> QED
    BY <1>10, <2>4, <2>6, <2>7
<1>15. ASSUME there = {}, ~ Gap(f, time)
       PROVE  result = BlankFrame
  <2>1. e = 0
    BY <1>10, <1>13, <1>15
  <2> QED
    BY <1>8, <2>1
<1> HIDE DEF result, there
<1>16. IF there # {} THEN result \in there
       ELSE result = IF Gap(f, time) THEN Forever ELSE BlankFrame
  BY <1>12, <1>14, <1>15
<1> QED
  BY <1>16 DEF result, there

\* In every behaviour, looking for the frame of a moment finds one that lasts
\* then if the batch the search begins in or a later one has one; it never ends
\* exactly when the moment is between two frames of one such batch, and finds
\* nothing otherwise (tv_frame_scroll_to_time).
THEOREM ScrollRight == FramesSpec => []ScrollFinds
<1>1. VectorsInv => ScrollFinds
  BY SearchFinds
<1> QED
  BY <1>1, FramesInOrder, PTL

=============================================================================

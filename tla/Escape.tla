------------------------------- MODULE Escape -------------------------------
(***************************************************************************)
(* escape.cpp: vectors of bytes as frames in a stream.  A frame is the     *)
(* escape character, four bytes of length in network byte order, and the   *)
(* vector with one more escape character before each run of them.          *)
(***************************************************************************)
EXTENDS Integers, Sequences, SequencesExt

CONSTANT EscapeChar
ASSUME EscapeAssumption == EscapeChar \in 0..255

HeaderSize == 5

\* NBO_32, for the lengths of vectors that fit in memory.
Bytes32(n)  == [i \in 1..4 |-> (n \div 256^(4 - i)) % 256]
Number32(s) == s[1] * 256^3 + s[2] * 256^2 + s[3] * 256 + s[4]

Drop(v, n) == SubSeq(v, n + 1, Len(v))

\* Positions at which a run of escape characters begins.
RunStart(v, i) == v[i] = EscapeChar /\ (i = 1 \/ v[i - 1] # EscapeChar)

\* The insertion loop: the first character of a run is doubled.
Escaped(v) ==
  FlattenSeq([i \in DOMAIN v |->
                IF RunStart(v, i) THEN <<EscapeChar, v[i]>> ELSE <<v[i]>>])

\* escape_vector
EscapeVector(v) ==
  <<EscapeChar>> \o Bytes32(Len(Escaped(v))) \o Escaped(v)

\* Mutant: every escape character is dropped, not one of each run.
UnescapedAll(p) == SelectSeq(p, LAMBDA b : b # EscapeChar)

\* The erasing loop: the first character of a run is dropped.
Unescaped(p) ==
  FlattenSeq([i \in DOMAIN p |->
                IF RunStart(p, i) THEN <<>> ELSE <<p[i]>>])

\* The ASSERT of unescape_vector fails: a frame does not begin with the escape
\* character.
Throws(v) == Len(v) > HeaderSize /\ v[1] # EscapeChar

\* Mutant: the length of the header is forgotten.
BodySizeShort(v) ==
  IF Len(v) <= HeaderSize \/ v[1] # EscapeChar THEN -1
  ELSE LET n == Number32(SubSeq(v, 2, HeaderSize))
       IN  IF n > Len(v) THEN -1
           ELSE IF n + HeaderSize > Len(v) THEN Len(v) - HeaderSize ELSE n

\* Mutant: a frame that ends where the vector ends counts as incomplete.
BodySizeStrict(v) ==
  IF Len(v) <= HeaderSize \/ v[1] # EscapeChar THEN -1
  ELSE LET n == Number32(SubSeq(v, 2, HeaderSize))
       IN  IF n + HeaderSize < Len(v) THEN n ELSE -1

\* The length of the body v begins with, -1 when the frame is not complete or
\* is none.  A vector of five bytes counts as incomplete, whatever it says.
BodySize(v) ==
  IF Len(v) <= HeaderSize \/ v[1] # EscapeChar THEN -1
  ELSE LET n == Number32(SubSeq(v, 2, HeaderSize))
       IN  IF n + HeaderSize <= Len(v) THEN n ELSE -1

\* unescape_vector: the vector, and the number of bytes its frame takes up.
UnescapeVector(v) ==
  LET n == BodySize(v)
  IN  IF n = -1 THEN [payload |-> <<>>, size |-> 0]
      ELSE [payload |-> Unescaped(SubSeq(v, HeaderSize + 1, HeaderSize + n)),
            size    |-> HeaderSize + n]

\* unescape_all_vectors: the vectors of the complete frames, those that are
\* not empty, and what follows, which Throws when it was not read to the end.
\* all[i] is the result from offset i on.
UnescapeAllVectors(v) ==
  LET all[i \in 0..Len(v)] ==
        LET one  == UnescapeVector(Drop(v, i))
            tail == all[i + one.size]
        IN  IF one.size = 0
            THEN [list |-> <<>>, rest |-> Drop(v, i)]
            ELSE [tail EXCEPT !.list =
                    (IF one.payload = <<>> THEN <<>> ELSE <<one.payload>>) \o @]
  IN  all[0]

=============================================================================

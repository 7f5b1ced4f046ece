---------------------------- MODULE Conversions ----------------------------
(***************************************************************************)
(* convert.cpp, math/numbers/, settings.cpp and tv/tv_meta.cpp: ids and    *)
(* bytes as text, text in pieces, numbers and their order, settings, and   *)
(* the comments of a channel or an item.  A character is a number: a       *)
(* hexadecimal digit is below HexBase, the others are negative.  A number  *)
(* is what get::raw_species makes of it, the low byte first.               *)
(***************************************************************************)
EXTENDS Integers, Sequences, SequencesExt

CONSTANTS HexBase,      \* 16
          UuidLength,   \* 8 bytes
          HashLength,   \* 32 bytes
          NumberLength, \* 8 bytes
          Questions,    \* what is converted: [op, in]
          Parameters,   \* names of comments, sequences of characters
          CommentValues,\* their values
          MaxComments   \* bound on the comments

ASSUME ConversionsAssumption ==
  /\ HexBase \in Nat \ {0, 1}
  /\ UuidLength \in Nat \ {0} /\ HashLength \in Nat \ {0} /\ NumberLength \in Nat \ {0}
  /\ \A p \in Parameters : Len(p) > 0

VARIABLES answer,       \* the last conversion: [op, in, out] (history)
          comments,     \* vorbis_comment, unescaped
          added         \* the last comment: [param, value, replace, old] (history)

conversionVars == <<answer, comments, added>>

Space == -1
Dash  == -2
Equal == -3
NoText == <<-9>>
None  == "none"         \* a setting that is not there: an exception
Never == "never"        \* the call does not return

ByteBase == HexBase * HexBase

-----------------------------------------------------------------------------
(* Bytes and ids as text.  All text is in network order, memory is not.    *)

ToHex(bytes) ==
  FlattenSeq([i \in DOMAIN bytes |->
                <<Reverse(bytes)[i] \div HexBase, Reverse(bytes)[i] % HexBase>>])

TrimFront(text) ==
  LET first == SelectInSeq(text, LAMBDA c : c # Space)
  IN  IF first = 0 THEN <<>> ELSE SubSeq(text, first, Len(text))
Trim(text) == Reverse(TrimFront(Reverse(TrimFront(text))))

\* A digit without a second one is left out.
FromHex(text) ==
  LET t == TrimFront(text)
      n == Len(t) \div 2
  IN  IF \E i \in 1..2 * n : t[i] < 0 THEN NoText
      ELSE Reverse([i \in 1..n |-> t[2 * i - 1] * HexBase + t[2 * i]])

\* Mutant: the number of the id is written as it lies in memory.
IdToHexFlat(id) ==
  ToHex(Reverse(id.uuid)) \o <<Dash>> \o ToHex(id.hash) \o <<Dash>> \o ToHex(<<id.type>>)

IdToHex(id) ==
  ToHex(id.uuid) \o <<Dash>> \o ToHex(id.hash) \o <<Dash>> \o ToHex(<<id.type>>)

\* What stands between the fields is not looked at.  (A hash that begins with
\* a space would be read past its end; no such text is asked.)  An exception
\* gives nothing.
IdFromHex(text) ==
  LET t    == Trim(text)
      u    == 2 * UuidLength
      h    == 2 * HashLength
      uuid == FromHex(SubSeq(t, 1, u))
      hash == FromHex(SubSeq(t, u + 2, u + 1 + h))
      type == FromHex(SubSeq(t, Len(t) - 1, Len(t)))
  IN  IF Len(t) # u + h + 4 THEN <<>>
      ELSE IF NoText \in {uuid, hash, type} \/ Len(uuid) # UuidLength THEN <<>>
      ELSE <<[uuid |-> uuid, hash |-> hash, type |-> type[1]]>>

\* vectorize_string_with_divider: every character of the divider divides.
Pieces(text, divider) ==
  FoldLeft(LAMBDA acc, c : IF c \in ToSet(divider) THEN Append(acc, <<>>)
                           ELSE [acc EXCEPT ![Len(acc)] = Append(@, c)],
           << <<>> >>, text)

\* newline_to_vector: what no newline ends is left out.
Lines(text, newline) == Front(Pieces(text, <<newline>>))

-----------------------------------------------------------------------------
(* Numbers (math_numbers.cpp, math_numbers_cmp.cpp).                       *)

LowFirst(n, k) == [i \in 1..k |-> (n \div ByteBase^(i - 1)) % ByteBase]
ValueOf(bytes) == FoldRight(LAMBDA b, acc : acc * ByteBase + b, bytes, 0)

\* create for whole numbers, signed ones too, and for others: [whole, part].
CreateWhole(n) ==
  [major |-> LowFirst(n % ByteBase^NumberLength, NumberLength), minor |-> <<>>]
CreateParts(n) ==
  [major |-> LowFirst(n[1], NumberLength), minor |-> LowFirst(n[2], NumberLength)]
Create(n) == IF Len(n) = 1 THEN CreateWhole(n[1]) ELSE CreateParts(n)

\* get::number: without a sign.
GetNumber(x) == <<ValueOf(x.major), ValueOf(x.minor)>>

ByteAt(bytes, i) == IF i <= Len(bytes) THEN bytes[i] ELSE 0
Order(a, b) == IF a > b THEN "greater" ELSE IF a < b THEN "less" ELSE "equal"

\* Mutant: the bytes of the whole part are compared from the low end.
MajorOrderLow(x, y) ==
  LET differ == {i \in 1..NumberLength : ByteAt(x, i) # ByteAt(y, i)}
  IN  IF differ = {} THEN "equal"
      ELSE LET i == CHOOSE k \in differ : \A j \in differ : k <= j
           IN  Order(ByteAt(x, i), ByteAt(y, i))

\* The whole parts from the high byte on.
MajorOrder(x, y) ==
  LET differ == {i \in 1..NumberLength : ByteAt(x, i) # ByteAt(y, i)}
  IN  IF differ = {} THEN "equal"
      ELSE LET i == CHOOSE k \in differ : \A j \in differ : k >= j
           IN  Order(ByteAt(x, i), ByteAt(y, i))

\* The other parts from the low byte on.  The condition of the loop compares
\* its counter with the outcome of a comparison: with no such part in y it ends
\* after as many rounds as x is the longer one (0 or 1), else never.
MinorOrder(x, y) ==
  LET rounds == IF Len(y) > 0 THEN NumberLength ELSE IF Len(x) > 0 THEN 1 ELSE 0
      differ == {i \in 1..rounds : ByteAt(x, i) # ByteAt(y, i)}
  IN  IF differ # {}
      THEN LET i == CHOOSE k \in differ : \A j \in differ : k <= j
           IN  Order(ByteAt(x, i), ByteAt(y, i))
      ELSE IF Len(y) > 0 THEN Never ELSE "equal"

\* greater_than, equal_to and less_than take the same way.
Compare(x, y) ==
  LET major == MajorOrder(x.major, y.major)
  IN  IF major = "equal" THEN MinorOrder(x.minor, y.minor) ELSE major

-----------------------------------------------------------------------------
(* Settings (settings.cpp): pairs of a name and a value.  A line of the    *)
(* file is a sequence of words, empty for a comment; an argument is a      *)
(* setting [name] or anything else [].                                     *)

SetSetting(settings, name, value) ==
  LET at == SelectInSeq(settings, LAMBDA s : s[1] = name)
  IN  IF at = 0 THEN Append(settings, <<name, value>>)
      ELSE [settings EXCEPT ![at] = <<name, value>>]

Word(line, i) == IF i <= Len(line) THEN line[i] ELSE ""

\* The arguments in pairs; the value of a setting is not looked at as one.
SetArgument(acc, arg) ==
  IF acc.name # "" THEN [name |-> "", all |-> SetSetting(acc.all, acc.name, arg.text)]
  ELSE IF arg.setting THEN [acc EXCEPT !.name = arg.text] ELSE acc

\* set_settings: without a file the arguments are not looked at either.
SetSettings(in) ==
  LET written == FoldLeft(LAMBDA acc, line : IF line = <<>> THEN acc
                             ELSE SetSetting(acc, line[1], Word(line, 3)),
                          <<>>, in.lines)
  IN  IF ~in.readable THEN <<>>
      ELSE FoldLeft(SetArgument, [name |-> "", all |-> written], in.args).all

GetSetting(settings, name) ==
  LET at == SelectInSeq(settings, LAMBDA s : s[1] = name)
  IN  IF at = 0 THEN None ELSE settings[at][2]

-----------------------------------------------------------------------------
(* Comments (tv_meta.cpp).                                                 *)

Begins(comment, param) ==
  Len(comment) >= Len(param) /\ SubSeq(comment, 1, Len(param)) = param

\* search_for_param: from the first equals sign on, which is included.
SearchForParam(all, param) ==
  LET found == SelectSeq(all, LAMBDA c : Begins(c, param))
      from(c) == SelectInSeq(c, LAMBDA ch : ch = Equal)
  IN  [i \in DOMAIN found |->
         IF from(found[i]) = 0 THEN <<>>
         ELSE SubSeq(found[i], from(found[i]), Len(found[i]))]

\* The loop of add_param takes from the i-th comment its i-th character, again
\* and again, as long as the comment begins with the parameter.
Erased[comment \in Seq(Int), param \in Seq(Int), i \in Nat] ==
  IF Begins(comment, param) /\ i <= Len(comment)
  THEN Erased[RemoveAt(comment, i), param, i] ELSE comment

Replaced(all, param) == [i \in DOMAIN all |-> Erased[all[i], param, i]]

-----------------------------------------------------------------------------
NoAnswer == [op |-> "none", in |-> <<>>, out |-> <<>>]

ConversionsInit ==
  /\ answer = NoAnswer /\ comments = <<>>
  /\ added = [param |-> <<>>, value |-> <<>>, replace |-> FALSE, old |-> <<>>]

\* One conversion in a run: none depends on another one.
Convert(q) ==
  /\ answer = NoAnswer
  /\ answer' = [op |-> q.op, in |-> q.in, out |->
       CASE q.op = "id"       -> IdFromHex(q.in.before \o IdToHex(q.in.id) \o q.in.behind)
         [] q.op = "text"     -> IdFromHex(q.in)
         [] q.op = "pieces"   -> Pieces(q.in.text, q.in.divider)
         [] q.op = "lines"    -> Lines(q.in.text, q.in.divider[1])
         [] q.op = "compare"  -> Compare(Create(q.in[1]), Create(q.in[2]))
         [] q.op = "number"   -> GetNumber(Create(q.in))
         [] q.op = "settings" -> SetSettings(q.in)]
  /\ UNCHANGED <<comments, added>>

\* add_param.  With as many comments as the parameter has characters, one more
\* to replace would be cut past its end: no such call is made.
AddParam(param, value, replace) ==
  LET kept == IF replace THEN Replaced(comments, param) ELSE comments
  IN  /\ Len(comments) < MaxComments
      /\ replace => \A i \in DOMAIN comments :
                      Begins(comments[i], param) => i <= Len(param)
      /\ comments' = Append(kept, param \o <<Equal>> \o value)
      /\ added' = [param |-> param, value |-> value, replace |-> replace, old |-> comments]
      /\ UNCHANGED answer

ConvertNext == \E q \in Questions : Convert(q)

CommentNext ==
  \E p \in Parameters, v \in CommentValues, replace \in BOOLEAN : AddParam(p, v, replace)

-----------------------------------------------------------------------------
\* Texts are read back: an id with spaces around it, pieces put together again,
\* settings of which an argument wins over the file, but none is found when the
\* file cannot be read (convert::array::id, vectorize_string_with_divider,
\* newline_to_vector, set_settings).
ConversionsReadBack ==
  LET in == answer.in
      joined(ps, d) == FoldLeft(LAMBDA acc, p : acc \o <<d>> \o p, <<>>, ps)
  IN  CASE answer.op = "id" -> answer.out = <<in.id>>
        [] answer.op = "text" /\ answer.out # <<>> ->
             \A i \in DOMAIN Trim(in) :
               i \notin {2 * UuidLength + 1, 2 * (UuidLength + HashLength) + 2} =>
                 IdToHex(answer.out[1])[i] = Trim(in)[i]
        [] answer.op = "pieces" /\ Len(in.divider) = 1 ->
             joined(answer.out, in.divider[1]) = in.divider \o in.text
        [] answer.op = "pieces" /\ Len(in.divider) > 1 ->
             FlattenSeq(answer.out) = SelectSeq(in.text, LAMBDA c : c \notin ToSet(in.divider))
        [] answer.op = "lines" ->
             \E rest \in {SubSeq(in.text, k, Len(in.text)) : k \in 1..Len(in.text) + 1} :
               joined(answer.out \o <<rest>>, in.divider[1]) = in.divider \o in.text
        [] answer.op = "settings" ->
             /\ \A i, j \in DOMAIN answer.out : answer.out[i][1] = answer.out[j][1] => i = j
             /\ ~in.readable => \A l \in ToSet(in.lines) : GetSetting(answer.out, Word(l, 1)) = None
             /\ in.readable => \A i \in 1..Len(in.args) - 1 :
                  (/\ in.args[i].setting /\ ~in.args[i + 1].setting
                   /\ i = 1 \/ ~in.args[i - 1].setting
                   /\ \A k \in i + 1..Len(in.args) : in.args[k].text # in.args[i].text) =>
                    GetSetting(answer.out, in.args[i].text) = in.args[i + 1].text
        [] OTHER -> TRUE

\* After a replacement a search finds the new value only.  The old comment is
\* not gone: it is there without one of its characters (tv_meta_t::add_param).
ReplaceFindsNew ==
  added.replace =>
    /\ SearchForParam(comments, added.param) = <<<<Equal>> \o added.value>>
    /\ Len(comments) = Len(added.old) + 1
    /\ \A i \in DOMAIN added.old :
         ~Begins(added.old[i], added.param) => comments[i] = added.old[i]

\* Both: what is written as text, or put into the comments, is what is read
\* (convert.cpp, settings.cpp, tv_meta.cpp).
TextsReadBack == ConversionsReadBack /\ ReplaceFindsNew

\* Whole numbers that are not negative are in order, and so are numbers whose
\* whole parts differ.  Two equal numbers with fractional parts are never
\* found equal: the comparison does not return.  A negative number is greater
\* than every other (math::number::cmp, the precedence of ?: in its loops).
NumbersOrdered ==
  LET x == answer.in[1]  y == answer.in[2]
  IN  /\ answer.op = "compare" =>
           /\ x[1] >= 0 /\ y[1] >= 0 /\ (Len(x) + Len(y) = 2 \/ x[1] # y[1]) =>
                answer.out = Order(x[1], y[1])
           /\ x[1] < 0 /\ y[1] >= 0 => answer.out = "greater"
           /\ answer.out = Never <=>
                x[1] = y[1] /\ Len(y) = 2 /\ y[2] = (IF Len(x) = 2 THEN x[2] ELSE 0)
      /\ answer.op = "number" /\ answer.in[1] >= 0 =>
           answer.out = IF Len(answer.in) = 2 THEN answer.in ELSE Append(answer.in, 0)

=============================================================================

------------------------------ MODULE Recorder ------------------------------
(***************************************************************************)
(* The numerical TCP sink (tv/sink/numerical/tcp/): meters connect and     *)
(* send lines, a pull makes samples of the lines and frames of the         *)
(* samples.  A line is four items, the last one the time: numbers are      *)
(* naturals, other characters negative.  One buffer takes what has come    *)
(* from all meters; each pull reads one line.                              *)
(***************************************************************************)
EXTENDS Integers, Sequences, SequencesExt, FiniteSets

CONSTANTS Meters,    \* clients that send samples
          Second,    \* 1*1000*1000
          Wrap       \* 2^32 and 2^64: a difference of times wraps around

ASSUME RecorderAssumption == IsFiniteSet(Meters) /\ Second \in Nat /\ Wrap \in Nat \ {0} /\ Second < Wrap

VARIABLES
  flight,    \* what a meter has sent and the sink has not taken
  buffer,    \* tcp_accept_state_ptr->buffer
  samples,   \* data_buffer: [value, time]
  entered,   \* history: the samples whose line entered the buffer
  torn       \* history: part of a line entered the buffer

recorderVars == <<flight, buffer, samples, entered, torn>>

Space   == -1
LineFeed == -2
Unit    == -3

LineOf(s) == <<1, Space, s.value, Space, Unit, Space, s.time, LineFeed>>
LineLength == 8

RecorderInit ==
  /\ flight = [m \in Meters |-> <<>>] /\ buffer = <<>> /\ samples = <<>>
  /\ entered = <<>> /\ torn = FALSE

-----------------------------------------------------------------------------
(* Reading a line: formatted_to_computable.                                *)

\* pull_until_end_of_item: nothing, and nothing is taken, without the delimiter.
PullItem(acc, delimiter) ==
  LET i == SelectInSeq(acc.rest, LAMBDA x : x = delimiter)
  IN  IF i = 0 THEN [acc EXCEPT !.items = Append(@, <<>>)]
      ELSE [items |-> Append(acc.items, SubSeq(acc.rest, 1, i - 1)),
            rest  |-> SubSeq(acc.rest, i + 1, Len(acc.rest))]

\* stoll, stold and stoull read the number an item begins with, behind white
\* space, or throw.
Begin(item)    == SelectInSeq(item, LAMBDA x : x \notin {Space, LineFeed})
IsNumber(item) == Begin(item) # 0 /\ item[Begin(item)] >= 0
Number(item)   == item[Begin(item)]

ReadItems(b) ==
  FoldLeft(PullItem, [items |-> <<>>, rest |-> b], <<Space, Space, Space, LineFeed>>)

\* An item that is missing drops those that were there; an item that is no
\* number puts everything back.
LineRead(b) ==
  LET read == ReadItems(b)
  IN  IF <<>> \in ToSet(read.items) THEN [found |-> <<>>, rest |-> read.rest]
      ELSE IF \E i \in {1, 2, 4} : ~IsNumber(read.items[i]) THEN [found |-> <<>>, rest |-> b]
      ELSE [found |-> <<[value |-> Number(read.items[2]), time |-> Number(read.items[4])]>>,
            rest  |-> read.rest]

-----------------------------------------------------------------------------
(* PULL                                                                    *)

Later(a, b) == (b - a) % Wrap    \* unsigned

\* The first sample more than a second behind the first one ends a frame, which
\* holds both; the samples in front of it are erased.  The samples but the last
\* have been looked at by earlier pulls.
CutFrame(data) ==
  LET last == Len(data)
  IN  IF Later(data[1].time, data[last].time) > Second
      THEN [frames |-> <<data>>, rest |-> <<data[last]>>]
      ELSE [frames |-> <<>>, rest |-> data]

\* socket_check appends what each socket has received, taken[m] characters of
\* what meter m has sent, and one line is read.
Received(taken) ==
  FlattenSeq([k \in 1..Cardinality(Meters) |->
                LET m == SetToSeq(Meters)[k] IN SubSeq(flight[m], 1, taken[m])])
DataWith(taken) == samples \o LineRead(buffer \o Received(taken)).found
LinesOf(s) == [k \in 1..(Len(s) \div LineLength) |->
                 [value |-> s[(k - 1) * LineLength + 3],
                  time  |-> s[(k - 1) * LineLength + 7]]]

\* The frames a pull returns.
Pulled(taken) ==
  IF DataWith(taken) = <<>> THEN <<>> ELSE CutFrame(DataWith(taken)).frames

Pull(taken) ==
  /\ flight' = [m \in Meters |-> SubSeq(flight[m], taken[m] + 1, Len(flight[m]))]
  /\ buffer' = LineRead(buffer \o Received(taken)).rest
  /\ samples' = IF DataWith(taken) = <<>> THEN <<>> ELSE CutFrame(DataWith(taken)).rest
  /\ torn' = (torn \/ \E m \in Meters : taken[m] % LineLength # 0)
  /\ entered' = IF torn' THEN <<>> ELSE entered \o LinesOf(Received(taken))

-----------------------------------------------------------------------------
\* A meter sends a line.
Measure(m, s) ==
  /\ flight' = [flight EXCEPT ![m] = @ \o LineOf(s)]
  /\ UNCHANGED <<buffer, samples, entered, torn>>

=============================================================================

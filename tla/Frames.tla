------------------------------- MODULE Frames -------------------------------
(***************************************************************************)
(* The linked lists of frames: linking a vector of them (link_vector of    *)
(* id_api.cpp), joining what a sink delivered to the stream (tv.cpp), and  *)
(* the walks over the lists: by distance, until a match, to a moment       *)
(* (tv_frame_scroll_to_time).  A frame is a number, in the order of        *)
(* creation; 0 is the blank id.                                            *)
(***************************************************************************)
EXTENDS Integers, Sequences, SequencesExt

CONSTANTS Depth,       \* how many ids link_vector puts in a list
          MaxFrames,   \* bound on the frames
          Span,        \* the time a frame lasts
          Gaps         \* the times that may pass between two frames

ASSUME FramesAssumption ==
  /\ Depth \in Nat \ {0} /\ MaxFrames \in Nat \ {0}
  /\ Span \in Nat \ {0} /\ Gaps \subseteq Nat

VARIABLES lists,       \* lists[f]: the ids before and behind f
          spans,       \* spans[f]: when f starts and ends
          batches      \* the frames, by the vector they came in (history)

frameVars == <<lists, spans, batches>>

BlankFrame == 0
Forever    == -1        \* a walk that never ends
AllFrames == DOMAIN lists
InBatch(f) == CHOOSE b \in DOMAIN batches : f \in ToSet(batches[b])

-----------------------------------------------------------------------------
(* link_vector                                                             *)

\* set_linked_list: a frame is taken out of its own lists.
Without(list, f) ==
  FlattenSeq([i \in DOMAIN list |-> IF list[i] = f THEN <<>> ELSE <<list[i]>>])
SetLists(l, f, first, second) ==
  [l EXCEPT ![f] = [first |-> Without(first, f), second |-> Without(second, f)]]

\* Mutant: the nearest frame in front of a frame goes to the front of its list.
LinkOneReversed(acc, v, i) ==
  LET f        == v[i]
      forward  == SubSeq(v, i + 1, IF i + Depth < Len(v) THEN i + Depth ELSE Len(v))
      backward == Reverse(SubSeq(v, IF i > Depth THEN i - Depth ELSE 1, i - 1))
  IN  [threw |-> FALSE, lists |-> SetLists(acc.lists, f, backward, forward)]

\* One frame of the vector: a list it has already stays; the ASSERTs want the
\* lists to begin with its neighbours and the ends to have none outside.
LinkOne(acc, v, i) ==
  LET f        == v[i]
      old      == acc.lists[f]
      forward  == IF old.second # <<>> THEN old.second
                  ELSE SubSeq(v, i + 1, IF i + Depth < Len(v) THEN i + Depth ELSE Len(v))
      backward == IF old.first # <<>> THEN old.first
                  ELSE SubSeq(v, IF i > Depth THEN i - Depth ELSE 1, i - 1)
      sound    == /\ (backward = <<>>) = (i = 1)
                  /\ (forward = <<>>) = (i = Len(v))
                  /\ i > 1 => Last(backward) = v[i - 1]
                  /\ i < Len(v) => forward[1] = v[i + 1]
  IN  IF acc.threw THEN acc
      ELSE IF ~sound THEN [acc EXCEPT !.threw = TRUE]
      ELSE [acc EXCEPT !.lists = SetLists(acc.lists, f, backward, forward)]

\* A vector of two gets its lists whatever was there.
LinkVector(l, v) ==
  CASE Len(v) < 2 -> [threw |-> FALSE, lists |-> l]
    [] Len(v) = 2 -> [threw |-> FALSE,
                      lists |-> SetLists(SetLists(l, v[1], <<>>, <<v[2]>>),
                                         v[2], <<v[1]>>, <<>>)]
    [] OTHER -> FoldLeft(LAMBDA acc, i : LinkOne(acc, v, i),
                         [threw |-> FALSE, lists |-> l], [i \in DOMAIN v |-> i])

-----------------------------------------------------------------------------
(* Walks over the frames in known, those this node has.                    *)

\* by_distance: up to |distance| + 1 ids; a frame that is not here is the last.
\* Backwards the walk takes the first id of the list, the farthest.
Neighbour(f, forwards) ==
  LET list == IF forwards THEN lists[f].second ELSE lists[f].first
  IN  IF list = <<>> THEN BlankFrame ELSE list[1]
WalkOn(acc, known, forwards) ==
  IF acc.at \notin known \/ Neighbour(acc.at, forwards) = BlankFrame
  THEN [acc EXCEPT !.at = BlankFrame]
  ELSE [at |-> Neighbour(acc.at, forwards),
        seen |-> Append(acc.seen, Neighbour(acc.at, forwards))]
Rounds(distance) == [k \in 1..((IF distance > 0 THEN distance ELSE -distance) + 1) |-> k]

ByDistance(start, distance, known) ==
  FoldLeft(LAMBDA acc, k : WalkOn(acc, known, distance > 0),
           [at |-> start, seen |-> <<>>], Rounds(distance)).seen

\* by_distance_until_match: ends at the target; backwards it is turned round.
ByDistanceUntil(start, distance, target, known) ==
  LET walked == FoldLeft(LAMBDA acc, k : IF acc.at = target THEN acc
                                         ELSE WalkOn(acc, known, distance > 0),
                         [at |-> start, seen |-> <<>>], Rounds(distance)).seen
  IN  IF distance > 0 THEN walked ELSE Reverse(walked)

\* pos_in_linked_list: both searches follow the list of the frames in front,
\* and the goal has to be where a search ends.
PosInList(ref, goal, radius) ==
  LET back == FoldLeft(LAMBDA acc, k : IF acc.at = BlankFrame THEN acc
                                       ELSE IF lists[acc.at].first = <<>>
                                       THEN [acc EXCEPT !.at = BlankFrame]
                                       ELSE [at |-> lists[acc.at].first[1], n |-> acc.n + 1],
                       [at |-> ref, n |-> 0], [k \in 1..radius |-> k])
  IN  IF back.at = goal THEN <<-back.n>> ELSE <<>>   \* the empty one: threw

\* Mutant: frames behind are looked for from the end of the list.
ScrollStepFar(f, time, known) ==
  LET list == IF time > spans[f].end THEN Reverse(lists[f].second) ELSE lists[f].first
  IN  IF f \notin known THEN BlankFrame
      ELSE IF spans[f].start <= time /\ time <= spans[f].end THEN f
      ELSE IF list = <<>> THEN BlankFrame ELSE list[1]

\* tv_frame_scroll_to_time, one round: stay, or go to the first id of a list.
ScrollStep(f, time, known) ==
  LET list == IF time > spans[f].end THEN lists[f].second ELSE lists[f].first
  IN  IF f \notin known THEN BlankFrame
      ELSE IF spans[f].start <= time /\ time <= spans[f].end THEN f
      ELSE IF list = <<>> THEN BlankFrame ELSE list[1]

\* A walk that has not ended after twice as many rounds as there are frames
\* is at a frame for the second time, and never ends.
ScrollToTime(f, time, known) ==
  LET stop(g) == g \notin known \/ ScrollStep(g, time, known) = g
      end == FoldLeft(LAMBDA g, k : IF stop(g) THEN g ELSE ScrollStep(g, time, known),
                      f, [k \in 1..(2 * Len(lists)) |-> k])
  IN  IF end \notin known THEN BlankFrame
      ELSE IF stop(end) THEN end ELSE Forever

-----------------------------------------------------------------------------
\* The frame an item is created with, which window and item share.
FramesInit ==
  /\ lists = <<[first |-> <<>>, second |-> <<>>]>>
  /\ spans = <<[start |-> 1, end |-> 1 + Span]>>
  /\ batches = <<<<1>>>>

\* tv_loop_sink_inward_flow: the sink delivers n frames, the times between them
\* being the sink's; they are linked and joined to the frame of the stream,
\* the last of the ones before.
InwardFrames(n, gaps) ==
  LET old  == Last(Last(batches))
      new  == [i \in 1..n |-> Len(lists) + i]
      room == lists \o [i \in 1..n |-> [first |-> <<>>, second |-> <<>>]]
      made == LinkVector(room, new)
  IN  /\ Len(lists) + n <= MaxFrames
      /\ ~made.threw
      /\ lists' = SetLists(made.lists, old, made.lists[old].first, new)
      /\ spans' = FoldLeft(LAMBDA acc, i :
                     LET from == Last(acc).end + gaps[i]
                     IN  Append(acc, [start |-> from, end |-> from + Span]),
                   spans, [i \in 1..n |-> i])
      /\ batches' = Append(batches, new)

FramesNext ==
  \E n \in 1..MaxFrames : \E gaps \in [1..n -> Gaps] : InwardFrames(n, gaps)

FramesSpec == FramesInit /\ [][FramesNext]_frameVars

-----------------------------------------------------------------------------
Upto(a, b) == IF a < b THEN a ELSE b

\* Walks over frames that are all here: forward they list the frames behind in
\* order, across the vectors they came in, one more than was asked for;
\* backward they go Depth frames at a time and never leave the vector of the
\* frame.  A walk over a frame that is missing ends with it.  Both directions
\* of a search find only frames in front (link_vector, by_distance,
\* by_distance_until_match, pos_in_linked_list).
ListsWalk ==
  LET Start(f) == batches[InBatch(f)][1]
      Back(f)  == IF f - Depth > Start(f) THEN f - Depth ELSE Start(f)
  IN  \A f \in AllFrames, k \in 1..3 :
        LET forward == ByDistance(f, k, AllFrames)
            back    == ByDistance(f, -k, AllFrames)
        IN  /\ forward = [i \in 1..Upto(k + 1, Len(lists) - f) |-> f + i]
            /\ \A i \in DOMAIN back : back[i] = Back(IF i = 1 THEN f ELSE back[i - 1])
            /\ back = <<>> \/ Last(back) = Start(f) \/ Len(back) = k + 1
            /\ back = <<>> => f = Start(f)
            /\ f < Len(lists) =>
                 ByDistance(f, k, AllFrames \ {f + 1}) = <<f + 1>>
            /\ \A g \in (f + 1)..Len(lists) :
                 /\ ByDistanceUntil(f, k, g, AllFrames) =
                      [i \in 1..Upto(k + 1, g - f) |-> f + i]
                 /\ PosInList(f, g, k) = <<>>
            /\ ByDistanceUntil(f, -k, Start(f), AllFrames) = Reverse(back)

\* Looking for the frame of a moment finds one that lasts then, if the vector
\* of the frame it starts from or a later one has one.  It never ends when the
\* moment lies between two frames of one such vector, and finds nothing else
\* (tv_frame_scroll_to_time; its comment wants it protected against that).
ScrollFinds ==
  \A f \in AllFrames, time \in 0..(Last(spans).end + 1) :
    LET result == ScrollToTime(f, time, AllFrames)
        ahead  == {g \in AllFrames : InBatch(g) >= InBatch(f)}
        there  == {g \in ahead : spans[g].start <= time /\ time <= spans[g].end}
        gap    == \E g \in ahead : /\ g - 1 \in ahead /\ InBatch(g) = InBatch(g - 1)
                                   /\ spans[g - 1].end < time /\ time < spans[g].start
    IN  IF there # {} THEN result \in there
        ELSE result = IF gap THEN Forever ELSE BlankFrame

=============================================================================
